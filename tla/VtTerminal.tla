----------------------------- MODULE VtTerminal -----------------------------
(* The terminal widget of vtterminalwidget.cpp: the bytes of the remote side  *)
(* arrive in chunks cut anywhere, a parser obeys what is complete and keeps   *)
(* the rest, and the user scrolls back, selects and searches what there is.   *)
(* A line number counts from the oldest line of the scrollback to the last    *)
(* row of the screen, as in the code.  A cell is its character: colours and   *)
(* the other attributes are left out, except the shape of the highlight cache,*)
(* and so are the reports of the mouse to an application that asked for them. *)
EXTENDS Integers, Sequences, SequencesExt, FiniteSetsExt

CONSTANTS
  Sizes,         \* <<columns, rows>> the widget may get
  FirstSize,     \* the one it starts with
  ScrollbackMax, \* m_scrollbackMax
  Items,         \* what the remote side prints: sequences of bytes
  Needle,        \* the text searched for
  MaxItems,      \* bound: items printed
  MaxEvents      \* bound: what the user does

ASSUME InstanceAssumption ==
  /\ FirstSize \in Sizes /\ Sizes \subseteq (Nat \ {0}) \X (Nat \ {0})
  /\ ScrollbackMax \in Nat \ {0} /\ MaxItems \in Nat /\ MaxEvents \in Nat
  /\ Items \subseteq Seq(STRING)
  /\ Needle \in Seq(STRING) /\ Len(Needle) > 0

VARIABLES
  screen,   \* cells, cursor, scrollback and scroll offset; history: the lines gone
  buffer,   \* m_parseBuffer
  byByte,   \* history: screen and buffer, had every byte come alone
  wire,     \* bytes of the last item that have not arrived
  sel,      \* the selection: from and to, each a column and a line
  selecting,\* m_selecting
  cache,    \* the highlight cache: its shape, its first line, m_highlightDirty
  items, events \* counted against the bounds

vars == <<screen, buffer, byByte, wire, sel, selecting, cache, items, events>>

Blank == " "
Blanks(n) == [i \in 1..n |-> Blank]
Bound(lo, n, hi) == Max({lo, Min({n, hi})})

(* The screen.  cells is one row after the other, as m_cells is: position     *)
(* (x, y) is Index(s, x, y), and x = cols names the first cell of the next row.*)
Fresh(size) == [cols |-> size[1], rows |-> size[2], x |-> 0, y |-> 0,
                cells |-> Blanks(size[1] * size[2]), back |-> <<>>, offset |-> 0,
                gone |-> 0, wild |-> FALSE]
Index(s, x, y) == y * s.cols + x + 1
Row(s, y) == SubSeq(s.cells, Index(s, 0, y), Index(s, s.cols - 1, y))

(* New cells by their index; wild is a write outside the array.               *)
Written(s, new) ==
  [s EXCEPT !.cells = [i \in 1..Len(@) |-> IF i \in DOMAIN new THEN new[i] ELSE @[i]],
            !.wild = @ \/ ~(DOMAIN new \subseteq 1..Len(s.cells))]
Erased(s, S) == Written(s, [i \in S |-> Blank])

(* mutant: the lines shown move when output scrolls.                          *)
ScrollUpPlain(s) ==
  LET grown == Append(s.back, Row(s, 0))
      kept == IF Len(grown) > ScrollbackMax THEN Tail(grown) ELSE grown
  IN [s EXCEPT !.back = kept, !.gone = @ + Len(grown) - Len(kept),
               !.cells = SubSeq(@, s.cols + 1, Len(@)) \o Blanks(s.cols)]
ScrollUp(s) ==
  LET grown == Append(s.back, Row(s, 0))
      kept == IF Len(grown) > ScrollbackMax THEN Tail(grown) ELSE grown
  IN [s EXCEPT !.back = kept, !.gone = @ + Len(grown) - Len(kept),
               !.cells = SubSeq(@, s.cols + 1, Len(@)) \o Blanks(s.cols),
               !.offset = IF @ > 0 THEN Min({@ + 1, Len(kept)}) ELSE @]

NewLine(s) == LET left == [s EXCEPT !.x = 0]
              IN IF s.y = s.rows - 1 THEN ScrollUp(left) ELSE [left EXCEPT !.y = @ + 1]

(* A character after the last column goes to the next line first.             *)
Printed(s, ch) ==
  LET t == IF s.x >= s.cols THEN NewLine(s) ELSE s
  IN [Written(t, [i \in {Index(t, t.x, t.y)} |-> ch]) EXCEPT !.x = @ + 1]

-----------------------------------------------------------------------------
(* The parser.  ItemLength is the length of the item at the head of the       *)
(* buffer, 0 while it is incomplete.  "L2" and "L4" begin characters of two   *)
(* and four bytes, "c" continues one.                                         *)
Final(b) == b \in {"A", "B", "C", "D", "E", "F", "G", "d", "H", "J", "K", "L", "M", "P", "@", "[", "]", "m", "a", "b"}
Digit == [d \in {"0", "1", "2", "3", "4", "5"} |-> CASE d = "0" -> 0 [] d = "1" -> 1 [] d = "2" -> 2
                                                    [] d = "3" -> 3 [] d = "4" -> 4 [] OTHER -> 5]

EndOf(ends) == IF ends = {} THEN 0 ELSE Min(ends)
EndOfCsi(buf) == EndOf({k \in 3..Len(buf) : Final(buf[k])})
EndOfOsc(buf) == EndOf({k \in 3..Len(buf) : \/ buf[k] = "BEL"
                                            \/ buf[k] = "ESC" /\ k < Len(buf) /\ buf[k + 1] = "\\"})
Needed(b) == CASE b = "L2" -> 2 [] b = "L4" -> 4 [] OTHER -> 1

(* decodeUtf8 knows no four bytes, and takes a byte that continues one        *)
(* character, met alone, for the first of a pair if there is another.         *)
Decoded(buf) == IF buf[1] \in {"L2", "c"} /\ Len(buf) > 1 THEN 2 ELSE 1

(* mutant: a character cut in two is not waited for.                          *)
CharacterLengthNow(buf) == Decoded(buf)
CharacterLength(buf) == IF Len(buf) < Needed(buf[1]) THEN 0 ELSE Decoded(buf)

ItemLength(buf) ==
  CASE buf = <<>> -> 0
    [] buf # <<>> /\ buf[1] # "ESC" -> CharacterLength(buf)
    [] OTHER -> CASE Len(buf) = 1 -> 0
                  [] Len(buf) > 1 /\ buf[2] = "[" -> EndOfCsi(buf)
                  [] Len(buf) > 1 /\ buf[2] = "]" -> EndOfOsc(buf)
                  [] Len(buf) > 1 /\ buf[2] \in {"(", ")"} -> IF Len(buf) < 3 THEN 0 ELSE 3
                  [] OTHER -> 2

(* J, K, P, @, L and M: what each blanks or moves, with the code's own bounds.*)
(* x <= cursorX takes one cell too many after the last column was written,    *)
(* and P blanks its last n columns however few are right of the cursor.       *)
EraseToCursor(s) == {Index(s, x, s.y) : x \in 0..s.x}
EraseFromCursor(s) == {Index(s, x, s.y) : x \in s.x..s.cols - 1}
EraseDisplay(s, mode) ==
  CASE mode \in {2, 3} -> [Erased(s, 1..Len(s.cells)) EXCEPT !.back = <<>>, !.gone = @ + Len(s.back)]
    [] mode = 0 -> Erased(s, EraseFromCursor(s) \cup (Index(s, 0, s.y + 1)..Len(s.cells)))
    [] mode = 1 -> Erased(s, EraseToCursor(s) \cup (1..Index(s, 0, s.y) - 1))
    [] OTHER -> s
EraseLine(s, mode) ==
  CASE mode = 0 -> Erased(s, EraseFromCursor(s))
    [] mode = 1 -> Erased(s, EraseToCursor(s))
    [] mode = 2 -> Erased(s, {Index(s, x, s.y) : x \in 0..s.cols - 1})
    [] OTHER -> s
DeleteCharacters(s, n) ==
  LET moved == Written(s, [i \in {Index(s, x, s.y) : x \in s.x..s.cols - n - 1} |-> s.cells[i + n]])
  IN Erased(moved, {Index(s, x, s.y) : x \in s.cols - n..s.cols - 1})
(* mutant: the characters right of the gap move on into the next row.         *)
InsertCharactersFar(s, n) ==
  LET far == {Index(s, x, s.y) : x \in s.x + n..s.cols - 1 + n} \cap 1..Len(s.cells)
      moved == Written(s, [i \in far |-> s.cells[i - n]])
  IN Erased(moved, {Index(s, x, s.y) : x \in s.x..Min({s.x + n, s.cols}) - 1})
InsertCharacters(s, n) ==
  LET moved == Written(s, [i \in {Index(s, x, s.y) : x \in s.x + n..s.cols - 1} |-> s.cells[i - n]])
  IN Erased(moved, {Index(s, x, s.y) : x \in s.x..Min({s.x + n, s.cols}) - 1})
(* n times one line: from the cursor's row down there are no more to move.    *)
InsertLines(s, n) ==
  LET at == Index(s, 0, s.y) - 1
      new == Min({n, s.rows - s.y}) * s.cols
  IN [s EXCEPT !.cells = SubSeq(@, 1, at) \o Blanks(new) \o SubSeq(@, at + 1, Len(@) - new)]
DeleteLines(s, n) ==
  LET at == Index(s, 0, s.y) - 1
      new == Min({n, s.rows - s.y}) * s.cols
  IN [s EXCEPT !.cells = SubSeq(@, 1, at) \o SubSeq(@, at + new + 1, Len(@)) \o Blanks(new)]

Csi(s, final, nums) ==
  LET n == IF nums = <<>> THEN 1 ELSE Max({1, nums[1]})
      mode == IF nums = <<>> THEN 0 ELSE nums[1]
      Nth(k) == IF Len(nums) < k THEN 1 ELSE nums[k]
  IN CASE final = "A" -> [s EXCEPT !.y = Max({0, @ - n})]
       [] final = "B" -> [s EXCEPT !.y = Min({s.rows - 1, @ + n})]
       [] final = "C" -> [s EXCEPT !.x = Min({s.cols - 1, @ + n})]
       [] final = "D" -> [s EXCEPT !.x = Max({0, @ - n})]
       [] final = "E" -> [s EXCEPT !.x = 0, !.y = Min({s.rows - 1, @ + n})]
       [] final = "F" -> [s EXCEPT !.x = 0, !.y = Max({0, @ - n})]
       [] final = "G" -> [s EXCEPT !.x = Bound(0, Nth(1) - 1, s.cols - 1)]
       [] final = "d" -> [s EXCEPT !.y = Bound(0, Nth(1) - 1, s.rows - 1)]
       [] final = "H" -> [s EXCEPT !.y = Bound(0, Nth(1) - 1, s.rows - 1),
                                   !.x = Bound(0, Nth(2) - 1, s.cols - 1)]
       [] final = "J" -> EraseDisplay(s, mode)
       [] final = "K" -> EraseLine(s, mode)
       [] final = "L" -> InsertLines(s, n)
       [] final = "M" -> DeleteLines(s, n)
       [] final = "P" -> DeleteCharacters(s, n)
       [] final = "@" -> InsertCharacters(s, n)
       [] OTHER -> s

Control(s, b) ==
  CASE b = "CR" -> [s EXCEPT !.x = 0]
    [] b = "LF" -> NewLine(s)
    [] b = "BS" -> [s EXCEPT !.x = Max({0, @ - 1})]
    [] b = "TAB" -> [s EXCEPT !.x = Min({s.cols - 1, (@ \div 8 + 1) * 8})]
    [] b = "BEL" -> s
    [] OTHER -> Printed(s, b)

(* The parameters, each of one digit here; what is no number is passed over.  *)
Numbers(params) ==
  LET nums[i \in 0..Len(params)] ==
        IF i = 0 THEN <<>>
        ELSE IF params[i] \in DOMAIN Digit THEN Append(nums[i - 1], Digit[params[i]]) ELSE nums[i - 1]
  IN nums[Len(params)]

(* An OSC sets the title or the folder of the tab: nothing of the screen.     *)
Obeyed(s, item) ==
  CASE item[1] # "ESC" -> Control(s, IF item[1] = "L2" THEN "wide" ELSE item[1])
    [] item[1] = "ESC" /\ item[2] = "[" ->
         Csi(s, Last(item), Numbers(SubSeq(item, 3, Len(item) - 1)))
    [] item[1] = "ESC" /\ item[2] = "M" -> [s EXCEPT !.y = Max({0, @ - 1})]
    [] OTHER -> s

(* writeData: append, then obey what is complete.                             *)
ObeyNext(now) ==
  LET n == ItemLength(now[2])
  IN IF n = 0 THEN now
     ELSE <<Obeyed(now[1], SubSeq(now[2], 1, n)), SubSeq(now[2], n + 1, Len(now[2]))>>
ParseBuffer(s, buf) ==
  LET after[k \in 0..Len(buf)] == IF k = 0 THEN <<s, buf>> ELSE ObeyNext(after[k - 1])
  IN after[Len(buf)]
ParseByte(now, b) == ParseBuffer(now[1], Append(now[2], b))

Feed(item, k) ==
  LET stream == wire \o item
      chunk == SubSeq(stream, 1, k)
      parsed == ParseBuffer(screen, buffer \o chunk)
      after[i \in 0..k] == IF i = 0 THEN byByte ELSE ParseByte(after[i - 1], chunk[i])
  IN /\ k > 0 /\ k >= Len(wire)
     /\ screen' = parsed[1] /\ buffer' = parsed[2]
     /\ byByte' = after[k]
     /\ wire' = SubSeq(stream, k + 1, Len(stream))
     /\ cache' = [cache EXCEPT !.dirty = TRUE]
     /\ UNCHANGED <<sel, selecting, events>>

(* The remote side prints; a chunk ends anywhere in the item.                 *)
WriteData ==
  /\ items < MaxItems /\ items' = items + 1
  /\ \E item \in Items : \E k \in 1..Len(wire) + Len(item) : Feed(item, k)
WriteRest == wire # <<>> /\ Feed(<<>>, Len(wire)) /\ UNCHANGED items

-----------------------------------------------------------------------------
(* Garbage is what a read behind the end of a line gives.                     *)
Garbage == "garbage"

(* Lines by number, for painting, selecting and searching.                    *)
TotalLines(s) == Len(s.back) + s.rows
FirstVisible(s) == Len(s.back) - s.offset
CellAt(s, x, n) ==
  CASE n < 0 \/ n >= TotalLines(s) -> Blank
    [] n \in 0..Len(s.back) - 1 -> IF x < Len(s.back[n + 1]) THEN s.back[n + 1][x + 1] ELSE Garbage
    [] OTHER -> s.cells[Index(s, x, n - Len(s.back))]
Line(s, n) == [x \in 1..s.cols |-> CellAt(s, x - 1, n)]

(* The cells of the new size, from the old ones where both have them.         *)
Resized(s, size) ==
  [s EXCEPT !.cols = size[1], !.rows = size[2],
            !.x = Min({@, size[1] - 1}), !.y = Min({@, size[2] - 1}),
            !.cells = [i \in 1..size[1] * size[2] |->
                         LET x == (i - 1) % size[1]
                             y == (i - 1) \div size[1]
                         IN IF x < s.cols /\ y < s.rows THEN s.cells[Index(s, x, y)] ELSE Blank]]
Emptied(s, size) == [Resized(s, size) EXCEPT !.back = <<>>, !.offset = 0]

OnEvent(Act) == events < MaxEvents /\ events' = events + 1 /\ Act
Still == UNCHANGED <<buffer, wire, items>>
Both(Op(_)) == screen' = Op(screen) /\ byByte' = <<Op(byByte[1]), byByte[2]>>

(* A new size of the widget drops the scrollback, a new font keeps it at its  *)
(* old width and the highlight cache at its old shape.                        *)
(* mutant: the highlight cache outlives the resize.                           *)
ResizeEventKeepsCache(size) ==
  /\ size # <<screen.cols, screen.rows>>
  /\ LET Op(s) == Emptied(s, size) IN Both(Op)
  /\ selecting' = FALSE
  /\ UNCHANGED <<cache, sel>> /\ Still
ResizeEvent(size) ==
  /\ size # <<screen.cols, screen.rows>>
  /\ LET Op(s) == Emptied(s, size) IN Both(Op)
  /\ selecting' = FALSE /\ cache' = [cache EXCEPT !.dirty = TRUE]
  /\ UNCHANGED sel /\ Still
SetTerminalFont(size) ==
  /\ size # <<screen.cols, screen.rows>>
  /\ LET Op(s) == Resized(s, size) IN Both(Op)
  /\ UNCHANGED <<cache, sel, selecting>> /\ Still

(* paintEvent rebuilds the highlight cache only when it is told to or when the*)
(* first line is another one.                                                 *)
Stale == cache.dirty \/ cache.first # FirstVisible(screen)
PaintEvent ==
  /\ Stale
  /\ cache' = [cols |-> screen.cols, rows |-> screen.rows,
               first |-> FirstVisible(screen), dirty |-> FALSE]
  /\ UNCHANGED <<screen, byByte, sel, selecting, events>> /\ Still

WheelEvent(lines) ==
  /\ LET Op(s) == [s EXCEPT !.offset = Bound(0, @ + lines, Len(s.back))] IN Both(Op)
  /\ cache' = [cache EXCEPT !.dirty = TRUE]
  /\ UNCHANGED <<sel, selecting>> /\ Still

PosToGrid(x, row) == <<x, FirstVisible(screen) + row>>
MousePress(x, row) ==
  /\ ~selecting /\ selecting' = TRUE
  /\ sel' = [from |-> PosToGrid(x, row), to |-> PosToGrid(x, row)]
  /\ UNCHANGED <<screen, byByte, cache>> /\ Still
MouseMove(x, row) ==
  /\ selecting
  /\ sel' = [sel EXCEPT !.to = PosToGrid(x, row)]
  /\ UNCHANGED <<screen, byByte, cache, selecting>> /\ Still
MouseRelease ==
  /\ selecting /\ selecting' = FALSE
  /\ UNCHANGED <<screen, byByte, cache, sel, events>> /\ Still

-----------------------------------------------------------------------------
(* Searching.  A position is a line and a column; Before orders them.         *)
Before(p, q) == p[1] < q[1] \/ (p[1] = q[1] /\ p[2] < q[2])
Matches == {p \in (0..TotalLines(screen) - 1) \X (0..screen.cols - Len(Needle)) :
              SubSeq(Line(screen, p[1]), p[2] + 1, p[2] + Len(Needle)) = Needle}
FirstOf(S) == CHOOSE p \in S : \A q \in S \ {p} : Before(p, q)
LastOf(S) == CHOOSE p \in S : \A q \in S \ {p} : Before(q, p)
Flip(p) == <<p[2], p[1]>>
Selected == sel.from # sel.to
SelStart == IF Before(Flip(sel.to), Flip(sel.from)) THEN Flip(sel.to) ELSE Flip(sel.from)
SelEnd == IF Before(Flip(sel.to), Flip(sel.from)) THEN Flip(sel.from) ELSE Flip(sel.to)

(* The loops of findText.  Backwards, the column before the first one is -1,  *)
(* which lastIndexOf takes for the last one; and the second loop looks at the *)
(* first line only as far as the first loop did.                              *)
NextMatch ==
  LET from == IF Selected THEN <<SelEnd[1], SelEnd[2] + 1>> ELSE <<FirstVisible(screen), 0>>
      ahead == {p \in Matches : ~Before(p, from)}
      wrapped == {p \in Matches : p[1] <= from[1] /\ Before(p, from)}
  IN IF ahead # {} THEN {FirstOf(ahead)} ELSE IF wrapped # {} THEN {FirstOf(wrapped)} ELSE {}
(* mutant: the search backwards finds the match that is already selected.     *)
PreviousMatchAgain ==
  LET from == IF Selected THEN SelStart ELSE <<FirstVisible(screen), 0>>
      behind == {p \in Matches : p[1] < from[1] \/ (p[1] = from[1] /\ p[2] <= from[2])}
      wrapped == {p \in Matches : p[1] > from[1]}
  IN IF behind # {} THEN {LastOf(behind)} ELSE IF wrapped # {} THEN {LastOf(wrapped)} ELSE {}
PreviousMatch ==
  LET from == IF Selected THEN <<SelStart[1], SelStart[2] - 1>> ELSE <<FirstVisible(screen), 0>>
      InReach(p) == from[2] = -1 \/ p[2] <= from[2]
      behind == {p \in Matches : p[1] < from[1] \/ (p[1] = from[1] /\ InReach(p))}
      wrapped == {p \in Matches : p[1] > from[1]}
  IN IF behind # {} THEN {LastOf(behind)} ELSE IF wrapped # {} THEN {LastOf(wrapped)} ELSE {}

EnsureLineVisible(s, n) ==
  LET first == FirstVisible(s)
      wanted == CASE n < first -> Len(s.back) - n
                  [] n > first + s.rows - 1 -> Len(s.back) - (n - s.rows + 1)
                  [] OTHER -> s.offset
  IN [s EXCEPT !.offset = Bound(0, wanted, Len(s.back))]

FindText(found) ==
  /\ \E p \in found :
       /\ sel' = [from |-> Flip(p), to |-> <<p[2] + Len(Needle) - 1, p[1]>>]
       /\ LET Op(s) == EnsureLineVisible(s, p[1]) IN Both(Op)
  /\ UNCHANGED <<selecting, cache>> /\ Still
FindNext == FindText(NextMatch)
FindPrevious == FindText(PreviousMatch)

User ==
  \/ MouseRelease
  \/ OnEvent(\/ \E size \in Sizes : ResizeEvent(size) \/ SetTerminalFont(size)
             \/ \E lines \in {-1, 1} : WheelEvent(lines)
             \/ \E x \in {0, screen.cols - 1}, row \in {0, screen.rows - 1} :
                  MousePress(x, row) \/ MouseMove(x, row)
             \/ FindNext \/ FindPrevious)

Init ==
  /\ screen = Fresh(FirstSize) /\ buffer = <<>> /\ byByte = <<screen, buffer>>
  /\ wire = <<>> /\ selecting = FALSE
  /\ sel = [from |-> <<0, 0>>, to |-> <<0, 0>>]
  /\ cache = [cols |-> 0, rows |-> 0, first |-> -1, dirty |-> TRUE]
  /\ items = 0 /\ events = 0

(* A write outside the array ends the program's promises, and the model.      *)
Next == ~screen.wild /\ (WriteData \/ WriteRest \/ PaintEvent \/ User)
Spec == Init /\ [][Next]_vars

-----------------------------------------------------------------------------
(* The screen has its cells and the cursor is on it, or just behind the last  *)
(* column (the pending wrap of parseBuffer).                                  *)
TypeOK ==
  /\ Len(screen.cells) = screen.cols * screen.rows
  /\ screen.x \in 0..screen.cols /\ screen.y \in 0..screen.rows - 1
  /\ Len(screen.back) <= ScrollbackMax /\ screen.offset \in Nat /\ screen.gone \in Nat
  /\ selecting \in BOOLEAN /\ cache.dirty \in BOOLEAN

(* Where the stream is cut makes no difference: the screen and what is kept in*)
(* the buffer are those of bytes that came one by one (the reason for         *)
(* m_parseBuffer).                                                            *)
ChunksDoNotMatter == <<screen, buffer>> = byByte

(* It is so when the characters of an item are whole: none has four bytes,    *)
(* none stands where an escape sequence takes its second or third byte, and   *)
(* no item leaves such a place open for the next one.                         *)
TakesNext(stream, i) ==
  i >= 1 /\ (stream[i] = "ESC" \/ (i >= 2 /\ stream[i - 1] = "ESC" /\ stream[i] \in {"(", ")"}))
CharactersWhole(stream) ==
  \A i \in 1..Len(stream) :
    /\ stream[i] # "L4"
    /\ stream[i] = "c" => i > 1 /\ stream[i - 1] = "L2"
    /\ stream[i] = "L2" => i < Len(stream) /\ stream[i + 1] = "c" /\ ~TakesNext(stream, i - 1)
    /\ i = Len(stream) => ~TakesNext(stream, i)
ItemsWhole == \A item \in Items : CharactersWhole(item)

(* The sequences that edit a line (K, P, @) leave the other rows alone, and   *)
(* those that edit right of the cursor what is left of it.  Not so after the  *)
(* last column was written (K 1 goes into the next row, or out of the array)  *)
(* and for P of more characters than there are.                               *)
PendingWrap == screen.x = screen.cols
Edits == {<<"K", <<>>>>, <<"K", <<1>>>>, <<"K", <<2>>>>} \cup {<<c, <<n>>>> : c \in {"P", "@"}, n \in 1..3}
LineEditsStay ==
  \A e \in Edits :
    LET s == screen
        after == Csi(s, e[1], e[2])
        spills == PendingWrap \/ (e[1] = "P" /\ e[2][1] > s.cols - s.x)
        mine == Index(s, IF e \in {<<"K", <<1>>>>, <<"K", <<2>>>>} THEN 0 ELSE s.x, s.y)..Index(s, s.cols - 1, s.y)
    IN spills \/ (/\ after.wild => s.wild
                  /\ \A i \in 1..Len(s.cells) : i \in mine \/ after.cells[i] = s.cells[i])

(* What paintEvent indexes is there: each line of the scrollback is as wide as*)
(* the screen, and a highlight cache that may be used as it is has its shape: *)
(* not only when another first line makes it stale for now.                   *)
PaintReadsInside ==
  /\ \A i \in 1..Len(screen.back) : Len(screen.back[i]) >= screen.cols
  /\ cache.dirty \/ (cache.rows >= screen.rows /\ cache.cols >= screen.cols)
(* No step but a new font breaks it.                                          *)
OnlyFontsBreakPainting ==
  [][PaintReadsInside => PaintReadsInside' \/ \E size \in Sizes : SetTerminalFont(size)]_vars

(* While the user has scrolled back, output does not move the lines shown, as *)
(* long as the first of them is in the scrollback (scrollUp).  Lines are told *)
(* apart by how many output printed and dropped before them.                  *)
FirstShown(s) == s.gone + FirstVisible(s)
ViewHolds ==
  [][(WriteData \/ WriteRest) /\ screen.offset \in 1..Len(screen.back)
     /\ screen'.gone <= FirstShown(screen) => FirstShown(screen') = FirstShown(screen)]_vars

(* Searching on from a match finds the next one and searching back the one    *)
(* before, round the end of the text, and shows it.  Not so when a match is   *)
(* one character (it is no selection), when it starts its line (back), or when*)
(* matches overlap (NeedleStandsAlone); and searching back finds none when    *)
(* the match before, round the end, is on the same line.                      *)
NeedleStandsAlone ==
  \A k \in 1..Len(Needle) - 1 : SubSeq(Needle, k + 1, Len(Needle)) # SubSeq(Needle, 1, Len(Needle) - k)
AtMatch == Selected /\ SelStart \in Matches /\ SelEnd = <<SelStart[1], SelStart[2] + Len(Needle) - 1>>
Successor(p) == LET after == {q \in Matches : Before(p, q)}
                IN IF after # {} THEN FirstOf(after) ELSE FirstOf(Matches)
SearchVisitsAll ==
  [][AtMatch /\ Matches' = Matches =>
       LET p == SelStart
           before == {q \in Matches : Successor(q) = p}
       IN /\ FindNext => SelStart' = Successor(p)
          /\ FindPrevious => p[2] = 0 \/ SelStart' \in before]_vars
FoundIsShown ==
  [][FindNext \/ FindPrevious =>
       SelStart'[1] \in FirstVisible(screen')..FirstVisible(screen') + screen.rows - 1]_vars

(* The screen has its shape, and edits of a line stay in it (parseCsi).       *)
ScreenSound == TypeOK /\ LineEditsStay

(* findText: searching visits every match and shows the one it is at.         *)
SearchWorks == SearchVisitsAll /\ FoundIsShown
=============================================================================
