-------------------------- MODULE VtTerminalProofs --------------------------
(* Theorems about the terminal widget, for every size, scrollback, bound and  *)
(* list of items: where the stream is cut makes no difference, the screen     *)
(* keeps its shape, what is painted is there, the view holds, and searching   *)
(* visits every match.                                                        *)
EXTENDS VtTerminal, FiniteSetTheorems, SequenceTheorems, TLAPS

(* Numbers.                                                                   *)
LEMMA MaxOfTwo ==
  ASSUME NEW a \in Int, NEW b \in Int
  PROVE  Max({a, b}) = IF a >= b THEN a ELSE b
BY DEF Max

LEMMA MinOfTwo ==
  ASSUME NEW a \in Int, NEW b \in Int
  PROVE  Min({a, b}) = IF a <= b THEN a ELSE b
BY DEF Min

LEMMA BoundWithin ==
  ASSUME NEW lo \in Int, NEW n \in Int, NEW hi \in Int, lo <= hi
  PROVE  Bound(lo, n, hi) = IF n < lo THEN lo ELSE IF n > hi THEN hi ELSE n
<1>1. Min({n, hi}) \in Int /\ Min({n, hi}) = IF n <= hi THEN n ELSE hi  BY MinOfTwo
<1>2. Bound(lo, n, hi) = IF lo >= Min({n, hi}) THEN lo ELSE Min({n, hi})
  BY <1>1, MaxOfTwo DEF Bound
<1> QED  BY <1>1, <1>2

(* Induction over the numbers, for a set instead of a predicate: of the       *)
(* intervals that end at a number missed, one is the smallest.                *)
LEMMA Induction ==
  ASSUME NEW S, 0 \in S, \A n \in Nat : n \in S => n + 1 \in S
  PROVE  Nat \subseteq S
<1> DEFINE missed == {n \in Nat : n \notin S}
           tails == {1..n : n \in missed}
<1> SUFFICES ASSUME NEW k \in Nat, k \notin S PROVE FALSE
  OBVIOUS
<1>1. tails \subseteq FiniteSubsetsOf(Nat)
  <2> SUFFICES ASSUME NEW n \in missed PROVE 1..n \in FiniteSubsetsOf(Nat)
    OBVIOUS
  <2> QED  BY FS_Interval DEF FiniteSubsetsOf
<1>2. tails # {}  OBVIOUS
<1>3. PICK x \in tails : \A y \in tails : ~ (<<y, x>> \in StrictSubsetOrdering(Nat))
  <2>1. IsWellFoundedOn(StrictSubsetOrdering(Nat), FiniteSubsetsOf(Nat))
    BY FS_StrictSubsetOrderingWellFounded
  <2> HIDE DEF tails
  <2> QED  BY <1>1, <1>2, <2>1, WFMin
<1>4. PICK n \in missed : x = 1..n  OBVIOUS
<1>5. n # 0 /\ n - 1 \in Nat  BY <1>4
<1>6. 1..(n - 1) \in tails  BY <1>5
<1>7. <<1..(n - 1), 1..n>> \in StrictSubsetOrdering(Nat)
  <2> DEFINE a == 1..(n - 1)
             b == 1..n
  <2>1. a \in SUBSET Nat /\ b \in SUBSET Nat /\ a \subseteq b /\ n \in b /\ n \notin a
    BY <1>5
  <2> HIDE DEF a, b
  <2>2. <<a, b>> \in StrictSubsetOrdering(Nat)  BY <2>1 DEF StrictSubsetOrdering
  <2> QED  BY <2>2 DEF a, b
<1> QED  BY <1>3, <1>4, <1>6, <1>7

(* Of some numbers one is the least, and of some below a bound one is the     *)
(* greatest.                                                                  *)
LEMMA LeastOf ==
  ASSUME NEW S, S \subseteq Nat, S # {}
  PROVE  \E n \in S : \A m \in S : n <= m
<1> DEFINE Least(n) == \A m \in S : n <= m
           T == {n \in Nat : \A m \in S : n < m}
<1> SUFFICES ASSUME ~ \E k \in S : Least(k) PROVE FALSE
  OBVIOUS
<1>1. 0 \in T
  <2>1. 0 \notin S  BY DEF Least
  <2> QED  BY <2>1
<1>2. ASSUME NEW n \in Nat, n \in T PROVE n + 1 \in T
  <2>1. \A m \in S : n + 1 <= m  BY <1>2
  <2>2. n + 1 \notin S  BY <2>1
  <2> QED  BY <2>1, <2>2
<1>3. Nat \subseteq T
  <2> HIDE DEF T
  <2> QED  BY <1>1, <1>2, Induction
<1>4. PICK m \in S : TRUE  OBVIOUS
<1>5. m < m  BY <1>3, <1>4
<1> QED  BY <1>4, <1>5

LEMMA GreatestOf ==
  ASSUME NEW S, S \subseteq Int, S # {}, NEW hi \in Int, \A m \in S : m <= hi
  PROVE  \E n \in S : \A m \in S : m <= n
<1> DEFINE T == {hi - m : m \in S}
<1>1. T \subseteq Nat /\ T # {}
  <2>1. ASSUME NEW m \in S PROVE hi - m \in Nat
    <3>1. m \in Int /\ m <= hi  OBVIOUS
    <3> QED  BY <3>1
  <2> QED  BY <2>1
<1>2. PICK t \in T : \A u \in T : t <= u  BY <1>1, LeastOf
<1>3. PICK n \in S : t = hi - n  OBVIOUS
<1>4. ASSUME NEW m \in S PROVE m <= n
  <2>1. hi - n <= hi - m  BY <1>2, <1>3
  <2> QED  BY <2>1
<1> QED  BY <1>4

-----------------------------------------------------------------------------
(* Sequences of bytes, cut and glued.                                         *)
Stream == Seq(STRING)

LEMMA CutTail ==
  ASSUME NEW a \in Stream, NEW n \in 0..Len(a)
  PROVE  /\ SubSeq(a, n + 1, Len(a)) \in Stream
         /\ Len(SubSeq(a, n + 1, Len(a))) = Len(a) - n
         /\ \A i \in 1..Len(a) - n : SubSeq(a, n + 1, Len(a))[i] = a[n + i]
         /\ SubSeq(a, 1, n) \in Stream
         /\ Len(SubSeq(a, 1, n)) = n
         /\ \A i \in 1..n : SubSeq(a, 1, n)[i] = a[i]
BY DEF Stream

LEMMA Glued ==
  ASSUME NEW a \in Stream, NEW b \in Stream
  PROVE  /\ a \o b \in Stream /\ Len(a \o b) = Len(a) + Len(b)
         /\ \A i \in 1..Len(a) : (a \o b)[i] = a[i]
         /\ \A i \in Len(a) + 1..Len(a) + Len(b) : (a \o b)[i] = b[i - Len(a)]
BY DEF Stream

LEMMA SameStream ==
  ASSUME NEW a \in Stream, NEW b \in Stream, Len(a) = Len(b), \A i \in 1..Len(a) : a[i] = b[i]
  PROVE  a = b
BY SeqEqual DEF Stream

LEMMA CutGlued ==
  ASSUME NEW a \in Stream, NEW b \in Stream, NEW n \in 0..Len(a)
  PROVE  /\ SubSeq(a \o b, 1, n) = SubSeq(a, 1, n)
         /\ SubSeq(a \o b, n + 1, Len(a \o b)) = SubSeq(a, n + 1, Len(a)) \o b
<1>1. a \o b \in Stream /\ Len(a \o b) = Len(a) + Len(b) /\ n \in 0..Len(a \o b)
  BY Glued DEF Stream
<1>2. SubSeq(a \o b, 1, n) = SubSeq(a, 1, n)
  <2>1. \A i \in 1..n : SubSeq(a \o b, 1, n)[i] = SubSeq(a, 1, n)[i]
    BY <1>1, CutTail, Glued DEF Stream
  <2> QED  BY <1>1, <2>1, CutTail, SameStream
<1>3. SubSeq(a \o b, n + 1, Len(a \o b)) = SubSeq(a, n + 1, Len(a)) \o b
  <2> DEFINE w == a \o b
             l == SubSeq(w, n + 1, Len(w))
             t == SubSeq(a, n + 1, Len(a))
             r == t \o b
             m == Len(a) - n
  <2>0. Len(a) \in Nat /\ Len(b) \in Nat /\ n \in Nat /\ n <= Len(a) /\ m \in Nat /\ Len(a) = m + n
    BY DEF Stream
  <2>1. /\ w \in Stream /\ Len(w) = Len(a) + Len(b) /\ n \in 0..Len(w)
        /\ \A i \in 1..Len(a) : w[i] = a[i]
        /\ \A i \in Len(a) + 1..Len(a) + Len(b) : w[i] = b[i - Len(a)]
    BY <1>1, Glued
  <2>2. /\ t \in Stream /\ Len(t) = m
        /\ \A i \in 1..m : t[i] = a[n + i]
    BY CutTail
  <2> HIDE DEF w, t
  <2>3. l \in Stream /\ Len(l) = Len(w) - n /\ \A i \in 1..Len(w) - n : l[i] = w[n + i]
    BY <2>1, CutTail
  <2>4. /\ r \in Stream /\ Len(r) = Len(t) + Len(b)
        /\ \A i \in 1..Len(t) : r[i] = t[i]
        /\ \A i \in Len(t) + 1..Len(t) + Len(b) : r[i] = b[i - Len(t)]
    BY <2>2, Glued
  <2> HIDE DEF l, r, m
  <2>5. ASSUME NEW i \in 1..Len(l) PROVE l[i] = r[i]
    <3>1. CASE i <= m
      <4>1. i \in 1..m /\ n + i \in 1..Len(a) /\ i \in 1..Len(w) - n
        BY <2>0, <2>1, <2>3, <3>1
      <4> QED  BY <2>1, <2>2, <2>3, <2>4, <4>1
    <3>2. CASE i > m
      <4>1. /\ i \in m + 1..m + Len(b) /\ i \in 1..Len(w) - n
            /\ n + i \in Len(a) + 1..Len(a) + Len(b) /\ i - m = (n + i) - Len(a)
        BY <2>0, <2>1, <2>3, <3>2
      <4> QED  BY <2>1, <2>2, <2>3, <2>4, <4>1
    <3> QED  BY <2>0, <2>3, <3>1, <3>2
  <2>6. Len(l) = Len(r)  BY <2>0, <2>1, <2>2, <2>3, <2>4
  <2>7. l = r  BY <2>3, <2>4, <2>5, <2>6, SameStream
  <2> QED  BY <2>7 DEF l, r, t, w
<1> QED  BY <1>2, <1>3

LEMMA GluedTwice ==
  ASSUME NEW a \in Stream, NEW b \in Stream, NEW c \in Stream
  PROVE  (a \o b) \o c = a \o (b \o c)
BY ConcatAssociative DEF Stream

-----------------------------------------------------------------------------
(* The parser.  What is at the head of a buffer has its length there, and once*)
(* it is complete, more bytes change nothing about it.                        *)
LEMMA EndOfIs ==
  ASSUME NEW ends, ends \subseteq Nat
  PROVE  /\ ends = {} => EndOf(ends) = 0
         /\ ends # {} => EndOf(ends) \in ends /\ \A k \in ends : EndOf(ends) <= k
<1>1. CASE ends = {}  BY <1>1 DEF EndOf
<1>2. CASE ends # {}
  <2>1. \E n \in ends : \A m \in ends : n <= m  BY <1>2, LeastOf
  <2>2. EndOf(ends) = CHOOSE x \in ends : \A y \in ends : x <= y
    BY <1>2 DEF EndOf, Min
  <2> QED  BY <1>2, <2>1, <2>2
<1> QED  BY <1>1, <1>2

LEMMA ItemCases ==
  ASSUME NEW a \in Stream
  PROVE  /\ Len(a) = 0 => ItemLength(a) = 0
         /\ Len(a) > 0 /\ a[1] # "ESC" => ItemLength(a) = CharacterLength(a)
         /\ Len(a) = 1 /\ a[1] = "ESC" => ItemLength(a) = 0
         /\ Len(a) > 1 /\ a[1] = "ESC" /\ a[2] = "[" => ItemLength(a) = EndOfCsi(a)
         /\ Len(a) > 1 /\ a[1] = "ESC" /\ a[2] = "]" => ItemLength(a) = EndOfOsc(a)
         /\ Len(a) > 1 /\ a[1] = "ESC" /\ a[2] \in {"(", ")"} =>
              ItemLength(a) = IF Len(a) < 3 THEN 0 ELSE 3
         /\ Len(a) > 1 /\ a[1] = "ESC" /\ a[2] \notin {"[", "]", "(", ")"} => ItemLength(a) = 2
<1>0. Len(a) \in Nat /\ (Len(a) = 0 => a = <<>>) /\ (Len(a) > 0 => a # <<>>)
  BY DEF Stream
<1>1. Len(a) = 0 => ItemLength(a) = 0  BY <1>0 DEF ItemLength
<1>2. Len(a) > 0 /\ a[1] # "ESC" => ItemLength(a) = CharacterLength(a)  BY <1>0 DEF ItemLength
<1>3. ASSUME Len(a) > 0, a[1] = "ESC"
      PROVE  ItemLength(a) =
               CASE Len(a) = 1 -> 0
                 [] Len(a) > 1 /\ a[2] = "[" -> EndOfCsi(a)
                 [] Len(a) > 1 /\ a[2] = "]" -> EndOfOsc(a)
                 [] Len(a) > 1 /\ a[2] \in {"(", ")"} -> IF Len(a) < 3 THEN 0 ELSE 3
                 [] OTHER -> 2
  BY <1>0, <1>3 DEF ItemLength
<1> QED  BY <1>0, <1>1, <1>2, <1>3

LEMMA CsiEnds ==
  ASSUME NEW a \in Stream
  PROVE  {k \in 3..Len(a) : Final(a[k])} \subseteq Nat
BY DEF Stream

LEMMA OscEnds ==
  ASSUME NEW a \in Stream
  PROVE  {k \in 3..Len(a) : \/ a[k] = "BEL"
                            \/ a[k] = "ESC" /\ k < Len(a) /\ a[k + 1] = "\\"} \subseteq Nat
BY DEF Stream

(* Where an item ends: inside the buffer, and not before a continuation byte. *)
LEMMA ItemWithin ==
  ASSUME NEW a \in Stream
  PROVE  /\ ItemLength(a) \in 0..Len(a)
         /\ ItemLength(a) # 0 /\ a[1] # "ESC" => ItemLength(a) = Decoded(a)
         /\ ItemLength(a) > 2 /\ a[2] = "[" => Final(a[ItemLength(a)])
         /\ ItemLength(a) > 2 /\ a[2] = "]" => a[ItemLength(a)] \in {"BEL", "ESC"}
<1>0. Len(a) \in Nat  BY DEF Stream
<1>1. CASE Len(a) > 0 /\ a[1] # "ESC"
  <2>1. ItemLength(a) = CharacterLength(a)  BY <1>1, ItemCases
  <2>2. Needed(a[1]) \in {1, 2, 4}  BY DEF Needed
  <2>3. Decoded(a) \in {1, 2} /\ (Decoded(a) = 2 => Len(a) > 1)  BY DEF Decoded
  <2>4. CharacterLength(a) \in {0, Decoded(a)}  BY DEF CharacterLength
  <2> QED  BY <1>0, <1>1, <2>1, <2>3, <2>4
<1>2. CASE Len(a) > 1 /\ a[1] = "ESC" /\ a[2] = "["
  <2>1. ItemLength(a) = EndOfCsi(a)  BY <1>2, ItemCases
  <2>2. ItemLength(a) # 0 => ItemLength(a) \in 3..Len(a) /\ Final(a[ItemLength(a)])
    BY <2>1, CsiEnds, EndOfIs DEF EndOfCsi
  <2> QED  BY <1>0, <1>2, <2>2
<1>3. CASE Len(a) > 1 /\ a[1] = "ESC" /\ a[2] = "]"
  <2>1. ItemLength(a) = EndOfOsc(a)  BY <1>3, ItemCases
  <2>2. ItemLength(a) # 0 => ItemLength(a) \in 3..Len(a) /\ a[ItemLength(a)] \in {"BEL", "ESC"}
    BY <2>1, OscEnds, EndOfIs DEF EndOfOsc
  <2> QED  BY <1>0, <1>3, <2>2
<1>4. CASE Len(a) > 1 /\ a[1] = "ESC" /\ a[2] \notin {"[", "]"}
  <2>1. ItemLength(a) \in {0, 2, 3} /\ (ItemLength(a) = 3 => Len(a) >= 3)
    BY <1>0, <1>4, ItemCases
  <2> QED  BY <1>0, <1>4, <2>1
<1>5. CASE Len(a) = 0 \/ (Len(a) = 1 /\ a[1] = "ESC")
  <2>1. ItemLength(a) = 0  BY <1>5, ItemCases
  <2> QED  BY <1>0, <2>1
<1>6. \/ Len(a) > 0 /\ a[1] # "ESC"
      \/ Len(a) > 1 /\ a[1] = "ESC" /\ a[2] = "["
      \/ Len(a) > 1 /\ a[1] = "ESC" /\ a[2] = "]"
      \/ Len(a) > 1 /\ a[1] = "ESC" /\ a[2] \notin {"[", "]"}
      \/ Len(a) = 0 \/ (Len(a) = 1 /\ a[1] = "ESC")
  BY <1>0
<1> QED  BY ONLY <1>1, <1>2, <1>3, <1>4, <1>5, <1>6, Zenon

LEMMA ItemStable ==
  ASSUME NEW a \in Stream, NEW d \in Stream, ItemLength(a) # 0, a[1] \notin {"c", "L4"}
  PROVE  ItemLength(a \o d) = ItemLength(a)
<1> DEFINE w == a \o d
<1>0. /\ Len(a) \in Nat /\ Len(d) \in Nat /\ Len(a) > 0
      /\ w \in Stream /\ Len(w) = Len(a) + Len(d) /\ \A i \in 1..Len(a) : w[i] = a[i]
  BY ItemCases, Glued DEF Stream
<1> SUFFICES ItemLength(w) = ItemLength(a)
  OBVIOUS
<1> HIDE DEF w
<1>1. w[1] = a[1] /\ Len(w) > 0 /\ Len(w) >= Len(a) /\ (Len(a) > 1 => w[2] = a[2])  BY <1>0
<1>2. CASE a[1] # "ESC"
  <2>1. ItemLength(a) = CharacterLength(a) /\ ItemLength(w) = CharacterLength(w)
    BY <1>0, <1>1, <1>2, ItemCases
  <2>2. CASE a[1] = "L2"
    <3>1. Needed(a[1]) = 2 /\ Needed(w[1]) = 2  BY <1>1, <2>2 DEF Needed
    <3>2. Len(a) >= 2  BY <1>0, <2>1, <3>1 DEF CharacterLength
    <3> QED  BY <1>0, <1>1, <2>1, <2>2, <3>1, <3>2 DEF CharacterLength, Decoded
  <2>3. CASE a[1] # "L2"
    <3>1. Needed(a[1]) = 1 /\ Needed(w[1]) = 1  BY <1>1, <2>3 DEF Needed
    <3> QED  BY <1>0, <1>1, <2>1, <2>3, <3>1 DEF CharacterLength, Decoded
  <2> QED  BY <2>2, <2>3
<1>3. a[1] = "ESC" => Len(a) > 1
  <2>1. Len(a) = 1 /\ a[1] = "ESC" => ItemLength(a) = 0  BY ItemCases
  <2>2. Len(a) # 1 \/ a[1] # "ESC"  BY <2>1
  <2>3. \A n \in Nat : n > 0 /\ n # 1 => n > 1  OBVIOUS
  <2> QED  BY ONLY <1>0, <2>2, <2>3, Zenon
<1>4. CASE a[1] = "ESC" /\ a[2] = "["
  <2> DEFINE A == {k \in 3..Len(a) : Final(a[k])}
             W == {k \in 3..Len(w) : Final(w[k])}
  <2>1. ItemLength(a) = EndOf(A) /\ ItemLength(w) = EndOf(W)
    BY <1>0, <1>1, <1>3, <1>4, ItemCases DEF EndOfCsi
  <2>2. A \subseteq Nat /\ W \subseteq Nat  BY <1>0, CsiEnds
  <2>3. \A k \in A : k \in W  BY <1>0
  <2>4. \A k \in W : k \in A \/ k > Len(a)  BY <1>0
  <2>5. \A k \in A : k <= Len(a)  BY <1>0
  <2> HIDE DEF A, W
  <2>6. EndOf(A) \in A /\ \A k \in A : EndOf(A) <= k  BY <2>1, <2>2, EndOfIs
  <2>7. EndOf(W) \in W /\ \A k \in W : EndOf(W) <= k  BY <2>2, <2>3, <2>6, EndOfIs
  <2>8. EndOf(W) <= EndOf(A) /\ EndOf(A) <= Len(a) /\ EndOf(A) \in Nat /\ EndOf(W) \in Nat
    BY <2>2, <2>3, <2>5, <2>6, <2>7
  <2>9. ~ (EndOf(W) > Len(a))  BY <1>0, <2>8
  <2>10. EndOf(A) <= EndOf(W)  BY <2>4, <2>6, <2>7, <2>9
  <2> QED  BY <2>1, <2>8, <2>10
<1>5. CASE a[1] = "ESC" /\ a[2] = "]"
  <2> DEFINE A == {k \in 3..Len(a) : \/ a[k] = "BEL"
                                     \/ a[k] = "ESC" /\ k < Len(a) /\ a[k + 1] = "\\"}
             W == {k \in 3..Len(w) : \/ w[k] = "BEL"
                                     \/ w[k] = "ESC" /\ k < Len(w) /\ w[k + 1] = "\\"}
  <2>1. ItemLength(a) = EndOf(A) /\ ItemLength(w) = EndOf(W)
    BY <1>0, <1>1, <1>3, <1>5, ItemCases DEF EndOfOsc
  <2>2. A \subseteq Nat /\ W \subseteq Nat  BY <1>0, OscEnds
  <2>3. \A k \in A : k \in W
    <3> SUFFICES ASSUME NEW k \in A PROVE k \in W
      OBVIOUS
    <3>1. k \in 3..Len(a) /\ k \in 3..Len(w) /\ w[k] = a[k] /\ (k < Len(a) => w[k + 1] = a[k + 1])
      BY <1>0
    <3> QED  BY <1>0, <3>1
  <2>4. \A k \in W : k \in A \/ k >= Len(a)
    <3> SUFFICES ASSUME NEW k \in W, k < Len(a) PROVE k \in A
      BY <1>0
    <3>1. k \in 3..Len(a) /\ w[k] = a[k] /\ w[k + 1] = a[k + 1]
      BY <1>0
    <3> QED  BY <1>0, <3>1
  <2>5. \A k \in A : k <= Len(a)  BY <1>0
  <2> HIDE DEF A, W
  <2>6. EndOf(A) \in A /\ \A k \in A : EndOf(A) <= k  BY <2>1, <2>2, EndOfIs
  <2>7. EndOf(W) \in W /\ \A k \in W : EndOf(W) <= k  BY <2>2, <2>3, <2>6, EndOfIs
  <2>8. EndOf(W) <= EndOf(A) /\ EndOf(A) <= Len(a) /\ EndOf(A) \in Nat /\ EndOf(W) \in Nat
    BY <2>2, <2>3, <2>5, <2>6, <2>7
  <2>9. EndOf(W) \in A \/ EndOf(W) >= Len(a)  BY <2>4, <2>7
  <2>10. EndOf(A) <= EndOf(W)  BY <1>0, <2>6, <2>8, <2>9
  <2> QED  BY <2>1, <2>8, <2>10
<1>6. CASE a[1] = "ESC" /\ a[2] \notin {"[", "]"}
  BY <1>0, <1>1, <1>3, <1>6, ItemCases
<1> QED  BY <1>2, <1>4, <1>5, <1>6

(* Whole characters stay whole: of two streams one after the other, and of    *)
(* what is left of a stream when the item at its head was obeyed.             *)
LEMMA TakesWhat ==
  ASSUME NEW w, NEW m, TakesNext(w, m)
  PROVE  w[m] = "ESC" \/ (m >= 2 /\ w[m - 1] = "ESC" /\ w[m] \in {"(", ")"})
BY Zenon DEF TakesNext

LEMMA WholeGlued ==
  ASSUME NEW a \in Stream, NEW b \in Stream, CharactersWhole(a), CharactersWhole(b)
  PROVE  CharactersWhole(a \o b)
<1> DEFINE w == a \o b
           n == Len(a)
<1>0. /\ n \in Nat /\ Len(b) \in Nat /\ Len(w) = n + Len(b)
      /\ \A i \in 1..n : w[i] = a[i]
      /\ \A i \in n + 1..n + Len(b) : w[i] = b[i - n]
  BY Glued DEF Stream
<1>1. /\ \A i \in 1..n : a[i] # "L4"
      /\ \A i \in 1..n : a[i] = "c" => i > 1 /\ a[i - 1] = "L2"
      /\ \A i \in 1..n : a[i] = "L2" => i < n /\ a[i + 1] = "c" /\ ~TakesNext(a, i - 1)
      /\ n > 0 => ~TakesNext(a, n)
  <2>1. n \in 1..n \/ ~ (n > 0)  BY <1>0
  <2> QED  BY <1>0, <2>1 DEF CharactersWhole
<1>2. /\ \A i \in 1..Len(b) : b[i] # "L4"
      /\ \A i \in 1..Len(b) : b[i] = "c" => i > 1 /\ b[i - 1] = "L2"
      /\ \A i \in 1..Len(b) : b[i] = "L2" => i < Len(b) /\ b[i + 1] = "c" /\ ~TakesNext(b, i - 1)
      /\ \A i \in 1..Len(b) : i = Len(b) => ~TakesNext(b, i)
  BY DEF CharactersWhole
<1> SUFFICES ASSUME NEW i \in 1..Len(w)
             PROVE  /\ w[i] # "L4"
                    /\ w[i] = "c" => i > 1 /\ w[i - 1] = "L2"
                    /\ w[i] = "L2" => i < Len(w) /\ w[i + 1] = "c" /\ ~TakesNext(w, i - 1)
                    /\ i = Len(w) => ~TakesNext(w, i)
  BY DEF CharactersWhole
<1> HIDE DEF w, n
\* What takes the next byte does so in the stream that holds it.
<1>3. ASSUME NEW j \in 0..n, TakesNext(w, j) PROVE TakesNext(a, j)
  BY <1>0, <1>3 DEF TakesNext
<1>4. ASSUME NEW j \in 1..Len(b), TakesNext(w, n + j) PROVE TakesNext(b, j)
  <2>1. w[n + j] = b[j]
    <3>1. n + j \in n + 1..n + Len(b) /\ (n + j) - n = j  BY <1>0
    <3> QED  BY <1>0, <3>1
  <2>0. w[n + j] = "ESC" \/ (n + j >= 2 /\ w[(n + j) - 1] = "ESC" /\ w[n + j] \in {"(", ")"})
    BY <1>4, TakesWhat
  <2>2. CASE b[j] = "ESC"  BY <2>2 DEF TakesNext
  <2>3. CASE b[j] # "ESC" /\ j = 1
    <3>1. (n + j) - 1 = n /\ n \in Nat  BY <1>0, <2>3
    <3>2. w[(n + j) - 1] = "ESC" /\ n + j >= 2  BY ONLY <2>0, <2>1, <2>3, Zenon
    <3>3. n \in 1..n  BY <1>0, <2>3, <3>2
    <3>4. a[n] = "ESC" /\ n > 0  BY <1>0, <3>1, <3>2, <3>3
    <3> QED  BY <1>1, <3>3, <3>4 DEF TakesNext
  <2>4. CASE b[j] # "ESC" /\ j # 1
    <3>1. (n + j) - 1 \in n + 1..n + Len(b) /\ ((n + j) - 1) - n = j - 1  BY <1>0, <2>4
    <3>2. w[(n + j) - 1] = b[j - 1]  BY <1>0, <3>1
    <3>3. w[(n + j) - 1] = "ESC" /\ b[j] \in {"(", ")"}  BY ONLY <2>0, <2>1, <2>4, Zenon
    <3> QED  BY <2>4, <3>2, <3>3 DEF TakesNext
  <2> QED  BY <2>2, <2>3, <2>4
<1>5. CASE i <= n
  <2>1. i \in 1..n /\ w[i] = a[i]  BY <1>0, <1>5
  <2>2. w[i] = "c" => i > 1 /\ w[i - 1] = "L2"
    <3>1. i > 1 => i - 1 \in 1..n  BY <1>0, <2>1
    <3> QED  BY <1>0, <1>1, <2>1, <3>1
  <2>3. w[i] = "L2" => i < Len(w) /\ w[i + 1] = "c" /\ ~TakesNext(w, i - 1)
    <3>1. i < n => i + 1 \in 1..n  BY <1>0, <2>1
    <3>2. i - 1 \in 0..n  BY <1>0, <2>1
    <3>3. i < n => i < Len(w)  BY <1>0, <2>1
    <3> QED  BY <1>0, <1>1, <1>3, <2>1, <3>1, <3>2, <3>3
  <2>4. i = Len(w) => ~TakesNext(w, i)
    <3>1. i = Len(w) => i = n /\ n > 0  BY <1>0, <2>1
    <3>2. n \in 0..n  BY <1>0
    <3> QED  BY <1>1, <1>3, <3>1, <3>2
  <2> QED  BY <1>1, <2>1, <2>2, <2>3, <2>4
<1>6. CASE i > n
  <2> DEFINE j == i - n
  <2>1. j \in 1..Len(b) /\ i = n + j /\ w[i] = b[j]  BY <1>0, <1>6
  <2>2. w[i] = "c" => i > 1 /\ w[i - 1] = "L2"
    <3>1. j > 1 => i - 1 \in n + 1..n + Len(b) /\ (i - 1) - n = j - 1 /\ i > 1  BY <1>0, <2>1
    <3> QED  BY <1>0, <1>2, <2>1, <3>1
  <2>3. w[i] = "L2" => i < Len(w) /\ w[i + 1] = "c" /\ ~TakesNext(w, i - 1)
    <3>1. j < Len(b) => i + 1 \in n + 1..n + Len(b) /\ (i + 1) - n = j + 1 /\ i < Len(w)
      BY <1>0, <2>1
    <3>2. CASE j = 1
      <4>1. i - 1 = n /\ n \in 0..n  BY <1>0, <2>1, <3>2
      <4>2. ~TakesNext(w, n)
        <5>1. ~TakesNext(a, n)  BY <1>0, <1>1 DEF TakesNext
        <5> QED  BY <1>3, <4>1, <5>1
      <4> QED  BY <1>0, <1>2, <2>1, <3>1, <4>1, <4>2
    <3>3. CASE j # 1
      <4>1. j - 1 \in 1..Len(b) /\ i - 1 = n + (j - 1)  BY <1>0, <2>1, <3>3
      <4> QED  BY <1>0, <1>2, <1>4, <2>1, <3>1, <4>1
    <3> QED  BY <3>2, <3>3
  <2>4. i = Len(w) => ~TakesNext(w, i)
    <3>1. i = Len(w) => j = Len(b)  BY <1>0, <2>1
    <3> QED  BY <1>2, <1>4, <2>1, <3>1
  <2> QED  BY <1>2, <2>1, <2>2, <2>3, <2>4
<1>7. i <= n \/ i > n  BY <1>0
<1> QED  BY <1>5, <1>6, <1>7

LEMMA WholeRest ==
  ASSUME NEW a \in Stream, NEW n \in 0..Len(a), CharactersWhole(a), n > 0 => a[n] # "L2"
  PROVE  CharactersWhole(SubSeq(a, n + 1, Len(a)))
<1> DEFINE w == SubSeq(a, n + 1, Len(a))
<1>0. /\ Len(a) \in Nat /\ n \in Nat /\ n <= Len(a) /\ Len(w) = Len(a) - n
      /\ \A i \in 1..Len(a) - n : w[i] = a[n + i]
  BY CutTail DEF Stream
<1> SUFFICES ASSUME NEW i \in 1..Len(w)
             PROVE  /\ w[i] # "L4"
                    /\ w[i] = "c" => i > 1 /\ w[i - 1] = "L2"
                    /\ w[i] = "L2" => i < Len(w) /\ w[i + 1] = "c" /\ ~TakesNext(w, i - 1)
                    /\ i = Len(w) => ~TakesNext(w, i)
  BY DEF CharactersWhole
<1> HIDE DEF w
<1>1. n + i \in 1..Len(a) /\ w[i] = a[n + i] /\ (i < Len(w) <=> n + i < Len(a))
      /\ (n + i) - 1 = n + (i - 1) /\ (n + i) + 1 = n + (i + 1)
  BY <1>0
<1>2. /\ a[n + i] # "L4"
      /\ a[n + i] = "c" => n + i > 1 /\ a[n + (i - 1)] = "L2"
      /\ a[n + i] = "L2" => n + i < Len(a) /\ a[n + (i + 1)] = "c" /\ ~TakesNext(a, n + (i - 1))
      /\ n + i = Len(a) => ~TakesNext(a, n + i)
  BY <1>1 DEF CharactersWhole
<1>3. i > 1 => w[i - 1] = a[n + (i - 1)]  BY <1>0
<1>4. i < Len(w) => w[i + 1] = a[n + (i + 1)]  BY <1>0
<1>5. ASSUME NEW j \in 0..Len(w), TakesNext(w, j) PROVE TakesNext(a, n + j)
  <2>1. j >= 1 /\ (w[j] = "ESC" \/ (j >= 2 /\ w[j - 1] = "ESC" /\ w[j] \in {"(", ")"}))
    BY <1>5 DEF TakesNext
  <2>2. j \in 1..Len(a) - n /\ w[j] = a[n + j] /\ n + j >= 1  BY <1>0, <2>1
  <2>3. j >= 2 => w[j - 1] = a[(n + j) - 1] /\ n + j >= 2
    <3>1. j >= 2 => j - 1 \in 1..Len(a) - n /\ n + (j - 1) = (n + j) - 1 /\ n + j >= 2
      BY <1>0, <2>2
    <3> QED  BY <1>0, <3>1
  <2> QED  BY <2>1, <2>2, <2>3 DEF TakesNext
<1>6. w[i] = "c" => i > 1 /\ w[i - 1] = "L2"
  <2>1. CASE i > 1  BY <1>1, <1>2, <1>3, <2>1
  <2>2. CASE ~ (i > 1)
    <3>1. i = 1 /\ n + (i - 1) = n  BY <1>0, <2>2
    <3>2. a[n + i] = "c" => n > 0 /\ a[n] = "L2"  BY <1>0, <1>2, <3>1
    <3> QED  BY <1>1, <3>2
  <2> QED  BY <2>1, <2>2
<1>7. i - 1 \in 0..Len(w) /\ i \in 0..Len(w)  BY <1>0
<1>8. i = Len(w) => n + i = Len(a)  BY <1>0
<1> QED  BY <1>1, <1>2, <1>4, <1>5, <1>6, <1>7, <1>8

LEMMA WholeHead ==
  ASSUME NEW a \in Stream, NEW d \in Stream, CharactersWhole(a \o d), ItemLength(a) # 0
  PROVE  /\ a[1] \notin {"c", "L4"}
         /\ a[ItemLength(a)] # "L2"
<1> DEFINE w == a \o d
           n == ItemLength(a)
<1>0. /\ Len(a) \in Nat /\ Len(d) \in Nat /\ Len(w) = Len(a) + Len(d)
      /\ \A i \in 1..Len(a) : w[i] = a[i]
      /\ n \in 1..Len(a)
  BY Glued, ItemWithin DEF Stream
<1>1. \A i \in 1..Len(a) : /\ a[i] # "L4"
                           /\ a[i] = "c" => i > 1
                           /\ a[i] = "L2" => w[i + 1] = "c" /\ ~TakesNext(w, i - 1)
  BY <1>0 DEF CharactersWhole
<1> HIDE DEF w
<1>2. 1 \in 1..Len(a)  BY <1>0
<1>3. a[1] \notin {"c", "L4"}  BY <1>1, <1>2
<1>4. a[n] # "L2"
  <2>1. CASE a[1] # "ESC"
    <3>1. n = Decoded(a)  BY <1>0, <2>1, ItemWithin
    <3>2. CASE a[1] = "L2"
      <4>1. ItemLength(a) = CharacterLength(a)  BY <1>0, <2>1, ItemCases
      <4>2. Needed(a[1]) = 2  BY <3>2 DEF Needed
      <4>3. Len(a) > 1  BY <1>0, <4>1, <4>2 DEF CharacterLength
      <4>4. n = 2 /\ 2 \in 1..Len(a)  BY <1>0, <3>1, <3>2, <4>3 DEF Decoded
      <4>5. w[2] = "c"  BY <1>1, <1>2, <3>2
      <4> QED  BY <1>0, <4>4, <4>5
    <3>3. CASE a[1] # "L2"
      <4>1. n = 1  BY <1>3, <3>1, <3>3 DEF Decoded
      <4> QED  BY <3>3, <4>1
    <3> QED  BY <3>2, <3>3
  <2>2. CASE a[1] = "ESC"
    <3>0. Len(a) > 1
      <4>1. Len(a) = 1 /\ a[1] = "ESC" => ItemLength(a) = 0  BY ItemCases
      <4>2. Len(a) # 1  BY <2>2, <4>1
      <4>3. \A k \in Nat : k > 0 /\ k # 1 => k > 1  OBVIOUS
      <4>4. Len(a) > 0  BY <1>0
      <4> QED  BY ONLY <1>0, <4>2, <4>3, <4>4, Zenon
    <3>1. 2 \in 1..Len(a) /\ w[1] = "ESC"  BY <1>0, <1>2, <2>2, <3>0
    <3>2. CASE a[2] = "["
      <4>1. n = EndOfCsi(a)  BY <2>2, <3>0, <3>2, ItemCases
      <4>2. n > 2
        <5>1. n \in {k \in 3..Len(a) : Final(a[k])}
          BY <1>0, <4>1, CsiEnds, EndOfIs DEF EndOfCsi
        <5> QED  BY <5>1
      <4>3. Final(a[n])  BY <3>2, <4>2, ItemWithin
      <4> QED  BY <4>3 DEF Final
    <3>3. CASE a[2] = "]"
      <4>1. n = EndOfOsc(a)  BY <2>2, <3>0, <3>3, ItemCases
      <4>2. n > 2
        <5>1. n \in {k \in 3..Len(a) : \/ a[k] = "BEL"
                                       \/ a[k] = "ESC" /\ k < Len(a) /\ a[k + 1] = "\\"}
          BY <1>0, <4>1, OscEnds, EndOfIs DEF EndOfOsc
        <5> QED  BY <5>1
      <4>3. a[n] \in {"BEL", "ESC"}  BY <3>3, <4>2, ItemWithin
      <4> QED  BY <4>3
    <3>4. CASE a[2] \in {"(", ")"}
      <4>1. n = 3 /\ 3 \in 1..Len(a)  BY <1>0, <2>2, <3>0, <3>4, ItemCases
      <4>2. TakesNext(w, 2)  BY <1>0, <3>1, <3>4 DEF TakesNext
      <4>3. 3 - 1 = 2  OBVIOUS
      <4> QED  BY <1>1, <4>1, <4>2, <4>3
    <3>5. CASE a[2] \notin {"[", "]", "(", ")"}
      <4>1. n = 2  BY <2>2, <3>0, <3>5, ItemCases
      <4>2. TakesNext(w, 1)  BY <3>1 DEF TakesNext
      <4>3. 2 - 1 = 1  OBVIOUS
      <4> QED  BY <1>1, <3>1, <4>1, <4>2, <4>3
    <3> QED  BY <3>2, <3>3, <3>4, <3>5
  <2> QED  BY <2>1, <2>2
<1> QED  BY <1>3, <1>4

-----------------------------------------------------------------------------
(* parseBuffer's loop: what has been obeyed after each round.                 *)
Runs(g, s, buf, n) ==
  g = [k \in 0..n |-> IF k = 0 THEN <<s, buf>> ELSE ObeyNext(g[k - 1])]

LEMMA RunExists ==
  ASSUME NEW s, NEW buf
  PROVE  \A n \in Nat : \E g : Runs(g, s, buf, n)
<1> DEFINE S == {n \in Nat : \E g : Runs(g, s, buf, n)}
           first == <<s, buf>>
<1>0. \A n, g : Runs(g, s, buf, n) <=> g = [k \in 0..n |-> IF k = 0 THEN first ELSE ObeyNext(g[k - 1])]
  BY DEF Runs
<1> HIDE DEF first
<1>1. 0 \in S
  <2> DEFINE none == [k \in 0..0 |-> first]
  <2>1. none = [k \in 0..0 |-> IF k = 0 THEN first ELSE ObeyNext(none[k - 1])]
    OBVIOUS
  <2> HIDE DEF none
  <2> QED  BY <1>0, <2>1
<1>2. ASSUME NEW n \in Nat, n \in S PROVE n + 1 \in S
  <2>1. PICK g : g = [k \in 0..n |-> IF k = 0 THEN first ELSE ObeyNext(g[k - 1])]
    BY <1>0, <1>2
  <2> DEFINE next == ObeyNext(g[n])
             more == [k \in 0..(n + 1) |-> IF k = n + 1 THEN next ELSE g[k]]
  <2>2. /\ \A k \in 0..n : more[k] = g[k]
        /\ more[n + 1] = next
        /\ more = [k \in 0..(n + 1) |-> more[k]]
    <3> HIDE DEF next
    <3> QED  OBVIOUS
  <2>3. \A k \in 0..n : g[k] = IF k = 0 THEN first ELSE ObeyNext(g[k - 1])
    BY <2>1
  <2> HIDE DEF more
  <2>4. ASSUME NEW k \in 0..(n + 1)
        PROVE  more[k] = IF k = 0 THEN first ELSE ObeyNext(more[k - 1])
    <3>1. CASE k = n + 1
      <4>1. k # 0 /\ k - 1 = n /\ n \in 0..n  BY <3>1
      <4> QED  BY <2>2, <3>1, <4>1
    <3>2. CASE k = 0  BY <2>2, <2>3, <3>2
    <3>3. CASE k # 0 /\ k # n + 1
      <4>1. k \in 0..n /\ k - 1 \in 0..n  BY <3>3
      <4> QED  BY <2>2, <2>3, <3>3, <4>1
    <3> QED  BY <3>1, <3>2, <3>3
  <2>5. more = [k \in 0..(n + 1) |-> IF k = 0 THEN first ELSE ObeyNext(more[k - 1])]
    BY <2>2, <2>4
  <2>6. Runs(more, s, buf, n + 1)  BY <1>0, <2>5
  <2>7. \E h : Runs(h, s, buf, n + 1)  BY <2>6
  <2>8. n + 1 \in Nat  OBVIOUS
  <2> QED  BY <2>7, <2>8, Zenon
<1> HIDE DEF S
<1>3. Nat \subseteq S  BY <1>1, <1>2, Induction
<1> QED  BY <1>3 DEF S

LEMMA RunRounds ==
  ASSUME NEW s, NEW buf, NEW n \in Nat, NEW g, Runs(g, s, buf, n)
  PROVE  g[0] = <<s, buf>> /\ \A k \in 0..n : k + 1 <= n => g[k + 1] = ObeyNext(g[k])
<1>1. \A k \in 0..n : g[k] = IF k = 0 THEN <<s, buf>> ELSE ObeyNext(g[k - 1])
  BY DEF Runs
<1>2. g[0] = <<s, buf>>  BY <1>1
<1>3. ASSUME NEW k \in 0..n, k + 1 <= n PROVE g[k + 1] = ObeyNext(g[k])
  <2>1. k + 1 \in 0..n /\ k + 1 # 0 /\ (k + 1) - 1 = k  BY <1>3
  <2> QED  BY <1>1, <2>1
<1> QED  BY <1>2, <1>3

LEMMA RunNext ==
  ASSUME NEW s, NEW buf, NEW n \in Nat, NEW g, Runs(g, s, buf, n), NEW k \in 0..n, k + 1 <= n
  PROVE  g[k + 1] = ObeyNext(g[k])
<1>1. \A i \in 0..n : g[i] = IF i = 0 THEN <<s, buf>> ELSE ObeyNext(g[i - 1])
  BY DEF Runs
<1>2. k + 1 \in 0..n /\ k + 1 # 0 /\ (k + 1) - 1 = k  OBVIOUS
<1> QED  BY <1>1, <1>2

LEMMA ParseRuns ==
  ASSUME NEW s, NEW buf \in Stream
  PROVE  \E g : Runs(g, s, buf, Len(buf)) /\ ParseBuffer(s, buf) = g[Len(buf)]
<1> DEFINE g == CHOOSE h : Runs(h, s, buf, Len(buf))
<1>0. Len(buf) \in Nat  BY DEF Stream
<1>1. Runs(g, s, buf, Len(buf))  BY <1>0, RunExists
<1>2. ParseBuffer(s, buf) = g[Len(buf)]  BY DEF ParseBuffer, Runs
<1> HIDE DEF g
<1> QED  BY <1>1, <1>2

(* A round obeys the item at the head and leaves the rest.                    *)
LEMMA OneRound ==
  ASSUME NEW s, NEW buf \in Stream
  PROVE  /\ ItemLength(buf) = 0 => ObeyNext(<<s, buf>>) = <<s, buf>>
         /\ ItemLength(buf) # 0 =>
              LET rest == SubSeq(buf, ItemLength(buf) + 1, Len(buf))
              IN /\ ObeyNext(<<s, buf>>) = <<Obeyed(s, SubSeq(buf, 1, ItemLength(buf))), rest>>
                 /\ rest \in Stream /\ Len(rest) = Len(buf) - ItemLength(buf)
<1>1. ItemLength(buf) \in 0..Len(buf)  BY ItemWithin
<1> QED  BY <1>1, CutTail DEF ObeyNext

(* Each round shortens the buffer until what is left is incomplete.           *)
LEMMA RunShortens ==
  ASSUME NEW s, NEW buf \in Stream, NEW n \in Nat, NEW g, Runs(g, s, buf, n)
  PROVE  \A k \in 0..n : \E t, b : /\ g[k] = <<t, b>> /\ b \in Stream
                                   /\ ItemLength(b) = 0 \/ Len(b) + k <= Len(buf)
<1> DEFINE Good(k) == \E t, b : /\ g[k] = <<t, b>> /\ b \in Stream
                                /\ ItemLength(b) = 0 \/ Len(b) + k <= Len(buf)
           S == {k \in Nat : k <= n => Good(k)}
<1>0. Len(buf) \in Nat  BY DEF Stream
<1>1. 0 \in S
  <2>1. g[0] = <<s, buf>>  BY RunRounds
  <2> QED  BY <1>0, <2>1
<1>2. ASSUME NEW k \in Nat, k \in S PROVE k + 1 \in S
  <2> SUFFICES ASSUME k + 1 <= n PROVE Good(k + 1)
    OBVIOUS
  <2>1. k \in 0..n /\ Good(k)  BY <1>2
  <2>2. PICK t, b : /\ g[k] = <<t, b>> /\ b \in Stream
                    /\ ItemLength(b) = 0 \/ Len(b) + k <= Len(buf)
    BY <2>1
  <2>3. g[k + 1] = ObeyNext(<<t, b>>)
    <3>1. g[k + 1] = ObeyNext(g[k])  BY <2>1, RunNext
    <3> QED  BY <2>2, <3>1
  <2>4. CASE ItemLength(b) = 0
    <3>1. g[k + 1] = <<t, b>>  BY <2>2, <2>3, <2>4, OneRound
    <3> QED  BY <2>2, <2>4, <3>1
  <2>5. CASE ItemLength(b) # 0
    <3> DEFINE rest == SubSeq(b, ItemLength(b) + 1, Len(b))
               u == Obeyed(t, SubSeq(b, 1, ItemLength(b)))
    <3>1. g[k + 1] = <<u, rest>> /\ rest \in Stream /\ Len(rest) = Len(b) - ItemLength(b)
      BY <2>2, <2>3, <2>5, OneRound
    <3>2. ItemLength(b) \in 0..Len(b) /\ Len(b) \in Nat  BY <2>2, ItemWithin DEF Stream
    <3> HIDE DEF rest, u
    <3>3. Len(rest) + (k + 1) <= Len(buf)  BY <1>0, <2>2, <2>5, <3>1, <3>2
    <3> QED  BY <3>1, <3>3
  <2> QED  BY <2>4, <2>5
<1> HIDE DEF S
<1>3. Nat \subseteq S  BY <1>1, <1>2, Induction
<1> QED  BY <1>3 DEF S

LEMMA ParseEnds ==
  ASSUME NEW s, NEW buf \in Stream
  PROVE  \E t, b : ParseBuffer(s, buf) = <<t, b>> /\ b \in Stream /\ ItemLength(b) = 0
<1>0. Len(buf) \in Nat  BY DEF Stream
<1>1. PICK g : Runs(g, s, buf, Len(buf)) /\ ParseBuffer(s, buf) = g[Len(buf)]  BY ParseRuns
<1>2. PICK t, b : /\ g[Len(buf)] = <<t, b>> /\ b \in Stream
                  /\ ItemLength(b) = 0 \/ Len(b) + Len(buf) <= Len(buf)
  <2>1. Len(buf) \in 0..Len(buf)  BY <1>0
  <2> QED  BY <1>0, <1>1, <2>1, RunShortens
<1>3. ItemLength(b) = 0
  <2>1. Len(b) \in Nat /\ ItemLength(b) \in 0..Len(b)  BY <1>2, ItemWithin DEF Stream
  <2> QED  BY <1>0, <1>2, <2>1
<1> QED  BY <1>1, <1>2, <1>3

(* Once a round changes nothing, no later one does.                           *)
LEMMA RunRests ==
  ASSUME NEW s, NEW buf, NEW n \in Nat, NEW g, Runs(g, s, buf, n),
         NEW j \in 0..n, ObeyNext(g[j]) = g[j]
  PROVE  g[n] = g[j]
<1> DEFINE S == {k \in Nat : j + k <= n => g[j + k] = g[j]}
<1>1. 0 \in S  OBVIOUS
<1>2. ASSUME NEW k \in Nat, k \in S PROVE k + 1 \in S
  <2> SUFFICES ASSUME j + (k + 1) <= n PROVE g[j + (k + 1)] = g[j]
    OBVIOUS
  <2>1. j + k \in 0..n /\ j + k <= n /\ (j + k) + 1 <= n /\ (j + k) + 1 = j + (k + 1)
    OBVIOUS
  <2>2. g[j + k] = g[j]  BY <1>2, <2>1
  <2>3. g[(j + k) + 1] = ObeyNext(g[j + k])  BY <2>1, RunRounds
  <2> QED  BY <2>1, <2>2, <2>3
<1> HIDE DEF S
<1>3. Nat \subseteq S  BY <1>1, <1>2, Induction
<1>4. n - j \in S  BY <1>3
<1>5. j + (n - j) = n /\ n <= n  OBVIOUS
<1> QED  BY <1>4, <1>5 DEF S

LEMMA ParseStop ==
  ASSUME NEW s, NEW buf \in Stream, ItemLength(buf) = 0
  PROVE  ParseBuffer(s, buf) = <<s, buf>>
<1>0. Len(buf) \in Nat  BY DEF Stream
<1>1. PICK g : Runs(g, s, buf, Len(buf)) /\ ParseBuffer(s, buf) = g[Len(buf)]  BY ParseRuns
<1>2. g[0] = <<s, buf>> /\ ObeyNext(<<s, buf>>) = <<s, buf>>
  <2>1. g[0] = <<s, buf>>  BY <1>0, <1>1, RunRounds
  <2> QED  BY <2>1, OneRound
<1>3. g[Len(buf)] = g[0]
  <2>1. 0 \in 0..Len(buf) /\ ObeyNext(g[0]) = g[0]  BY <1>0, <1>2
  <2> QED  BY <1>0, <1>1, <2>1, RunRests
<1> QED  BY <1>1, <1>2, <1>3

LEMMA ParseStep ==
  ASSUME NEW s, NEW buf \in Stream, ItemLength(buf) # 0
  PROVE  ParseBuffer(s, buf) = ParseBuffer(Obeyed(s, SubSeq(buf, 1, ItemLength(buf))),
                                           SubSeq(buf, ItemLength(buf) + 1, Len(buf)))
<1> DEFINE rest == SubSeq(buf, ItemLength(buf) + 1, Len(buf))
           t == Obeyed(s, SubSeq(buf, 1, ItemLength(buf)))
           m == Len(rest)
<1>1. /\ ObeyNext(<<s, buf>>) = <<t, rest>> /\ rest \in Stream
      /\ Len(buf) \in Nat /\ m \in Nat /\ m + 1 <= Len(buf)
  <2>1. ItemLength(buf) \in 0..Len(buf) /\ Len(buf) \in Nat  BY ItemWithin DEF Stream
  <2>2. ObeyNext(<<s, buf>>) = <<t, rest>> /\ rest \in Stream /\ m = Len(buf) - ItemLength(buf)
    BY OneRound
  <2> HIDE DEF rest, t
  <2> QED  BY <2>1, <2>2
<1> SUFFICES ParseBuffer(s, buf) = ParseBuffer(t, rest)
  OBVIOUS
<1> HIDE DEF rest, t
<1>2. PICK g : Runs(g, s, buf, Len(buf)) /\ ParseBuffer(s, buf) = g[Len(buf)]  BY ParseRuns
<1>3. PICK h : Runs(h, t, rest, Len(rest)) /\ ParseBuffer(t, rest) = h[Len(rest)]  BY <1>1, ParseRuns
<1>10. g[0] = <<s, buf>> /\ \A k \in 0..Len(buf) : k + 1 <= Len(buf) => g[k + 1] = ObeyNext(g[k])
  <2>1. g[0] = <<s, buf>>  BY <1>1, <1>2, RunRounds
  <2>2. ASSUME NEW k \in 0..Len(buf), k + 1 <= Len(buf) PROVE g[k + 1] = ObeyNext(g[k])
    BY <1>1, <1>2, <2>2, RunNext
  <2> QED  BY <2>1, <2>2
<1>11. h[0] = <<t, rest>> /\ \A k \in 0..m : k + 1 <= m => h[k + 1] = ObeyNext(h[k])
  BY <1>1, <1>3, RunRounds
<1> DEFINE S == {k \in Nat : k <= m => g[k + 1] = h[k]}
<1>4. 0 \in S
  <2>1. 0 \in 0..Len(buf) /\ 0 + 1 <= Len(buf)  BY <1>1
  <2>2. g[0 + 1] = h[0]  BY <1>1, <1>10, <1>11, <2>1
  <2> QED  BY <2>2
<1>5. ASSUME NEW k \in Nat, k \in S PROVE k + 1 \in S
  <2> SUFFICES ASSUME k + 1 <= m PROVE g[(k + 1) + 1] = h[k + 1]
    OBVIOUS
  <2>1. k <= m /\ k \in 0..m /\ k + 1 \in 0..Len(buf) /\ (k + 1) + 1 <= Len(buf)  BY <1>1
  <2>2. g[k + 1] = h[k]  BY <1>5, <2>1
  <2>3. h[k + 1] = ObeyNext(h[k])  BY <1>11, <2>1
  <2>4. g[(k + 1) + 1] = ObeyNext(g[k + 1])  BY <1>10, <2>1
  <2> QED  BY <2>2, <2>3, <2>4
<1>6. Nat \subseteq S
  <2> HIDE DEF S
  <2> QED  BY <1>4, <1>5, Induction
<1>7. g[m + 1] = h[m]  BY <1>1, <1>6
<1>8. ObeyNext(g[m + 1]) = g[m + 1]
  <2>1. PICK u, b : ParseBuffer(t, rest) = <<u, b>> /\ b \in Stream /\ ItemLength(b) = 0
    BY <1>1, ParseEnds
  <2> QED  BY <1>3, <1>7, <2>1, OneRound
<1>9. g[Len(buf)] = g[m + 1]
  <2>1. m + 1 \in 0..Len(buf)  BY <1>1
  <2> QED  BY <1>1, <1>2, <1>8, <2>1, RunRests
<1> QED  BY <1>2, <1>3, <1>7, <1>9

(* What every item obeyed keeps, parsing keeps.                               *)
LEMMA ParseKeeps ==
  ASSUME NEW s, NEW buf \in Stream, NEW T, <<s, buf>> \in T, \A p \in T : ObeyNext(p) \in T
  PROVE  ParseBuffer(s, buf) \in T
<1>0. Len(buf) \in Nat  BY DEF Stream
<1>1. PICK g : Runs(g, s, buf, Len(buf)) /\ ParseBuffer(s, buf) = g[Len(buf)]  BY ParseRuns
<1> DEFINE S == {k \in Nat : k <= Len(buf) => g[k] \in T}
<1>2. 0 \in S
  <2>1. g[0] = <<s, buf>>  BY <1>0, <1>1, RunRounds
  <2> QED  BY <2>1
<1>3. ASSUME NEW k \in Nat, k \in S PROVE k + 1 \in S
  <2> SUFFICES ASSUME k + 1 <= Len(buf) PROVE g[k + 1] \in T
    OBVIOUS
  <2>1. k \in 0..Len(buf) /\ k <= Len(buf)  BY <1>0
  <2>2. g[k + 1] = ObeyNext(g[k])  BY <1>0, <1>1, <2>1, RunNext
  <2> QED  BY <1>3, <2>1, <2>2
<1> HIDE DEF S
<1>4. Nat \subseteq S  BY <1>2, <1>3, Induction
<1> QED  BY <1>0, <1>1, <1>4 DEF S

(* To parse what came first and then the rest is to parse both at once, when  *)
(* characters are whole.                                                      *)
ParsesOn(s, a, d, e) ==
  \E t, b : /\ ParseBuffer(s, a) = <<t, b>> /\ b \in Stream /\ ItemLength(b) = 0
            /\ ParseBuffer(s, a \o d) = ParseBuffer(t, b \o d)
            /\ CharactersWhole((b \o d) \o e)

LEMMA ParseMoreStep ==
  ASSUME NEW s, NEW a \in Stream, NEW d \in Stream, NEW e \in Stream,
         CharactersWhole((a \o d) \o e), ItemLength(a) # 0
  PROVE  LET t == Obeyed(s, SubSeq(a, 1, ItemLength(a)))
             rest == SubSeq(a, ItemLength(a) + 1, Len(a))
         IN /\ ParseBuffer(s, a) = ParseBuffer(t, rest)
            /\ ParseBuffer(s, a \o d) = ParseBuffer(t, rest \o d)
            /\ CharactersWhole((rest \o d) \o e)
            /\ rest \in Stream /\ Len(rest) < Len(a)
<1> DEFINE n == ItemLength(a)
           t == Obeyed(s, SubSeq(a, 1, n))
           rest == SubSeq(a, n + 1, Len(a))
<1>0. /\ n \in 0..Len(a) /\ n # 0 /\ Len(a) \in Nat
      /\ a \o d \in Stream /\ d \o e \in Stream /\ rest \in Stream /\ Len(rest) = Len(a) - n
  BY ItemWithin, Glued, CutTail DEF Stream
<1>1. (a \o d) \o e = a \o (d \o e)  BY GluedTwice
<1>2. a[1] \notin {"c", "L4"} /\ a[n] # "L2"
  <2>1. CharactersWhole(a \o (d \o e))  BY <1>1
  <2> QED  BY <1>0, <2>1, WholeHead
<1>3. ItemLength(a \o d) = n  BY <1>0, <1>2, ItemStable
<1>4. /\ SubSeq(a \o d, 1, n) = SubSeq(a, 1, n)
      /\ SubSeq(a \o d, n + 1, Len(a \o d)) = rest \o d
  BY <1>0, CutGlued
<1>5. ParseBuffer(s, a) = ParseBuffer(t, rest)  BY <1>0, ParseStep
<1>6. ParseBuffer(s, a \o d) = ParseBuffer(t, rest \o d)  BY <1>0, <1>3, <1>4, ParseStep
<1>7. CharactersWhole((rest \o d) \o e)
  <2> DEFINE w == a \o (d \o e)
  <2>1. w \in Stream /\ Len(w) = Len(a) + Len(d \o e) /\ w[n] = a[n] /\ Len(d \o e) \in Nat
    BY <1>0, Glued DEF Stream
  <2>2. SubSeq(w, n + 1, Len(w)) = rest \o (d \o e)  BY <1>0, CutGlued
  <2>3. rest \o (d \o e) = (rest \o d) \o e  BY <1>0, GluedTwice
  <2>4. CharactersWhole(w)  BY <1>1
  <2> HIDE DEF w
  <2>5. n \in 0..Len(w)  BY <1>0, <2>1
  <2>6. CharactersWhole(SubSeq(w, n + 1, Len(w)))  BY <1>2, <2>1, <2>4, <2>5, WholeRest
  <2> QED  BY <2>2, <2>3, <2>6
<1>8. Len(rest) < Len(a)  BY <1>0
<1> QED  BY <1>0, <1>5, <1>6, <1>7, <1>8

LEMMA ParseMore ==
  ASSUME NEW s, NEW a \in Stream, NEW d \in Stream, NEW e \in Stream,
         CharactersWhole((a \o d) \o e)
  PROVE  ParsesOn(s, a, d, e)
<1> DEFINE All(n) == \A u : \A w \in Stream :
                        Len(w) <= n /\ CharactersWhole((w \o d) \o e) => ParsesOn(u, w, d, e)
           S == {n \in Nat : All(n)}
<1>1. ASSUME NEW u, NEW w \in Stream, CharactersWhole((w \o d) \o e), ItemLength(w) = 0
      PROVE  ParsesOn(u, w, d, e)
  <2>1. ParseBuffer(u, w) = <<u, w>>  BY <1>1, ParseStop
  <2> QED  BY <1>1, <2>1 DEF ParsesOn
<1>2. 0 \in S
  <2> SUFFICES ASSUME NEW u, NEW w \in Stream, Len(w) <= 0, CharactersWhole((w \o d) \o e)
               PROVE  ParsesOn(u, w, d, e)
    OBVIOUS
  <2>1. Len(w) = 0  BY DEF Stream
  <2>2. ItemLength(w) = 0  BY <2>1, ItemCases
  <2> QED  BY <1>1, <2>2
<1>3. ASSUME NEW n \in Nat, n \in S PROVE n + 1 \in S
  <2> SUFFICES ASSUME NEW u, NEW w \in Stream, Len(w) <= n + 1, CharactersWhole((w \o d) \o e)
               PROVE  ParsesOn(u, w, d, e)
    OBVIOUS
  <2>1. CASE ItemLength(w) = 0  BY <1>1, <2>1
  <2>2. CASE ItemLength(w) # 0
    <3> DEFINE t == Obeyed(u, SubSeq(w, 1, ItemLength(w)))
               rest == SubSeq(w, ItemLength(w) + 1, Len(w))
    <3>1. /\ ParseBuffer(u, w) = ParseBuffer(t, rest)
          /\ ParseBuffer(u, w \o d) = ParseBuffer(t, rest \o d)
          /\ CharactersWhole((rest \o d) \o e)
          /\ rest \in Stream /\ Len(rest) < Len(w)
      BY <2>2, ParseMoreStep
    <3> HIDE DEF t, rest
    <3>2. Len(rest) <= n
      <4>1. Len(rest) \in Nat /\ Len(w) \in Nat  BY <3>1 DEF Stream
      <4> QED  BY <3>1, <4>1
    <3>3. ParsesOn(t, rest, d, e)  BY <1>3, <3>1, <3>2
    <3> QED  BY <3>1, <3>3 DEF ParsesOn
  <2> QED  BY <2>1, <2>2
<1> HIDE DEF S
<1>4. Nat \subseteq S  BY <1>2, <1>3, Induction
<1>5. Len(a) \in Nat /\ Len(a) <= Len(a)  BY DEF Stream
<1>6. All(Len(a))  BY <1>4, <1>5 DEF S
<1> QED  BY <1>5, <1>6

(* A chunk cut in two is the two glued, and a byte may be moved from one to   *)
(* the other.                                                                 *)
LEMMA CutJoins ==
  ASSUME NEW a \in Stream, NEW n \in 0..Len(a)
  PROVE  SubSeq(a, 1, n) \o SubSeq(a, n + 1, Len(a)) = a
<1> DEFINE l == SubSeq(a, 1, n)
           r == SubSeq(a, n + 1, Len(a))
           w == l \o r
<1>0. Len(a) \in Nat /\ n \in Nat /\ n <= Len(a)  BY DEF Stream
<1>1. /\ l \in Stream /\ Len(l) = n /\ \A i \in 1..n : l[i] = a[i]
      /\ r \in Stream /\ Len(r) = Len(a) - n /\ \A i \in 1..Len(a) - n : r[i] = a[n + i]
  BY CutTail
<1> HIDE DEF l, r
<1>2. /\ w \in Stream /\ Len(w) = Len(l) + Len(r)
      /\ \A i \in 1..Len(l) : w[i] = l[i]
      /\ \A i \in Len(l) + 1..Len(l) + Len(r) : w[i] = r[i - Len(l)]
  BY <1>1, Glued
<1> HIDE DEF w
<1>3. ASSUME NEW i \in 1..Len(w) PROVE w[i] = a[i]
  <2>1. CASE i <= n
    <3>1. i \in 1..n /\ i \in 1..Len(l)  BY <1>0, <1>1, <2>1
    <3> QED  BY <1>1, <1>2, <3>1
  <2>2. CASE i > n
    <3>1. i \in Len(l) + 1..Len(l) + Len(r) /\ i - Len(l) \in 1..Len(a) - n /\ n + (i - Len(l)) = i
      BY <1>0, <1>1, <1>2, <2>2
    <3> QED  BY <1>1, <1>2, <3>1
  <2>3. i <= n \/ i > n  BY <1>0
  <2> QED  BY <2>1, <2>2, <2>3
<1>4. Len(w) = Len(a)  BY <1>0, <1>1, <1>2
<1>5. w = a  BY <1>2, <1>3, <1>4, SameStream
<1> QED  BY <1>5 DEF w, l, r

LEMMA OneMore ==
  ASSUME NEW a \in Stream, NEW n \in 0..Len(a), n + 1 <= Len(a)
  PROVE  /\ <<a[n + 1]>> \in Stream /\ SubSeq(a, 1, n + 1) = SubSeq(a, 1, n) \o <<a[n + 1]>>
<1>0. Len(a) \in Nat /\ n \in Nat /\ n + 1 \in 1..Len(a) /\ a[n + 1] \in STRING  BY DEF Stream
<1> DEFINE d == <<a[n + 1]>>
           l == SubSeq(a, 1, n)
           m == SubSeq(a, 1, n + 1)
           w == l \o d
<1>1. d \in Stream /\ Len(d) = 1 /\ d[1] = a[n + 1]  BY <1>0 DEF Stream
<1>2. /\ l \in Stream /\ Len(l) = n /\ \A i \in 1..n : l[i] = a[i]
      /\ m \in Stream /\ Len(m) = n + 1 /\ \A i \in 1..(n + 1) : m[i] = a[i]
  BY <1>0, CutTail
<1> HIDE DEF d, l, m
<1>3. /\ w \in Stream /\ Len(w) = Len(l) + Len(d)
      /\ \A i \in 1..Len(l) : w[i] = l[i]
      /\ \A i \in Len(l) + 1..Len(l) + Len(d) : w[i] = d[i - Len(l)]
  BY <1>1, <1>2, Glued
<1> HIDE DEF w
<1>4. ASSUME NEW i \in 1..Len(w) PROVE w[i] = m[i]
  <2>1. CASE i <= n
    <3>1. i \in 1..n /\ i \in 1..Len(l) /\ i \in 1..(n + 1)  BY <1>0, <1>2, <2>1
    <3> QED  BY <1>2, <1>3, <3>1
  <2>2. CASE i > n
    <3>1. i = n + 1 /\ i \in Len(l) + 1..Len(l) + Len(d) /\ i - Len(l) = 1 /\ i \in 1..(n + 1)
      BY <1>0, <1>1, <1>2, <1>3, <2>2
    <3> QED  BY <1>1, <1>2, <1>3, <3>1
  <2>3. i <= n \/ i > n  BY <1>0
  <2> QED  BY <2>1, <2>2, <2>3
<1>5. Len(w) = Len(m)  BY <1>1, <1>2, <1>3
<1>6. w = m  BY <1>2, <1>3, <1>4, <1>5, SameStream
<1> QED  BY <1>1, <1>6 DEF d, m, w, l

(* Bytes one by one: what has been obeyed after each.                         *)
ByteRuns(g, start, chunk, n) ==
  g = [i \in 0..n |-> IF i = 0 THEN start ELSE ParseByte(g[i - 1], chunk[i])]

LEMMA ByteRunExists ==
  ASSUME NEW start, NEW chunk
  PROVE  \A n \in Nat : \E g : ByteRuns(g, start, chunk, n)
<1> DEFINE S == {n \in Nat : \E g : ByteRuns(g, start, chunk, n)}
<1>0. \A n, g : ByteRuns(g, start, chunk, n) <=>
                  g = [i \in 0..n |-> IF i = 0 THEN start ELSE ParseByte(g[i - 1], chunk[i])]
  BY DEF ByteRuns
<1>1. 0 \in S
  <2> DEFINE none == [i \in 0..0 |-> start]
  <2>1. none = [i \in 0..0 |-> IF i = 0 THEN start ELSE ParseByte(none[i - 1], chunk[i])]
    OBVIOUS
  <2> HIDE DEF none
  <2> QED  BY <1>0, <2>1
<1>2. ASSUME NEW n \in Nat, n \in S PROVE n + 1 \in S
  <2>1. PICK g : g = [i \in 0..n |-> IF i = 0 THEN start ELSE ParseByte(g[i - 1], chunk[i])]
    BY <1>0, <1>2
  <2> DEFINE next == ParseByte(g[n], chunk[n + 1])
             more == [i \in 0..(n + 1) |-> IF i = n + 1 THEN next ELSE g[i]]
  <2>2. /\ \A i \in 0..n : more[i] = g[i]
        /\ more[n + 1] = next
        /\ more = [i \in 0..(n + 1) |-> more[i]]
    <3> HIDE DEF next
    <3> QED  OBVIOUS
  <2>3. \A i \in 0..n : g[i] = IF i = 0 THEN start ELSE ParseByte(g[i - 1], chunk[i])
    BY <2>1
  <2> HIDE DEF more
  <2>4. ASSUME NEW i \in 0..(n + 1)
        PROVE  more[i] = IF i = 0 THEN start ELSE ParseByte(more[i - 1], chunk[i])
    <3>1. CASE i = n + 1
      <4>1. i # 0 /\ i - 1 = n /\ n \in 0..n  BY <3>1
      <4> QED  BY <2>2, <3>1, <4>1
    <3>2. CASE i = 0  BY <2>2, <2>3, <3>2
    <3>3. CASE i # 0 /\ i # n + 1
      <4>1. i \in 0..n /\ i - 1 \in 0..n  BY <3>3
      <4> QED  BY <2>2, <2>3, <3>3, <4>1
    <3> QED  BY <3>1, <3>2, <3>3
  <2>5. more = [i \in 0..(n + 1) |-> IF i = 0 THEN start ELSE ParseByte(more[i - 1], chunk[i])]
    BY <2>2, <2>4
  <2>6. ByteRuns(more, start, chunk, n + 1)  BY <1>0, <2>5
  <2>7. \E h : ByteRuns(h, start, chunk, n + 1)  BY <2>6
  <2>8. n + 1 \in Nat  OBVIOUS
  <2> QED  BY <2>7, <2>8, Zenon
<1> HIDE DEF S
<1>3. Nat \subseteq S  BY <1>1, <1>2, Induction
<1> QED  BY <1>3 DEF S

LEMMA ByteRunNext ==
  ASSUME NEW start, NEW chunk, NEW n \in Nat, NEW g, ByteRuns(g, start, chunk, n)
  PROVE  /\ g[0] = start
         /\ \A k \in 0..n : k + 1 <= n => g[k + 1] = ParseByte(g[k], chunk[k + 1])
<1>1. \A i \in 0..n : g[i] = IF i = 0 THEN start ELSE ParseByte(g[i - 1], chunk[i])
  BY DEF ByteRuns
<1>2. g[0] = start  BY <1>1
<1>3. ASSUME NEW k \in 0..n, k + 1 <= n PROVE g[k + 1] = ParseByte(g[k], chunk[k + 1])
  <2>1. k + 1 \in 0..n /\ k + 1 # 0 /\ (k + 1) - 1 = k  BY <1>3
  <2> QED  BY <1>1, <2>1
<1> QED  BY <1>2, <1>3

Regroups(buf, a, d, tail, rest) ==
  /\ buf \o a \in Stream /\ tail \o rest \in Stream
  /\ (buf \o a) \o d = buf \o (a \o d)
  /\ ((buf \o a) \o d) \o (tail \o rest) = (buf \o ((a \o d) \o tail)) \o rest

LEMMA Regrouped ==
  ASSUME NEW buf \in Stream, NEW a \in Stream, NEW d \in Stream, NEW tail \in Stream,
         NEW rest \in Stream
  PROVE  Regroups(buf, a, d, tail, rest)
<1>1. buf \o a \in Stream /\ tail \o rest \in Stream /\ a \o d \in Stream  BY Glued
<1>2. (buf \o a) \o d = buf \o (a \o d)  BY GluedTwice
<1>3. buf \o (a \o d) \in Stream  BY <1>1, Glued
<1>4. (buf \o (a \o d)) \o (tail \o rest) = ((buf \o (a \o d)) \o tail) \o rest
  BY <1>1, <1>3, GluedTwice
<1>5. (buf \o (a \o d)) \o tail = buf \o ((a \o d) \o tail)
  <2>1. ASSUME NEW m \in Stream PROVE (buf \o m) \o tail = buf \o (m \o tail)
    BY GluedTwice
  <2> QED  BY <1>1, <2>1
<1> QED  BY <1>1, <1>2, <1>4, <1>5 DEF Regroups

LEMMA BytesOrChunk ==
  ASSUME NEW s, NEW buf \in Stream, NEW chunk \in Stream, NEW rest \in Stream, ItemLength(buf) = 0,
         CharactersWhole((buf \o chunk) \o rest),
         NEW g, ByteRuns(g, <<s, buf>>, chunk, Len(chunk))
  PROVE  g[Len(chunk)] = ParseBuffer(s, buf \o chunk)
<1> DEFINE n == Len(chunk)
           head(i) == SubSeq(chunk, 1, i)
           S == {i \in Nat : i <= n => g[i] = ParseBuffer(s, buf \o head(i))}
<1>0. n \in Nat  BY DEF Stream
<1>1. /\ g[0] = <<s, buf>>
      /\ \A k \in 0..n : k + 1 <= n => g[k + 1] = ParseByte(g[k], chunk[k + 1])
  BY <1>0, ByteRunNext
<1>2. 0 \in S
  <2>1. buf \o head(0) = buf
    <3>1. head(0) \in Stream /\ Len(head(0)) = 0  BY <1>0, CutTail
    <3>2. head(0) = <<>>  BY <3>1 DEF Stream
    <3> QED  BY <3>2 DEF Stream
  <2>2. ParseBuffer(s, buf) = <<s, buf>>  BY ParseStop
  <2> QED  BY <1>1, <2>1, <2>2
<1>3. ASSUME NEW i \in Nat, i \in S PROVE i + 1 \in S
  <2> SUFFICES ASSUME i + 1 <= n PROVE g[i + 1] = ParseBuffer(s, buf \o head(i + 1))
    OBVIOUS
  <2> DEFINE now == head(i)
             then == head(i + 1)
             a == buf \o now
             d == <<chunk[i + 1]>>
             tail == SubSeq(chunk, (i + 1) + 1, Len(chunk))
             e == tail \o rest
  <2>0. i \in 0..n /\ i <= n /\ i + 1 \in 0..n  BY <1>0
  <2>1. g[i] = ParseBuffer(s, a) /\ g[i + 1] = ParseByte(g[i], chunk[i + 1])
    BY <1>1, <1>3, <2>0
  <2>2. /\ d \in Stream /\ then = now \o d
        /\ now \in Stream /\ then \in Stream /\ tail \in Stream
        /\ then \o tail = chunk
    BY <2>0, OneMore, CutTail, CutJoins
  <2> SUFFICES g[i + 1] = ParseBuffer(s, buf \o then)
    OBVIOUS
  <2> HIDE DEF now, then, d, tail, n
  <2>3. Regroups(buf, now, d, tail, rest)  BY <2>2, Regrouped
  <2>4. /\ a \in Stream /\ e \in Stream /\ a \o d = buf \o then
        /\ (a \o d) \o e = (buf \o chunk) \o rest
    BY <2>2, <2>3 DEF Regroups
  <2>5. ParsesOn(s, a, d, e)  BY <2>2, <2>4, ParseMore
  <2>6. PICK t, b : /\ ParseBuffer(s, a) = <<t, b>> /\ b \in Stream
                    /\ ParseBuffer(s, a \o d) = ParseBuffer(t, b \o d)
    BY <2>5 DEF ParsesOn
  <2> HIDE DEF a, e
  <2>7. ParseByte(<<t, b>>, chunk[i + 1]) = ParseBuffer(t, b \o d)
    <3>1. Append(b, chunk[i + 1]) = b \o d
      <4>1. chunk[i + 1] \in STRING  BY <2>0 DEF Stream, n
      <4> QED  BY <2>6, <4>1, AppendIsConcat DEF Stream, d
    <3> QED  BY <3>1 DEF ParseByte
  <2> QED  BY <2>1, <2>4, <2>6, <2>7
<1> HIDE DEF S
<1>4. Nat \subseteq S  BY <1>2, <1>3, Induction
<1>5. g[n] = ParseBuffer(s, buf \o head(n))
  <2>1. n <= n  BY <1>0
  <2> QED  BY <1>0, <1>4, <2>1 DEF S
<1>6. head(n) = chunk
  <2>1. /\ head(n) \in Stream /\ Len(head(n)) = n /\ \A i \in 1..n : head(n)[i] = chunk[i]
    BY <1>0, CutTail
  <2> QED  BY <2>1, SameStream
<1> QED  BY <1>5, <1>6

-----------------------------------------------------------------------------
(* Between two steps the parser keeps what is incomplete, and no character of *)
(* what it keeps and of what is on the way is cut.                            *)
ChunkInv ==
  /\ buffer \in Stream /\ wire \in Stream /\ ItemLength(buffer) = 0
  /\ CharactersWhole(buffer \o wire)
  /\ byByte = <<screen, buffer>>

LEMMA Empty == <<>> \in Stream /\ Len(<<>>) = 0 /\ CharactersWhole(<<>>)
BY DEF Stream, CharactersWhole

LEMMA EmptyGlued ==
  ASSUME NEW a \in Stream
  PROVE  a \o <<>> = a /\ <<>> \o a = a
BY DEF Stream

LEMMA FeedSame ==
  ASSUME ChunkInv, NEW item \in Stream, CharactersWhole(item),
         NEW k \in 1..Len(wire) + Len(item), Feed(item, k)
  PROVE  ChunkInv'
<1> DEFINE stream == wire \o item
           chunk == SubSeq(stream, 1, k)
           rest == SubSeq(stream, k + 1, Len(stream))
           a == buffer \o chunk
           after == CHOOSE g : g = [i \in 0..k |-> IF i = 0 THEN byByte ELSE ParseByte(g[i - 1], chunk[i])]
<1>1. /\ buffer \in Stream /\ wire \in Stream /\ ItemLength(buffer) = 0
      /\ CharactersWhole(buffer \o wire) /\ byByte = <<screen, buffer>>
  BY DEF ChunkInv
<1>2. /\ screen' = ParseBuffer(screen, a)[1] /\ buffer' = ParseBuffer(screen, a)[2]
      /\ byByte' = after[k] /\ wire' = rest
  BY DEF Feed
<1>3. stream \in Stream /\ Len(stream) = Len(wire) + Len(item) /\ Len(stream) \in Nat /\ k \in 0..Len(stream)
  <2>1. Len(wire) \in Nat /\ Len(item) \in Nat  BY <1>1 DEF Stream
  <2> QED  BY <1>1, <2>1, Glued
<1>4. CharactersWhole(a \o rest)
  <2>1. CharactersWhole((buffer \o wire) \o item)
    <3>1. buffer \o wire \in Stream  BY <1>1, Glued
    <3> QED  BY <1>1, <3>1, WholeGlued
  <2>2. (buffer \o wire) \o item = buffer \o stream  BY <1>1, GluedTwice
  <2> HIDE DEF stream
  <2>3. chunk \in Stream /\ rest \in Stream /\ chunk \o rest = stream  BY <1>3, CutTail, CutJoins
  <2> HIDE DEF chunk, rest
  <2>4. (buffer \o chunk) \o rest = buffer \o (chunk \o rest)  BY <1>1, <2>3, GluedTwice
  <2> QED  BY <2>1, <2>2, <2>3, <2>4
<1> HIDE DEF stream
<1>5. chunk \in Stream /\ Len(chunk) = k /\ rest \in Stream  BY <1>3, CutTail
<1>6. after[k] = ParseBuffer(screen, a)
  <2>1. ByteRuns(after, <<screen, buffer>>, chunk, k)
    <3>0. k \in Nat  BY <1>3
    <3>1. \E g : ByteRuns(g, byByte, chunk, k)  BY <3>0, ByteRunExists
    <3>2. ByteRuns(after, byByte, chunk, k)  BY <3>1 DEF ByteRuns
    <3> QED  BY <1>1, <3>2
  <2> HIDE DEF after, chunk, rest
  <2>2. ByteRuns(after, <<screen, buffer>>, chunk, Len(chunk))  BY <1>5, <2>1
  <2>3. after[Len(chunk)] = ParseBuffer(screen, buffer \o chunk)
    BY <1>1, <1>4, <1>5, <2>2, BytesOrChunk
  <2> QED  BY <1>5, <2>3
<1> HIDE DEF after, chunk, rest
<1>7. a \in Stream  BY <1>1, <1>5, Glued
<1>8. ParsesOn(screen, a, <<>>, rest)
  <2>1. a \o <<>> = a  BY <1>7, EmptyGlued
  <2> QED  BY <1>4, <1>5, <1>7, <2>1, Empty, ParseMore
<1> HIDE DEF a
<1>9. PICK t, b : /\ ParseBuffer(screen, a) = <<t, b>> /\ b \in Stream /\ ItemLength(b) = 0
                  /\ CharactersWhole((b \o <<>>) \o rest)
  BY <1>8 DEF ParsesOn
<1>10. b \o <<>> = b  BY <1>9, EmptyGlued
<1>11. screen' = t /\ buffer' = b /\ byByte' = <<t, b>> /\ wire' = rest
  BY <1>2, <1>6, <1>9
<1> QED  BY <1>5, <1>9, <1>10, <1>11 DEF ChunkInv

LEMMA BothSame ==
  ASSUME ChunkInv, Still, NEW t, screen' = t, byByte' = <<t, byByte[2]>>
  PROVE  ChunkInv'
BY DEF ChunkInv, Still

LEMMA OthersSame ==
  ASSUME ChunkInv, Still, UNCHANGED <<screen, byByte>>
  PROVE  ChunkInv'
BY DEF ChunkInv, Still

LEMMA ChunkStep ==
  ASSUME ItemsWhole, ChunkInv, [Next]_vars
  PROVE  ChunkInv'
<1>0. byByte[1] = screen  BY DEF ChunkInv
<1>1. CASE WriteData
  <2>1. PICK item \in Items : \E k \in 1..Len(wire) + Len(item) : Feed(item, k)
    BY <1>1 DEF WriteData
  <2>2. item \in Stream /\ CharactersWhole(item)  BY InstanceAssumption DEF Stream, ItemsWhole
  <2> QED  BY <2>1, <2>2, FeedSame
<1>2. CASE WriteRest
  <2>1. Feed(<<>>, Len(wire)) /\ wire # <<>>  BY <1>2 DEF WriteRest
  <2>2. Len(wire) \in 1..Len(wire) + Len(<<>>)
    <3>1. wire \in Stream /\ Len(wire) \in Nat /\ Len(wire) # 0  BY <2>1 DEF ChunkInv, Stream
    <3> QED  BY <3>1, Empty
  <2> QED  BY <2>1, <2>2, Empty, FeedSame
<1>3. CASE PaintEvent  BY <1>3, OthersSame DEF PaintEvent
<1>4. CASE MouseRelease  BY <1>4, OthersSame DEF MouseRelease
<1>5. ASSUME NEW size \in Sizes, ResizeEvent(size) PROVE ChunkInv'
  BY <1>0, <1>5, BothSame DEF ResizeEvent, Both
<1>6. ASSUME NEW size \in Sizes, SetTerminalFont(size) PROVE ChunkInv'
  BY <1>0, <1>6, BothSame DEF SetTerminalFont, Both
<1>7. ASSUME NEW lines \in {-1, 1}, WheelEvent(lines) PROVE ChunkInv'
  BY <1>0, <1>7, BothSame DEF WheelEvent, Both
<1>8. ASSUME NEW x, NEW row, MousePress(x, row) \/ MouseMove(x, row) PROVE ChunkInv'
  BY <1>8, OthersSame DEF MousePress, MouseMove
<1>9. ASSUME NEW found, FindText(found) PROVE ChunkInv'
  BY <1>0, <1>9, BothSame DEF FindText, Both
<1>10. CASE UNCHANGED vars  BY <1>10 DEF vars, ChunkInv
<1> QED
  BY <1>1, <1>2, <1>3, <1>4, <1>5, <1>6, <1>7, <1>8, <1>9, <1>10
     DEF Next, User, OnEvent, FindNext, FindPrevious

(* Where the stream is cut makes no difference, when no item cuts a character.*)
THEOREM ChunksNeverMatter ==
  ASSUME ItemsWhole
  PROVE  Spec => []ChunksDoNotMatter
<1>1. Init => ChunkInv
  <2> SUFFICES ASSUME Init PROVE ChunkInv
    OBVIOUS
  <2>1. ItemLength(<<>>) = 0  BY Empty, ItemCases
  <2>2. <<>> \o <<>> = <<>>  BY Empty, EmptyGlued
  <2> QED  BY <2>1, <2>2, Empty DEF Init, ChunkInv
<1>2. ChunkInv /\ [Next]_vars => ChunkInv'  BY ChunkStep
<1>3. ChunkInv => ChunksDoNotMatter  BY DEF ChunkInv, ChunksDoNotMatter
<1> QED  BY <1>1, <1>2, <1>3, PTL DEF Spec

-----------------------------------------------------------------------------
(* The screens there may be: as many cells as rows of columns, and the cursor *)
(* on it or just behind the last column.  A cell holds a byte, a blank or a   *)
(* character of more than one byte (to the provers a literal is no STRING).   *)
Glyphs == STRING \cup {Blank, "wide"}
Text == Seq(Glyphs)
Natural == Nat \ {0}
Screens ==
  {s \in [cols : Natural, rows : Natural, x : Nat, y : Nat, cells : Text, back : Seq(Text),
          offset : Nat, gone : Nat, wild : BOOLEAN] :
     /\ Len(s.cells) = s.cols * s.rows
     /\ s.x <= s.cols /\ s.y < s.rows /\ Len(s.back) <= ScrollbackMax}

LEMMA ScreenIs ==
  ASSUME NEW s \in Screens
  PROVE  /\ s.cols \in Nat /\ s.cols > 0 /\ s.rows \in Nat /\ s.rows > 0
         /\ s.x \in Nat /\ s.x <= s.cols /\ s.y \in Nat /\ s.y < s.rows
         /\ s.cells \in Text /\ Len(s.cells) = s.cols * s.rows
         /\ s.back \in Seq(Text) /\ Len(s.back) \in Nat /\ Len(s.back) <= ScrollbackMax
         /\ s.offset \in Nat /\ s.gone \in Nat /\ s.wild \in BOOLEAN
BY DEF Screens, Natural

LEMMA Piece ==
  ASSUME NEW a \in Text, NEW i \in 1..Len(a) + 1, NEW j \in i - 1..Len(a)
  PROVE  /\ SubSeq(a, i, j) \in Text /\ Len(SubSeq(a, i, j)) = (j - i) + 1
         /\ \A k \in 1..(j - i) + 1 : SubSeq(a, i, j)[k] = a[(i + k) - 1]
<1>1. Len(a) \in Nat  BY DEF Text
<1>2. SubSeq(a, i, j) = [k \in 1..(j - i) + 1 |-> a[(i + k) - 1]]  BY <1>1 DEF Text
<1>3. \A k \in 1..(j - i) + 1 : a[(i + k) - 1] \in Glyphs
  <2>1. \A k \in 1..(j - i) + 1 : (i + k) - 1 \in 1..Len(a)  BY <1>1
  <2>2. \A k \in 1..Len(a) : a[k] \in Glyphs  BY DEF Text
  <2> QED  BY <2>1, <2>2
<1>4. (j - i) + 1 \in Nat  BY <1>1
<1> DEFINE w == [k \in 1..(j - i) + 1 |-> a[(i + k) - 1]]
           n == (j - i) + 1
<1>5. w \in [1..n -> Glyphs] /\ n \in Nat /\ \A k \in 1..n : w[k] = a[(i + k) - 1]  BY <1>3, <1>4
<1> HIDE DEF w, n
<1>6. w \in Text /\ Len(w) = n  BY <1>5 DEF Text
<1> QED  BY <1>2, <1>5, <1>6 DEF w, n

LEMMA MaxIs == ScrollbackMax \in Nat /\ ScrollbackMax > 0
BY InstanceAssumption

(* Rows of cells: a row ends before the next one begins.                      *)
LEMMA RowsFit ==
  ASSUME NEW cols \in Nat, NEW rows \in Nat, NEW y \in Nat, y < rows
  PROVE  y * cols \in Nat /\ y * cols + cols <= cols * rows /\ cols * rows \in Nat
<1>1. y + 1 <= rows  OBVIOUS
<1> QED  BY <1>1

LEMMA IndexIs ==
  ASSUME NEW s \in Screens, NEW x \in Int, NEW y \in Nat, y < s.rows
  PROVE  /\ Index(s, x, y) \in Int /\ Index(s, x, y) = Index(s, 0, y) + x
         /\ Index(s, 0, y) \in Nat \ {0} /\ Index(s, 0, y) + s.cols <= Len(s.cells) + 1
         /\ x >= 0 /\ x < s.cols => Index(s, x, y) \in 1..Len(s.cells)
<1>0. s.cols \in Nat /\ s.cols > 0 /\ s.rows \in Nat /\ Len(s.cells) = s.cols * s.rows  BY ScreenIs
<1> DEFINE c == s.cols
           p == y * s.cols
<1>1. p \in Nat /\ p + c <= c * s.rows /\ c * s.rows \in Nat  BY <1>0, RowsFit
<1>2. Index(s, x, y) = (p + x) + 1 /\ Index(s, 0, y) = (p + 0) + 1  BY DEF Index
<1>3. p + c <= Len(s.cells) /\ Len(s.cells) \in Nat /\ c \in Nat  BY <1>0, <1>1
<1> SUFFICES /\ Index(s, x, y) \in Int /\ Index(s, x, y) = Index(s, 0, y) + x
             /\ Index(s, 0, y) \in Nat \ {0} /\ Index(s, 0, y) + c <= Len(s.cells) + 1
             /\ x >= 0 /\ x < c => Index(s, x, y) \in 1..Len(s.cells)
  OBVIOUS
<1> HIDE DEF p, c
<1>4. Index(s, x, y) \in Int /\ Index(s, x, y) = Index(s, 0, y) + x  BY <1>1, <1>2
<1>5. Index(s, 0, y) \in Nat \ {0} /\ Index(s, 0, y) + c <= Len(s.cells) + 1  BY <1>1, <1>2, <1>3
<1>6. x >= 0 /\ x < c => Index(s, x, y) \in 1..Len(s.cells)  BY <1>1, <1>2, <1>3
<1> QED  BY <1>4, <1>5, <1>6

LEMMA RowIs ==
  ASSUME NEW s \in Screens, NEW y \in Nat, y < s.rows
  PROVE  Row(s, y) \in Text /\ Len(Row(s, y)) = s.cols
<1> DEFINE i == Index(s, 0, y)
           j == Index(s, s.cols - 1, y)
<1>0. s.cols \in Nat /\ s.cols > 0 /\ s.cells \in Text /\ Len(s.cells) \in Nat
  BY ScreenIs DEF Text
<1>1. i \in Nat \ {0} /\ i + s.cols <= Len(s.cells) + 1 /\ j = i + (s.cols - 1)
  <2>1. s.cols - 1 \in Int  BY <1>0
  <2> QED  BY <2>1, IndexIs
<1> HIDE DEF i, j
<1>2. SubSeq(s.cells, i, j) \in Text /\ Len(SubSeq(s.cells, i, j)) = s.cols
  <2>1. i \in 1..Len(s.cells) + 1 /\ j \in i - 1..Len(s.cells) /\ (j - i) + 1 = s.cols
    BY <1>0, <1>1
  <2> QED  BY <1>0, <2>1, Piece
<1> QED  BY <1>2 DEF Row, i, j

(* What follows a screen when output goes on.  The size is the same, lines of *)
(* the scrollback stay as wide as the screen, and the lines shown stay while  *)
(* the first of them is in the scrollback.                                    *)
Wide(s) == \A i \in 1..Len(s.back) : Len(s.back[i]) >= s.cols
ScrolledBack(s) == s.offset \in 1..Len(s.back)
Follows(s, t) ==
  /\ t \in Screens /\ t.cols = s.cols /\ t.rows = s.rows
  /\ Wide(s) => Wide(t)
  /\ s.gone <= t.gone
  /\ ScrolledBack(s) /\ t.gone <= FirstShown(s) => FirstShown(t) = FirstShown(s) /\ ScrolledBack(t)

LEMMA FollowsOn ==
  ASSUME NEW s \in Screens, NEW t, NEW u, Follows(s, t), Follows(t, u)
  PROVE  Follows(s, u)
<1>1. t \in Screens /\ u \in Screens  BY DEF Follows
<1>2. s.gone \in Nat /\ t.gone \in Nat /\ u.gone \in Nat  BY <1>1, ScreenIs
<1>3. FirstShown(s) \in Int /\ FirstShown(t) \in Int
  BY <1>1, ScreenIs DEF FirstShown, FirstVisible
<1>4. s.gone <= u.gone  BY <1>2 DEF Follows
<1>5. ASSUME ScrolledBack(s), u.gone <= FirstShown(s)
      PROVE  FirstShown(u) = FirstShown(s) /\ ScrolledBack(u)
  <2>1. t.gone <= FirstShown(s)
    <3>1. t.gone <= u.gone  BY DEF Follows
    <3> QED  BY <1>2, <1>3, <1>5, <3>1
  <2>2. FirstShown(t) = FirstShown(s) /\ ScrolledBack(t)  BY <1>5, <2>1 DEF Follows
  <2> QED  BY <1>5, <2>2 DEF Follows
<1> QED  BY <1>4, <1>5 DEF Follows

(* Moving the cursor, and writing cells, leave all else.                      *)
LEMMA CursorFollows ==
  ASSUME NEW s \in Screens, NEW x \in 0..s.cols, NEW y \in 0..s.rows - 1
  PROVE  Follows(s, [s EXCEPT !.x = x, !.y = y])
<1> DEFINE t == [s EXCEPT !.x = x, !.y = y]
<1>0. x \in Nat /\ x <= s.cols /\ y \in Nat /\ y < s.rows  BY ScreenIs
<1>1. /\ t \in Screens /\ t.cols = s.cols /\ t.rows = s.rows /\ t.back = s.back
      /\ t.offset = s.offset /\ t.gone = s.gone
  BY <1>0 DEF Screens, Natural
<1> HIDE DEF t
<1>2. Follows(s, t)
  <2>1. s.gone <= t.gone  BY <1>1, ScreenIs
  <2> QED  BY <1>1, <2>1 DEF Follows, Wide, ScrolledBack, FirstShown, FirstVisible
<1> QED  BY <1>2 DEF t

LEMMA CellsFollow ==
  ASSUME NEW s \in Screens, NEW cells \in Text, Len(cells) = Len(s.cells), NEW w \in BOOLEAN
  PROVE  Follows(s, [s EXCEPT !.cells = cells, !.wild = w])
<1> DEFINE t == [s EXCEPT !.cells = cells, !.wild = w]
<1>1. /\ t \in Screens /\ t.cols = s.cols /\ t.rows = s.rows /\ t.back = s.back
      /\ t.offset = s.offset /\ t.gone = s.gone
  BY DEF Screens, Natural
<1> HIDE DEF t
<1>2. Follows(s, t)
  <2>1. s.gone <= t.gone  BY <1>1, ScreenIs
  <2> QED  BY <1>1, <2>1 DEF Follows, Wide, ScrolledBack, FirstShown, FirstVisible
<1> QED  BY <1>2 DEF t

LEMMA WrittenIs ==
  ASSUME NEW s \in Screens, NEW new, \A i \in DOMAIN new : i \in 1..Len(s.cells) => new[i] \in Glyphs
  PROVE  /\ Follows(s, Written(s, new))
         /\ Len(Written(s, new).cells) = Len(s.cells)
         /\ Written(s, new).x = s.x /\ Written(s, new).y = s.y
         /\ Written(s, new).wild <=> s.wild \/ ~(DOMAIN new \subseteq 1..Len(s.cells))
         /\ \A i \in 1..Len(s.cells) :
              Written(s, new).cells[i] = IF i \in DOMAIN new THEN new[i] ELSE s.cells[i]
<1> DEFINE cells == [i \in 1..Len(s.cells) |-> IF i \in DOMAIN new THEN new[i] ELSE s.cells[i]]
           w == s.wild \/ ~(DOMAIN new \subseteq 1..Len(s.cells))
<1>0. s.cells \in Text /\ Len(s.cells) \in Nat /\ s.wild \in BOOLEAN  BY ScreenIs DEF Text
<1>1. cells \in Text /\ Len(cells) = Len(s.cells)
  <2>1. \A i \in 1..Len(s.cells) : s.cells[i] \in Glyphs  BY <1>0 DEF Text
  <2>2. cells \in [1..Len(s.cells) -> Glyphs]  BY <2>1
  <2> HIDE DEF cells
  <2> QED  BY <1>0, <2>2 DEF Text
<1>2. w \in BOOLEAN  OBVIOUS
<1>3. Written(s, new) = [s EXCEPT !.cells = cells, !.wild = w]  BY DEF Written
<1>4. \A i \in 1..Len(s.cells) : cells[i] = IF i \in DOMAIN new THEN new[i] ELSE s.cells[i]
  OBVIOUS
<1>5. w <=> s.wild \/ ~(DOMAIN new \subseteq 1..Len(s.cells))  OBVIOUS
<1> HIDE DEF cells, w
<1>6. /\ Written(s, new).cells = cells /\ Written(s, new).wild = w
      /\ Written(s, new).x = s.x /\ Written(s, new).y = s.y
  BY <1>3 DEF Screens
<1>7. Follows(s, Written(s, new))  BY <1>1, <1>2, <1>3, CellsFollow
<1> QED  BY <1>1, <1>4, <1>5, <1>6, <1>7

LEMMA ErasedIs ==
  ASSUME NEW s \in Screens, NEW S
  PROVE  /\ Follows(s, Erased(s, S))
         /\ Len(Erased(s, S).cells) = Len(s.cells)
         /\ Erased(s, S).x = s.x /\ Erased(s, S).y = s.y
         /\ Erased(s, S).wild <=> s.wild \/ ~(S \subseteq 1..Len(s.cells))
         /\ \A i \in 1..Len(s.cells) : i \notin S => Erased(s, S).cells[i] = s.cells[i]
<1> DEFINE new == [i \in S |-> Blank]
<1>0. Blank \in Glyphs  BY DEF Glyphs
<1>1. DOMAIN new = S /\ \A i \in DOMAIN new : new[i] \in Glyphs
  <2>1. \A i \in S : new[i] = Blank  OBVIOUS
  <2>2. DOMAIN new = S  OBVIOUS
  <2> QED  BY <1>0, <2>1, <2>2
<1>2. Erased(s, S) = Written(s, new)  BY DEF Erased
<1> HIDE DEF new
<1> QED  BY <1>1, <1>2, WrittenIs

LEMMA FollowsSelf ==
  ASSUME NEW s \in Screens
  PROVE  Follows(s, s)
BY ScreenIs DEF Follows

LEMMA XFollows ==
  ASSUME NEW s \in Screens, NEW x \in 0..s.cols
  PROVE  Follows(s, [s EXCEPT !.x = x])
<1>1. s.y \in 0..s.rows - 1  BY ScreenIs
<1>2. Follows(s, [s EXCEPT !.x = x, !.y = s.y])  BY <1>1, CursorFollows
<1>3. [s EXCEPT !.x = x, !.y = s.y] = [s EXCEPT !.x = x]  BY DEF Screens
<1> QED  BY <1>2, <1>3

LEMMA YFollows ==
  ASSUME NEW s \in Screens, NEW y \in 0..s.rows - 1
  PROVE  Follows(s, [s EXCEPT !.y = y])
<1>1. s.x \in 0..s.cols  BY ScreenIs
<1>2. Follows(s, [s EXCEPT !.x = s.x, !.y = y])  BY <1>1, CursorFollows
<1>3. [s EXCEPT !.x = s.x, !.y = y] = [s EXCEPT !.y = y]  BY DEF Screens
<1> QED  BY <1>2, <1>3

LEMMA BlanksAre ==
  ASSUME NEW n \in Nat
  PROVE  Blanks(n) \in Text /\ Len(Blanks(n)) = n
<1>1. Blanks(n) \in [1..n -> Glyphs]  BY DEF Blanks, Glyphs
<1> QED  BY <1>1 DEF Text, Blanks

LEMMA TextGlued ==
  ASSUME NEW a \in Text, NEW b \in Text
  PROVE  a \o b \in Text /\ Len(a \o b) = Len(a) + Len(b)
BY DEF Text

(* The lines of the scrollback with one more, and without the oldest.         *)
LEMMA OneMoreLine ==
  ASSUME NEW back \in Seq(Text), NEW row \in Text, NEW cols \in Nat, Len(row) = cols
  PROVE  LET grown == Append(back, row)
             All(b) == \A i \in 1..Len(b) : Len(b[i]) >= cols
         IN /\ grown \in Seq(Text) /\ Len(grown) = Len(back) + 1
            /\ Tail(grown) \in Seq(Text) /\ Len(Tail(grown)) = Len(back)
            /\ All(back) => All(grown) /\ All(Tail(grown))
<1> DEFINE grown == Append(back, row)
           rest == Tail(grown)
<1>1. /\ grown \in Seq(Text) /\ Len(grown) = Len(back) + 1 /\ Len(back) \in Nat
      /\ \A i \in 1..Len(back) : grown[i] = back[i]
      /\ grown[Len(back) + 1] = row
  OBVIOUS
<1> HIDE DEF grown
<1>2. /\ rest \in Seq(Text) /\ Len(rest) = Len(back) /\ \A i \in 1..Len(back) : rest[i] = grown[i + 1]
  <2>1. grown # <<>>  BY <1>1
  <2> QED  BY <1>1, <2>1
<1> HIDE DEF rest
<1>3. ASSUME \A i \in 1..Len(back) : Len(back[i]) >= cols, NEW i \in 1..Len(grown)
      PROVE  Len(grown[i]) >= cols
  <2>1. CASE i = Len(back) + 1  BY <1>1, <2>1
  <2>2. CASE i # Len(back) + 1
    <3>1. i \in 1..Len(back)  BY <1>1, <2>2
    <3> QED  BY <1>1, <1>3, <3>1
  <2> QED  BY <2>1, <2>2
<1>4. ASSUME \A i \in 1..Len(back) : Len(back[i]) >= cols, NEW i \in 1..Len(rest)
      PROVE  Len(rest[i]) >= cols
  <2>1. i \in 1..Len(back) /\ i + 1 \in 1..Len(grown)  BY <1>1, <1>2
  <2>2. rest[i] = grown[i + 1]  BY <1>2, <2>1
  <2> QED  BY <1>3, <1>4, <2>1, <2>2
<1> QED  BY <1>1, <1>2, <1>3, <1>4 DEF grown, rest

LEMMA ScrollFollows ==
  ASSUME NEW s \in Screens
  PROVE  Follows(s, ScrollUp(s)) /\ ScrollUp(s).x = s.x
<1> DEFINE grown == Append(s.back, Row(s, 0))
           kept == IF Len(grown) > ScrollbackMax THEN Tail(grown) ELSE grown
           cells == SubSeq(s.cells, s.cols + 1, Len(s.cells)) \o Blanks(s.cols)
           off == IF s.offset > 0 THEN Min({s.offset + 1, Len(kept)}) ELSE s.offset
           gone == s.gone + Len(grown) - Len(kept)
           t == ScrollUp(s)
<1>0. /\ s.cols \in Nat /\ s.cols > 0 /\ s.rows \in Nat /\ s.cells \in Text
      /\ s.back \in Seq(Text) /\ Len(s.back) \in Nat /\ Len(s.back) <= ScrollbackMax
      /\ s.offset \in Nat /\ s.gone \in Nat /\ ScrollbackMax \in Nat
  BY ScreenIs, MaxIs
<1>1. Row(s, 0) \in Text /\ Len(Row(s, 0)) = s.cols
  <2>1. 0 \in Nat /\ 0 < s.rows  BY ScreenIs
  <2> QED  BY <2>1, RowIs
<1>2. /\ grown \in Seq(Text) /\ Len(grown) = Len(s.back) + 1
      /\ Tail(grown) \in Seq(Text) /\ Len(Tail(grown)) = Len(s.back)
      /\ Wide(s) => /\ \A i \in 1..Len(grown) : Len(grown[i]) >= s.cols
                    /\ \A i \in 1..Len(Tail(grown)) : Len(Tail(grown)[i]) >= s.cols
  BY <1>0, <1>1, OneMoreLine DEF Wide
<1>3. cells \in Text /\ Len(cells) = Len(s.cells)
  <2>1. Len(s.cells) \in Nat /\ s.cols <= Len(s.cells)
    <3>1. Index(s, 0, 0) + s.cols <= Len(s.cells) + 1 /\ Index(s, 0, 0) = 1
      <4>1. 0 \in Nat /\ 0 < s.rows /\ 0 \in Int  BY ScreenIs
      <4>2. Index(s, 0, 0) + s.cols <= Len(s.cells) + 1  BY <4>1, IndexIs
      <4> QED  BY <1>0, <4>2 DEF Index
    <3>2. Len(s.cells) \in Nat  BY <1>0 DEF Text
    <3> QED  BY <1>0, <3>1, <3>2
  <2>2. /\ SubSeq(s.cells, s.cols + 1, Len(s.cells)) \in Text
        /\ Len(SubSeq(s.cells, s.cols + 1, Len(s.cells))) = Len(s.cells) - s.cols
    <3>1. s.cols + 1 \in 1..Len(s.cells) + 1 /\ Len(s.cells) \in (s.cols + 1) - 1..Len(s.cells)
      BY <1>0, <2>1
    <3>2. (Len(s.cells) - (s.cols + 1)) + 1 = Len(s.cells) - s.cols  BY <1>0, <2>1
    <3> QED  BY <1>0, <3>1, <3>2, Piece
  <2>3. Blanks(s.cols) \in Text /\ Len(Blanks(s.cols)) = s.cols  BY <1>0, BlanksAre
  <2> QED  BY <1>0, <2>1, <2>2, <2>3, TextGlued
<1>4. /\ kept \in Seq(Text) /\ Len(kept) \in Nat /\ Len(kept) <= ScrollbackMax
      /\ \/ Len(kept) = Len(s.back) + 1 /\ gone = s.gone
         \/ Len(kept) = Len(s.back) /\ gone = s.gone + 1
      /\ Wide(s) => \A i \in 1..Len(kept) : Len(kept[i]) >= s.cols
  <2>1. CASE Len(grown) > ScrollbackMax
    <3>1. kept = Tail(grown)  BY <2>1
    <3> HIDE DEF grown, kept
    <3> QED  BY <1>0, <1>2, <2>1, <3>1
  <2>2. CASE ~ (Len(grown) > ScrollbackMax)
    <3>1. kept = grown  BY <2>2
    <3> HIDE DEF grown, kept
    <3> QED  BY <1>0, <1>2, <2>2, <3>1
  <2> QED  BY <2>1, <2>2
<1>5. off = IF s.offset > 0 THEN (IF s.offset + 1 <= Len(kept) THEN s.offset + 1 ELSE Len(kept))
                            ELSE s.offset
  <2>1. s.offset + 1 \in Int /\ Len(kept) \in Int  BY <1>0, <1>4
  <2> HIDE DEF kept
  <2> QED  BY <2>1, MinOfTwo
<1>6. t = [s EXCEPT !.back = kept, !.gone = gone, !.cells = cells, !.offset = off]
  BY DEF ScrollUp
<1> HIDE DEF grown, kept, cells, off, gone, t
<1>7. off \in Nat /\ gone \in Nat  BY <1>0, <1>4, <1>5
<1>8. /\ t \in Screens /\ t.cols = s.cols /\ t.rows = s.rows /\ t.x = s.x
      /\ t.back = kept /\ t.offset = off /\ t.gone = gone
  BY <1>3, <1>4, <1>6, <1>7 DEF Screens
<1>9. ASSUME ScrolledBack(s), t.gone <= FirstShown(s)
      PROVE  FirstShown(t) = FirstShown(s) /\ ScrolledBack(t)
  <2>1. s.offset \in 1..Len(s.back) /\ gone <= s.gone + (Len(s.back) - s.offset)
    BY <1>8, <1>9 DEF ScrolledBack, FirstShown, FirstVisible
  <2>2. off = s.offset + 1 /\ off \in 1..Len(kept)
        /\ gone + (Len(kept) - off) = s.gone + (Len(s.back) - s.offset)
    <3> DEFINE n == Len(s.back)
               m == Len(kept)
               o == s.offset
               g == s.gone
    <3>1. n \in Nat /\ m \in Nat /\ o \in Nat /\ g \in Nat /\ o \in 1..n /\ gone <= g + (n - o)
      BY <1>0, <1>4, <2>1
    <3>2. (m = n + 1 /\ gone = g) \/ (m = n /\ gone = g + 1)  BY <1>4
    <3>3. off = IF o > 0 THEN (IF o + 1 <= m THEN o + 1 ELSE m) ELSE o  BY <1>5
    <3> HIDE DEF n, m, o, g
    <3>4. o + 1 <= m  BY <3>1, <3>2
    <3>5. off = o + 1 /\ off \in 1..m  BY <3>1, <3>3, <3>4
    <3>6. gone + (m - off) = g + (n - o)  BY <3>1, <3>2, <3>5
    <3> QED  BY <3>5, <3>6 DEF n, m, o, g
  <2> QED  BY <1>8, <2>2 DEF ScrolledBack, FirstShown, FirstVisible
<1>10. s.gone <= t.gone  BY <1>0, <1>4, <1>8
<1>11. Wide(s) => Wide(t)  BY <1>4, <1>8 DEF Wide
<1>12. Follows(s, t)  BY <1>8, <1>9, <1>10, <1>11 DEF Follows
<1> QED  BY <1>8, <1>12 DEF t

LEMMA NewLineFollows ==
  ASSUME NEW s \in Screens
  PROVE  Follows(s, NewLine(s)) /\ NewLine(s).x = 0
<1> DEFINE left == [s EXCEPT !.x = 0]
<1>1. 0 \in 0..s.cols  BY ScreenIs
<1>2. Follows(s, left)  BY <1>1, XFollows
<1>3. left \in Screens /\ left.x = 0 /\ left.y = s.y /\ left.rows = s.rows
  <2>1. left \in Screens  BY <1>2 DEF Follows
  <2> QED  BY <2>1 DEF Screens
<1>4. NewLine(s) = IF s.y = s.rows - 1 THEN ScrollUp(left) ELSE [left EXCEPT !.y = s.y + 1]
  BY <1>3 DEF NewLine
<1> HIDE DEF left
<1>5. CASE s.y = s.rows - 1
  <2>1. Follows(left, ScrollUp(left)) /\ ScrollUp(left).x = 0  BY <1>3, ScrollFollows
  <2> QED  BY <1>2, <1>4, <1>5, <2>1, FollowsOn
<1>6. CASE s.y # s.rows - 1
  <2>1. s.y + 1 \in 0..left.rows - 1  BY <1>3, <1>6, ScreenIs
  <2>2. Follows(left, [left EXCEPT !.y = s.y + 1])  BY <1>3, <2>1, YFollows
  <2>3. [left EXCEPT !.y = s.y + 1].x = 0  BY <1>3 DEF Screens
  <2> QED  BY <1>2, <1>4, <1>6, <2>2, <2>3, FollowsOn
<1> QED  BY <1>5, <1>6

LEMMA PrintedFollows ==
  ASSUME NEW s \in Screens, NEW ch \in Glyphs
  PROVE  Follows(s, Printed(s, ch))
<1> DEFINE t == IF s.x >= s.cols THEN NewLine(s) ELSE s
           new == [i \in {Index(t, t.x, t.y)} |-> ch]
           u == Written(t, new)
<1>1. Follows(s, t) /\ t.x < t.cols
  <2>1. CASE s.x >= s.cols
    <3>1. Follows(s, NewLine(s)) /\ NewLine(s).x = 0  BY NewLineFollows
    <3>2. NewLine(s).cols = s.cols /\ s.cols > 0  BY <3>1, ScreenIs DEF Follows
    <3> QED  BY <2>1, <3>1, <3>2
  <2>2. CASE ~ (s.x >= s.cols)
    <3>1. s.x < s.cols  BY <2>2, ScreenIs
    <3> QED  BY <2>2, <3>1, FollowsSelf
  <2> QED  BY <2>1, <2>2
<1>2. t \in Screens  BY <1>1 DEF Follows
<1> HIDE DEF t
<1>3. Follows(t, u) /\ u.x = t.x
  <2>1. \A i \in DOMAIN new : new[i] \in Glyphs  OBVIOUS
  <2> HIDE DEF new
  <2> QED  BY <1>2, <2>1, WrittenIs
<1> HIDE DEF new
<1>4. u \in Screens /\ u.cols = t.cols  BY <1>3 DEF Follows
<1>5. Printed(s, ch) = [u EXCEPT !.x = t.x + 1]
  <2>1. Printed(s, ch) = [u EXCEPT !.x = @ + 1]  BY DEF Printed, t, new
  <2> HIDE DEF u
  <2> QED  BY <1>3, <2>1
<1> HIDE DEF u
<1>6. t.x + 1 \in 0..u.cols  BY <1>1, <1>2, <1>4, ScreenIs
<1>7. Follows(u, [u EXCEPT !.x = t.x + 1])  BY <1>4, <1>6, XFollows
<1> QED  BY <1>1, <1>2, <1>3, <1>5, <1>7, FollowsOn

(* Some cells of the cursor's row, from column lo on, are cells, and in the   *)
(* part of the row that an edit may change.                                   *)
Part(s, lo) == Index(s, lo, s.y)..Index(s, s.cols - 1, s.y)
Stays(s, t, lo) ==
  /\ t.wild => s.wild
  /\ \A i \in 1..Len(s.cells) : i \in Part(s, lo) \/ t.cells[i] = s.cells[i]

LEMMA PartOfRow ==
  ASSUME NEW s \in Screens, NEW lo \in Nat, NEW S, S \subseteq lo..s.cols - 1
  PROVE  {Index(s, x, s.y) : x \in S} \subseteq 1..Len(s.cells) \cap Part(s, lo)
<1>0. s.cols \in Nat /\ s.y \in Nat /\ s.y < s.rows /\ Len(s.cells) \in Nat
  BY ScreenIs DEF Text
<1> SUFFICES ASSUME NEW x \in S PROVE Index(s, x, s.y) \in 1..Len(s.cells) /\ Index(s, x, s.y) \in Part(s, lo)
  OBVIOUS
<1>1. x \in Int /\ x >= lo /\ x <= s.cols - 1 /\ x >= 0 /\ x < s.cols  BY <1>0
<1>2. Index(s, x, s.y) = Index(s, 0, s.y) + x /\ Index(s, x, s.y) \in 1..Len(s.cells)
  BY <1>0, <1>1, IndexIs
<1>3. Index(s, lo, s.y) = Index(s, 0, s.y) + lo /\ Index(s, 0, s.y) \in Nat \ {0}
  <2>1. lo \in Int  OBVIOUS
  <2> QED  BY <1>0, <2>1, IndexIs
<1>4. Index(s, s.cols - 1, s.y) = Index(s, 0, s.y) + (s.cols - 1)
  <2>1. s.cols - 1 \in Int  BY <1>0
  <2> QED  BY <1>0, <2>1, IndexIs
<1> QED  BY <1>0, <1>1, <1>2, <1>3, <1>4 DEF Part

LEMMA ErasedRow ==
  ASSUME NEW s \in Screens, NEW lo \in Nat, NEW S, S \subseteq lo..s.cols - 1
  PROVE  Stays(s, Erased(s, {Index(s, x, s.y) : x \in S}), lo)
<1> DEFINE I == {Index(s, x, s.y) : x \in S}
<1>1. I \subseteq 1..Len(s.cells) /\ I \subseteq Part(s, lo)  BY PartOfRow
<1> HIDE DEF I
<1>2. /\ Erased(s, I).wild <=> s.wild \/ ~(I \subseteq 1..Len(s.cells))
      /\ \A i \in 1..Len(s.cells) : i \notin I => Erased(s, I).cells[i] = s.cells[i]
  BY ErasedIs
<1>3. Stays(s, Erased(s, I), lo)  BY <1>1, <1>2 DEF Stays
<1> QED  BY <1>3 DEF I

LEMMA EraseLineIs ==
  ASSUME NEW s \in Screens, NEW mode
  PROVE  /\ Follows(s, EraseLine(s, mode))
         /\ s.x < s.cols => /\ mode = 0 => Stays(s, EraseLine(s, mode), s.x)
                            /\ mode \in {1, 2} => Stays(s, EraseLine(s, mode), 0)
<1>0. s.x \in Nat /\ s.cols \in Nat  BY ScreenIs
<1>1. CASE mode = 0
  <2>1. EraseLine(s, mode) = Erased(s, EraseFromCursor(s))  BY <1>1 DEF EraseLine
  <2>2. Stays(s, Erased(s, EraseFromCursor(s)), s.x)  BY <1>0, ErasedRow DEF EraseFromCursor
  <2> QED  BY <1>1, <2>1, <2>2, ErasedIs
<1>2. CASE mode = 1
  <2>1. EraseLine(s, mode) = Erased(s, EraseToCursor(s))  BY <1>2 DEF EraseLine
  <2>2. s.x < s.cols => 0..s.x \subseteq 0..s.cols - 1  BY <1>0
  <2>3. s.x < s.cols => Stays(s, Erased(s, EraseToCursor(s)), 0)
    BY <2>2, ErasedRow DEF EraseToCursor
  <2> QED  BY <1>2, <2>1, <2>3, ErasedIs
<1>3. CASE mode = 2
  <2>1. EraseLine(s, mode) = Erased(s, {Index(s, x, s.y) : x \in 0..s.cols - 1})
    BY <1>3 DEF EraseLine
  <2>2. Stays(s, Erased(s, {Index(s, x, s.y) : x \in 0..s.cols - 1}), 0)  BY ErasedRow
  <2> QED  BY <1>3, <2>1, <2>2, ErasedIs
<1>4. CASE mode \notin {0, 1, 2}
  <2>1. EraseLine(s, mode) = s  BY <1>4 DEF EraseLine
  <2> QED  BY <1>4, <2>1, FollowsSelf
<1> QED  BY <1>1, <1>2, <1>3, <1>4

LEMMA EraseDisplayFollows ==
  ASSUME NEW s \in Screens, NEW mode
  PROVE  Follows(s, EraseDisplay(s, mode))
<1>1. CASE mode \in {2, 3}
  <2> DEFINE e == Erased(s, 1..Len(s.cells))
             t == [e EXCEPT !.back = <<>>, !.gone = s.gone + Len(s.back)]
  <2>1. Follows(s, e) /\ e \in Screens /\ e.cols = s.cols /\ e.rows = s.rows
    BY ErasedIs DEF Follows
  <2>2. e.gone = s.gone  BY DEF Erased, Written, Screens
  <2>3. EraseDisplay(s, mode) = t
    <3>1. EraseDisplay(s, mode) = [e EXCEPT !.back = <<>>, !.gone = @ + Len(s.back)]
      BY <1>1 DEF EraseDisplay
    <3> HIDE DEF e
    <3> QED  BY <2>2, <3>1
  <2> HIDE DEF e
  <2>4. s.gone \in Nat /\ Len(s.back) \in Nat /\ s.offset \in Nat  BY ScreenIs
  <2>5. s.gone + Len(s.back) \in Nat /\ <<>> \in Seq(Text) /\ Len(<<>>) <= ScrollbackMax
    BY <2>4, MaxIs
  <2>6. /\ t \in Screens /\ t.cols = s.cols /\ t.rows = s.rows
        /\ t.back = <<>> /\ t.gone = s.gone + Len(s.back)
    BY <2>1, <2>5 DEF Screens
  <2> HIDE DEF t
  <2>7. Wide(t)  BY <2>6 DEF Wide
  <2>8. s.gone <= t.gone  BY <2>4, <2>6
  <2>9. ~ (ScrolledBack(s) /\ t.gone <= FirstShown(s))
    BY <2>4, <2>6 DEF ScrolledBack, FirstShown, FirstVisible
  <2> QED  BY <2>3, <2>6, <2>7, <2>8, <2>9 DEF Follows
<1>2. CASE mode = 0
  <2>1. \E S : EraseDisplay(s, mode) = Erased(s, S)  BY <1>2 DEF EraseDisplay
  <2> QED  BY <2>1, ErasedIs
<1>3. CASE mode = 1
  <2>1. \E S : EraseDisplay(s, mode) = Erased(s, S)  BY <1>3 DEF EraseDisplay
  <2> QED  BY <2>1, ErasedIs
<1>4. CASE mode \notin {0, 1, 2, 3}
  <2>1. EraseDisplay(s, mode) = s  BY <1>4 DEF EraseDisplay
  <2> QED  BY <2>1, FollowsSelf
<1> QED  BY <1>1, <1>2, <1>3, <1>4

(* Characters deleted and inserted: what is written and then blanked.         *)
LEMMA MovedIs ==
  ASSUME NEW s \in Screens, NEW new, NEW S,
         \A i \in DOMAIN new : i \in 1..Len(s.cells) => new[i] \in Glyphs
  PROVE  LET t == Erased(Written(s, new), S)
         IN /\ Follows(s, t)
            /\ \A lo : DOMAIN new \cup S \subseteq 1..Len(s.cells) \cap Part(s, lo) => Stays(s, t, lo)
<1> DEFINE m == Written(s, new)
           t == Erased(m, S)
<1>1. /\ Follows(s, m) /\ m \in Screens /\ Len(m.cells) = Len(s.cells)
      /\ m.wild <=> s.wild \/ ~(DOMAIN new \subseteq 1..Len(s.cells))
      /\ \A i \in 1..Len(s.cells) : m.cells[i] = IF i \in DOMAIN new THEN new[i] ELSE s.cells[i]
  BY WrittenIs DEF Follows
<1> HIDE DEF m
<1>2. /\ Follows(m, t)
      /\ t.wild <=> m.wild \/ ~(S \subseteq 1..Len(m.cells))
      /\ \A i \in 1..Len(m.cells) : i \notin S => t.cells[i] = m.cells[i]
  BY <1>1, ErasedIs
<1> HIDE DEF t
<1>3. Follows(s, t)  BY <1>1, <1>2, FollowsOn
<1>4. ASSUME NEW lo, DOMAIN new \cup S \subseteq 1..Len(s.cells) \cap Part(s, lo)
      PROVE  Stays(s, t, lo)
  <2>1. t.wild => s.wild  BY <1>1, <1>2, <1>4
  <2>2. ASSUME NEW i \in 1..Len(s.cells), i \notin Part(s, lo) PROVE t.cells[i] = s.cells[i]
    BY <1>1, <1>2, <1>4, <2>2
  <2> QED  BY <2>1, <2>2 DEF Stays
<1> QED  BY <1>3, <1>4 DEF t, m

LEMMA DeleteCharactersIs ==
  ASSUME NEW s \in Screens, NEW n \in Nat
  PROVE  /\ Follows(s, DeleteCharacters(s, n))
         /\ s.x < s.cols /\ n <= s.cols - s.x => Stays(s, DeleteCharacters(s, n), s.x)
<1> DEFINE D == {Index(s, x, s.y) : x \in s.x..s.cols - n - 1}
           new == [i \in D |-> s.cells[i + n]]
           S == {Index(s, x, s.y) : x \in s.cols - n..s.cols - 1}
<1>0. /\ s.x \in Nat /\ s.cols \in Nat /\ s.y \in Nat /\ s.y < s.rows
      /\ s.cells \in Text /\ Len(s.cells) \in Nat
  BY ScreenIs DEF Text
<1>1. DeleteCharacters(s, n) = Erased(Written(s, new), S)  BY DEF DeleteCharacters
<1>2. ASSUME NEW i \in D PROVE s.cells[i + n] \in Glyphs
  <2>1. PICK x \in s.x..s.cols - n - 1 : i = Index(s, x, s.y)  OBVIOUS
  <2>2. x \in Int /\ x + n \in Int /\ x + n >= 0 /\ x + n < s.cols  BY <1>0
  <2>3. Index(s, x, s.y) = Index(s, 0, s.y) + x  BY <1>0, <2>2, IndexIs
  <2>4. /\ Index(s, x + n, s.y) = Index(s, 0, s.y) + (x + n)
        /\ Index(s, x + n, s.y) \in 1..Len(s.cells) /\ Index(s, 0, s.y) \in Nat \ {0}
    BY <1>0, <2>2, IndexIs
  <2>5. i + n \in 1..Len(s.cells)  BY <2>1, <2>2, <2>3, <2>4
  <2> QED  BY <1>0, <2>5 DEF Text
<1>3. DOMAIN new = D /\ \A i \in DOMAIN new : new[i] \in Glyphs  BY <1>2
<1>4. D \subseteq 1..Len(s.cells) \cap Part(s, s.x)
  <2>1. s.x..s.cols - n - 1 \subseteq s.x..s.cols - 1  BY <1>0
  <2> QED  BY <1>0, <2>1, PartOfRow
<1>5. n <= s.cols - s.x => S \subseteq 1..Len(s.cells) \cap Part(s, s.x)
  <2>1. n <= s.cols - s.x => s.cols - n..s.cols - 1 \subseteq s.x..s.cols - 1  BY <1>0
  <2> QED  BY <1>0, <2>1, PartOfRow
<1> HIDE DEF D, new, S
<1> QED  BY <1>1, <1>3, <1>4, <1>5, MovedIs

LEMMA InsertCharactersIs ==
  ASSUME NEW s \in Screens, NEW n \in Nat
  PROVE  /\ Follows(s, InsertCharacters(s, n))
         /\ s.x < s.cols => Stays(s, InsertCharacters(s, n), s.x)
<1> DEFINE D == {Index(s, x, s.y) : x \in s.x + n..s.cols - 1}
           new == [i \in D |-> s.cells[i - n]]
           S == {Index(s, x, s.y) : x \in s.x..Min({s.x + n, s.cols}) - 1}
<1>0. /\ s.x \in Nat /\ s.cols \in Nat /\ s.y \in Nat /\ s.y < s.rows
      /\ s.cells \in Text /\ Len(s.cells) \in Nat
  BY ScreenIs DEF Text
<1>1. InsertCharacters(s, n) = Erased(Written(s, new), S)  BY DEF InsertCharacters
<1>2. ASSUME NEW i \in D PROVE s.cells[i - n] \in Glyphs
  <2>1. PICK x \in s.x + n..s.cols - 1 : i = Index(s, x, s.y)  OBVIOUS
  <2>2. x \in Int /\ x - n \in Int /\ x - n >= 0 /\ x - n < s.cols  BY <1>0
  <2>3. Index(s, x, s.y) = Index(s, 0, s.y) + x  BY <1>0, <2>2, IndexIs
  <2>4. /\ Index(s, x - n, s.y) = Index(s, 0, s.y) + (x - n)
        /\ Index(s, x - n, s.y) \in 1..Len(s.cells) /\ Index(s, 0, s.y) \in Nat \ {0}
    BY <1>0, <2>2, IndexIs
  <2>5. i - n \in 1..Len(s.cells)  BY <2>1, <2>2, <2>3, <2>4
  <2> QED  BY <1>0, <2>5 DEF Text
<1>3. DOMAIN new = D /\ \A i \in DOMAIN new : new[i] \in Glyphs  BY <1>2
<1>4. D \subseteq 1..Len(s.cells) \cap Part(s, s.x)
  <2>1. s.x + n..s.cols - 1 \subseteq s.x..s.cols - 1  BY <1>0
  <2> QED  BY <1>0, <2>1, PartOfRow
<1>5. S \subseteq 1..Len(s.cells) \cap Part(s, s.x)
  <2>0. Min({s.x + n, s.cols}) \in Int /\ Min({s.x + n, s.cols}) <= s.cols
    <3>1. s.x + n \in Int /\ s.cols \in Int  BY <1>0
    <3> QED  BY <3>1, MinOfTwo
  <2>1. s.x..Min({s.x + n, s.cols}) - 1 \subseteq s.x..s.cols - 1  BY <1>0, <2>0
  <2> QED  BY <1>0, <2>1, PartOfRow
<1> HIDE DEF D, new, S
<1> QED  BY <1>1, <1>3, <1>4, <1>5, MovedIs

(* Lines inserted and deleted: blanks come in where cells go out.             *)
LEMMA LinesFit ==
  ASSUME NEW s \in Screens, NEW n \in Nat
  PROVE  LET at == Index(s, 0, s.y) - 1
             new == Min({n, s.rows - s.y}) * s.cols
         IN at \in Nat /\ new \in Nat /\ at + new <= Len(s.cells)
<1> DEFINE m == Min({n, s.rows - s.y})
           c == s.cols
           r == s.rows
           y == s.y
<1>0. c \in Nat /\ r \in Nat /\ y \in Nat /\ y < r /\ Len(s.cells) = c * r  BY ScreenIs
<1>1. m \in Nat /\ y + m <= r
  <2>1. n \in Int /\ s.rows - s.y \in Int  BY <1>0
  <2>2. m = IF n <= s.rows - s.y THEN n ELSE s.rows - s.y  BY <2>1, MinOfTwo
  <2> HIDE DEF m
  <2> QED  BY <1>0, <2>2
<1>2. Index(s, 0, s.y) - 1 = y * c
  <2>1. Index(s, 0, s.y) = (y * c + 0) + 1  BY DEF Index
  <2>2. y * c \in Nat  BY <1>0
  <2> HIDE DEF y, c
  <2> QED  BY <2>1, <2>2
<1> SUFFICES y * c \in Nat /\ m * c \in Nat /\ y * c + m * c <= Len(s.cells)
  BY <1>2
<1> HIDE DEF m, c, r, y
<1>3. \A a \in Nat, b \in Nat, k \in Nat, q \in Nat : a + b <= q => a * k + b * k <= k * q
  <2> SUFFICES ASSUME NEW a \in Nat, NEW b \in Nat, NEW k \in Nat, NEW q \in Nat, a + b <= q
               PROVE  a * k + b * k <= k * q
    OBVIOUS
  <2>1. a * k + b * k = (a + b) * k  OBVIOUS
  <2>2. (a + b) * k <= q * k  OBVIOUS
  <2> QED  BY <2>1, <2>2
<1>4. y * c + m * c <= c * r  BY <1>0, <1>1, <1>3
<1>5. y * c \in Nat /\ m * c \in Nat  BY <1>0, <1>1
<1> QED  BY <1>0, <1>4, <1>5

LEMMA NewCellsFollow ==
  ASSUME NEW s \in Screens, NEW cells \in Text, Len(cells) = Len(s.cells)
  PROVE  Follows(s, [s EXCEPT !.cells = cells])
<1>1. Follows(s, [s EXCEPT !.cells = cells, !.wild = s.wild])  BY ScreenIs, CellsFollow
<1>2. [s EXCEPT !.cells = cells, !.wild = s.wild] = [s EXCEPT !.cells = cells]  BY DEF Screens
<1> QED  BY <1>1, <1>2

LEMMA InsertLinesFollows ==
  ASSUME NEW s \in Screens, NEW n \in Nat
  PROVE  Follows(s, InsertLines(s, n))
<1> DEFINE at == Index(s, 0, s.y) - 1
           new == Min({n, s.rows - s.y}) * s.cols
           a == SubSeq(s.cells, 1, at)
           b == Blanks(new)
           d == SubSeq(s.cells, at + 1, Len(s.cells) - new)
           cells == a \o b \o d
<1>0. s.cells \in Text /\ Len(s.cells) \in Nat  BY ScreenIs DEF Text
<1>1. at \in Nat /\ new \in Nat /\ at + new <= Len(s.cells)  BY LinesFit
<1>2. InsertLines(s, n) = [s EXCEPT !.cells = cells]  BY DEF InsertLines
<1> HIDE DEF at, new
<1>3. a \in Text /\ Len(a) = at
  <2>1. 1 \in 1..Len(s.cells) + 1 /\ at \in 1 - 1..Len(s.cells) /\ (at - 1) + 1 = at  BY <1>0, <1>1
  <2> QED  BY <1>0, <2>1, Piece
<1>4. b \in Text /\ Len(b) = new  BY <1>1, BlanksAre
<1>5. d \in Text /\ Len(d) = (Len(s.cells) - new) - at
  <2>1. /\ at + 1 \in 1..Len(s.cells) + 1 /\ Len(s.cells) - new \in (at + 1) - 1..Len(s.cells)
        /\ ((Len(s.cells) - new) - (at + 1)) + 1 = (Len(s.cells) - new) - at
    BY <1>0, <1>1
  <2> QED  BY <1>0, <2>1, Piece
<1> HIDE DEF a, b, d
<1>6. cells \in Text /\ Len(cells) = Len(s.cells)
  <2>1. a \o b \in Text /\ Len(a \o b) = at + new  BY <1>3, <1>4, TextGlued
  <2>2. cells \in Text /\ Len(cells) = Len(a \o b) + Len(d)  BY <1>5, <2>1, TextGlued
  <2> HIDE DEF cells
  <2>3. Len(cells) = (at + new) + ((Len(s.cells) - new) - at)  BY <1>5, <2>1, <2>2
  <2>4. (at + new) + ((Len(s.cells) - new) - at) = Len(s.cells)
    <3>1. \A p, q, l \in Int : (p + q) + ((l - q) - p) = l  OBVIOUS
    <3>2. at \in Int /\ new \in Int /\ Len(s.cells) \in Int  BY <1>0, <1>1
    <3> QED  BY ONLY <3>1, <3>2
  <2> QED  BY <2>2, <2>3, <2>4
<1> HIDE DEF cells
<1> QED  BY <1>2, <1>6, NewCellsFollow

LEMMA DeleteLinesFollows ==
  ASSUME NEW s \in Screens, NEW n \in Nat
  PROVE  Follows(s, DeleteLines(s, n))
<1> DEFINE at == Index(s, 0, s.y) - 1
           new == Min({n, s.rows - s.y}) * s.cols
           a == SubSeq(s.cells, 1, at)
           b == Blanks(new)
           d == SubSeq(s.cells, at + new + 1, Len(s.cells))
           cells == a \o d \o b
<1>0. s.cells \in Text /\ Len(s.cells) \in Nat  BY ScreenIs DEF Text
<1>1. at \in Nat /\ new \in Nat /\ at + new <= Len(s.cells)  BY LinesFit
<1>2. DeleteLines(s, n) = [s EXCEPT !.cells = cells]  BY DEF DeleteLines
<1> HIDE DEF at, new
<1>3. a \in Text /\ Len(a) = at
  <2>1. 1 \in 1..Len(s.cells) + 1 /\ at \in 1 - 1..Len(s.cells) /\ (at - 1) + 1 = at  BY <1>0, <1>1
  <2> QED  BY <1>0, <2>1, Piece
<1>4. b \in Text /\ Len(b) = new  BY <1>1, BlanksAre
<1>5. d \in Text /\ Len(d) = Len(s.cells) - (at + new)
  <2>1. /\ at + new + 1 \in 1..Len(s.cells) + 1 /\ Len(s.cells) \in (at + new + 1) - 1..Len(s.cells)
        /\ (Len(s.cells) - (at + new + 1)) + 1 = Len(s.cells) - (at + new)
    BY <1>0, <1>1
  <2> QED  BY <1>0, <2>1, Piece
<1> HIDE DEF a, b, d
<1>6. cells \in Text /\ Len(cells) = Len(s.cells)
  <2>1. a \o d \in Text /\ Len(a \o d) = at + (Len(s.cells) - (at + new))
    BY <1>3, <1>5, TextGlued
  <2>2. cells \in Text /\ Len(cells) = Len(a \o d) + Len(b)  BY <1>4, <2>1, TextGlued
  <2> QED  BY <1>0, <1>1, <1>4, <2>1, <2>2
<1> HIDE DEF cells
<1> QED  BY <1>2, <1>6, NewCellsFollow

(* The escape sequences.                                                      *)
LEMMA CsiFollows ==
  ASSUME NEW s \in Screens, NEW final, NEW nums \in Seq(Nat)
  PROVE  Follows(s, Csi(s, final, nums))
<1> DEFINE n == IF nums = <<>> THEN 1 ELSE Max({1, nums[1]})
           mode == IF nums = <<>> THEN 0 ELSE nums[1]
           Nth(k) == IF Len(nums) < k THEN 1 ELSE nums[k]
           row == Nth(1) - 1
           column == Nth(2) - 1
<1>0. /\ s.cols \in Nat /\ s.cols > 0 /\ s.rows \in Nat /\ s.rows > 0
      /\ s.x \in Nat /\ s.x <= s.cols /\ s.y \in Nat /\ s.y < s.rows
  BY ScreenIs
<1>1. n \in Nat
  <2>1. nums # <<>> => nums[1] \in Nat  OBVIOUS
  <2>2. nums # <<>> => Max({1, nums[1]}) = IF 1 >= nums[1] THEN 1 ELSE nums[1]  BY <2>1, MaxOfTwo
  <2> QED  BY <2>1, <2>2
<1>2. row \in Int /\ column \in Int  OBVIOUS
<1>3. Csi(s, final, nums) =
        CASE final = "A" -> [s EXCEPT !.y = Max({0, s.y - n})]
          [] final = "B" -> [s EXCEPT !.y = Min({s.rows - 1, s.y + n})]
          [] final = "C" -> [s EXCEPT !.x = Min({s.cols - 1, s.x + n})]
          [] final = "D" -> [s EXCEPT !.x = Max({0, s.x - n})]
          [] final = "E" -> [s EXCEPT !.x = 0, !.y = Min({s.rows - 1, s.y + n})]
          [] final = "F" -> [s EXCEPT !.x = 0, !.y = Max({0, s.y - n})]
          [] final = "G" -> [s EXCEPT !.x = Bound(0, row, s.cols - 1)]
          [] final = "d" -> [s EXCEPT !.y = Bound(0, row, s.rows - 1)]
          [] final = "H" -> [s EXCEPT !.y = Bound(0, row, s.rows - 1),
                                      !.x = Bound(0, column, s.cols - 1)]
          [] final = "J" -> EraseDisplay(s, mode)
          [] final = "K" -> EraseLine(s, mode)
          [] final = "L" -> InsertLines(s, n)
          [] final = "M" -> DeleteLines(s, n)
          [] final = "P" -> DeleteCharacters(s, n)
          [] final = "@" -> InsertCharacters(s, n)
          [] OTHER -> s
  BY DEF Csi
<1> HIDE DEF n, mode, row, column
<1> DEFINE up == Max({0, s.y - n})
           down == Min({s.rows - 1, s.y + n})
           right == Min({s.cols - 1, s.x + n})
           left == Max({0, s.x - n})
<1>4. up \in 0..s.rows - 1 /\ down \in 0..s.rows - 1 /\ right \in 0..s.cols /\ left \in 0..s.cols
  <2>1. s.y - n \in Int /\ s.rows - 1 \in Int /\ s.y + n \in Int /\ s.cols - 1 \in Int
        /\ s.x + n \in Int /\ s.x - n \in Int
    BY <1>0, <1>1
  <2>2. up = IF 0 >= s.y - n THEN 0 ELSE s.y - n  BY <2>1, MaxOfTwo
  <2>3. down = IF s.rows - 1 <= s.y + n THEN s.rows - 1 ELSE s.y + n  BY <2>1, MinOfTwo
  <2>4. right = IF s.cols - 1 <= s.x + n THEN s.cols - 1 ELSE s.x + n  BY <2>1, MinOfTwo
  <2>5. left = IF 0 >= s.x - n THEN 0 ELSE s.x - n  BY <2>1, MaxOfTwo
  <2> HIDE DEF up, down, right, left
  <2>6. up \in 0..s.rows - 1  BY <1>0, <1>1, <2>2
  <2>7. down \in 0..s.rows - 1  BY <1>0, <1>1, <2>3
  <2>8. right \in 0..s.cols  BY <1>0, <1>1, <2>4
  <2>9. left \in 0..s.cols  BY <1>0, <1>1, <2>5
  <2> QED  BY <2>6, <2>7, <2>8, <2>9
<1> DEFINE atRow == Bound(0, row, s.rows - 1)
           atFirst == Bound(0, row, s.cols - 1)
           atColumn == Bound(0, column, s.cols - 1)
<1>5. atRow \in 0..s.rows - 1 /\ atFirst \in 0..s.cols /\ atColumn \in 0..s.cols /\ 0 \in 0..s.cols
  <2>1. s.rows - 1 \in Int /\ s.cols - 1 \in Int /\ 0 <= s.rows - 1 /\ 0 <= s.cols - 1  BY <1>0
  <2>2. atRow = IF row < 0 THEN 0 ELSE IF row > s.rows - 1 THEN s.rows - 1 ELSE row
    BY <1>2, <2>1, BoundWithin
  <2>3. atFirst = IF row < 0 THEN 0 ELSE IF row > s.cols - 1 THEN s.cols - 1 ELSE row
    BY <1>2, <2>1, BoundWithin
  <2>4. atColumn = IF column < 0 THEN 0 ELSE IF column > s.cols - 1 THEN s.cols - 1 ELSE column
    BY <1>2, <2>1, BoundWithin
  <2> HIDE DEF atRow, atFirst, atColumn
  <2> QED  BY <1>0, <1>2, <2>2, <2>3, <2>4
<1> HIDE DEF up, down, right, left, atRow, atFirst, atColumn
<1>6. CASE final \in {"A", "B", "d"}
  <2>1. PICK y \in 0..s.rows - 1 : Csi(s, final, nums) = [s EXCEPT !.y = y]
    BY <1>3, <1>4, <1>5, <1>6 DEF up, down, atRow
  <2> QED  BY <2>1, YFollows
<1>7. CASE final \in {"C", "D", "G"}
  <2>1. PICK x \in 0..s.cols : Csi(s, final, nums) = [s EXCEPT !.x = x]
    BY <1>3, <1>4, <1>5, <1>7 DEF right, left, atFirst
  <2> QED  BY <2>1, XFollows
<1>8. CASE final \in {"E", "F"}
  <2>1. PICK y \in 0..s.rows - 1 : Csi(s, final, nums) = [s EXCEPT !.x = 0, !.y = y]
    BY <1>3, <1>4, <1>8 DEF up, down
  <2> QED  BY <1>5, <2>1, CursorFollows
<1>9. CASE final = "H"
  <2>1. Csi(s, final, nums) = [s EXCEPT !.y = atRow, !.x = atColumn]
    BY <1>3, <1>9 DEF atRow, atColumn
  <2>2. [s EXCEPT !.y = atRow, !.x = atColumn] = [s EXCEPT !.x = atColumn, !.y = atRow]
    BY DEF Screens
  <2> QED  BY <1>5, <2>1, <2>2, CursorFollows
<1>10. CASE final = "J"  BY <1>3, <1>10, EraseDisplayFollows
<1>11. CASE final = "K"  BY <1>3, <1>11, EraseLineIs
<1>12. CASE final = "L"  BY <1>1, <1>3, <1>12, InsertLinesFollows
<1>13. CASE final = "M"  BY <1>1, <1>3, <1>13, DeleteLinesFollows
<1>14. CASE final = "P"  BY <1>1, <1>3, <1>14, DeleteCharactersIs
<1>15. CASE final = "@"  BY <1>1, <1>3, <1>15, InsertCharactersIs
<1>16. CASE final \notin {"A", "B", "C", "D", "E", "F", "G", "d", "H", "J", "K", "L", "M", "P", "@"}
  <2>1. Csi(s, final, nums) = s  BY <1>3, <1>16
  <2> QED  BY <2>1, FollowsSelf
<1> QED
  BY <1>6, <1>7, <1>8, <1>9, <1>10, <1>11, <1>12, <1>13, <1>14, <1>15, <1>16

(* The numbers of a sequence, gathered one by one.                            *)
Gathers(g, params, n) ==
  g = [i \in 0..n |-> IF i = 0 THEN <<>>
                      ELSE IF params[i] \in DOMAIN Digit THEN Append(g[i - 1], Digit[params[i]])
                           ELSE g[i - 1]]

LEMMA GatherExists ==
  ASSUME NEW params
  PROVE  \A n \in Nat : \E g : Gathers(g, params, n) /\ g[n] \in Seq(Nat)
<1> DEFINE S == {n \in Nat : \E g : Gathers(g, params, n) /\ g[n] \in Seq(Nat)}
           after(acc, i) == IF params[i] \in DOMAIN Digit THEN Append(acc, Digit[params[i]]) ELSE acc
           first == <<>>
<1>0. \A n, g : Gathers(g, params, n) <=>
                  g = [i \in 0..n |-> IF i = 0 THEN first ELSE after(g[i - 1], i)]
  BY DEF Gathers
<1>00. \A acc \in Seq(Nat) : \A i : after(acc, i) \in Seq(Nat)
  <2>1. \A d \in DOMAIN Digit : Digit[d] \in Nat  BY DEF Digit
  <2> QED  BY <2>1
<1>01. first \in Seq(Nat)  OBVIOUS
<1> HIDE DEF first, after
<1>1. 0 \in S
  <2> DEFINE none == [i \in 0..0 |-> first]
  <2>1. none = [i \in 0..0 |-> IF i = 0 THEN first ELSE after(none[i - 1], i)] /\ none[0] = first
    OBVIOUS
  <2> HIDE DEF none
  <2> QED  BY <1>0, <1>01, <2>1
<1>2. ASSUME NEW n \in Nat, n \in S PROVE n + 1 \in S
  <2>1. PICK g : /\ g = [i \in 0..n |-> IF i = 0 THEN first ELSE after(g[i - 1], i)]
                 /\ g[n] \in Seq(Nat)
    BY <1>0, <1>2
  <2> DEFINE next == after(g[n], n + 1)
             more == [i \in 0..(n + 1) |-> IF i = n + 1 THEN next ELSE g[i]]
  <2>2. /\ \A i \in 0..n : more[i] = g[i]
        /\ more[n + 1] = next
        /\ more = [i \in 0..(n + 1) |-> more[i]]
    <3> HIDE DEF next
    <3> QED  OBVIOUS
  <2>3. \A i \in 0..n : g[i] = IF i = 0 THEN first ELSE after(g[i - 1], i)
    BY <2>1
  <2> HIDE DEF more
  <2>4. ASSUME NEW i \in 0..(n + 1)
        PROVE  more[i] = IF i = 0 THEN first ELSE after(more[i - 1], i)
    <3>1. CASE i = n + 1
      <4>1. i # 0 /\ i - 1 = n /\ n \in 0..n  BY <3>1
      <4> QED  BY <2>2, <3>1, <4>1
    <3>2. CASE i = 0  BY <2>2, <2>3, <3>2
    <3>3. CASE i # 0 /\ i # n + 1
      <4>1. i \in 0..n /\ i - 1 \in 0..n  BY <3>3
      <4> QED  BY <2>2, <2>3, <3>3, <4>1
    <3> QED  BY <3>1, <3>2, <3>3
  <2>5. more = [i \in 0..(n + 1) |-> IF i = 0 THEN first ELSE after(more[i - 1], i)]
    BY <2>2, <2>4
  <2>6. Gathers(more, params, n + 1)  BY <1>0, <2>5
  <2>7. more[n + 1] \in Seq(Nat)  BY <1>00, <2>1, <2>2
  <2>8. \E h : Gathers(h, params, n + 1) /\ h[n + 1] \in Seq(Nat)  BY <2>6, <2>7
  <2>9. n + 1 \in Nat  OBVIOUS
  <2> QED  BY <2>8, <2>9, Zenon
<1> HIDE DEF S
<1>3. Nat \subseteq S  BY <1>1, <1>2, Induction
<1> QED  BY <1>3 DEF S

LEMMA GatherOnce ==
  ASSUME NEW params, NEW n \in Nat, NEW g, NEW h, Gathers(g, params, n), Gathers(h, params, n)
  PROVE  g[n] = h[n]
<1> DEFINE S == {k \in Nat : k <= n => g[k] = h[k]}
<1>1. /\ \A i \in 0..n : g[i] = IF i = 0 THEN <<>>
                                ELSE IF params[i] \in DOMAIN Digit
                                     THEN Append(g[i - 1], Digit[params[i]]) ELSE g[i - 1]
      /\ \A i \in 0..n : h[i] = IF i = 0 THEN <<>>
                                ELSE IF params[i] \in DOMAIN Digit
                                     THEN Append(h[i - 1], Digit[params[i]]) ELSE h[i - 1]
  BY DEF Gathers
<1>2. 0 \in S  BY <1>1
<1>3. ASSUME NEW k \in Nat, k \in S PROVE k + 1 \in S
  <2> SUFFICES ASSUME k + 1 <= n PROVE g[k + 1] = h[k + 1]
    OBVIOUS
  <2>1. k + 1 \in 0..n /\ k + 1 # 0 /\ (k + 1) - 1 = k /\ g[k] = h[k]  BY <1>3
  <2> QED  BY <1>1, <2>1
<1> HIDE DEF S
<1>4. Nat \subseteq S  BY <1>2, <1>3, Induction
<1> QED  BY <1>4 DEF S

LEMMA NumbersAre ==
  ASSUME NEW params \in Stream
  PROVE  Numbers(params) \in Seq(Nat)
<1> DEFINE n == Len(params)
           g == CHOOSE h : Gathers(h, params, n)
<1>0. n \in Nat  BY DEF Stream
<1>1. PICK h : Gathers(h, params, n) /\ h[n] \in Seq(Nat)  BY <1>0, GatherExists
<1>2. Gathers(g, params, n)  BY <1>1
<1>3. Numbers(params) = g[n]  BY DEF Numbers, Gathers
<1> HIDE DEF g, n
<1>4. g[n] = h[n]  BY <1>0, <1>1, <1>2, GatherOnce
<1> QED  BY <1>1, <1>3, <1>4

LEMMA ControlFollows ==
  ASSUME NEW s \in Screens, NEW b \in Glyphs
  PROVE  Follows(s, Control(s, b))
<1>0. s.cols \in Nat /\ s.cols > 0 /\ s.x \in Nat /\ s.x <= s.cols  BY ScreenIs
<1>1. CASE b = "CR"
  <2>1. Control(s, b) = [s EXCEPT !.x = 0] /\ 0 \in 0..s.cols  BY <1>0, <1>1 DEF Control
  <2> QED  BY <2>1, XFollows
<1>2. CASE b = "LF"
  <2>1. Control(s, b) = NewLine(s)  BY <1>2 DEF Control
  <2> QED  BY <2>1, NewLineFollows
<1>3. CASE b = "BS"
  <2> DEFINE x == Max({0, s.x - 1})
  <2>1. Control(s, b) = [s EXCEPT !.x = x]  BY <1>3 DEF Control
  <2>2. x \in 0..s.cols
    <3>1. s.x - 1 \in Int  BY <1>0
    <3>2. x = IF 0 >= s.x - 1 THEN 0 ELSE s.x - 1  BY <3>1, MaxOfTwo
    <3> HIDE DEF x
    <3> QED  BY <1>0, <3>2
  <2> HIDE DEF x
  <2> QED  BY <2>1, <2>2, XFollows
<1>4. CASE b = "TAB"
  <2> DEFINE stop == (s.x \div 8 + 1) * 8
             x == Min({s.cols - 1, stop})
  <2>1. Control(s, b) = [s EXCEPT !.x = x]  BY <1>4 DEF Control
  <2>2. stop \in Nat  BY <1>0
  <2> HIDE DEF stop
  <2>3. x \in 0..s.cols
    <3>1. s.cols - 1 \in Int  BY <1>0
    <3>2. x = IF s.cols - 1 <= stop THEN s.cols - 1 ELSE stop  BY <2>2, <3>1, MinOfTwo
    <3> HIDE DEF x
    <3> QED  BY <1>0, <2>2, <3>2
  <2> HIDE DEF x
  <2> QED  BY <2>1, <2>3, XFollows
<1>5. CASE b = "BEL"
  <2>1. Control(s, b) = s  BY <1>5 DEF Control
  <2> QED  BY <2>1, FollowsSelf
<1>6. CASE b \notin {"CR", "LF", "BS", "TAB", "BEL"}
  <2>1. Control(s, b) = Printed(s, b)  BY <1>6 DEF Control
  <2> QED  BY <2>1, PrintedFollows
<1> QED  BY <1>1, <1>2, <1>3, <1>4, <1>5, <1>6

LEMMA ObeyedFollows ==
  ASSUME NEW s \in Screens, NEW item \in Stream, Len(item) > 0
  PROVE  Follows(s, Obeyed(s, item))
<1>0. Len(item) \in Nat /\ item[1] \in STRING  BY DEF Stream
<1>1. CASE item[1] # "ESC"
  <2> DEFINE b == IF item[1] = "L2" THEN "wide" ELSE item[1]
  <2>1. b \in Glyphs  BY <1>0 DEF Glyphs
  <2>2. Obeyed(s, item) = Control(s, b)  BY <1>1 DEF Obeyed
  <2> HIDE DEF b
  <2> QED  BY <2>1, <2>2, ControlFollows
<1>2. CASE item[1] = "ESC" /\ item[2] = "["
  <2> DEFINE params == SubSeq(item, 3, Len(item) - 1)
  <2>1. Obeyed(s, item) = Csi(s, Last(item), Numbers(params))  BY <1>2 DEF Obeyed
  <2>2. params \in Stream  BY <1>0 DEF Stream
  <2> HIDE DEF params
  <2> QED  BY <2>1, <2>2, NumbersAre, CsiFollows
<1>3. CASE item[1] = "ESC" /\ item[2] = "M"
  <2> DEFINE y == Max({0, s.y - 1})
  <2>1. Obeyed(s, item) = [s EXCEPT !.y = y]  BY <1>3 DEF Obeyed
  <2>2. s.y \in Nat /\ s.rows \in Nat /\ s.y < s.rows  BY ScreenIs
  <2>3. y \in 0..s.rows - 1
    <3>1. s.y - 1 \in Int  BY <2>2
    <3>2. y = IF 0 >= s.y - 1 THEN 0 ELSE s.y - 1  BY <3>1, MaxOfTwo
    <3> HIDE DEF y
    <3> QED  BY <2>2, <3>2
  <2> HIDE DEF y
  <2> QED  BY <2>1, <2>3, YFollows
<1>4. CASE item[1] = "ESC" /\ item[2] \notin {"[", "M"}
  <2>1. Obeyed(s, item) = s  BY <1>4 DEF Obeyed
  <2> QED  BY <2>1, FollowsSelf
<1> QED  BY <1>1, <1>2, <1>3, <1>4

(* So does the whole of a chunk.                                              *)
LEMMA ParseFollows ==
  ASSUME NEW s \in Screens, NEW buf \in Stream
  PROVE  /\ Follows(s, ParseBuffer(s, buf)[1])
         /\ ParseBuffer(s, buf)[2] \in Stream
<1> DEFINE T == {p \in Screens \X Stream : Follows(s, p[1])}
<1>1. <<s, buf>> \in T  BY FollowsSelf
<1>2. ASSUME NEW p \in T PROVE ObeyNext(p) \in T
  <2>1. PICK t \in Screens, b \in Stream : p = <<t, b>> /\ Follows(s, t)  OBVIOUS
  <2>2. CASE ItemLength(b) = 0
    <3>1. ObeyNext(p) = p  BY <2>1, <2>2, OneRound
    <3> QED  BY <3>1
  <2>3. CASE ItemLength(b) # 0
    <3> DEFINE item == SubSeq(b, 1, ItemLength(b))
               rest == SubSeq(b, ItemLength(b) + 1, Len(b))
    <3>1. ObeyNext(p) = <<Obeyed(t, item), rest>> /\ rest \in Stream  BY <2>1, <2>3, OneRound
    <3>2. item \in Stream /\ Len(item) > 0
      <4>1. ItemLength(b) \in 0..Len(b)  BY ItemWithin
      <4>2. item \in Stream /\ Len(item) = ItemLength(b)  BY <4>1, CutTail
      <4>3. ItemLength(b) > 0  BY <2>3, <4>1 DEF Stream
      <4> QED  BY <4>2, <4>3
    <3> HIDE DEF item, rest
    <3>3. Follows(t, Obeyed(t, item))  BY <3>2, ObeyedFollows
    <3>4. Follows(s, Obeyed(t, item))  BY <2>1, <3>3, FollowsOn
    <3>5. Obeyed(t, item) \in Screens  BY <3>3 DEF Follows
    <3> QED  BY <3>1, <3>4, <3>5
  <2> QED  BY <2>2, <2>3
<1> HIDE DEF T
<1>3. ParseBuffer(s, buf) \in T  BY <1>1, <1>2, ParseKeeps
<1> QED  BY <1>3 DEF T

-----------------------------------------------------------------------------
(* The state between two steps.                                               *)
Caches == [cols : Nat, rows : Nat, first : Int, dirty : BOOLEAN]
Positions == Int \X Int
ScreenInv ==
  /\ screen \in Screens /\ buffer \in Stream /\ wire \in Stream
  /\ selecting \in BOOLEAN /\ cache \in Caches
  /\ sel \in [from : Positions, to : Positions]

LEMMA FeedFollows ==
  ASSUME ScreenInv, NEW item \in Stream, NEW k \in 1..Len(wire) + Len(item), Feed(item, k)
  PROVE  /\ Follows(screen, screen') /\ buffer' \in Stream /\ wire' \in Stream
         /\ cache' = [cache EXCEPT !.dirty = TRUE] /\ UNCHANGED <<sel, selecting>>
<1> DEFINE stream == wire \o item
           chunk == SubSeq(stream, 1, k)
           rest == SubSeq(stream, k + 1, Len(stream))
           a == buffer \o chunk
<1>1. /\ screen' = ParseBuffer(screen, a)[1] /\ buffer' = ParseBuffer(screen, a)[2]
      /\ wire' = rest /\ cache' = [cache EXCEPT !.dirty = TRUE] /\ UNCHANGED <<sel, selecting>>
  BY DEF Feed
<1>2. stream \in Stream /\ k \in 0..Len(stream)
  <2>1. wire \in Stream /\ Len(wire) \in Nat /\ Len(item) \in Nat  BY DEF ScreenInv, Stream
  <2>2. stream \in Stream /\ Len(stream) = Len(wire) + Len(item)  BY <2>1, Glued
  <2> QED  BY <2>1, <2>2
<1> HIDE DEF stream
<1>3. chunk \in Stream /\ rest \in Stream  BY <1>2, CutTail
<1> HIDE DEF chunk, rest
<1>4. a \in Stream /\ screen \in Screens  BY <1>3, Glued DEF ScreenInv
<1> HIDE DEF a
<1>5. Follows(screen, ParseBuffer(screen, a)[1]) /\ ParseBuffer(screen, a)[2] \in Stream
  BY <1>4, ParseFollows
<1> QED  BY <1>1, <1>3, <1>5

LEMMA OutputFollows ==
  ASSUME ScreenInv, WriteData \/ WriteRest
  PROVE  /\ Follows(screen, screen') /\ buffer' \in Stream /\ wire' \in Stream
         /\ cache' = [cache EXCEPT !.dirty = TRUE] /\ UNCHANGED <<sel, selecting>>
<1>1. CASE WriteData
  <2>1. PICK item \in Items : \E k \in 1..Len(wire) + Len(item) : Feed(item, k)
    BY <1>1 DEF WriteData
  <2>2. item \in Stream  BY InstanceAssumption DEF Stream
  <2>3. PICK k \in 1..Len(wire) + Len(item) : Feed(item, k)  BY <2>1
  <2> QED  BY <2>2, <2>3, FeedFollows
<1>2. CASE WriteRest
  <2>1. Feed(<<>>, Len(wire)) /\ wire # <<>>  BY <1>2 DEF WriteRest
  <2>2. Len(wire) \in 1..Len(wire) + Len(<<>>)
    <3>1. wire \in Stream /\ Len(wire) \in Nat /\ Len(wire) # 0  BY <2>1 DEF ScreenInv, Stream
    <3> QED  BY <3>1, Empty
  <2> QED  BY <2>1, <2>2, Empty, FeedFollows
<1> QED  BY <1>1, <1>2

LEMMA SizesAre ==
  ASSUME NEW size \in Sizes
  PROVE  size[1] \in Natural /\ size[2] \in Natural /\ size = <<size[1], size[2]>>
BY InstanceAssumption DEF Natural

(* A screen of the new size: its cells are the old ones where both have them. *)
LEMMA ResizedIs ==
  ASSUME NEW s \in Screens, NEW size \in Sizes
  PROVE  /\ Resized(s, size) \in Screens /\ Resized(s, size).back = s.back
         /\ Emptied(s, size) \in Screens /\ Emptied(s, size).back = <<>>
<1> DEFINE c == size[1]
           r == size[2]
           CellFor(i) == LET x == (i - 1) % c
                             y == (i - 1) \div c
                         IN IF x < s.cols /\ y < s.rows THEN s.cells[Index(s, x, y)] ELSE Blank
           cells == [i \in 1..c * r |-> CellFor(i)]
           t == Resized(s, size)
           u == Emptied(s, size)
<1>0. /\ c \in Nat /\ c > 0 /\ r \in Nat /\ r > 0 /\ c * r \in Nat
      /\ s.cols \in Nat /\ s.rows \in Nat /\ s.x \in Nat /\ s.y \in Nat
      /\ s.cells \in Text
  BY SizesAre, ScreenIs DEF Natural
<1>1. ASSUME NEW i \in 1..c * r PROVE CellFor(i) \in Glyphs
  <2> DEFINE x == (i - 1) % c
             y == (i - 1) \div c
  <2>1. x \in Nat /\ y \in Nat
    <3>1. i - 1 \in Nat  BY <1>0
    <3> HIDE DEF c
    <3>2. \A p \in Nat, q \in Nat : q > 0 => p % q \in Nat /\ p \div q \in Nat  OBVIOUS
    <3> QED  BY <1>0, <3>1, <3>2
  <2>2. CASE x < s.cols /\ y < s.rows
    <3> HIDE DEF x, y
    <3>1. x \in Int /\ x >= 0  BY <2>1
    <3>2. Index(s, x, y) \in 1..Len(s.cells)  BY <2>1, <2>2, <3>1, IndexIs
    <3>3. s.cells[Index(s, x, y)] \in Glyphs  BY <1>0, <3>2 DEF Text
    <3> QED  BY <2>2, <3>3 DEF x, y
  <2>3. CASE ~ (x < s.cols /\ y < s.rows)  BY <2>3 DEF Glyphs
  <2> QED  BY <2>2, <2>3
<1>2. cells \in Text /\ Len(cells) = c * r
  <2>1. cells \in [1..c * r -> Glyphs]  BY <1>1
  <2> HIDE DEF CellFor
  <2> DEFINE n == c * r
  <2>2. cells \in [1..n -> Glyphs] /\ n \in Nat  BY <1>0, <2>1
  <2> HIDE DEF cells, n
  <2>3. cells \in Text /\ Len(cells) = n  BY <2>2 DEF Text
  <2> QED  BY <2>3 DEF n
<1> DEFINE x == Min({s.x, c - 1})
           y == Min({s.y, r - 1})
<1>3. x \in Nat /\ x <= c /\ y \in Nat /\ y < r
  <2>1. c - 1 \in Int /\ r - 1 \in Int  BY <1>0
  <2>2. x = IF s.x <= c - 1 THEN s.x ELSE c - 1  BY <1>0, <2>1, MinOfTwo
  <2>3. y = IF s.y <= r - 1 THEN s.y ELSE r - 1  BY <1>0, <2>1, MinOfTwo
  <2> HIDE DEF x, y, c, r
  <2> QED  BY <1>0, <2>2, <2>3
<1>4. t = [s EXCEPT !.cols = c, !.rows = r, !.x = x, !.y = y, !.cells = cells]
  BY DEF Resized
<1>5. u = [t EXCEPT !.back = <<>>, !.offset = 0]  BY DEF Emptied
<1> HIDE DEF c, r, x, y, cells, CellFor, t, u
<1>6. t \in Screens /\ t.back = s.back
  <2>1. /\ t.cols = c /\ t.rows = r /\ t.x = x /\ t.y = y /\ t.cells = cells /\ t.back = s.back
    BY <1>4 DEF Screens
  <2>2. t \in [cols : Natural, rows : Natural, x : Nat, y : Nat, cells : Text, back : Seq(Text),
               offset : Nat, gone : Nat, wild : BOOLEAN]
    <3>1. c \in Natural /\ r \in Natural  BY <1>0 DEF Natural
    <3>2. s \in [cols : Natural, rows : Natural, x : Nat, y : Nat, cells : Text, back : Seq(Text),
                 offset : Nat, gone : Nat, wild : BOOLEAN]
      BY DEF Screens
    <3>3. x \in Nat /\ y \in Nat /\ cells \in Text  BY <1>2, <1>3
    <3> QED  BY ONLY <1>4, <3>1, <3>2, <3>3
  <2>3. Len(t.cells) = t.cols * t.rows  BY <1>2, <2>1
  <2>4. Len(t.back) <= ScrollbackMax  BY <2>1, ScreenIs
  <2> QED  BY <1>3, <2>1, <2>2, <2>3, <2>4 DEF Screens
<1>7. u \in Screens /\ u.back = <<>>
  <2>1. <<>> \in Seq(Text) /\ Len(<<>>) <= ScrollbackMax  BY MaxIs
  <2> QED  BY <1>5, <1>6, <2>1 DEF Screens
<1> QED  BY <1>6, <1>7 DEF t, u

(* Another offset, within the scrollback.                                     *)
LEMMA ScrolledIs ==
  ASSUME NEW s \in Screens, NEW o \in Int
  PROVE  LET t == [s EXCEPT !.offset = Bound(0, o, Len(s.back))]
         IN /\ t \in Screens /\ t.cols = s.cols /\ t.rows = s.rows /\ t.back = s.back
            /\ t.cells = s.cells
            /\ t.offset = IF o < 0 THEN 0 ELSE IF o > Len(s.back) THEN Len(s.back) ELSE o
<1> DEFINE b == Bound(0, o, Len(s.back))
<1>1. Len(s.back) \in Nat  BY ScreenIs
<1>2. b = IF o < 0 THEN 0 ELSE IF o > Len(s.back) THEN Len(s.back) ELSE o
  BY <1>1, BoundWithin
<1> HIDE DEF b
<1>3. b \in Nat  BY <1>1, <1>2
<1>4. /\ [s EXCEPT !.offset = b] \in Screens
      /\ [s EXCEPT !.offset = b].offset = b
      /\ [s EXCEPT !.offset = b].back = s.back /\ [s EXCEPT !.offset = b].cells = s.cells
      /\ [s EXCEPT !.offset = b].cols = s.cols /\ [s EXCEPT !.offset = b].rows = s.rows
  BY <1>3 DEF Screens
<1> QED  BY <1>2, <1>4 DEF b

WantedOffset(s, n) ==
  CASE n < FirstVisible(s) -> Len(s.back) - n
    [] n > FirstVisible(s) + s.rows - 1 -> Len(s.back) - (n - s.rows + 1)
    [] OTHER -> s.offset

LEMMA EnsuredIs ==
  ASSUME NEW s \in Screens, NEW n \in Int
  PROVE  LET t == EnsureLineVisible(s, n)
             o == WantedOffset(s, n)
         IN /\ t \in Screens /\ t.cols = s.cols /\ t.rows = s.rows /\ t.back = s.back
            /\ t.cells = s.cells
            /\ t.offset = IF o < 0 THEN 0 ELSE IF o > Len(s.back) THEN Len(s.back) ELSE o
<1>0. Len(s.back) \in Nat /\ s.rows \in Nat /\ s.offset \in Nat  BY ScreenIs
<1>1. WantedOffset(s, n) \in Int
  <2>1. FirstVisible(s) \in Int  BY <1>0 DEF FirstVisible
  <2> QED  BY <1>0, <2>1 DEF WantedOffset
<1>2. EnsureLineVisible(s, n) = [s EXCEPT !.offset = Bound(0, WantedOffset(s, n), Len(s.back))]
  BY DEF EnsureLineVisible, WantedOffset
<1> QED  BY <1>1, <1>2, ScrolledIs

-----------------------------------------------------------------------------
(* Positions in order: of some of them one is the first and one the last.     *)
LEMMA PairIs ==
  ASSUME NEW a \in Int, NEW b \in Int, NEW p \in (0..a) \X (0..b)
  PROVE  p[1] \in Nat /\ p[1] <= a /\ p[2] \in Nat /\ p[2] <= b /\ p = <<p[1], p[2]>>
OBVIOUS

LEMMA FirstIs ==
  ASSUME NEW a \in Int, NEW b \in Int, NEW S, S \subseteq (0..a) \X (0..b), S # {}
  PROVE  FirstOf(S) \in S /\ \A q \in S \ {FirstOf(S)} : Before(FirstOf(S), q)
<1> DEFINE First(p) == \A q \in S \ {p} : Before(p, q)
<1>1. \E p \in S : First(p)
  <2> DEFINE lines == {p[1] : p \in S}
  <2>1. lines \subseteq Nat /\ lines # {}  BY PairIs
  <2>2. PICK l \in lines : \A m \in lines : l <= m  BY <2>1, LeastOf
  <2> DEFINE columns == {p[2] : p \in {q \in S : q[1] = l}}
  <2>3. columns \subseteq Nat /\ columns # {}  BY PairIs
  <2>4. PICK c \in columns : \A m \in columns : c <= m  BY <2>3, LeastOf
  <2>5. PICK p \in S : p[1] = l /\ p[2] = c  OBVIOUS
  <2>6. ASSUME NEW q \in S, q # p PROVE Before(p, q)
    <3>1. /\ p[1] \in Nat /\ p[2] \in Nat /\ p = <<p[1], p[2]>>
          /\ q[1] \in Nat /\ q[2] \in Nat /\ q = <<q[1], q[2]>>
      BY PairIs
    <3>2. p[1] <= q[1]  BY <2>2, <2>5
    <3>3. CASE q[1] = l
      <4>1. p[2] <= q[2]  BY <2>4, <2>5, <3>3
      <4>2. p[2] # q[2]  BY <2>5, <2>6, <3>1, <3>3
      <4> QED  BY <2>5, <3>1, <3>3, <4>1, <4>2 DEF Before
    <3>4. CASE q[1] # l  BY <2>5, <3>1, <3>2, <3>4 DEF Before
    <3> QED  BY <3>3, <3>4
  <2> QED  BY <2>6
<1>2. FirstOf(S) = CHOOSE p \in S : First(p)  BY DEF FirstOf
<1> HIDE DEF First
<1>3. FirstOf(S) \in S /\ First(FirstOf(S))  BY <1>1, <1>2
<1> QED  BY <1>3 DEF First

LEMMA LastIs ==
  ASSUME NEW a \in Int, NEW b \in Int, NEW S, S \subseteq (0..a) \X (0..b), S # {}
  PROVE  LastOf(S) \in S /\ \A q \in S \ {LastOf(S)} : Before(q, LastOf(S))
<1> DEFINE IsLast(p) == \A q \in S \ {p} : Before(q, p)
<1>1. \E p \in S : IsLast(p)
  <2> DEFINE lines == {p[1] : p \in S}
  <2>1. lines \subseteq Int /\ lines # {} /\ \A m \in lines : m <= a  BY PairIs
  <2>2. PICK l \in lines : \A m \in lines : m <= l  BY <2>1, GreatestOf
  <2> DEFINE columns == {p[2] : p \in {q \in S : q[1] = l}}
  <2>3. columns \subseteq Int /\ columns # {} /\ \A m \in columns : m <= b  BY PairIs
  <2>4. PICK c \in columns : \A m \in columns : m <= c  BY <2>3, GreatestOf
  <2>5. PICK p \in S : p[1] = l /\ p[2] = c  OBVIOUS
  <2>6. ASSUME NEW q \in S, q # p PROVE Before(q, p)
    <3>1. /\ p[1] \in Nat /\ p[2] \in Nat /\ p = <<p[1], p[2]>>
          /\ q[1] \in Nat /\ q[2] \in Nat /\ q = <<q[1], q[2]>>
      BY PairIs
    <3>2. q[1] <= p[1]  BY <2>2, <2>5
    <3>3. CASE q[1] = l
      <4>1. q[2] <= p[2]  BY <2>4, <2>5, <3>3
      <4>2. p[2] # q[2]  BY <2>5, <2>6, <3>1, <3>3
      <4> QED  BY <2>5, <3>1, <3>3, <4>1, <4>2 DEF Before
    <3>4. CASE q[1] # l  BY <2>5, <3>1, <3>2, <3>4 DEF Before
    <3> QED  BY <3>3, <3>4
  <2> QED  BY <2>6
<1>2. LastOf(S) = CHOOSE p \in S : IsLast(p)  BY DEF LastOf
<1> HIDE DEF IsLast
<1>3. LastOf(S) \in S /\ IsLast(LastOf(S))  BY <1>1, <1>2
<1> QED  BY <1>3 DEF IsLast

LEMMA MatchesAre ==
  ASSUME ScreenInv
  PROVE  /\ TotalLines(screen) - 1 \in Int /\ screen.cols - Len(Needle) \in Int
         /\ Matches \subseteq (0..TotalLines(screen) - 1) \X (0..screen.cols - Len(Needle))
         /\ \A S \in SUBSET Matches : S # {} => FirstOf(S) \in S /\ LastOf(S) \in S
<1>1. TotalLines(screen) - 1 \in Int /\ screen.cols - Len(Needle) \in Int
  <2>1. screen \in Screens  BY DEF ScreenInv
  <2> QED  BY <2>1, ScreenIs, InstanceAssumption DEF TotalLines
<1>2. Matches \subseteq (0..TotalLines(screen) - 1) \X (0..screen.cols - Len(Needle))
  BY DEF Matches
<1>3. ASSUME NEW S \in SUBSET Matches, S # {} PROVE FirstOf(S) \in S /\ LastOf(S) \in S
  <2> DEFINE a == TotalLines(screen) - 1
             b == screen.cols - Len(Needle)
  <2>1. S \subseteq (0..a) \X (0..b) /\ a \in Int /\ b \in Int  BY <1>1, <1>2
  <2> HIDE DEF a, b
  <2> QED  BY <1>3, <2>1, FirstIs, LastIs
<1> QED  BY <1>1, <1>2, <1>3

LEMMA FoundAreMatches ==
  ASSUME ScreenInv
  PROVE  NextMatch \subseteq Matches /\ PreviousMatch \subseteq Matches
<1>1. ASSUME NEW ahead, NEW wrapped, ahead \subseteq Matches, wrapped \subseteq Matches
      PROVE  /\ (IF ahead # {} THEN {FirstOf(ahead)}
                 ELSE IF wrapped # {} THEN {FirstOf(wrapped)} ELSE {}) \subseteq Matches
             /\ (IF ahead # {} THEN {LastOf(ahead)}
                 ELSE IF wrapped # {} THEN {LastOf(wrapped)} ELSE {}) \subseteq Matches
  <2>1. ahead # {} => FirstOf(ahead) \in Matches /\ LastOf(ahead) \in Matches
    BY <1>1, MatchesAre
  <2>2. wrapped # {} => FirstOf(wrapped) \in Matches /\ LastOf(wrapped) \in Matches
    BY <1>1, MatchesAre
  <2> QED  BY <2>1, <2>2
<1>2. NextMatch \subseteq Matches
  <2> DEFINE from == IF Selected THEN <<SelEnd[1], SelEnd[2] + 1>> ELSE <<FirstVisible(screen), 0>>
             ahead == {p \in Matches : ~Before(p, from)}
             wrapped == {p \in Matches : p[1] <= from[1] /\ Before(p, from)}
  <2>1. ahead \subseteq Matches /\ wrapped \subseteq Matches  OBVIOUS
  <2>2. NextMatch = IF ahead # {} THEN {FirstOf(ahead)}
                    ELSE IF wrapped # {} THEN {FirstOf(wrapped)} ELSE {}
    BY DEF NextMatch
  <2> HIDE DEF from, ahead, wrapped
  <2> QED  BY <1>1, <2>1, <2>2
<1>3. PreviousMatch \subseteq Matches
  <2> DEFINE from == IF Selected THEN <<SelStart[1], SelStart[2] - 1>> ELSE <<FirstVisible(screen), 0>>
             InReach(p) == from[2] = -1 \/ p[2] <= from[2]
             behind == {p \in Matches : p[1] < from[1] \/ (p[1] = from[1] /\ InReach(p))}
             wrapped == {p \in Matches : p[1] > from[1]}
  <2>1. behind \subseteq Matches /\ wrapped \subseteq Matches  OBVIOUS
  <2>2. PreviousMatch = IF behind # {} THEN {LastOf(behind)}
                        ELSE IF wrapped # {} THEN {LastOf(wrapped)} ELSE {}
    BY DEF PreviousMatch
  <2> HIDE DEF from, InReach, behind, wrapped
  <2> QED  BY <1>1, <2>1, <2>2
<1> QED  BY <1>2, <1>3

LEMMA MatchIs ==
  ASSUME ScreenInv, NEW p \in Matches
  PROVE  /\ p[1] \in 0..TotalLines(screen) - 1 /\ p[2] \in 0..screen.cols - Len(Needle)
         /\ p = <<p[1], p[2]>> /\ p[1] \in Nat /\ p[2] \in Nat
         /\ TotalLines(screen) \in Int /\ Len(Needle) \in Nat /\ Len(Needle) > 0
<1>1. p \in (0..TotalLines(screen) - 1) \X (0..screen.cols - Len(Needle))  BY DEF Matches
<1>2. TotalLines(screen) \in Int /\ screen.cols - Len(Needle) \in Int
  <2>1. screen \in Screens  BY DEF ScreenInv
  <2> QED  BY <2>1, ScreenIs, InstanceAssumption DEF TotalLines
<1>3. Len(Needle) \in Nat /\ Len(Needle) > 0  BY InstanceAssumption
<1> QED  BY <1>1, <1>2, <1>3

-----------------------------------------------------------------------------
(* Every step keeps the screen's shape.                                       *)
LEMMA CacheDirty ==
  ASSUME ScreenInv, cache' = [cache EXCEPT !.dirty = TRUE]
  PROVE  cache' \in Caches /\ cache'.dirty = TRUE
BY DEF ScreenInv, Caches

LEMMA PosIs ==
  ASSUME ScreenInv, NEW x \in {0, screen.cols - 1}, NEW row \in {0, screen.rows - 1}
  PROVE  PosToGrid(x, row) \in Positions
<1>1. screen \in Screens  BY DEF ScreenInv
<1>2. x \in Int /\ row \in Int /\ FirstVisible(screen) \in Int
  BY <1>1, ScreenIs DEF FirstVisible
<1> QED  BY <1>2 DEF PosToGrid, Positions

LEMMA FoundKeeps ==
  ASSUME ScreenInv, NEW found \in SUBSET Matches, FindText(found)
  PROVE  /\ \E p \in found : /\ screen' = EnsureLineVisible(screen, p[1])
                             /\ sel' = [from |-> Flip(p), to |-> <<p[2] + Len(Needle) - 1, p[1]>>]
         /\ ScreenInv'
<1>1. PICK p \in found : /\ screen' = EnsureLineVisible(screen, p[1])
                         /\ sel' = [from |-> Flip(p), to |-> <<p[2] + Len(Needle) - 1, p[1]>>]
  BY DEF FindText, Both
<1>2. p[1] \in Int /\ p[2] \in Int /\ p[2] + Len(Needle) - 1 \in Int  BY MatchIs
<1>3. sel' \in [from : Positions, to : Positions]  BY <1>1, <1>2 DEF Flip, Positions
<1>4. screen' \in Screens  BY <1>1, <1>2, EnsuredIs DEF ScreenInv
<1>5. UNCHANGED <<selecting, cache, buffer, wire>>  BY DEF FindText, Still
<1> QED  BY <1>1, <1>3, <1>4, <1>5 DEF ScreenInv

LEMMA ScreenStep ==
  ASSUME ScreenInv, [Next]_vars
  PROVE  ScreenInv'
<1>0. screen \in Screens  BY DEF ScreenInv
<1>1. CASE WriteData \/ WriteRest
  BY <1>1, OutputFollows, CacheDirty DEF Follows, ScreenInv
<1>2. CASE PaintEvent
  <2>1. FirstVisible(screen) \in Int /\ screen.cols \in Nat /\ screen.rows \in Nat
    BY <1>0, ScreenIs DEF FirstVisible
  <2>2. cache' \in Caches  BY <1>2, <2>1 DEF PaintEvent, Caches
  <2> QED  BY <1>2, <2>2 DEF PaintEvent, Still, ScreenInv
<1>3. CASE MouseRelease  BY <1>3 DEF MouseRelease, Still, ScreenInv
<1>4. ASSUME NEW size \in Sizes, ResizeEvent(size) PROVE ScreenInv'
  <2>1. screen' = Emptied(screen, size)  BY <1>4 DEF ResizeEvent, Both
  <2> QED  BY <1>0, <1>4, <2>1, ResizedIs, CacheDirty DEF ResizeEvent, Still, ScreenInv
<1>5. ASSUME NEW size \in Sizes, SetTerminalFont(size) PROVE ScreenInv'
  <2>1. screen' = Resized(screen, size)  BY <1>5 DEF SetTerminalFont, Both
  <2> QED  BY <1>0, <1>5, <2>1, ResizedIs DEF SetTerminalFont, Still, ScreenInv
<1>6. ASSUME NEW lines \in {-1, 1}, WheelEvent(lines) PROVE ScreenInv'
  <2>1. screen' = [screen EXCEPT !.offset = Bound(0, screen.offset + lines, Len(screen.back))]
    BY <1>6 DEF WheelEvent, Both
  <2>2. screen.offset + lines \in Int  BY <1>0, ScreenIs
  <2>3. screen' \in Screens  BY <1>0, <2>1, <2>2, ScrolledIs
  <2> QED  BY <1>6, <2>3, CacheDirty DEF WheelEvent, Still, ScreenInv
<1>7. ASSUME NEW x \in {0, screen.cols - 1}, NEW row \in {0, screen.rows - 1},
             MousePress(x, row) \/ MouseMove(x, row)
      PROVE  ScreenInv'
  <2>1. PosToGrid(x, row) \in Positions  BY PosIs
  <2>2. sel' \in [from : Positions, to : Positions]
    BY <1>7, <2>1 DEF MousePress, MouseMove, ScreenInv
  <2> QED  BY <1>7, <2>2 DEF MousePress, MouseMove, Still, ScreenInv
<1>8. CASE FindNext \/ FindPrevious
  BY <1>8, FoundAreMatches, FoundKeeps DEF FindNext, FindPrevious
<1>9. CASE UNCHANGED vars  BY <1>9 DEF vars, ScreenInv
<1> QED
  BY <1>1, <1>2, <1>3, <1>4, <1>5, <1>6, <1>7, <1>8, <1>9 DEF Next, User, OnEvent

LEMMA ScreenStarts == Init => ScreenInv
<1> SUFFICES ASSUME Init PROVE ScreenInv
  OBVIOUS
<1>1. FirstSize \in Sizes  BY InstanceAssumption
<1>2. FirstSize[1] \in Natural /\ FirstSize[2] \in Natural  BY <1>1, SizesAre
<1> DEFINE c == FirstSize[1]
           r == FirstSize[2]
<1>3. c \in Nat /\ c > 0 /\ r \in Nat /\ r > 0 /\ c * r \in Nat  BY <1>2 DEF Natural
<1>4. Blanks(c * r) \in Text /\ Len(Blanks(c * r)) = c * r  BY <1>3, BlanksAre
<1>5. Fresh(FirstSize) \in Screens
  <2>1. <<>> \in Seq(Text) /\ Len(<<>>) <= ScrollbackMax  BY MaxIs
  <2>2. Fresh(FirstSize) = [cols |-> c, rows |-> r, x |-> 0, y |-> 0, cells |-> Blanks(c * r),
                            back |-> <<>>, offset |-> 0, gone |-> 0, wild |-> FALSE]
    BY DEF Fresh
  <2> DEFINE b == Blanks(c * r)
  <2>3. b \in Text /\ Len(b) = c * r  BY <1>4
  <2>4. c \in Natural /\ r \in Natural  BY <1>2
  <2> HIDE DEF c, r, b
  <2> QED  BY <1>3, <2>1, <2>2, <2>3, <2>4 DEF Screens, b
<1>6. screen \in Screens /\ buffer \in Stream /\ wire \in Stream /\ selecting \in BOOLEAN
  BY <1>5, Empty DEF Init
<1>7. cache \in Caches
  <2>1. cache = [cols |-> 0, rows |-> 0, first |-> -1, dirty |-> TRUE]  BY DEF Init
  <2> QED  BY <2>1 DEF Caches
<1>8. sel \in [from : Positions, to : Positions]
  <2>1. sel = [from |-> <<0, 0>>, to |-> <<0, 0>>]  BY DEF Init
  <2> QED  BY <2>1 DEF Positions
<1> QED  BY <1>6, <1>7, <1>8 DEF ScreenInv

(* An edit of a line stays in the line.                                       *)
LEMMA EditsStay ==
  ASSUME screen \in Screens
  PROVE  LineEditsStay
<1>0. screen.x \in Nat /\ screen.cols \in Nat /\ screen.x <= screen.cols  BY ScreenIs
<1> DEFINE Lo(e) == IF e \in {<<"K", <<1>>>>, <<"K", <<2>>>>} THEN 0 ELSE screen.x
           Spills(e) == PendingWrap \/ (e[1] = "P" /\ e[2][1] > screen.cols - screen.x)
<1> SUFFICES ASSUME NEW e \in Edits, ~Spills(e)
             PROVE  Stays(screen, Csi(screen, e[1], e[2]), Lo(e))
  BY DEF LineEditsStay, Stays, Part
<1>1. screen.x < screen.cols  BY <1>0 DEF PendingWrap
<1>2. CASE e = <<"K", <<>>>>
  <2>1. Csi(screen, e[1], e[2]) = EraseLine(screen, 0)  BY <1>2 DEF Csi
  <2>2. Lo(e) = screen.x  BY <1>2
  <2> QED  BY <1>1, <2>1, <2>2, EraseLineIs
<1>3. CASE e = <<"K", <<1>>>>
  <2>1. Csi(screen, e[1], e[2]) = EraseLine(screen, 1)  BY <1>3 DEF Csi
  <2>2. Lo(e) = 0  BY <1>3
  <2> QED  BY <1>1, <2>1, <2>2, EraseLineIs
<1>4. CASE e = <<"K", <<2>>>>
  <2>1. Csi(screen, e[1], e[2]) = EraseLine(screen, 2)  BY <1>4 DEF Csi
  <2>2. Lo(e) = 0  BY <1>4
  <2> QED  BY <1>1, <2>1, <2>2, EraseLineIs
<1>5. ASSUME NEW n \in 1..3, e = <<"P", <<n>>>> PROVE Stays(screen, Csi(screen, e[1], e[2]), Lo(e))
  <2>0. Max({1, n}) = n  BY MaxOfTwo
  <2>1. Csi(screen, e[1], e[2]) = DeleteCharacters(screen, n)  BY <1>5, <2>0 DEF Csi
  <2>2. Lo(e) = screen.x /\ n <= screen.cols - screen.x  BY <1>0, <1>5
  <2> QED  BY <1>1, <2>1, <2>2, DeleteCharactersIs
<1>6. ASSUME NEW n \in 1..3, e = <<"@", <<n>>>> PROVE Stays(screen, Csi(screen, e[1], e[2]), Lo(e))
  <2>0. Max({1, n}) = n  BY MaxOfTwo
  <2>1. Csi(screen, e[1], e[2]) = InsertCharacters(screen, n)  BY <1>6, <2>0 DEF Csi
  <2>2. Lo(e) = screen.x  BY <1>6
  <2> QED  BY <1>1, <2>1, <2>2, InsertCharactersIs
<1> QED  BY <1>2, <1>3, <1>4, <1>5, <1>6 DEF Edits

(* The screen keeps its shape, and what edits a line stays in it.             *)
THEOREM ScreenAlwaysSound == Spec => []ScreenSound
<1>1. Init => ScreenInv  BY ScreenStarts
<1>2. ScreenInv /\ [Next]_vars => ScreenInv'  BY ScreenStep
<1>3. ScreenInv => ScreenSound
  <2> SUFFICES ASSUME ScreenInv PROVE ScreenSound
    OBVIOUS
  <2>1. LineEditsStay  BY EditsStay DEF ScreenInv
  <2>2. TypeOK  BY ScreenIs DEF ScreenInv, Caches, TypeOK
  <2> QED  BY <2>1, <2>2 DEF ScreenSound
<1> QED  BY <1>1, <1>2, <1>3, PTL DEF Spec

(* Output leaves the lines shown where they are, while there are such lines.  *)
THEOREM ViewAlwaysHolds == Spec => ViewHolds
<1> DEFINE Holds == (WriteData \/ WriteRest) /\ screen.offset \in 1..Len(screen.back)
                    /\ screen'.gone <= FirstShown(screen) => FirstShown(screen') = FirstShown(screen)
<1>1. Init => ScreenInv  BY ScreenStarts
<1>2. ScreenInv /\ [Next]_vars => ScreenInv'  BY ScreenStep
<1>3. ScreenInv /\ [Next]_vars => [Holds]_vars
  <2> SUFFICES ASSUME ScreenInv, WriteData \/ WriteRest, screen.offset \in 1..Len(screen.back),
                      screen'.gone <= FirstShown(screen)
               PROVE  FirstShown(screen') = FirstShown(screen)
    OBVIOUS
  <2>1. Follows(screen, screen')  BY OutputFollows
  <2> QED  BY <2>1 DEF Follows, ScrolledBack
<1> HIDE DEF Holds
<1>4. Spec => [][Holds]_vars  BY <1>1, <1>2, <1>3, PTL DEF Spec
<1> QED  BY <1>4 DEF ViewHolds, Holds

(* Only a new font leaves something to paint that is not there.               *)
THEOREM OnlyFontsEverBreakPainting == Spec => OnlyFontsBreakPainting
<1> DEFINE Font == \E size \in Sizes : SetTerminalFont(size)
           Kept == PaintReadsInside => PaintReadsInside' \/ Font
<1>1. Init => ScreenInv  BY ScreenStarts
<1>2. ScreenInv /\ [Next]_vars => ScreenInv'  BY ScreenStep
<1>3. ScreenInv /\ [Next]_vars => [Kept]_vars
  <2> SUFFICES ASSUME ScreenInv, Next, PaintReadsInside, ~Font PROVE PaintReadsInside'
    OBVIOUS
  <2>0. screen \in Screens /\ Wide(screen)  BY DEF ScreenInv, PaintReadsInside, Wide
  <2>1. CASE WriteData \/ WriteRest
    <3>1. Follows(screen, screen') /\ cache'.dirty = TRUE  BY <2>1, OutputFollows, CacheDirty
    <3>2. Wide(screen')  BY <2>0, <3>1 DEF Follows
    <3> QED  BY <3>1, <3>2 DEF PaintReadsInside, Wide
  <2>2. CASE PaintEvent
    <3>1. screen' = screen /\ cache'.rows = screen.rows /\ cache'.cols = screen.cols
      BY <2>2 DEF PaintEvent
    <3>2. screen.rows \in Nat /\ screen.cols \in Nat  BY <2>0, ScreenIs
    <3>3. cache'.rows >= screen'.rows /\ cache'.cols >= screen'.cols  BY <3>1, <3>2
    <3> QED  BY <2>0, <3>1, <3>3 DEF PaintReadsInside, Wide
  <2>3. CASE MouseRelease  BY <2>3 DEF MouseRelease, PaintReadsInside
  <2>4. ASSUME NEW size \in Sizes, ResizeEvent(size) PROVE PaintReadsInside'
    <3>1. screen' = Emptied(screen, size) /\ cache' = [cache EXCEPT !.dirty = TRUE]
      BY <2>4 DEF ResizeEvent, Both
    <3>2. screen'.back = <<>>  BY <2>0, <3>1, ResizedIs
    <3> QED  BY <3>1, <3>2, CacheDirty DEF PaintReadsInside
  <2>5. ASSUME NEW lines \in {-1, 1}, WheelEvent(lines) PROVE PaintReadsInside'
    <3>1. /\ screen' = [screen EXCEPT !.offset = Bound(0, screen.offset + lines, Len(screen.back))]
          /\ cache' = [cache EXCEPT !.dirty = TRUE]
      BY <2>5 DEF WheelEvent, Both
    <3>2. screen.offset + lines \in Int  BY <2>0, ScreenIs
    <3>3. screen'.back = screen.back /\ screen'.cols = screen.cols
      BY <2>0, <3>1, <3>2, ScrolledIs
    <3> QED  BY <2>0, <3>1, <3>3, CacheDirty DEF PaintReadsInside, Wide
  <2>6. ASSUME NEW x, NEW row, MousePress(x, row) \/ MouseMove(x, row) PROVE PaintReadsInside'
    BY <2>6 DEF MousePress, MouseMove, PaintReadsInside
  <2>7. CASE FindNext \/ FindPrevious
    <3>1. PICK found \in SUBSET Matches : FindText(found)
      BY <2>7, FoundAreMatches DEF FindNext, FindPrevious
    <3>2. PICK p \in found : screen' = EnsureLineVisible(screen, p[1])  BY <3>1, FoundKeeps
    <3>3. p[1] \in Int  BY MatchIs
    <3>4. screen'.back = screen.back /\ screen'.cols = screen.cols /\ screen'.rows = screen.rows
      BY <2>0, <3>2, <3>3, EnsuredIs
    <3>5. cache' = cache  BY <3>1 DEF FindText
    <3> QED  BY <3>4, <3>5 DEF PaintReadsInside
  <2> QED
    BY <2>1, <2>2, <2>3, <2>4, <2>5, <2>6, <2>7 DEF Next, User, OnEvent, Font
<1> HIDE DEF Kept
<1>4. Spec => [][Kept]_vars  BY <1>1, <1>2, <1>3, PTL DEF Spec
<1> QED  BY <1>4 DEF OnlyFontsBreakPainting, Kept, Font

-----------------------------------------------------------------------------
(* Searching: the match found is selected and its line is on the screen.      *)
LEMMA SelectsFound ==
  ASSUME ScreenInv, NEW found \in SUBSET Matches, FindText(found)
  PROVE  \E p \in found : /\ screen' = EnsureLineVisible(screen, p[1])
                          /\ SelStart' = p
<1>1. PICK p \in found : /\ screen' = EnsureLineVisible(screen, p[1])
                         /\ sel' = [from |-> Flip(p), to |-> <<p[2] + Len(Needle) - 1, p[1]>>]
  BY FoundKeeps
<1>2. p[1] \in Nat /\ p[2] \in Nat /\ p = <<p[1], p[2]>> /\ Len(Needle) \in Nat /\ Len(Needle) > 0
  BY MatchIs
<1> DEFINE e == p[2] + Len(Needle) - 1
<1>3. e \in Nat /\ e >= p[2]  BY <1>2
<1>4. Flip(sel'.from) = p /\ Flip(sel'.to) = <<p[1], e>>  BY <1>1, <1>2 DEF Flip
<1> HIDE DEF e
<1>5. ~Before(<<p[1], e>>, p)  BY <1>2, <1>3 DEF Before
<1>6. SelStart' = p  BY <1>4, <1>5 DEF SelStart
<1> QED  BY <1>1, <1>6

LEMMA EnsuredVisible ==
  ASSUME NEW s \in Screens, NEW n \in 0..TotalLines(s) - 1
  PROVE  LET t == EnsureLineVisible(s, n)
         IN n \in FirstVisible(t)..FirstVisible(t) + s.rows - 1
<1> DEFINE t == EnsureLineVisible(s, n)
           b == Len(s.back)
           o == s.offset
           r == s.rows
           w == WantedOffset(s, n)
<1>0. b \in Nat /\ o \in Nat /\ r \in Nat /\ r > 0  BY ScreenIs
<1>1. n \in Nat /\ n <= (b + r) - 1  BY <1>0 DEF TotalLines
<1>2. t.back = s.back /\ t.offset = IF w < 0 THEN 0 ELSE IF w > b THEN b ELSE w
  <2>1. n \in Int  BY <1>1
  <2> QED  BY <2>1, EnsuredIs
<1>3. w = CASE n < b - o -> b - n
            [] n > ((b - o) + r) - 1 -> b - ((n - r) + 1)
            [] OTHER -> o
  BY DEF WantedOffset, FirstVisible
<1>4. FirstVisible(t) = b - t.offset  BY <1>2 DEF FirstVisible
<1> SUFFICES n \in (b - t.offset)..((b - t.offset) + (r - 1))
  BY <1>4
<1> HIDE DEF t, b, o, r, w
<1>5. CASE n < b - o
  <2>1. w = b - n  BY <1>0, <1>1, <1>3, <1>5
  <2>2. t.offset = b - n  BY <1>0, <1>1, <1>2, <1>5, <2>1
  <2> QED  BY <1>0, <1>1, <2>2
<1>6. CASE n > ((b - o) + r) - 1
  <2>1. w = b - ((n - r) + 1)  BY <1>0, <1>1, <1>3, <1>6
  <2>2. w \in Int /\ (w > b => n < r)  BY <1>0, <1>1, <2>1
  <2>3. CASE w > b
    <3>1. t.offset = b
      <4>1. ~ (w < 0)  BY <1>0, <2>2, <2>3
      <4> QED  BY <1>2, <2>3, <4>1
    <3> QED  BY <1>0, <1>1, <2>2, <2>3, <3>1
  <2>4. CASE ~ (w > b)
    <3>1. t.offset = b - ((n - r) + 1)  BY <1>0, <1>1, <1>2, <2>1, <2>2, <2>4
    <3> QED  BY <1>0, <1>1, <3>1
  <2> QED  BY <2>3, <2>4
<1>7. CASE n >= b - o /\ n <= ((b - o) + r) - 1
  <2>1. w = o  BY <1>0, <1>1, <1>3, <1>7
  <2>2. CASE o > b
    <3>1. t.offset = b  BY <1>0, <1>2, <2>1, <2>2
    <3> QED  BY <1>0, <1>1, <1>7, <2>2, <3>1
  <2>3. CASE ~ (o > b)
    <3>1. t.offset = o  BY <1>0, <1>2, <2>1, <2>3
    <3> QED  BY <1>0, <1>1, <1>7, <3>1
  <2> QED  BY <2>2, <2>3
<1> QED  BY <1>0, <1>1, <1>5, <1>6, <1>7

LEMMA ShownStep ==
  ASSUME ScreenInv, FindNext \/ FindPrevious
  PROVE  SelStart'[1] \in FirstVisible(screen')..FirstVisible(screen') + screen.rows - 1
<1>1. PICK found \in SUBSET Matches : FindText(found)
  BY FoundAreMatches DEF FindNext, FindPrevious
<1>2. PICK p \in found : screen' = EnsureLineVisible(screen, p[1]) /\ SelStart' = p
  BY <1>1, SelectsFound
<1>3. screen \in Screens /\ p[1] \in 0..TotalLines(screen) - 1  BY MatchIs DEF ScreenInv
<1> QED  BY <1>2, <1>3, EnsuredVisible

(* A needle that stands alone overlaps no other one on its line.              *)
LEMMA SliceIs ==
  ASSUME NEW S, NEW a \in Seq(S), NEW i \in Nat, NEW n \in Nat, i + n <= Len(a)
  PROVE  /\ SubSeq(a, i + 1, i + n) = [k \in 1..n |-> a[i + k]]
         /\ SubSeq(a, i + 1, i + n) \in Seq(S) /\ Len(SubSeq(a, i + 1, i + n)) = n
<1>1. (i + n) - (i + 1) + 1 = n  OBVIOUS
<1>2. SubSeq(a, i + 1, i + n) = [k \in 1..(i + n) - (i + 1) + 1 |-> a[(i + 1) + k - 1]]
  OBVIOUS
<1>3. \A k \in 1..n : (i + 1) + k - 1 = i + k /\ a[i + k] \in S  OBVIOUS
<1>4. SubSeq(a, i + 1, i + n) = [k \in 1..n |-> a[i + k]]  BY <1>1, <1>2, <1>3
<1>5. [k \in 1..n |-> a[i + k]] \in Seq(S) /\ Len([k \in 1..n |-> a[i + k]]) = n
  <2> DEFINE w == [k \in 1..n |-> a[i + k]]
  <2>1. w \in [1..n -> S]  BY <1>3
  <2> HIDE DEF w
  <2>2. w \in Seq(S) /\ Len(w) = n  BY <2>1
  <2> QED  BY <2>2 DEF w
<1> QED  BY <1>4, <1>5

LEMMA MatchShows ==
  ASSUME ScreenInv, NEW p \in Matches
  PROVE  \A k \in 1..Len(Needle) : Needle[k] = Line(screen, p[1])[p[2] + k]
<1> DEFINE line == Line(screen, p[1])
           S == {CellAt(screen, x - 1, p[1]) : x \in 1..screen.cols}
           n == Len(Needle)
<1>1. p[2] \in Nat /\ p[2] <= screen.cols - n /\ n \in Nat /\ screen.cols \in Nat
  <2>1. screen \in Screens  BY DEF ScreenInv
  <2> QED  BY <2>1, MatchIs, ScreenIs
<1>2. SubSeq(line, p[2] + 1, p[2] + n) = Needle  BY DEF Matches
<1>3. line \in Seq(S) /\ Len(line) = screen.cols
  <2>1. line \in [1..screen.cols -> S]  BY DEF Line
  <2> HIDE DEF line, S
  <2> QED  BY <1>1, <2>1
<1> HIDE DEF line, S, n
<1>4. p[2] + n <= Len(line)  BY <1>1, <1>3
<1>5. SubSeq(line, p[2] + 1, p[2] + n) = [k \in 1..n |-> line[p[2] + k]]
  BY <1>1, <1>3, <1>4, SliceIs
<1>6. \A k \in 1..n : Needle[k] = line[p[2] + k]  BY <1>2, <1>5
<1> QED  BY <1>6 DEF line, n

LEMMA NoOverlap ==
  ASSUME NeedleStandsAlone, ScreenInv, NEW p \in Matches, NEW q \in Matches,
         p[1] = q[1], p[2] < q[2]
  PROVE  p[2] + Len(Needle) <= q[2]
<1> DEFINE n == Len(Needle)
           k == q[2] - p[2]
<1>1. p[2] \in Nat /\ q[2] \in Nat /\ n \in Nat /\ n > 0  BY MatchIs
<1> SUFFICES ASSUME ~ (p[2] + n <= q[2]) PROVE FALSE
  OBVIOUS
<1>2. k \in 1..n - 1  BY <1>1
<1>3. ASSUME NEW i \in 1..n - k PROVE Needle[k + i] = Needle[i]
  <2>1. k + i \in 1..n /\ i \in 1..n /\ p[2] + (k + i) = q[2] + i  BY <1>1, <1>2
  <2>2. Needle[k + i] = Line(screen, p[1])[p[2] + (k + i)]  BY <2>1, MatchShows
  <2>3. Needle[i] = Line(screen, q[1])[q[2] + i]  BY <2>1, MatchShows
  <2> QED  BY <2>1, <2>2, <2>3
<1>4. SubSeq(Needle, k + 1, n) = SubSeq(Needle, 1, n - k)
  <2> HIDE DEF n, k
  <2>0. Needle \in Seq(STRING) /\ n = Len(Needle)  BY InstanceAssumption DEF n
  <2>1. k \in Nat /\ n - k \in Nat /\ k + (n - k) = n /\ 0 \in Nat /\ 0 + (n - k) = n - k /\ 0 + 1 = 1
        /\ k + (n - k) <= Len(Needle) /\ 0 + (n - k) <= Len(Needle)
    BY <1>1, <1>2, <2>0
  <2>2. SubSeq(Needle, k + 1, k + (n - k)) = [i \in 1..n - k |-> Needle[k + i]]
    BY <2>0, <2>1, SliceIs
  <2>3. SubSeq(Needle, 0 + 1, 0 + (n - k)) = [i \in 1..n - k |-> Needle[0 + i]]
    BY <2>0, <2>1, SliceIs
  <2>4. \A i \in 1..n - k : Needle[0 + i] = Needle[i]
    <3>1. \A i \in 1..n - k : 0 + i = i  BY <2>1
    <3> QED  BY <3>1
  <2> QED  BY <1>3, <2>1, <2>2, <2>3, <2>4
<1> QED  BY <1>2, <1>4 DEF NeedleStandsAlone

-----------------------------------------------------------------------------
(* From a match, the first match after it is where searching on goes, and the *)
(* match before it is where searching back goes.                              *)
LEMMA FirstMatch ==
  ASSUME ScreenInv, NEW S \in SUBSET Matches, NEW p \in S, \A q \in S \ {p} : Before(p, q)
  PROVE  FirstOf(S) = p
<1> DEFINE f == FirstOf(S)
<1>1. f \in S /\ \A q \in S \ {f} : Before(f, q)
  <2> DEFINE a == TotalLines(screen) - 1
             b == screen.cols - Len(Needle)
  <2>1. S \subseteq (0..a) \X (0..b) /\ a \in Int /\ b \in Int /\ S # {}  BY MatchesAre
  <2> HIDE DEF a, b
  <2> QED  BY <2>1, FirstIs
<1> HIDE DEF f
<1> SUFFICES ASSUME f # p PROVE FALSE
  BY DEF f
<1>2. Before(f, p) /\ Before(p, f)  BY <1>1
<1>3. f[1] \in Nat /\ f[2] \in Nat /\ p[1] \in Nat /\ p[2] \in Nat  BY <1>1, MatchIs
<1> QED  BY <1>2, <1>3 DEF Before

LEMMA LastMatch ==
  ASSUME ScreenInv, NEW S \in SUBSET Matches, S # {}
  PROVE  LastOf(S) \in S /\ \A q \in S \ {LastOf(S)} : Before(q, LastOf(S))
<1> DEFINE a == TotalLines(screen) - 1
           b == screen.cols - Len(Needle)
<1>1. S \subseteq (0..a) \X (0..b) /\ a \in Int /\ b \in Int  BY MatchesAre
<1> HIDE DEF a, b
<1> QED  BY <1>1, LastIs

LEMMA MatchOrder ==
  ASSUME ScreenInv, NEW p \in Matches, NEW q \in Matches
  PROVE  /\ p = q \/ Before(p, q) \/ Before(q, p)
         /\ ~ (Before(p, q) /\ Before(q, p)) /\ ~Before(p, p)
         /\ \A r \in Matches : Before(p, q) /\ Before(q, r) => Before(p, r)
<1>1. /\ p[1] \in Nat /\ p[2] \in Nat /\ p = <<p[1], p[2]>>
      /\ q[1] \in Nat /\ q[2] \in Nat /\ q = <<q[1], q[2]>>
  BY MatchIs
<1>2. p = q \/ Before(p, q) \/ Before(q, p)
  <2>1. CASE p[1] = q[1] /\ p[2] = q[2]  BY <1>1, <2>1
  <2>2. CASE p[1] # q[1] \/ p[2] # q[2]  BY <1>1, <2>2 DEF Before
  <2> QED  BY <2>1, <2>2
<1>3. ~ (Before(p, q) /\ Before(q, p)) /\ ~Before(p, p)  BY <1>1 DEF Before
<1>4. ASSUME NEW r \in Matches, Before(p, q), Before(q, r) PROVE Before(p, r)
  <2>1. r[1] \in Nat /\ r[2] \in Nat  BY MatchIs
  <2> QED  BY <1>1, <1>4, <2>1 DEF Before
<1> QED  BY <1>2, <1>3, <1>4

(* Searching on starts behind the match: what is not before that place comes  *)
(* after the match.                                                           *)
LEMMA AheadIsAfter ==
  ASSUME NeedleStandsAlone, ScreenInv, AtMatch
  PROVE  \A q \in Matches : ~Before(q, <<SelEnd[1], SelEnd[2] + 1>>) <=> Before(SelStart, q)
<1> DEFINE p == SelStart
           n == Len(Needle)
<1>1. p \in Matches /\ SelEnd = <<p[1], p[2] + n - 1>>  BY DEF AtMatch
<1>2. p[1] \in Nat /\ p[2] \in Nat /\ n \in Nat /\ n > 0  BY <1>1, MatchIs
<1>3. SelEnd[1] = p[1] /\ SelEnd[2] + 1 = p[2] + n
  <2>1. SelEnd[1] = p[1] /\ SelEnd[2] = p[2] + n - 1  BY <1>1
  <2>2. (p[2] + n - 1) + 1 = p[2] + n  BY <1>2
  <2> QED  BY <2>1, <2>2
<1> TAKE q \in Matches
<1>4. q[1] \in Nat /\ q[2] \in Nat  BY MatchIs
<1>5. p[1] = q[1] /\ p[2] < q[2] => p[2] + n <= q[2]  BY <1>1, NoOverlap
<1>6. ~Before(q, <<p[1], p[2] + n>>) <=> Before(p, q)
  <2> HIDE DEF p, n
  <2> QED  BY <1>2, <1>4, <1>5 DEF Before
<1> QED  BY <1>3, <1>6

LEMMA NextIsSuccessor ==
  ASSUME NeedleStandsAlone, ScreenInv, AtMatch
  PROVE  NextMatch = {Successor(SelStart)}
<1> DEFINE p == SelStart
           from == <<SelEnd[1], SelEnd[2] + 1>>
           ahead == {q \in Matches : ~Before(q, from)}
           wrapped == {q \in Matches : q[1] <= from[1] /\ Before(q, from)}
           after == {q \in Matches : Before(p, q)}
<1>1. NextMatch = IF ahead # {} THEN {FirstOf(ahead)} ELSE IF wrapped # {} THEN {FirstOf(wrapped)} ELSE {}
  BY DEF NextMatch, AtMatch
<1>2. p \in Matches /\ SelEnd[1] = p[1]  BY DEF AtMatch
<1>3. ahead = after  BY AheadIsAfter
<1>4. Successor(p) = IF after # {} THEN FirstOf(after) ELSE FirstOf(Matches)  BY DEF Successor
<1>5. ASSUME after = {} PROVE wrapped = Matches /\ wrapped # {}
  <2>1. \A q \in Matches : Before(q, from)  BY <1>3, <1>5
  <2>2. \A q \in Matches : ~Before(p, q)  BY <1>5
  <2>3. ASSUME NEW q \in Matches PROVE q[1] <= p[1]
    <3>1. p[1] \in Nat /\ q[1] \in Nat  BY <1>2, MatchIs
    <3> QED  BY <2>2, <3>1 DEF Before
  <2>4. from[1] = p[1]  BY <1>2
  <2> QED  BY <1>2, <2>1, <2>3, <2>4
<1> HIDE DEF p, from, ahead, wrapped, after
<1>6. NextMatch = {Successor(p)}  BY <1>1, <1>3, <1>4, <1>5
<1> QED  BY <1>6 DEF p

(* The last match before a match has it for its successor; so has the last of *)
(* all, for the first of all.                                                 *)
LEMMA LastBefore ==
  ASSUME ScreenInv, NEW p \in Matches, NEW S \in SUBSET Matches, S # {},
         \A q \in Matches : q \in S <=> Before(q, p)
  PROVE  Successor(LastOf(S)) = p
<1> DEFINE r == LastOf(S)
           after == {q \in Matches : Before(r, q)}
<1>1. r \in S /\ \A q \in S \ {r} : Before(q, r)  BY LastMatch
<1> HIDE DEF r
<1>2. r \in Matches /\ Before(r, p)  BY <1>1
<1>3. ASSUME NEW q \in after, q # p PROVE Before(p, q)
  <2>1. q \in Matches /\ Before(r, q)  OBVIOUS
  <2>2. q \notin S
    <3> SUFFICES ASSUME q \in S PROVE FALSE
      OBVIOUS
    <3>1. CASE q = r  BY <1>2, <2>1, <3>1, MatchOrder
    <3>2. CASE q # r  BY <1>1, <1>2, <2>1, <3>2, MatchOrder
    <3> QED  BY <3>1, <3>2
  <2>3. ~Before(q, p)  BY <2>1, <2>2
  <2> QED  BY <1>3, <2>1, <2>3, MatchOrder
<1>4. p \in after /\ after \in SUBSET Matches  BY <1>2
<1> HIDE DEF after
<1>5. FirstOf(after) = p /\ after # {}  BY <1>3, <1>4, FirstMatch
<1>6. Successor(r) = p  BY <1>5 DEF Successor, after
<1> QED  BY <1>6 DEF r

LEMMA LastOfAll ==
  ASSUME ScreenInv, NEW p \in Matches, NEW S \in SUBSET Matches, S # {},
         \A q \in Matches : ~Before(q, p),
         \A q \in Matches, t \in S : q \notin S => Before(q, t)
  PROVE  Successor(LastOf(S)) = p
<1> DEFINE r == LastOf(S)
           after == {q \in Matches : Before(r, q)}
<1>1. r \in S /\ \A q \in S \ {r} : Before(q, r)  BY LastMatch
<1> HIDE DEF r
<1>2. r \in Matches  BY <1>1
<1>3. ASSUME NEW q \in Matches PROVE ~Before(r, q)
  <2>1. CASE q = r  BY <1>2, <2>1, MatchOrder
  <2>2. CASE q # r
    <3>1. Before(q, r)  BY <1>1, <2>2
    <3> QED  BY <1>2, <3>1, MatchOrder
  <2> QED  BY <2>1, <2>2
<1>4. after = {}  BY <1>3
<1>5. \A q \in Matches \ {p} : Before(p, q)  BY MatchOrder
<1>6. FirstOf(Matches) = p  BY <1>5, FirstMatch
<1>7. Successor(r) = p  BY <1>4, <1>6 DEF Successor
<1> QED  BY <1>7 DEF r

(* Searching back, unless the match starts its line, finds a match before it. *)
LEMMA PreviousIsBefore ==
  ASSUME ScreenInv, AtMatch, SelStart[2] # 0
  PROVE  \A r \in PreviousMatch : r \in Matches /\ Successor(r) = SelStart
<1> DEFINE p == SelStart
           from == <<p[1], p[2] - 1>>
           InReach(q) == from[2] = -1 \/ q[2] <= from[2]
           behind == {q \in Matches : q[1] < from[1] \/ (q[1] = from[1] /\ InReach(q))}
           wrapped == {q \in Matches : q[1] > from[1]}
<1>1. PreviousMatch = IF behind # {} THEN {LastOf(behind)} ELSE IF wrapped # {} THEN {LastOf(wrapped)} ELSE {}
  BY DEF PreviousMatch, AtMatch
<1>2. p \in Matches  BY DEF AtMatch
<1>3. p[1] \in Nat /\ p[2] \in Nat /\ p[2] # 0  BY <1>2, MatchIs
<1>4. from[1] = p[1] /\ from[2] = p[2] - 1  OBVIOUS
<1>5. ASSUME NEW q \in Matches PROVE /\ q \in behind <=> Before(q, p)
                                     /\ q \in wrapped <=> q[1] > p[1]
  <2>1. q[1] \in Nat /\ q[2] \in Nat  BY MatchIs
  <2> HIDE DEF p
  <2>2. p[2] - 1 # -1 /\ (q[2] <= p[2] - 1 <=> q[2] < p[2])  BY <1>3, <2>1
  <2> QED  BY <1>3, <1>4, <2>1, <2>2 DEF Before
<1>6. behind \in SUBSET Matches /\ wrapped \in SUBSET Matches  OBVIOUS
<1> HIDE DEF p, from, InReach, behind, wrapped
<1>7. CASE behind # {}
  <2>1. Successor(LastOf(behind)) = p  BY <1>2, <1>5, <1>6, <1>7, LastBefore
  <2>2. LastOf(behind) \in Matches  BY <1>6, <1>7, LastMatch
  <2> QED  BY <1>1, <1>7, <2>1, <2>2 DEF p
<1>8. CASE behind = {} /\ wrapped # {}
  <2>1. \A q \in Matches : ~Before(q, p)  BY <1>5, <1>8
  <2>2. ASSUME NEW q \in Matches, NEW t \in wrapped, q \notin wrapped PROVE Before(q, t)
    <3>1. t \in Matches /\ t[1] > p[1] /\ ~ (q[1] > p[1])  BY <1>5, <1>6, <2>2
    <3>2. t[1] \in Nat /\ q[1] \in Nat  BY <3>1, MatchIs
    <3> QED  BY <1>3, <3>1, <3>2 DEF Before
  <2>3. Successor(LastOf(wrapped)) = p  BY <1>2, <1>6, <1>8, <2>1, <2>2, LastOfAll
  <2>4. LastOf(wrapped) \in Matches  BY <1>6, <1>8, LastMatch
  <2> QED  BY <1>1, <1>8, <2>3, <2>4 DEF p
<1>9. CASE behind = {} /\ wrapped = {}  BY <1>1, <1>9
<1> QED  BY <1>7, <1>8, <1>9

LEMMA VisitStep ==
  ASSUME NeedleStandsAlone, ScreenInv, AtMatch
  PROVE  /\ FindNext => SelStart' = Successor(SelStart)
         /\ FindPrevious => SelStart[2] = 0 \/ SelStart' \in {q \in Matches : Successor(q) = SelStart}
<1>1. NextMatch \in SUBSET Matches /\ PreviousMatch \in SUBSET Matches  BY FoundAreMatches
<1>2. ASSUME FindNext PROVE SelStart' = Successor(SelStart)
  <2>1. FindText(NextMatch)  BY <1>2 DEF FindNext
  <2>2. PICK p \in NextMatch : SelStart' = p  BY <1>1, <2>1, SelectsFound
  <2> QED  BY <2>2, NextIsSuccessor
<1>3. ASSUME FindPrevious, SelStart[2] # 0
      PROVE  SelStart' \in {q \in Matches : Successor(q) = SelStart}
  <2>1. FindText(PreviousMatch)  BY <1>3 DEF FindPrevious
  <2>2. PICK p \in PreviousMatch : SelStart' = p  BY <1>1, <2>1, SelectsFound
  <2> QED  BY <1>3, <2>2, PreviousIsBefore
<1> QED  BY <1>2, <1>3

(* findText: searching visits every match and shows the one it is at, when no *)
(* two occurrences of the needle can overlap.                                 *)
THEOREM SearchAlwaysWorks ==
  ASSUME NeedleStandsAlone
  PROVE  Spec => SearchWorks
<1> DEFINE Visits == AtMatch /\ Matches' = Matches =>
                       LET p == SelStart
                           before == {q \in Matches : Successor(q) = p}
                       IN /\ FindNext => SelStart' = Successor(p)
                          /\ FindPrevious => p[2] = 0 \/ SelStart' \in before
           Shows == FindNext \/ FindPrevious =>
                      SelStart'[1] \in FirstVisible(screen')..FirstVisible(screen') + screen.rows - 1
<1>1. Init => ScreenInv  BY ScreenStarts
<1>2. ScreenInv /\ [Next]_vars => ScreenInv'  BY ScreenStep
<1>3. ScreenInv => Visits  BY VisitStep
<1>4. ScreenInv => Shows  BY ShownStep
<1> HIDE DEF Visits, Shows
<1>5. Spec => [][Visits]_vars  BY <1>1, <1>2, <1>3, PTL DEF Spec
<1>6. Spec => [][Shows]_vars  BY <1>1, <1>2, <1>4, PTL DEF Spec
<1>7. Spec => SearchVisitsAll  BY <1>5, PTL DEF SearchVisitsAll, Visits
<1>8. Spec => FoundIsShown  BY <1>6 DEF FoundIsShown, Shows
<1> QED  BY <1>7, <1>8 DEF SearchWorks
=============================================================================
