---------------------------- MODULE SshTabsProofs ----------------------------
(* The browser has the connection of the tab shown, or none, and the news     *)
(* that a session stopped reaches its tab, for any number of tabs, of events, *)
(* of dialogs and of threads.                                                 *)
EXTENDS SshTabs, FiniteSetTheorems, SequenceTheorems, TLAPS

(* A desk is a record with exactly these fields; what they hold is of no      *)
(* importance here.                                                           *)
IsDesk(d) ==
  d = [order |-> d.order, current |-> d.current, sidebar |-> d.sidebar, inbox |-> d.inbox]
Follows(d) == IsDesk(d) /\ d.sidebar \in {0, d.current}

LEMMA DeskIsDesk == IsDesk(Desk)
BY DEF IsDesk, Desk

LEMMA DeskFollows == SidebarFollows => Follows(Desk)
BY DEF SidebarFollows, Follows, IsDesk, Desk

(* A connection request changes nothing but an inbox.                         *)
LEMMA StartSessionKeeps ==
  ASSUME NEW d, IsDesk(d), NEW t
  PROVE  /\ IsDesk(StartSession(d, t))
         /\ StartSession(d, t).current = d.current
         /\ StartSession(d, t).sidebar = d.sidebar
BY DEF IsDesk, StartSession

(* Showing a tab attaches the browser to it, wherever it was before.          *)
LEMMA ShownFollows ==
  ASSUME NEW d, IsDesk(d)
  PROVE  Follows(Shown(d))
<1> DEFINE e == [d EXCEPT !.sidebar = d.current]
           f == [d EXCEPT !.sidebar = 0]
<1>1. IsDesk(e) /\ e.sidebar = d.current /\ e.current = d.current
  BY DEF IsDesk
<1>2. IsDesk(f) /\ f.sidebar = 0
  BY DEF IsDesk
<1>3. CASE d.current = 0
  BY <1>2, <1>3 DEF Shown, Follows
<1>4. CASE d.current # 0
  <2>1. Shown(d) = StartSession(e, d.current)
    BY <1>4 DEF Shown
  <2> QED BY <1>1, <2>1, StartSessionKeeps DEF Follows
<1> QED BY <1>3, <1>4

LEMMA DetachedFollows ==
  ASSUME NEW d, Follows(d), NEW t
  PROVE  Follows(Detached(d, t))
BY DEF Follows, IsDesk, Detached

LEMMA OpenedFollows ==
  ASSUME NEW d, IsDesk(d), NEW t
  PROVE  Follows(Opened(d, t))
<1> DEFINE e == [d EXCEPT !.order = Append(@, t), !.current = t]
<1>1. IsDesk(e)
  <2> DEFINE longer == Append(d.order, t)
  <2>1. e = [d EXCEPT !.order = longer, !.current = t]
    OBVIOUS
  <2> HIDE DEF longer, e
  <2>2. e = [order |-> longer, current |-> t, sidebar |-> d.sidebar, inbox |-> d.inbox]
    BY <2>1 DEF IsDesk
  <2> QED BY <2>2 DEF IsDesk
<1>2. IsDesk(Shown(e))
  BY <1>1, ShownFollows DEF Follows
<1> QED BY <1>2, ShownFollows DEF Opened

(* A tab to the right of the one shown goes without a word; in the other      *)
(* cases the bar announces what it shows.                                     *)
LEMMA RemovedFollows ==
  ASSUME NEW d, Follows(d), NEW i
  PROVE  Follows(Removed(d, i))
<1> DEFINE rest == RemoveAt(d.order, i)
           shown == Position(d, d.current)
           left == [d EXCEPT !.order = rest]
           next == IF rest = <<>> THEN 0 ELSE rest[IF i > Len(rest) THEN Len(rest) ELSE i]
           moved == [left EXCEPT !.current = next]
<1>1. IsDesk(left) /\ left.sidebar \in {0, left.current}
  <2> HIDE DEF rest
  <2> QED BY DEF Follows, IsDesk
<1>2. IsDesk(moved)
  <2> HIDE DEF next, left
  <2> QED BY <1>1 DEF IsDesk
<1>3. Removed(d, i) \in {left, Shown(left), Shown(moved)}
  BY DEF Removed
<1> HIDE DEF left, moved
<1> QED BY <1>1, <1>2, <1>3, ShownFollows DEF Follows

LEMMA DeskBecomesFollows ==
  ASSUME NEW d, Follows(d), DeskBecomes(d)
  PROVE  SidebarFollows'
BY DEF Follows, DeskBecomes, SidebarFollows

(* Closing a tab and swapping it detach the browser first.                    *)
LEMMA CloseTabFollows ==
  ASSUME SidebarFollows, NEW t, NEW i, CloseTab(t, i)
  PROVE  SidebarFollows'
<1>1. Follows(Removed(Detached(Desk, t), i))
  BY DeskFollows, DetachedFollows, RemovedFollows
<1> QED BY <1>1, DeskBecomesFollows DEF CloseTab

LEMMA ReplaceFollows ==
  ASSUME SidebarFollows, NEW t, Replace(t)
  PROVE  SidebarFollows'
<1> DEFINE d == Detached(Desk, t)
           here == \E i \in 1..Len(order) : order[i] = t
           e == IF here THEN Removed(d, Position(d, t)) ELSE Desk
<1>1. IsDesk(e)
  <2>1. Follows(d)
    BY DeskFollows, DetachedFollows
  <2>2. Follows(Removed(d, Position(d, t)))
    <3> HIDE DEF d
    <3> QED BY <2>1, RemovedFollows
  <2> QED BY <2>2, DeskIsDesk DEF Follows
<1>2. DeskBecomes(Opened(e, NextTab))
  BY DEF Replace
<1>3. Follows(Opened(e, NextTab))
  <2> HIDE DEF e
  <2> QED BY <1>1, OpenedFollows
<1> HIDE DEF e
<1> QED BY <1>2, <1>3, DeskBecomesFollows

-----------------------------------------------------------------------------
(* Every step keeps the browser with the tab shown.                           *)
LEMMA FollowsInductive == SidebarFollows /\ [Next]_vars => SidebarFollows'
<1> SUFFICES ASSUME SidebarFollows, [Next]_vars PROVE SidebarFollows'
  OBVIOUS
<1> USE DEF SidebarFollows
<1>1. CASE OpenSession
  BY <1>1, DeskIsDesk, OpenedFollows, DeskBecomesFollows DEF OpenSession
<1>2. ASSUME NEW t \in 0..MaxTabs, SwitchTab(t) PROVE SidebarFollows'
  <2> DEFINE e == [Desk EXCEPT !.current = t]
  <2>1. IsDesk(e)
    BY DEF IsDesk, Desk
  <2>2. DeskBecomes(Shown(e))
    BY <1>2 DEF SwitchTab
  <2> HIDE DEF e
  <2> QED BY <2>1, <2>2, ShownFollows, DeskBecomesFollows
<1>3. ASSUME NEW i \in 1..Len(order), RequestClose(i) PROVE SidebarFollows'
  <2>1. CASE UNCHANGED <<desk, life, posted>>
    BY <2>1 DEF desk
  <2>2. CASE CloseTab(order[i], i)
    BY <2>2, CloseTabFollows
  <2> QED BY <1>3, <2>1, <2>2 DEF RequestClose
<1>4. ASSUME NEW t \in Tabs, RequestReconnect(t) \/ TimerFires(t) PROVE SidebarFollows'
  BY <1>4, ReplaceFollows DEF RequestReconnect, TimerFires
<1>5. CASE AnswerClose
  <2>1. CASE UNCHANGED desk
    BY <2>1 DEF desk
  <2>2. CASE CloseTab(Top.tab, Top.index)
    BY <2>2, CloseTabFollows
  <2> QED BY <1>5, <2>1, <2>2 DEF AnswerClose, desk
<1>6. CASE GivePassword \/ CancelPassword
  BY <1>6 DEF GivePassword, CancelPassword
<1>7. CASE AnswerPrompt
  BY <1>7 DEF AnswerPrompt, desk
<1>8. CASE HandleEvent
  <2>1. PICK i \in 1..Len(posted) : HearStopped(i) \/ HearQuestion(i) \/ Destroy(i)
    BY <1>8 DEF HandleEvent
  <2>2. CASE HearStopped(i)
    BY <2>2 DEF HearStopped
  <2>3. CASE HearQuestion(i) \/ Destroy(i)
    BY <2>3 DEF HearQuestion, Destroy, desk
  <2> QED BY <2>1, <2>2, <2>3
<1>9. ASSUME NEW t \in Tabs, Thread(t) \/ ShellEnds(t) PROVE SidebarFollows'
  <2>1. ThreadLeaves
    BY <1>9 DEF Thread, TakeCall, Reach, Login, Refused, ShellEnds, ThreadSteps
  <2> QED BY <2>1 DEF ThreadLeaves
<1>10. CASE UNCHANGED vars
  BY <1>10 DEF vars, desk
<1> QED
  BY <1>1, <1>2, <1>3, <1>4, <1>5, <1>6, <1>7, <1>8, <1>9, <1>10
  DEF Next, User, System, Answer

(* "Share the terminal's SSH connection with the SFTP browser"                *)
(* (mainwindow.cpp): in every reachable state the browser has the connection  *)
(* of the tab shown or none.                                                  *)
THEOREM BrowserFollows == Spec => []SidebarFollows
<1>1. Init => SidebarFollows
  BY DEF Init, SidebarFollows
<1> QED BY <1>1, FollowsInductive, PTL DEF Spec

-----------------------------------------------------------------------------
(* Induction over the numbers, for a set instead of a predicate: of the       *)
(* intervals that end at a number missed, one is the smallest.                *)
LEMMA Induction ==
  ASSUME NEW S, 0 \in S, \A n \in Nat : n \in S => n + 1 \in S
  PROVE  Nat \subseteq S
<1> DEFINE missed == {n \in Nat : n \notin S}
           tails == {1..n : n \in missed}
<1> SUFFICES ASSUME NEW k \in Nat, k \notin S PROVE FALSE
  OBVIOUS
<1>1. tails \subseteq FiniteSubsetsOf(Nat)
  <2> SUFFICES ASSUME NEW n \in missed PROVE 1..n \in FiniteSubsetsOf(Nat)
    OBVIOUS
  <2> QED BY FS_Interval DEF FiniteSubsetsOf
<1>2. tails # {}
  OBVIOUS
<1>3. PICK x \in tails : \A y \in tails : ~ (<<y, x>> \in StrictSubsetOrdering(Nat))
  <2>1. IsWellFoundedOn(StrictSubsetOrdering(Nat), FiniteSubsetsOf(Nat))
    BY FS_StrictSubsetOrderingWellFounded
  <2> HIDE DEF tails
  <2> QED BY <1>1, <1>2, <2>1, WFMin
<1>4. PICK n \in missed : x = 1..n
  OBVIOUS
<1>5. n # 0 /\ n - 1 \in Nat
  BY <1>4
<1>6. 1..(n - 1) \in tails
  BY <1>5
<1>7. <<1..(n - 1), 1..n>> \in StrictSubsetOrdering(Nat)
  <2> DEFINE a == 1..(n - 1)
             b == 1..n
  <2>1. a \in SUBSET Nat /\ b \in SUBSET Nat /\ a \subseteq b /\ n \in b /\ n \notin a
    BY <1>5
  <2> HIDE DEF a, b
  <2>2. <<a, b>> \in StrictSubsetOrdering(Nat)
    BY <2>1 DEF StrictSubsetOrdering
  <2> QED BY <2>2 DEF a, b
<1> QED BY <1>3, <1>4, <1>6, <1>7

(* The events a tab leaves behind, up to each position of the queue.          *)
LeftBy(t, n, left) ==
  left = [i \in 0..n |->
            IF i = 0 THEN <<>>
            ELSE IF Outlives(posted[i], t) THEN Append(left[i - 1], posted[i]) ELSE left[i - 1]]

LEMMA LeftExists ==
  ASSUME NEW t
  PROVE  \A n \in Nat : \E left : LeftBy(t, n, left)
<1> DEFINE S == {n \in Nat : \E left : LeftBy(t, n, left)}
<1>1. 0 \in S
  <2> DEFINE none == [i \in 0..0 |-> <<>>]
  <2>1. none = [i \in 0..0 |->
            IF i = 0 THEN <<>>
            ELSE IF Outlives(posted[i], t) THEN Append(none[i - 1], posted[i]) ELSE none[i - 1]]
    OBVIOUS
  <2> HIDE DEF none
  <2>2. LeftBy(t, 0, none)
    BY <2>1 DEF LeftBy
  <2> QED BY <2>2
<1>2. ASSUME NEW n \in Nat, n \in S PROVE n + 1 \in S
  <2>1. PICK left : LeftBy(t, n, left)
    BY <1>2
  <2> DEFINE next == IF Outlives(posted[n + 1], t) THEN Append(left[n], posted[n + 1]) ELSE left[n]
             more == [i \in 0..(n + 1) |-> IF i = n + 1 THEN next ELSE left[i]]
  <2>2. \A i \in 0..n : more[i] = left[i] /\ left[i] =
            IF i = 0 THEN <<>>
            ELSE IF Outlives(posted[i], t) THEN Append(left[i - 1], posted[i]) ELSE left[i - 1]
    <3> HIDE DEF next
    <3>1. \A i \in 0..n : more[i] = left[i]
      OBVIOUS
    <3> HIDE DEF more
    <3> QED BY <3>1, <2>1 DEF LeftBy
  <2>3. more[n + 1] = next
    OBVIOUS
  <2>4. DOMAIN more = 0..(n + 1) /\ more = [i \in 0..(n + 1) |-> more[i]]
    OBVIOUS
  <2> HIDE DEF more
  <2>5. \A i \in 0..(n + 1) : more[i] =
            IF i = 0 THEN <<>>
            ELSE IF Outlives(posted[i], t) THEN Append(more[i - 1], posted[i]) ELSE more[i - 1]
    <3> SUFFICES ASSUME NEW i \in 0..(n + 1)
                 PROVE  more[i] = IF i = 0 THEN <<>>
                          ELSE IF Outlives(posted[i], t) THEN Append(more[i - 1], posted[i]) ELSE more[i - 1]
      OBVIOUS
    <3>1. CASE i = n + 1
      <4>1. i # 0 /\ i - 1 = n /\ n \in 0..n
        BY <3>1
      <4>2. more[n] = left[n]
        BY <2>2, <4>1
      <4> QED BY <3>1, <4>1, <4>2, <2>3 DEF next
    <3>2. CASE i = 0
      BY <3>2, <2>2
    <3>3. CASE i # 0 /\ i # n + 1
      <4>1. i \in 0..n /\ i - 1 \in 0..n
        BY <3>3
      <4> QED BY <4>1, <2>2, <3>3
    <3> QED BY <3>1, <3>2, <3>3
  <2>6. LeftBy(t, n + 1, more)
    BY <2>4, <2>5 DEF LeftBy
  <2> QED BY <2>6
<1> HIDE DEF S
<1>3. Nat \subseteq S
  BY <1>1, <1>2, Induction
<1> QED BY <1>3 DEF S

LEMMA WithoutTabLeft ==
  ASSUME NEW t, Len(posted) \in Nat
  PROVE  \E left : LeftBy(t, Len(posted), left) /\ WithoutTab(t) = left[Len(posted)]
<1> DEFINE left == CHOOSE g : LeftBy(t, Len(posted), g)
<1>1. LeftBy(t, Len(posted), left)
  BY LeftExists
<1>2. WithoutTab(t) = left[Len(posted)]
  BY DEF WithoutTab, LeftBy
<1> HIDE DEF left
<1> QED BY <1>1, <1>2

(* Of the events, those that outlive the tab are left, and no others.         *)
LEMMA WithoutTabFacts ==
  ASSUME posted \in Seq(Events), NEW t
  PROVE  /\ WithoutTab(t) \in Seq(Events)
         /\ \A j \in 1..Len(WithoutTab(t)) : \E i \in 1..Len(posted) :
              WithoutTab(t)[j] = posted[i] /\ Outlives(posted[i], t)
         /\ \A i \in 1..Len(posted) : Outlives(posted[i], t) =>
              \E j \in 1..Len(WithoutTab(t)) : WithoutTab(t)[j] = posted[i]
<1> DEFINE N == Len(posted)
<1>1. PICK left : LeftBy(t, N, left) /\ WithoutTab(t) = left[N]
  BY WithoutTabLeft
<1> DEFINE Good(n) ==
             /\ left[n] \in Seq(Events)
             /\ \A j \in 1..Len(left[n]) : \E i \in 1..n : left[n][j] = posted[i] /\ Outlives(posted[i], t)
             /\ \A i \in 1..n : Outlives(posted[i], t) => \E j \in 1..Len(left[n]) : left[n][j] = posted[i]
           S == {n \in Nat : n <= N => Good(n)}
<1>2. left[0] = <<>> /\ \A n \in 0..N : n + 1 <= N =>
        left[n + 1] = IF Outlives(posted[n + 1], t) THEN Append(left[n], posted[n + 1]) ELSE left[n]
  <2>1. \A i \in 0..N : left[i] =
            IF i = 0 THEN <<>>
            ELSE IF Outlives(posted[i], t) THEN Append(left[i - 1], posted[i]) ELSE left[i - 1]
    BY <1>1 DEF LeftBy
  <2>2. left[0] = <<>>
    BY <2>1
  <2>3. ASSUME NEW n \in 0..N, n + 1 <= N
        PROVE  left[n + 1] = IF Outlives(posted[n + 1], t) THEN Append(left[n], posted[n + 1]) ELSE left[n]
    <3>1. n + 1 \in 0..N /\ n + 1 # 0 /\ (n + 1) - 1 = n
      BY <2>3
    <3> QED BY <2>1, <3>1
  <2> QED BY <2>2, <2>3
<1>3. 0 \in S
  <2>1. Good(0)
    BY <1>2
  <2> HIDE DEF Good
  <2> QED BY <2>1
<1>4. ASSUME NEW n \in Nat, n \in S PROVE n + 1 \in S
  <2> HIDE DEF Good
  <2> SUFFICES ASSUME n + 1 <= N PROVE Good(n + 1)
    OBVIOUS
  <2>0. Good(n) /\ n \in 0..N
    BY <1>4
  <2> USE DEF Good
  <2>1. Good(n) /\ n \in 0..N /\ posted[n + 1] \in Events
    BY <2>0
  <2> DEFINE s == left[n]
             e == posted[n + 1]
  <2>2. CASE Outlives(e, t)
    <3>1. left[n + 1] = Append(s, e)
      BY <1>2, <2>1, <2>2
    <3>2. Append(s, e) \in Seq(Events) /\ Len(Append(s, e)) = Len(s) + 1 /\ Append(s, e)[Len(s) + 1] = e
          /\ \A j \in 1..Len(s) : Append(s, e)[j] = s[j]
      BY <2>1
    <3>3. ASSUME NEW j \in 1..Len(left[n + 1])
          PROVE  \E i \in 1..(n + 1) : left[n + 1][j] = posted[i] /\ Outlives(posted[i], t)
      <4>1. CASE j = Len(s) + 1
        BY <2>2, <3>1, <3>2, <4>1
      <4>2. CASE j # Len(s) + 1
        <5>1. j \in 1..Len(s)
          BY <2>1, <3>1, <3>2, <4>2
        <5>2. PICK i \in 1..n : s[j] = posted[i] /\ Outlives(posted[i], t)
          BY <2>1, <5>1
        <5> QED BY <3>1, <3>2, <5>1, <5>2
      <4> QED BY <4>1, <4>2
    <3>4. ASSUME NEW i \in 1..(n + 1), Outlives(posted[i], t)
          PROVE  \E j \in 1..Len(left[n + 1]) : left[n + 1][j] = posted[i]
      <4>1. CASE i = n + 1
        <5>1. Len(s) + 1 \in 1..Len(left[n + 1])
          BY <2>1, <3>1, <3>2
        <5>2. left[n + 1][Len(s) + 1] = posted[i]
          BY <3>1, <3>2, <4>1
        <5> QED BY <5>1, <5>2
      <4>2. CASE i # n + 1
        <5>1. PICK j \in 1..Len(s) : s[j] = posted[i]
          BY <2>1, <3>4, <4>2
        <5>2. j \in 1..Len(left[n + 1]) /\ left[n + 1][j] = posted[i]
          BY <2>1, <3>1, <3>2, <5>1
        <5> QED BY <5>2
      <4> QED BY <4>1, <4>2
    <3> QED BY <3>1, <3>2, <3>3, <3>4
  <2>3. CASE ~ Outlives(e, t)
    <3>1. left[n + 1] = s
      BY <1>2, <2>1, <2>3
    <3>2. ASSUME NEW i \in 1..(n + 1), Outlives(posted[i], t) PROVE i \in 1..n
      BY <2>3, <3>2
    <3> QED BY <2>1, <3>1, <3>2
  <2> QED BY <2>2, <2>3
<1>5. N \in S
  <2> HIDE DEF S
  <2>1. Nat \subseteq S
    BY <1>3, <1>4, Induction
  <2> QED BY <2>1
<1>6. Good(N)
  BY <1>5
<1> QED BY <1>1, <1>6

-----------------------------------------------------------------------------
LEMMA RemoveAtFacts ==
  ASSUME NEW T, NEW s \in Seq(T), NEW i \in 1..Len(s)
  PROVE  /\ RemoveAt(s, i) \in Seq(T)
         /\ Len(RemoveAt(s, i)) = Len(s) - 1
         /\ \A j \in 1..(Len(s) - 1) : RemoveAt(s, i)[j] = IF j < i THEN s[j] ELSE s[j + 1]
<1> DEFINE a == SubSeq(s, 1, i - 1)
           b == SubSeq(s, i + 1, Len(s))
<1>1. a \in Seq(T) /\ Len(a) = i - 1 /\ \A j \in 1..(i - 1) : a[j] = s[j]
  BY SubSeqProperties
<1>2. b \in Seq(T) /\ Len(b) = Len(s) - i /\ \A j \in 1..(Len(s) - i) : b[j] = s[i + j]
  BY SubSeqProperties
<1>3. RemoveAt(s, i) = a \o b
  BY DEF RemoveAt
<1> HIDE DEF a, b
<1>4. Len(s) \in Nat /\ a \o b \in Seq(T) /\ Len(a \o b) = Len(a) + Len(b)
      /\ \A j \in 1..(Len(a) + Len(b)) : (a \o b)[j] = IF j <= Len(a) THEN a[j] ELSE b[j - Len(a)]
  <2>1. a \in Seq(T) /\ b \in Seq(T)
    BY <1>1, <1>2
  <2>2. Len(s) \in Nat
    OBVIOUS
  <2> QED BY ONLY <2>1, <2>2, ConcatProperties
<1>5. Len(a \o b) = Len(s) - 1
  BY <1>1, <1>2, <1>4
<1>6. ASSUME NEW j \in 1..(Len(s) - 1) PROVE (a \o b)[j] = IF j < i THEN s[j] ELSE s[j + 1]
  <2>1. CASE j < i
    BY <1>1, <1>2, <1>4, <2>1
  <2>2. CASE ~ (j < i)
    <3>1. j - Len(a) \in 1..(Len(s) - i) /\ ~ (j <= Len(a)) /\ j \in 1..(Len(a) + Len(b))
      BY <1>1, <1>2, <1>4, <2>2
    <3>2. i + (j - Len(a)) = j + 1
      BY <1>1
    <3>3. b[j - Len(a)] = s[j + 1]
      BY <1>2, <3>1, <3>2
    <3> QED BY <1>4, <2>2, <3>1, <3>3
  <2> QED BY <2>1, <2>2
<1> QED BY <1>3, <1>4, <1>5, <1>6

-----------------------------------------------------------------------------
(* What a handler does to a desk keeps the types, empties no inbox and asks   *)
(* no connection to disconnect.                                               *)
Quits(box) == \E k \in 1..Len(box) : box[k] = "disconnect"
DeskOK(d) ==
  /\ IsDesk(d)
  /\ d.order \in Seq(Tabs) /\ d.current \in 0..MaxTabs /\ d.sidebar \in 0..MaxTabs
  /\ d.inbox \in [Tabs -> Seq({"connect", "disconnect"})]
MoreCalls(d, e) ==
  \A t \in Tabs : /\ d.inbox[t] # <<>> => e.inbox[t] # <<>>
                  /\ Quits(e.inbox[t]) => Quits(d.inbox[t])
Going(d, t) == phase[t] = "up" \/ d.inbox[t] # <<>>

LEMMA MoreCallsTransitive ==
  ASSUME NEW d, NEW e, NEW f, MoreCalls(d, e), MoreCalls(e, f)
  PROVE  MoreCalls(d, f)
BY DEF MoreCalls

LEMMA AppendCall ==
  ASSUME NEW box \in Seq({"connect", "disconnect"})
  PROVE  /\ Append(box, "connect") \in Seq({"connect", "disconnect"}) /\ Append(box, "connect") # <<>>
         /\ Quits(Append(box, "connect")) => Quits(box)
<1> DEFINE more == Append(box, "connect")
<1>1. /\ more \in Seq({"connect", "disconnect"}) /\ more # <<>> /\ Len(more) = Len(box) + 1
      /\ more[Len(box) + 1] = "connect" /\ \A k \in 1..Len(box) : more[k] = box[k]
  BY AppendProperties
<1>2. ASSUME Quits(more) PROVE Quits(box)
  <2>1. PICK k \in 1..Len(more) : more[k] = "disconnect"
    BY <1>2 DEF Quits
  <2>2. k \in 1..Len(box)
    BY <1>1, <2>1
  <2> QED BY <1>1, <2>1, <2>2 DEF Quits
<1> QED BY <1>1, <1>2

LEMMA StartSessionOK ==
  ASSUME NEW d, DeskOK(d), NEW t \in Tabs
  PROVE  /\ DeskOK(StartSession(d, t)) /\ MoreCalls(d, StartSession(d, t))
         /\ StartSession(d, t).order = d.order /\ StartSession(d, t).current = d.current
         /\ Going(StartSession(d, t), t)
<1>1. CASE phase[t] = "up"
  BY <1>1 DEF StartSession, MoreCalls, Going
<1>2. CASE phase[t] # "up"
  <2> DEFINE box == Append(d.inbox[t], "connect")
             calls == [d.inbox EXCEPT ![t] = box]
             e == [d EXCEPT !.inbox = calls]
  <2>1. StartSession(d, t) = [d EXCEPT !.inbox[t] = box]
    BY <1>2 DEF StartSession
  <2>2. d.inbox[t] \in Seq({"connect", "disconnect"})
    BY DEF DeskOK
  <2>3. /\ box \in Seq({"connect", "disconnect"}) /\ box # <<>>
        /\ Quits(box) => Quits(d.inbox[t])
    BY <2>2, AppendCall
  <2> HIDE DEF box
  <2>4. /\ calls \in [Tabs -> Seq({"connect", "disconnect"})]
        /\ calls[t] = box /\ \A s \in Tabs \ {t} : calls[s] = d.inbox[s]
    BY <2>3 DEF DeskOK
  <2>5. StartSession(d, t) = e
    BY <2>1
  <2> HIDE DEF calls
  <2>6. e = [order |-> d.order, current |-> d.current, sidebar |-> d.sidebar, inbox |-> calls]
    BY DEF DeskOK, IsDesk
  <2> HIDE DEF e
  <2>7. DeskOK(e) /\ e.order = d.order /\ e.current = d.current /\ e.inbox = calls
    BY <2>4, <2>6 DEF DeskOK, IsDesk
  <2>8. MoreCalls(d, e)
    BY <2>3, <2>4, <2>7 DEF MoreCalls
  <2>9. Going(e, t)
    BY <2>3, <2>4, <2>7 DEF Going
  <2> QED BY <2>5, <2>7, <2>8, <2>9
<1> QED BY <1>1, <1>2

LEMMA ShownOK ==
  ASSUME NEW d, DeskOK(d)
  PROVE  /\ DeskOK(Shown(d)) /\ MoreCalls(d, Shown(d))
         /\ Shown(d).order = d.order /\ Shown(d).current = d.current
         /\ d.current # 0 => Going(Shown(d), d.current)
<1> DEFINE e == [d EXCEPT !.sidebar = d.current]
           f == [d EXCEPT !.sidebar = 0]
<1>1. DeskOK(e) /\ e.order = d.order /\ e.current = d.current /\ e.inbox = d.inbox
  BY DEF DeskOK, IsDesk
<1>2. DeskOK(f) /\ f.order = d.order /\ f.current = d.current /\ f.inbox = d.inbox
  BY InstanceAssumption DEF DeskOK, IsDesk
<1>3. CASE d.current = 0
  BY <1>2, <1>3 DEF Shown, MoreCalls
<1>4. CASE d.current # 0
  <2>1. Shown(d) = StartSession(e, d.current)
    BY <1>4 DEF Shown
  <2>2. d.current \in Tabs
    BY <1>4, InstanceAssumption DEF DeskOK, Tabs
  <2> HIDE DEF e
  <2>3. MoreCalls(e, StartSession(e, d.current))
    BY <1>1, <2>2, StartSessionOK
  <2>4. MoreCalls(d, StartSession(e, d.current))
    BY <1>1, <2>3 DEF MoreCalls
  <2> QED BY <1>1, <2>1, <2>2, <2>4, StartSessionOK
<1> QED BY <1>3, <1>4

LEMMA DetachedOK ==
  ASSUME NEW d, DeskOK(d), NEW t
  PROVE  /\ DeskOK(Detached(d, t)) /\ MoreCalls(d, Detached(d, t))
         /\ Detached(d, t).order = d.order
BY InstanceAssumption DEF DeskOK, IsDesk, Detached, MoreCalls

LEMMA OpenedOK ==
  ASSUME NEW d, DeskOK(d), NEW t \in Tabs
  PROVE  /\ DeskOK(Opened(d, t)) /\ MoreCalls(d, Opened(d, t))
         /\ Opened(d, t).order = Append(d.order, t) /\ Going(Opened(d, t), t)
<1> DEFINE longer == Append(d.order, t)
           e == [d EXCEPT !.order = longer, !.current = t]
<1>1. longer \in Seq(Tabs)
  BY DEF DeskOK
<1> HIDE DEF longer
<1>2. e = [order |-> longer, current |-> t, sidebar |-> d.sidebar, inbox |-> d.inbox]
  <2>1. d = [order |-> d.order, current |-> d.current, sidebar |-> d.sidebar, inbox |-> d.inbox]
    BY DEF DeskOK, IsDesk
  <2>2. e = [d EXCEPT !.order = longer, !.current = t]
    OBVIOUS
  <2> HIDE DEF e
  <2> QED BY <2>1, <2>2
<1>3. Opened(d, t) = Shown(Shown(e))
  BY DEF Opened, longer
<1> HIDE DEF e
<1>4. DeskOK(e) /\ e.order = longer /\ e.current = t /\ e.inbox = d.inbox /\ t # 0
  BY <1>1, <1>2, InstanceAssumption DEF DeskOK, IsDesk, Tabs
<1>5. /\ DeskOK(Shown(e)) /\ MoreCalls(e, Shown(e))
      /\ Shown(e).order = longer /\ Shown(e).current = t
  BY <1>4, ShownOK
<1>6. /\ DeskOK(Shown(Shown(e))) /\ MoreCalls(Shown(e), Shown(Shown(e)))
      /\ Shown(Shown(e)).order = longer /\ Going(Shown(Shown(e)), t)
  BY <1>4, <1>5, ShownOK
<1>7. MoreCalls(d, e)
  BY <1>4 DEF MoreCalls
<1>8. MoreCalls(d, Shown(Shown(e)))
  BY <1>5, <1>6, <1>7, MoreCallsTransitive
<1> QED BY <1>3, <1>6, <1>8 DEF longer

LEMMA RemovedOK ==
  ASSUME NEW d, DeskOK(d), NEW i \in 1..Len(d.order)
  PROVE  /\ DeskOK(Removed(d, i)) /\ MoreCalls(d, Removed(d, i))
         /\ Removed(d, i).order = RemoveAt(d.order, i)
<1> DEFINE rest == RemoveAt(d.order, i)
           shown == Position(d, d.current)
           left == [d EXCEPT !.order = rest]
           next == IF rest = <<>> THEN 0 ELSE rest[IF i > Len(rest) THEN Len(rest) ELSE i]
           moved == [left EXCEPT !.current = next]
<1>1. rest \in Seq(Tabs) /\ Len(rest) = Len(d.order) - 1 /\ Len(d.order) \in Nat
  <2>1. d.order \in Seq(Tabs)
    BY DEF DeskOK
  <2>2. rest \in Seq(Tabs) /\ Len(rest) = Len(d.order) - 1
    BY <2>1, RemoveAtFacts
  <2> HIDE DEF rest
  <2> QED BY <2>1, <2>2
<1> HIDE DEF rest
<1>2. next \in 0..MaxTabs
  <2>1. CASE rest = <<>>
    BY <2>1, InstanceAssumption
  <2>2. CASE rest # <<>>
    <3>1. Len(rest) \in Nat \ {0}
      BY <1>1, <2>2, EmptySeq
    <3>2. (IF i > Len(rest) THEN Len(rest) ELSE i) \in 1..Len(rest)
      BY <3>1
    <3>3. rest[IF i > Len(rest) THEN Len(rest) ELSE i] \in Tabs
      BY <1>1, <3>2, ElementOfSeq
    <3> QED BY <2>2, <3>3, InstanceAssumption DEF Tabs
  <2> QED BY <2>1, <2>2
<1> HIDE DEF next
<1>0. IsDesk(d)
  BY DEF DeskOK
<1>a. left = [order |-> rest, current |-> d.current, sidebar |-> d.sidebar, inbox |-> d.inbox]
  BY ONLY <1>0 DEF IsDesk
<1> HIDE DEF left
<1>4. moved = [order |-> rest, current |-> next, sidebar |-> d.sidebar, inbox |-> d.inbox]
  BY ONLY <1>a
<1>3. DeskOK(left) /\ left.order = rest /\ left.inbox = d.inbox
  BY <1>1, <1>a DEF DeskOK, IsDesk
<1>5. Removed(d, i) \in {left, Shown(left), Shown(moved)}
  BY DEF Removed, rest, next, left
<1> HIDE DEF moved
<1>6. DeskOK(moved) /\ moved.order = rest /\ moved.inbox = d.inbox
  BY <1>1, <1>2, <1>4 DEF DeskOK, IsDesk
<1>7. MoreCalls(d, left) /\ MoreCalls(d, moved)
  BY <1>3, <1>6 DEF MoreCalls
<1>8. DeskOK(Shown(left)) /\ MoreCalls(left, Shown(left)) /\ Shown(left).order = rest
  BY <1>3, ShownOK
<1>9. DeskOK(Shown(moved)) /\ MoreCalls(moved, Shown(moved)) /\ Shown(moved).order = rest
  BY <1>6, ShownOK
<1>10. MoreCalls(d, Shown(left)) /\ MoreCalls(d, Shown(moved))
  BY <1>7, <1>8, <1>9, MoreCallsTransitive
<1> QED BY <1>3, <1>5, <1>7, <1>8, <1>9, <1>10 DEF rest

-----------------------------------------------------------------------------
(* The window and the tabs fit: a tab is in the window once and is open, and  *)
(* only a tab that is closing has its connection asked to disconnect.         *)
Fits(d, lives) ==
  /\ DeskOK(d)
  /\ \A i, j \in 1..Len(d.order) : d.order[i] = d.order[j] => i = j
  /\ \A i \in 1..Len(d.order) : lives[d.order[i]] = "open"
  /\ \A t \in Tabs : Quits(d.inbox[t]) => lives[t] = "closing"

(* ActiveMeansAlive, for a desk that the window may become.                   *)
Stopping(t) == \E j \in 1..Len(posted) : posted[j].tab = t /\ posted[j].what \in {"failed", "ended"}
AliveOn(d) ==
  \A i \in 1..Len(d.order) :
    active[d.order[i]] => \/ phase[d.order[i]] \notin {"idle", "ended"}
                          \/ d.inbox[d.order[i]] # <<>>
                          \/ Stopping(d.order[i])

DeletesOfClosing ==
  \A i \in 1..Len(posted) : posted[i].what = "delete" => life[posted[i].tab] = "closing"
CloseIndex == \A i \in 1..Len(dialogs) : dialogs[i].what = "close" => dialogs[i].index # 0

(* What TabsSound needs to last from step to step.                            *)
TabsInv ==
  /\ TypeOK /\ Fits(Desk, life) /\ DeletesOfClosing /\ CloseIndex
  /\ ActiveMeansAlive

Lives == [Tabs -> {"unused", "open", "closing", "gone"}]

LEMMA NextTabFacts ==
  ASSUME TabsLeft
  PROVE  NextTab \in Tabs /\ life[NextTab] = "unused"
<1> DEFINE Least(t) == life[t] = "unused" /\ \A s \in Tabs : life[s] = "unused" => t <= s
           S == {n \in Nat : \/ \E t \in Tabs : Least(t)
                             \/ \A t \in Tabs : life[t] = "unused" => n < t}
<1>0. Tabs \subseteq Nat /\ 0 \notin Tabs
  BY InstanceAssumption DEF Tabs
<1>1. 0 \in S
  BY <1>0
<1>2. ASSUME NEW n \in Nat, n \in S PROVE n + 1 \in S
  <2>1. CASE \E t \in Tabs : Least(t)
    BY <2>1
  <2>2. CASE \A t \in Tabs : life[t] = "unused" => n < t
    <3>1. CASE n + 1 \in Tabs /\ life[n + 1] = "unused"
      <4>1. Least(n + 1)
        BY <1>0, <2>2, <3>1
      <4> QED BY <3>1, <4>1
    <3>2. CASE ~ (n + 1 \in Tabs /\ life[n + 1] = "unused")
      <4>1. ASSUME NEW t \in Tabs, life[t] = "unused" PROVE n + 1 < t
        BY <1>0, <2>2, <3>2, <4>1
      <4> QED BY <4>1
    <3> QED BY <3>1, <3>2
  <2> QED BY <1>2, <2>1, <2>2
<1>3. Nat \subseteq S
  <2> HIDE DEF S
  <2> QED BY <1>1, <1>2, Induction
<1>4. PICK u \in Tabs : life[u] = "unused"
  BY DEF TabsLeft
<1>5. u \in S /\ ~ (u < u)
  BY <1>0, <1>3
<1>6. \E t \in Tabs : Least(t)
  BY <1>4, <1>5
<1> QED BY <1>6 DEF NextTab

LEMMA DetachedFits ==
  ASSUME NEW d, NEW lives, Fits(d, lives), AliveOn(d), NEW t
  PROVE  Fits(Detached(d, t), lives) /\ AliveOn(Detached(d, t)) /\ Detached(d, t).order = d.order
<1>1. DeskOK(Detached(d, t)) /\ Detached(d, t).order = d.order
  BY DetachedOK DEF Fits
<1>2. Detached(d, t).inbox = d.inbox
  BY DEF Fits, DeskOK, IsDesk, Detached
<1> QED BY <1>1, <1>2 DEF Fits, AliveOn

LEMMA OpenedFits ==
  ASSUME NEW d, NEW lives \in Lives, Fits(d, lives), AliveOn(d), NEW t \in Tabs, lives[t] = "unused"
  PROVE  Fits(Opened(d, t), [lives EXCEPT ![t] = "open"]) /\ AliveOn(Opened(d, t))
<1> DEFINE e == Opened(d, t)
           after == [lives EXCEPT ![t] = "open"]
<1>1. DeskOK(e) /\ MoreCalls(d, e) /\ e.order = Append(d.order, t) /\ Going(e, t)
  BY OpenedOK DEF Fits
<1> HIDE DEF e
<1>2. d.order \in Seq(Tabs)
  BY DEF Fits, DeskOK
<1>3. /\ Len(e.order) = Len(d.order) + 1 /\ Len(d.order) \in Nat
      /\ e.order[Len(d.order) + 1] = t /\ \A i \in 1..Len(d.order) : e.order[i] = d.order[i]
  BY <1>1, <1>2
<1>4. \A i \in 1..Len(d.order) : d.order[i] \in Tabs /\ d.order[i] # t
  BY <1>2 DEF Fits
<1>5. after[t] = "open" /\ \A s \in Tabs \ {t} : after[s] = lives[s]
  BY DEF Lives
<1> HIDE DEF after
<1>6. ASSUME NEW i \in 1..Len(e.order), i # Len(d.order) + 1
      PROVE  i \in 1..Len(d.order) /\ e.order[i] = d.order[i]
  BY <1>3, <1>6
<1>7. \A i, j \in 1..Len(e.order) : e.order[i] = e.order[j] => i = j
  BY <1>3, <1>4, <1>6 DEF Fits
<1>8. \A i \in 1..Len(e.order) : after[e.order[i]] = "open"
  BY <1>3, <1>4, <1>5, <1>6 DEF Fits
<1>9. \A s \in Tabs : Quits(e.inbox[s]) => after[s] = "closing"
  BY <1>1, <1>5 DEF Fits, MoreCalls
<1>10. AliveOn(e)
  <2> SUFFICES ASSUME NEW i \in 1..Len(e.order), active[e.order[i]]
               PROVE  \/ phase[e.order[i]] \notin {"idle", "ended"}
                      \/ e.inbox[e.order[i]] # <<>>
                      \/ Stopping(e.order[i])
    BY DEF AliveOn
  <2>1. CASE i = Len(d.order) + 1
    BY <1>1, <1>3, <2>1 DEF Going
  <2>2. CASE i # Len(d.order) + 1
    BY <1>1, <1>4, <1>6, <2>2 DEF AliveOn, MoreCalls
  <2> QED BY <2>1, <2>2
<1> QED BY <1>1, <1>7, <1>8, <1>9, <1>10 DEF Fits, e, after

LEMMA RemovedFits ==
  ASSUME NEW d, NEW lives \in Lives, Fits(d, lives), AliveOn(d), NEW i \in 1..Len(d.order)
  PROVE  /\ Fits(Removed(d, i), [lives EXCEPT ![d.order[i]] = "closing"])
         /\ AliveOn(Removed(d, i))
<1> DEFINE e == Removed(d, i)
           t == d.order[i]
           after == [lives EXCEPT ![t] = "closing"]
<1>1. DeskOK(e) /\ MoreCalls(d, e) /\ e.order = RemoveAt(d.order, i)
  BY RemovedOK DEF Fits
<1> HIDE DEF e
<1>2. d.order \in Seq(Tabs)
  BY DEF Fits, DeskOK
<1>3. /\ Len(e.order) = Len(d.order) - 1 /\ Len(d.order) \in Nat
      /\ \A j \in 1..Len(e.order) : e.order[j] = IF j < i THEN d.order[j] ELSE d.order[j + 1]
  <2> DEFINE rest == RemoveAt(d.order, i)
  <2>1. /\ Len(rest) = Len(d.order) - 1
        /\ \A j \in 1..(Len(d.order) - 1) : rest[j] = IF j < i THEN d.order[j] ELSE d.order[j + 1]
    BY <1>2, RemoveAtFacts
  <2>2. e.order = rest /\ Len(d.order) \in Nat
    BY <1>1, <1>2
  <2> HIDE DEF rest
  <2> QED BY <2>1, <2>2
<1> DEFINE was(j) == IF j < i THEN j ELSE j + 1
<1>4. ASSUME NEW j \in 1..Len(e.order)
      PROVE  was(j) \in 1..Len(d.order) /\ was(j) # i /\ e.order[j] = d.order[was(j)]
  BY <1>3
<1>5. \A j, k \in 1..Len(e.order) : was(j) = was(k) => j = k
  OBVIOUS
<1> HIDE DEF was
<1>6. t \in Tabs /\ \A j \in 1..Len(e.order) : e.order[j] \in Tabs \ {t}
  <2>1. t \in Tabs
    BY <1>2
  <2>2. ASSUME NEW j \in 1..Len(e.order) PROVE e.order[j] \in Tabs \ {t}
    BY <1>2, <1>4 DEF Fits
  <2> QED BY <2>1, <2>2
<1>7. after[t] = "closing" /\ \A s \in Tabs \ {t} : after[s] = lives[s]
  BY <1>6 DEF Lives
<1> HIDE DEF after, t
<1>8. ASSUME NEW j \in 1..Len(e.order), NEW k \in 1..Len(e.order), e.order[j] = e.order[k]
      PROVE  j = k
  <2>1. was(j) = was(k)
    BY <1>4, <1>8 DEF Fits
  <2> QED BY <1>5, <2>1
<1>9. \A j \in 1..Len(e.order) : after[e.order[j]] = "open"
  BY <1>4, <1>6, <1>7 DEF Fits
<1>10. \A s \in Tabs : Quits(e.inbox[s]) => after[s] = "closing"
  BY <1>1, <1>7 DEF Fits, MoreCalls
<1>11. AliveOn(e)
  BY <1>1, <1>4, <1>6 DEF AliveOn, MoreCalls
<1> QED BY <1>1, <1>8, <1>9, <1>10, <1>11 DEF Fits, e, after, t

-----------------------------------------------------------------------------
(* What becomes of the events and of the news that a session stopped.         *)
LEMMA PostedMore ==
  ASSUME posted \in Seq(Events), NEW more \in Seq(Events), posted' = posted \o more
  PROVE  /\ posted' \in Seq(Events)
         /\ \A t \in Tabs : Stopping(t) => Stopping(t)'
         /\ \A k \in 1..Len(more) :
              more[k].what \in {"failed", "ended"} => \A t \in Tabs : more[k].tab = t => Stopping(t)'
         /\ \A j \in 1..Len(posted') : \/ \E i \in 1..Len(posted) : posted'[j] = posted[i]
                                       \/ \E k \in 1..Len(more) : posted'[j] = more[k]
<1> DEFINE next == posted \o more
<1>1. Len(posted) \in Nat /\ Len(more) \in Nat
  OBVIOUS
<1>2. /\ next \in Seq(Events) /\ Len(next) = Len(posted) + Len(more)
      /\ \A j \in 1..(Len(posted) + Len(more)) :
           next[j] = IF j <= Len(posted) THEN posted[j] ELSE more[j - Len(posted)]
  BY ConcatProperties
<1>3. posted' = next
  OBVIOUS
<1> HIDE DEF next
<1>4. \A i \in 1..Len(posted) : i \in 1..Len(next) /\ next[i] = posted[i]
  BY <1>1, <1>2
<1>5. ASSUME NEW k \in 1..Len(more)
      PROVE  Len(posted) + k \in 1..Len(next) /\ next[Len(posted) + k] = more[k]
  <2>1. /\ Len(posted) + k \in 1..Len(next) /\ ~ (Len(posted) + k <= Len(posted))
        /\ (Len(posted) + k) - Len(posted) = k
    BY <1>1, <1>2
  <2> QED BY <1>2, <2>1
<1>6. ASSUME NEW j \in 1..Len(next)
      PROVE  \/ \E i \in 1..Len(posted) : next[j] = posted[i]
             \/ \E k \in 1..Len(more) : next[j] = more[k]
  <2>1. CASE j <= Len(posted)
    <3>1. j \in 1..Len(posted) /\ next[j] = posted[j]
      BY <1>1, <1>2, <2>1
    <3> QED BY <3>1
  <2>2. CASE ~ (j <= Len(posted))
    <3>1. j - Len(posted) \in 1..Len(more)
      BY <1>1, <1>2, <2>2
    <3>2. next[j] = more[j - Len(posted)]
      BY <1>1, <1>2, <2>2
    <3> QED BY <3>1, <3>2
  <2> QED BY <2>1, <2>2
<1>7. \A t \in Tabs : Stopping(t) => Stopping(t)'
  BY <1>3, <1>4 DEF Stopping
<1>8. ASSUME NEW k \in 1..Len(more), more[k].what \in {"failed", "ended"},
             NEW t \in Tabs, more[k].tab = t
      PROVE  Stopping(t)'
  BY <1>3, <1>5, <1>8 DEF Stopping
<1> QED BY <1>2, <1>3, <1>6, <1>7, <1>8

LEMMA PostedOne ==
  ASSUME posted \in Seq(Events), NEW e \in Events, posted' = Append(posted, e)
  PROVE  /\ posted' \in Seq(Events)
         /\ \A t \in Tabs : Stopping(t) => Stopping(t)'
         /\ \A j \in 1..Len(posted') : posted'[j] = e \/ \E i \in 1..Len(posted) : posted'[j] = posted[i]
<1>1. <<e>> \in Seq(Events) /\ Len(<<e>>) = 1 /\ <<e>>[1] = e
  OBVIOUS
<1>2. posted' = posted \o <<e>>
  BY AppendIsConcat
<1> DEFINE one == <<e>>
<1>3. one \in Seq(Events) /\ posted' = posted \o one /\ Len(one) = 1 /\ one[1] = e
  BY <1>1, <1>2
<1> HIDE DEF one
<1>4. /\ posted' \in Seq(Events) /\ \A t \in Tabs : Stopping(t) => Stopping(t)'
      /\ \A j \in 1..Len(posted') : \/ \E i \in 1..Len(posted) : posted'[j] = posted[i]
                                    \/ \E k \in 1..Len(one) : posted'[j] = one[k]
  BY <1>3, PostedMore
<1>5. \A k \in 1..Len(one) : one[k] = e
  BY <1>3
<1> QED BY <1>4, <1>5

LEMMA PostedLess ==
  ASSUME posted \in Seq(Events), NEW i \in 1..Len(posted), posted' = RemoveAt(posted, i)
  PROVE  /\ posted' \in Seq(Events)
         /\ \A j \in 1..Len(posted') : \E k \in 1..Len(posted) : posted'[j] = posted[k]
         /\ \A t \in Tabs : \/ Stopping(t) => Stopping(t)'
                            \/ posted[i].tab = t /\ posted[i].what \in {"failed", "ended"}
<1>1. /\ posted' \in Seq(Events) /\ Len(posted') = Len(posted) - 1 /\ Len(posted) \in Nat
      /\ \A j \in 1..(Len(posted) - 1) : posted'[j] = IF j < i THEN posted[j] ELSE posted[j + 1]
  <2> DEFINE rest == RemoveAt(posted, i)
  <2>1. /\ rest \in Seq(Events) /\ Len(rest) = Len(posted) - 1
        /\ \A j \in 1..(Len(posted) - 1) : rest[j] = IF j < i THEN posted[j] ELSE posted[j + 1]
    BY RemoveAtFacts
  <2>2. posted' = rest /\ Len(posted) \in Nat
    OBVIOUS
  <2> HIDE DEF rest
  <2> QED BY <2>1, <2>2
<1>2. \A j \in 1..Len(posted') : \E k \in 1..Len(posted) : posted'[j] = posted[k]
  <2> SUFFICES ASSUME NEW j \in 1..Len(posted')
               PROVE  \E k \in 1..Len(posted) : posted'[j] = posted[k]
    OBVIOUS
  <2>1. CASE j < i
    BY <1>1, <2>1
  <2>2. CASE ~ (j < i)
    <3>1. j + 1 \in 1..Len(posted) /\ posted'[j] = posted[j + 1]
      BY <1>1, <2>2
    <3> QED BY <3>1
  <2> QED BY <2>1, <2>2
<1>3. ASSUME NEW k \in 1..Len(posted), k # i
      PROVE  \E j \in 1..Len(posted') : posted'[j] = posted[k]
  <2>1. CASE k < i
    BY <1>1, <2>1
  <2>2. CASE ~ (k < i)
    <3>1. k - 1 \in 1..(Len(posted) - 1) /\ ~ (k - 1 < i) /\ (k - 1) + 1 = k
      BY <1>1, <1>3, <2>2
    <3>2. posted'[k - 1] = posted[k]
      BY <1>1, <3>1
    <3> QED BY <1>1, <3>1, <3>2
  <2> QED BY <2>1, <2>2
<1>4. ASSUME NEW t \in Tabs, Stopping(t), ~ (posted[i].tab = t /\ posted[i].what \in {"failed", "ended"})
      PROVE  Stopping(t)'
  <2>1. PICK k \in 1..Len(posted) : posted[k].tab = t /\ posted[k].what \in {"failed", "ended"}
    BY <1>4 DEF Stopping
  <2>2. PICK j \in 1..Len(posted') : posted'[j] = posted[k]
    BY <1>3, <1>4, <2>1
  <2> QED BY <2>1, <2>2 DEF Stopping
<1> QED BY <1>1, <1>2, <1>4

LEMMA DeskNext ==
  ASSUME NEW e, NEW lives, DeskBecomes(e), Fits(e, lives), lives = life'
  PROVE  /\ Fits(Desk, life)' /\ order' = e.order /\ inbox' = e.inbox
         /\ order' \in Seq(Tabs) /\ current' \in 0..MaxTabs /\ sidebar' \in 0..MaxTabs
         /\ inbox' \in [Tabs -> Seq({"connect", "disconnect"})]
<1>1. Desk' = e
  BY DEF DeskBecomes, Fits, DeskOK, IsDesk, Desk
<1>2. Fits(Desk', life')
  BY <1>1
<1> QED BY <1>2 DEF Fits, DeskOK, DeskBecomes

(* A tab that is in the window after a step and counts as active did so       *)
(* before, and what kept it alive still does.                                 *)
LEMMA StaysAlive ==
  ASSUME NEW e, AliveOn(e), order' = e.order,
         \A i \in 1..Len(e.order) :
           LET t == e.order[i] IN
           active'[t] =>
             /\ active[t]
             /\ (phase[t] \notin {"idle", "ended"} \/ e.inbox[t] # <<>> \/ Stopping(t))
                  => (phase'[t] \notin {"idle", "ended"} \/ inbox'[t] # <<>> \/ Stopping(t)')
  PROVE  ActiveMeansAlive'
BY DEF AliveOn, ActiveMeansAlive, Stopping

LEMMA AliveNow ==
  ASSUME TabsInv
  PROVE  /\ AliveOn(Desk) /\ Desk.order = order /\ Desk.inbox = inbox
         /\ \A i \in 1..Len(order) : order[i] \in Tabs /\ life[order[i]] = "open"
<1>1. Desk.order = order /\ Desk.inbox = inbox
  BY DEF Desk
<1>2. \A i \in 1..Len(order) : order[i] \in Tabs /\ life[order[i]] = "open"
  BY <1>1 DEF TabsInv, TypeOK, Fits
<1>3. AliveOn(Desk)
  BY <1>1 DEF TabsInv, ActiveMeansAlive, AliveOn, Stopping
<1> QED BY <1>1, <1>2, <1>3

-----------------------------------------------------------------------------
(* The window's handlers.                                                     *)
LEMMA PostedTyped ==
  ASSUME TypeOK, NEW i \in 1..Len(posted)
  PROVE  /\ posted[i] \in Events /\ posted[i].tab \in Tabs
         /\ posted[i].what \in {"failed", "password", "ended", "hostkey", "kbd", "delete"}
<1>1. posted[i] \in Events
  BY ElementOfSeq DEF TypeOK
<1> QED BY <1>1 DEF Events

LEMMA OpenSessionSound ==
  ASSUME TabsInv, OpenSession
  PROVE  TabsInv'
<1> DEFINE t == NextTab
           e == Opened(Desk, t)
           lives == [life EXCEPT ![t] = "open"]
<1>1. t \in Tabs /\ life[t] = "unused"
  BY NextTabFacts DEF OpenSession
<1>2. TypeOK /\ life \in Lives /\ Fits(Desk, life) /\ AliveOn(Desk)
  BY AliveNow DEF TabsInv, TypeOK, Lives
<1> HIDE DEF t
<1>3. Fits(e, lives) /\ AliveOn(e)
  BY <1>1, <1>2, OpenedFits
<1>4. DeskBecomes(e) /\ lives = life' /\ lives \in Lives /\ events' \in 0..MaxEvents
  <2>1. DeskBecomes(e) /\ lives = life'
    BY DEF OpenSession, t
  <2>2. events' \in 0..MaxEvents
    BY <1>2, InstanceAssumption DEF OpenSession, OneMore, TypeOK
  <2> QED BY <1>1, <1>2, <2>1, <2>2 DEF Lives
<1>5. UNCHANGED <<active, timer, phase, known, posted, dialogs, waiting, astray>>
  BY DEF OpenSession, gui
<1> HIDE DEF e, lives
<1>6. /\ Fits(Desk, life)' /\ order' = e.order /\ inbox' = e.inbox
      /\ order' \in Seq(Tabs) /\ current' \in 0..MaxTabs /\ sidebar' \in 0..MaxTabs
      /\ inbox' \in [Tabs -> Seq({"connect", "disconnect"})]
  BY <1>3, <1>4, DeskNext
<1>7. TypeOK'
  BY <1>2, <1>4, <1>5, <1>6 DEF TypeOK, Lives
<1>8. ActiveMeansAlive'
  BY <1>3, <1>5, <1>6, StaysAlive DEF Stopping
<1>9. DeletesOfClosing'
  <2>1. \A i \in 1..Len(posted) : posted[i].tab \in Tabs
    BY <1>2, PostedTyped
  <2>2. \A s \in Tabs : life[s] = "closing" => life'[s] = "closing"
    BY <1>1, <1>2, <1>4 DEF lives, Lives
  <2> QED BY <1>5, <2>1, <2>2 DEF DeletesOfClosing, TabsInv
<1>10. CloseIndex'
  BY <1>5 DEF TabsInv, CloseIndex
<1> QED BY <1>6, <1>7, <1>8, <1>9, <1>10 DEF TabsInv

LEMMA SwitchTabSound ==
  ASSUME TabsInv, NEW t \in 0..MaxTabs, SwitchTab(t)
  PROVE  TabsInv'
<1> DEFINE d == [Desk EXCEPT !.current = t]
           e == Shown(d)
<1>1. TypeOK /\ Fits(Desk, life) /\ AliveOn(Desk)
  BY AliveNow DEF TabsInv
<1>2. DeskOK(d) /\ d.order = order /\ d.inbox = inbox
  BY <1>1 DEF Fits, DeskOK, IsDesk, Desk
<1> HIDE DEF d
<1>3. DeskOK(e) /\ MoreCalls(d, e) /\ e.order = order
  BY <1>2, ShownOK
<1>4. DeskBecomes(e) /\ events' \in 0..MaxEvents
  <2>1. DeskBecomes(e)
    BY DEF SwitchTab, d
  <2>2. events' \in 0..MaxEvents
    BY <1>1, InstanceAssumption DEF SwitchTab, OneMore, TypeOK
  <2> QED BY <2>1, <2>2
<1>5. UNCHANGED <<life, active, timer, phase, known, posted, dialogs, waiting, astray>>
  BY DEF SwitchTab, gui, tabState
<1> HIDE DEF e
<1>6. Fits(e, life)
  BY <1>1, <1>2, <1>3 DEF Fits, MoreCalls, Desk
<1>7. AliveOn(e)
  <2>1. Desk.order = order /\ Desk.inbox = inbox /\ \A i \in 1..Len(order) : order[i] \in Tabs
    BY <1>1 DEF Desk, TypeOK
  <2> QED BY <1>1, <1>2, <1>3, <2>1 DEF AliveOn, MoreCalls
<1>8. /\ Fits(Desk, life)' /\ order' = e.order /\ inbox' = e.inbox
      /\ order' \in Seq(Tabs) /\ current' \in 0..MaxTabs /\ sidebar' \in 0..MaxTabs
      /\ inbox' \in [Tabs -> Seq({"connect", "disconnect"})]
  BY <1>4, <1>5, <1>6, DeskNext
<1>9. TypeOK'
  BY <1>1, <1>4, <1>5, <1>8 DEF TypeOK
<1>10. ActiveMeansAlive'
  BY <1>5, <1>7, <1>8, StaysAlive DEF Stopping
<1> QED BY <1>5, <1>8, <1>9, <1>10 DEF TabsInv, DeletesOfClosing, CloseIndex

(* A tab of the window leaves it, and its deletion is posted.                 *)
LEMMA CloseSound ==
  ASSUME TabsInv, NEW i \in 1..Len(order), NEW e \in Events,
         CloseTab(order[i], i),
         posted' = Append(posted, e), e.tab = order[i], e.what = "delete",
         UNCHANGED <<active, timer, phase, known>>
  PROVE  /\ Fits(Desk, life)' /\ DeletesOfClosing' /\ ActiveMeansAlive'
         /\ order' \in Seq(Tabs) /\ current' \in 0..MaxTabs /\ sidebar' \in 0..MaxTabs
         /\ inbox' \in [Tabs -> Seq({"connect", "disconnect"})]
         /\ life' \in Lives /\ posted' \in Seq(Events)
<1> DEFINE t == order[i]
           d == Detached(Desk, t)
           f == Removed(d, i)
           lives == [life EXCEPT ![t] = "closing"]
<1>1. TypeOK /\ life \in Lives /\ Fits(Desk, life) /\ AliveOn(Desk)
  BY AliveNow DEF TabsInv, TypeOK, Lives
<1>2. t \in Tabs
  BY <1>1 DEF TypeOK
<1>3. Desk.order = order
  BY DEF Desk
<1>4. Fits(d, life) /\ AliveOn(d) /\ d.order = order
  BY <1>1, <1>3, DetachedFits
<1>5. DeskBecomes(f) /\ life' = lives
  BY DEF CloseTab
<1> HIDE DEF d
<1>6. Fits(f, lives) /\ AliveOn(f)
  BY <1>1, <1>4, RemovedFits
<1>7. lives \in Lives /\ lives[t] = "closing" /\ \A s \in Tabs : life[s] = "closing" => lives[s] = "closing"
  BY <1>1, <1>2 DEF Lives
<1> HIDE DEF lives, f
<1>8. /\ Fits(Desk, life)' /\ order' = f.order /\ inbox' = f.inbox
      /\ order' \in Seq(Tabs) /\ current' \in 0..MaxTabs /\ sidebar' \in 0..MaxTabs
      /\ inbox' \in [Tabs -> Seq({"connect", "disconnect"})]
  BY <1>5, <1>6, DeskNext
<1>9. /\ posted' \in Seq(Events)
      /\ \A s \in Tabs : Stopping(s) => Stopping(s)'
      /\ \A j \in 1..Len(posted') : posted'[j] = e \/ \E k \in 1..Len(posted) : posted'[j] = posted[k]
  BY <1>1, PostedOne DEF TypeOK
<1>10. \A k \in 1..Len(f.order) : f.order[k] \in Tabs
  BY <1>6 DEF Fits, DeskOK
<1>11. ActiveMeansAlive'
  BY <1>6, <1>8, <1>9, <1>10, StaysAlive
<1>12. DeletesOfClosing'
  <2>1. \A k \in 1..Len(posted) : posted[k].tab \in Tabs
    BY <1>1, PostedTyped
  <2> QED BY <1>5, <1>7, <1>9, <2>1 DEF DeletesOfClosing, TabsInv
<1> QED BY <1>5, <1>7, <1>8, <1>9, <1>11, <1>12

DialogSet == [what : {"close", "password", "hostkey", "kbd"}, tab : Tabs, index : Nat]

LEMMA DialogMore ==
  ASSUME TypeOK, CloseIndex, NEW d \in DialogSet, d.what = "close" => d.index # 0,
         dialogs' = Append(dialogs, d)
  PROVE  dialogs' \in Seq(DialogSet) /\ CloseIndex'
<1>1. dialogs \in Seq(DialogSet)
  BY DEF TypeOK, DialogSet
<1>2. /\ dialogs' \in Seq(DialogSet) /\ Len(dialogs') = Len(dialogs) + 1 /\ Len(dialogs) \in Nat
      /\ dialogs'[Len(dialogs) + 1] = d /\ \A i \in 1..Len(dialogs) : dialogs'[i] = dialogs[i]
  BY <1>1, AppendProperties
<1>3. ASSUME NEW i \in 1..Len(dialogs'), dialogs'[i].what = "close" PROVE dialogs'[i].index # 0
  <2>1. CASE i = Len(dialogs) + 1
    BY <1>2, <1>3, <2>1
  <2>2. CASE i # Len(dialogs) + 1
    <3>1. i \in 1..Len(dialogs)
      BY <1>2, <2>2
    <3> QED BY <1>2, <1>3, <3>1 DEF CloseIndex
  <2> QED BY <2>1, <2>2
<1> QED BY <1>2, <1>3 DEF CloseIndex

LEMMA DialogLess ==
  ASSUME TypeOK, CloseIndex, dialogs # <<>>, CloseDialog
  PROVE  /\ dialogs' \in Seq(DialogSet) /\ CloseIndex'
         /\ Top \in DialogSet /\ Top.tab \in Tabs /\ (Top.what = "close" => Top.index # 0)
         /\ Len(dialogs) - 1 \in Nat
<1>1. dialogs \in Seq(DialogSet)
  BY DEF TypeOK, DialogSet
<1>2. Len(dialogs) \in Nat \ {0}
  BY <1>1, EmptySeq
<1>3. Top \in DialogSet /\ (Top.what = "close" => Top.index # 0)
  <2>1. Len(dialogs) \in 1..Len(dialogs)
    BY <1>2
  <2>2. Top \in DialogSet
    BY <1>1, <2>1, ElementOfSeq DEF Top
  <2> QED BY <2>1, <2>2 DEF Top, CloseIndex
<1> DEFINE rest == SubSeq(dialogs, 1, Len(dialogs) - 1)
<1>4. /\ rest \in Seq(DialogSet) /\ Len(rest) = Len(dialogs) - 1
      /\ \A i \in 1..(Len(dialogs) - 1) : rest[i] = dialogs[i]
  <2>1. \A i \in 1..(Len(dialogs) - 1) : dialogs[i] \in DialogSet
    BY <1>1, <1>2, ElementOfSeq
  <2>2. 1 \in Int /\ Len(dialogs) - 1 \in Int /\ 1 <= Len(dialogs)
    BY <1>2
  <2>3. /\ rest \in Seq(DialogSet)
        /\ Len(rest) = IF 1 <= Len(dialogs) - 1 THEN (Len(dialogs) - 1) - 1 + 1 ELSE 0
        /\ \A i \in 1..((Len(dialogs) - 1) - 1 + 1) : rest[i] = dialogs[1 + i - 1]
    BY <2>1, <2>2, SubSeqProperties
  <2> HIDE DEF rest
  <2>4. Len(rest) = Len(dialogs) - 1
    <3> DEFINE n == Len(dialogs)
    <3>1. n \in Nat \ {0} /\ Len(rest) = IF 1 <= n - 1 THEN (n - 1) - 1 + 1 ELSE 0
      BY <1>2, <2>3
    <3> HIDE DEF n
    <3>2. Len(rest) = n - 1
      BY ONLY <3>1
    <3> QED BY <3>2 DEF n
  <2>5. \A i \in 1..(Len(dialogs) - 1) : i \in 1..((Len(dialogs) - 1) - 1 + 1) /\ 1 + i - 1 = i
    BY <1>2
  <2> QED BY <2>3, <2>4, <2>5
<1>5. dialogs' = rest
  BY DEF CloseDialog, Front
<1> HIDE DEF rest
<1>6. CloseIndex'
  <2>1. \A i \in 1..Len(dialogs') : i \in 1..Len(dialogs) /\ dialogs'[i] = dialogs[i]
    BY <1>2, <1>4, <1>5
  <2> QED BY <2>1 DEF CloseIndex
<1>7. Top.tab \in Tabs
  BY <1>3 DEF DialogSet
<1> QED BY <1>2, <1>3, <1>4, <1>5, <1>6, <1>7

LEMMA RequestCloseSound ==
  ASSUME TabsInv, NEW i \in 1..Len(order), RequestClose(i)
  PROVE  TabsInv'
<1> DEFINE t == order[i]
<1>0. TypeOK /\ CloseIndex /\ t \in Tabs /\ i \in Nat /\ i # 0
  BY DEF TabsInv, TypeOK
<1>1. events' \in 0..MaxEvents
  BY <1>0, InstanceAssumption DEF RequestClose, OneMore, TypeOK
<1>2. UNCHANGED <<active, timer, phase, known, waiting, astray>>
  BY DEF RequestClose
<1>3. CASE /\ dialogs' = Append(dialogs, Dialog("close", t, i))
           /\ UNCHANGED <<desk, life, posted>>
  <2> DEFINE d == Dialog("close", t, i)
  <2>1. d \in DialogSet /\ d.what = "close" /\ d.index # 0
    BY <1>0 DEF Dialog, DialogSet
  <2> HIDE DEF d, t
  <2>2. dialogs' = Append(dialogs, d)
    BY <1>3 DEF d
  <2>3. dialogs' \in Seq(DialogSet) /\ CloseIndex'
    BY <1>0, <2>1, <2>2, DialogMore
  <2>4. UNCHANGED <<order, current, sidebar, inbox, life, posted>>
    BY <1>3 DEF desk
  <2>5. TypeOK'
    BY <1>0, <1>1, <1>2, <2>3, <2>4 DEF TypeOK, DialogSet
  <2> QED BY <1>2, <2>3, <2>4, <2>5 DEF TabsInv, DeletesOfClosing, ActiveMeansAlive, Desk
<1>4. CASE /\ CloseTab(t, i)
           /\ posted' = Append(posted, Event("delete", t, FALSE, 0))
           /\ UNCHANGED dialogs
  <2> DEFINE e == Event("delete", t, FALSE, 0)
  <2>1. e \in Events /\ e.what = "delete" /\ e.tab = t
    <3> HIDE DEF t
    <3>1. t \in Tabs
      BY <1>0 DEF t
    <3> QED BY <3>1 DEF Event, Events
  <2>2. posted' = Append(posted, e) /\ CloseTab(order[i], i) /\ UNCHANGED dialogs
    BY <1>4
  <2> HIDE DEF e
  <2>3. /\ Fits(Desk, life)' /\ DeletesOfClosing' /\ ActiveMeansAlive'
        /\ order' \in Seq(Tabs) /\ current' \in 0..MaxTabs /\ sidebar' \in 0..MaxTabs
        /\ inbox' \in [Tabs -> Seq({"connect", "disconnect"})]
        /\ life' \in Lives /\ posted' \in Seq(Events)
    BY <1>2, <2>1, <2>2, CloseSound
  <2>4. TypeOK'
    BY <1>0, <1>1, <1>2, <2>2, <2>3 DEF TypeOK, Lives
  <2> QED BY <1>0, <2>2, <2>3, <2>4 DEF TabsInv, CloseIndex
<1> QED BY <1>3, <1>4 DEF RequestClose

LEMMA AnswerCloseSound ==
  ASSUME TabsInv, AnswerClose
  PROVE  TabsInv'
<1> DEFINE i == Top.index
<1>0. TypeOK /\ CloseIndex /\ dialogs # <<>> /\ CloseDialog /\ Top.what = "close"
  BY DEF TabsInv, AnswerClose
<1>1. /\ dialogs' \in Seq(DialogSet) /\ CloseIndex'
      /\ Top \in DialogSet /\ Top.tab \in Tabs /\ i # 0 /\ Len(dialogs) - 1 \in Nat
  BY <1>0, DialogLess
<1>2. UNCHANGED <<active, timer, phase, known, waiting, events>>
  BY DEF AnswerClose
<1>3. CASE UNCHANGED <<desk, life, posted>> /\ astray' \in BOOLEAN
  <2>1. UNCHANGED <<order, current, sidebar, inbox, life, posted>>
    BY <1>3 DEF desk
  <2>2. TypeOK'
    BY <1>0, <1>1, <1>2, <1>3, <2>1 DEF TypeOK, DialogSet
  <2> QED BY <1>1, <1>2, <2>1, <2>2 DEF TabsInv, DeletesOfClosing, ActiveMeansAlive, Desk
<1>4. CASE /\ InPlace(Top)
           /\ CloseTab(Top.tab, Top.index)
           /\ posted' = Append(posted, Event("delete", Top.tab, FALSE, Len(dialogs) - 1))
           /\ UNCHANGED astray
  <2> DEFINE e == Event("delete", Top.tab, FALSE, Len(dialogs) - 1)
  <2>1. e \in Events /\ e.what = "delete" /\ e.tab = Top.tab
    BY <1>1 DEF Event, Events
  <2>2. i \in 1..Len(order) /\ order[i] = Top.tab
    <3>1. i \in Nat
      BY <1>1 DEF DialogSet
    <3>2. Len(order) \in Nat
      BY <1>0 DEF TypeOK
    <3> QED BY <1>1, <1>4, <3>1, <3>2 DEF InPlace
  <2>3. posted' = Append(posted, e) /\ CloseTab(order[i], i) /\ UNCHANGED astray
    BY <1>4, <2>2
  <2> HIDE DEF e, i
  <2>4. /\ Fits(Desk, life)' /\ DeletesOfClosing' /\ ActiveMeansAlive'
        /\ order' \in Seq(Tabs) /\ current' \in 0..MaxTabs /\ sidebar' \in 0..MaxTabs
        /\ inbox' \in [Tabs -> Seq({"connect", "disconnect"})]
        /\ life' \in Lives /\ posted' \in Seq(Events)
    BY <1>2, <2>1, <2>2, <2>3, CloseSound
  <2>5. TypeOK'
    BY <1>0, <1>1, <1>2, <2>3, <2>4 DEF TypeOK, Lives, DialogSet
  <2> QED BY <1>1, <2>4, <2>5 DEF TabsInv
<1> QED BY <1>0, <1>3, <1>4 DEF AnswerClose, TypeOK

-----------------------------------------------------------------------------
(* A fresh tab in the place of one that stopped, or of one that has left.     *)
LEMMA ReplaceDesk ==
  ASSUME TabsInv, NEW t \in Tabs, Replace(t)
  PROVE  \E e : /\ Fits(e, life') /\ AliveOn(e) /\ DeskBecomes(e) /\ life' \in Lives
                /\ \A s \in Tabs : life[s] = "closing" => life'[s] = "closing"
                /\ (\E i \in 1..Len(order) : order[i] = t) => life'[t] = "closing"
<1> DEFINE n == NextTab
           d == Detached(Desk, t)
           here == \E i \in 1..Len(order) : order[i] = t
           lives == [life EXCEPT ![n] = "open", ![t] = IF here THEN "closing" ELSE @]
<1>1. n \in Tabs /\ life[n] = "unused"
  BY NextTabFacts DEF Replace
<1>2. TypeOK /\ life \in Lives /\ Fits(Desk, life) /\ AliveOn(Desk) /\ Desk.order = order
  BY AliveNow DEF TabsInv, TypeOK, Lives
<1>3. life' = lives /\ DeskBecomes(Opened(IF here THEN Removed(d, Position(d, t)) ELSE Desk, n))
  BY DEF Replace
<1> HIDE DEF n
<1>4. CASE here
  <2> DEFINE i == Position(d, t)
             f == Removed(d, i)
             left == [life EXCEPT ![t] = "closing"]
  <2>1. Fits(d, life) /\ AliveOn(d) /\ d.order = order
    BY <1>2, DetachedFits
  <2>2. i \in 1..Len(d.order) /\ d.order[i] = t
    <3>1. t # 0
      BY InstanceAssumption DEF Tabs
    <3>2. \E k \in 1..Len(d.order) : d.order[k] = t
      BY <1>4, <2>1
    <3> HIDE DEF d
    <3> QED BY <3>1, <3>2 DEF Position
  <2> HIDE DEF d, i
  <2>3. Fits(f, left) /\ AliveOn(f)
    BY <1>2, <2>1, <2>2, RemovedFits
  <2>4. life[t] = "open"
    BY <2>1, <2>2 DEF Fits
  <2>5. left \in Lives /\ left[n] = "unused" /\ t # n
    BY <1>1, <1>2, <2>4 DEF Lives
  <2>6. lives = [left EXCEPT ![n] = "open"]
    BY <1>1, <1>2, <1>4, <2>5 DEF Lives
  <2>7. DeskBecomes(Opened(f, n))
    BY <1>3, <1>4 DEF i
  <2>8. lives \in Lives /\ lives[t] = "closing" /\ \A s \in Tabs : life[s] = "closing" => lives[s] = "closing"
    BY <1>1, <1>2, <1>4, <2>5 DEF Lives
  <2> HIDE DEF f, left, lives
  <2>9. Fits(Opened(f, n), [left EXCEPT ![n] = "open"]) /\ AliveOn(Opened(f, n))
    BY <1>1, <2>3, <2>5, OpenedFits
  <2> QED BY <1>3, <2>6, <2>7, <2>8, <2>9
<1>5. CASE ~ here
  <2>1. lives = [life EXCEPT ![n] = "open"]
    <3> DEFINE mid == [life EXCEPT ![n] = "open"]
    <3>1. lives = [life EXCEPT ![n] = "open", ![t] = @]
      BY <1>5
    <3> HIDE DEF lives
    <3>2. mid \in Lives /\ lives \in Lives
      BY <1>1, <1>2, <3>1 DEF Lives
    <3>3. \A s \in Tabs : lives[s] = mid[s]
      BY <1>1, <1>2, <3>1 DEF Lives
    <3> HIDE DEF mid
    <3>4. lives = mid
      BY <3>2, <3>3 DEF Lives
    <3> QED BY <3>4 DEF mid
  <2>2. DeskBecomes(Opened(Desk, n))
    BY <1>3, <1>5
  <2>3. lives \in Lives /\ \A s \in Tabs : life[s] = "closing" => lives[s] = "closing"
    BY <1>1, <1>2, <2>1 DEF Lives
  <2> HIDE DEF lives
  <2>4. Fits(Opened(Desk, n), [life EXCEPT ![n] = "open"]) /\ AliveOn(Opened(Desk, n))
    BY <1>1, <1>2, OpenedFits
  <2> QED BY <1>3, <1>5, <2>1, <2>2, <2>3, <2>4
<1> QED BY <1>4, <1>5

LEMMA ReplaceSound ==
  ASSUME TabsInv, NEW t \in Tabs, Replace(t), events' \in 0..MaxEvents,
         timer' \in [Tabs -> {"none", "running", "fired"}]
  PROVE  TabsInv'
<1> DEFINE here == \E i \in 1..Len(order) : order[i] = t
           new == Event("delete", t, FALSE, Len(dialogs))
<1>1. PICK e : /\ Fits(e, life') /\ AliveOn(e) /\ DeskBecomes(e) /\ life' \in Lives
               /\ \A s \in Tabs : life[s] = "closing" => life'[s] = "closing"
               /\ here => life'[t] = "closing"
  BY ReplaceDesk
<1>2. TypeOK /\ UNCHANGED <<active, phase, known, dialogs, waiting, astray>>
  BY DEF Replace, TabsInv, gui
<1>3. new \in Events /\ new.tab = t
  <2>1. Len(dialogs) \in Nat
    BY <1>2 DEF TypeOK
  <2> QED BY <2>1 DEF Event, Events
<1>4. posted' = IF here THEN Append(posted, new) ELSE posted
  BY DEF Replace
<1> HIDE DEF new, here
<1>5. /\ posted' \in Seq(Events)
      /\ \A s \in Tabs : Stopping(s) => Stopping(s)'
      /\ \A j \in 1..Len(posted') : (here /\ posted'[j] = new) \/ \E i \in 1..Len(posted) : posted'[j] = posted[i]
  <2>1. CASE here
    BY <1>2, <1>3, <1>4, <2>1, PostedOne DEF TypeOK
  <2>2. CASE ~ here
    BY <1>2, <1>4, <2>2 DEF TypeOK, Stopping
  <2> QED BY <2>1, <2>2
<1>6. /\ Fits(Desk, life)' /\ order' = e.order /\ inbox' = e.inbox
      /\ order' \in Seq(Tabs) /\ current' \in 0..MaxTabs /\ sidebar' \in 0..MaxTabs
      /\ inbox' \in [Tabs -> Seq({"connect", "disconnect"})]
  BY <1>1, DeskNext
<1>7. TypeOK'
  BY <1>1, <1>2, <1>5, <1>6 DEF TypeOK, Lives
<1>8. ActiveMeansAlive'
  <2>1. \A i \in 1..Len(e.order) : e.order[i] \in Tabs
    BY <1>1 DEF Fits, DeskOK
  <2> QED BY <1>1, <1>2, <1>5, <1>6, <2>1, StaysAlive
<1>9. DeletesOfClosing'
  BY <1>1, <1>2, <1>3, <1>5, PostedTyped DEF DeletesOfClosing, TabsInv
<1>10. CloseIndex'
  BY <1>2 DEF TabsInv, CloseIndex
<1> QED BY <1>6, <1>7, <1>8, <1>9, <1>10 DEF TabsInv

(* A password goes to an inbox; the other answers go to the browser and to    *)
(* the thread that waits.                                                     *)
LEMMA PasswordSound ==
  ASSUME TabsInv, GivePassword \/ CancelPassword
  PROVE  TabsInv'
<1>1. TypeOK /\ CloseIndex /\ dialogs # <<>> /\ CloseDialog
  BY DEF TabsInv, GivePassword, CancelPassword, PasswordAsked
<1>2. dialogs' \in Seq(DialogSet) /\ CloseIndex'
  BY <1>1, DialogLess
<1>3. UNCHANGED <<order, current, life, active, timer, phase, known, posted, waiting, astray, events>>
  BY DEF GivePassword, CancelPassword, tabState
<1>4. /\ sidebar' \in 0..MaxTabs /\ inbox' \in [Tabs -> Seq({"connect", "disconnect"})]
      /\ \A t \in Tabs : /\ inbox[t] # <<>> => inbox'[t] # <<>>
                         /\ Quits(inbox'[t]) => Quits(inbox[t])
  <2>1. CASE inbox' = inbox
    BY <1>1, <2>1, InstanceAssumption DEF GivePassword, CancelPassword, TypeOK
  <2>2. CASE sidebar # 0 /\ UNCHANGED sidebar /\ inbox' = [inbox EXCEPT ![sidebar] = Append(@, "connect")]
    <3> DEFINE box == Append(inbox[sidebar], "connect")
    <3>1. sidebar \in Tabs /\ inbox[sidebar] \in Seq({"connect", "disconnect"})
      BY <1>1, <2>2, InstanceAssumption DEF TypeOK, Tabs
    <3>2. /\ box \in Seq({"connect", "disconnect"}) /\ box # <<>>
          /\ Quits(box) => Quits(inbox[sidebar])
      BY <3>1, AppendCall
    <3>3. inbox' = [inbox EXCEPT ![sidebar] = box]
      BY <2>2
    <3> HIDE DEF box
    <3> QED BY <1>1, <2>2, <3>1, <3>2, <3>3 DEF TypeOK
  <2> QED BY <2>1, <2>2 DEF GivePassword, CancelPassword
<1>5. TypeOK'
  BY <1>1, <1>2, <1>3, <1>4 DEF TypeOK, DialogSet
<1>6. Fits(Desk, life)'
  <2>1. Fits(Desk', life')
    BY <1>1, <1>3, <1>4 DEF TabsInv, Fits, DeskOK, IsDesk, Desk, TypeOK
  <2> QED BY <2>1 DEF Fits
<1>7. ActiveMeansAlive'
  BY <1>1, <1>3, <1>4, AliveNow DEF TabsInv, ActiveMeansAlive
<1> QED BY <1>2, <1>3, <1>5, <1>6, <1>7 DEF TabsInv, DeletesOfClosing

LEMMA AnswerPromptSound ==
  ASSUME TabsInv, AnswerPrompt
  PROVE  TabsInv'
<1>1. TypeOK /\ CloseIndex /\ dialogs # <<>> /\ CloseDialog
  BY DEF TabsInv, AnswerPrompt
<1>2. dialogs' \in Seq(DialogSet) /\ CloseIndex' /\ Top.tab \in Tabs
  BY <1>1, DialogLess
<1>3. UNCHANGED <<order, current, sidebar, inbox, life, active, timer, posted, waiting, astray>>
  BY DEF AnswerPrompt, desk, tabState
<1>4. PICK p \in {"login", "answered", "untrusted", "unanswered"} : phase' = [phase EXCEPT ![Top.tab] = p]
  BY DEF AnswerPrompt
<1>5. phase' \in [Tabs -> Phases] /\ phase'[Top.tab] = p /\ \A t \in Tabs \ {Top.tab} : phase'[t] = phase[t]
  BY <1>1, <1>2, <1>4 DEF TypeOK, Phases
<1>6. known' \in BOOLEAN /\ events' \in 0..MaxEvents
  <2>1. events' \in 0..MaxEvents
    BY <1>1, InstanceAssumption DEF AnswerPrompt, OneMore, TypeOK
  <2>2. ASSUME known' = (known \/ Top.what = "hostkey") PROVE known' \in BOOLEAN
    BY <2>2
  <2>3. ASSUME UNCHANGED known PROVE known' \in BOOLEAN
    BY <1>1, <2>3 DEF TypeOK
  <2>4. known' = (known \/ Top.what = "hostkey") \/ UNCHANGED known
    BY DEF AnswerPrompt
  <2> QED BY <2>1, <2>2, <2>3, <2>4
<1>7. TypeOK'
  BY <1>1, <1>2, <1>3, <1>5, <1>6 DEF TypeOK, DialogSet
<1>8. ActiveMeansAlive'
  <2>1. \A t \in Tabs : phase[t] \notin {"idle", "ended"} => phase'[t] \notin {"idle", "ended"}
    BY <1>5
  <2> QED BY <1>3, <2>1, AliveNow DEF TabsInv, ActiveMeansAlive
<1> QED BY <1>2, <1>3, <1>7, <1>8 DEF TabsInv, DeletesOfClosing, Desk

-----------------------------------------------------------------------------
(* An event is taken from the queue.                                          *)
LEMMA HearStoppedSound ==
  ASSUME TabsInv, NEW i \in 1..Len(posted), HearStopped(i), UNCHANGED <<phase, known, events>>
  PROVE  TabsInv'
<1> DEFINE t == posted[i].tab
<1>1. TypeOK /\ t \in Tabs
  BY PostedTyped DEF TabsInv
<1>2. /\ posted' \in Seq(Events)
      /\ \A j \in 1..Len(posted') : \E k \in 1..Len(posted) : posted'[j] = posted[k]
      /\ \A s \in Tabs : (Stopping(s) => Stopping(s)') \/ s = t
  BY <1>1, PostedLess DEF HearStopped, TypeOK
<1>3. UNCHANGED <<order, current, inbox, life, dialogs, waiting, astray>>
  BY DEF HearStopped, gui
<1>4. /\ active' \in [Tabs -> BOOLEAN] /\ active'[t] = FALSE
      /\ \A s \in Tabs \ {t} : active'[s] = active[s]
  BY <1>1 DEF HearStopped, Stop, TypeOK
<1>5. timer' \in [Tabs -> {"none", "running", "fired"}] /\ sidebar' \in 0..MaxTabs
  BY <1>1, InstanceAssumption DEF HearStopped, Stop, TypeOK
<1> HIDE DEF t
<1>6. TypeOK'
  BY <1>1, <1>2, <1>3, <1>4, <1>5 DEF TypeOK
<1>7. Fits(Desk, life)'
  <2>1. Fits(Desk', life')
    BY <1>1, <1>3, <1>5 DEF TabsInv, Fits, DeskOK, IsDesk, Desk, TypeOK
  <2> QED BY <2>1 DEF Fits
<1>8. ActiveMeansAlive'
  <2>1. AliveOn(Desk) /\ Desk.order = order /\ Desk.inbox = inbox /\ \A k \in 1..Len(order) : order[k] \in Tabs
    BY AliveNow
  <2> QED BY <1>2, <1>3, <1>4, <2>1, StaysAlive
<1>9. DeletesOfClosing'
  BY <1>2, <1>3 DEF DeletesOfClosing, TabsInv
<1> QED BY <1>3, <1>6, <1>7, <1>8, <1>9 DEF TabsInv, CloseIndex

LEMMA HearQuestionSound ==
  ASSUME TabsInv, NEW i \in 1..Len(posted), HearQuestion(i), UNCHANGED <<phase, known, events>>
  PROVE  TabsInv'
<1> DEFINE d == Dialog(posted[i].what, posted[i].tab, 0)
<1>1. TypeOK /\ CloseIndex /\ posted[i].tab \in Tabs /\ posted[i].what \in {"password", "hostkey", "kbd"}
  BY PostedTyped DEF TabsInv, HearQuestion
<1>2. /\ posted' \in Seq(Events)
      /\ \A j \in 1..Len(posted') : \E k \in 1..Len(posted) : posted'[j] = posted[k]
      /\ \A s \in Tabs : Stopping(s) => Stopping(s)'
  BY <1>1, PostedLess DEF HearQuestion, TypeOK
<1>3. UNCHANGED <<order, current, sidebar, inbox, life, active, timer, waiting, astray>>
  BY DEF HearQuestion, desk, tabState
<1>4. d \in DialogSet /\ d.what # "close"
  BY <1>1 DEF Dialog, DialogSet
<1>5. dialogs' = Append(dialogs, d)
  BY DEF HearQuestion
<1> HIDE DEF d
<1>6. dialogs' \in Seq(DialogSet) /\ CloseIndex'
  BY <1>1, <1>4, <1>5, DialogMore
<1>7. TypeOK'
  BY <1>1, <1>2, <1>3, <1>6 DEF TypeOK, DialogSet
<1>8. ActiveMeansAlive'
  <2>1. AliveOn(Desk) /\ Desk.order = order /\ Desk.inbox = inbox /\ \A k \in 1..Len(order) : order[k] \in Tabs
    BY AliveNow
  <2> QED BY <1>2, <1>3, <2>1, StaysAlive
<1>9. DeletesOfClosing'
  BY <1>2, <1>3 DEF DeletesOfClosing, TabsInv
<1> QED BY <1>3, <1>6, <1>7, <1>8, <1>9 DEF TabsInv, Desk

LEMMA DestroySound ==
  ASSUME TabsInv, NEW i \in 1..Len(posted), Destroy(i), UNCHANGED <<phase, known, events>>
  PROVE  TabsInv'
<1> DEFINE t == posted[i].tab
           box == Append(inbox[t], "disconnect")
<1>1. TypeOK /\ t \in Tabs /\ posted[i].what = "delete" /\ life[t] = "closing"
  BY PostedTyped DEF TabsInv, Destroy, DeletesOfClosing
<1>2. /\ posted' \in Seq(Events)
      /\ \A j \in 1..Len(posted') : \E k \in 1..Len(posted) : posted'[j] = posted[k]
      /\ \A s \in Tabs : Stopping(s) => Stopping(s)'
  BY <1>1, PostedLess DEF Destroy, TypeOK
<1>3. /\ UNCHANGED <<order, current, sidebar, life, active, timer, dialogs, astray>>
      /\ inbox' = [inbox EXCEPT ![t] = box] /\ waiting' = t
  BY DEF Destroy, tabState
<1>4. box \in Seq({"connect", "disconnect"}) /\ box # <<>>
  <2>1. inbox[t] \in Seq({"connect", "disconnect"})
    BY <1>1 DEF TypeOK
  <2> QED BY <2>1, AppendProperties
<1> HIDE DEF box, t
<1>5. /\ inbox' \in [Tabs -> Seq({"connect", "disconnect"})]
      /\ inbox'[t] # <<>> /\ \A s \in Tabs \ {t} : inbox'[s] = inbox[s]
  BY <1>1, <1>3, <1>4 DEF TypeOK
<1>6. TypeOK'
  BY <1>1, <1>2, <1>3, <1>5, InstanceAssumption DEF TypeOK, Tabs
<1>7. Fits(Desk, life)'
  <2>1. Fits(Desk', life')
    BY <1>1, <1>3, <1>5 DEF TabsInv, Fits, DeskOK, IsDesk, Desk, TypeOK
  <2> QED BY <2>1 DEF Fits
<1>8. ActiveMeansAlive'
  <2>1. AliveOn(Desk) /\ Desk.order = order /\ Desk.inbox = inbox /\ \A k \in 1..Len(order) : order[k] \in Tabs
    BY AliveNow
  <2> QED BY <1>2, <1>3, <1>5, <2>1, StaysAlive
<1>9. DeletesOfClosing'
  BY <1>2, <1>3 DEF DeletesOfClosing, TabsInv
<1> QED BY <1>3, <1>6, <1>7, <1>8, <1>9 DEF TabsInv, CloseIndex

-----------------------------------------------------------------------------
(* A thread that goes on; one that stops says so.                             *)
LEMMA ThreadMoves ==
  ASSUME TabsInv, NEW t \in Tabs, NEW p \in Phases, Moves(t, p),
         NEW more \in Seq(Events), posted' = posted \o more \/ (posted' = posted /\ p \notin {"idle", "ended"}),
         \A k \in 1..Len(more) : more[k].what # "delete",
         p \in {"idle", "ended"} =>
           \E k \in 1..Len(more) : more[k].what \in {"failed", "ended"} /\ more[k].tab = t,
         ThreadSteps, events' \in 0..MaxEvents
  PROVE  TabsInv'
<1>1. TypeOK /\ UNCHANGED <<order, current, sidebar, inbox, life, active, timer, known, dialogs, waiting, astray>>
  BY DEF ThreadSteps, ThreadLeaves, tabState, TabsInv
<1>2. /\ posted' \in Seq(Events)
      /\ \A s \in Tabs : Stopping(s) => Stopping(s)'
      /\ p \in {"idle", "ended"} => Stopping(t)'
      /\ \A j \in 1..Len(posted') : posted'[j].what = "delete" =>
           \E i \in 1..Len(posted) : posted'[j] = posted[i]
  <2>1. CASE posted' = posted \o more
    <3>1. /\ posted' \in Seq(Events)
          /\ \A s \in Tabs : Stopping(s) => Stopping(s)'
          /\ \A k \in 1..Len(more) :
              more[k].what \in {"failed", "ended"} => \A s \in Tabs : more[k].tab = s => Stopping(s)'
          /\ \A j \in 1..Len(posted') : \/ \E i \in 1..Len(posted) : posted'[j] = posted[i]
                                        \/ \E k \in 1..Len(more) : posted'[j] = more[k]
      BY <1>1, <2>1, PostedMore DEF TypeOK
    <3> QED BY <3>1
  <2>2. CASE posted' = posted /\ p \notin {"idle", "ended"}
    BY <1>1, <2>2 DEF TypeOK, Stopping
  <2> QED BY <2>1, <2>2
<1>3. /\ phase' \in [Tabs -> Phases] /\ phase'[t] = p
      /\ \A s \in Tabs \ {t} : phase'[s] = phase[s]
  BY <1>1 DEF Moves, TypeOK
<1>4. TypeOK'
  BY <1>1, <1>2, <1>3 DEF TypeOK
<1>5. ActiveMeansAlive'
  <2>1. AliveOn(Desk) /\ Desk.order = order /\ Desk.inbox = inbox /\ \A k \in 1..Len(order) : order[k] \in Tabs
    BY AliveNow
  <2> QED BY <1>1, <1>2, <1>3, <2>1, StaysAlive
<1>6. DeletesOfClosing'
  BY <1>1, <1>2 DEF DeletesOfClosing, TabsInv
<1> QED BY <1>1, <1>4, <1>5, <1>6 DEF TabsInv, CloseIndex, Desk

LEMMA SignalTyped ==
  ASSUME TypeOK, NEW t \in Tabs, NEW what \in {"failed", "password", "ended", "hostkey", "kbd"}
  PROVE  /\ Signal(what, t) \in Events /\ Signal(what, t).what = what /\ Signal(what, t).tab = t
BY DEF Signal, Event, Events

LEMMA EmitOne ==
  ASSUME TabsInv, NEW t \in Tabs, NEW p \in Phases, Moves(t, p),
         NEW what \in {"failed", "password", "ended", "hostkey", "kbd"}, Emit(<<Signal(what, t)>>),
         p \in {"idle", "ended"} => what \in {"failed", "ended"},
         ThreadSteps, events' \in 0..MaxEvents
  PROVE  TabsInv'
<1> DEFINE more == <<Signal(what, t)>>
<1>1. Signal(what, t) \in Events /\ Signal(what, t).what = what /\ Signal(what, t).tab = t
  BY SignalTyped DEF TabsInv
<1>2. more \in Seq(Events) /\ Len(more) = 1 /\ more[1].what = what /\ more[1].tab = t
  BY <1>1
<1>3. posted' = posted \o more
  BY DEF Emit
<1> HIDE DEF more
<1>4. \A k \in 1..Len(more) : more[k].what # "delete"
  BY <1>2
<1>5. p \in {"idle", "ended"} =>
        \E k \in 1..Len(more) : more[k].what \in {"failed", "ended"} /\ more[k].tab = t
  BY <1>2
<1> QED BY <1>2, <1>3, <1>4, <1>5, ThreadMoves

LEMMA AuthenticationFailsSound ==
  ASSUME TabsInv, NEW t \in Tabs, AuthenticationFails(t), ThreadSteps, events' \in 0..MaxEvents
  PROVE  TabsInv'
<1>1. CASE Emit(<<Signal("failed", t)>>)
  BY <1>1, EmitOne DEF AuthenticationFails, Phases
<1>2. CASE Emit(<<Signal("failed", t), Signal("password", t)>>)
  <2> DEFINE more == <<Signal("failed", t), Signal("password", t)>>
  <2>1. /\ Signal("failed", t) \in Events /\ Signal("failed", t).what = "failed" /\ Signal("failed", t).tab = t
        /\ Signal("password", t) \in Events /\ Signal("password", t).what = "password"
    BY SignalTyped DEF TabsInv
  <2>2. /\ more \in Seq(Events) /\ Len(more) = 2
        /\ more[1].what = "failed" /\ more[1].tab = t /\ more[2].what = "password"
    BY <2>1
  <2>3. posted' = posted \o more
    BY <1>2 DEF Emit
  <2> HIDE DEF more
  <2>4. /\ \A k \in 1..Len(more) : more[k].what # "delete"
        /\ \E k \in 1..Len(more) : more[k].what \in {"failed", "ended"} /\ more[k].tab = t
    BY <2>2
  <2>5. Moves(t, "idle") /\ "idle" \in Phases
    BY DEF AuthenticationFails, Phases
  <2> QED BY <2>2, <2>3, <2>4, <2>5, ThreadMoves
<1> QED BY <1>1, <1>2 DEF AuthenticationFails

LEMMA EventsBounded ==
  ASSUME TypeOK, OneMore \/ UNCHANGED events
  PROVE  events' \in 0..MaxEvents
BY InstanceAssumption DEF TypeOK, OneMore

LEMMA ThreadSound ==
  ASSUME TabsInv, NEW t \in Tabs, Reach(t) \/ Login(t) \/ Refused(t) \/ ShellEnds(t)
  PROVE  TabsInv'
<1>1. ThreadSteps /\ events' \in 0..MaxEvents
  <2>1. ThreadSteps
    BY DEF Reach, Login, Refused, ShellEnds, ThreadSteps
  <2>2. OneMore \/ UNCHANGED events
    BY DEF Reach, Login, Refused, ShellEnds
  <2> QED BY <2>1, <2>2, EventsBounded DEF TabsInv
<1>2. ASSUME AttemptFails(t) PROVE TabsInv'
  BY <1>1, <1>2, EmitOne DEF AttemptFails, Phases
<1>3. CASE Reach(t)
  <2>1. CASE Moves(t, "hostkey") /\ Emit(<<Signal("hostkey", t)>>)
    BY <1>1, <2>1, EmitOne DEF Phases
  <2> QED BY <1>2, <1>3, <2>1 DEF Reach
<1>4. CASE Login(t)
  <2>1. CASE Moves(t, "up") /\ UNCHANGED posted
    <3>1. <<>> \in Seq(Events) /\ \A k \in 1..Len(<<>>) : FALSE
      OBVIOUS
    <3>2. "up" \in Phases /\ "up" \notin {"idle", "ended"}
      BY DEF Phases
    <3> QED BY <1>1, <2>1, <3>1, <3>2, ThreadMoves
  <2>2. CASE Moves(t, "up") /\ Emit(<<Signal("failed", t)>>)
    BY <1>1, <2>2, EmitOne DEF Phases
  <2>3. CASE AuthenticationFails(t)
    BY <1>1, <2>3, AuthenticationFailsSound
  <2>4. CASE Moves(t, "kbd") /\ Emit(<<Signal("kbd", t)>>)
    BY <1>1, <2>4, EmitOne DEF Phases
  <2> QED BY <1>4, <2>1, <2>2, <2>3, <2>4 DEF Login
<1>5. CASE Refused(t)
  BY <1>1, <1>2, <1>5, AuthenticationFailsSound DEF Refused
<1>6. CASE ShellEnds(t)
  BY <1>1, <1>6, EmitOne DEF ShellEnds, Phases
<1> QED BY <1>3, <1>4, <1>5, <1>6

LEMMA TailFacts ==
  ASSUME NEW box \in Seq({"connect", "disconnect"}), box # <<>>
  PROVE  Tail(box) \in Seq({"connect", "disconnect"}) /\ (Quits(Tail(box)) => Quits(box))
<1> DEFINE rest == Tail(box)
<1>1. /\ rest \in Seq({"connect", "disconnect"}) /\ Len(rest) = Len(box) - 1
      /\ \A k \in 1..Len(rest) : rest[k] = box[k + 1]
  BY HeadTailProperties
<1>2. Len(box) \in Nat
  OBVIOUS
<1> HIDE DEF rest
<1>3. ASSUME Quits(rest) PROVE Quits(box)
  <2>1. PICK k \in 1..Len(rest) : rest[k] = "disconnect"
    BY <1>3 DEF Quits
  <2>2. k + 1 \in 1..Len(box) /\ box[k + 1] = "disconnect"
    BY <1>1, <1>2, <2>1
  <2> QED BY <2>2 DEF Quits
<1> QED BY <1>1, <1>3 DEF rest

(* A call to connect sets the thread to work; one to disconnect is the end of *)
(* a tab that has left the window.                                            *)
LEMMA TakeCallSound ==
  ASSUME TabsInv, NEW t \in Tabs, TakeCall(t)
  PROVE  TabsInv'
<1>1. TypeOK /\ inbox[t] \in Seq({"connect", "disconnect"}) /\ inbox[t] # <<>>
  BY DEF TabsInv, TypeOK, TakeCall
<1>2. UNCHANGED <<order, current, sidebar, active, known, dialogs, astray, events>>
  BY DEF TakeCall, ThreadLeaves
<1>3. /\ AliveOn(Desk) /\ Desk.order = order /\ Desk.inbox = inbox
      /\ \A k \in 1..Len(order) : order[k] \in Tabs /\ life[order[k]] = "open"
  BY AliveNow
<1>4. CASE /\ Moves(t, "connecting")
           /\ inbox' = [inbox EXCEPT ![t] = Tail(@)]
           /\ UNCHANGED <<life, timer, waiting, posted>>
  <2> DEFINE rest == Tail(inbox[t])
  <2>1. rest \in Seq({"connect", "disconnect"}) /\ (Quits(rest) => Quits(inbox[t]))
    BY <1>1, TailFacts
  <2>2. inbox' = [inbox EXCEPT ![t] = rest]
    BY <1>4
  <2> HIDE DEF rest
  <2>3. /\ inbox' \in [Tabs -> Seq({"connect", "disconnect"})]
        /\ inbox'[t] = rest /\ \A s \in Tabs \ {t} : inbox'[s] = inbox[s]
    BY <1>1, <2>1, <2>2 DEF TypeOK
  <2>4. /\ phase' \in [Tabs -> Phases] /\ phase'[t] = "connecting"
        /\ \A s \in Tabs \ {t} : phase'[s] = phase[s]
    BY <1>1, <1>4 DEF Moves, TypeOK, Phases
  <2>5. TypeOK'
    BY <1>1, <1>2, <1>4, <2>3, <2>4 DEF TypeOK
  <2>6. Fits(Desk, life)'
    <3>1. Fits(Desk', life')
      BY <1>1, <1>2, <1>4, <2>1, <2>3 DEF TabsInv, Fits, DeskOK, IsDesk, Desk, TypeOK
    <3> QED BY <3>1 DEF Fits
  <2>7. ActiveMeansAlive'
    BY <1>2, <1>3, <1>4, <2>3, <2>4, StaysAlive DEF Stopping
  <2> QED BY <1>2, <1>4, <2>5, <2>6, <2>7 DEF TabsInv, CloseIndex, DeletesOfClosing
<1>5. CASE /\ Head(inbox[t]) = "disconnect"
           /\ Moves(t, "idle")
           /\ inbox' = [inbox EXCEPT ![t] = <<>>]
           /\ life' = [life EXCEPT ![t] = "gone"]
           /\ timer' = [timer EXCEPT ![t] = "none"]
           /\ waiting' = 0
           /\ posted' = WithoutTab(t)
  <2>1. life[t] = "closing"
    <3>1. Len(inbox[t]) \in Nat \ {0}
      BY <1>1, EmptySeq
    <3>2. 1 \in 1..Len(inbox[t]) /\ inbox[t][1] = "disconnect"
      BY <1>1, <1>5, <3>1
    <3>3. Quits(inbox[t])
      BY <3>2 DEF Quits
    <3> QED BY <1>3, <3>3 DEF TabsInv, Fits
  <2>2. /\ inbox' \in [Tabs -> Seq({"connect", "disconnect"})]
        /\ inbox'[t] = <<>> /\ \A s \in Tabs \ {t} : inbox'[s] = inbox[s]
    BY <1>1, <1>5 DEF TypeOK
  <2>3. /\ phase' \in [Tabs -> Phases]
        /\ \A s \in Tabs \ {t} : phase'[s] = phase[s]
    BY <1>1, <1>5 DEF Moves, TypeOK, Phases
  <2>4. /\ life' \in Lives /\ \A s \in Tabs \ {t} : life'[s] = life[s]
        /\ timer' \in [Tabs -> {"none", "running", "fired"}] /\ waiting' \in 0..MaxTabs
    BY <1>1, <1>5, InstanceAssumption DEF TypeOK, Lives
  <2>5. /\ posted' \in Seq(Events)
        /\ \A j \in 1..Len(posted') : \E i \in 1..Len(posted) :
             posted'[j] = posted[i] /\ Outlives(posted[i], t)
        /\ \A i \in 1..Len(posted) : Outlives(posted[i], t) =>
             \E j \in 1..Len(posted') : posted'[j] = posted[i]
    BY <1>1, <1>5, WithoutTabFacts DEF TypeOK
  <2>6. \A s \in Tabs \ {t} : Stopping(s) => Stopping(s)'
    BY <2>5 DEF Stopping, Outlives
  <2>7. TypeOK'
    BY <1>1, <1>2, <2>2, <2>3, <2>4, <2>5 DEF TypeOK, Lives
  <2>8. Fits(Desk, life)'
    <3>1. ~ Quits(<<>>)
      BY DEF Quits
    <3>2. \A k \in 1..Len(order) : order[k] \in Tabs \ {t}
      BY <1>3, <2>1
    <3>3. DeskOK(Desk')
      BY <1>1, <1>2, <2>2 DEF TabsInv, Fits, DeskOK, IsDesk, Desk, TypeOK
    <3>4. Desk'.order = order /\ Desk'.inbox = inbox'
      BY <1>2 DEF Desk
    <3>5. /\ \A i, j \in 1..Len(order) : order[i] = order[j] => i = j
          /\ \A i \in 1..Len(order) : life'[order[i]] = "open"
          /\ \A s \in Tabs : Quits(inbox'[s]) => life'[s] = "closing"
      <4>1. /\ \A i, j \in 1..Len(order) : order[i] = order[j] => i = j
            /\ \A s \in Tabs : Quits(inbox[s]) => life[s] = "closing"
        BY <1>3 DEF TabsInv, Fits
      <4>2. \A i \in 1..Len(order) : life'[order[i]] = "open"
        BY <1>3, <2>4, <3>2
      <4>3. \A s \in Tabs : Quits(inbox'[s]) => life'[s] = "closing"
        BY <2>2, <2>4, <3>1, <4>1
      <4> QED BY <4>1, <4>2, <4>3
    <3>6. Fits(Desk', life')
      BY <3>3, <3>4, <3>5 DEF Fits
    <3> QED BY <3>6 DEF Fits
  <2>9. ActiveMeansAlive'
    <3>1. \A k \in 1..Len(order) : order[k] \in Tabs \ {t}
      BY <1>3, <2>1
    <3> QED BY <1>2, <1>3, <2>2, <2>3, <2>6, <3>1, StaysAlive
  <2>10. DeletesOfClosing'
    <3> SUFFICES ASSUME NEW j \in 1..Len(posted'), posted'[j].what = "delete"
                 PROVE  life'[posted'[j].tab] = "closing"
      BY DEF DeletesOfClosing
    <3>1. PICK i \in 1..Len(posted) : posted'[j] = posted[i] /\ Outlives(posted[i], t)
      BY <2>5
    <3>2. posted[i].tab \in Tabs \ {t}
      BY <1>1, <3>1, PostedTyped DEF Outlives
    <3> QED BY <2>4, <3>1, <3>2 DEF TabsInv, DeletesOfClosing
  <2> QED BY <1>2, <2>7, <2>8, <2>9, <2>10 DEF TabsInv, CloseIndex
<1> QED BY <1>4, <1>5 DEF TakeCall

-----------------------------------------------------------------------------
(* Every step keeps what the tabs rely on.                                    *)
LEMMA TabsInductive == TabsInv /\ [Next]_vars => TabsInv'
<1> SUFFICES ASSUME TabsInv, [Next]_vars PROVE TabsInv'
  OBVIOUS
<1>1. CASE OpenSession
  BY <1>1, OpenSessionSound
<1>2. ASSUME NEW t \in 0..MaxTabs, SwitchTab(t) PROVE TabsInv'
  BY <1>2, SwitchTabSound
<1>3. ASSUME NEW i \in 1..Len(order), RequestClose(i) PROVE TabsInv'
  BY <1>3, RequestCloseSound
<1>4. ASSUME NEW t \in Tabs, RequestReconnect(t) \/ TimerFires(t) PROVE TabsInv'
  <2>1. Replace(t) /\ (OneMore \/ UNCHANGED events)
    BY <1>4 DEF RequestReconnect, TimerFires
  <2>2. timer' \in [Tabs -> {"none", "running", "fired"}]
    BY <1>4 DEF RequestReconnect, TimerFires, TabsInv, TypeOK
  <2> QED BY <2>1, <2>2, EventsBounded, ReplaceSound DEF TabsInv
<1>5. CASE AnswerClose
  BY <1>5, AnswerCloseSound
<1>6. CASE GivePassword \/ CancelPassword
  BY <1>6, PasswordSound
<1>7. CASE AnswerPrompt
  BY <1>7, AnswerPromptSound
<1>8. CASE HandleEvent
  <2>1. PICK i \in 1..Len(posted) : HearStopped(i) \/ HearQuestion(i) \/ Destroy(i)
    BY <1>8 DEF HandleEvent
  <2>2. UNCHANGED <<phase, known, events>>
    BY <1>8 DEF HandleEvent
  <2> QED BY <2>1, <2>2, HearStoppedSound, HearQuestionSound, DestroySound
<1>9. ASSUME NEW t \in Tabs, Thread(t) \/ ShellEnds(t) PROVE TabsInv'
  BY <1>9, TakeCallSound, ThreadSound DEF Thread
<1>10. CASE UNCHANGED vars
  BY <1>10 DEF vars, desk, tabState, gui, TabsInv, TypeOK, DeletesOfClosing, CloseIndex,
                ActiveMeansAlive, Desk
<1> QED
  BY <1>1, <1>2, <1>3, <1>4, <1>5, <1>6, <1>7, <1>8, <1>9, <1>10
  DEF Next, User, System, Answer

LEMMA TabsInitially == Init => TabsInv
<1> SUFFICES ASSUME Init PROVE TabsInv
  OBVIOUS
<1>1. TypeOK
  <2>1. <<>> \in Seq(Tabs) /\ <<>> \in Seq({"connect", "disconnect"}) /\ <<>> \in Seq(Events)
        /\ <<>> \in Seq(DialogSet)
    BY EmptySeq
  <2>2. 0 \in 0..MaxTabs /\ 0 \in 0..MaxEvents
    BY InstanceAssumption
  <2>3. FALSE \in BOOLEAN /\ TRUE \in BOOLEAN /\ "idle" \in Phases
    BY DEF Phases
  <2> QED BY <2>1, <2>2, <2>3 DEF Init, TypeOK, DialogSet
<1>2. Desk = [order |-> <<>>, current |-> 0, sidebar |-> 0, inbox |-> [t \in Tabs |-> <<>>]]
  BY DEF Init, Desk
<1>3. Fits(Desk, life)
  BY <1>1, <1>2 DEF Fits, DeskOK, IsDesk, TypeOK, Quits, Init
<1> QED BY <1>1, <1>3 DEF TabsInv, DeletesOfClosing, CloseIndex, ActiveMeansAlive, Init

(* A tab that shows a session as active has one, or its connection is at work *)
(* or has been asked, or the news that it stopped is on its way to it: with   *)
(* any number of tabs, any failures and prompts, and whatever the user does.  *)
THEOREM StopsAreHeard == Spec => []TabsSound
<1>1. TabsInv => TabsSound
  BY DEF TabsInv, TabsSound
<1> QED BY <1>1, TabsInitially, TabsInductive, PTL DEF Spec
=============================================================================
