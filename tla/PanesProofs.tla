----------------------------- MODULE PanesProofs -----------------------------
(***************************************************************************)
(* Every tab can be reached and synchronized input stays in sight, for any *)
(* tabs, groups, layouts and commands.                                     *)
(***************************************************************************)
EXTENDS Panes, FiniteSetTheorems, SequenceTheorems, TLAPS

AnyName == GroupNames \cup {Ungrouped, NotSaved}
AnyGroup ==
    [id : Ids, name : AnyName, saved : AnyName, default : BOOLEAN,
     panes : Seq(SUBSET Tabs), shown : SUBSET (1..MaxPanes)]

(***************************************************************************)
(* A whole group: its panes share no tab, and the hidden ones have none.   *)
(***************************************************************************)
Apart(panes) == \A p, q \in DOMAIN panes : \A t \in panes[p] : t \in panes[q] => p = q
Whole(g) ==
    /\ g \in AnyGroup
    /\ Len(g.panes) \in FirstPanes..MaxPanes
    /\ g.shown # {} /\ g.shown \subseteq DOMAIN g.panes
    /\ \A p \in DOMAIN g.panes \ g.shown : g.panes[p] = {}
    /\ Apart(g.panes)

(***************************************************************************)
(* The groups gs hold the tabs ts, each in one of them, and are told apart *)
(* by their ids.  A detached tab is collected by its id's group, so two of *)
(* one id would both collect it.                                           *)
(***************************************************************************)
Spread(gs, ts) ==
    /\ gs \in Seq(AnyGroup) /\ Len(gs) \in 1..MaxGroups
    /\ \A i \in DOMAIN gs : Whole(gs[i]) /\ TabsOf(gs[i]) \subseteq ts
    /\ \A i, j \in DOMAIN gs : gs[i].id = gs[j].id => i = j
    /\ \A i, j \in DOMAIN gs : \A t \in TabsOf(gs[i]) : t \in TabsOf(gs[j]) => i = j
    /\ \A t \in ts : \E i \in DOMAIN gs : t \in TabsOf(gs[i])

(***************************************************************************)
(* A saved group can be opened: it shows a pane, and not more than fit.    *)
(***************************************************************************)
CanOpen(defs) == \A name \in DOMAIN defs : defs[name].shown \in (SUBSET (1..MaxPanes)) \ {{}}

PanesInv ==
    /\ here \in DOMAIN groups
    /\ Spread(groups, open \ detached)
    /\ detached \subseteq open /\ open \subseteq Tabs
    /\ alive \in [Tabs -> BOOLEAN]
    /\ CanOpen(saved)
    /\ SyncInSight

-----------------------------------------------------------------------------
\* Induction over the numbers, for a set instead of a predicate: of the
\* intervals that end at a number missed, one is the smallest.
LEMMA Induction ==
    ASSUME NEW S, 0 \in S, \A n \in Nat : n \in S => n + 1 \in S
    PROVE  Nat \subseteq S
<1> DEFINE missed == {n \in Nat : n \notin S}
           tails == {1..n : n \in missed}
<1> SUFFICES ASSUME NEW k \in Nat, k \notin S PROVE FALSE
  OBVIOUS
<1>1. tails \subseteq FiniteSubsetsOf(Nat)
  <2> SUFFICES ASSUME NEW n \in missed PROVE 1..n \in FiniteSubsetsOf(Nat)
    OBVIOUS
  <2> QED  BY FS_Interval DEF FiniteSubsetsOf
<1>2. tails # {}  OBVIOUS
<1>3. PICK x \in tails : \A y \in tails : ~ (<<y, x>> \in StrictSubsetOrdering(Nat))
  <2>1. IsWellFoundedOn(StrictSubsetOrdering(Nat), FiniteSubsetsOf(Nat))
    BY FS_StrictSubsetOrderingWellFounded
  <2> HIDE DEF tails
  <2> QED  BY <1>1, <1>2, <2>1, WFMin
<1>4. PICK n \in missed : x = 1..n  OBVIOUS
<1>5. n # 0 /\ n - 1 \in Nat  BY <1>4
<1>6. 1..(n - 1) \in tails  BY <1>5
<1>7. <<1..(n - 1), 1..n>> \in StrictSubsetOrdering(Nat)
  <2> DEFINE a == 1..(n - 1)
             b == 1..n
  <2>1. a \in SUBSET Nat /\ b \in SUBSET Nat /\ a \subseteq b /\ n \in b /\ n \notin a
    BY <1>5
  <2> HIDE DEF a, b
  <2>2. <<a, b>> \in StrictSubsetOrdering(Nat)  BY <2>1 DEF StrictSubsetOrdering
  <2> QED  BY <2>2 DEF a, b
<1> QED  BY <1>3, <1>4, <1>6, <1>7

\* Numbers have a first, and bounded ones a last.
LEMMA LeastOf ==
    ASSUME NEW S, S \subseteq Nat, S # {}
    PROVE  \E n \in S : \A m \in S : n <= m
<1> DEFINE Least(n) == \A m \in S : n <= m
           T == {n \in Nat : (\E k \in S : Least(k)) \/ (\A m \in S : n < m)}
<1> SUFFICES ASSUME ~ \E k \in S : Least(k) PROVE FALSE
  OBVIOUS
<1>1. 0 \in T
  <2>1. 0 \notin S  BY DEF Least
  <2> QED  BY <2>1
<1>2. ASSUME NEW n \in Nat, n \in T PROVE n + 1 \in T
  <2>1. \A m \in S : n + 1 <= m  BY <1>2
  <2>2. n + 1 \notin S  BY <2>1
  <2>3. \A m \in S : n + 1 < m  BY <2>1, <2>2
  <2> QED  BY <2>3
<1>3. Nat \subseteq T
  <2> HIDE DEF T
  <2> QED  BY <1>1, <1>2, Induction
<1>4. PICK k \in S : TRUE  OBVIOUS
<1>5. k \in Nat /\ \A m \in S : k < m  BY <1>3, <1>4
<1> QED  BY <1>4, <1>5

LEMMA GreatestOf ==
    ASSUME NEW n \in Nat, NEW S, S \subseteq 1..n, S # {}
    PROVE  \E k \in S : \A m \in S : m <= k
<1> DEFINE R == {n - k : k \in S}
<1>1. R \subseteq Nat /\ R # {}
  <2>1. \A k \in S : k \in Nat /\ n - k \in Nat  OBVIOUS
  <2> QED  BY <2>1
<1>2. PICK r \in R : \A m \in R : r <= m
  <2> HIDE DEF R
  <2> QED  BY <1>1, LeastOf
<1>3. PICK k \in S : r = n - k  OBVIOUS
<1>4. \A m \in S : n - m \in R  OBVIOUS
<1>5. \A m \in S : n - k <= n - m  BY <1>2, <1>3, <1>4
<1> QED  BY <1>5

LEMMA CountTo ==
    ASSUME NEW n \in Nat
    PROVE  IsFiniteSet(1..n) /\ Cardinality(1..n) = n
<1>1. IsFiniteSet(1..n) /\ Cardinality(1..n) = IF 1 > n THEN 0 ELSE n - 1 + 1
  BY FS_Interval
<1> QED  BY <1>1

LEMMA FirstIsOne ==
    ASSUME NEW S, S \subseteq Nat, S # {}
    PROVE  First(S) \in S
<1>1. \E n \in S : \A m \in S : n <= m  BY LeastOf
<1> QED  BY <1>1 DEF First

-----------------------------------------------------------------------------
\* What the commands do to one group.
LEMMA TabsOfGroup ==
    ASSUME NEW g, NEW t
    PROVE  t \in TabsOf(g) <=> \E p \in DOMAIN g.panes : t \in g.panes[p]
BY DEF TabsOf, Range

\* A group whose layout becomes panes and shown.
Laid(g, panes, shown) == [g EXCEPT !.panes = panes, !.shown = shown]

LEMMA LaidWhole ==
    ASSUME NEW g \in AnyGroup, NEW panes \in Seq(SUBSET Tabs), NEW shown \in SUBSET (1..MaxPanes),
           Len(panes) \in FirstPanes..MaxPanes, shown # {}, shown \subseteq DOMAIN panes,
           \A p \in DOMAIN panes \ shown : panes[p] = {}, Apart(panes)
    PROVE  /\ Whole(Laid(g, panes, shown))
           /\ Laid(g, panes, shown).id = g.id
           /\ Laid(g, panes, shown).panes = panes
           /\ Laid(g, panes, shown).shown = shown
<1> DEFINE h == Laid(g, panes, shown)
<1>1. h \in AnyGroup  BY DEF Laid, AnyGroup
<1>2. h.panes = panes /\ h.shown = shown /\ h.id = g.id  BY DEF Laid, AnyGroup
<1> HIDE DEF h
<1>3. Whole(h)  BY <1>1, <1>2 DEF Whole
<1> QED  BY <1>2, <1>3 DEF h

\* The tabs ts go to pane p.
MovedPanes(panes, ts, p) ==
    [q \in DOMAIN panes |-> IF q = p THEN panes[q] \cup ts ELSE panes[q] \ ts]

LEMMA MovedPanesFacts ==
    ASSUME NEW panes \in Seq(SUBSET Tabs), NEW ts \in SUBSET Tabs, NEW p \in DOMAIN panes, Apart(panes)
    PROVE  /\ MovedPanes(panes, ts, p) \in Seq(SUBSET Tabs)
           /\ Len(MovedPanes(panes, ts, p)) = Len(panes)
           /\ DOMAIN MovedPanes(panes, ts, p) = DOMAIN panes
           /\ Apart(MovedPanes(panes, ts, p))
<1> DEFINE m == MovedPanes(panes, ts, p)
<1>1. DOMAIN panes = 1..Len(panes) /\ Len(panes) \in Nat  OBVIOUS
<1>2. m \in [1..Len(panes) -> SUBSET Tabs]  BY <1>1 DEF MovedPanes
<1>3. m \in Seq(SUBSET Tabs) /\ Len(m) = Len(panes)
  <2> HIDE DEF m
  <2> QED  BY <1>1, <1>2
<1>4. Apart(m)  BY DEF Apart, MovedPanes
<1> QED  BY <1>1, <1>2, <1>3, <1>4

LEMMA MovedIsLaid ==
    ASSUME NEW g \in AnyGroup, NEW ts, NEW p
    PROVE  Moved(g, ts, p) = Laid(g, MovedPanes(g.panes, ts, p), g.shown)
BY DEF Moved, Laid, MovedPanes, AnyGroup

LEMMA MovedTabs ==
    ASSUME NEW g, Whole(g), NEW ts \in SUBSET Tabs, NEW p \in DOMAIN g.panes,
           NEW shown \in SUBSET (1..MaxPanes)
    PROVE  TabsOf(Laid(g, MovedPanes(g.panes, ts, p), shown)) = TabsOf(g) \cup ts
<1> DEFINE m == MovedPanes(g.panes, ts, p)
           h == Laid(g, m, shown)
<1>1. g \in AnyGroup /\ g.panes \in Seq(SUBSET Tabs)  BY DEF Whole, AnyGroup
<1>2. DOMAIN m = DOMAIN g.panes
      /\ \A q \in DOMAIN m : m[q] = IF q = p THEN g.panes[q] \cup ts ELSE g.panes[q] \ ts
  BY DEF MovedPanes
<1>3. h.panes = m
  <2> HIDE DEF m
  <2> QED  BY <1>1 DEF Laid, AnyGroup
<1> HIDE DEF m, h
<1>4. \A t : t \in TabsOf(h) <=> \E q \in DOMAIN m : t \in m[q]  BY <1>3, TabsOfGroup
<1>5. \A t : t \in TabsOf(g) <=> \E q \in DOMAIN g.panes : t \in g.panes[q]  BY TabsOfGroup
<1>6. \A t : (\E q \in DOMAIN m : t \in m[q]) <=> t \in ts \/ \E q \in DOMAIN g.panes : t \in g.panes[q]
  BY <1>2
<1>7. TabsOf(h) = TabsOf(g) \cup ts  BY <1>4, <1>5, <1>6
<1> QED  BY <1>7 DEF h, m

\* Tabs go to a pane that is shown.
LEMMA MovedWhole ==
    ASSUME NEW g, Whole(g), NEW ts \in SUBSET Tabs, NEW p \in g.shown
    PROVE  /\ Whole(Moved(g, ts, p))
           /\ Moved(g, ts, p).id = g.id
           /\ Moved(g, ts, p).shown = g.shown
           /\ TabsOf(Moved(g, ts, p)) = TabsOf(g) \cup ts
<1> DEFINE m == MovedPanes(g.panes, ts, p)
<1>1. g \in AnyGroup /\ g.panes \in Seq(SUBSET Tabs) /\ g.shown \in SUBSET (1..MaxPanes)
  BY DEF Whole, AnyGroup
<1>2. p \in DOMAIN g.panes /\ Apart(g.panes)  BY DEF Whole
<1>3. m \in Seq(SUBSET Tabs) /\ Len(m) = Len(g.panes) /\ DOMAIN m = DOMAIN g.panes /\ Apart(m)
  BY <1>1, <1>2, MovedPanesFacts
<1>4. \A q \in DOMAIN m \ g.shown : m[q] = {}  BY DEF MovedPanes, Whole
<1>5. Len(m) \in FirstPanes..MaxPanes /\ g.shown # {} /\ g.shown \subseteq DOMAIN m
  BY <1>3 DEF Whole
<1>6. Moved(g, ts, p) = Laid(g, m, g.shown)  BY <1>1, MovedIsLaid
<1>7. TabsOf(Laid(g, m, g.shown)) = TabsOf(g) \cup ts  BY <1>1, <1>2, MovedTabs
<1> HIDE DEF m
<1> QED  BY <1>1, <1>3, <1>4, <1>5, <1>6, <1>7, LaidWhole

\* Tabs leave a group.
LEMMA WithoutWhole ==
    ASSUME NEW g, Whole(g), NEW ts
    PROVE  /\ Whole(Without(g, ts))
           /\ Without(g, ts).id = g.id
           /\ Without(g, ts).shown = g.shown
           /\ TabsOf(Without(g, ts)) = TabsOf(g) \ ts
<1> DEFINE m == [q \in DOMAIN g.panes |-> g.panes[q] \ ts]
<1>1. g \in AnyGroup /\ g.panes \in Seq(SUBSET Tabs) /\ g.shown \in SUBSET (1..MaxPanes)
  BY DEF Whole, AnyGroup
<1>2. DOMAIN g.panes = 1..Len(g.panes) /\ Len(g.panes) \in Nat  BY <1>1
<1>3. m \in [1..Len(g.panes) -> SUBSET Tabs]  BY <1>1, <1>2
<1>4. m \in Seq(SUBSET Tabs) /\ Len(m) = Len(g.panes) /\ DOMAIN m = DOMAIN g.panes
  <2> HIDE DEF m
  <2> QED  BY <1>2, <1>3
<1>5. Apart(m)  BY DEF Apart, Whole
<1>6. \A q \in DOMAIN m \ g.shown : m[q] = {}  BY DEF Whole
<1>7. Len(m) \in FirstPanes..MaxPanes /\ g.shown # {} /\ g.shown \subseteq DOMAIN m
  BY <1>4 DEF Whole
<1>8. \A t : (\E q \in DOMAIN m : t \in m[q]) <=> t \notin ts /\ \E q \in DOMAIN g.panes : t \in g.panes[q]
  OBVIOUS
<1>9. Without(g, ts) = Laid(g, m, g.shown)  BY <1>1 DEF Without, Laid, AnyGroup
<1> HIDE DEF m
<1>10. /\ Whole(Laid(g, m, g.shown)) /\ Laid(g, m, g.shown).id = g.id
       /\ Laid(g, m, g.shown).shown = g.shown /\ Laid(g, m, g.shown).panes = m
  BY <1>1, <1>4, <1>5, <1>6, <1>7, LaidWhole
<1>11. TabsOf(Laid(g, m, g.shown)) = TabsOf(g) \ ts
  BY <1>8, <1>10, TabsOfGroup
<1> QED  BY <1>9, <1>10, <1>11

\* One pane or two are kept: the first takes what the hidden ones have.
LEMMA FewWhole ==
    ASSUME NEW g, Whole(g), NEW n \in {1, 2}
    PROVE  /\ Whole(FewPanes(g, n))
           /\ FewPanes(g, n).id = g.id
           /\ FewPanes(g, n).shown = 1..n
           /\ TabsOf(FewPanes(g, n)) = TabsOf(g)
<1> DEFINE hidden == {p \in DOMAIN g.panes : p > n}
           ts == UNION {g.panes[p] : p \in hidden}
           m == MovedPanes(g.panes, ts, 1)
<1>1. g \in AnyGroup /\ g.panes \in Seq(SUBSET Tabs) /\ g.shown \in SUBSET (1..MaxPanes)
  BY DEF Whole, AnyGroup
<1>2. DOMAIN g.panes = 1..Len(g.panes) /\ Len(g.panes) \in Nat /\ Len(g.panes) >= 2 /\ MaxPanes >= 2
  BY <1>1, PanesAssumption DEF Whole
<1>3. ts \in SUBSET Tabs
  <2>1. \A p \in hidden : g.panes[p] \in SUBSET Tabs  BY <1>1, <1>2
  <2> QED  BY <2>1
<1>4. 1 \in DOMAIN g.panes /\ Apart(g.panes)  BY <1>2 DEF Whole
<1>5. m \in Seq(SUBSET Tabs) /\ Len(m) = Len(g.panes) /\ DOMAIN m = DOMAIN g.panes /\ Apart(m)
  <2> HIDE DEF ts
  <2> QED  BY <1>1, <1>3, <1>4, MovedPanesFacts
<1>6. \A q \in DOMAIN m \ (1..n) : m[q] = {}
  <2> SUFFICES ASSUME NEW q \in DOMAIN g.panes, q \notin 1..n PROVE m[q] = {}
    BY <1>5
  <2>1. q > n /\ q # 1  BY <1>2
  <2>2. q \in hidden  BY <2>1
  <2>3. g.panes[q] \subseteq ts  BY <2>2
  <2>4. m[q] = g.panes[q] \ ts
    <3> HIDE DEF ts
    <3> QED  BY <2>1 DEF MovedPanes
  <2> QED  BY <2>3, <2>4
<1>7. FewPanes(g, n) = Laid(g, m, 1..n)
  <2>1. Moved(g, ts, 1) = Laid(g, m, g.shown)
    <3> HIDE DEF ts
    <3> QED  BY <1>1, MovedIsLaid
  <2>2. [Laid(g, m, g.shown) EXCEPT !.shown = 1..n] = Laid(g, m, 1..n)
    <3> HIDE DEF m
    <3> QED  BY <1>1 DEF Laid, AnyGroup
  <2>3. FewPanes(g, n) = [Moved(g, ts, 1) EXCEPT !.shown = 1..n]  BY DEF FewPanes
  <2> QED  BY <2>1, <2>2, <2>3
<1>8. TabsOf(Laid(g, m, 1..n)) = TabsOf(g) \cup ts
  <2>1. 1..n \in SUBSET (1..MaxPanes)
    <3>1. n \in Int /\ n <= MaxPanes /\ MaxPanes \in Int  BY <1>2, PanesAssumption
    <3> QED  BY <3>1
  <2> HIDE DEF ts
  <2> QED  BY <1>3, <1>4, <2>1, MovedTabs
<1>9. ts \subseteq TabsOf(g)  BY TabsOfGroup
<1>10. /\ 1..n \in SUBSET (1..MaxPanes) /\ 1..n # {} /\ 1..n \subseteq DOMAIN m
       /\ Len(m) \in FirstPanes..MaxPanes
  <2> HIDE DEF m
  <2>1. n \in Int /\ 1 <= n /\ n <= MaxPanes /\ n <= Len(g.panes) /\ MaxPanes \in Int
    BY <1>2, PanesAssumption
  <2>2. Len(m) \in FirstPanes..MaxPanes  BY <1>5 DEF Whole
  <2> QED  BY <1>2, <1>5, <2>1, <2>2
<1> HIDE DEF m, ts
<1> DEFINE shown == 1..n
<1>11. Whole(Laid(g, m, shown)) /\ Laid(g, m, shown).id = g.id /\ Laid(g, m, shown).shown = shown
  <2> HIDE DEF shown
  <2>1. /\ shown \in SUBSET (1..MaxPanes) /\ shown # {} /\ shown \subseteq DOMAIN m
        /\ \A q \in DOMAIN m \ shown : m[q] = {}
    BY <1>6, <1>10 DEF shown
  <2> QED  BY <1>1, <1>5, <1>10, <2>1, LaidWhole
<1> QED  BY <1>7, <1>8, <1>9, <1>11

-----------------------------------------------------------------------------
\* What the commands do to the groups gs that hold ts.
LEMMA SpreadAt ==
    ASSUME NEW gs, NEW ts, Spread(gs, ts), NEW i \in DOMAIN gs
    PROVE  /\ DOMAIN gs = 1..Len(gs) /\ Len(gs) \in Nat
           /\ Whole(gs[i]) /\ TabsOf(gs[i]) \subseteq ts
BY DEF Spread

\* Group i becomes g, which takes no tab of another.
LEMMA Swapped ==
    ASSUME NEW gs, NEW ts, Spread(gs, ts), NEW i \in DOMAIN gs,
           NEW g, Whole(g), g.id = gs[i].id, \A t \in TabsOf(g) : t \in ts => t \in TabsOf(gs[i])
    PROVE  Spread([gs EXCEPT ![i] = g], (ts \ TabsOf(gs[i])) \cup TabsOf(g))
<1> DEFINE hs == [gs EXCEPT ![i] = g]
           us == (ts \ TabsOf(gs[i])) \cup TabsOf(g)
<1>1. gs \in Seq(AnyGroup) /\ DOMAIN gs = 1..Len(gs) /\ Len(gs) \in Nat  BY DEF Spread
<1>2. g \in AnyGroup  BY DEF Whole
<1>3. hs \in Seq(AnyGroup) /\ Len(hs) = Len(gs) /\ DOMAIN hs = DOMAIN gs  BY <1>1, <1>2
<1>4. \A j \in DOMAIN hs : hs[j] = IF j = i THEN g ELSE gs[j]  OBVIOUS
<1> HIDE DEF hs
<1>5. \A j \in DOMAIN hs : Whole(hs[j]) /\ TabsOf(hs[j]) \subseteq us
  <2> SUFFICES ASSUME NEW j \in DOMAIN gs PROVE Whole(hs[j]) /\ TabsOf(hs[j]) \subseteq us
    BY <1>3
  <2>1. CASE j = i  BY <1>3, <1>4, <2>1
  <2>2. CASE j # i
    <3>1. hs[j] = gs[j]  BY <1>3, <1>4, <2>2
    <3>2. TabsOf(gs[j]) \subseteq ts /\ \A t \in TabsOf(gs[j]) : t \notin TabsOf(gs[i])
      BY <2>2 DEF Spread
    <3>3. Whole(gs[j])  BY DEF Spread
    <3> QED  BY <3>1, <3>2, <3>3
  <2> QED  BY <2>1, <2>2
<1>6. \A j, k \in DOMAIN hs : hs[j].id = hs[k].id => j = k
  BY <1>3, <1>4 DEF Spread
<1>7. \A j, k \in DOMAIN hs : \A t \in TabsOf(hs[j]) : t \in TabsOf(hs[k]) => j = k
  <2>1. \A j \in DOMAIN gs : j # i => \A t \in TabsOf(gs[j]) : t \notin TabsOf(g)
    BY DEF Spread
  <2>2. \A j, k \in DOMAIN gs : \A t \in TabsOf(gs[j]) : t \in TabsOf(gs[k]) => j = k
    BY DEF Spread
  <2> QED  BY <1>3, <1>4, <2>1, <2>2
<1>8. \A t \in us : \E j \in DOMAIN hs : t \in TabsOf(hs[j])
  <2> SUFFICES ASSUME NEW t \in us PROVE \E j \in DOMAIN hs : t \in TabsOf(hs[j])
    OBVIOUS
  <2>1. CASE t \in TabsOf(g)  BY <1>3, <1>4, <2>1
  <2>2. CASE t \notin TabsOf(g)
    <3>1. t \in ts /\ t \notin TabsOf(gs[i])  BY <2>2
    <3>2. PICK j \in DOMAIN gs : t \in TabsOf(gs[j])  BY <3>1 DEF Spread
    <3> QED  BY <1>3, <1>4, <3>1, <3>2
  <2> QED  BY <2>1, <2>2
<1>9. Len(hs) \in 1..MaxGroups  BY <1>3 DEF Spread
<1> HIDE DEF us
<1>10. Spread(hs, us)  BY <1>3, <1>5, <1>6, <1>7, <1>8, <1>9 DEF Spread
<1> QED  BY <1>10 DEF hs, us

\* All groups change and keep their ids, each has a part of the tabs.
LEMMA Changed ==
    ASSUME NEW gs, NEW ts, Spread(gs, ts), NEW hs, NEW us,
           hs = [i \in DOMAIN gs |-> hs[i]],
           \A i \in DOMAIN gs : Whole(hs[i]) /\ hs[i].id = gs[i].id /\ TabsOf(hs[i]) \subseteq us,
           \A i, j \in DOMAIN gs : \A t \in TabsOf(hs[i]) : t \in TabsOf(hs[j]) => i = j,
           \A t \in us : \E i \in DOMAIN gs : t \in TabsOf(hs[i])
    PROVE  Spread(hs, us)
<1>1. DOMAIN gs = 1..Len(gs) /\ Len(gs) \in Nat /\ Len(gs) \in 1..MaxGroups  BY DEF Spread
<1>2. DOMAIN hs = 1..Len(gs)  BY <1>1
<1>3. \A i \in 1..Len(gs) : hs[i] \in AnyGroup  BY <1>1 DEF Whole
<1>4. hs \in [1..Len(gs) -> AnyGroup]  BY <1>1, <1>3
<1>5. hs \in Seq(AnyGroup) /\ Len(hs) = Len(gs)  BY <1>1, <1>4
<1>6. \A i, j \in DOMAIN hs : hs[i].id = hs[j].id => i = j  BY <1>1, <1>2 DEF Spread
<1> QED  BY <1>1, <1>2, <1>5, <1>6 DEF Spread

\* Tabs leave all groups.
LEMMA Cleared ==
    ASSUME NEW gs, NEW ts, Spread(gs, ts), NEW us
    PROVE  Spread([i \in DOMAIN gs |-> Without(gs[i], us)], ts \ us)
<1> DEFINE hs == [i \in DOMAIN gs |-> Without(gs[i], us)]
<1>1. \A i \in DOMAIN gs : /\ hs[i] = Without(gs[i], us)
                           /\ Whole(hs[i]) /\ hs[i].id = gs[i].id
                           /\ TabsOf(hs[i]) = TabsOf(gs[i]) \ us
  <2> SUFFICES ASSUME NEW i \in DOMAIN gs
               PROVE  /\ Whole(Without(gs[i], us)) /\ Without(gs[i], us).id = gs[i].id
                      /\ TabsOf(Without(gs[i], us)) = TabsOf(gs[i]) \ us
    OBVIOUS
  <2>1. Whole(gs[i])  BY DEF Spread
  <2> QED  BY <2>1, WithoutWhole
<1>2. hs = [i \in DOMAIN gs |-> hs[i]]  OBVIOUS
<1> HIDE DEF hs
<1>3. \A i \in DOMAIN gs : TabsOf(hs[i]) \subseteq ts \ us  BY <1>1 DEF Spread
<1>4. \A i, j \in DOMAIN gs : \A t \in TabsOf(hs[i]) : t \in TabsOf(hs[j]) => i = j
  BY <1>1 DEF Spread
<1>5. \A t \in ts \ us : \E i \in DOMAIN gs : t \in TabsOf(hs[i])  BY <1>1 DEF Spread
<1>6. Spread(hs, ts \ us)  BY <1>1, <1>2, <1>3, <1>4, <1>5, Changed
<1> QED  BY <1>6 DEF hs

\* A group is added.
LEMMA Added ==
    ASSUME NEW gs, NEW ts, Spread(gs, ts), Len(gs) < MaxGroups,
           NEW g, Whole(g), \A i \in DOMAIN gs : g.id # gs[i].id, TabsOf(g) \cap ts = {}
    PROVE  Spread(Append(gs, g), ts \cup TabsOf(g))
<1> DEFINE hs == Append(gs, g)
           n == Len(gs) + 1
<1>1. gs \in Seq(AnyGroup) /\ DOMAIN gs = 1..Len(gs) /\ Len(gs) \in Nat  BY DEF Spread
<1>2. g \in AnyGroup  BY DEF Whole
<1>3. hs \in Seq(AnyGroup) /\ Len(hs) = n /\ DOMAIN hs = 1..n  BY <1>1, <1>2
<1>4. \A j \in 1..n : hs[j] = IF j = n THEN g ELSE gs[j]  BY <1>1
<1>5. \A j \in 1..n : j = n \/ j \in DOMAIN gs  BY <1>1
<1>6. n \in 1..MaxGroups  BY <1>1, PanesAssumption
<1>11. n \in 1..n /\ n \notin DOMAIN gs /\ \A j \in DOMAIN gs : j \in 1..n  BY <1>1
<1> HIDE DEF hs, n
<1>7. \A j \in DOMAIN hs : Whole(hs[j]) /\ TabsOf(hs[j]) \subseteq ts \cup TabsOf(g)
  BY <1>3, <1>4, <1>5 DEF Spread
<1>8. \A j, k \in DOMAIN hs : hs[j].id = hs[k].id => j = k
  BY <1>3, <1>4, <1>5 DEF Spread
<1>9. \A j, k \in DOMAIN hs : \A t \in TabsOf(hs[j]) : t \in TabsOf(hs[k]) => j = k
  <2>1. \A j \in DOMAIN gs : \A t \in TabsOf(gs[j]) : t \notin TabsOf(g)  BY DEF Spread
  <2>2. \A j, k \in DOMAIN gs : \A t \in TabsOf(gs[j]) : t \in TabsOf(gs[k]) => j = k
    BY DEF Spread
  <2> QED  BY <1>3, <1>4, <1>5, <2>1, <2>2
<1>10. \A t \in ts \cup TabsOf(g) : \E j \in DOMAIN hs : t \in TabsOf(hs[j])
  <2> SUFFICES ASSUME NEW t \in ts \cup TabsOf(g) PROVE \E j \in DOMAIN hs : t \in TabsOf(hs[j])
    OBVIOUS
  <2>1. CASE t \in TabsOf(g)  BY <1>3, <1>4, <1>11, <2>1
  <2>2. CASE t \in ts
    <3>1. PICK j \in DOMAIN gs : t \in TabsOf(gs[j])  BY <2>2 DEF Spread
    <3> QED  BY <1>3, <1>4, <1>11, <3>1
  <2> QED  BY <2>1, <2>2
<1>12. Spread(hs, ts \cup TabsOf(g))  BY <1>3, <1>6, <1>7, <1>8, <1>9, <1>10 DEF Spread
<1> QED  BY <1>12 DEF hs

\* A group goes.
LEMMA Dropped ==
    ASSUME NEW gs, NEW ts, Spread(gs, ts), Len(gs) > 1, NEW i \in DOMAIN gs
    PROVE  /\ Spread(RemoveAt(gs, i), ts \ TabsOf(gs[i]))
           /\ DOMAIN RemoveAt(gs, i) = 1..(Len(gs) - 1)
           /\ \A j \in 1..(Len(gs) - 1) : RemoveAt(gs, i)[j] = gs[IF j < i THEN j ELSE j + 1]
<1> DEFINE hs == RemoveAt(gs, i)
           n == Len(gs) - 1
<1>1. gs \in Seq(AnyGroup) /\ DOMAIN gs = 1..Len(gs) /\ Len(gs) \in Nat /\ i \in 1..Len(gs)
  BY DEF Spread
<1>2. hs \in Seq(AnyGroup) /\ Len(hs) = n /\ DOMAIN hs = 1..n
      /\ \A j \in 1..n : hs[j] = gs[IF j < i THEN j ELSE j + 1]
  <2> DEFINE a == SubSeq(gs, 1, i - 1)
             b == SubSeq(gs, i + 1, Len(gs))
  <2>1. a \in Seq(AnyGroup) /\ Len(a) = i - 1 /\ \A j \in 1..(i - 1) : a[j] = gs[j]
    BY <1>1
  <2>2. b \in Seq(AnyGroup) /\ Len(b) = Len(gs) - i /\ \A j \in 1..(Len(gs) - i) : b[j] = gs[i + j]
    <3>1. b \in Seq(AnyGroup)  BY <1>1
    <3>2. Len(b) = Len(gs) - i  BY <1>1
    <3>3. ASSUME NEW j \in 1..(Len(gs) - i) PROVE b[j] = gs[i + j]
      <4>1. b[j] = gs[(i + 1) + j - 1]  BY <1>1
      <4>2. (i + 1) + j - 1 = i + j  BY <1>1
      <4> QED  BY <4>1, <4>2
    <3> QED  BY <3>1, <3>2, <3>3
  <2>3. hs = a \o b  BY DEF RemoveAt
  <2> HIDE DEF a, b
  <2>4. /\ a \o b \in Seq(AnyGroup) /\ Len(a \o b) = n /\ DOMAIN (a \o b) = 1..n
        /\ \A j \in 1..n : (a \o b)[j] = IF j < i THEN a[j] ELSE b[j - (i - 1)]
    <3>1. a \o b \in Seq(AnyGroup)  BY <2>1, <2>2
    <3>2. Len(a \o b) = n
      <4>1. Len(a \o b) = Len(a) + Len(b)  BY <2>1, <2>2
      <4> QED  BY ONLY <1>1, <2>1, <2>2, <4>1
    <3>3. DOMAIN (a \o b) = 1..n
      <4>1. DOMAIN (a \o b) = 1..Len(a \o b)  BY <3>1
      <4> QED  BY <3>2, <4>1
    <3>4. ASSUME NEW j \in 1..n PROVE (a \o b)[j] = IF j < i THEN a[j] ELSE b[j - (i - 1)]
      <4>1. j \in 1..(Len(a) + Len(b))  BY <1>1, <2>1, <2>2
      <4>2. (a \o b)[j] = IF j <= Len(a) THEN a[j] ELSE b[j - Len(a)]
        BY <2>1, <2>2, <4>1
      <4>3. j <= Len(a) <=> j < i  BY <1>1, <2>1
      <4> QED  BY <2>1, <4>2, <4>3
    <3> QED  BY <3>1, <3>2, <3>3, <3>4
  <2>5. ASSUME NEW j \in 1..n PROVE (a \o b)[j] = gs[IF j < i THEN j ELSE j + 1]
    <3>1. CASE j < i
      <4>1. j \in 1..(i - 1)  BY <1>1, <3>1
      <4> QED  BY <2>1, <2>4, <3>1, <4>1
    <3>2. CASE ~ (j < i)
      <4>1. j - (i - 1) \in 1..(Len(gs) - i) /\ i + (j - (i - 1)) = j + 1  BY <1>1, <3>2
      <4>2. (a \o b)[j] = b[j - (i - 1)]  BY <2>4, <3>2
      <4>3. b[j - (i - 1)] = gs[i + (j - (i - 1))]  BY <2>2, <4>1
      <4> QED  BY <3>2, <4>1, <4>2, <4>3
    <3> QED  BY <3>1, <3>2
  <2> QED  BY <2>3, <2>4, <2>5
<1> DEFINE From(j) == IF j < i THEN j ELSE j + 1
<1>3. \A j \in 1..n : From(j) \in DOMAIN gs /\ From(j) # i  BY <1>1
<1>4. \A j, k \in 1..n : From(j) = From(k) => j = k  BY <1>1
<1>5. \A k \in DOMAIN gs : k # i => \E j \in 1..n : From(j) = k
  <2> SUFFICES ASSUME NEW k \in DOMAIN gs, k # i PROVE \E j \in 1..n : From(j) = k
    OBVIOUS
  <2>1. CASE k < i
    <3>1. k \in 1..n /\ From(k) = k  BY <1>1, <2>1
    <3> QED  BY <3>1
  <2>2. CASE k > i
    <3>1. k - 1 \in 1..n /\ From(k - 1) = k  BY <1>1, <2>2
    <3> QED  BY <3>1
  <2> QED  BY <1>1, <2>1, <2>2
<1>6. n \in 1..MaxGroups
  <2>1. Len(gs) \in 1..MaxGroups  BY DEF Spread
  <2> QED  BY <2>1, PanesAssumption
<1>7. \A j \in 1..n : hs[j] = gs[From(j)]  BY <1>2
<1>20. hs \in Seq(AnyGroup) /\ Len(hs) = n /\ DOMAIN hs = 1..n  BY <1>2
<1> HIDE DEF From, hs, n
<1>8. \A j \in 1..n : Whole(hs[j]) /\ TabsOf(hs[j]) \subseteq ts \ TabsOf(gs[i])
  BY <1>1, <1>3, <1>7 DEF Spread
<1>9. \A j, k \in 1..n : hs[j].id = hs[k].id => j = k  BY <1>3, <1>4, <1>7 DEF Spread
<1>10. \A j, k \in 1..n : \A t \in TabsOf(hs[j]) : t \in TabsOf(hs[k]) => j = k
  BY <1>3, <1>4, <1>7 DEF Spread
<1>11. \A t \in ts \ TabsOf(gs[i]) : \E j \in 1..n : t \in TabsOf(hs[j])
  <2> SUFFICES ASSUME NEW t \in ts, t \notin TabsOf(gs[i]) PROVE \E j \in 1..n : t \in TabsOf(hs[j])
    OBVIOUS
  <2>1. PICK k \in DOMAIN gs : t \in TabsOf(gs[k])  BY DEF Spread
  <2>2. PICK j \in 1..n : From(j) = k  BY <1>5, <2>1
  <2> QED  BY <1>7, <2>1, <2>2
<1>12. Spread(hs, ts \ TabsOf(gs[i]))
  BY <1>6, <1>8, <1>9, <1>10, <1>11, <1>20 DEF Spread
<1> QED  BY <1>2, <1>12 DEF hs, n

-----------------------------------------------------------------------------
\* A command of the group shown, which becomes g.
LEMMA HereIsWhole ==
    ASSUME PanesInv
    PROVE  /\ Whole(Here) /\ Here \in AnyGroup /\ Here.panes \in Seq(SUBSET Tabs)
           /\ Here.shown \in SUBSET (1..MaxPanes) /\ Here.shown # {}
           /\ Here.shown \subseteq DOMAIN Here.panes
           /\ DOMAIN Here.panes = 1..Len(Here.panes) /\ Len(Here.panes) \in FirstPanes..MaxPanes
           /\ Apart(Here.panes)
           /\ TabsOf(Here) \subseteq open \ detached
<1>1. Whole(Here) /\ TabsOf(Here) \subseteq open \ detached  BY DEF PanesInv, Spread, Here
<1>2. Here \in AnyGroup  BY <1>1 DEF Whole
<1>3. Here.panes \in Seq(SUBSET Tabs) /\ Here.shown \in SUBSET (1..MaxPanes)  BY <1>2 DEF AnyGroup
<1> HIDE DEF Here
<1> QED  BY <1>1, <1>2, <1>3 DEF Whole

LEMMA HereSwapped ==
    ASSUME PanesInv, NEW g, Whole(g), g.id = Here.id, HereBecomes(g), here' = here,
           \A t \in TabsOf(g) : t \in open \ detached => t \in TabsOf(Here),
           open' \ detached' = ((open \ detached) \ TabsOf(Here)) \cup TabsOf(g)
    PROVE  here' \in DOMAIN groups' /\ Spread(groups', open' \ detached') /\ Here' = g
<1>1. here \in DOMAIN groups /\ Spread(groups, open \ detached)  BY DEF PanesInv
<1>2. groups' = [groups EXCEPT ![here] = g]  BY DEF HereBecomes
<1>3. Spread([groups EXCEPT ![here] = g], ((open \ detached) \ TabsOf(groups[here])) \cup TabsOf(g))
  BY <1>1, Swapped DEF Here
<1>4. DOMAIN groups' = DOMAIN groups /\ groups'[here] = g  BY <1>1, <1>2
<1> QED  BY <1>1, <1>2, <1>3, <1>4 DEF Here

\* What was typed into and is in sight stays so, when no session ends.
LEMMA SyncStays ==
    ASSUME SyncInSight, sync' = sync, open \subseteq open', \A t \in open : alive[t] => alive'[t],
           \A t \in open : t \in TabsOf(Here) \cup detached => t \in (TabsOf(Here))' \cup detached'
    PROVE  SyncInSight'
BY DEF SyncInSight

LEMMA SyncStops == sync' = {} => SyncInSight'
BY FS_EmptySet DEF SyncInSight

\* updateSynchronizationUi: what is left of the targets is in sight.
LEMMA SyncPruned ==
    ASSUME SyncInSight, sync' = Pruned(sync, alive'),
           \A t \in open \cap open' : t \in TabsOf(Here) \cup detached /\ alive[t]
                                      => t \in (TabsOf(Here))' \cup detached'
    PROVE  SyncInSight'
<1> DEFINE left == {t \in sync : alive'[t] /\ t \in open'}
<1>1. sync' = IF Cardinality(left) < 2 THEN {} ELSE left  BY DEF Pruned
<1>2. Cardinality({}) = 0  BY FS_EmptySet
<1>3. Cardinality(sync') # 1
  <2> HIDE DEF left
  <2> QED  BY <1>1, <1>2
<1>4. \A t \in sync' : t \in sync /\ alive'[t] /\ t \in open'  BY <1>1
<1> QED  BY <1>3, <1>4 DEF SyncInSight

\* A command of the layout: g has the tabs that the group had.
LEMMA LayoutKeeps ==
    ASSUME PanesInv, NEW g, Whole(g), g.id = Here.id, TabsOf(g) = TabsOf(Here),
           HereBecomes(g), UNCHANGED <<here, detached, open, alive, sync>>,
           CanOpen(saved')
    PROVE  PanesInv' /\ open \subseteq open'
<1>1. TabsOf(Here) \subseteq open \ detached  BY HereIsWhole
<1>2. open' \ detached' = ((open \ detached) \ TabsOf(Here)) \cup TabsOf(g)  BY <1>1
<1>3. here' \in DOMAIN groups' /\ Spread(groups', open' \ detached') /\ Here' = g
  BY <1>2, HereSwapped
<1>4. SyncInSight'
  <2>1. (TabsOf(Here))' = TabsOf(Here)  BY <1>3
  <2> QED  BY <2>1, SyncStays DEF PanesInv
<1> QED  BY <1>3, <1>4 DEF PanesInv

LEMMA ShownIsPane ==
    ASSUME PanesInv, NEW p \in Here.shown
    PROVE  /\ p \in Nat /\ p \in DOMAIN Here.panes
           /\ Here.panes[p] \in SUBSET Tabs /\ Here.panes[p] \subseteq TabsOf(Here)
<1>1. p \in DOMAIN Here.panes /\ Here.panes \in Seq(SUBSET Tabs) /\ p \in Nat  BY HereIsWhole
<1>2. Here.panes[p] \subseteq TabsOf(Here)  BY <1>1, TabsOfGroup
<1> QED  BY <1>1, <1>2

LEMMA ClosePaneKeeps ==
    ASSUME PanesInv, NEW p \in Here.shown, ClosePane(p)
    PROVE  PanesInv' /\ open \subseteq open'
<1> DEFINE left == Here.shown \ {p}
           first == First(left)
           ts == Here.panes[p]
           m == MovedPanes(Here.panes, ts, first)
           g == Laid(Here, m, left)
<1>1. ts \in SUBSET Tabs /\ ts \subseteq TabsOf(Here)  BY ShownIsPane
<1>2. left # {}
  <2>1. Cardinality({p}) = 1  BY FS_Singleton
  <2>2. Cardinality(Here.shown) >= 2  BY DEF ClosePane
  <2>3. Here.shown # {p}  BY <2>1, <2>2
  <2> QED  BY <2>3
<1>3. left \subseteq Nat  BY HereIsWhole
<1>4. first \in left
  <2> HIDE DEF left
  <2> QED  BY <1>2, <1>3, FirstIsOne
<1>5. first \in DOMAIN Here.panes  BY <1>4, HereIsWhole
<1> HIDE DEF first
<1>6. m \in Seq(SUBSET Tabs) /\ Len(m) = Len(Here.panes) /\ DOMAIN m = DOMAIN Here.panes /\ Apart(m)
  <2> HIDE DEF ts
  <2> QED  BY <1>1, <1>5, HereIsWhole, MovedPanesFacts
<1>7. \A q \in DOMAIN m \ left : m[q] = {}
  <2> SUFFICES ASSUME NEW q \in DOMAIN Here.panes, q \notin left PROVE m[q] = {}
    BY <1>6
  <2>1. m[q] = Here.panes[q] \ ts  BY <1>4 DEF MovedPanes
  <2>2. CASE q = p  BY <2>1, <2>2
  <2>3. CASE q # p
    <3>1. Here.panes[q] = {}  BY <2>3, HereIsWhole DEF Whole
    <3> QED  BY <2>1, <3>1
  <2> QED  BY <2>2, <2>3
<1>8. left \in SUBSET (1..MaxPanes) /\ left \subseteq DOMAIN m /\ Len(m) \in FirstPanes..MaxPanes
  BY <1>6, HereIsWhole
<1>9. TabsOf(g) = TabsOf(Here)
  <2>1. TabsOf(g) = TabsOf(Here) \cup ts
    <3> HIDE DEF ts, left
    <3> QED  BY <1>1, <1>5, <1>8, HereIsWhole, MovedTabs
  <2> QED  BY <1>1, <2>1
<1>10. [Moved(Here, ts, first) EXCEPT !.shown = left] = g
  <2>1. Moved(Here, ts, first) = Laid(Here, m, Here.shown)  BY HereIsWhole, MovedIsLaid
  <2> HIDE DEF m, left
  <2> QED  BY <2>1, HereIsWhole DEF Laid, AnyGroup
<1>11. HereBecomes(g)
  <2>1. [Moved(Here, ts, first) EXCEPT !.shown = @ \ {p}] = [Moved(Here, ts, first) EXCEPT !.shown = left]
    <3>1. Moved(Here, ts, first).shown = Here.shown
      <4>1. Moved(Here, ts, first) = Laid(Here, m, Here.shown)  BY HereIsWhole, MovedIsLaid
      <4> HIDE DEF m
      <4> QED  BY <4>1, HereIsWhole DEF Laid, AnyGroup
    <3> QED  BY <3>1
  <2> QED  BY <1>10, <2>1 DEF ClosePane, first
<1>12. Whole(g) /\ g.id = Here.id
  <2> HIDE DEF m, left
  <2> QED  BY <1>2, <1>6, <1>7, <1>8, HereIsWhole, LaidWhole
<1> HIDE DEF g
<1> QED  BY <1>9, <1>11, <1>12, LayoutKeeps DEF PanesInv, ClosePane

LEMMA SplitKeeps ==
    ASSUME PanesInv, NEW from \in Here.shown, SplitActivePane(from)
    PROVE  PanesInv' /\ open \subseteq open'
<1> DEFINE hidden == DOMAIN Here.panes \ Here.shown
           to == IF hidden # {} THEN First(hidden) ELSE Len(Here.panes) + 1
           m == IF hidden # {} THEN Here.panes ELSE Append(Here.panes, {})
           shown == Here.shown \cup {to}
           wider == Laid(Here, m, shown)
           donors == {p \in Here.shown : Cardinality(Here.panes[p]) > 1}
           donor == IF Cardinality(Here.panes[from]) > 1 THEN from ELSE First(donors)
<1>1. /\ to <= MaxPanes
      /\ IF donors = {} THEN HereBecomes(wider)
         ELSE \E t \in Here.panes[donor] : HereBecomes(Moved(wider, {t}, to))
      /\ UNCHANGED <<here, detached, owner, open, alive, sync, saved>>
  <2>1. [Here EXCEPT !.shown = @ \cup {to}, !.panes = IF hidden # {} THEN @ ELSE Append(@, {})] = wider
    <3> HIDE DEF hidden, to
    <3> QED  BY HereIsWhole DEF Laid, AnyGroup
  <2> HIDE DEF wider
  <2> QED  BY <2>1 DEF SplitActivePane
<1>2. /\ to \in Nat /\ to \notin Here.shown
      /\ IF hidden # {} THEN to \in DOMAIN Here.panes /\ Here.panes[to] = {}
         ELSE to = Len(Here.panes) + 1
  <2>1. CASE hidden # {}
    <3>1. hidden \subseteq Nat  BY HereIsWhole
    <3>2. to \in hidden
      <4>1. First(hidden) \in hidden
        <5> HIDE DEF hidden
        <5> QED  BY <2>1, <3>1, FirstIsOne
      <4> QED  BY <2>1, <4>1
    <3> HIDE DEF to
    <3> QED  BY <2>1, <3>1, <3>2, HereIsWhole DEF Whole
  <2>2. CASE hidden = {}
    <3>1. to = Len(Here.panes) + 1  BY <2>2
    <3> HIDE DEF to
    <3> QED  BY <2>2, <3>1, HereIsWhole
  <2> QED  BY <2>1, <2>2
<1> HIDE DEF to
<1>3. /\ m \in Seq(SUBSET Tabs) /\ Len(m) \in FirstPanes..MaxPanes /\ to \in DOMAIN m
      /\ DOMAIN Here.panes \subseteq DOMAIN m /\ DOMAIN m \subseteq DOMAIN Here.panes \cup {to}
      /\ \A p \in DOMAIN Here.panes : m[p] = Here.panes[p]
      /\ m[to] = {}
  <2>1. CASE hidden # {}  BY <1>2, <2>1, HereIsWhole
  <2>2. CASE hidden = {}
    <3>1. m = Append(Here.panes, {}) /\ to = Len(Here.panes) + 1  BY <1>2, <2>2
    <3> HIDE DEF m, hidden
    <3>2. m \in Seq(SUBSET Tabs) /\ Len(m) = Len(Here.panes) + 1 /\ m[to] = {}
      BY <3>1, HereIsWhole
    <3>3. \A p \in 1..Len(Here.panes) : m[p] = Here.panes[p]  BY <3>1, HereIsWhole
    <3>4. DOMAIN m = 1..(Len(Here.panes) + 1)  BY <3>2, HereIsWhole
    <3>5. Len(m) \in FirstPanes..MaxPanes  BY <1>1, <3>1, <3>2, HereIsWhole, PanesAssumption
    <3> QED  BY <3>1, <3>2, <3>3, <3>4, <3>5, HereIsWhole
  <2> QED  BY <2>1, <2>2
<1>4. Apart(m)  BY <1>3, HereIsWhole DEF Apart
<1>5. \A p \in DOMAIN m \ shown : m[p] = {}
  <2>1. \A p \in DOMAIN Here.panes \ Here.shown : Here.panes[p] = {}  BY HereIsWhole DEF Whole
  <2> QED  BY <1>3, <2>1
<1>6. shown \in SUBSET (1..MaxPanes) /\ shown # {} /\ shown \subseteq DOMAIN m
  <2>1. to \in 1..MaxPanes
    <3>1. m \in Seq(SUBSET Tabs) /\ to \in 1..Len(m)
      <4> HIDE DEF m
      <4> QED  BY <1>3
    <3> HIDE DEF m
    <3> QED  BY <1>1, <1>2, <3>1
  <2>2. Here.shown \subseteq DOMAIN m  BY <1>3, HereIsWhole
  <2> QED  BY <1>3, <2>1, <2>2, HereIsWhole
<1> HIDE DEF m, shown
<1>7. /\ Whole(wider) /\ wider.id = Here.id /\ wider.panes = m /\ wider.shown = shown
  BY <1>3, <1>4, <1>5, <1>6, HereIsWhole, LaidWhole
<1> HIDE DEF wider
<1>8. TabsOf(wider) = TabsOf(Here)
  <2>1. \A t : (\E p \in DOMAIN m : t \in m[p]) <=> \E p \in DOMAIN Here.panes : t \in Here.panes[p]
    BY <1>3
  <2>2. \A t : t \in TabsOf(wider) <=> \E p \in DOMAIN m : t \in m[p]  BY <1>7, TabsOfGroup
  <2>3. \A t : t \in TabsOf(Here) <=> \E p \in DOMAIN Here.panes : t \in Here.panes[p]
    BY TabsOfGroup
  <2>4. \A t : t \in TabsOf(wider) <=> t \in TabsOf(Here)  BY ONLY <2>1, <2>2, <2>3
  <2> HIDE DEF donors
  <2>5. TabsOf(wider) \subseteq TabsOf(Here) /\ TabsOf(Here) \subseteq TabsOf(wider)
    BY ONLY <2>4
  <2> QED  BY ONLY <2>5
<1>9. CASE donors = {}
  BY <1>1, <1>7, <1>8, <1>9, LayoutKeeps DEF PanesInv
<1>10. CASE donors # {}
  <2>1. donor \in Here.shown
    <3>1. donors \subseteq Nat  BY HereIsWhole
    <3>2. First(donors) \in donors
      <4> HIDE DEF donors
      <4> QED  BY <1>10, <3>1, FirstIsOne
    <3> QED  BY <3>2
  <2>2. PICK t \in Here.panes[donor] : HereBecomes(Moved(wider, {t}, to))  BY <1>1, <1>10
  <2> HIDE DEF donor
  <2>3. {t} \in SUBSET Tabs /\ {t} \subseteq TabsOf(Here)  BY <2>1, <2>2, ShownIsPane
  <2>4. to \in wider.shown  BY <1>7 DEF shown
  <2>5. /\ Whole(Moved(wider, {t}, to)) /\ Moved(wider, {t}, to).id = wider.id
        /\ TabsOf(Moved(wider, {t}, to)) = TabsOf(wider) \cup {t}
    BY <1>7, <2>3, <2>4, MovedWhole
  <2>6. TabsOf(Moved(wider, {t}, to)) = TabsOf(Here)  BY <1>8, <2>3, <2>5
  <2> QED  BY <1>1, <1>7, <2>2, <2>5, <2>6, LayoutKeeps DEF PanesInv
<1> QED  BY <1>9, <1>10

LEMMA OtherPaneKeeps ==
    ASSUME PanesInv, NEW from \in Here.shown, MoveTabToOtherPane(from)
    PROVE  PanesInv' /\ open \subseteq open'
<1>1. UNCHANGED <<here, detached, owner, open, alive, sync, saved>>  BY DEF MoveTabToOtherPane
<1>2. CASE Cardinality(Here.shown) > 1
  <2>1. PICK t \in Here.panes[from] : HereBecomes(Moved(Here, {t}, After(Here, from)))
    BY <1>2 DEF MoveTabToOtherPane
  <2>2. After(Here, from) \in Here.shown
    <3> DEFINE later == {q \in Here.shown : q > from}
    <3>1. later \subseteq Nat /\ Here.shown \subseteq Nat /\ Here.shown # {}  BY HereIsWhole
    <3>2. later # {} => First(later) \in later
      <4> HIDE DEF later
      <4> QED  BY <3>1, FirstIsOne
    <3>3. First(Here.shown) \in Here.shown  BY <3>1, FirstIsOne
    <3> QED  BY <3>2, <3>3 DEF After
  <2>3. {t} \in SUBSET Tabs /\ {t} \subseteq TabsOf(Here)  BY <2>1, ShownIsPane
  <2>4. Whole(Here)  BY HereIsWhole
  <2> DEFINE g == Moved(Here, {t}, After(Here, from))
  <2>5. Whole(g) /\ g.id = Here.id /\ TabsOf(g) = TabsOf(Here) \cup {t}
    BY <2>2, <2>3, <2>4, MovedWhole
  <2>6. TabsOf(g) = TabsOf(Here)  BY <2>3, <2>5
  <2> QED  BY <1>1, <2>1, <2>5, <2>6, LayoutKeeps DEF PanesInv
<1>3. CASE ~ (Cardinality(Here.shown) > 1)
  <2>1. PICK ts \in SUBSET TabsOf(Here) : HereBecomes(Moved(FewPanes(Here, 2), ts, 2))
    BY <1>3 DEF MoveTabToOtherPane
  <2>2. Whole(Here) /\ TabsOf(Here) \subseteq Tabs
    BY HereIsWhole DEF PanesInv
  <2>3. /\ Whole(FewPanes(Here, 2)) /\ FewPanes(Here, 2).id = Here.id
        /\ FewPanes(Here, 2).shown = 1..2 /\ TabsOf(FewPanes(Here, 2)) = TabsOf(Here)
    BY <2>2, FewWhole
  <2>4. ts \in SUBSET Tabs /\ 2 \in FewPanes(Here, 2).shown  BY <2>2, <2>3
  <2> DEFINE g == Moved(FewPanes(Here, 2), ts, 2)
  <2>5. Whole(g) /\ g.id = Here.id /\ TabsOf(g) = TabsOf(Here) \cup ts
    BY <2>3, <2>4, MovedWhole
  <2>6. TabsOf(g) = TabsOf(Here)  BY <2>5
  <2> QED  BY <1>1, <2>1, <2>5, <2>6, LayoutKeeps DEF PanesInv
<1> QED  BY <1>2, <1>3

LEMMA FewTabs ==
    ASSUME PanesInv
    PROVE  IsFiniteSet(open) /\ IsFiniteSet(TabsOf(Here)) /\ Cardinality(TabsOf(Here)) \in Nat
<1>1. open \in SUBSET Tabs /\ TabsOf(Here) \in SUBSET Tabs  BY HereIsWhole DEF PanesInv
<1>2. IsFiniteSet(open) /\ IsFiniteSet(TabsOf(Here))  BY <1>1, PanesAssumption, FS_Subset
<1> QED  BY <1>2, FS_CardinalityType

\* A pane for each tab.
LEMMA GridKeeps ==
    ASSUME PanesInv, ArrangeGrid
    PROVE  PanesInv' /\ open \subseteq open'
<1> DEFINE ts == TabsOf(Here)
           n == Cardinality(ts)
           count == IF n = 0 THEN 1 ELSE n
           size == IF count > Len(Here.panes) THEN count ELSE Len(Here.panes)
           Panes(row) == [p \in 1..size |-> IF p <= n THEN {row[p]} ELSE {}]
<1>1. UNCHANGED <<here, detached, owner, open, alive, sync, saved>> /\ count <= MaxPanes
  BY DEF ArrangeGrid
<1>2. PICK row \in [1..n -> ts] :
         IsInjective(row) /\ HereBecomes([Here EXCEPT !.shown = 1..count, !.panes = Panes(row)])
  BY DEF ArrangeGrid
<1>3. ts \subseteq Tabs /\ IsFiniteSet(ts) /\ n \in Nat  BY FewTabs, HereIsWhole DEF PanesInv
<1>4. row \in Surjection(1..n, ts)
  <2>1. row \in Injection(1..n, ts)  BY <1>2 DEF Injection
  <2>2. Cardinality(1..n) = n  BY <1>3, FS_Interval
  <2> HIDE DEF ts
  <2> QED  BY <1>3, <2>1, <2>2, FS_Injection
<1>5. /\ count \in Nat /\ count >= 1 /\ n <= count
      /\ size \in Nat /\ count <= size /\ size \in FirstPanes..MaxPanes
  <2>1. Len(Here.panes) \in FirstPanes..MaxPanes  BY HereIsWhole
  <2> HIDE DEF ts
  <2> QED  BY <1>1, <1>3, <2>1, PanesAssumption
<1> DEFINE m == Panes(row)
<1> HIDE DEF n, ts, count, size
<1>6. m \in Seq(SUBSET Tabs) /\ Len(m) = size /\ DOMAIN m = 1..size
  <2>1. m \in [1..size -> SUBSET Tabs]
    <3>1. \A p \in 1..n : row[p] \in Tabs  BY <1>2, <1>3
    <3> QED  BY <1>3, <1>5, <3>1
  <2>2. DOMAIN m = 1..size  OBVIOUS
  <2> HIDE DEF m
  <2> QED  BY <1>5, <2>1, <2>2
<1>7. Apart(m)  BY <1>2, <1>3, <1>5 DEF Apart, IsInjective
<1>8. \A p \in DOMAIN m \ 1..count : m[p] = {}  BY <1>3, <1>5
<1>9. 1..count \in SUBSET (1..MaxPanes) /\ 1..count # {} /\ 1..count \subseteq DOMAIN m
  BY <1>1, <1>5, <1>6, PanesAssumption
<1> DEFINE shown == 1..count
           g == Laid(Here, m, shown)
<1>10. HereBecomes(g)
  <2>1. [Here EXCEPT !.shown = shown, !.panes = m] = g
    <3> HIDE DEF m, shown
    <3> QED  BY HereIsWhole DEF Laid, AnyGroup
  <2> QED  BY <1>2, <2>1
<1>11. Whole(g) /\ g.id = Here.id /\ g.panes = m
  <2> HIDE DEF m
  <2>1. Len(m) \in FirstPanes..MaxPanes  BY <1>5, <1>6
  <2>2. /\ shown \in SUBSET (1..MaxPanes) /\ shown # {} /\ shown \subseteq DOMAIN m
        /\ \A p \in DOMAIN m \ shown : m[p] = {}
    BY <1>8, <1>9
  <2>3. m \in Seq(SUBSET Tabs)  BY <1>6
  <2>4. Here \in AnyGroup  BY HereIsWhole
  <2> HIDE DEF shown
  <2>5. /\ Whole(Laid(Here, m, shown)) /\ Laid(Here, m, shown).id = Here.id
        /\ Laid(Here, m, shown).panes = m
    BY <1>7, <2>1, <2>2, <2>3, <2>4, LaidWhole
  <2> QED  BY <2>5
<1>12. \A t : (\E p \in 1..size : t \in m[p]) <=> t \in ts
  <2>1. ASSUME NEW t, NEW p \in 1..size, t \in m[p] PROVE t \in ts
    <3>1. p <= n /\ t = row[p]  BY <2>1
    <3>2. p \in 1..n  BY <1>3, <3>1
    <3> QED  BY <1>2, <3>1, <3>2
  <2>2. ASSUME NEW t \in ts PROVE \E p \in 1..size : t \in m[p]
    <3>1. PICK p \in 1..n : row[p] = t  BY <1>4 DEF Surjection
    <3>2. p \in 1..size /\ p <= n  BY <1>3, <1>5
    <3>3. m[p] = {row[p]}  BY <3>2
    <3> QED  BY <3>1, <3>2, <3>3
  <2> QED  BY <2>1, <2>2
<1> HIDE DEF m, g
<1>13. TabsOf(g) = ts
  <2>1. \A t : t \in TabsOf(g) <=> \E p \in 1..size : t \in m[p]  BY <1>6, <1>11, TabsOfGroup
  <2> QED  BY <1>12, <2>1
<1> QED  BY <1>1, <1>10, <1>11, <1>13, LayoutKeeps DEF PanesInv, ts

-----------------------------------------------------------------------------
\* Tabs that come, go and move.
LEMMA ConnectKeeps ==
    ASSUME PanesInv, NEW t \in Tabs, NEW p \in Here.shown, ConnectSession(t, p)
    PROVE  PanesInv' /\ open \subseteq open'
<1> DEFINE g == Moved(Here, {t}, p)
<1>1. Whole(Here) /\ TabsOf(Here) \subseteq open \ detached  BY HereIsWhole
<1>2. Whole(g) /\ g.id = Here.id /\ TabsOf(g) = TabsOf(Here) \cup {t}  BY <1>1, MovedWhole
<1>3. /\ HereBecomes(g) /\ here' = here /\ t \notin open
      /\ open' = open \cup {t} /\ detached' = detached
      /\ sync' = sync /\ saved' = saved /\ alive' = [alive EXCEPT ![t] = TRUE]
  BY DEF ConnectSession
<1>4. detached \subseteq open /\ open \subseteq Tabs /\ alive \in [Tabs -> BOOLEAN]  BY DEF PanesInv
<1>5. open' \ detached' = ((open \ detached) \ TabsOf(Here)) \cup TabsOf(g)
  BY <1>1, <1>2, <1>3, <1>4
<1>6. \A u \in TabsOf(g) : u \in open \ detached => u \in TabsOf(Here)  BY <1>2, <1>3
<1>7. here' \in DOMAIN groups' /\ Spread(groups', open' \ detached') /\ Here' = g
  BY <1>2, <1>3, <1>5, <1>6, HereSwapped
<1>8. SyncInSight'
  <2>1. \A u \in open : alive[u] => alive'[u]  BY <1>3, <1>4
  <2>2. TabsOf(Here) \subseteq (TabsOf(Here))'  BY <1>2, <1>7
  <2> QED  BY <1>3, <2>1, <2>2, SyncStays DEF PanesInv
<1> QED  BY <1>3, <1>4, <1>7, <1>8 DEF PanesInv

LEMMA FinishedKeeps ==
    ASSUME PanesInv, NEW t \in Tabs, TabFinished(t)
    PROVE  PanesInv' /\ open \subseteq open'
<1>1. /\ UNCHANGED <<groups, here, detached, open, saved>>
      /\ alive' = [alive EXCEPT ![t] = FALSE] /\ sync' = Pruned(sync, alive')
  BY DEF TabFinished, SamePlaces
<1>2. (TabsOf(Here))' = TabsOf(Here)  BY <1>1 DEF Here, TabsOf
<1>3. SyncInSight'  BY <1>1, <1>2, SyncPruned DEF PanesInv
<1> QED  BY <1>1, <1>3 DEF PanesInv

LEMMA CloseTabKeeps ==
    ASSUME PanesInv, NEW t \in Tabs, CloseTab(t)
    PROVE  PanesInv'
<1>1. /\ groups' = [i \in DOMAIN groups |-> Without(groups[i], {t})]
      /\ open' = open \ {t} /\ sync' = Pruned(sync, alive)
      /\ UNCHANGED <<here, detached, alive, saved>>
  BY DEF CloseTab
<1>2. here \in DOMAIN groups /\ Spread(groups, open \ detached)
      /\ detached \subseteq open /\ open \subseteq Tabs
  BY DEF PanesInv
<1>3. t \in open \ detached
  <2>1. PICK i \in DOMAIN groups : t \in TabsOf(groups[i])  BY DEF CloseTab, GroupOf
  <2> QED  BY <1>2, <2>1 DEF Spread
<1>4. Spread(groups', (open \ detached) \ {t})  BY <1>1, <1>2, Cleared
<1>5. open' \ detached' = (open \ detached) \ {t}  BY <1>1
<1>6. DOMAIN groups' = DOMAIN groups /\ Here' = Without(Here, {t})  BY <1>1, <1>2 DEF Here
<1>7. (TabsOf(Here))' = TabsOf(Here) \ {t}
  <2>1. TabsOf(Without(Here, {t})) = TabsOf(Here) \ {t}  BY HereIsWhole, WithoutWhole
  <2> QED  BY <1>6, <2>1
<1>8. SyncInSight'
  <2>1. sync' = Pruned(sync, alive')  BY <1>1
  <2> QED  BY <1>1, <1>7, <2>1, SyncPruned DEF PanesInv
<1> QED  BY <1>1, <1>2, <1>3, <1>4, <1>5, <1>6, <1>8 DEF PanesInv

\* A fresh tab takes the place of t in group g.
LEMMA LandingIsShown ==
    ASSUME NEW g, Whole(g), NEW t \in TabsOf(g)
    PROVE  Landing(g, t) \in g.shown
<1> DEFINE p == CHOOSE q \in DOMAIN g.panes : t \in g.panes[q]
           others == {q \in g.shown \ {p} : g.panes[q] # {}}
<1>1. p \in DOMAIN g.panes /\ t \in g.panes[p]  BY TabsOfGroup
<1>2. p \in g.shown  BY <1>1 DEF Whole
<1>3. others # {} => First(others) \in others
  <2>1. others \subseteq Nat
    <3>1. g.shown \subseteq Nat  BY DEF Whole, AnyGroup
    <3> QED  BY <3>1
  <2> HIDE DEF others
  <2> QED  BY <2>1, FirstIsOne
<1> QED  BY <1>2, <1>3 DEF Landing

LEMMA ReconnectKeeps ==
    ASSUME PanesInv, NEW t \in Tabs, NEW fresh \in Tabs, Reconnect(t, fresh)
    PROVE  PanesInv'
<1>1. /\ t \in open /\ ~ alive[t] /\ fresh \notin open
      /\ alive' = [alive EXCEPT ![fresh] = TRUE] /\ sync' = Pruned(sync, alive')
      /\ UNCHANGED <<here, detached, saved>>
  BY DEF Reconnect
<1>2. /\ here \in DOMAIN groups /\ Spread(groups, open \ detached)
      /\ detached \subseteq open /\ open \subseteq Tabs /\ alive \in [Tabs -> BOOLEAN]
  BY DEF PanesInv
<1>3. alive' \in [Tabs -> BOOLEAN]  BY <1>1, <1>2
<1>4. {fresh} \in SUBSET Tabs  OBVIOUS
<1>5. CASE t \in detached
  <2>1. /\ open' = open \cup {fresh}
        /\ \E p \in Here.shown : HereBecomes(Moved(Here, {fresh}, p))
    BY <1>5 DEF Reconnect
  <2>2. PICK p \in Here.shown : HereBecomes(Moved(Here, {fresh}, p))  BY <2>1
  <2> DEFINE g == Moved(Here, {fresh}, p)
  <2>3. Whole(Here) /\ TabsOf(Here) \subseteq open \ detached  BY HereIsWhole
  <2>4. Whole(g) /\ g.id = Here.id /\ TabsOf(g) = TabsOf(Here) \cup {fresh}
    BY <1>4, <2>3, MovedWhole
  <2>5. open' \ detached' = ((open \ detached) \ TabsOf(Here)) \cup TabsOf(g)
    BY <1>1, <1>2, <2>1, <2>3, <2>4
  <2>6. \A u \in TabsOf(g) : u \in open \ detached => u \in TabsOf(Here)  BY <1>1, <2>4
  <2>7. here' \in DOMAIN groups' /\ Spread(groups', open' \ detached') /\ Here' = g
    BY <1>1, <2>2, <2>4, <2>5, <2>6, HereSwapped
  <2>8. TabsOf(Here) \subseteq (TabsOf(Here))'  BY <2>4, <2>7
  <2>9. SyncInSight'  BY <1>1, <2>8, SyncPruned DEF PanesInv
  <2> QED  BY <1>1, <1>2, <1>3, <2>1, <2>7, <2>9 DEF PanesInv
<1>6. CASE t \notin detached
  <2> DEFINE i == CHOOSE j \in GroupOf(t) : TRUE
  <2>1. i \in DOMAIN groups /\ t \in TabsOf(groups[i])
    <3>1. GroupOf(t) # {}  BY <1>1, <1>2, <1>6 DEF Spread, GroupOf
    <3>2. i \in GroupOf(t)  BY <3>1
    <3> QED  BY <3>2 DEF GroupOf
  <2>2. /\ groups' = [groups EXCEPT ![i] =
                        Moved(Without(groups[i], {t}), {fresh}, Landing(groups[i], t))]
        /\ open' = (open \ {t}) \cup {fresh}
    BY <1>6 DEF Reconnect
  <2> HIDE DEF i
  <2> DEFINE w == Without(groups[i], {t})
             g == Moved(w, {fresh}, Landing(groups[i], t))
  <2>3. Whole(groups[i]) /\ TabsOf(groups[i]) \subseteq open \ detached
    BY <1>2, <2>1 DEF Spread
  <2>4. /\ Whole(w) /\ w.id = groups[i].id /\ w.shown = groups[i].shown
        /\ TabsOf(w) = TabsOf(groups[i]) \ {t}
    BY <2>3, WithoutWhole
  <2>5. Landing(groups[i], t) \in w.shown  BY <2>1, <2>3, <2>4, LandingIsShown
  <2>6. Whole(g) /\ g.id = groups[i].id /\ TabsOf(g) = (TabsOf(groups[i]) \ {t}) \cup {fresh}
    <3> HIDE DEF w
    <3> QED  BY <1>4, <2>4, <2>5, MovedWhole
  <2>7. groups' = [groups EXCEPT ![i] = g]  BY <2>2
  <2> HIDE DEF g
  <2>8. open' \ detached' = ((open \ detached) \ TabsOf(groups[i])) \cup TabsOf(g)
    BY <1>1, <1>2, <2>1, <2>2, <2>3, <2>6
  <2>9. \A u \in TabsOf(g) : u \in open \ detached => u \in TabsOf(groups[i])
    BY <1>1, <2>6
  <2>10. Spread(groups', open' \ detached')
    <3>1. Spread([groups EXCEPT ![i] = g], ((open \ detached) \ TabsOf(groups[i])) \cup TabsOf(g))
      BY <1>2, <2>1, <2>6, <2>9, Swapped
    <3> QED  BY <2>7, <2>8, <3>1
  <2>11. \A u \in TabsOf(Here) : u # t => u \in (TabsOf(Here))'
    <3>1. CASE here = i  BY <1>1, <1>2, <2>6, <2>7, <3>1 DEF Here
    <3>2. CASE here # i
      <4>1. Here' = Here  BY <1>1, <1>2, <2>7, <3>2 DEF Here
      <4> QED  BY <4>1
    <3> QED  BY <3>1, <3>2
  <2>12. SyncInSight'  BY <1>1, <2>11, SyncPruned DEF PanesInv
  <2>13. here' \in DOMAIN groups'  BY <1>1, <1>2, <2>7
  <2> QED  BY <1>1, <1>2, <1>3, <1>6, <2>2, <2>10, <2>12, <2>13 DEF PanesInv
<1> QED  BY <1>5, <1>6

LEMMA MoveTabKeeps ==
    ASSUME PanesInv, NEW t \in Tabs, NEW p \in Here.shown, MoveTabToPane(t, p)
    PROVE  PanesInv' /\ open \subseteq open'
<1> DEFINE hs == [i \in DOMAIN groups |-> Without(groups[i], {t})]
           g == Moved(Here, {t}, p)
           us == (open \ detached) \ {t}
<1>1. UNCHANGED <<here, detached, open, alive, sync, saved>>  BY DEF MoveTabToPane
<1>2. here \in DOMAIN groups /\ Spread(groups, open \ detached)  BY DEF PanesInv
<1>3. t \in open \ detached
  <2>1. PICK i \in DOMAIN groups : t \in TabsOf(groups[i])  BY DEF MoveTabToPane, GroupOf
  <2> QED  BY <1>2, <2>1 DEF Spread
<1>4. Spread(hs, us)  BY <1>2, Cleared
<1>5. Whole(Here) /\ TabsOf(Here) \subseteq open \ detached  BY HereIsWhole
<1>6. Whole(g) /\ g.id = Here.id /\ TabsOf(g) = TabsOf(Here) \cup {t}  BY <1>5, MovedWhole
<1>7. /\ here \in DOMAIN hs /\ hs[here].id = Here.id
      /\ TabsOf(hs[here]) = TabsOf(Here) \ {t}
  BY <1>2, <1>5, WithoutWhole DEF Here
<1>8. groups' = [hs EXCEPT ![here] = g]  BY <1>2 DEF MoveTabToPane, Here
<1> HIDE DEF hs, g, us
<1>9. Spread([hs EXCEPT ![here] = g], (us \ TabsOf(hs[here])) \cup TabsOf(g))
  <2>1. \A u \in TabsOf(g) : u \in us => u \in TabsOf(hs[here])  BY <1>6, <1>7 DEF us
  <2> QED  BY <1>4, <1>6, <1>7, <2>1, Swapped
<1>10. (us \ TabsOf(hs[here])) \cup TabsOf(g) = open \ detached
  BY <1>3, <1>5, <1>6, <1>7 DEF us
<1>11. Here' = g /\ here' \in DOMAIN groups'  BY <1>1, <1>7, <1>8 DEF Here
<1>12. SyncInSight'
  <2>1. TabsOf(Here) \subseteq (TabsOf(Here))'  BY <1>6, <1>11
  <2> QED  BY <1>1, <2>1, SyncStays DEF PanesInv
<1> QED  BY <1>1, <1>8, <1>9, <1>10, <1>11, <1>12 DEF PanesInv

LEMMA DetachKeeps ==
    ASSUME PanesInv, NEW t \in Tabs, DetachCurrentTab(t)
    PROVE  PanesInv' /\ open \subseteq open'
<1> DEFINE g == Without(Here, {t})
<1>1. /\ HereBecomes(g) /\ detached' = detached \cup {t}
      /\ UNCHANGED <<here, open, alive, sync, saved>>
  BY DEF DetachCurrentTab
<1>2. Whole(Here) /\ TabsOf(Here) \subseteq open \ detached  BY HereIsWhole
<1>3. Whole(g) /\ g.id = Here.id /\ TabsOf(g) = TabsOf(Here) \ {t}  BY <1>2, WithoutWhole
<1>4. t \in TabsOf(Here)
  <2>1. PICK p \in Here.shown : t \in Here.panes[p]  BY DEF DetachCurrentTab
  <2> QED  BY <2>1, ShownIsPane
<1>5. detached \subseteq open /\ open \subseteq Tabs  BY DEF PanesInv
<1>6. open' \ detached' = ((open \ detached) \ TabsOf(Here)) \cup TabsOf(g)
  BY <1>1, <1>2, <1>3, <1>4
<1>7. here' \in DOMAIN groups' /\ Spread(groups', open' \ detached') /\ Here' = g
  BY <1>1, <1>3, <1>6, HereSwapped
<1>8. SyncInSight'
  <2>1. TabsOf(Here) \subseteq (TabsOf(Here))' \cup {t}  BY <1>3, <1>7
  <2> QED  BY <1>1, <2>1, SyncStays DEF PanesInv
<1>9. detached' \subseteq open'  BY <1>1, <1>2, <1>4, <1>5
<1> QED  BY <1>1, <1>5, <1>7, <1>8, <1>9 DEF PanesInv

LEMMA CloseDetachedKeeps ==
    ASSUME PanesInv, NEW t \in Tabs, NEW p \in Here.shown, CloseDetached(t, p)
    PROVE  PanesInv' /\ open \subseteq open'
<1> DEFINE g == Moved(Here, {t}, p)
<1>1. /\ HereBecomes(g) /\ t \in detached /\ detached' = detached \ {t}
      /\ UNCHANGED <<here, open, alive, sync, saved>>
  BY DEF CloseDetached
<1>2. Whole(Here) /\ TabsOf(Here) \subseteq open \ detached  BY HereIsWhole
<1>3. Whole(g) /\ g.id = Here.id /\ TabsOf(g) = TabsOf(Here) \cup {t}  BY <1>2, MovedWhole
<1>4. detached \subseteq open /\ open \subseteq Tabs  BY DEF PanesInv
<1>5. open' \ detached' = ((open \ detached) \ TabsOf(Here)) \cup TabsOf(g)
  BY <1>1, <1>2, <1>3, <1>4
<1>6. \A u \in TabsOf(g) : u \in open \ detached => u \in TabsOf(Here)  BY <1>1, <1>3
<1>7. here' \in DOMAIN groups' /\ Spread(groups', open' \ detached') /\ Here' = g
  BY <1>1, <1>3, <1>5, <1>6, HereSwapped
<1>8. SyncInSight'
  <2>1. TabsOf(Here) \subseteq (TabsOf(Here))' /\ t \in (TabsOf(Here))'  BY <1>3, <1>7
  <2> QED  BY <1>1, <2>1, SyncStays DEF PanesInv
<1> QED  BY <1>1, <1>4, <1>7, <1>8 DEF PanesInv

\* "Single pane collects tabs within the current group, including its detached
\* sessions".
LEMMA SinglePaneKeeps ==
    ASSUME PanesInv, RestoreSinglePane
    PROVE  PanesInv' /\ open \subseteq open'
<1> DEFINE back == DetachedOf(Here)
           few == FewPanes(Here, 1)
           g == Moved(few, back, 1)
<1>1. /\ HereBecomes(g) /\ detached' = detached \ back
      /\ UNCHANGED <<here, open, alive, sync, saved>>
  BY DEF RestoreSinglePane
<1>2. Whole(Here) /\ TabsOf(Here) \subseteq open \ detached  BY HereIsWhole
<1>3. detached \subseteq open /\ open \subseteq Tabs  BY DEF PanesInv
<1>4. back \subseteq detached /\ back \in SUBSET Tabs  BY <1>3 DEF DetachedOf
<1>5. Whole(few) /\ few.id = Here.id /\ few.shown = 1..1 /\ TabsOf(few) = TabsOf(Here)
  BY <1>2, FewWhole
<1> HIDE DEF back, few
<1>6. Whole(g) /\ g.id = Here.id /\ TabsOf(g) = TabsOf(Here) \cup back
  <2>1. 1 \in few.shown  BY <1>5
  <2> QED  BY <1>4, <1>5, <2>1, MovedWhole
<1>7. open' \ detached' = ((open \ detached) \ TabsOf(Here)) \cup TabsOf(g)
  BY <1>1, <1>2, <1>3, <1>4, <1>6
<1>8. \A u \in TabsOf(g) : u \in open \ detached => u \in TabsOf(Here)  BY <1>4, <1>6
<1>9. here' \in DOMAIN groups' /\ Spread(groups', open' \ detached') /\ Here' = g
  BY <1>1, <1>6, <1>7, <1>8, HereSwapped
<1>10. SyncInSight'
  <2>1. TabsOf(Here) \subseteq (TabsOf(Here))' /\ back \subseteq (TabsOf(Here))'  BY <1>6, <1>9
  <2> QED  BY <1>1, <2>1, SyncStays DEF PanesInv
<1> QED  BY <1>1, <1>3, <1>9, <1>10 DEF PanesInv

-----------------------------------------------------------------------------
\* Groups.  There is an id for a new one: there are more ids than groups and
\* tabs.
LEMMA FreshIsFresh ==
    ASSUME PanesInv
    PROVE  FreshId \in Ids /\ \A i \in DOMAIN groups : FreshId # groups[i].id
<1> DEFINE ofGroups == {groups[i].id : i \in DOMAIN groups}
           ofTabs == {owner[t] : t \in Tabs}
           a == Len(groups)
           b == Cardinality(Tabs)
<1>1. DOMAIN groups = 1..a /\ a \in Nat /\ a <= MaxGroups /\ MaxGroups \in Nat
  BY PanesAssumption DEF PanesInv, Spread
<1>2. IsFiniteSet(Tabs) /\ b \in Nat  BY PanesAssumption, FS_CardinalityType
<1>3. IsFiniteSet(ofGroups) /\ Cardinality(ofGroups) <= a
  <2> DEFINE f == [i \in 1..a |-> groups[i].id]
  <2>1. f \in Surjection(1..a, ofGroups)  BY <1>1 DEF Surjection
  <2>2. IsFiniteSet(1..a) /\ Cardinality(1..a) = a
    <3>1. a \in Nat  BY <1>1
    <3> QED  BY <3>1, CountTo
  <2> HIDE DEF f, ofGroups, a
  <2> QED  BY <2>1, <2>2, FS_Surjection
<1>4. IsFiniteSet(ofTabs) /\ Cardinality(ofTabs) <= b
  <2> DEFINE f == [t \in Tabs |-> owner[t]]
  <2>1. f \in Surjection(Tabs, ofTabs)  BY DEF Surjection
  <2> HIDE DEF f, ofTabs
  <2> QED  BY <1>2, <2>1, FS_Surjection
<1> HIDE DEF ofGroups, ofTabs, a, b
<1>5. /\ IsFiniteSet(UsedIds) /\ Cardinality(UsedIds) \in Nat
      /\ Cardinality(UsedIds) <= MaxGroups + b
  <2>1. UsedIds = ofGroups \cup ofTabs  BY DEF UsedIds, ofGroups, ofTabs
  <2>2. IsFiniteSet(UsedIds)  BY <1>3, <1>4, <2>1, FS_Union
  <2>3. Cardinality(UsedIds) = Cardinality(ofGroups) + Cardinality(ofTabs)
                               - Cardinality(ofGroups \cap ofTabs)
    BY <1>3, <1>4, <2>1, FS_Union
  <2>4. IsFiniteSet(ofGroups \cap ofTabs)  BY <1>3, FS_Subset
  <2>5. /\ Cardinality(ofGroups) \in Nat /\ Cardinality(ofTabs) \in Nat
        /\ Cardinality(ofGroups \cap ofTabs) \in Nat /\ Cardinality(UsedIds) \in Nat
    BY <1>3, <1>4, <2>2, <2>4, FS_CardinalityType
  <2> QED  BY <1>1, <1>2, <1>3, <1>4, <2>2, <2>3, <2>5
<1>6. Ids \ UsedIds # {}
  <2> SUFFICES ASSUME Ids \subseteq UsedIds PROVE FALSE
    OBVIOUS
  <2>1. Cardinality(Ids) <= Cardinality(UsedIds)  BY <1>5, FS_Subset
  <2>2. Cardinality(Ids) = MaxGroups + b + 1  BY <1>1, <1>2, FS_Interval DEF Ids, b
  <2> QED  BY <1>1, <1>2, <1>5, <2>1, <2>2
<1>7. Ids \ UsedIds \subseteq Nat  BY DEF Ids
<1>8. \E n \in Ids \ UsedIds : \A m \in Ids \ UsedIds : n <= m  BY <1>6, <1>7, LeastOf
<1>9. FreshId \in Ids \ UsedIds  BY <1>8 DEF FreshId
<1> QED  BY <1>9 DEF UsedIds

LEMMA NewIsGroup ==
    ASSUME PanesInv, NEW name \in AnyName, NEW savedName \in AnyName, NEW default \in BOOLEAN,
           NEW shown \in SUBSET (1..MaxPanes)
    PROVE  /\ NewGroup(name, savedName, default, shown) \in AnyGroup
           /\ NewGroup(name, savedName, default, shown).id = FreshId
           /\ NewGroup(name, savedName, default, shown).shown = shown
<1> DEFINE none == [p \in 1..FirstPanes |-> {}]
<1>1. none \in Seq(SUBSET Tabs)
  <2>1. none \in [1..FirstPanes -> SUBSET Tabs] /\ FirstPanes \in Nat  BY PanesAssumption
  <2> HIDE DEF none
  <2> QED  BY <2>1
<1>2. FreshId \in Ids  BY FreshIsFresh
<1> HIDE DEF none
<1>3. NewGroup(name, savedName, default, shown) =
        [id |-> FreshId, name |-> name, saved |-> savedName, default |-> default,
         panes |-> none, shown |-> shown]
  BY DEF NewGroup, none
<1> QED  BY <1>1, <1>2, <1>3 DEF AnyGroup

\* A group with other names.
LEMMA Relabeled ==
    ASSUME NEW g, Whole(g), NEW h \in AnyGroup,
           h.id = g.id, h.panes = g.panes, h.shown = g.shown
    PROVE  Whole(h) /\ TabsOf(h) = TabsOf(g)
BY DEF Whole, TabsOf

LEMMA ActivateKeeps ==
    ASSUME PanesInv, NEW i \in DOMAIN groups, ActivatePanelGroup(i)
    PROVE  PanesInv' /\ open \subseteq open'
<1>1. here' = i /\ sync' = {} /\ UNCHANGED <<groups, detached, open, alive, saved>>
  BY DEF ActivatePanelGroup, StopSynchronization
<1>2. SyncInSight'  BY <1>1, SyncStops
<1> QED  BY <1>1, <1>2 DEF PanesInv

LEMMA EmptyGroup ==
    ASSUME PanesInv
    PROVE  /\ Whole(NewGroup(Ungrouped, NotSaved, TRUE, {1}))
           /\ TabsOf(NewGroup(Ungrouped, NotSaved, TRUE, {1})) = {}
<1> DEFINE g == NewGroup(Ungrouped, NotSaved, TRUE, {1})
<1>0. FirstPanes \in Nat /\ FirstPanes >= 2 /\ MaxPanes >= FirstPanes /\ MaxPanes \in Nat
  BY PanesAssumption
<1>1. g \in AnyGroup /\ g.shown = {1}
  <2>1. {1} \in SUBSET (1..MaxPanes)  BY <1>0
  <2>2. Ungrouped \in AnyName /\ NotSaved \in AnyName  BY DEF AnyName
  <2> HIDE DEF Ungrouped, NotSaved
  <2>3. \A b \in BOOLEAN : /\ NewGroup(Ungrouped, NotSaved, b, {1}) \in AnyGroup
                           /\ NewGroup(Ungrouped, NotSaved, b, {1}).shown = {1}
    BY ONLY PanesInv, <2>1, <2>2, NewIsGroup
  <2> QED  BY ONLY <2>3, Zenon
<1>2. g.panes = [p \in 1..FirstPanes |-> {}]  BY DEF NewGroup
<1> HIDE DEF g
<1>3. DOMAIN g.panes = 1..FirstPanes /\ \A p \in 1..FirstPanes : g.panes[p] = {}  BY <1>2
<1>4. Len(g.panes) = FirstPanes
  <2>1. g.panes \in Seq(SUBSET Tabs)  BY <1>1 DEF AnyGroup
  <2> QED  BY <1>0, <1>3, <2>1
<1>5. Whole(g)
  <2>1. Apart(g.panes)  BY <1>3 DEF Apart
  <2>2. Len(g.panes) \in FirstPanes..MaxPanes  BY <1>0, <1>4
  <2>3. g.shown # {} /\ g.shown \subseteq DOMAIN g.panes  BY <1>0, <1>1, <1>3
  <2>4. \A p \in DOMAIN g.panes \ g.shown : g.panes[p] = {}  BY <1>3
  <2> QED  BY <1>1, <2>1, <2>2, <2>3, <2>4 DEF Whole
<1>6. TabsOf(g) = {}  BY <1>3, TabsOfGroup
<1> QED  BY <1>5, <1>6 DEF g

LEMMA Alone ==
    ASSUME NEW g, Whole(g)
    PROVE  Spread(<<g>>, TabsOf(g))
<1> DEFINE gs == <<g>>
<1>1. g \in AnyGroup  BY DEF Whole
<1>2. gs \in Seq(AnyGroup) /\ Len(gs) = 1 /\ DOMAIN gs = {1} /\ gs[1] = g  BY <1>1
<1>3. Len(gs) \in 1..MaxGroups  BY <1>2, PanesAssumption
<1> HIDE DEF gs
<1>4. Spread(gs, TabsOf(g))  BY <1>2, <1>3 DEF Spread
<1> QED  BY <1>4 DEF gs

LEMMA CloseGroupKeeps ==
    ASSUME PanesInv, NEW i \in DOMAIN groups, ClosePanelGroup(i)
    PROVE  PanesInv'
<1> DEFINE ts == TabsOf(groups[i])
           ds == DetachedOf(groups[i])
<1>1. /\ groups' = ClosedGroups(groups, i) /\ here' = ShownAfterClose(groups, i, here)
      /\ detached' = detached \ ds /\ open' = open \ (ts \cup ds)
      /\ sync' = {} /\ UNCHANGED <<alive, saved>>
  BY DEF ClosePanelGroup, StopSynchronization
<1>2. /\ here \in DOMAIN groups /\ Spread(groups, open \ detached)
      /\ detached \subseteq open /\ open \subseteq Tabs
  BY DEF PanesInv
<1>3. ts \subseteq open \ detached  BY <1>2, SpreadAt
<1>4. ds \subseteq detached  BY DEF DetachedOf
<1> HIDE DEF ts, ds
<1>5. open' \ detached' = (open \ detached) \ ts  BY <1>1, <1>2, <1>3, <1>4
<1>6. detached' \subseteq open' /\ open' \subseteq Tabs  BY <1>1, <1>2, <1>3
<1>7. DOMAIN groups = 1..Len(groups) /\ Len(groups) \in Nat /\ i \in 1..Len(groups) /\ here \in 1..Len(groups)
  BY <1>2, SpreadAt
<1>8. CASE Len(groups) = 1
  <2> DEFINE g == NewGroup(Ungrouped, NotSaved, TRUE, {1})
  <2>1. groups' = <<g>> /\ here' = 1
    <3>1. ClosedGroups(groups, i) = <<g>>  BY <1>8 DEF ClosedGroups
    <3> HIDE DEF g
    <3>2. ShownAfterClose(groups, i, here) = 1  BY <1>7, <1>8 DEF ShownAfterClose
    <3> QED  BY <1>1, <3>1, <3>2
  <2>2. (open \ detached) \ ts = {}
    <3>1. \A j \in DOMAIN groups : j = i  BY <1>7, <1>8
    <3> QED  BY <1>2, <3>1 DEF Spread, ts
  <2>3. Spread(<<g>>, {})
    <3>1. Whole(g) /\ TabsOf(g) = {}  BY EmptyGroup
    <3> HIDE DEF g
    <3>2. Spread(<<g>>, TabsOf(g))  BY <3>1, Alone
    <3> QED  BY <3>1, <3>2
  <2> HIDE DEF g
  <2>4. here' \in DOMAIN groups'  BY <2>1
  <2>5. Spread(groups', open' \ detached')  BY <1>5, <2>1, <2>2, <2>3
  <2>6. SyncInSight'  BY <1>1, SyncStops
  <2> QED  BY <1>1, <1>6, <2>4, <2>5, <2>6 DEF PanesInv
<1>9. CASE Len(groups) # 1
  <2>1. Len(groups) > 1  BY <1>7, <1>9
  <2>2. groups' = RemoveAt(groups, i)  BY <1>1, <1>9 DEF ClosedGroups
  <2>3. /\ Spread(RemoveAt(groups, i), (open \ detached) \ ts)
        /\ DOMAIN RemoveAt(groups, i) = 1..(Len(groups) - 1)
    BY <1>2, <2>1, Dropped DEF ts
  <2>4. here' \in 1..(Len(groups) - 1)
    BY <1>1, <1>7, <1>9, <2>1 DEF ShownAfterClose
  <2>5. SyncInSight'  BY <1>1, SyncStops
  <2> QED  BY <1>1, <1>5, <1>6, <2>2, <2>3, <2>4, <2>5 DEF PanesInv
<1> QED  BY <1>8, <1>9

\* A group g is added to gs and shown; the group left goes if it is to go.
LEMMA GroupAdded ==
    ASSUME NEW gs, NEW ts, Spread(gs, ts), here \in DOMAIN gs, Len(gs) < MaxGroups,
           NEW g, Whole(g), \A i \in DOMAIN gs : g.id # gs[i].id, TabsOf(g) \cap ts = {},
           AddedBecomes(Append(gs, g)), sync' = {}, open' \ detached' = ts \cup TabsOf(g),
           detached' \subseteq open', open' \subseteq Tabs, alive' \in [Tabs -> BOOLEAN],
           CanOpen(saved')
    PROVE  PanesInv'
<1> DEFINE hs == Append(gs, g)
           us == ts \cup TabsOf(g)
<1>1. Spread(hs, us)  BY Added
<1>2. DOMAIN gs = 1..Len(gs) /\ Len(gs) \in Nat  BY DEF Spread
<1>3. Len(hs) = Len(gs) + 1 /\ here \in DOMAIN hs
  <2>1. gs \in Seq(AnyGroup) /\ g \in AnyGroup  BY DEF Spread, Whole
  <2> QED  BY <1>2, <2>1
<1> HIDE DEF hs, us
<1>4. CASE IsDiscarded(hs[here])
  <2>1. groups' = RemoveAt(hs, here) /\ here' = Len(hs) - 1
    BY <1>4 DEF AddedBecomes, hs
  <2>2. us \ TabsOf(hs[here]) = us  BY <1>4 DEF IsDiscarded
  <2>3. /\ Spread(RemoveAt(hs, here), us \ TabsOf(hs[here]))
        /\ DOMAIN RemoveAt(hs, here) = 1..(Len(hs) - 1)
    BY <1>1, <1>2, <1>3, Dropped
  <2>4. here' \in DOMAIN groups'  BY <1>2, <1>3, <2>1, <2>3
  <2>5. Spread(groups', open' \ detached')  BY <2>1, <2>2, <2>3 DEF us
  <2>6. SyncInSight'  BY SyncStops
  <2> QED  BY <2>4, <2>5, <2>6 DEF PanesInv
<1>5. CASE ~ IsDiscarded(hs[here])
  <2>1. groups' = hs /\ here' = Len(hs)  BY <1>5 DEF AddedBecomes, hs
  <2>2. here' \in DOMAIN groups'
    <3>1. DOMAIN hs = 1..Len(hs)  BY <1>1 DEF Spread
    <3> QED  BY <1>2, <1>3, <2>1, <3>1
  <2>3. Spread(groups', open' \ detached')  BY <1>1, <2>1 DEF us
  <2>4. SyncInSight'  BY SyncStops
  <2> QED  BY <2>2, <2>3, <2>4 DEF PanesInv
<1> QED  BY <1>4, <1>5

\* A new group that is filled.
LEMMA MadeIsGroup ==
    ASSUME PanesInv, NEW name \in GroupNames, NEW shown \in SUBSET (1..MaxPanes)
    PROVE  /\ NewGroup(name, name, FALSE, shown) \in AnyGroup
           /\ NewGroup(name, name, FALSE, shown).id = FreshId
           /\ NewGroup(name, name, FALSE, shown).shown = shown
<1>1. name \in AnyName  BY DEF AnyName
<1>2. \A b \in BOOLEAN : /\ NewGroup(name, name, b, shown) \in AnyGroup
                         /\ NewGroup(name, name, b, shown).id = FreshId
                         /\ NewGroup(name, name, b, shown).shown = shown
  BY ONLY PanesInv, <1>1, NewIsGroup, shown \in SUBSET (1..MaxPanes)
<1> QED  BY ONLY <1>2, Zenon

LEMMA FilledWhole ==
    ASSUME NEW made \in AnyGroup,
           NEW panes \in Seq(SUBSET Tabs), NEW shown \in SUBSET (1..MaxPanes), made.shown = shown,
           Len(panes) \in FirstPanes..MaxPanes, shown # {}, shown \subseteq DOMAIN panes,
           \A p \in DOMAIN panes \ shown : panes[p] = {}, Apart(panes)
    PROVE  LET g == [made EXCEPT !.panes = panes]
           IN  Whole(g) /\ g.id = made.id /\ g.panes = panes /\ g.shown = shown
<1> DEFINE g == [made EXCEPT !.panes = panes]
<1>1. g = Laid(made, panes, shown)  BY DEF Laid, AnyGroup
<1>2. /\ Whole(Laid(made, panes, shown)) /\ Laid(made, panes, shown).id = made.id
      /\ Laid(made, panes, shown).panes = panes /\ Laid(made, panes, shown).shown = shown
  BY LaidWhole
<1> HIDE DEF g
<1>3. Whole(g) /\ g.id = made.id /\ g.panes = panes /\ g.shown = shown  BY <1>1, <1>2
<1> QED  BY <1>3 DEF g

LEMMA NothingDiscarded == \A g : EndedWith(g) = {}
BY DEF EndedWith, IsDiscarded

LEMMA SavedCanOpen ==
    ASSUME CanOpen(saved), NEW name, NEW def, def.shown \in (SUBSET (1..MaxPanes)) \ {{}}
    PROVE  CanOpen(SavedWith(name, def))
BY DEF CanOpen, SavedWith

\* "The selected live sessions move into the group without reconnecting".
LEMMA CreateGroupKeeps ==
    ASSUME PanesInv, NEW name \in GroupNames, NEW ts \in SUBSET Tabs, CreatePanelGroup(name, ts)
    PROVE  PanesInv' /\ open \subseteq open'
<1> DEFINE included == {p \in DOMAIN Here.panes : Here.panes[p] \cap ts # {}}
           n == Cardinality(included)
           shown == 1..n
           size == IF n > FirstPanes THEN n ELSE FirstPanes
           left == Without(Here, ts)
           Panes(at) == [p \in 1..size |-> IF p <= n THEN Here.panes[at[p]] \cap ts ELSE {}]
           Filled(at) == [NewGroup(name, name, FALSE, shown) EXCEPT !.panes = Panes(at)]
<1>1. /\ ts # {} /\ ts \subseteq TabsOf(Here) /\ Len(groups) < MaxGroups
      /\ open' = open /\ detached' = detached /\ alive' = alive /\ sync' = {}
  BY NothingDiscarded DEF CreatePanelGroup, StopSynchronization
<1>2. PICK at \in Bijection(1..n, included) :
         /\ AddedBecomes(Append([groups EXCEPT ![here] = left], Filled(at)))
         /\ saved' = SavedWith(name, Definition(Filled(at), ts))
  BY DEF CreatePanelGroup
<1> DEFINE m == Panes(at)
           g == Filled(at)
           gs == [groups EXCEPT ![here] = left]
           us == (open \ detached) \ ts
<1>3. /\ Whole(Here) /\ DOMAIN Here.panes = 1..Len(Here.panes) /\ Len(Here.panes) \in FirstPanes..MaxPanes
      /\ Apart(Here.panes) /\ TabsOf(Here) \subseteq open \ detached
      /\ \A t : t \in TabsOf(Here) <=> \E p \in DOMAIN Here.panes : t \in Here.panes[p]
  BY HereIsWhole, TabsOfGroup
<1>4. n \in Nat /\ n >= 1 /\ n <= MaxPanes
  <2>1. IsFiniteSet(1..Len(Here.panes)) /\ Cardinality(1..Len(Here.panes)) = Len(Here.panes)
    <3> DEFINE k == Len(Here.panes)
    <3>1. k \in Nat  BY <1>3, PanesAssumption
    <3> QED  BY <3>1, CountTo
  <2>2. included \subseteq 1..Len(Here.panes)  BY <1>3
  <2>3. included # {}  BY <1>1, <1>3
  <2> HIDE DEF included
  <2>4. IsFiniteSet(included) /\ Cardinality(included) <= Len(Here.panes)
    BY <2>1, <2>2, FS_Subset
  <2>5. n \in Nat /\ n # 0  BY <2>3, <2>4, FS_CardinalityType, FS_EmptySet
  <2> QED  BY <1>3, <2>4, <2>5, PanesAssumption
<1>5. /\ \A p \in 1..n : at[p] \in included
      /\ \A p, q \in 1..n : at[p] = at[q] => p = q
      /\ \A q \in included : \E p \in 1..n : at[p] = q
  <2> HIDE DEF included, n
  <2> QED  BY DEF Bijection, Injection, Surjection, IsInjective
<1> HIDE DEF n
<1>6. size \in FirstPanes..MaxPanes /\ n <= size /\ size \in Nat  BY <1>4, PanesAssumption
<1> HIDE DEF size
<1>7. m \in Seq(SUBSET Tabs) /\ Len(m) = size /\ DOMAIN m = 1..size
  <2>1. m \in [1..size -> SUBSET Tabs] /\ DOMAIN m = 1..size  OBVIOUS
  <2> HIDE DEF m
  <2> QED  BY <1>6, <2>1
<1>8. \A p \in 1..size : m[p] = IF p <= n THEN Here.panes[at[p]] \cap ts ELSE {}
  OBVIOUS
<1> HIDE DEF m
<1>9. Apart(m)
  <2> SUFFICES ASSUME NEW p \in 1..size, NEW q \in 1..size, NEW t \in m[p], t \in m[q] PROVE p = q
    BY <1>7 DEF Apart
  <2>1. p \in 1..n /\ q \in 1..n
    <3>1. p <= n /\ q <= n  BY <1>8
    <3> QED  BY <1>4, <1>6, <3>1
  <2>2. t \in Here.panes[at[p]] /\ t \in Here.panes[at[q]]  BY <1>4, <1>8, <2>1
  <2>3. at[p] = at[q]  BY <1>3, <1>5, <2>1, <2>2 DEF Apart
  <2> QED  BY <1>5, <2>1, <2>3
<1>10. /\ shown \in SUBSET (1..MaxPanes) /\ shown # {} /\ shown \subseteq DOMAIN m
       /\ \A p \in DOMAIN m \ shown : m[p] = {}
       /\ Len(m) \in FirstPanes..MaxPanes
  BY <1>4, <1>6, <1>7, <1>8, PanesAssumption
<1>11. g = [NewGroup(name, name, FALSE, shown) EXCEPT !.panes = m]  BY DEF m
<1> HIDE DEF g
<1>12. Whole(g) /\ g.id = FreshId /\ g.panes = m /\ g.shown = shown
  <2> DEFINE made == NewGroup(name, name, FALSE, shown)
  <2>1. g = [made EXCEPT !.panes = m]  BY <1>11
  <2>2. made \in AnyGroup /\ made.id = FreshId /\ made.shown = shown  BY <1>10, MadeIsGroup
  <2> HIDE DEF shown, made
  <2> QED  BY <1>7, <1>9, <1>10, <2>1, <2>2, FilledWhole
<1>13. TabsOf(g) = ts
  <2>1. ASSUME NEW t \in ts PROVE \E p \in 1..size : t \in m[p]
    <3>1. PICK q \in DOMAIN Here.panes : t \in Here.panes[q]  BY <1>1, <1>3
    <3>2. q \in included  BY <3>1
    <3>3. PICK p \in 1..n : at[p] = q  BY <1>5, <3>2
    <3>4. p \in 1..size /\ p <= n  BY <1>4, <1>6
    <3>5. t \in m[p]  BY <1>8, <3>1, <3>3, <3>4
    <3> QED  BY <3>4, <3>5
  <2>2. ASSUME NEW p \in 1..size, NEW t \in m[p] PROVE t \in ts  BY <1>8, <2>2
  <2>3. \A t : t \in TabsOf(g) <=> \E p \in 1..size : t \in m[p]  BY <1>7, <1>12, TabsOfGroup
  <2> QED  BY <2>1, <2>2, <2>3
<1>14. /\ here \in DOMAIN groups /\ Spread(groups, open \ detached) /\ CanOpen(saved)
       /\ detached \subseteq open /\ open \subseteq Tabs /\ alive \in [Tabs -> BOOLEAN]
  BY DEF PanesInv
<1>15. Whole(left) /\ left.id = Here.id /\ TabsOf(left) = TabsOf(Here) \ ts
  BY <1>3, WithoutWhole
<1> HIDE DEF left, shown
<1>16. Spread(gs, us)
  <2>1. Spread(gs, ((open \ detached) \ TabsOf(Here)) \cup TabsOf(left))
    BY <1>14, <1>15, Swapped DEF Here
  <2>2. ((open \ detached) \ TabsOf(Here)) \cup TabsOf(left) = us  BY <1>1, <1>3, <1>15
  <2> QED  BY <2>1, <2>2
<1>17. /\ here \in DOMAIN gs /\ DOMAIN gs = DOMAIN groups /\ Len(gs) = Len(groups)
       /\ \A i \in DOMAIN gs : gs[i].id = groups[i].id
  <2>1. groups \in Seq(AnyGroup) /\ left \in AnyGroup  BY <1>14, <1>15 DEF Spread, Whole
  <2> QED  BY <1>14, <1>15, <2>1 DEF Here
<1> HIDE DEF gs
<1>18. \A i \in DOMAIN gs : g.id # gs[i].id  BY <1>12, <1>17, FreshIsFresh
<1>19. AddedBecomes(Append(gs, g))  BY <1>2 DEF gs, g
<1>20. TabsOf(g) \cap us = {} /\ open' \ detached' = us \cup TabsOf(g)
  BY <1>1, <1>3, <1>13
<1>21. CanOpen(saved')
  <2>1. saved' = SavedWith(name, Definition(g, ts))  BY <1>2 DEF g
  <2>2. Definition(g, ts).shown = shown  BY <1>12 DEF Definition
  <2>3. Definition(g, ts).shown \in (SUBSET (1..MaxPanes)) \ {{}}  BY <1>10, <2>2
  <2> QED  BY <1>14, <2>1, <2>3, SavedCanOpen
<1> HIDE DEF us
<1>22. PanesInv'
  BY <1>1, <1>12, <1>14, <1>16, <1>17, <1>18, <1>19, <1>20, <1>21, GroupAdded
<1> QED  BY <1>1, <1>22

\* A saved group is opened: its sessions are connected again.
LEMMA OpenGroupKeeps ==
    ASSUME PanesInv, NEW name \in GroupNames, NEW ts \in SUBSET Tabs, OpenPanelGroup(name, ts)
    PROVE  PanesInv' /\ open \subseteq open'
<1> DEFINE shown == saved[name].shown
           size == IF \A p \in shown : p <= FirstPanes THEN FirstPanes
                   ELSE CHOOSE p \in shown : \A q \in shown : q <= p
           made == NewGroup(name, name, FALSE, shown)
           Panes(place) == [p \in 1..size |-> {t \in ts : place[t] = p}]
           us == open \ detached
<1>1. /\ IsSaved(name) /\ Len(groups) < MaxGroups /\ ts \cap open = {}
      /\ open' = open \cup ts /\ alive' = [t \in Tabs |-> t \in ts \/ alive[t]]
      /\ detached' = detached /\ saved' = saved /\ sync' = {}
  BY NothingDiscarded DEF OpenPanelGroup, StopSynchronization
<1>2. PICK place \in [ts -> shown] :
         AddedBecomes(Append(groups, [made EXCEPT !.panes = Panes(place)]))
  BY DEF OpenPanelGroup
<1> DEFINE m == Panes(place)
           g == [made EXCEPT !.panes = m]
<1>3. /\ here \in DOMAIN groups /\ Spread(groups, us) /\ CanOpen(saved)
      /\ detached \subseteq open /\ open \subseteq Tabs /\ alive \in [Tabs -> BOOLEAN]
  BY DEF PanesInv
<1>4. shown \in SUBSET (1..MaxPanes) /\ shown # {}  BY <1>1, <1>3 DEF CanOpen, IsSaved
<1>5. /\ MaxPanes \in Nat /\ FirstPanes \in Nat /\ FirstPanes >= 2 /\ FirstPanes <= MaxPanes
  BY PanesAssumption
<1>6. made \in AnyGroup /\ made.id = FreshId /\ made.shown = shown  BY <1>4, MadeIsGroup
<1> HIDE DEF shown
<1>7. size \in FirstPanes..MaxPanes /\ size \in Nat /\ \A p \in shown : p <= size
  <2>1. CASE \A p \in shown : p <= FirstPanes  BY <1>5, <2>1
  <2>2. CASE ~ \A p \in shown : p <= FirstPanes
    <3>1. PICK p \in shown : ~ (p <= FirstPanes)  BY <2>2
    <3>2. \E k \in shown : \A q \in shown : q <= k  BY <1>4, <1>5, GreatestOf
    <3>3. size \in shown /\ \A q \in shown : q <= size  BY <2>2, <3>2
    <3> HIDE DEF size
    <3>4. size \in 1..MaxPanes /\ p \in 1..MaxPanes /\ p <= size  BY <1>4, <3>1, <3>3
    <3> QED  BY <1>5, <3>1, <3>3, <3>4
  <2> QED  BY <2>1, <2>2
<1> HIDE DEF size
<1>8. m \in Seq(SUBSET Tabs) /\ Len(m) = size /\ DOMAIN m = 1..size
  <2>1. m \in [1..size -> SUBSET Tabs] /\ DOMAIN m = 1..size  OBVIOUS
  <2> HIDE DEF m
  <2> QED  BY <1>7, <2>1
<1>9. \A p \in 1..size : m[p] = {t \in ts : place[t] = p}  OBVIOUS
<1> HIDE DEF m
<1>10. Apart(m)  BY <1>8, <1>9 DEF Apart
<1>11. shown \subseteq DOMAIN m
  <2> SUFFICES ASSUME NEW p \in shown PROVE p \in 1..size
    BY <1>8
  <2>1. p \in 1..MaxPanes /\ p <= size  BY <1>4, <1>7
  <2> QED  BY <1>7, <2>1
<1>12. \A p \in DOMAIN m \ shown : m[p] = {}  BY <1>2, <1>8, <1>9
<1> HIDE DEF made
<1>13. Whole(g) /\ g.id = FreshId /\ g.panes = m
  <2>1. Len(m) \in FirstPanes..MaxPanes  BY <1>7, <1>8
  <2> QED  BY <1>4, <1>6, <1>8, <1>10, <1>11, <1>12, <2>1, FilledWhole
<1> HIDE DEF g
<1>14. TabsOf(g) = ts
  <2>1. \A t : t \in TabsOf(g) <=> \E p \in 1..size : t \in m[p]  BY <1>8, <1>13, TabsOfGroup
  <2>2. ASSUME NEW t \in ts PROVE \E p \in 1..size : t \in m[p]
    <3>1. place[t] \in 1..size  BY <1>2, <1>8, <1>11
    <3> QED  BY <1>9, <3>1
  <2> QED  BY <1>9, <2>1, <2>2
<1>15. \A i \in DOMAIN groups : g.id # groups[i].id  BY <1>13, FreshIsFresh
<1>16. AddedBecomes(Append(groups, g))  BY <1>2 DEF g, m
<1>17. /\ TabsOf(g) \cap us = {} /\ open' \ detached' = us \cup TabsOf(g)
       /\ detached' \subseteq open' /\ open' \subseteq Tabs
  BY <1>1, <1>3, <1>14
<1>18. alive' \in [Tabs -> BOOLEAN] /\ CanOpen(saved')  BY <1>1, <1>3
<1> HIDE DEF us
<1>19. PanesInv'
  BY <1>1, <1>3, <1>13, <1>15, <1>16, <1>17, <1>18, GroupAdded
<1> QED  BY <1>1, <1>19

\* What can be saved of a group can be opened.
LEMMA DefinitionCanOpen ==
    ASSUME PanesInv, NEW ts
    PROVE  Definition(Here, ts).shown \in (SUBSET (1..MaxPanes)) \ {{}}
<1>1. Here.shown \in SUBSET (1..MaxPanes) /\ Here.shown # {}  BY HereIsWhole
<1>2. Definition(Here, ts).shown = Here.shown  BY DEF Definition
<1> QED  BY <1>1, <1>2

LEMMA SaveActiveKeeps ==
    ASSUME PanesInv, SaveActivePanelGroup
    PROVE  PanesInv' /\ open \subseteq open'
<1> DEFINE g == [Here EXCEPT !.saved = Here.name]
<1>1. /\ HereBecomes(g) /\ saved' = SavedWith(Here.name, Definition(Here, Tabs))
      /\ UNCHANGED <<here, detached, open, alive, sync>>
  BY DEF SaveActivePanelGroup
<1>2. CanOpen(saved')  BY <1>1, SavedCanOpen, DefinitionCanOpen DEF PanesInv
<1>3. Whole(Here) /\ Here \in AnyGroup  BY HereIsWhole
<1>4. g \in AnyGroup /\ g.id = Here.id /\ g.panes = Here.panes /\ g.shown = Here.shown
  BY <1>3 DEF AnyGroup
<1> HIDE DEF g
<1>5. Whole(g) /\ TabsOf(g) = TabsOf(Here)  BY <1>3, <1>4, Relabeled
<1> QED  BY <1>1, <1>2, <1>4, <1>5, LayoutKeeps

LEMMA RenameActiveKeeps ==
    ASSUME PanesInv, NEW name \in GroupNames, RenameActivePanelGroup(name)
    PROVE  PanesInv' /\ open \subseteq open'
<1> DEFINE f == [Here EXCEPT !.name = name, !.default = FALSE, !.saved = name]
           g == [Here EXCEPT !.name = name, !.default = FALSE]
           defs == [n \in (DOMAIN saved \ {Here.saved}) \cup {name} |->
                      IF n = name THEN saved[Here.saved] ELSE saved[n]]
<1>1. /\ \/ IsSaved(Here.saved) /\ saved' = defs /\ HereBecomes(f)
         \/ saved' = saved /\ HereBecomes(g)
      /\ UNCHANGED <<here, detached, open, alive, sync>>
  BY DEF RenameActivePanelGroup
<1>2. Whole(Here) /\ Here \in AnyGroup  BY HereIsWhole
<1>3. CanOpen(saved)  BY DEF PanesInv
<1>4. CanOpen(saved')
  <2>1. CASE saved' = saved  BY <1>3, <2>1
  <2>2. CASE IsSaved(Here.saved) /\ saved' = defs
    BY <1>3, <2>2 DEF CanOpen, IsSaved
  <2> QED  BY <1>1, <2>1, <2>2
<1>5. /\ f \in AnyGroup /\ f.id = Here.id /\ f.panes = Here.panes /\ f.shown = Here.shown
      /\ g \in AnyGroup /\ g.id = Here.id /\ g.panes = Here.panes /\ g.shown = Here.shown
  BY <1>2 DEF AnyGroup, AnyName
<1> HIDE DEF f, g, defs
<1>6. CASE HereBecomes(f)
  <2>1. Whole(f) /\ TabsOf(f) = TabsOf(Here)  BY <1>2, <1>5, Relabeled
  <2> QED  BY <1>1, <1>4, <1>5, <1>6, <2>1, LayoutKeeps
<1>7. CASE HereBecomes(g)
  <2>1. Whole(g) /\ TabsOf(g) = TabsOf(Here)  BY <1>2, <1>5, Relabeled
  <2> QED  BY <1>1, <1>4, <1>5, <1>7, <2>1, LayoutKeeps
<1> QED  BY <1>1, <1>6, <1>7

\* managePanelGroups: the open groups of a saved one are labeled anew.
LEMMA RematchedKeeps ==
    ASSUME PanesInv, NEW old, NEW new \in AnyName, groups' = Rematched(old, new), CanOpen(saved'),
           UNCHANGED <<here, detached, open, alive, sync>>
    PROVE  PanesInv' /\ open \subseteq open'
<1> DEFINE hs == Rematched(old, new)
           us == open \ detached
<1>1. here \in DOMAIN groups /\ Spread(groups, us)  BY DEF PanesInv
<1> DEFINE One(i) == IF groups[i].saved # old THEN groups[i]
                     ELSE IF new = NotSaved THEN [groups[i] EXCEPT !.saved = new]
                     ELSE [groups[i] EXCEPT !.saved = new, !.name = new]
<1>0. hs = [i \in DOMAIN groups |-> One(i)]  BY Zenon DEF Rematched
<1> HIDE DEF hs, One
<1>2. /\ hs = [i \in DOMAIN groups |-> hs[i]] /\ DOMAIN hs = DOMAIN groups
      /\ \A i \in DOMAIN groups : hs[i] = One(i)
  BY <1>0
<1>3. ASSUME NEW i \in DOMAIN groups
      PROVE  Whole(hs[i]) /\ hs[i].id = groups[i].id /\ TabsOf(hs[i]) = TabsOf(groups[i])
  <2> DEFINE g == groups[i]
             f == [g EXCEPT !.saved = new]
             h == [g EXCEPT !.saved = new, !.name = new]
  <2>1. Whole(g) /\ g \in AnyGroup  BY <1>1, SpreadAt DEF Whole
  <2>2. hs[i] = g \/ hs[i] = f \/ hs[i] = h
    <3>1. One(i) = g \/ One(i) = f \/ One(i) = h  BY DEF One
    <3> HIDE DEF g, f, h
    <3> QED  BY <1>2, <3>1
  <2> HIDE DEF g
  <2>3. /\ f \in AnyGroup /\ f.id = g.id /\ f.panes = g.panes /\ f.shown = g.shown
        /\ h \in AnyGroup /\ h.id = g.id /\ h.panes = g.panes /\ h.shown = g.shown
    BY <2>1 DEF AnyGroup
  <2> HIDE DEF f, h
  <2>4. /\ Whole(f) /\ TabsOf(f) = TabsOf(g)
        /\ Whole(h) /\ TabsOf(h) = TabsOf(g)
    BY <2>1, <2>3, Relabeled
  <2>5. Whole(hs[i]) /\ hs[i].id = g.id /\ TabsOf(hs[i]) = TabsOf(g)
    BY <2>1, <2>2, <2>3, <2>4
  <2> QED  BY <2>5 DEF g
<1>4. Spread(hs, us)
  <2>1. \A i \in DOMAIN groups : TabsOf(hs[i]) \subseteq us  BY <1>1, <1>3 DEF Spread
  <2>2. \A i, j \in DOMAIN groups : \A t \in TabsOf(hs[i]) : t \in TabsOf(hs[j]) => i = j
    BY <1>1, <1>3 DEF Spread
  <2>3. \A t \in us : \E i \in DOMAIN groups : t \in TabsOf(hs[i])  BY <1>1, <1>3 DEF Spread
  <2> QED  BY <1>1, <1>2, <1>3, <2>1, <2>2, <2>3, Changed
<1>5. here' \in DOMAIN groups' /\ Spread(groups', open' \ detached')
  BY <1>1, <1>2, <1>4 DEF hs
<1>6. SyncInSight'
  <2>1. (TabsOf(Here))' = TabsOf(Here)  BY <1>1, <1>3 DEF hs, Here
  <2> QED  BY <2>1, SyncStays DEF PanesInv
<1> QED  BY <1>5, <1>6 DEF PanesInv

LEMMA RenameSavedKeeps ==
    ASSUME PanesInv, NEW old \in GroupNames, NEW new \in GroupNames, RenameSavedGroup(old, new)
    PROVE  PanesInv' /\ open \subseteq open'
<1>1. /\ IsSaved(old)
      /\ saved' = [n \in (DOMAIN saved \ {old}) \cup {new} |-> IF n = new THEN saved[old] ELSE saved[n]]
      /\ groups' = Rematched(old, new) /\ UNCHANGED <<here, detached, open, alive, sync>>
  BY DEF RenameSavedGroup
<1>2. CanOpen(saved')  BY <1>1 DEF PanesInv, CanOpen, IsSaved
<1>3. new \in AnyName  BY DEF AnyName
<1> QED  BY <1>1, <1>2, <1>3, RematchedKeeps

LEMMA DeleteSavedKeeps ==
    ASSUME PanesInv, NEW name \in GroupNames, DeleteSavedGroup(name)
    PROVE  PanesInv' /\ open \subseteq open'
<1>1. /\ saved' = SavedWithout(name) /\ groups' = Rematched(name, NotSaved)
      /\ UNCHANGED <<here, detached, open, alive, sync>>
  BY DEF DeleteSavedGroup
<1>2. CanOpen(saved')  BY <1>1 DEF PanesInv, CanOpen, SavedWithout
<1>3. NotSaved \in AnyName  BY DEF AnyName
<1> QED  BY <1>1, <1>2, <1>3, RematchedKeeps

LEMMA SaveSelectionKeeps ==
    ASSUME PanesInv, NEW name, NEW ts, SaveSelection(name, ts)
    PROVE  PanesInv' /\ open \subseteq open'
<1>1. /\ saved' = SavedWith(name, Definition(Here, ts))
      /\ UNCHANGED <<groups, here, detached, open, alive, sync>>
  BY DEF SaveSelection
<1>2. CanOpen(saved')  BY <1>1, SavedCanOpen, DefinitionCanOpen DEF PanesInv
<1>3. SyncInSight'  BY <1>1 DEF PanesInv, SyncInSight, Here, TabsOf
<1> QED  BY <1>1, <1>2, <1>3 DEF PanesInv

-----------------------------------------------------------------------------
\* Synchronized input.
LEMMA ChooseKeeps ==
    ASSUME PanesInv, NEW ts, ChooseSynchronizationTargets(ts)
    PROVE  PanesInv' /\ open \subseteq open'
<1>1. /\ Cardinality(ts) >= 2 /\ sync' = ts
      /\ ts \subseteq {t \in UNION {Here.panes[p] : p \in Here.shown} : alive[t]}
      /\ UNCHANGED <<groups, here, detached, open, alive, saved>>
  BY DEF ChooseSynchronizationTargets
<1>2. (TabsOf(Here))' = TabsOf(Here)  BY <1>1 DEF Here, TabsOf
<1>3. TabsOf(Here) \subseteq open  BY HereIsWhole
<1>4. \A t \in ts : alive[t] /\ t \in TabsOf(Here)  BY <1>1, ShownIsPane
<1>5. Cardinality(sync') # 1  BY <1>1
<1>6. SyncInSight'  BY <1>1, <1>2, <1>3, <1>4, <1>5 DEF SyncInSight
<1> QED  BY <1>1, <1>6 DEF PanesInv

LEMMA ConfigureKeeps ==
    ASSUME PanesInv, ConfigureSynchronization
    PROVE  PanesInv' /\ open \subseteq open'
<1>1. sync' = {} /\ UNCHANGED <<groups, here, detached, open, alive, saved>>
  BY DEF ConfigureSynchronization, StopSynchronization
<1>2. SyncInSight'  BY <1>1, SyncStops
<1> QED  BY <1>1, <1>2 DEF PanesInv

-----------------------------------------------------------------------------
\* The end of the program and its next start: each detached tab goes to one
\* group, its own if there is one by its id.
LEMMA ReattachedOnce ==
    ASSUME PanesInv
    PROVE  /\ \A i \in DOMAIN groups : Reattached(groups[i]) \subseteq detached
           /\ \A i, j \in DOMAIN groups : \A t \in Reattached(groups[i]) :
                 t \in Reattached(groups[j]) => i = j
           /\ \A t \in detached : \E i \in DOMAIN groups : t \in Reattached(groups[i])
<1> DEFINE strays == {t \in detached : \A i \in DOMAIN groups : groups[i].id # owner[t]}
<1>1. \A g, t : t \in Reattached(g)
                <=> (t \in detached /\ owner[t] = g.id) \/ (g.id = Here.id /\ t \in strays)
  BY DEF Reattached, DetachedOf
<1>2. \A i, j \in DOMAIN groups : groups[i].id = groups[j].id => i = j  BY DEF PanesInv, Spread
<1>3. here \in DOMAIN groups /\ Here.id = groups[here].id  BY DEF PanesInv, Here
<1>4. \A t : t \in strays <=> t \in detached /\ \A i \in DOMAIN groups : groups[i].id # owner[t]
  OBVIOUS
<1> HIDE DEF strays
<1>5. \A i \in DOMAIN groups : Reattached(groups[i]) \subseteq detached  BY <1>1, <1>4
<1>6. ASSUME NEW i \in DOMAIN groups, NEW j \in DOMAIN groups,
             NEW t \in Reattached(groups[i]), t \in Reattached(groups[j])
      PROVE  i = j
  <2>1. groups[i].id = groups[j].id  BY <1>1, <1>4, <1>6
  <2> QED  BY <1>2, <2>1
<1>7. ASSUME NEW t \in detached PROVE \E i \in DOMAIN groups : t \in Reattached(groups[i])
  <2>1. CASE t \in strays  BY <1>1, <1>3, <2>1
  <2>2. CASE t \notin strays
    <3>1. PICK i \in DOMAIN groups : groups[i].id = owner[t]  BY <1>4, <2>2
    <3> QED  BY <1>1, <3>1
  <2> QED  BY <2>1, <2>2
<1> QED  BY <1>5, <1>6, <1>7

LEMMA RestartKeeps ==
    ASSUME PanesInv, Restart
    PROVE  PanesInv' /\ open \subseteq open'
<1> DEFINE Of(i) == Moved(groups[i], Reattached(groups[i]), First(groups[i].shown))
           gs == [i \in DOMAIN groups |-> Of(i)]
<1>1. /\ groups' = gs /\ detached' = {} /\ open' = UNION {TabsOf(gs[i]) : i \in DOMAIN gs}
      /\ alive' = [t \in Tabs |-> t \in open' \/ alive[t]]
      /\ sync' = {} /\ here' = here /\ saved' = saved
  BY DEF Restart
<1>2. /\ here \in DOMAIN groups /\ Spread(groups, open \ detached)
      /\ detached \subseteq open /\ open \subseteq Tabs /\ CanOpen(saved)
  BY DEF PanesInv
<1>3. ASSUME NEW i \in DOMAIN groups
      PROVE  /\ Whole(Of(i)) /\ Of(i).id = groups[i].id
             /\ TabsOf(Of(i)) = TabsOf(groups[i]) \cup Reattached(groups[i])
  <2>1. Whole(groups[i])  BY <1>2, SpreadAt
  <2>2. groups[i].shown \subseteq Nat /\ groups[i].shown # {}  BY <2>1 DEF Whole, AnyGroup
  <2>3. First(groups[i].shown) \in groups[i].shown  BY <2>2, FirstIsOne
  <2>4. Reattached(groups[i]) \in SUBSET Tabs  BY <1>2, ReattachedOnce
  <2> QED  BY <2>1, <2>3, <2>4, MovedWhole
<1> HIDE DEF Of
<1>4. /\ gs = [i \in DOMAIN groups |-> gs[i]] /\ DOMAIN gs = DOMAIN groups
      /\ \A i \in DOMAIN groups : gs[i] = Of(i)
  OBVIOUS
<1> HIDE DEF gs
<1>5. \A i \in DOMAIN groups :
         \A t : t \in TabsOf(gs[i]) <=> t \in TabsOf(groups[i]) \/ t \in Reattached(groups[i])
  BY <1>3, <1>4
<1>6. \A i \in DOMAIN groups : TabsOf(gs[i]) \subseteq open
  BY <1>2, <1>5, ReattachedOnce DEF Spread
<1>7. \A i, j \in DOMAIN groups : \A t \in TabsOf(gs[i]) : t \in TabsOf(gs[j]) => i = j
  BY <1>2, <1>5, ReattachedOnce DEF Spread
<1>8. ASSUME NEW t \in open PROVE \E i \in DOMAIN groups : t \in TabsOf(gs[i])
  <2>1. CASE t \in detached  BY <1>5, <2>1, ReattachedOnce
  <2>2. CASE t \notin detached
    <3>1. \E i \in DOMAIN groups : t \in TabsOf(groups[i])  BY <1>2, <2>2 DEF Spread
    <3> QED  BY <1>5, <3>1
  <2> QED  BY <2>1, <2>2
<1>9. Spread(gs, open)
  BY <1>2, <1>3, <1>4, <1>6, <1>7, <1>8, Changed
<1>10. open' = open
  <2>1. UNION {TabsOf(gs[i]) : i \in DOMAIN gs} = open  BY <1>4, <1>6, <1>8
  <2> QED  BY <1>1, <2>1
<1>11. SyncInSight'  BY <1>1, SyncStops
<1>12. open' \ detached' = open  BY <1>1, <1>10
<1> QED  BY <1>1, <1>2, <1>4, <1>9, <1>10, <1>11, <1>12 DEF PanesInv

-----------------------------------------------------------------------------
LEMMA StartsWhole == Init => PanesInv
<1> SUFFICES ASSUME Init PROVE PanesInv
  OBVIOUS
<1> DEFINE none == [p \in 1..FirstPanes |-> {}]
           g == [id |-> 1, name |-> Ungrouped, saved |-> NotSaved, default |-> TRUE,
                 panes |-> none, shown |-> {1}]
<1>1. /\ groups = <<g>> /\ here = 1 /\ detached = {} /\ open = {} /\ sync = {}
      /\ alive = [t \in Tabs |-> FALSE] /\ saved = [n \in {} |-> {}]
  BY DEF Init
<1>2. FirstPanes \in Nat /\ FirstPanes >= 2 /\ MaxPanes >= FirstPanes /\ MaxPanes \in Nat
  BY PanesAssumption
<1>3. none \in Seq(SUBSET Tabs) /\ Len(none) = FirstPanes /\ DOMAIN none = 1..FirstPanes
  <2>1. none \in [1..FirstPanes -> SUBSET Tabs] /\ DOMAIN none = 1..FirstPanes  OBVIOUS
  <2> HIDE DEF none
  <2> QED  BY <1>2, <2>1
<1>4. \A p \in 1..FirstPanes : none[p] = {}  OBVIOUS
<1>5. 1 \in Ids
  <2>1. Cardinality(Tabs) \in Nat /\ MaxGroups \in Nat  BY PanesAssumption, FS_CardinalityType
  <2> QED  BY <2>1 DEF Ids
<1> HIDE DEF none
<1>6. {1} \in SUBSET (1..MaxPanes)  BY <1>2
<1>7. g \in AnyGroup /\ g.panes = none /\ g.shown = {1}
  BY <1>3, <1>5, <1>6 DEF AnyGroup, AnyName
<1> HIDE DEF g
<1>8. Whole(g)
  <2>1. Apart(none)  BY <1>3, <1>4 DEF Apart
  <2>2. Len(none) \in FirstPanes..MaxPanes  BY <1>2, <1>3
  <2>3. {1} # {} /\ {1} \subseteq DOMAIN none  BY <1>2, <1>3
  <2> QED  BY <1>3, <1>4, <1>7, <2>1, <2>2, <2>3 DEF Whole
<1>9. TabsOf(g) = {}  BY <1>3, <1>4, <1>7, TabsOfGroup
<1>10. Spread(<<g>>, TabsOf(g))  BY <1>8, Alone
<1>11. Spread(groups, open \ detached)  BY <1>1, <1>9, <1>10
<1>12. SyncInSight  BY <1>1, FS_EmptySet DEF SyncInSight
<1>13. here \in DOMAIN groups  BY <1>1
<1>14. alive \in [Tabs -> BOOLEAN] /\ CanOpen(saved)  BY <1>1 DEF CanOpen
<1> QED  BY <1>1, <1>11, <1>12, <1>13, <1>14 DEF PanesInv

\* A command that neither closes nor reconnects ends no session.
LEMMA CommandKeeps ==
    ASSUME PanesInv, Next
    PROVE  PanesInv' /\ (Closing \/ Reconnecting \/ open \subseteq open')
<1>1. CASE TabCommand
  <2>1. CASE \E t \in Tabs, p \in Here.shown :
                ConnectSession(t, p) \/ MoveTabToPane(t, p) \/ CloseDetached(t, p)
    BY <2>1, ConnectKeeps, MoveTabKeeps, CloseDetachedKeeps
  <2>2. CASE \E t \in Tabs : TabFinished(t) \/ DetachCurrentTab(t)
    BY <2>2, FinishedKeeps, DetachKeeps
  <2>3. CASE Reconnecting
    <3>1. PICK t, fresh \in Tabs : Reconnect(t, fresh)  BY <2>3 DEF Reconnecting
    <3> QED  BY <2>3, <3>1, ReconnectKeeps
  <2> QED  BY <1>1, <2>1, <2>2, <2>3 DEF TabCommand
<1>2. CASE Closing
  <2>1. CASE \E t \in Tabs : CloseTab(t)  BY <1>2, <2>1, CloseTabKeeps
  <2>2. CASE \E i \in DOMAIN groups : ClosePanelGroup(i)  BY <1>2, <2>2, CloseGroupKeeps
  <2> QED  BY <1>2, <2>1, <2>2 DEF Closing
<1>3. CASE LayoutCommand
  BY <1>3, SplitKeeps, ClosePaneKeeps, OtherPaneKeeps, GridKeeps, SinglePaneKeeps DEF LayoutCommand
<1>4. CASE GroupCommand
  <2>1. CASE \E i \in DOMAIN groups : ActivatePanelGroup(i)  BY <2>1, ActivateKeeps
  <2>2. CASE \E name \in GroupNames, ts \in SUBSET Tabs :
                CreatePanelGroup(name, ts) \/ OpenPanelGroup(name, ts) \/ SaveSelection(name, ts)
    BY <2>2, CreateGroupKeeps, OpenGroupKeeps, SaveSelectionKeeps
  <2>3. CASE \E name \in GroupNames :
                RenameActivePanelGroup(name) \/ DeleteSavedGroup(name) \/ FocusPanelGroup(name)
    BY <2>3, RenameActiveKeeps, DeleteSavedKeeps, ActivateKeeps DEF FocusPanelGroup
  <2>4. CASE \E old, new \in GroupNames : RenameSavedGroup(old, new)  BY <2>4, RenameSavedKeeps
  <2>5. CASE SaveActivePanelGroup  BY <2>5, SaveActiveKeeps
  <2> QED  BY <1>4, <2>1, <2>2, <2>3, <2>4, <2>5 DEF GroupCommand
<1>5. CASE SyncCommand  BY <1>5, ChooseKeeps, ConfigureKeeps DEF SyncCommand
<1>6. CASE Restart  BY <1>6, RestartKeeps
<1> QED  BY <1>1, <1>2, <1>3, <1>4, <1>5, <1>6 DEF Next

LEMMA StutterKeeps ==
    ASSUME PanesInv, UNCHANGED vars
    PROVE  PanesInv' /\ open \subseteq open'
BY DEF PanesInv, vars, SyncInSight, Here, TabsOf

\* The panes of the groups hold every tab of no window once, whatever is done
\* to the layouts, the groups and the windows.
THEOREM PanesInductive == Spec => []PanesInv
<1>1. Init => PanesInv  BY StartsWhole
<1>2. PanesInv /\ [Next]_vars => PanesInv'  BY CommandKeeps, StutterKeeps
<1> QED  BY <1>1, <1>2, PTL DEF Spec

\* A tab of the invariant lies in no pane or in one.
LEMMA PlacedByInv ==
    ASSUME PanesInv, NEW t \in open
    PROVE  Cardinality(PlacesOf(t)) = IF t \in detached THEN 0 ELSE 1
<1>1. Spread(groups, open \ detached)  BY DEF PanesInv
<1>2. ASSUME NEW i \in DOMAIN groups
      PROVE  /\ Whole(groups[i]) /\ TabsOf(groups[i]) \subseteq open \ detached
             /\ DOMAIN groups[i].panes \subseteq 1..MaxPanes
  <2>1. Whole(groups[i]) /\ TabsOf(groups[i]) \subseteq open \ detached  BY <1>1, SpreadAt
  <2>2. groups[i].panes \in Seq(SUBSET Tabs) /\ Len(groups[i].panes) \in FirstPanes..MaxPanes
    BY <2>1 DEF Whole, AnyGroup
  <2>3. DOMAIN groups[i].panes = 1..Len(groups[i].panes)  BY <2>2
  <2> QED  BY <2>1, <2>2, <2>3, PanesAssumption
<1>3. \A i \in DOMAIN groups : t \in TabsOf(groups[i]) <=>
                                  \E p \in DOMAIN groups[i].panes : t \in groups[i].panes[p]
  BY TabsOfGroup
<1>4. CASE t \in detached
  <2>1. \A i \in DOMAIN groups : t \notin TabsOf(groups[i])  BY <1>2, <1>4
  <2>2. PlacesOf(t) = {}  BY <1>3, <2>1 DEF PlacesOf
  <2> QED  BY <1>4, <2>2, FS_EmptySet
<1>5. CASE t \notin detached
  <2>1. PICK i \in DOMAIN groups : t \in TabsOf(groups[i])  BY <1>1, <1>5 DEF Spread
  <2>2. PICK p \in DOMAIN groups[i].panes : t \in groups[i].panes[p]  BY <1>3, <2>1
  <2>3. p \in 1..MaxPanes  BY <1>2, <2>2
  <2>4. ASSUME NEW j \in DOMAIN groups, NEW q \in DOMAIN groups[j].panes, t \in groups[j].panes[q]
        PROVE  j = i /\ q = p
    <3>1. t \in TabsOf(groups[j])  BY <1>3, <2>4
    <3>2. j = i  BY <1>1, <2>1, <3>1 DEF Spread
    <3>3. Apart(groups[i].panes)  BY <1>2 DEF Whole
    <3> QED  BY <2>2, <2>4, <3>2, <3>3 DEF Apart
  <2>5. PlacesOf(t) = {<<i, p>>}
    <3>1. <<i, p>> \in PlacesOf(t)  BY <2>2, <2>3 DEF PlacesOf
    <3>2. ASSUME NEW at \in PlacesOf(t) PROVE at = <<i, p>>
      <4>1. /\ at \in (DOMAIN groups) \X (1..MaxPanes)
            /\ at[2] \in DOMAIN groups[at[1]].panes /\ t \in groups[at[1]].panes[at[2]]
        BY DEF PlacesOf
      <4>2. at = <<at[1], at[2]>> /\ at[1] \in DOMAIN groups  BY <4>1
      <4>3. at[1] = i /\ at[2] = p  BY <2>4, <4>1, <4>2
      <4> QED  BY <4>2, <4>3
    <3> QED  BY <3>1, <3>2
  <2> QED  BY <1>5, <2>5, FS_Singleton
<1> QED  BY <1>4, <1>5

\* Every tab there is lies in one pane its group shows or in a window of its
\* own, and what is typed into one tab goes to no other that is not in sight
\* ("Keep sessions reachable", "Synchronization stops when switching groups").
THEOREM TabsCanBeReached == Spec => []PanesSound
<1>1. PanesInv => PanesSound
  <2> SUFFICES ASSUME PanesInv PROVE PanesSound
    OBVIOUS
  <2>1. ASSUME NEW i \in DOMAIN groups
        PROVE  /\ groups[i].shown # {} /\ groups[i].shown \subseteq DOMAIN groups[i].panes
               /\ \A p \in DOMAIN groups[i].panes \ groups[i].shown : groups[i].panes[p] = {}
    <3>1. Whole(groups[i])  BY DEF PanesInv, Spread
    <3> QED  BY <3>1 DEF Whole
  <2>2. PlacedOnce  BY <2>1, PlacedByInv DEF PlacedOnce, PanesInv
  <2> QED  BY <2>2 DEF PanesSound, PanesInv
<1> QED  BY <1>1, PanesInductive, PTL

\* A session ends by closing its tab or its group or for a fresh one in its
\* place, and by nothing that is done to layouts, groups and windows ("The
\* selected live sessions move into the group without reconnecting").
THEOREM SessionsStay == Spec => SessionsKept
<1>1. PanesInv /\ [Next]_vars => [~ Closing /\ ~ Reconnecting => open \subseteq open']_vars
  <2> SUFFICES ASSUME PanesInv, [Next]_vars, ~ Closing, ~ Reconnecting PROVE open \subseteq open'
    OBVIOUS
  <2> QED  BY CommandKeeps, StutterKeeps
<1> QED  BY <1>1, PanesInductive, PTL DEF Spec, SessionsKept
=============================================================================
