------------------------------- MODULE Panes -------------------------------
(***************************************************************************)
(* The panel groups of the window, their panes, the windows of detached    *)
(* tabs and the tabs whose input is synchronized (mainwindow.cpp).  A      *)
(* group is a tree of splitters over some of its panes; the others are     *)
(* kept hidden for later.  One group is shown at a time.                   *)
(*                                                                         *)
(* Of the tree only its panes are kept.  Which shown pane is the active    *)
(* one and which of a pane's tabs is current are not: a press into a pane  *)
(* makes it active, and does nothing else to this state, so a command may  *)
(* find any shown pane active and any of its tabs current.  Every group's  *)
(* panes are its own here; the code keeps those of the group shown apart   *)
(* (m_panes) and copies them back before it shows another.                 *)
(***************************************************************************)
EXTENDS Integers, FiniteSets, SequencesExt

CONSTANTS Tabs,              \* the terminal tabs there can be
          GroupNames,        \* names a group may be given
          FirstPanes,        \* panes a group is made with: 4 in the code
          MaxPanes,          \* bound: panes of a group
          MaxGroups,         \* bound: open groups
          MaxCommands        \* bound: what the user does and servers end, in all

ASSUME PanesAssumption ==
    /\ FirstPanes \in Nat /\ FirstPanes >= 2 /\ MaxPanes \in Nat /\ MaxPanes >= FirstPanes
    /\ IsFiniteSet(Tabs) /\ MaxGroups \in Nat \ {0}

VARIABLES groups,            \* m_panelGroups
          here,              \* m_currentPanelGroup
          detached,          \* m_detachedTabs
          owner,             \* the "panelGroupId" of each tab
          open,              \* the tabs there are
          alive,             \* isSessionActive of each tab
          sync,              \* m_syncTargets
          saved,             \* panels/groups: the saved groups by name
          commands           \* counter of the bound

vars == <<groups, here, detached, owner, open, alive, sync, saved, commands>>

Ungrouped == "Ungrouped"
NotSaved == "none"
Ids == 1..(MaxGroups + Cardinality(Tabs) + 1)

UsedIds == {groups[i].id : i \in DOMAIN groups} \cup {owner[t] : t \in Tabs}
FreshId == CHOOSE n \in Ids \ UsedIds : \A m \in Ids \ UsedIds : n <= m

(***************************************************************************)
(* A group is [id, name, saved, default, panes, shown]: panes holds the    *)
(* tabs of each pane, shown the panes in its tree.                         *)
(***************************************************************************)
NewGroup(name, savedName, default, panes) ==
    [id |-> FreshId, name |-> name, saved |-> savedName, default |-> default,
     panes |-> [p \in 1..FirstPanes |-> {}], shown |-> panes]

TabsOf(g) == UNION Range(g.panes)
Here == groups[here]
GroupOf(t) == {i \in DOMAIN groups : t \in TabsOf(groups[i])}
DetachedOf(g) == {t \in detached : owner[t] = g.id}

First(panes) == CHOOSE p \in panes : \A q \in panes : p <= q
\* The shown pane after p, in a ring.
After(g, p) ==
    LET later == {q \in g.shown : q > p} IN IF later # {} THEN First(later) ELSE First(g.shown)

Moved(g, ts, p) == [g EXCEPT !.panes = [q \in DOMAIN @ |-> IF q = p THEN @[q] \cup ts ELSE @[q] \ ts]]
Without(g, ts) == [g EXCEPT !.panes = [q \in DOMAIN @ |-> @[q] \ ts]]

\* updateSynchronizationUi: only live tabs, and two of them at least.
Pruned(targets, living) ==
    LET left == {t \in targets : living[t] /\ t \in open'}
    IN  IF Cardinality(left) < 2 THEN {} ELSE left

Counted == commands < MaxCommands /\ commands' = commands + 1

HereBecomes(g) == groups' = [groups EXCEPT ![here] = g]
SamePlaces == UNCHANGED <<groups, here, detached, owner, open>>

(***************************************************************************)
(* Tabs.                                                                   *)
(***************************************************************************)
ConnectSession(t, p) ==
    /\ t \notin open /\ p \in Here.shown
    /\ HereBecomes(Moved(Here, {t}, p))
    /\ owner' = [owner EXCEPT ![t] = Here.id]
    /\ open' = open \cup {t}
    /\ alive' = [alive EXCEPT ![t] = TRUE]
    /\ UNCHANGED <<here, detached, sync, saved>>

TabFinished(t) ==
    /\ t \in open /\ alive[t]
    /\ alive' = [alive EXCEPT ![t] = FALSE]
    /\ SamePlaces
    /\ sync' = Pruned(sync, alive')
    /\ UNCHANGED saved

\* By its button, or by the session's own wish wherever its pane is; a
\* detached tab lies in no pane and is not found.
CloseTab(t) ==
    /\ GroupOf(t) # {}
    /\ groups' = [i \in DOMAIN groups |-> Without(groups[i], {t})]
    /\ open' = open \ {t}
    /\ sync' = Pruned(sync, alive)
    /\ UNCHANGED <<here, detached, owner, alive, saved>>

\* Where the fresh tab of a reconnection lands: the pane of the old one, unless
\* that is empty now and another shown pane has tabs.
Landing(g, t) ==
    LET p == CHOOSE q \in DOMAIN g.panes : t \in g.panes[q]
        others == {q \in g.shown \ {p} : g.panes[q] # {}}
    IN  IF g.panes[p] # {t} \/ others = {} THEN p ELSE First(others)

\* The tab's group is shown, a fresh tab opened in the place of the old one,
\* and the former group shown again, with the synchronization as it was.
Reconnect(t, fresh) ==
    /\ t \in open /\ ~alive[t] /\ fresh \notin open
    /\ IF t \in detached
       THEN /\ \E p \in Here.shown : HereBecomes(Moved(Here, {fresh}, p))
            /\ owner' = [owner EXCEPT ![fresh] = Here.id]
            /\ open' = open \cup {fresh}
       ELSE LET i == CHOOSE j \in GroupOf(t) : TRUE
                g == groups[i]
            IN  /\ groups' = [groups EXCEPT ![i] = Moved(Without(g, {t}), {fresh}, Landing(g, t))]
                /\ owner' = [owner EXCEPT ![fresh] = g.id]
                /\ open' = (open \ {t}) \cup {fresh}
    /\ alive' = [alive EXCEPT ![fresh] = TRUE]
    /\ sync' = Pruned(sync, alive')
    /\ UNCHANGED <<here, detached, saved>>

\* Into a pane of the group shown by now, from a pane of any group.
MoveTabToPane(t, p) ==
    /\ GroupOf(t) # {} /\ p \in Here.shown /\ t \notin Here.panes[p]
    /\ groups' = [i \in DOMAIN groups |->
                    IF i = here THEN Moved(groups[i], {t}, p) ELSE Without(groups[i], {t})]
    /\ owner' = [owner EXCEPT ![t] = Here.id]
    /\ UNCHANGED <<here, detached, open, alive, sync, saved>>

DetachCurrentTab(t) ==
    /\ \E p \in Here.shown : t \in Here.panes[p]
    /\ HereBecomes(Without(Here, {t}))
    /\ detached' = detached \cup {t}
    /\ UNCHANGED <<here, owner, open, alive, sync, saved>>

\* Its window is closed: the tab goes to the group shown, whichever it is.
CloseDetached(t, p) ==
    /\ t \in detached /\ p \in Here.shown
    /\ detached' = detached \ {t}
    /\ HereBecomes(Moved(Here, {t}, p))
    /\ UNCHANGED <<here, owner, open, alive, sync, saved>>

(***************************************************************************)
(* The layout of the group shown.                                          *)
(***************************************************************************)
\* splitActivePane: a hidden pane is taken, or a new one made; a pane with
\* tabs to spare gives one of them.
SplitActivePane(from) ==
    LET hidden == DOMAIN Here.panes \ Here.shown
        to == IF hidden # {} THEN First(hidden) ELSE Len(Here.panes) + 1
        wider == [Here EXCEPT !.shown = @ \cup {to},
                              !.panes = IF hidden # {} THEN @ ELSE Append(@, {})]
        Spare(p) == Cardinality(Here.panes[p]) > 1
        donors == {p \in Here.shown : Spare(p)}
        donor == IF Spare(from) THEN from ELSE First(donors)
    IN  /\ from \in Here.shown /\ to <= MaxPanes
        /\ IF donors = {} THEN HereBecomes(wider)
           ELSE \E t \in Here.panes[donor] : HereBecomes(Moved(wider, {t}, to))
        /\ UNCHANGED <<here, detached, owner, open, alive, sync, saved>>

ClosePane(p) ==
    /\ p \in Here.shown /\ Cardinality(Here.shown) >= 2
    /\ HereBecomes([Moved(Here, Here.panes[p], First(Here.shown \ {p})) EXCEPT !.shown = @ \ {p}])
    /\ UNCHANGED <<here, detached, owner, open, alive, sync, saved>>

\* Mutant: the tabs of the panes it hides stay in them.
LeftInHidden(g, n) == [g EXCEPT !.shown = 1..n]

\* setPaneLayout, for one pane or two: "A hidden pane must not retain tabs".
FewPanes(g, n) ==
    LET hidden == {p \in DOMAIN g.panes : p > n}
    IN  [Moved(g, UNION {g.panes[p] : p \in hidden}, 1) EXCEPT !.shown = 1..n]

\* arrangeGrid: a pane for each tab, in the order of their panes.
ArrangeGrid ==
    LET n == Cardinality(TabsOf(Here))
        Place(t) == CHOOSE p \in DOMAIN Here.panes : t \in Here.panes[p]
        count == IF n = 0 THEN 1 ELSE n
        size == IF count > Len(Here.panes) THEN count ELSE Len(Here.panes)
    IN  /\ count <= MaxPanes
        /\ \E row \in {s \in [1..n -> TabsOf(Here)] : IsInjective(s)} :
              /\ \A i, j \in 1..n : i < j => Place(row[i]) <= Place(row[j])
              /\ HereBecomes([Here EXCEPT !.shown = 1..count,
                                !.panes = [p \in 1..size |-> IF p <= n THEN {row[p]} ELSE {}]])
        /\ UNCHANGED <<here, detached, owner, open, alive, sync, saved>>

\* moveTabToOtherPane: with one pane shown there are two afterwards, which
\* brings a tab into the second; then a tab of the first one follows.
MoveTabToOtherPane(from) ==
    /\ from \in Here.shown
    /\ IF Cardinality(Here.shown) > 1
       THEN \E t \in Here.panes[from] : HereBecomes(Moved(Here, {t}, After(Here, from)))
       ELSE /\ from # 2
            /\ \E ts \in SUBSET TabsOf(Here) :
                  /\ Cardinality(ts) =
                        (IF TabsOf(Here) = {} THEN 0
                         ELSE IF from = 1 /\ Cardinality(TabsOf(Here)) > 1 THEN 2 ELSE 1)
                  /\ HereBecomes(Moved(FewPanes(Here, 2), ts, 2))
    /\ UNCHANGED <<here, detached, owner, open, alive, sync, saved>>

\* reattachDetachedTabs: those of a group go to its active pane.
RestoreSinglePane ==
    /\ HereBecomes(Moved(FewPanes(Here, 1), DetachedOf(Here), 1))
    /\ detached' = detached \ DetachedOf(Here)
    /\ UNCHANGED <<here, owner, open, alive, sync, saved>>

(***************************************************************************)
(* Groups.                                                                 *)
(***************************************************************************)
StopSynchronization == sync' = {}

ActivatePanelGroup(i) ==
    /\ i \in DOMAIN groups \ {here}
    /\ here' = i
    /\ StopSynchronization
    /\ UNCHANGED <<groups, detached, owner, open, alive, saved>>

\* The groups and the shown one after group i of gs was closed, j being shown
\* before.
ClosedGroups(gs, i) ==
    IF Len(gs) = 1 THEN <<NewGroup(Ungrouped, NotSaved, TRUE, {1})>> ELSE RemoveAt(gs, i)
ShownAfterClose(gs, i, j) ==
    IF Len(gs) > 1 /\ (j > i \/ (j = i /\ i = Len(gs))) THEN j - 1 ELSE j

\* The answer was yes: its tabs and the windows of its detached ones go.
ClosePanelGroup(i) ==
    /\ i \in DOMAIN groups
    /\ groups' = ClosedGroups(groups, i)
    /\ here' = ShownAfterClose(groups, i, here)
    /\ detached' = detached \ DetachedOf(groups[i])
    /\ open' = open \ (TabsOf(groups[i]) \cup DetachedOf(groups[i]))
    /\ StopSynchronization
    /\ UNCHANGED <<owner, alive, saved>>

\* discardEmptyDefaultGroup: whether the group that was shown goes.
IsDiscarded(g) == g.default /\ TabsOf(g) = {} /\ DetachedOf(g) = {}

\* The group added last is shown, and the one left goes if it is to go.
AddedBecomes(gs) ==
    IF IsDiscarded(gs[here])
    THEN groups' = RemoveAt(gs, here) /\ here' = Len(gs) - 1
    ELSE groups' = gs /\ here' = Len(gs)
EndedWith(g) == IF IsDiscarded(g) THEN TabsOf(g) ELSE {}

\* What is saved of a group: the panes in its tree, and the number of tabs
\* opened in each.
Definition(g, ts) ==
    [shown |-> g.shown, tabs |-> [p \in g.shown |-> Cardinality(g.panes[p] \cap ts)]]
IsSaved(name) == name \in DOMAIN saved
SavedWith(name, def) ==
    [n \in DOMAIN saved \cup {name} |-> IF n = name THEN def ELSE saved[n]]
SavedWithout(name) == [n \in DOMAIN saved \ {name} |-> saved[n]]

\* createPanelGroup: the chosen tabs go, with their panes, to a group of the
\* name given, which is saved at once; a saved one of that name is replaced.
CreatePanelGroup(name, ts) ==
    LET included == {p \in DOMAIN Here.panes : Here.panes[p] \cap ts # {}}
        n == Cardinality(included)
    IN  /\ ts # {} /\ ts \subseteq TabsOf(Here) /\ Len(groups) < MaxGroups
        /\ \A i \in DOMAIN groups : ~groups[i].default => groups[i].name # name
        /\ \E at \in Bijection(1..n, included) :
              LET made == NewGroup(name, name, FALSE, 1..n)
                  size == IF n > FirstPanes THEN n ELSE FirstPanes
                  filled == [made EXCEPT !.panes = [p \in 1..size |->
                               IF p <= n THEN Here.panes[at[p]] \cap ts ELSE {}]]
              IN  /\ AddedBecomes(Append([groups EXCEPT ![here] = Without(Here, ts)], filled))
                  /\ open' = open \ EndedWith(Without(Here, ts))
                  /\ owner' = [t \in Tabs |-> IF t \in ts THEN made.id ELSE owner[t]]
                  /\ saved' = SavedWith(name, Definition(filled, ts))
        /\ StopSynchronization
        /\ UNCHANGED <<detached, alive>>

\* saveActivePanelGroup, for a group that has a name.
SaveActivePanelGroup ==
    /\ ~Here.default
    /\ saved' = SavedWith(Here.name, Definition(Here, Tabs))
    /\ HereBecomes([Here EXCEPT !.saved = Here.name])
    /\ UNCHANGED <<here, detached, owner, open, alive, sync>>

RenameActivePanelGroup(name) ==
    /\ name = Here.saved \/ ~IsSaved(name)
    /\ IF Here.saved # NotSaved /\ IsSaved(Here.saved)
       THEN /\ saved' = [n \in (DOMAIN saved \ {Here.saved}) \cup {name} |->
                           IF n = name THEN saved[Here.saved] ELSE saved[n]]
            /\ HereBecomes([Here EXCEPT !.name = name, !.default = FALSE, !.saved = name])
       ELSE saved' = saved /\ HereBecomes([Here EXCEPT !.name = name, !.default = FALSE])
    /\ UNCHANGED <<here, detached, owner, open, alive, sync>>

\* openPanelGroup: an open one is shown; otherwise its sessions are connected
\* again in a group of their own.
OpenPanelGroup(name, ts) ==
    /\ IsSaved(name)
    /\ \A i \in DOMAIN groups : groups[i].saved # name
    /\ Len(groups) < MaxGroups /\ ts \cap open = {}
    /\ LET def == saved[name]
           made == NewGroup(name, name, FALSE, def.shown)
           size == IF \A p \in def.shown : p <= FirstPanes THEN FirstPanes
                   ELSE CHOOSE p \in def.shown : \A q \in def.shown : q <= p
       IN  \E place \in [ts -> def.shown] :
             /\ \A p \in def.shown : Cardinality({t \in ts : place[t] = p}) = def.tabs[p]
             /\ AddedBecomes(Append(groups, [made EXCEPT !.panes =
                                [p \in 1..size |-> {t \in ts : place[t] = p}]]))
             /\ owner' = [t \in Tabs |-> IF t \in ts THEN made.id ELSE owner[t]]
    /\ open' = (open \ EndedWith(Here)) \cup ts
    /\ alive' = [t \in Tabs |-> t \in ts \/ alive[t]]
    /\ StopSynchronization
    /\ UNCHANGED <<detached, saved>>

FocusPanelGroup(name) ==
    /\ IsSaved(name)
    /\ \E i \in DOMAIN groups :
          /\ groups[i].saved = name /\ \A j \in 1..(i - 1) : groups[j].saved # name
          /\ ActivatePanelGroup(i)

\* managePanelGroups: saved groups are renamed, replaced and deleted whether
\* they are open or not.
Rematched(old, new) ==
    [i \in DOMAIN groups |->
       IF groups[i].saved # old THEN groups[i]
       ELSE IF new = NotSaved THEN [groups[i] EXCEPT !.saved = new]
       ELSE [groups[i] EXCEPT !.saved = new, !.name = new]]

RenameSavedGroup(old, new) ==
    /\ IsSaved(old) /\ ~IsSaved(new)
    /\ saved' = [n \in (DOMAIN saved \ {old}) \cup {new} |-> IF n = new THEN saved[old] ELSE saved[n]]
    /\ groups' = Rematched(old, new)
    /\ UNCHANGED <<here, detached, owner, open, alive, sync>>

SaveSelection(name, ts) ==
    /\ ts # {} /\ ts \subseteq TabsOf(Here)
    /\ saved' = SavedWith(name, Definition(Here, ts))
    /\ UNCHANGED <<groups, here, detached, owner, open, alive, sync>>

DeleteSavedGroup(name) ==
    /\ IsSaved(name)
    /\ saved' = SavedWithout(name)
    /\ groups' = Rematched(name, NotSaved)
    /\ UNCHANGED <<here, detached, owner, open, alive, sync>>

(***************************************************************************)
(* Synchronized input, and the end of the program.                         *)
(***************************************************************************)
ChooseSynchronizationTargets(ts) ==
    /\ Cardinality(ts) >= 2 /\ ts # sync
    /\ ts \subseteq {t \in UNION {Here.panes[p] : p \in Here.shown} : alive[t]}
    /\ sync' = ts
    /\ UNCHANGED <<groups, here, detached, owner, open, alive, saved>>

ConfigureSynchronization ==
    /\ sync # {}
    /\ StopSynchronization
    /\ UNCHANGED <<groups, here, detached, owner, open, alive, saved>>

\* closeEvent, reattachDetachedTabs: into the active pane of its own group, or of
\* the one shown if its own is gone.  (Nothing is done in the mutant.)
LeftDetached(g) == {}
Reattached(g) ==
    DetachedOf(g) \cup
    (IF g.id = Here.id THEN {t \in detached : \A i \in DOMAIN groups : groups[i].id # owner[t]}
     ELSE {})

\* closeEvent and a new start: every group is written down and opened again
\* with a tab for each that it had.
Restart ==
    LET Collected(g) == LET p == First(g.shown) IN Moved(g, Reattached(g), p)
        gs == [i \in DOMAIN groups |-> Collected(groups[i])]
    IN  /\ groups' = gs
        /\ detached' = {}
        /\ open' = UNION {TabsOf(gs[i]) : i \in DOMAIN gs}
        /\ owner' = [t \in Tabs |->
                       IF \E i \in DOMAIN gs : t \in TabsOf(gs[i])
                       THEN (CHOOSE g \in Range(gs) : t \in TabsOf(g)).id ELSE owner[t]]
        /\ alive' = [t \in Tabs |-> t \in open' \/ alive[t]]
        /\ sync' = {}
        /\ UNCHANGED <<here, saved>>

-----------------------------------------------------------------------------
Init ==
    /\ groups = <<[id |-> 1, name |-> Ungrouped, saved |-> NotSaved, default |-> TRUE,
                   panes |-> [p \in 1..FirstPanes |-> {}], shown |-> {1}]>>
    /\ here = 1
    /\ detached = {} /\ open = {} /\ sync = {}
    /\ owner = [t \in Tabs |-> 1]
    /\ alive = [t \in Tabs |-> FALSE]
    /\ saved = [n \in {} |-> {}]
    /\ commands = 0

Closing == (\E t \in Tabs : CloseTab(t)) \/ \E i \in DOMAIN groups : ClosePanelGroup(i)

Reconnecting == \E t, fresh \in Tabs : Reconnect(t, fresh)

TabCommand ==
    \/ \E t \in Tabs, p \in Here.shown :
          ConnectSession(t, p) \/ MoveTabToPane(t, p) \/ CloseDetached(t, p)
    \/ \E t \in Tabs : TabFinished(t) \/ DetachCurrentTab(t)
    \/ Reconnecting

LayoutCommand ==
    \/ \E p \in Here.shown : SplitActivePane(p) \/ ClosePane(p) \/ MoveTabToOtherPane(p)
    \/ ArrangeGrid \/ RestoreSinglePane

GroupCommand ==
    \/ \E i \in DOMAIN groups : ActivatePanelGroup(i)
    \/ \E name \in GroupNames, ts \in SUBSET Tabs :
          CreatePanelGroup(name, ts) \/ OpenPanelGroup(name, ts) \/ SaveSelection(name, ts)
    \/ \E name \in GroupNames :
          RenameActivePanelGroup(name) \/ DeleteSavedGroup(name) \/ FocusPanelGroup(name)
    \/ \E old, new \in GroupNames : RenameSavedGroup(old, new)
    \/ SaveActivePanelGroup

SyncCommand ==
    (\E ts \in SUBSET Tabs : ChooseSynchronizationTargets(ts)) \/ ConfigureSynchronization

Next ==
    /\ Counted
    /\ TabCommand \/ Closing \/ LayoutCommand \/ GroupCommand \/ SyncCommand \/ Restart

Spec == Init /\ [][Next]_vars

-----------------------------------------------------------------------------
PlacesOf(t) ==
    {at \in (DOMAIN groups) \X (1..MaxPanes) :
       at[2] \in DOMAIN groups[at[1]].panes /\ t \in groups[at[1]].panes[at[2]]}

\* Every tab there is lies in one place, a pane its group shows or a window of
\* its own, so that it can be reached: through every change of the layout, the
\* groups and the windows ("Keep sessions reachable", "A hidden pane must not
\* retain tabs").
PlacedOnce ==
    /\ here \in DOMAIN groups
    /\ \A i \in DOMAIN groups :
          /\ groups[i].shown # {} /\ groups[i].shown \subseteq DOMAIN groups[i].panes
          /\ \A p \in DOMAIN groups[i].panes \ groups[i].shown : groups[i].panes[p] = {}
    /\ \A t \in open : Cardinality(PlacesOf(t)) = IF t \in detached THEN 0 ELSE 1

\* "Synchronization stops when switching groups": what is typed into one tab
\* never reaches a tab of a group that is not shown, nor a session that ended,
\* though groups are switched behind the user's back when one reconnects.
SyncInSight ==
    /\ Cardinality(sync) # 1
    /\ \A t \in sync : t \in open /\ alive[t] /\ (t \in TabsOf(Here) \/ t \in detached)

\* "The selected live sessions move into the group without reconnecting": a
\* session ends by closing its tab or group, or for a fresh one in its place,
\* and by nothing done to layouts, groups, windows or the program's restart.
SessionsKept == [][~Closing /\ ~Reconnecting => open \subseteq open']_vars

\* "when a session drops and asks to reconnect, swap this tab for a fresh one":
\* the tab that dropped is not left behind (onReconnectRequested).
ReconnectSwaps ==
    [][\A t, fresh \in Tabs : Reconnect(t, fresh) => Cardinality(open') = Cardinality(open)]_vars

\* "Single pane collects tabs within the current group, including its detached
\* sessions": a tab detached from a group is known as that group's.
DetachedFromHere ==
    [][\A t \in detached' \ detached : owner[t] = Here.id]_vars

\* "An open group with this name already exists": of two open groups, saving
\* one never overwrites what was saved of the other.
OwnSavedGroup ==
    \A i, j \in DOMAIN groups :
       i # j /\ groups[i].saved = groups[j].saved => groups[i].saved = NotSaved

\* Every tab can be reached, and typed input goes nowhere else.
PanesSound == PlacedOnce /\ SyncInSight
=============================================================================
