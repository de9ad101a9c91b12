---------------------------- MODULE SessionTree ----------------------------
(***************************************************************************)
(* The tree of the sessions sidebar (sessionssidebar.cpp): the groups the  *)
(* saved sessions lie in, their notes and tags, the order of each group's  *)
(* children and which groups are shown closed.                             *)
(*                                                                         *)
(* A session's group lies with the session in sessions.json; everything    *)
(* else is in the application's settings.  The two are written one after   *)
(* the other, and the file may keep its old content (a full disk): nobody  *)
(* hears of it.  The tree is rebuilt from both after every command, so it  *)
(* is no state of its own: the children the tree shows are written back as *)
(* treeOrder by the load itself.                                           *)
(*                                                                         *)
(* A group is a text, split at its slashes: the sequence of what lies      *)
(* between them, Root for the empty text.  The group's own dialogs take    *)
(* proper paths only, a session's dialog any text ("/a", "a/", "/"), whose *)
(* names may be empty.  The tree keeps the text with each item, but shows  *)
(* "/a" as an item "a" at the top, and what it writes down is made of the  *)
(* names it shows.                                                         *)
(***************************************************************************)
EXTENDS Integers, SequencesExt, FiniteSets

CONSTANTS Names,             \* names of groups, none of them empty
          OddTexts,          \* other texts typed as a session's group
          MaxDepth,          \* bound: groups inside groups
          MaxGroups,         \* bound: groups in the tree
          MaxCommands,       \* bound: commands given
          SavedList          \* the sessions at the start: [id, group]

VARIABLES list,              \* the sessions of sessions.json, in its order
          groups,            \* sessions/groups
          metadata,          \* sessions/groupMetadata: paths with notes or tags
          order,             \* sessions/treeOrder, what the tree shows
          collapsed,         \* sessions/collapsedGroups
          filtered,          \* the filter has a text
          commands           \* counter of the bound

vars == <<list, groups, metadata, order, collapsed, filtered, commands>>

Nameless == ""
Root == <<>>
Paths == UNION {[1..n -> Names] : n \in 1..MaxDepth}
\* Every text of a group; one empty name alone is the empty text, the root.
Texts == UNION {[1..n -> Names \cup {Nameless}] : n \in 1..MaxDepth} \ {<<Nameless>>}

\* ensureGroup: an empty text to the left of the last slash has no item.
ParentOf(text) == IF Front(text) = <<Nameless>> THEN Root ELSE Front(text)
\* onSessionsReordered: the text of an item called name in the group parent.
Below(parent, name) ==
    IF parent = Root /\ name = Nameless THEN Root ELSE Append(parent, name)

Group(path) == <<"g", path>>
Leaf(id) == <<"s", id>>
IsGroup(key) == key[1] = "g"

\* p is path itself or lies in it.
Within(p, path) == IsPrefix(path, p)
\* The path p has after path was renamed to name.
Replaced(p, path, name) ==
    IF Within(p, path) THEN name \o SubSeq(p, Len(path) + 1, Len(p)) ELSE p

(***************************************************************************)
(* loadSessions: the groups of the settings, each below its parent, then   *)
(* the sessions in the file's order, then the saved order of each group's  *)
(* children; what that does not know comes last.                           *)
(***************************************************************************)
EnsureGroup(tree, path) ==
    FoldLeftDomain(
        LAMBDA t, n : LET p == SubSeq(path, 1, n)
                          parent == ParentOf(p)
                      IN  IF p \in DOMAIN t \cup {<<Nameless>>} THEN t
                          ELSE [q \in DOMAIN t \cup {p} |->
                                  IF q = p THEN <<>>
                                  ELSE IF q = parent THEN Append(t[q], Group(p)) ELSE t[q]],
        tree, path)

\* Mutant: the group is only looked up, and the session left out without it.
AddToKnown(tree, s) ==
    IF s.group \in DOMAIN tree THEN [tree EXCEPT ![s.group] = Append(@, Leaf(s.id))] ELSE tree

AddSession(tree, s) ==
    LET t == EnsureGroup(tree, s.group) IN [t EXCEPT ![s.group] = Append(@, Leaf(s.id))]

BuiltTree(gs, ss) ==
    FoldLeft(AddSession, FoldLeft(EnsureGroup, [p \in {Root} |-> <<>>], gs), ss)

\* Every element once, where it is first (removeDuplicates, indexOf).
Once(s) == FoldLeft(LAMBDA acc, x : IF x \in Range(acc) THEN acc ELSE Append(acc, x), <<>>, s)

InSavedOrder(children, saved) ==
    SelectSeq(Once(saved), LAMBDA k : k \in Range(children))
      \o SelectSeq(children, LAMBDA k : k \notin Range(saved))

Loaded(gs, ss, saved) ==
    LET tree == BuiltTree(gs, ss)
    IN  [p \in DOMAIN tree |->
           InSavedOrder(tree[p], IF p \in DOMAIN saved THEN saved[p] ELSE <<>>)]

\* The groups the tree shows.
Shown == DOMAIN order \ {Root}

\* Everything below p in the order it is shown in.
Walk(tree, p) ==
    LET below[q \in DOMAIN tree] ==
            FoldLeft(LAMBDA acc, k : Append(acc, k) \o
                        (IF IsGroup(k) THEN below[k[2]] ELSE <<>>),
                     <<>>, tree[q])
    IN  below[p]

\* The group an item lies in.
HolderOf(tree, key) == CHOOSE p \in DOMAIN tree : key \in Range(tree[p])

GroupsOf(tree) ==
    LET keys == SelectSeq(Walk(tree, Root), IsGroup)
    IN  [i \in DOMAIN keys |-> keys[i][2]]

\* saveSessions and loadSessions: the file may keep what it has.
SavesAndLoads(ss, saved) ==
    \E kept \in {ss, list} :
       /\ list' = kept
       /\ order' = Loaded(groups', kept, saved)

(***************************************************************************)
(* The menu of a group (manageGroup).                                      *)
(***************************************************************************)
\* The groups of the settings with those the tree has besides.
KnownGroups == Once(groups \o GroupsOf(order))

\* The bound: text's own item and those above it are not too many.
Fits(text) ==
    Cardinality((Shown \cup {SubSeq(text, 1, n) : n \in DOMAIN text}) \ {<<Nameless>>}) <= MaxGroups

CreateGroup(name) ==
    /\ name \notin Range(KnownGroups)
    /\ Fits(name)
    /\ groups' = Append(KnownGroups, name)
    /\ SavesAndLoads(list, order)
    /\ UNCHANGED <<metadata, collapsed, filtered>>

RenameGroup(path, name) ==
    LET Renamed(p) == Replaced(p, path, name)
        RenamedKey(k) == IF IsGroup(k) THEN Group(Renamed(k[2])) ELSE k
    IN  /\ path \in Shown /\ name \notin Range(KnownGroups)
        /\ ~Within(name, path)
        /\ \A p \in Range(KnownGroups) :
              /\ Renamed(p) \in Texts \cup {Root}
              /\ Renamed(p) # p => Renamed(p) \notin Range(KnownGroups)
        /\ groups' = [i \in DOMAIN KnownGroups |-> Renamed(KnownGroups[i])]
        /\ metadata' = {Renamed(p) : p \in metadata}
        /\ collapsed' = {Renamed(p) : p \in collapsed}
        /\ SavesAndLoads([i \in DOMAIN list |-> [list[i] EXCEPT !.group = Renamed(@)]],
                         [q \in {Renamed(p) : p \in DOMAIN order} |->
                            LET p == CHOOSE x \in DOMAIN order : Renamed(x) = q
                            IN  [i \in DOMAIN order[p] |-> RenamedKey(order[p][i])]])
        /\ Cardinality(DOMAIN order') <= MaxGroups + 1
        /\ UNCHANGED filtered

\* The notes of the group and of those in it go; which ones were shown closed
\* is not forgotten.
DeleteGroup(path) ==
    /\ path \in Shown
    /\ groups' = SelectSeq(KnownGroups, LAMBDA p : ~Within(p, path))
    /\ metadata' = {p \in metadata : ~(p \in Range(KnownGroups) /\ Within(p, path))}
    /\ SavesAndLoads(SelectSeq(list, LAMBDA s : ~Within(s.group, path)), order)
    /\ UNCHANGED <<collapsed, filtered>>

\* Notes and tags.
EditNotes(path) ==
    /\ path \in Shown \ metadata
    /\ groups' = KnownGroups
    /\ metadata' = metadata \cup {path}
    /\ SavesAndLoads(list, order)
    /\ UNCHANGED <<collapsed, filtered>>

(***************************************************************************)
(* onSessionsReordered writes down what the tree shows: the text of every  *)
(* group anew from the names above it, its notes with it, the sessions in  *)
(* the order of the tree.                                                  *)
(***************************************************************************)
Written(tree) ==
    LET text[p \in DOMAIN tree] ==
            IF p = Root THEN Root ELSE Below(text[HolderOf(tree, Group(p))], Last(p))
    IN  text

Reordered(tree) ==
    LET keys == SelectSeq(Walk(tree, Root), LAMBDA k : ~IsGroup(k))
        text == Written(tree)
    IN  [i \in DOMAIN keys |->
           [id |-> keys[i][2], group |-> text[HolderOf(tree, keys[i])]]]

\* saveTreeOrder: of two items of one text the one shown last is kept.
OrderOf(tree) ==
    LET text == Written(tree)
        WrittenKey(k) == IF IsGroup(k) THEN Group(text[k[2]]) ELSE k
        ItemOf(q) == IF q = Root THEN Root
                     ELSE Last(SelectSeq(GroupsOf(tree), LAMBDA p : text[p] = q))
    IN  [q \in Range(text) |->
           [i \in DOMAIN tree[ItemOf(q)] |-> WrittenKey(tree[ItemOf(q)][i])]]

\* The notes move with each group whose text changes, over those of a group
\* that has the text already.
NotesOf(tree) ==
    LET text == Written(tree)
    IN  FoldLeft(LAMBDA notes, p : IF text[p] # p /\ p \in notes
                                   THEN (notes \ {p}) \cup {text[p]} ELSE notes,
                 metadata, GroupsOf(tree))

\* The list is loaded again: after a drag, or by the next start.
WritesDown(tree) ==
    LET text == Written(tree)
        shown == GroupsOf(tree)
    IN  /\ groups' = [i \in DOMAIN shown |-> text[shown[i]]]
        /\ metadata' = NotesOf(tree)
        /\ collapsed' = {text[p] : p \in collapsed \cap Shown}
        /\ SavesAndLoads(Reordered(tree), OrderOf(tree))

\* saveCurrentOrder, when the window is closed.
SaveCurrentOrder ==
    /\ ~filtered
    /\ WritesDown(order)
    /\ UNCHANGED filtered

(***************************************************************************)
(* Dragging: SessionTree::dropEvent takes no group into itself or beside a *)
(* group of its name.                                                      *)
(***************************************************************************)
\* Mutant: a group of the same name is no hindrance.
AcceptedBeside(key, parent) == IsGroup(key) => ~Within(parent, key[2])

Accepted(key, parent) ==
    IsGroup(key) =>
       /\ ~Within(parent, key[2])
       /\ \A k \in Range(order[parent]) \ {key} : IsGroup(k) => Last(k[2]) # Last(key[2])

\* The tree after key was dropped as child number i of parent; each group
\* under the text it was loaded with.
Dropped(key, parent, i) ==
    LET without == [p \in DOMAIN order |-> SelectSeq(order[p], LAMBDA k : k # key)]
    IN  [without EXCEPT ![parent] = InsertAt(@, i, key)]

Drag(key, parent, i) ==
    /\ ~filtered
    /\ Accepted(key, parent)
    /\ Range(Written(Dropped(key, parent, i))) \subseteq Texts \cup {Root}
    /\ WritesDown(Dropped(key, parent, i))
    /\ Cardinality(DOMAIN order') <= MaxGroups + 1
    /\ UNCHANGED filtered

(***************************************************************************)
(* Opening and closing groups, the filter, and the sessions' own dialogs.  *)
(***************************************************************************)
\* saveGroupState: nothing is noted while a filter opens groups by itself.
ToggleGroup(path) ==
    /\ path \in Shown /\ ~filtered
    /\ collapsed' = (IF path \in collapsed THEN collapsed \ {path} ELSE collapsed \cup {path})
                       \cap Shown
    /\ UNCHANGED <<list, groups, metadata, order, filtered>>

SetFilter ==
    /\ filtered' = ~filtered
    /\ UNCHANGED <<list, groups, metadata, order, collapsed>>

\* A session is given another group in its dialog, whose text nobody checks.
EditSessionGroup(i, text) ==
    /\ i \in DOMAIN list
    /\ Fits(text)
    /\ UNCHANGED groups
    /\ SavesAndLoads([list EXCEPT ![i].group = text], order)
    /\ UNCHANGED <<metadata, collapsed, filtered>>

DeleteSession(i) ==
    /\ i \in DOMAIN list
    /\ UNCHANGED groups
    /\ SavesAndLoads(RemoveAt(list, i), order)
    /\ UNCHANGED <<metadata, collapsed, filtered>>

Init ==
    /\ list = SavedList
    /\ groups = <<>>
    /\ metadata = {}
    /\ order = Loaded(groups, list, [p \in {} |-> <<>>])
    /\ collapsed = {}
    /\ filtered = FALSE
    /\ commands = 0

Keys == UNION {Range(order[p]) : p \in DOMAIN order}

\* An item is dropped into the group parent.
DragsInto(key, parent) ==
    \E i \in 1..(Len(SelectSeq(order[parent], LAMBDA k : k # key)) + 1) : Drag(key, parent, i)

RenamesGroup == \E path \in Shown, name \in Paths : RenameGroup(path, name)

Command ==
    \/ \E name \in Paths : CreateGroup(name)
    \/ RenamesGroup
    \/ \E path \in Shown : DeleteGroup(path) \/ EditNotes(path) \/ ToggleGroup(path)
    \/ \E key \in Keys, parent \in DOMAIN order : DragsInto(key, parent)
    \/ SaveCurrentOrder \/ SetFilter
    \/ \E i \in DOMAIN list :
          \/ DeleteSession(i)
          \/ \E text \in Paths \cup OddTexts \cup {Root} : EditSessionGroup(i, text)

Next == commands < MaxCommands /\ commands' = commands + 1 /\ Command

Spec == Init /\ [][Next]_vars

-----------------------------------------------------------------------------
\* The tree shows every session once, in its own group, and every group below
\* its parent (loadSessions, restoreOrder): whatever was renamed, moved or
\* deleted, and whichever of the two stores kept its old content.
TreeShowsAll ==
    /\ \A i \in DOMAIN list : \A p \in DOMAIN order :
          Cardinality({n \in DOMAIN order[p] : order[p][n] = Leaf(list[i].id)})
             = IF p = list[i].group THEN 1 ELSE 0
    /\ \A p \in Shown : Group(p) \in Range(order[ParentOf(p)])
    /\ Cardinality(Keys) = Cardinality(Shown) + Len(list)

\* Notes and tags belong to a group the tree shows: they follow it when it is
\* renamed or moved, with the groups in it, and go when it is deleted.  Only
\* a group without a name at the top leaves its notes to no group.
NotesHaveAGroup == metadata \subseteq Shown \cup {Root}

\* No name of the text is empty.
Named(text) == Nameless \notin Range(text)

\* Sessions that lay in different ones of these groups still do.
KeptApart(texts) ==
    \A i, j \in DOMAIN list : \A k, l \in DOMAIN list' :
       /\ list'[k].id = list[i].id /\ list'[l].id = list[j].id
       /\ {list[i].group, list[j].group} \subseteq texts
       /\ list[i].group # list[j].group
       => list'[k].group # list'[l].group

\* Neither renaming nor moving a group nor closing the window ever brings two
\* groups together: sessions that lay in different groups lie in different
\* groups afterwards (manageGroup's checks, SessionTree::dropEvent: "reject
\* duplicate sibling groups rather than merging their paths").  Two groups are
\* spared by a rename whatever their texts; the end of the program spares those
\* whose text does not begin with a slash; a drag spares those without an empty
\* name, unless the group is dropped into one that has it.
NoMerge ==
    [][/\ KeptApart(DOMAIN order) \/ ~RenamesGroup
       /\ \/ KeptApart({p \in DOMAIN order : p = Root \/ Head(p) # Nameless})
          \/ ~SaveCurrentOrder
       /\ \/ KeptApart({p \in DOMAIN order : Named(p)})
          \/ ~\E key \in Keys, parent \in DOMAIN order :
                IsGroup(key) /\ Named(parent) /\ DragsInto(key, parent)]_vars

\* Refuted (sessionssidebar.cpp 41): a session's dialog takes "/a" for a group,
\* the tree shows it as a second "a", and the next drag, or the end of the
\* program, makes one group of the two.
TextsNeverMerge == [][KeptApart(DOMAIN order) \/ ~SaveCurrentOrder]_vars

\* The tree, its two stores and the notes agree.
TreeSound == TreeShowsAll /\ NotesHaveAGroup
=============================================================================
