---------------------------- MODULE SessionStore ----------------------------
(***************************************************************************)
(* The saved sessions (session.cpp, sessionssidebar.cpp, sessiondialog.cpp)*)
(* and their passwords.  sessions.json is read and written whole: by the   *)
(* session dialog itself, and by each sessions sidebar, which keeps a copy *)
(* of the list and writes that copy back.  There are two sidebars in one   *)
(* window: the one at its side and the one of the "All sessions" dialog,   *)
(* which stands before the window while it is open.                        *)
(*                                                                         *)
(* A session keeps what the properties tell apart: its host, and the       *)
(* bastion it goes through, either a host typed in the dialog or a link to *)
(* another saved session whose host is shown as the route.  "desktop"      *)
(* stands for the kinds with one password, "local" for those with none.    *)
(* The order in the tree and the groups are SessionTree's.                 *)
(***************************************************************************)
EXTENDS Vault, SequencesExt

CONSTANTS Hosts,             \* hosts of sessions and bastions
          SavedSessions,     \* the lists the file may hold at the start
          Imports,           \* the lists an imported file may hold
          MaxSessions,       \* bound: sessions in the file
          MaxCommands,       \* bound: dialogs accepted, commands, tabs opened
          Forms              \* what the user may leave in a session dialog

VARIABLES file,              \* sessions.json, NoFile before the first save
          cache,             \* m_sessions of each sidebar
          front,             \* the sidebar the user can reach
          editor,            \* the open session dialog
          tab,               \* the session an open tab was started with
          usedIds,           \* ids given so far
          commands           \* counter of the bound

storeVars == <<file, cache, front, editor, tab, usedIds, commands>>
vars == <<vaultVars, storeVars>>

NoId == -1
LocalId == 0
NoHost == "none"
NoFile == <<[id |-> NoId]>>
NoEditor == [index |-> -1]
NoTab == [id |-> NoId]
Sidebars == {"side", "all"}

Kinds == {"ssh", "desktop", "local"}
Sessions == [id : Ids, kind : Kinds, host : Hosts \cup {NoHost}, jump : Ids \cup {NoId},
             route : Hosts \cup {NoHost}, proxy : BOOLEAN]
FormFields == [kind : Kinds, host : Hosts \cup {NoHost}, jump : Ids \cup {NoId},
               route : Hosts \cup {NoHost}, proxy : BOOLEAN, own : BOOLEAN,
               jumpText : BOOLEAN, proxyText : BOOLEAN, save : BOOLEAN]

\* One session for an id.
Distinct(list) == \A i, j \in DOMAIN list : list[i].id = list[j].id => i = j

ASSUME StoreAssumption ==
    /\ Ids \subseteq Nat /\ IsFiniteSet(Ids) /\ LocalId \in Ids
    /\ SavedSessions \cup Imports \subseteq Seq(Sessions)
    /\ \A list \in SavedSessions : Distinct(list)
    /\ Forms \subseteq FormFields

\* With no file there is one local terminal, with an id made up at every load.
LocalTerminal == [id |-> LocalId, kind |-> "local", host |-> NoHost, jump |-> NoId,
                  route |-> NoHost, proxy |-> FALSE]

IsDirect(s) == s.kind = "ssh" /\ s.route = NoHost /\ s.jump = NoId
Serves(b, s) == b.id = s.jump /\ b.id # s.id /\ IsDirect(b)

\* loadSessions: a session that goes through another shows that one's host.
Load ==
    IF file = NoFile THEN <<LocalTerminal>>
    ELSE [i \in DOMAIN file |->
            LET s == file[i]
                through == {b \in Range(file) : s.jump # NoId /\ Serves(b, s)}
            IN  IF through = {} THEN s
                ELSE [s EXCEPT !.route = (CHOOSE b \in through : TRUE).host]]

\* saveSessions may fail without a word, and then the file is what it was.
Saves(list) == file' = list \/ file' = file

IdsOf(list) == {list[i].id : i \in DOMAIN list}
SavedIds(f) == IF f = NoFile THEN {} ELSE IdsOf(f)

FreshId == CHOOSE n \in Ids \ usedIds : \A m \in Ids \ usedIds : n <= m
HasFreshId == Ids \ usedIds # {}

Counted == commands < MaxCommands /\ commands' = commands + 1

\* A handler of sidebar w starts: w can be reached and shows no dialog.
Free(w) == front = w /\ editor = NoEditor /\ ~Asking

(***************************************************************************)
(* The session dialog.                                                     *)
(***************************************************************************)
\* The bastions the dialog offers for the session with this id.
Bastions(id) == {NoId} \cup {s.id : s \in {b \in Range(Load) : b.id # id /\ IsDirect(b)}}

\* What a lookup of the window reads, the master password being asked for if
\* the text is sealed and the vault locked.
ReadInDialog(n, failing, typed) ==
    LET entry == Found(n, failing)
        key == IF AsksFor(entry) THEN UnlockedBy(typed) ELSE sessionKey
    IN  [text |-> ReadAs(entry, key) # "none", key |-> key]

NewEditor(w) ==
    /\ Free(w) /\ HasFreshId
    /\ editor' = [index |-> 0, id |-> FreshId, kind |-> "ssh", host |-> NoHost,
                  jump |-> NoId, route |-> NoHost, proxy |-> FALSE,
                  own |-> FALSE, jumpText |-> FALSE]
    /\ UNCHANGED <<vaultVars, file, cache, front, tab, usedIds, commands>>

\* loadSession looks its passwords up; the master password is asked for once
\* if it is given and for each of them if it is not.
OpenEditor(w, i, typed, failing) ==
    /\ Free(w) /\ i \in DOMAIN cache[w]
    /\ Spent(Cardinality(failing))
    /\ LET s == cache[w][i]
           jump == ReadInDialog(<<s.id, "jump">>, failing, typed)
           own == ReadInDialog(<<s.id, "own">>, failing, typed)
       IN  /\ editor' = [index |-> i, id |-> s.id, kind |-> s.kind, host |-> s.host,
                         jump |-> s.jump, route |-> s.route, proxy |-> s.proxy,
                         own |-> own.text, jumpText |-> s.kind = "ssh" /\ jump.text]
           /\ sessionKey' = IF s.kind = "ssh" /\ jump.key # sessionKey THEN jump.key
                            ELSE own.key
    /\ UNCHANGED <<settings, ring, salts, lookup, file, cache, front, tab, usedIds,
                   commands>>

\* The dialog as the user leaves it: the fields of the form, and which of the
\* password fields have a text.  A linked bastion shows its host.
Edited(e, form) ==
    [e EXCEPT !.kind = form.kind, !.host = form.host, !.jump = form.jump,
              !.proxy = form.proxy, !.own = form.own, !.jumpText = form.jumpText,
              !.route = IF form.jump = NoId THEN form.route
                        ELSE LET b == {s \in Range(Load) : s.id = form.jump}
                             IN  IF b = {} THEN e.route ELSE (CHOOSE s \in b : TRUE).host]

\* The session the dialog gives: only ssh keeps a way through a bastion.
GetSession(e) ==
    [id |-> e.id, kind |-> e.kind,
     host |-> IF e.kind = "local" THEN NoHost ELSE e.host,
     jump |-> IF e.kind = "ssh" THEN e.jump ELSE NoId,
     route |-> IF e.kind = "ssh" THEN e.route ELSE NoHost,
     proxy |-> e.kind = "ssh" /\ e.proxy]

\* accept(), the passwords: the bastion's first, left alone when it is a saved
\* session's; if it cannot be stored the dialog stays.
KeepsJumpPassword(e) ==
    CASE e.jump # NoId -> Keeps(ring)
      [] e.jump = NoId /\ e.jumpText -> StoresPassword(ring, <<e.id, "jump">>)
      [] OTHER -> {[r EXCEPT !.ok = TRUE] : r \in Deletes(ring, <<e.id, "jump">>)}

\* Without a text an ssh session's password goes only when the box that keeps
\* it is not ticked.
KeepsOwnPassword(e, r) ==
    CASE e.own -> StoresPassword(r, <<e.id, "own">>)
      [] ~e.own /\ e.kind = "ssh" -> Deletes(r, <<e.id, "own">>) \cup Keeps(r)
      [] OTHER -> Deletes(r, <<e.id, "own">>)

\* The proxy password of a tunnel is only in the dialog when it was typed
\* there: the session in the file has none.
KeepsProxyPassword(e, typed, r) ==
    CASE ~e.proxy -> Keeps(r)
      [] e.proxy /\ typed -> StoresPassword(r, <<e.id, "socks">>)
      [] OTHER -> Deletes(r, <<e.id, "socks">>)

\* What accept() does to the key stores, and at what cost; ok is whether it
\* goes on to save the session.
Accepts(e, proxyTyped) ==
    CASE e.kind = "ssh" ->
           UNION {IF ~j.ok THEN {j}
                  ELSE UNION {{[ring |-> x.ring, ok |-> TRUE, cost |-> j.cost + o.cost + x.cost] :
                                 x \in KeepsProxyPassword(e, proxyTyped, o.ring)} :
                               o \in KeepsOwnPassword(e, j.ring)} :
                  j \in KeepsJumpPassword(e)}
      [] e.kind = "desktop" -> {[o EXCEPT !.ok = TRUE] : o \in KeepsOwnPassword(e, ring)}
      [] OTHER -> Keeps(ring)

\* The list with s in the place of the session of that id, or at the end.
Put(list, s) ==
    IF s.id \in IdsOf(list)
    THEN [i \in DOMAIN list |->
            IF list[i].id = s.id /\ \A j \in 1..(i - 1) : list[j].id # s.id THEN s ELSE list[i]]
    ELSE Append(list, s)

ReloadsCache(w) == cache' = [cache EXCEPT ![w] = Load']

\* onNewSession: the dialog saves the session if it was asked to, and the
\* session is opened either way.
AcceptNew(w, form) ==
    LET e == Edited(editor, form) IN
    /\ front = w /\ editor.index = 0 /\ ~Asking /\ Counted
    /\ form.jump \in Bastions(e.id)
    /\ \E a \in Accepts(e, form.proxyText) :
          /\ Spent(a.cost)
          /\ ring' = a.ring
          /\ IF ~a.ok
             THEN editor' = e /\ UNCHANGED <<file, cache, tab>>
             ELSE /\ editor' = NoEditor
                  /\ IF form.save /\ Len(Load) < MaxSessions THEN Saves(Put(Load, GetSession(e)))
                     ELSE file' = file
                  /\ ReloadsCache(w)
                  /\ tab' = IF tab = NoTab THEN GetSession(e) ELSE tab
    /\ usedIds' = usedIds \cup {editor.id}
    /\ UNCHANGED <<settings, sessionKey, salts, lookup, front>>

\* onEditSession: the dialog writes the file as it is by now, the sidebar then
\* its own list with the session in its old place.
AcceptEdit(w, form) ==
    LET e == Edited(editor, form) IN
    /\ front = w /\ editor.index > 0 /\ ~Asking /\ Counted
    /\ form.jump \in Bastions(e.id) \cup {editor.jump}
    /\ \E a \in Accepts(e, form.proxyText) :
          /\ Spent(a.cost)
          /\ ring' = a.ring
          /\ IF ~a.ok
             THEN editor' = e /\ UNCHANGED <<file, cache>>
             ELSE /\ editor' = NoEditor
                  /\ \/ Saves([cache[w] EXCEPT ![editor.index] = GetSession(e)])
                     \/ file' = Put(Load, GetSession(e))
                  /\ ReloadsCache(w)
    /\ UNCHANGED <<settings, sessionKey, salts, lookup, front, tab, usedIds>>

Reject(w) ==
    /\ front = w /\ editor # NoEditor /\ ~Asking
    /\ editor' = NoEditor
    /\ UNCHANGED <<vaultVars, file, cache, front, tab, usedIds, commands>>

(***************************************************************************)
(* The other commands of a sidebar: each changes its copy of the list,     *)
(* writes it and reads it back.                                            *)
(***************************************************************************)
SavesAndLoads(w, list) ==
    /\ Counted
    /\ Saves(list)
    /\ ReloadsCache(w)
    /\ UNCHANGED <<vaultVars, front, editor, tab>>

\* The passwords of a deleted session stay where they are.
DeleteSession(w, i) ==
    /\ Free(w) /\ i \in DOMAIN cache[w]
    /\ SavesAndLoads(w, RemoveAt(cache[w], i))
    /\ UNCHANGED usedIds

DuplicateSession(w, i) ==
    /\ Free(w) /\ i \in DOMAIN cache[w] /\ HasFreshId /\ Len(cache[w]) < MaxSessions
    /\ usedIds' = usedIds \cup {FreshId}
    /\ SavesAndLoads(w, Append(cache[w], [cache[w][i] EXCEPT !.id = FreshId]))

\* Marking a favorite, dragging in the tree, closing the window: the list is
\* written as the sidebar has it.
Resave(w) ==
    /\ Free(w)
    /\ SavesAndLoads(w, cache[w])
    /\ UNCHANGED usedIds

\* One imported session is taken over, renamed, or left out; renames says
\* which of them have a name that is in use.
TakeOver(acc, s, renamed, skip) ==
    LET known == s.id \in IdsOf(acc.list) IN
    CASE (known \/ renamed) /\ skip -> acc
      [] known /\ ~skip ->
           [list |-> Append(acc.list, [s EXCEPT !.id = Min(acc.fresh)]),
            fresh |-> acc.fresh \ {Min(acc.fresh)}]
      [] OTHER -> [acc EXCEPT !.list = Append(@, s)]

Imported(list, batch, renamed, skip) ==
    LET taken[i \in 0..Len(batch)] ==
          IF i = 0 THEN [list |-> list, fresh |-> Ids \ (usedIds \cup IdsOf(batch))]
          ELSE TakeOver(taken[i - 1], batch[i], i \in renamed, skip)
    IN  taken[Len(batch)]

\* The user chooses what becomes of conflicts, when there are any.
ImportSessions(w, batch, renamed, skip) ==
    LET conflicts == {i \in DOMAIN batch : i \in renamed \/ batch[i].id \in IdsOf(cache[w])}
        taken == Imported(cache[w], batch, renamed, skip)
    IN  /\ Free(w)
        /\ skip => conflicts # {}
        /\ Cardinality(Ids \ (usedIds \cup IdsOf(batch))) >= Len(batch)
        /\ Len(taken.list) <= MaxSessions
        /\ usedIds' = usedIds \cup IdsOf(taken.list)
        /\ SavesAndLoads(w, taken.list)

\* The "All sessions" dialog brings a sidebar of its own; when it is closed the
\* one at the side reads the file again (not so in the mutant
\* CloseWithoutRefresh).
OpenAllSessions ==
    /\ Free("side")
    /\ front' = "all"
    /\ cache' = [cache EXCEPT !["all"] = Load]
    /\ UNCHANGED <<vaultVars, file, editor, tab, usedIds, commands>>

CloseWithoutRefresh ==
    /\ Free("all")
    /\ front' = "side"
    /\ cache' = [cache EXCEPT !["all"] = <<>>]
    /\ UNCHANGED <<vaultVars, file, editor, tab, usedIds, commands>>

CloseAllSessions ==
    /\ Free("all")
    /\ front' = "side"
    /\ cache' = [w \in Sidebars |-> IF w = "side" THEN Load ELSE <<>>]
    /\ UNCHANGED <<vaultVars, file, editor, tab, usedIds, commands>>

(***************************************************************************)
(* Connecting: the tab keeps the session as it was when it was opened, and *)
(* connects again with it at any later time.                               *)
(***************************************************************************)
Connect(w, i) ==
    /\ Free(w) /\ i \in DOMAIN cache[w] /\ tab = NoTab /\ Counted
    /\ tab' = cache[w][i]
    /\ UNCHANGED <<vaultVars, file, cache, front, editor, usedIds>>

CloseTab ==
    /\ tab # NoTab /\ lookup = NoLookup
    /\ tab' = NoTab
    /\ UNCHANGED <<vaultVars, file, cache, front, editor, usedIds, commands>>

\* The link of the tab's session as the file has it now.
LinkOf(id) == {s \in Range(Load) : s.id = id /\ s.jump # NoId}

\* connectToHost: the host it logs in to first and the name its password is
\* kept under, NoHost when the linked bastion cannot be used.  (The mutant
\* DialledAsOpened believes the tab.)
DialledAsOpened(t) ==
    IF t.route # NoHost
    THEN [host |-> t.route, name |-> IF t.jump = NoId THEN <<t.id, "jump">> ELSE <<t.jump, "own">>]
    ELSE [host |-> t.host, name |-> <<t.id, "own">>]

Dialled(t) ==
    IF LinkOf(t.id) # {}
    THEN LET s == CHOOSE x \in LinkOf(t.id) : TRUE
             b == {x \in Range(Load) : Serves(x, s)}
         IN  IF b = {} THEN [host |-> NoHost, name |-> <<NoId, "own">>]
             ELSE [host |-> (CHOOSE x \in b : TRUE).host, name |-> <<s.jump, "own">>]
    ELSE IF t.route # NoHost THEN [host |-> t.route, name |-> <<t.id, "jump">>]
    ELSE [host |-> t.host, name |-> <<t.id, "own">>]

\* The route and the password are read in one step here; between them lie the
\* connection to the host and its handshake.
Dial ==
    /\ tab # NoTab /\ tab.kind = "ssh" /\ lookup = NoLookup
    /\ Dialled(tab).host # NoHost
    /\ LookupReads(Dialled(tab).name, Dialled(tab).host)
    /\ UNCHANGED <<settings, sessionKey, ring, salts, storeVars>>

-----------------------------------------------------------------------------
Init ==
    /\ VaultInit
    /\ file \in SavedSessions \cup {NoFile}
    /\ file = NoFile => ~settings.enabled /\ \A n \in Names : ring["secret-service"][n] = Nothing
    /\ cache = [w \in Sidebars |-> IF w = "side" THEN Load ELSE <<>>]
    /\ front = "side"
    /\ editor = NoEditor
    /\ tab = NoTab
    /\ usedIds = SavedIds(file) \cup {LocalId}
    /\ commands = 0

SidebarNext(w) ==
    \/ NewEditor(w)
    \/ \E i \in DOMAIN cache[w], typed \in MasterPasswords \cup {"none"},
          failing \in SUBSET Providers : OpenEditor(w, i, typed, failing)
    \/ \E form \in Forms : AcceptNew(w, form) \/ AcceptEdit(w, form)
    \/ Reject(w)
    \/ \E i \in DOMAIN cache[w] :
          DeleteSession(w, i) \/ DuplicateSession(w, i) \/ Connect(w, i)
    \/ Resave(w)
    \/ \E batch \in Imports, skip \in BOOLEAN :
          \E renamed \in SUBSET DOMAIN batch : ImportSessions(w, batch, renamed, skip)

Next ==
    \/ \E w \in Sidebars : SidebarNext(w)
    \/ OpenAllSessions \/ CloseAllSessions
    \/ CloseTab \/ Dial
    \/ VaultNext /\ UNCHANGED storeVars

Spec == Init /\ [][Next]_vars

-----------------------------------------------------------------------------
\* The store has the shape the code gives it: no two sessions of the file share
\* an id, so that a session, its passwords and the links to it are one.
StoreTypeOK ==
    /\ VaultTypeOK
    /\ front \in Sidebars /\ tab.id \in Ids \cup {NoId} /\ usedIds \subseteq Ids
    /\ \A list \in {Load, cache["side"], cache["all"]} : Distinct(list)

Deleting == \E w \in Sidebars : \E i \in DOMAIN cache[w] : DeleteSession(w, i)

\* Each writer of sessions.json writes the whole list as it last read it
\* (SessionDialog::accept, and both sidebars through saveSessions): a session
\* once saved is still in the file until the user deletes it.
NothingLost == [][~Deleting => SavedIds(file) \subseteq SavedIds(file')]_vars

\* "A stale snapshot must not override the current saved bastion data": a tab
\* whose session goes through a saved session logs in to the host that session
\* has now, with that session's own password, or not at all (connectToHost).
LinkedRouteIsCurrent ==
    [][lookup = NoLookup /\ lookup' # NoLookup =>
          \A s \in LinkOf(tab.id) :
             \E b \in Range(Load) :
                /\ b.id = s.jump /\ lookup'.name = <<b.id, "own">>
                /\ b.host = lookup'.host]_vars

\* The dialog left as it was opened.
Untouched == [kind |-> editor.kind, host |-> editor.host, jump |-> editor.jump,
              route |-> editor.route, proxy |-> editor.proxy, own |-> editor.own,
              jumpText |-> editor.jumpText, proxyText |-> FALSE, save |-> TRUE]

\* "All future session passwords will be encrypted": a dialog opened and
\* accepted as it is leaves every password that could be read readable
\* (loadSession, accept, storePassword).
EditKeepsPasswords ==
    [][\A w \in Sidebars, n \in Names :
          /\ editor.index > 0 /\ editor.own /\ n = <<editor.id, "own">>
          /\ AcceptEdit(w, Untouched) /\ Readable(n)
          => Readable(n)']_vars

\* The saved sessions and the vault: one session for an id in the file and in
\* each sidebar's list, and in memory only the key the settings verify.
StoreSound == StoreTypeOK /\ KeyIsCurrent
=============================================================================
