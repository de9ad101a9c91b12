------------------------- MODULE SessionStoreProofs -------------------------
(***************************************************************************)
(* What is proved of the vault and of the saved sessions under every       *)
(* command, for any sessions, stores, master passwords and bounds: the     *)
(* types of the keys and entries, that the key in memory is the one the    *)
(* settings verify, that no password is laid open under a master password, *)
(* that no list of sessions is written back with one missing, and that     *)
(* a linked session is the one that is saved now.                          *)
(***************************************************************************)
EXTENDS SessionStore, FiniteSetTheorems, SequenceTheorems, TLAPS

AnyKey == Keys \cup {NoKey}
Rings == [Providers -> [Names -> Entries]]

\* The inductive invariant.  Entries are sealed with the key in memory, so
\* their type needs the type of the keys; KeyIsCurrent is inductive alone.
VaultInv ==
    /\ settings.key \in AnyKey
    /\ sessionKey \in AnyKey
    /\ ring \in Rings
    /\ salts \in 0..MaxSalts
    /\ settings.enabled <=> settings.key # NoKey
    /\ KeyIsCurrent

\* What one command may make of the key stores r: they stay key stores, and
\* when `hidden` no entry becomes plain.
Becomes(r, q, hidden) ==
    /\ q \in Rings
    /\ hidden => \A p \in Providers, n \in Names :
                    q[p][n] = PlainText => r[p][n] = PlainText

-----------------------------------------------------------------------------
\* The entries that are written.
LEMMA EntryTypes ==
    /\ Nothing \in Entries /\ PlainText \in Entries /\ Nothing # PlainText
    /\ \A k \in Keys : Sealed("sealed", k) \in Entries /\ Sealed("sealed", k) # PlainText
BY DEF Nothing, PlainText, Entries, Sealed

\* encryptPassword gives no plain text.
LEMMA EncryptType ==
    ASSUME sessionKey \in AnyKey
    PROVE  Encrypt \in Entries /\ Encrypt # PlainText
<1>1. CASE sessionKey = NoKey  BY <1>1, EntryTypes DEF Encrypt
<1>2. CASE sessionKey # NoKey  BY <1>2, EntryTypes DEF Encrypt, AnyKey
<1> QED  BY <1>1, <1>2

LEMMA BecomesSame ==
    ASSUME NEW r \in Rings, NEW hidden
    PROVE  Becomes(r, r, hidden)
BY DEF Becomes

LEMMA BecomesOn ==
    ASSUME NEW r, NEW q, NEW s, NEW hidden, Becomes(r, q, hidden), Becomes(q, s, hidden)
    PROVE  Becomes(r, s, hidden)
BY DEF Becomes

\* One call to one store.
LEMMA WrittenBecomes ==
    ASSUME NEW r \in Rings, NEW p, NEW n, NEW entry \in Entries, NEW outcome, NEW hidden,
           hidden => entry # PlainText
    PROVE  Becomes(r, Written(r, p, n, entry, outcome), hidden)
<1>1. CASE outcome.done
  <2> DEFINE q == [r EXCEPT ![p][n] = entry]
  <2>1. q \in Rings  BY DEF Rings
  <2>2. ASSUME NEW s \in Providers, NEW m \in Names
        PROVE  q[s][m] = entry \/ q[s][m] = r[s][m]
    BY DEF Rings
  <2>3. Written(r, p, n, entry, outcome) = q  BY <1>1 DEF Written
  <2> QED  BY <2>1, <2>2, <2>3 DEF Becomes
<1>2. CASE ~outcome.done  BY <1>2, BecomesSame DEF Written
<1> QED  BY <1>1, <1>2

\* One call to each of the two, as storing and deleting make them.
LEMMA WrittenTwiceBecomes ==
    ASSUME NEW r \in Rings, NEW n, NEW entry \in Entries, NEW o, NEW w, NEW hidden,
           hidden => entry # PlainText
    PROVE  Becomes(r, Written(Written(r, "secret-service", n, entry, o), "kwallet", n, entry, w), hidden)
<1> DEFINE q == Written(r, "secret-service", n, entry, o)
<1>1. Becomes(r, q, hidden)  BY WrittenBecomes
<1>2. q \in Rings  BY <1>1 DEF Becomes
<1> HIDE DEF q
<1>3. Becomes(q, Written(q, "kwallet", n, entry, w), hidden)  BY <1>2, WrittenBecomes
<1>4. Becomes(r, Written(q, "kwallet", n, entry, w), hidden)  BY <1>1, <1>3, BecomesOn
<1> QED  BY <1>4 DEF q

LEMMA StoresBecomes ==
    ASSUME NEW r \in Rings, NEW n, NEW entry \in Entries, NEW hidden,
           hidden => entry # PlainText
    PROVE  \A a \in Stores(r, n, entry) : Becomes(r, a.ring, hidden)
BY WrittenBecomes, WrittenTwiceBecomes DEF Stores

LEMMA DeletesBecomes ==
    ASSUME NEW r \in Rings, NEW n, NEW hidden
    PROVE  \A a \in Deletes(r, n) : Becomes(r, a.ring, hidden)
BY WrittenTwiceBecomes, EntryTypes DEF Deletes

-----------------------------------------------------------------------------
\* What accept() does to the passwords, one after the other.
LEMMA StoresPasswordBecomes ==
    ASSUME VaultInv, NEW r \in Rings, NEW n
    PROVE  \A a \in StoresPassword(r, n) : Becomes(r, a.ring, settings.enabled)
<1> DEFINE entry == IF settings.enabled THEN Encrypt ELSE PlainText
<1>1. entry \in Entries /\ (settings.enabled => entry # PlainText)
  BY EncryptType, EntryTypes DEF VaultInv
<1> HIDE DEF entry
<1>2. \A a \in Stores(r, n, entry) : Becomes(r, a.ring, settings.enabled)
  BY <1>1, StoresBecomes
<1> QED  BY <1>2 DEF entry, StoresPassword

LEMMA KeepsBecomes ==
    ASSUME NEW r \in Rings, NEW hidden
    PROVE  \A a \in Keeps(r) : Becomes(r, a.ring, hidden)
BY BecomesSame DEF Keeps

LEMMA JumpBecomes ==
    ASSUME VaultInv, NEW e
    PROVE  \A a \in KeepsJumpPassword(e) : Becomes(ring, a.ring, settings.enabled)
<1>1. ring \in Rings  BY DEF VaultInv
<1>2. CASE e.jump # NoId
  <2>1. KeepsJumpPassword(e) = Keeps(ring)  BY <1>2 DEF KeepsJumpPassword
  <2> QED  BY <1>1, <2>1, KeepsBecomes
<1>3. CASE e.jump = NoId /\ e.jumpText
  <2>1. KeepsJumpPassword(e) = StoresPassword(ring, <<e.id, "jump">>)
    BY <1>3 DEF KeepsJumpPassword
  <2> QED  BY <1>1, <2>1, StoresPasswordBecomes
<1>4. CASE e.jump = NoId /\ ~e.jumpText
  <2>1. KeepsJumpPassword(e) = {[r EXCEPT !.ok = TRUE] : r \in Deletes(ring, <<e.id, "jump">>)}
    BY <1>4 DEF KeepsJumpPassword
  <2>2. ASSUME NEW d \in Deletes(ring, <<e.id, "jump">>)
        PROVE  Becomes(ring, [d EXCEPT !.ok = TRUE].ring, settings.enabled)
    <3>1. [d EXCEPT !.ok = TRUE].ring = d.ring  BY DEF Deletes
    <3> QED  BY <1>1, <3>1, DeletesBecomes
  <2> QED  BY <2>1, <2>2
<1> QED  BY <1>2, <1>3, <1>4

LEMMA OwnBecomes ==
    ASSUME VaultInv, NEW e, NEW r \in Rings
    PROVE  \A a \in KeepsOwnPassword(e, r) : Becomes(r, a.ring, settings.enabled)
<1>1. CASE e.own  BY <1>1, StoresPasswordBecomes DEF KeepsOwnPassword
<1>2. CASE ~e.own /\ e.kind = "ssh"
  BY <1>2, DeletesBecomes, KeepsBecomes DEF KeepsOwnPassword
<1>3. CASE ~e.own /\ e.kind # "ssh"
  BY <1>3, DeletesBecomes DEF KeepsOwnPassword
<1> QED  BY <1>1, <1>2, <1>3

LEMMA ProxyBecomes ==
    ASSUME VaultInv, NEW e, NEW typed, NEW r \in Rings
    PROVE  \A a \in KeepsProxyPassword(e, typed, r) : Becomes(r, a.ring, settings.enabled)
<1>1. CASE ~e.proxy  BY <1>1, KeepsBecomes DEF KeepsProxyPassword
<1>2. CASE e.proxy /\ typed  BY <1>2, StoresPasswordBecomes DEF KeepsProxyPassword
<1>3. CASE e.proxy /\ ~typed  BY <1>3, DeletesBecomes DEF KeepsProxyPassword
<1> QED  BY <1>1, <1>2, <1>3

\* An ssh session: its three passwords in a row, each on what the one before
\* has left.
LEMMA SshBecomes ==
    ASSUME VaultInv, NEW e, NEW typed,
           NEW j \in KeepsJumpPassword(e),
           NEW o \in KeepsOwnPassword(e, j.ring),
           NEW x \in KeepsProxyPassword(e, typed, o.ring)
    PROVE  Becomes(ring, x.ring, settings.enabled)
<1>1. Becomes(ring, j.ring, settings.enabled)  BY JumpBecomes
<1>2. Becomes(j.ring, o.ring, settings.enabled)  BY <1>1, OwnBecomes DEF Becomes
<1>3. Becomes(o.ring, x.ring, settings.enabled)  BY <1>2, ProxyBecomes DEF Becomes
<1>4. Becomes(ring, o.ring, settings.enabled)  BY <1>1, <1>2, BecomesOn
<1> QED  BY <1>3, <1>4, BecomesOn

LEMMA AcceptsBecomes ==
    ASSUME VaultInv, NEW e, NEW typed, NEW a \in Accepts(e, typed)
    PROVE  Becomes(ring, a.ring, settings.enabled)
<1>1. ring \in Rings  BY DEF VaultInv
<1>2. CASE e.kind = "ssh"
  <2> DEFINE After(j) == UNION {{[ring |-> x.ring, ok |-> TRUE, cost |-> j.cost + o.cost + x.cost] :
                                    x \in KeepsProxyPassword(e, typed, o.ring)} :
                                  o \in KeepsOwnPassword(e, j.ring)}
  <2>1. Accepts(e, typed) = UNION {IF ~j.ok THEN {j} ELSE After(j) : j \in KeepsJumpPassword(e)}
    BY <1>2 DEF Accepts
  <2>2. PICK j \in KeepsJumpPassword(e) : a \in (IF ~j.ok THEN {j} ELSE After(j))
    BY <2>1
  <2>3. CASE a = j  BY <2>3, JumpBecomes
  <2>4. CASE a \in After(j)
    <3>1. PICK o \in KeepsOwnPassword(e, j.ring) :
            a \in {[ring |-> x.ring, ok |-> TRUE, cost |-> j.cost + o.cost + x.cost] :
                     x \in KeepsProxyPassword(e, typed, o.ring)}
      BY <2>4
    <3>2. PICK x \in KeepsProxyPassword(e, typed, o.ring) : a.ring = x.ring
      BY <3>1
    <3> QED  BY <3>2, SshBecomes
  <2> QED  BY <2>2, <2>3, <2>4
<1>3. CASE e.kind = "desktop"
  <2>1. Accepts(e, typed) = {[o EXCEPT !.ok = TRUE] : o \in KeepsOwnPassword(e, ring)}
    BY <1>3 DEF Accepts
  <2>2. PICK o \in KeepsOwnPassword(e, ring) : a = [o EXCEPT !.ok = TRUE]
    BY <2>1
  <2>3. a.ring = o.ring  BY <2>2 DEF KeepsOwnPassword, StoresPassword, Stores, Deletes
  <2> QED  BY <1>1, <2>3, OwnBecomes
<1>4. CASE e.kind \notin {"ssh", "desktop"}
  <2>1. Accepts(e, typed) = Keeps(ring)  BY <1>4 DEF Accepts
  <2> QED  BY <1>1, <2>1, KeepsBecomes
<1> QED  BY <1>2, <1>3, <1>4

-----------------------------------------------------------------------------
\* What the calls to the key stores cost: a number of faults.
LEMMA CostTypes ==
    ASSUME NEW r, NEW n, NEW entry
    PROVE  /\ \A a \in Stores(r, n, entry) : a.cost \in Nat
           /\ \A a \in Deletes(r, n) : a.cost \in Nat
           /\ \A a \in Keeps(r) : a.cost \in Nat
<1>1. \A o : Cost(o) \in Nat  BY DEF Cost
<1> QED  BY <1>1 DEF Stores, Deletes, Keeps

LEMMA PasswordCosts ==
    ASSUME NEW e, NEW typed, NEW r
    PROVE  /\ \A a \in KeepsJumpPassword(e) : a.cost \in Nat
           /\ \A a \in KeepsOwnPassword(e, r) : a.cost \in Nat
           /\ \A a \in KeepsProxyPassword(e, typed, r) : a.cost \in Nat
<1>1. \A q, n : \A a \in StoresPassword(q, n) : a.cost \in Nat  BY CostTypes DEF StoresPassword
<1>2. ASSUME NEW q, NEW n, NEW d \in Deletes(q, n)
      PROVE  [d EXCEPT !.ok = TRUE].cost \in Nat
  <2>1. [d EXCEPT !.ok = TRUE].cost = d.cost  BY DEF Deletes
  <2> QED  BY <2>1, CostTypes
<1>3. \A a \in KeepsJumpPassword(e) : a.cost \in Nat
  <2>1. CASE e.jump # NoId  BY <2>1, CostTypes DEF KeepsJumpPassword
  <2>2. CASE e.jump = NoId /\ e.jumpText  BY <1>1, <2>2 DEF KeepsJumpPassword
  <2>3. CASE e.jump = NoId /\ ~e.jumpText  BY <1>2, <2>3 DEF KeepsJumpPassword
  <2> QED  BY <2>1, <2>2, <2>3
<1>4. \A a \in KeepsOwnPassword(e, r) : a.cost \in Nat
  BY <1>1, CostTypes DEF KeepsOwnPassword
<1>5. \A a \in KeepsProxyPassword(e, typed, r) : a.cost \in Nat
  <2>1. CASE ~e.proxy  BY <2>1, CostTypes DEF KeepsProxyPassword
  <2>2. CASE e.proxy /\ typed  BY <1>1, <2>2 DEF KeepsProxyPassword
  <2>3. CASE e.proxy /\ ~typed  BY <2>3, CostTypes DEF KeepsProxyPassword
  <2> QED  BY <2>1, <2>2, <2>3
<1> QED  BY <1>3, <1>4, <1>5

LEMMA AcceptsCost ==
    ASSUME NEW e, NEW typed, NEW a \in Accepts(e, typed)
    PROVE  a.cost \in Nat
<1>1. CASE e.kind = "ssh"
  <2> DEFINE After(j) == UNION {{[ring |-> x.ring, ok |-> TRUE, cost |-> j.cost + o.cost + x.cost] :
                                    x \in KeepsProxyPassword(e, typed, o.ring)} :
                                  o \in KeepsOwnPassword(e, j.ring)}
  <2>1. Accepts(e, typed) = UNION {IF ~j.ok THEN {j} ELSE After(j) : j \in KeepsJumpPassword(e)}
    BY <1>1 DEF Accepts
  <2>2. PICK j \in KeepsJumpPassword(e) : a \in (IF ~j.ok THEN {j} ELSE After(j))
    BY <2>1
  <2>3. CASE a = j  BY <2>3, PasswordCosts
  <2>4. CASE a \in After(j)
    <3>1. PICK o \in KeepsOwnPassword(e, j.ring) :
            a \in {[ring |-> x.ring, ok |-> TRUE, cost |-> j.cost + o.cost + x.cost] :
                     x \in KeepsProxyPassword(e, typed, o.ring)}
      BY <2>4
    <3>2. PICK x \in KeepsProxyPassword(e, typed, o.ring) : a.cost = j.cost + o.cost + x.cost
      BY <3>1
    <3>3. j.cost \in Nat /\ o.cost \in Nat /\ x.cost \in Nat  BY PasswordCosts
    <3> QED  BY <3>2, <3>3
  <2> QED  BY <2>2, <2>3, <2>4
<1>2. CASE e.kind = "desktop"
  <2>1. Accepts(e, typed) = {[o EXCEPT !.ok = TRUE] : o \in KeepsOwnPassword(e, ring)}
    BY <1>2 DEF Accepts
  <2>2. PICK o \in KeepsOwnPassword(e, ring) : a = [o EXCEPT !.ok = TRUE]
    BY <2>1
  <2>3. a.cost = o.cost  BY <2>2 DEF KeepsOwnPassword, StoresPassword, Stores, Deletes
  <2> QED  BY <2>3, PasswordCosts
<1>3. CASE e.kind \notin {"ssh", "desktop"}
  <2>1. Accepts(e, typed) = Keeps(ring)  BY <1>3 DEF Accepts
  <2> QED  BY <2>1, CostTypes
<1> QED  BY <1>1, <1>2, <1>3

-----------------------------------------------------------------------------
\* The start of the program.
LEMMA VaultInvInit == Init => VaultInv
<1> SUFFICES ASSUME Init PROVE VaultInv
  OBVIOUS
<1>0. \A k \in Keys : k # NoKey  BY DEF Keys, NoKey
<1>1. /\ settings.key \in AnyKey /\ (settings.enabled => settings.key \in Keys)
      /\ settings.enabled <=> settings.key # NoKey
  <2>1. \/ settings = [enabled |-> FALSE, key |-> NoKey]
        \/ settings \in [enabled : {TRUE}, key : {k \in Keys : k.salt = 1 /\ k.legacy \in EarlierVersions}]
    BY DEF Init, VaultInit
  <2>2. CASE settings = [enabled |-> FALSE, key |-> NoKey]
    BY <2>2 DEF AnyKey
  <2>3. CASE settings \in [enabled : {TRUE}, key : {k \in Keys : k.salt = 1 /\ k.legacy \in EarlierVersions}]
    BY <1>0, <2>3 DEF AnyKey
  <2> QED  BY <2>1, <2>2, <2>3
<1>2. sessionKey = NoKey /\ salts \in 0..MaxSalts
  BY VaultAssumption DEF Init, VaultInit
<1>3. PICK before \in {Nothing, PlainText}
                        \cup {Sealed("sealed", settings.key), Sealed("old", settings.key)} :
        /\ before.form = "sealed" => settings.enabled
        /\ before.form = "old" => settings.key.legacy
        /\ ring = [p \in Providers |-> [n \in Names |->
                     IF p = "secret-service" /\ n \in SavedBefore THEN before ELSE Nothing]]
  BY DEF Init, VaultInit
<1>4. before \in Entries
  <2>1. CASE before = Sealed("sealed", settings.key)
    BY <1>1, <1>3, <2>1 DEF Sealed, Entries
  <2>2. CASE before = Sealed("old", settings.key)
    <3>1. settings.key.legacy  BY <1>3, <2>2 DEF Sealed
    <3>2. settings.key # NoKey  BY <3>1 DEF NoKey
    <3> QED  BY <1>1, <2>2, <3>2 DEF Sealed, Entries, AnyKey
  <2> QED  BY <1>3, <2>1, <2>2, EntryTypes
<1>5. ring \in Rings  BY <1>3, <1>4, EntryTypes DEF Rings
<1> QED  BY <1>1, <1>2, <1>5 DEF VaultInv, KeyIsCurrent, AnyKey

\* The key a typed master password unlocks is the settings' key, or the one
\* that is in memory anyway.
LEMMA UnlockedType ==
    ASSUME VaultInv, NEW typed
    PROVE  /\ UnlockedBy(typed) \in AnyKey
           /\ UnlockedBy(typed) # NoKey => UnlockedBy(typed) = settings.key
BY DEF VaultInv, UnlockedBy, KeyIsCurrent

LEMMA DialogKeyType ==
    ASSUME VaultInv, NEW n, NEW failing, NEW typed
    PROVE  LET key == ReadInDialog(n, failing, typed).key
           IN  key \in AnyKey /\ (key # NoKey => key = settings.key)
BY UnlockedType DEF ReadInDialog, VaultInv, KeyIsCurrent

\* What a step does to the vault, if it changes nothing but the key in memory.
NewKey == UNCHANGED <<settings, ring, salts>> /\ sessionKey' \in AnyKey
             /\ (sessionKey' # NoKey => sessionKey' = settings.key)

LEMMA NewKeyKeeps ==
    ASSUME VaultInv, NewKey
    PROVE  VaultInv' /\ Becomes(ring, ring', settings.enabled)
<1>1. ring' \in Rings /\ ring' = ring  BY DEF VaultInv, NewKey
<1>2. VaultInv'  BY <1>1 DEF VaultInv, NewKey, KeyIsCurrent
<1> QED  BY <1>1, <1>2, BecomesSame

\* If it changes nothing but the entries.
LEMMA NewRingKeeps ==
    ASSUME VaultInv, UNCHANGED <<settings, sessionKey, salts>>,
           Becomes(ring, ring', settings.enabled)
    PROVE  VaultInv' /\ Becomes(ring, ring', settings.enabled)
BY DEF VaultInv, KeyIsCurrent, Becomes

LEMMA VaultUntouched ==
    ASSUME VaultInv, UNCHANGED <<settings, sessionKey, ring, salts>>
    PROVE  VaultInv' /\ Becomes(ring, ring', settings.enabled)
<1>1. NewKey  BY DEF NewKey, VaultInv, KeyIsCurrent
<1> QED  BY <1>1, NewKeyKeeps

\* The commands of the vault.
LEMMA VaultStep ==
    ASSUME VaultInv, VaultNext
    PROVE  VaultInv' /\ Becomes(ring, ring', settings.enabled)
<1>1. ASSUME NEW typed \in MasterPasswords, SetMasterPassword(typed)
      PROVE  VaultInv' /\ Becomes(ring, ring', settings.enabled)
  <2>1. /\ salts \in Nat /\ salts < MaxSalts /\ salts' = salts + 1
        /\ settings' = [enabled |-> TRUE,
                        key |-> [password |-> typed, salt |-> salts', legacy |-> FALSE]]
        /\ sessionKey' = settings'.key /\ ring' = ring
    BY <1>1 DEF SetMasterPassword, VaultInv
  <2>2. salts' \in 1..MaxSalts  BY <2>1, VaultAssumption
  <2>3. settings'.key \in Keys /\ settings'.key # NoKey /\ settings'.enabled
    BY <2>1, <2>2 DEF Keys, NoKey
  <2>4. ring' \in Rings  BY <2>1 DEF VaultInv
  <2>5. VaultInv'  BY <2>1, <2>2, <2>3, <2>4 DEF VaultInv, AnyKey, KeyIsCurrent
  <2> QED  BY <2>1, <2>4, <2>5, BecomesSame
<1>2. ASSUME NEW typed \in MasterPasswords, DisableMasterPassword(typed)
      PROVE  VaultInv' /\ Becomes(ring, ring', settings.enabled)
  <2>1. ring' = ring /\ ring' \in Rings  BY <1>2 DEF DisableMasterPassword, VaultInv
  <2>2. VaultInv'
    BY <1>2, <2>1 DEF DisableMasterPassword, VaultInv, AnyKey, KeyIsCurrent
  <2> QED  BY <2>1, <2>2, BecomesSame
<1>3. ASSUME NEW typed \in MasterPasswords, Unlock(typed)
      PROVE  NewKey
  BY <1>3, UnlockedType DEF Unlock, NewKey
<1>4. ASSUME NEW typed \in MasterPasswords \cup {"none"}, PromptAnswered(typed)
      PROVE  NewKey
  BY <1>4, UnlockedType DEF PromptAnswered, NewKey, VaultInv, KeyIsCurrent
<1>5. CASE Lock  BY <1>5, NewKeyKeeps DEF Lock, NewKey, AnyKey
<1>6. CASE LookupAsks \/ LookupOpens  BY <1>6, VaultUntouched DEF LookupAsks, LookupOpens
<1> QED  BY <1>1, <1>2, <1>3, <1>4, <1>5, <1>6, NewKeyKeeps DEF VaultNext

\* The commands of a sidebar and its dialog.
LEMMA SidebarStep ==
    ASSUME VaultInv, NEW w \in Sidebars, SidebarNext(w)
    PROVE  VaultInv' /\ Becomes(ring, ring', settings.enabled)
<1>1. CASE NewEditor(w)  BY <1>1, VaultUntouched DEF NewEditor, vaultVars
<1>2. ASSUME NEW i \in DOMAIN cache[w], NEW typed, NEW failing, OpenEditor(w, i, typed, failing)
      PROVE  NewKey
  <2> DEFINE jump == ReadInDialog(<<cache[w][i].id, "jump">>, failing, typed)
             own == ReadInDialog(<<cache[w][i].id, "own">>, failing, typed)
  <2>1. sessionKey' \in {jump.key, own.key}  BY <1>2 DEF OpenEditor
  <2>2. \A k \in {jump.key, own.key} : k \in AnyKey /\ (k # NoKey => k = settings.key)
    BY DialogKeyType
  <2>3. UNCHANGED <<settings, ring, salts>>  BY <1>2 DEF OpenEditor
  <2> HIDE DEF jump, own
  <2> QED  BY <2>1, <2>2, <2>3 DEF NewKey
<1>3. ASSUME NEW form \in Forms, AcceptNew(w, form)
      PROVE  VaultInv' /\ Becomes(ring, ring', settings.enabled)
  <2>1. PICK a \in Accepts(Edited(editor, form), form.proxyText) : ring' = a.ring
    BY <1>3 DEF AcceptNew
  <2>2. UNCHANGED <<settings, sessionKey, salts>>  BY <1>3 DEF AcceptNew
  <2> QED  BY <2>1, <2>2, AcceptsBecomes, NewRingKeeps
<1>4. ASSUME NEW form \in Forms, AcceptEdit(w, form)
      PROVE  VaultInv' /\ Becomes(ring, ring', settings.enabled)
  <2>1. PICK a \in Accepts(Edited(editor, form), form.proxyText) : ring' = a.ring
    BY <1>4 DEF AcceptEdit
  <2>2. UNCHANGED <<settings, sessionKey, salts>>  BY <1>4 DEF AcceptEdit
  <2> QED  BY <2>1, <2>2, AcceptsBecomes, NewRingKeeps
<1>5. CASE Reject(w)  BY <1>5, VaultUntouched DEF Reject, vaultVars
<1>6. ASSUME NEW i \in DOMAIN cache[w],
             DeleteSession(w, i) \/ DuplicateSession(w, i) \/ Connect(w, i)
      PROVE  UNCHANGED vaultVars
  BY <1>6 DEF DeleteSession, DuplicateSession, Connect, SavesAndLoads
<1>7. CASE Resave(w)  BY <1>7, VaultUntouched DEF Resave, SavesAndLoads, vaultVars
<1>8. ASSUME NEW batch, NEW renamed, NEW skip, ImportSessions(w, batch, renamed, skip)
      PROVE  UNCHANGED vaultVars
  BY <1>8 DEF ImportSessions, SavesAndLoads
<1>9. ASSUME UNCHANGED vaultVars
      PROVE  VaultInv' /\ Becomes(ring, ring', settings.enabled)
  BY <1>9, VaultUntouched DEF vaultVars
<1> QED  BY <1>1, <1>2, <1>3, <1>4, <1>5, <1>6, <1>7, <1>8, <1>9, NewKeyKeeps DEF SidebarNext

\* Every step of the specification.
LEMMA VaultInvStep ==
    ASSUME VaultInv, [Next]_vars
    PROVE  VaultInv' /\ Becomes(ring, ring', settings.enabled)
<1>1. ASSUME NEW w \in Sidebars, SidebarNext(w)
      PROVE  VaultInv' /\ Becomes(ring, ring', settings.enabled)
  BY <1>1, SidebarStep
<1>2. CASE OpenAllSessions \/ CloseAllSessions \/ CloseTab
  BY <1>2, VaultUntouched DEF OpenAllSessions, CloseAllSessions, CloseTab, vaultVars
<1>3. CASE Dial  BY <1>3, VaultUntouched DEF Dial
<1>4. CASE VaultNext  BY <1>4, VaultStep
<1>5. CASE UNCHANGED vars  BY <1>5, VaultUntouched DEF vars, vaultVars
<1> QED  BY <1>1, <1>2, <1>3, <1>4, <1>5 DEF Next

-----------------------------------------------------------------------------
\* The keys, the entries and the count of salts keep their types, and the key
\* in memory is the one the settings verify (MasterPasswordManager), whatever
\* dialogs, key stores and worker threads do.
THEOREM VaultCorrect == Spec => []VaultInv
<1>1. VaultInv /\ [Next]_vars => VaultInv'  BY VaultInvStep
<1> QED  BY VaultInvInit, <1>1, PTL DEF Spec

\* Part of StoreSound: what is sealed while the vault is open can be opened
\* after the next unlock (setMasterPassword, unlock, disableMasterPassword).
THEOREM KeyStaysCurrent == Spec => []KeyIsCurrent
<1>1. VaultInv => KeyIsCurrent  BY DEF VaultInv
<1> QED  BY VaultCorrect, <1>1, PTL

\* "Never silently persist a plaintext secret": no store comes to hold a plain
\* password while the master password is on (storePassword, encryptPassword).
THEOREM NeverLaidOpen == Spec => NeverPlain
<1> DEFINE Hides == settings.enabled =>
             \A p \in Providers, n \in Names : ring'[p][n] = PlainText => ring[p][n] = PlainText
<1>1. VaultInv /\ [Next]_vars => [Hides]_vaultVars
  BY VaultInvStep DEF Becomes
<1>2. Spec => [][Hides]_vaultVars
  BY VaultCorrect, <1>1, PTL DEF Spec
<1> QED  BY <1>2 DEF NeverPlain

-----------------------------------------------------------------------------
\* Induction over the numbers, for a set instead of a predicate: of the
\* intervals that end at a number missed, one is the smallest.
LEMMA Induction ==
    ASSUME NEW S, 0 \in S, \A n \in Nat : n \in S => n + 1 \in S
    PROVE  Nat \subseteq S
<1> DEFINE missed == {n \in Nat : n \notin S}
           tails == {1..n : n \in missed}
<1> SUFFICES ASSUME NEW k \in Nat, k \notin S PROVE FALSE
  OBVIOUS
<1>1. tails \subseteq FiniteSubsetsOf(Nat)
  <2> SUFFICES ASSUME NEW n \in missed PROVE 1..n \in FiniteSubsetsOf(Nat)
    OBVIOUS
  <2> QED  BY FS_Interval DEF FiniteSubsetsOf
<1>2. tails # {}  OBVIOUS
<1>3. PICK x \in tails : \A y \in tails : ~ (<<y, x>> \in StrictSubsetOrdering(Nat))
  <2>1. IsWellFoundedOn(StrictSubsetOrdering(Nat), FiniteSubsetsOf(Nat))
    BY FS_StrictSubsetOrderingWellFounded
  <2> HIDE DEF tails
  <2> QED  BY <1>1, <1>2, <2>1, WFMin
<1>4. PICK n \in missed : x = 1..n  OBVIOUS
<1>5. n # 0 /\ n - 1 \in Nat  BY <1>4
<1>6. 1..(n - 1) \in tails  BY <1>5
<1>7. <<1..(n - 1), 1..n>> \in StrictSubsetOrdering(Nat)
  <2> DEFINE a == 1..(n - 1)
             b == 1..n
  <2>1. a \in SUBSET Nat /\ b \in SUBSET Nat /\ a \subseteq b /\ n \in b /\ n \notin a
    BY <1>5
  <2> HIDE DEF a, b
  <2>2. <<a, b>> \in StrictSubsetOrdering(Nat)  BY <2>1 DEF StrictSubsetOrdering
  <2> QED  BY <2>2 DEF a, b
<1> QED  BY <1>3, <1>4, <1>6, <1>7

\* The ids are numbers, so of some there is a first.
LEMMA LeastOf ==
    ASSUME NEW S, S \subseteq Nat, S # {}
    PROVE  \E n \in S : \A m \in S : n <= m
<1> DEFINE Least(n) == \A m \in S : n <= m
           T == {n \in Nat : (\E k \in S : Least(k)) \/ (\A m \in S : n < m)}
<1> SUFFICES ASSUME ~ \E k \in S : Least(k) PROVE FALSE
  OBVIOUS
<1>1. 0 \in T
  <2>1. 0 \notin S  BY DEF Least
  <2> QED  BY <2>1
<1>2. ASSUME NEW n \in Nat, n \in T PROVE n + 1 \in T
  <2>1. \A m \in S : n + 1 <= m  BY <1>2
  <2>2. n + 1 \notin S  BY <2>1
  <2>3. \A m \in S : n + 1 < m  BY <2>1, <2>2
  <2> QED  BY <2>3
<1>3. Nat \subseteq T
  <2> HIDE DEF T
  <2> QED  BY <1>1, <1>2, Induction
<1>4. PICK m \in S : TRUE  OBVIOUS
<1>5. m < m  BY <1>3, <1>4
<1> QED  BY <1>4, <1>5

-----------------------------------------------------------------------------
\* A list of sessions, one for an id, with ids that were given out.
Good(list, used) == list \in Seq(Sessions) /\ Distinct(list) /\ IdsOf(list) \subseteq used

LEMMA GoodMore ==
    ASSUME NEW list, NEW used, NEW more, Good(list, used), used \subseteq more
    PROVE  Good(list, more)
BY DEF Good

\* What is in a list of sessions is not the mark of a missing file.
LEMMA GoodSaved ==
    ASSUME NEW list \in Seq(Sessions)
    PROVE  list # NoFile /\ SavedIds(list) = IdsOf(list)
<1>1. NoId \notin Ids  BY StoreAssumption DEF NoId
<1>2. NoFile \notin Seq(Sessions)
  <2> SUFFICES ASSUME NoFile \in Seq(Sessions) PROVE FALSE
    OBVIOUS
  <2>1. Len(NoFile) = 1 /\ NoFile[1].id = NoId  BY DEF NoFile
  <2>2. 1 \in 1..Len(NoFile)  BY <2>1
  <2>3. NoFile[1] \in Sessions  BY ONLY <2>2, NoFile \in Seq(Sessions), ElementOfSeq
  <2> QED  BY <1>1, <2>1, <2>3 DEF Sessions
<1> QED  BY <1>2 DEF SavedIds

LEMMA AppendGood ==
    ASSUME NEW list, NEW used, Good(list, used), NEW s \in Sessions, s.id \notin IdsOf(list)
    PROVE  /\ Good(Append(list, s), used \cup {s.id})
           /\ IdsOf(Append(list, s)) = IdsOf(list) \cup {s.id}
<1> DEFINE more == Append(list, s)
<1>1. list \in Seq(Sessions) /\ Len(list) \in Nat /\ DOMAIN list = 1..Len(list)  BY DEF Good
<1>2. /\ more \in Seq(Sessions) /\ DOMAIN more = 1..(Len(list) + 1)
      /\ more[Len(list) + 1] = s /\ \A i \in 1..Len(list) : more[i] = list[i]
  BY <1>1
<1> HIDE DEF more
<1>3. \A i \in DOMAIN more : i = Len(list) + 1 \/ i \in 1..Len(list)  BY <1>1, <1>2
<1>4. \A i \in 1..Len(list) : more[i].id \in IdsOf(list) /\ more[i].id # s.id
  BY <1>1, <1>2 DEF IdsOf
<1>5. Distinct(more)
  <2> SUFFICES ASSUME NEW i \in DOMAIN more, NEW j \in DOMAIN more, more[i].id = more[j].id
               PROVE  i = j
    BY DEF Distinct
  <2>1. CASE i = Len(list) + 1  BY <1>2, <1>3, <1>4, <2>1
  <2>2. CASE j = Len(list) + 1  BY <1>2, <1>3, <1>4, <2>2
  <2>3. CASE i \in 1..Len(list) /\ j \in 1..Len(list)
    BY <1>1, <1>2, <2>3 DEF Good, Distinct
  <2> QED  BY <1>3, <2>1, <2>2, <2>3
<1>6. IdsOf(more) = IdsOf(list) \cup {s.id}
  <2>1. IdsOf(more) \subseteq IdsOf(list) \cup {s.id}
    BY <1>2, <1>3, <1>4 DEF IdsOf
  <2>2. ASSUME NEW i \in DOMAIN list PROVE list[i].id \in IdsOf(more)
    BY <1>1, <1>2 DEF IdsOf
  <2>3. s.id \in IdsOf(more)
    <3>1. Len(list) + 1 \in DOMAIN more  BY <1>1, <1>2
    <3> QED  BY <1>2, <3>1 DEF IdsOf
  <2> QED  BY <2>1, <2>2, <2>3 DEF IdsOf
<1> QED  BY <1>2, <1>5, <1>6 DEF Good, more

\* A session takes the place of the one with its id.
LEMMA ReplacedGood ==
    ASSUME NEW list, NEW used, Good(list, used), NEW i \in DOMAIN list,
           NEW s \in Sessions, s.id = list[i].id
    PROVE  Good([list EXCEPT ![i] = s], used) /\ IdsOf([list EXCEPT ![i] = s]) = IdsOf(list)
<1> DEFINE next == [list EXCEPT ![i] = s]
<1>1. list \in Seq(Sessions) /\ DOMAIN list = 1..Len(list)  BY DEF Good
<1>2. next \in Seq(Sessions) /\ DOMAIN next = DOMAIN list  BY <1>1, ExceptSeq
<1>3. \A j \in DOMAIN list : next[j].id = list[j].id  OBVIOUS
<1> HIDE DEF next
<1> QED  BY <1>2, <1>3 DEF Good, Distinct, IdsOf, next

LEMMA PutGood ==
    ASSUME NEW list, NEW used, Good(list, used), NEW s \in Sessions
    PROVE  Good(Put(list, s), used \cup {s.id}) /\ IdsOf(list) \subseteq IdsOf(Put(list, s))
<1>1. CASE s.id \in IdsOf(list)
  <2>1. PICK i \in DOMAIN list : list[i].id = s.id  BY <1>1 DEF IdsOf
  <2>2. list \in Seq(Sessions) /\ DOMAIN list = 1..Len(list) /\ Len(list) \in Nat  BY DEF Good
  <2>3. Put(list, s) = [j \in DOMAIN list |->
            IF list[j].id = s.id /\ \A k \in 1..(j - 1) : list[k].id # s.id THEN s ELSE list[j]]
    BY <1>1 DEF Put
  <2>4. ASSUME NEW j \in DOMAIN list
        PROVE  (list[j].id = s.id /\ \A k \in 1..(j - 1) : list[k].id # s.id) <=> j = i
    <3>1. list[j].id = s.id => j = i  BY <2>1 DEF Good, Distinct
    <3>2. ASSUME NEW k \in 1..(i - 1) PROVE list[k].id # s.id
      <4>1. k \in DOMAIN list /\ k # i  BY <2>2
      <4> QED  BY <2>1, <4>1 DEF Good, Distinct
    <3> QED  BY <2>1, <3>1, <3>2
  <2>5. Put(list, s) = [j \in DOMAIN list |-> IF j = i THEN s ELSE list[j]]
    BY <2>3, <2>4
  <2>6. Put(list, s) = [list EXCEPT ![i] = s]  BY <2>2, <2>5
  <2>7. s.id = list[i].id  BY <2>1
  <2>8. /\ Good([list EXCEPT ![i] = s], used)
        /\ IdsOf([list EXCEPT ![i] = s]) = IdsOf(list)
    BY <2>7, ReplacedGood
  <2> DEFINE next == [list EXCEPT ![i] = s]
  <2> HIDE DEF next
  <2>9. Good(next, used \cup {s.id})  BY ONLY <2>8, GoodMore DEF next
  <2> QED  BY <2>6, <2>8, <2>9 DEF next
<1>2. CASE s.id \notin IdsOf(list)
  <2> DEFINE more == Append(list, s)
  <2>1. Put(list, s) = more  BY <1>2 DEF Put
  <2>2. Good(more, used \cup {s.id}) /\ IdsOf(more) = IdsOf(list) \cup {s.id}
    BY <1>2, AppendGood
  <2> HIDE DEF more
  <2> QED  BY <2>1, <2>2
<1> QED  BY <1>1, <1>2

LEMMA RemovedGood ==
    ASSUME NEW list, NEW used, Good(list, used), NEW i \in DOMAIN list
    PROVE  Good(RemoveAt(list, i), used)
<1> DEFINE a == SubSeq(list, 1, i - 1)
           b == SubSeq(list, i + 1, Len(list))
           was(j) == IF j < i THEN j ELSE j + 1
<1>1. list \in Seq(Sessions) /\ DOMAIN list = 1..Len(list) /\ Len(list) \in Nat  BY DEF Good
<1>2. a \in Seq(Sessions) /\ Len(a) = i - 1 /\ \A j \in 1..(i - 1) : a[j] = list[j]
  BY <1>1, SubSeqProperties
<1>3. b \in Seq(Sessions) /\ Len(b) = Len(list) - i /\ \A j \in 1..(Len(list) - i) : b[j] = list[i + j]
  BY <1>1, SubSeqProperties
<1>4. RemoveAt(list, i) = a \o b  BY DEF RemoveAt
<1> HIDE DEF a, b
<1>5. /\ a \o b \in Seq(Sessions) /\ Len(a \o b) = Len(a) + Len(b)
      /\ \A j \in 1..(Len(a) + Len(b)) : (a \o b)[j] = IF j <= Len(a) THEN a[j] ELSE b[j - Len(a)]
  <2>1. a \in Seq(Sessions) /\ b \in Seq(Sessions)  BY <1>2, <1>3
  <2> QED  BY ONLY <2>1, ConcatProperties
<1> DEFINE rest == a \o b
<1> HIDE DEF rest
<1>6. ASSUME NEW j \in 1..(Len(list) - 1) PROVE rest[j] = list[was(j)] /\ was(j) \in 1..Len(list)
  <2>1. CASE j < i  BY <1>1, <1>2, <1>3, <1>5, <2>1 DEF rest
  <2>2. CASE ~(j < i)
    <3>1. j - Len(a) \in 1..(Len(list) - i) /\ ~(j <= Len(a)) /\ j \in 1..(Len(a) + Len(b))
      BY <1>1, <1>2, <1>3, <2>2
    <3>2. i + (j - Len(a)) = j + 1  BY <1>1, <1>2
    <3>3. b[j - Len(a)] = list[j + 1]  BY <1>3, <3>1, <3>2
    <3> QED  BY <1>1, <1>5, <2>2, <3>1, <3>3 DEF rest
  <2> QED  BY <2>1, <2>2
<1>7. \A j, k \in 1..(Len(list) - 1) : was(j) = was(k) => j = k  BY <1>1
<1> HIDE DEF was
<1>8. rest \in Seq(Sessions) /\ DOMAIN rest = 1..(Len(list) - 1)
  <2>1. rest \in Seq(Sessions) /\ Len(rest) = Len(a) + Len(b)  BY ONLY <1>5 DEF rest
  <2>2. Len(a) + Len(b) = Len(list) - 1  BY <1>1, <1>2, <1>3
  <2>3. DOMAIN rest = 1..Len(rest)  BY ONLY <2>1
  <2> QED  BY <2>1, <2>2, <2>3
<1>9. Distinct(rest)  BY <1>1, <1>6, <1>7, <1>8 DEF Good, Distinct
<1>10. IdsOf(rest) \subseteq used  BY <1>1, <1>6, <1>8 DEF Good, IdsOf
<1> QED  BY <1>4, <1>8, <1>9, <1>10 DEF Good, rest

-----------------------------------------------------------------------------
\* What the file holds, and what reading it gives: the sessions of the file,
\* or the local terminal (loadSessions).
FileOK ==
    /\ file = NoFile \/ Good(file, usedIds)
    /\ LocalId \in usedIds

LEMMA LoadFacts == FileOK => Good(Load, usedIds) /\ SavedIds(file) \subseteq IdsOf(Load)
<1> SUFFICES ASSUME FileOK PROVE Good(Load, usedIds) /\ SavedIds(file) \subseteq IdsOf(Load)
  OBVIOUS
<1>1. CASE file = NoFile
  <2>1. LocalTerminal \in Sessions
    BY StoreAssumption DEF LocalTerminal, Sessions, Kinds, LocalId, NoId, NoHost
  <2>2. Load = <<LocalTerminal>>  BY <1>1 DEF Load
  <2>3. LocalTerminal.id = LocalId  BY DEF LocalTerminal
  <2> DEFINE one == <<LocalTerminal>>
  <2>4. one \in Seq(Sessions) /\ DOMAIN one = {1} /\ one[1].id = LocalId
    <3> HIDE DEF LocalTerminal
    <3> QED  BY <2>1, <2>3
  <2> HIDE DEF one
  <2>5. Good(one, usedIds)  BY <2>4 DEF Good, Distinct, IdsOf, FileOK
  <2>6. SavedIds(file) = {}  BY <1>1 DEF SavedIds
  <2> QED  BY <2>2, <2>5, <2>6 DEF one
<1>2. CASE file # NoFile
  <2>1. /\ Good(file, usedIds) /\ file \in Seq(Sessions) /\ Len(file) \in Nat
        /\ DOMAIN file = 1..Len(file)
    BY <1>2 DEF FileOK, Good
  <2>2. \A i \in DOMAIN file : file[i] \in Sessions  BY <2>1, ElementOfSeq
  <2> DEFINE through(s) == {b \in Range(file) : s.jump # NoId /\ Serves(b, s)}
             shown(s) == IF through(s) = {} THEN s
                         ELSE [s EXCEPT !.route = (CHOOSE b \in through(s) : TRUE).host]
  <2>3. Load = [i \in DOMAIN file |-> shown(file[i])]  BY <1>2 DEF Load
  <2>4. ASSUME NEW s \in Sessions PROVE shown(s) \in Sessions /\ shown(s).id = s.id
    <3>1. \A b \in through(s) : b.host \in Hosts \cup {NoHost}
      BY <2>2 DEF Range, Sessions
    <3> HIDE DEF through
    <3> QED  BY <3>1 DEF Sessions
  <2> HIDE DEF shown
  <2>5. \A i \in DOMAIN file : Load[i] \in Sessions /\ Load[i].id = file[i].id
    BY <2>2, <2>3, <2>4
  <2>6. Load \in Seq(Sessions) /\ DOMAIN Load = DOMAIN file
    <3>1. DOMAIN Load = 1..Len(file)  BY <2>1, <2>3
    <3>2. Load = [i \in 1..Len(file) |-> Load[i]]  BY <2>1, <2>3
    <3>3. \A i \in 1..Len(file) : Load[i] \in Sessions  BY <2>1, <2>5
    <3> HIDE DEF Load
    <3>4. Load \in Seq(Sessions)  BY <2>1, <3>1, <3>2, <3>3
    <3> QED  BY <2>1, <3>1, <3>4
  <2>7. IdsOf(Load) = IdsOf(file)  BY <2>5, <2>6 DEF IdsOf
  <2>8. Distinct(Load)  BY <2>1, <2>5, <2>6 DEF Good, Distinct
  <2> QED  BY <1>2, <2>1, <2>6, <2>7, <2>8 DEF Good, SavedIds
<1> QED  BY <1>1, <1>2

\* A new id is one that was never given.
LEMMA FreshFacts ==
    ASSUME HasFreshId
    PROVE  FreshId \in Ids \ usedIds
<1> DEFINE S == Ids \ usedIds
<1>1. S \subseteq Nat /\ S # {}  BY StoreAssumption DEF HasFreshId
<1> HIDE DEF S
<1>2. \E n \in S : \A m \in S : n <= m  BY <1>1, LeastOf
<1>3. FreshId = CHOOSE n \in S : \A m \in S : n <= m  BY DEF FreshId, S
<1>4. FreshId \in S  BY <1>2, <1>3
<1> QED  BY <1>4 DEF S

-----------------------------------------------------------------------------
\* The import: what has been taken over after each session of the batch.
TakenBy(list, batch, renamed, skip, n, taken) ==
    taken = [i \in 0..n |->
               IF i = 0 THEN [list |-> list, fresh |-> Ids \ (usedIds \cup IdsOf(batch))]
               ELSE TakeOver(taken[i - 1], batch[i], i \in renamed, skip)]

LEMMA TakenExists ==
    ASSUME NEW list, NEW batch, NEW renamed, NEW skip
    PROVE  \A n \in Nat : \E taken : TakenBy(list, batch, renamed, skip, n, taken)
<1> DEFINE S == {n \in Nat : \E taken : TakenBy(list, batch, renamed, skip, n, taken)}
           first == [list |-> list, fresh |-> Ids \ (usedIds \cup IdsOf(batch))]
           after(acc, i) == TakeOver(acc, batch[i], i \in renamed, skip)
<1>0. \A n, taken : TakenBy(list, batch, renamed, skip, n, taken) <=>
         taken = [i \in 0..n |-> IF i = 0 THEN first ELSE after(taken[i - 1], i)]
  BY DEF TakenBy
<1> HIDE DEF first, after
<1>1. 0 \in S
  <2> DEFINE none == [i \in 0..0 |-> first]
  <2>1. none = [i \in 0..0 |-> IF i = 0 THEN first ELSE after(none[i - 1], i)]
    OBVIOUS
  <2> HIDE DEF none
  <2> QED  BY <1>0, <2>1
<1>2. ASSUME NEW n \in Nat, n \in S PROVE n + 1 \in S
  <2>1. PICK taken : taken = [i \in 0..n |-> IF i = 0 THEN first ELSE after(taken[i - 1], i)]
    BY <1>0, <1>2
  <2> DEFINE next == after(taken[n], n + 1)
             more == [i \in 0..(n + 1) |-> IF i = n + 1 THEN next ELSE taken[i]]
  <2>2. /\ \A i \in 0..n : more[i] = taken[i]
        /\ more[n + 1] = next
        /\ more = [i \in 0..(n + 1) |-> more[i]]
    <3> HIDE DEF next
    <3> QED  OBVIOUS
  <2>3. \A i \in 0..n : taken[i] = IF i = 0 THEN first ELSE after(taken[i - 1], i)
    BY <2>1
  <2> HIDE DEF more
  <2>4. ASSUME NEW i \in 0..(n + 1)
        PROVE  more[i] = IF i = 0 THEN first ELSE after(more[i - 1], i)
    <3>1. CASE i = n + 1
      <4>1. i # 0 /\ i - 1 = n /\ n \in 0..n  BY <3>1
      <4> QED  BY <2>2, <3>1, <4>1
    <3>2. CASE i = 0  BY <2>2, <2>3, <3>2
    <3>3. CASE i # 0 /\ i # n + 1
      <4>1. i \in 0..n /\ i - 1 \in 0..n  BY <3>3
      <4> QED  BY <2>2, <2>3, <3>3, <4>1
    <3> QED  BY <3>1, <3>2, <3>3
  <2>5. more = [i \in 0..(n + 1) |-> IF i = 0 THEN first ELSE after(more[i - 1], i)]
    BY <2>2, <2>4
  <2> QED  BY <1>0, <2>5
<1> HIDE DEF S
<1>3. Nat \subseteq S  BY <1>1, <1>2, Induction
<1> QED  BY <1>3 DEF S

LEMMA ImportedTaken ==
    ASSUME NEW list, NEW batch, Len(batch) \in Nat, NEW renamed, NEW skip
    PROVE  \E taken : /\ TakenBy(list, batch, renamed, skip, Len(batch), taken)
                      /\ Imported(list, batch, renamed, skip) = taken[Len(batch)]
<1> DEFINE taken == CHOOSE g : TakenBy(list, batch, renamed, skip, Len(batch), g)
<1>1. TakenBy(list, batch, renamed, skip, Len(batch), taken)  BY TakenExists
<1>2. Imported(list, batch, renamed, skip) = taken[Len(batch)]  BY DEF Imported, TakenBy
<1> HIDE DEF taken
<1> QED  BY <1>1, <1>2

\* What holds of the import between two sessions of the batch, `left` of which
\* are still to come: the list is good, and of the ids kept for renaming there
\* are enough, in neither the list nor the batch.
TakingWell(list, batch, acc, left) ==
    /\ acc = [list |-> acc.list, fresh |-> acc.fresh]
    /\ Good(acc.list, Ids) /\ IdsOf(list) \subseteq IdsOf(acc.list)
    /\ acc.fresh \subseteq Ids \ IdsOf(batch) /\ acc.fresh \cap IdsOf(acc.list) = {}
    /\ Cardinality(acc.fresh) >= left

LEMMA TakingPair ==
    ASSUME NEW list, NEW batch, NEW left, NEW l, NEW f,
           Good(l, Ids), IdsOf(list) \subseteq IdsOf(l),
           f \subseteq Ids \ IdsOf(batch), f \cap IdsOf(l) = {}, Cardinality(f) >= left
    PROVE  TakingWell(list, batch, [list |-> l, fresh |-> f], left)
<1> DEFINE acc == [list |-> l, fresh |-> f]
<1>1. acc.list = l /\ acc.fresh = f /\ acc = [list |-> acc.list, fresh |-> acc.fresh]
  OBVIOUS
<1> HIDE DEF acc
<1>2. TakingWell(list, batch, acc, left)  BY <1>1 DEF TakingWell
<1> QED  BY <1>2 DEF acc

LEMMA PairChanged ==
    ASSUME NEW l, NEW f, NEW m
    PROVE  [[list |-> l, fresh |-> f] EXCEPT !.list = m] = [list |-> m, fresh |-> f]
OBVIOUS

LEMMA TakeOverWell ==
    ASSUME NEW list, NEW batch, NEW acc, NEW left \in Nat,
           TakingWell(list, batch, acc, left + 1),
           NEW s \in Sessions, s.id \in IdsOf(batch), NEW renamed, NEW skip
    PROVE  TakingWell(list, batch, TakeOver(acc, s, renamed, skip), left)
<1> DEFINE known == s.id \in IdsOf(acc.list)
           out == TakeOver(acc, s, renamed, skip)
           new == Min(acc.fresh)
<1>1. /\ acc = [list |-> acc.list, fresh |-> acc.fresh]
      /\ Good(acc.list, Ids) /\ IdsOf(list) \subseteq IdsOf(acc.list)
      /\ acc.fresh \subseteq Ids \ IdsOf(batch) /\ acc.fresh \cap IdsOf(acc.list) = {}
      /\ Cardinality(acc.fresh) >= left + 1
  BY DEF TakingWell
<1>2. IsFiniteSet(acc.fresh) /\ Cardinality(acc.fresh) \in Nat
  <2>1. IsFiniteSet(acc.fresh)  BY <1>1, StoreAssumption, FS_Subset
  <2> QED  BY <2>1, FS_CardinalityType
<1>3. CASE (known \/ renamed) /\ skip
  <2>1. out = acc  BY <1>3 DEF TakeOver
  <2>2. Cardinality(acc.fresh) >= left  BY <1>1, <1>2
  <2> QED  BY <1>1, <2>1, <2>2 DEF TakingWell
<1>4. CASE known /\ ~skip
  <2>1. new \in acc.fresh
    <3>1. acc.fresh # {}  BY <1>1, <1>2, FS_EmptySet
    <3>2. acc.fresh \subseteq Nat  BY <1>1, StoreAssumption
    <3>3. \E n \in acc.fresh : \A m \in acc.fresh : n <= m  BY <3>1, <3>2, LeastOf
    <3> QED  BY <3>3 DEF Min
  <2> DEFINE t == [s EXCEPT !.id = new]
             more == Append(acc.list, t)
             rest == acc.fresh \ {new}
  <2>2. out = [list |-> more, fresh |-> rest]  BY <1>4 DEF TakeOver
  <2> HIDE DEF new
  <2>3. t \in Sessions /\ t.id = new  BY <1>1, <2>1 DEF Sessions
  <2> HIDE DEF t
  <2>4. new \notin IdsOf(acc.list) /\ new \in Ids  BY <1>1, <2>1
  <2>5. Good(more, Ids \cup {t.id}) /\ IdsOf(more) = IdsOf(acc.list) \cup {new}
    BY <1>1, <2>3, <2>4, AppendGood
  <2>6. Ids \cup {t.id} = Ids  BY <2>3, <2>4
  <2>7. Cardinality(rest) = Cardinality(acc.fresh) - 1
    BY <1>2, <2>1, FS_RemoveElement
  <2> HIDE DEF more, rest, out
  <2>8. Cardinality(rest) >= left  BY <1>1, <1>2, <2>7
  <2>9. rest \subseteq Ids \ IdsOf(batch) /\ rest \cap IdsOf(more) = {}
    BY <1>1, <2>5 DEF rest
  <2>10. IdsOf(list) \subseteq IdsOf(more)  BY <1>1, <2>5
  <2> QED  BY <2>2, <2>5, <2>6, <2>8, <2>9, <2>10, TakingPair DEF out
<1>5. CASE ~((known \/ renamed) /\ skip) /\ ~(known /\ ~skip)
  <2> DEFINE more == Append(acc.list, s)
  <2>1. out = [list |-> more, fresh |-> acc.fresh]
    <3>1. out = [acc EXCEPT !.list = more]  BY <1>5 DEF TakeOver
    <3>2. [[list |-> acc.list, fresh |-> acc.fresh] EXCEPT !.list = more]
            = [list |-> more, fresh |-> acc.fresh]
      BY PairChanged
    <3> HIDE DEF out, more
    <3> QED  BY <1>1, <3>1, <3>2
  <2>2. s.id \notin IdsOf(acc.list)  BY <1>5
  <2>3. Good(more, Ids \cup {s.id}) /\ IdsOf(more) = IdsOf(acc.list) \cup {s.id}
    BY <1>1, <2>2, AppendGood
  <2>4. Ids \cup {s.id} = Ids  BY DEF Sessions
  <2> HIDE DEF more, out
  <2>5. acc.fresh \cap IdsOf(more) = {}  BY <1>1, <2>3
  <2>6. Cardinality(acc.fresh) >= left  BY <1>1, <1>2
  <2>7. IdsOf(list) \subseteq IdsOf(more)  BY <1>1, <2>3
  <2> DEFINE kept == acc.fresh
  <2>8. Good(more, Ids)  BY <2>3, <2>4
  <2>9. kept \subseteq Ids \ IdsOf(batch) /\ kept \cap IdsOf(more) = {} /\ Cardinality(kept) >= left
    BY <1>1, <2>5, <2>6
  <2>10. out = [list |-> more, fresh |-> kept]  BY <2>1
  <2> HIDE DEF kept
  <2>11. TakingWell(list, batch, [list |-> more, fresh |-> kept], left)
    BY ONLY <2>7, <2>8, <2>9, TakingPair
  <2> QED  BY <2>10, <2>11 DEF out
<1> QED  BY <1>3, <1>4, <1>5

\* An import leaves one session for an id and loses none that was there.
LEMMA ImportedGood ==
    ASSUME NEW list, Good(list, usedIds), usedIds \subseteq Ids,
           NEW batch \in Seq(Sessions), NEW renamed, NEW skip,
           Cardinality(Ids \ (usedIds \cup IdsOf(batch))) >= Len(batch)
    PROVE  LET out == Imported(list, batch, renamed, skip).list
           IN  Good(out, Ids) /\ IdsOf(list) \subseteq IdsOf(out)
<1> DEFINE N == Len(batch)
<1>1. N \in Nat /\ DOMAIN batch = 1..N  OBVIOUS
<1>2. PICK taken : /\ TakenBy(list, batch, renamed, skip, N, taken)
                   /\ Imported(list, batch, renamed, skip) = taken[N]
  BY <1>1, ImportedTaken
<1> DEFINE first == [list |-> list, fresh |-> Ids \ (usedIds \cup IdsOf(batch))]
           S == {n \in Nat : n <= N => TakingWell(list, batch, taken[n], N - n)}
<1>3. \A i \in 0..N : taken[i] = IF i = 0 THEN first
                                 ELSE TakeOver(taken[i - 1], batch[i], i \in renamed, skip)
  BY <1>2 DEF TakenBy
<1>4. 0 \in S
  <2> DEFINE fresh == Ids \ (usedIds \cup IdsOf(batch))
  <2>1. taken[0] = [list |-> list, fresh |-> fresh]
    <3>1. 0 \in 0..N  BY <1>1
    <3>2. taken[0] = first
      <4> HIDE DEF first
      <4> QED  BY ONLY <1>3, <3>1
    <3> QED  BY <3>2
  <2>2. fresh \subseteq Ids \ IdsOf(batch) /\ fresh \cap IdsOf(list) = {}  BY DEF Good
  <2>3. Cardinality(fresh) >= N - 0  BY <1>1
  <2>4. Good(list, Ids)  BY GoodMore
  <2> HIDE DEF fresh
  <2>5. TakingWell(list, batch, taken[0], N - 0)
    BY <2>1, <2>2, <2>3, <2>4, TakingPair
  <2> QED  BY <2>5
<1>5. ASSUME NEW n \in Nat, n \in S PROVE n + 1 \in S
  <2> SUFFICES ASSUME n + 1 <= N PROVE TakingWell(list, batch, taken[n + 1], N - (n + 1))
    OBVIOUS
  <2>1. TakingWell(list, batch, taken[n], N - (n + 1) + 1)
    <3>1. TakingWell(list, batch, taken[n], N - n)  BY <1>1, <1>5
    <3>2. N - n = N - (n + 1) + 1  BY <1>1
    <3> QED  BY <3>1, <3>2
  <2>2. taken[n + 1] = TakeOver(taken[n], batch[n + 1], n + 1 \in renamed, skip)
    <3>1. n + 1 \in 0..N /\ n + 1 # 0 /\ (n + 1) - 1 = n  BY <1>1
    <3> QED  BY <1>3, <3>1
  <2>3. batch[n + 1] \in Sessions /\ batch[n + 1].id \in IdsOf(batch)
    <3>1. n + 1 \in 1..Len(batch)  BY <1>1
    <3> QED  BY <3>1, ElementOfSeq DEF IdsOf
  <2>4. N - (n + 1) \in Nat  BY <1>1
  <2> QED  BY <2>1, <2>2, <2>3, <2>4, TakeOverWell
<1>6. Nat \subseteq S
  <2> HIDE DEF S
  <2> QED  BY <1>4, <1>5, Induction
<1>7. TakingWell(list, batch, taken[N], N - N)  BY <1>1, <1>6
<1> QED  BY <1>2, <1>7 DEF TakingWell

-----------------------------------------------------------------------------
\* The lists: what the file and each sidebar hold is good, and the sidebar the
\* user can reach has every session of the file, so that what it writes back
\* loses none.
FilesInv ==
    /\ FileOK
    /\ front \in Sidebars /\ usedIds \subseteq Ids
    /\ cache \in [Sidebars -> Seq(Sessions)]
    /\ \A w \in Sidebars : Good(cache[w], usedIds)
    /\ SavedIds(file) \subseteq IdsOf(cache[front])

\* The open dialog: its place in the sidebar's list is that of its session.
EditorFields ==
    [index : Nat, id : Ids, kind : Kinds, host : Hosts \cup {NoHost}, jump : Ids \cup {NoId},
     route : Hosts \cup {NoHost}, proxy : BOOLEAN, own : BOOLEAN, jumpText : BOOLEAN]

EditorInv ==
    editor # NoEditor =>
       /\ editor \in EditorFields
       /\ editor.index > 0 =>
             editor.index \in DOMAIN cache[front] /\ cache[front][editor.index].id = editor.id

StoreInv ==
    /\ VaultInv /\ faults \in 0..MaxFaults
    /\ FilesInv /\ EditorInv /\ tab \in Sessions \cup {NoTab}

LEMMA StoreInvInit == Init => StoreInv
<1> SUFFICES ASSUME Init PROVE StoreInv
  OBVIOUS
<1>1. FileOK /\ usedIds \subseteq Ids
  <2>1. LocalId \in usedIds  BY DEF Init
  <2>2. CASE file = NoFile
    BY <2>1, <2>2, StoreAssumption DEF FileOK, Init, SavedIds
  <2>3. CASE file \in SavedSessions
    <3>1. file \in Seq(Sessions) /\ Distinct(file)  BY <2>3, StoreAssumption
    <3>2. SavedIds(file) = IdsOf(file)  BY <3>1, GoodSaved
    <3>3. usedIds = IdsOf(file) \cup {LocalId}  BY <3>2 DEF Init
    <3>4. IdsOf(file) \subseteq Ids
      <4>1. ASSUME NEW i \in DOMAIN file PROVE file[i].id \in Ids
        <5>1. file[i] \in Sessions  BY <3>1, <4>1, ElementOfSeq
        <5> QED  BY <5>1 DEF Sessions
      <4> QED  BY <4>1 DEF IdsOf
    <3> QED  BY <2>1, <3>1, <3>3, <3>4, StoreAssumption DEF FileOK, Good
  <2> QED  BY <2>2, <2>3 DEF Init
<1>2. Good(Load, usedIds) /\ SavedIds(file) \subseteq IdsOf(Load)  BY <1>1, LoadFacts
<1> DEFINE empty == <<>>
           loaded == Load
<1>3. empty \in Seq(Sessions) /\ DOMAIN empty = {}  OBVIOUS
<1> HIDE DEF empty
<1>4. Good(empty, usedIds)  BY <1>3 DEF Good, Distinct, IdsOf
<1> HIDE DEF loaded
<1>5. cache = [w \in Sidebars |-> IF w = "side" THEN loaded ELSE empty] /\ front = "side"
  BY DEF Init, empty, loaded
<1>6. /\ front \in Sidebars /\ cache[front] = loaded
      /\ \A w \in Sidebars : cache[w] \in {loaded, empty}
  BY <1>5 DEF Sidebars
<1>7. \A w \in Sidebars : Good(cache[w], usedIds)  BY <1>2, <1>4, <1>6 DEF loaded
<1>8. cache \in [Sidebars -> Seq(Sessions)]  BY <1>5, <1>7 DEF Good
<1>9. FilesInv  BY <1>1, <1>2, <1>6, <1>7, <1>8 DEF FilesInv, loaded
<1>10. VaultInv  BY VaultInvInit
<1>11. faults \in 0..MaxFaults  BY VaultAssumption DEF Init, VaultInit
<1>12. EditorInv /\ tab \in Sessions \cup {NoTab}  BY DEF Init, EditorInv
<1> QED  BY <1>9, <1>10, <1>11, <1>12 DEF StoreInv

-----------------------------------------------------------------------------
\* A write by the sidebar in front, which reads the file back: whether the
\* write went well or not, the lists stay good.
LEMMA WriteKeeps ==
    ASSUME FilesInv, usedIds \subseteq usedIds', usedIds' \subseteq Ids, UNCHANGED front,
           file' = file \/ Good(file', usedIds'), ReloadsCache(front)
    PROVE  FilesInv'
<1>1. FileOK'
  <2>1. CASE file' = file  BY <2>1, GoodMore DEF FilesInv, FileOK
  <2>2. CASE Good(file', usedIds')  BY <2>2 DEF FilesInv, FileOK
  <2> QED  BY <2>1, <2>2
<1>2. Good(Load, usedIds)' /\ (SavedIds(file) \subseteq IdsOf(Load))'
  BY <1>1, LoadFacts, PTL
<1> DEFINE loaded == Load'
<1>3. Good(loaded, usedIds') /\ SavedIds(file') \subseteq IdsOf(loaded)
  BY <1>2 DEF Good, SavedIds, IdsOf, Distinct
<1>4. cache' = [cache EXCEPT ![front] = loaded] /\ front \in Sidebars
  BY DEF ReloadsCache, FilesInv
<1> HIDE DEF loaded
<1>5. cache'[front] = loaded /\ \A w \in Sidebars : w # front => cache'[w] = cache[w]
  BY <1>4 DEF FilesInv
<1>6. \A w \in Sidebars : Good(cache'[w], usedIds')
  <2> SUFFICES ASSUME NEW w \in Sidebars PROVE Good(cache'[w], usedIds')
    OBVIOUS
  <2>1. CASE w = front  BY <1>3, <1>5, <2>1
  <2>2. CASE w # front  BY <1>5, <2>2, GoodMore DEF FilesInv
  <2> QED  BY <2>1, <2>2
<1>7. cache' \in [Sidebars -> Seq(Sessions)]
  <2>1. loaded \in Seq(Sessions)  BY <1>3 DEF Good
  <2> QED  BY <1>4, <2>1 DEF FilesInv
<1>8. SavedIds(file') \subseteq IdsOf(cache'[front'])  BY <1>3, <1>5
<1>9. front' \in Sidebars /\ usedIds' \subseteq Ids  BY <1>4
<1>10. /\ \A w \in Sidebars' : Good(cache'[w], usedIds')
       /\ Sidebars' = Sidebars
  BY <1>6 DEF Sidebars
<1> QED  BY <1>1, <1>7, <1>8, <1>9, <1>10 DEF FilesInv, Good, SavedIds, IdsOf, Distinct

\* A step that writes nothing, though an id may be given.
LEMMA ListsUntouched ==
    ASSUME FilesInv, UNCHANGED <<file, cache, front>>, usedIds \subseteq usedIds',
           usedIds' \subseteq Ids
    PROVE  FilesInv'
<1>1. FileOK'  BY GoodMore DEF FilesInv, FileOK
<1>2. \A w \in Sidebars' : Good(cache'[w], usedIds')  BY GoodMore DEF FilesInv, Sidebars
<1>3. SavedIds(file') \subseteq IdsOf(cache'[front'])  BY DEF FilesInv, SavedIds, IdsOf
<1>4. front' \in Sidebars' /\ cache' \in [Sidebars' -> Seq(Sessions)]
  BY DEF FilesInv, Sidebars
<1> QED  BY <1>1, <1>2, <1>3, <1>4 DEF FilesInv, Good, SavedIds, IdsOf, Distinct

\* A dialog left alone, with the list it was opened on.
LEMMA EditorUntouched ==
    ASSUME EditorInv, UNCHANGED <<editor, cache, front>>
    PROVE  EditorInv'
BY DEF EditorInv

\* What the dialog gives when it is accepted is a session, of the same id.
LEMMA EditedFacts ==
    ASSUME FileOK, editor \in EditorFields, NEW form \in Forms
    PROVE  LET e == Edited(editor, form)
           IN  /\ e \in EditorFields /\ e.index = editor.index /\ e.id = editor.id
               /\ GetSession(e) \in Sessions /\ GetSession(e).id = editor.id
<1> DEFINE b == {s \in Range(Load) : s.id = form.jump}
           route == IF form.jump = NoId THEN form.route
                    ELSE IF b = {} THEN editor.route ELSE (CHOOSE s \in b : TRUE).host
           e == [editor EXCEPT !.kind = form.kind, !.host = form.host, !.jump = form.jump,
                               !.proxy = form.proxy, !.own = form.own,
                               !.jumpText = form.jumpText, !.route = route]
<1>1. form \in FormFields  BY StoreAssumption
<1>2. route \in Hosts \cup {NoHost}
  <2>1. Load \in Seq(Sessions)  BY LoadFacts DEF Good
  <2>2. \A s \in b : s.host \in Hosts \cup {NoHost}
    <3> SUFFICES ASSUME NEW i \in DOMAIN Load PROVE Load[i].host \in Hosts \cup {NoHost}
      BY DEF Range
    <3> DEFINE l == Load
    <3>1. l \in Seq(Sessions) /\ i \in 1..Len(l)  BY <2>1
    <3> HIDE DEF l
    <3>2. l[i] \in Sessions  BY <3>1, ElementOfSeq
    <3> QED  BY <3>2 DEF Sessions, l
  <2> HIDE DEF b
  <2> QED  BY <1>1, <2>2 DEF FormFields, EditorFields
<1>3. Edited(editor, form) = e  BY DEF Edited
<1> HIDE DEF route
<1>4. e \in EditorFields /\ e.index = editor.index /\ e.id = editor.id
  BY <1>1, <1>2 DEF EditorFields, FormFields
<1> HIDE DEF e
<1>5. GetSession(e) \in Sessions /\ GetSession(e).id = e.id
  BY <1>4 DEF GetSession, EditorFields, Sessions, Kinds
<1> QED  BY <1>3, <1>4, <1>5

\* A lookup of one store or both fails at most twice.
LEMMA LookupCost ==
    ASSUME NEW failing \in SUBSET Providers
    PROVE  Cardinality(failing) \in Nat
<1>1. IsFiniteSet(Providers)
  <2>1. Providers = {"secret-service"} \cup {"kwallet"}  BY DEF Providers
  <2> QED  BY <2>1, FS_Singleton, FS_Union
<1>2. IsFiniteSet(failing)  BY <1>1, FS_Subset
<1> QED  BY <1>2, FS_CardinalityType

LEMMA SpentKeeps ==
    ASSUME faults \in 0..MaxFaults, NEW cost \in Nat, Spent(cost)
    PROVE  faults' \in 0..MaxFaults
BY VaultAssumption DEF Spent

-----------------------------------------------------------------------------
\* Accepting a new session.
LEMMA AcceptNewKeeps ==
    ASSUME StoreInv, NEW w \in Sidebars, NEW form \in Forms, AcceptNew(w, form)
    PROVE  /\ FilesInv' /\ EditorInv' /\ faults' \in 0..MaxFaults
           /\ tab' \in Sessions \cup {NoTab}
           /\ SavedIds(file) \subseteq SavedIds(file')
<1> DEFINE e == Edited(editor, form)
           s == GetSession(e)
<1>1. editor \in EditorFields /\ editor.index = 0 /\ front = w /\ front' = front
  <2>1. editor.index = 0 /\ front = w /\ front' = front  BY DEF AcceptNew
  <2>2. editor # NoEditor  BY <2>1 DEF NoEditor
  <2> QED  BY <2>1, <2>2 DEF StoreInv, EditorInv
<1>2. FileOK /\ FilesInv /\ usedIds \subseteq Ids  BY DEF StoreInv, FilesInv
<1>3. /\ e \in EditorFields /\ e.index = 0 /\ e.id = editor.id
      /\ s \in Sessions /\ s.id = editor.id
  BY <1>1, <1>2, EditedFacts
<1>4. usedIds' = usedIds \cup {editor.id} /\ usedIds' \subseteq Ids
  <2>1. editor.id \in Ids  BY <1>1 DEF EditorFields
  <2> QED  BY <1>2, <2>1 DEF AcceptNew
<1>5. PICK a \in Accepts(e, form.proxyText) :
        /\ Spent(a.cost)
        /\ IF ~a.ok
           THEN editor' = e /\ UNCHANGED <<file, cache, tab>>
           ELSE /\ editor' = NoEditor
                /\ IF form.save /\ Len(Load) < MaxSessions THEN Saves(Put(Load, s))
                   ELSE file' = file
                /\ ReloadsCache(w)
                /\ tab' = IF tab = NoTab THEN s ELSE tab
  BY DEF AcceptNew
<1>6. faults' \in 0..MaxFaults  BY <1>5, AcceptsCost, SpentKeeps DEF StoreInv
<1> HIDE DEF e, s
<1>7. CASE ~a.ok
  <2>1. FilesInv'  BY <1>1, <1>2, <1>4, <1>5, <1>7, ListsUntouched
  <2>2. EditorInv'
    <3>1. editor' = e  BY <1>5, <1>7
    <3> QED  BY <1>3, <3>1 DEF EditorInv
  <2> QED  BY <1>5, <1>6, <1>7, <2>1, <2>2 DEF StoreInv, SavedIds
<1>8. CASE a.ok
  <2>1. /\ Good(Put(Load, s), usedIds') /\ IdsOf(Load) \subseteq IdsOf(Put(Load, s))
    <3> DEFINE l == Load
    <3>1. Good(l, usedIds)  BY <1>2, LoadFacts
    <3> HIDE DEF l
    <3>2. Good(Put(l, s), usedIds \cup {s.id}) /\ IdsOf(l) \subseteq IdsOf(Put(l, s))
      BY <1>3, <3>1, PutGood
    <3> QED  BY <1>3, <1>4, <3>2 DEF l
  <2>2. file' = file \/ file' = Put(Load, s)  BY <1>5, <1>8 DEF Saves
  <2> DEFINE more == Put(Load, s)
  <2>3. SavedIds(file) \subseteq SavedIds(file')
    <3>1. CASE file' = file  BY <3>1 DEF SavedIds
    <3>2. CASE file' = more
      <4>1. SavedIds(file) \subseteq IdsOf(more)  BY <1>2, <2>1, LoadFacts
      <4>2. SavedIds(more) = IdsOf(more)
        <5>1. more \in Seq(Sessions)  BY <2>1 DEF Good
        <5> HIDE DEF more
        <5> QED  BY <5>1, GoodSaved
      <4> QED  BY <3>2, <4>1, <4>2
    <3> QED  BY <2>2, <3>1, <3>2
  <2>4. FilesInv'
    <3>1. file' = file \/ Good(file', usedIds')  BY <2>1, <2>2
    <3>2. usedIds \subseteq usedIds' /\ ReloadsCache(front)  BY <1>1, <1>4, <1>5, <1>8
    <3> QED  BY <1>1, <1>2, <1>4, <3>1, <3>2, WriteKeeps
  <2>5. EditorInv'  BY <1>5, <1>8 DEF EditorInv, NoEditor
  <2>6. tab' \in Sessions \cup {NoTab}  BY <1>3, <1>5, <1>8 DEF StoreInv
  <2> QED  BY <1>6, <2>3, <2>4, <2>5, <2>6
<1> QED  BY <1>7, <1>8

\* A list that has every session of the front sidebar, written or not.
LEMMA NoneLost ==
    ASSUME FilesInv, NEW list \in Seq(Sessions), IdsOf(cache[front]) \subseteq IdsOf(list),
           Saves(list)
    PROVE  SavedIds(file) \subseteq SavedIds(file')
<1>1. CASE file' = file  BY <1>1 DEF SavedIds
<1>2. CASE file' = list
  <2>1. SavedIds(list) = IdsOf(list)  BY GoodSaved
  <2> QED  BY <1>2, <2>1 DEF FilesInv
<1> QED  BY <1>1, <1>2 DEF Saves

\* Accepting a session opened from the list.
LEMMA AcceptEditKeeps ==
    ASSUME StoreInv, NEW w \in Sidebars, NEW form \in Forms, AcceptEdit(w, form)
    PROVE  /\ FilesInv' /\ EditorInv' /\ faults' \in 0..MaxFaults
           /\ tab' \in Sessions \cup {NoTab}
           /\ SavedIds(file) \subseteq SavedIds(file')
<1> DEFINE e == Edited(editor, form)
           s == GetSession(e)
           own == [cache[w] EXCEPT ![editor.index] = s]
           whole == Put(Load, s)
<1>1. /\ editor \in EditorFields /\ editor.index > 0 /\ front = w /\ front' = front
      /\ editor.index \in DOMAIN cache[w] /\ cache[w][editor.index].id = editor.id
  <2>1. editor.index > 0 /\ front = w /\ front' = front  BY DEF AcceptEdit
  <2>2. editor # NoEditor  BY <2>1 DEF NoEditor
  <2> QED  BY <2>1, <2>2 DEF StoreInv, EditorInv
<1>2. FileOK /\ FilesInv /\ usedIds \subseteq Ids /\ Good(cache[w], usedIds)
  BY DEF StoreInv, FilesInv
<1>3. /\ e \in EditorFields /\ e.index = editor.index /\ e.id = editor.id
      /\ s \in Sessions /\ s.id = editor.id
  BY <1>1, <1>2, EditedFacts
<1>4. UNCHANGED <<usedIds, tab>>  BY DEF AcceptEdit
<1>5. PICK a \in Accepts(e, form.proxyText) :
        /\ Spent(a.cost)
        /\ IF ~a.ok
           THEN editor' = e /\ UNCHANGED <<file, cache>>
           ELSE /\ editor' = NoEditor
                /\ Saves(own) \/ file' = whole
                /\ ReloadsCache(w)
  BY DEF AcceptEdit
<1>6. faults' \in 0..MaxFaults  BY <1>5, AcceptsCost, SpentKeeps DEF StoreInv
<1> HIDE DEF e, s
<1>7. CASE ~a.ok
  <2>1. FilesInv'  BY <1>1, <1>2, <1>4, <1>5, <1>7, ListsUntouched
  <2>2. EditorInv'
    <3>1. editor' = e /\ UNCHANGED <<cache, front>>  BY <1>1, <1>5, <1>7
    <3> QED  BY <1>1, <1>3, <3>1 DEF EditorInv
  <2> QED  BY <1>4, <1>5, <1>6, <1>7, <2>1, <2>2 DEF StoreInv, SavedIds
<1>8. CASE a.ok
  <2>1. Good(own, usedIds) /\ IdsOf(own) = IdsOf(cache[w])
    BY <1>1, <1>2, <1>3, ReplacedGood
  <2>2. Good(whole, usedIds) /\ SavedIds(file) \subseteq IdsOf(whole)
    <3> DEFINE l == Load
    <3>1. Good(l, usedIds) /\ SavedIds(file) \subseteq IdsOf(l)  BY <1>2, LoadFacts
    <3> HIDE DEF l
    <3>2. Good(Put(l, s), usedIds \cup {s.id}) /\ IdsOf(l) \subseteq IdsOf(Put(l, s))
      BY <1>3, <3>1, PutGood
    <3>3. s.id \in usedIds  BY <1>1, <1>2, <1>3 DEF Good, IdsOf
    <3>4. usedIds \cup {s.id} = usedIds  BY <3>3
    <3>5. Good(Put(l, s), usedIds)  BY <3>2, <3>4
    <3>6. SavedIds(file) \subseteq IdsOf(Put(l, s))  BY <3>1, <3>2
    <3> QED  BY <3>5, <3>6 DEF l
  <2> HIDE DEF own, whole
  <2>3. SavedIds(file) \subseteq SavedIds(file')
    <3>1. CASE Saves(own)
      <4>1. own \in Seq(Sessions) /\ IdsOf(cache[front]) \subseteq IdsOf(own)
        BY <1>1, <2>1 DEF Good
      <4> QED  BY <1>2, <3>1, <4>1, NoneLost
    <3>2. CASE file' = whole
      <4>1. SavedIds(whole) = IdsOf(whole)  BY <2>2, GoodSaved DEF Good
      <4> QED  BY <2>2, <3>2, <4>1
    <3> QED  BY <1>5, <1>8, <3>1, <3>2
  <2>4. FilesInv'
    <3>1. file' = file \/ Good(file', usedIds')
      BY <1>4, <1>5, <1>8, <2>1, <2>2 DEF Saves
    <3>2. ReloadsCache(front)  BY <1>1, <1>5, <1>8
    <3> QED  BY <1>1, <1>2, <1>4, <3>1, <3>2, WriteKeeps
  <2>5. EditorInv'  BY <1>5, <1>8 DEF EditorInv, NoEditor
  <2> QED  BY <1>4, <1>6, <2>3, <2>4, <2>5 DEF StoreInv
<1> QED  BY <1>7, <1>8

\* The commands that write a list: it is good, and unless a session is deleted
\* it has what the sidebar had.
LEMMA CommandKeeps ==
    ASSUME StoreInv, NEW w \in Sidebars, Free(w), NEW list, SavesAndLoads(w, list),
           usedIds \subseteq usedIds', usedIds' \subseteq Ids, Good(list, usedIds')
    PROVE  /\ FilesInv' /\ EditorInv' /\ tab' \in Sessions \cup {NoTab}
           /\ IdsOf(cache[w]) \subseteq IdsOf(list) => SavedIds(file) \subseteq SavedIds(file')
<1>1. FilesInv /\ front = w /\ editor = NoEditor /\ UNCHANGED <<front, editor, tab>>
  BY DEF StoreInv, Free, SavesAndLoads
<1>2. FilesInv'
  <2>1. file' = file \/ Good(file', usedIds')  BY DEF SavesAndLoads, Saves
  <2> QED  BY <1>1, <2>1, WriteKeeps DEF SavesAndLoads
<1>3. EditorInv'  BY <1>1 DEF EditorInv
<1>4. IdsOf(cache[w]) \subseteq IdsOf(list) => SavedIds(file) \subseteq SavedIds(file')
  BY <1>1, NoneLost DEF Good, SavesAndLoads
<1> QED  BY <1>1, <1>2, <1>3, <1>4 DEF StoreInv

LEMMA DeleteKeeps ==
    ASSUME StoreInv, NEW w \in Sidebars, NEW i \in DOMAIN cache[w], DeleteSession(w, i)
    PROVE  FilesInv' /\ EditorInv' /\ tab' \in Sessions \cup {NoTab}
<1>1. Good(cache[w], usedIds) /\ usedIds \subseteq Ids  BY DEF StoreInv, FilesInv
<1> DEFINE list == RemoveAt(cache[w], i)
<1>2. Good(list, usedIds)  BY <1>1, RemovedGood
<1>3. Free(w) /\ SavesAndLoads(w, list) /\ usedIds' = usedIds  BY DEF DeleteSession
<1> HIDE DEF list
<1> QED  BY <1>1, <1>2, <1>3, CommandKeeps

LEMMA DuplicateKeeps ==
    ASSUME StoreInv, NEW w \in Sidebars, NEW i \in DOMAIN cache[w], DuplicateSession(w, i)
    PROVE  /\ FilesInv' /\ EditorInv' /\ tab' \in Sessions \cup {NoTab}
           /\ SavedIds(file) \subseteq SavedIds(file')
<1>1. Good(cache[w], usedIds) /\ usedIds \subseteq Ids  BY DEF StoreInv, FilesInv
<1>2. FreshId \in Ids \ usedIds  BY FreshFacts DEF DuplicateSession
<1> DEFINE s == [cache[w][i] EXCEPT !.id = FreshId]
           list == Append(cache[w], s)
<1>3. s \in Sessions /\ s.id = FreshId
  <2>1. cache[w] \in Seq(Sessions) /\ i \in 1..Len(cache[w])  BY <1>1 DEF Good
  <2>2. cache[w][i] \in Sessions  BY <2>1, ElementOfSeq
  <2> HIDE DEF FreshId
  <2> QED  BY <1>2, <2>2 DEF Sessions
<1>4. /\ Free(w) /\ SavesAndLoads(w, list) /\ usedIds' = usedIds \cup {FreshId}
  BY DEF DuplicateSession
<1> HIDE DEF s
<1>5. s.id \notin IdsOf(cache[w])  BY <1>1, <1>2, <1>3 DEF Good
<1>6. Good(list, usedIds \cup {s.id}) /\ IdsOf(cache[w]) \subseteq IdsOf(list)
  BY <1>1, <1>3, <1>5, AppendGood
<1> HIDE DEF list
<1>7. Good(list, usedIds')  BY <1>3, <1>4, <1>6
<1>8. usedIds \subseteq usedIds' /\ usedIds' \subseteq Ids  BY <1>1, <1>2, <1>4
<1> QED  BY <1>4, <1>6, <1>7, <1>8, CommandKeeps

LEMMA ImportKeeps ==
    ASSUME StoreInv, NEW w \in Sidebars, NEW batch \in Imports, NEW renamed, NEW skip,
           ImportSessions(w, batch, renamed, skip)
    PROVE  /\ FilesInv' /\ EditorInv' /\ tab' \in Sessions \cup {NoTab}
           /\ SavedIds(file) \subseteq SavedIds(file')
<1>1. Good(cache[w], usedIds) /\ usedIds \subseteq Ids  BY DEF StoreInv, FilesInv
<1>2. batch \in Seq(Sessions)  BY StoreAssumption
<1> DEFINE list == Imported(cache[w], batch, renamed, skip).list
<1>3. /\ Free(w) /\ SavesAndLoads(w, list) /\ usedIds' = usedIds \cup IdsOf(list)
      /\ Cardinality(Ids \ (usedIds \cup IdsOf(batch))) >= Len(batch)
  BY DEF ImportSessions
<1>4. Good(list, Ids) /\ IdsOf(cache[w]) \subseteq IdsOf(list)
  BY <1>1, <1>2, <1>3, ImportedGood
<1> HIDE DEF list
<1>5. Good(list, usedIds') /\ usedIds \subseteq usedIds' /\ usedIds' \subseteq Ids
  BY <1>1, <1>3, <1>4 DEF Good
<1> QED  BY <1>3, <1>4, <1>5, CommandKeeps

LEMMA ResaveKeeps ==
    ASSUME StoreInv, NEW w \in Sidebars, Resave(w)
    PROVE  /\ FilesInv' /\ EditorInv' /\ tab' \in Sessions \cup {NoTab}
           /\ SavedIds(file) \subseteq SavedIds(file')
<1>1. Good(cache[w], usedIds) /\ usedIds \subseteq Ids  BY DEF StoreInv, FilesInv
<1>2. Free(w) /\ SavesAndLoads(w, cache[w]) /\ usedIds' = usedIds  BY DEF Resave
<1> DEFINE list == cache[w]
<1>3. Good(list, usedIds') /\ SavesAndLoads(w, list) /\ IdsOf(cache[w]) \subseteq IdsOf(list)
  BY <1>1, <1>2
<1> HIDE DEF list
<1> QED  BY <1>1, <1>2, <1>3, CommandKeeps

-----------------------------------------------------------------------------
\* A dialog is opened, for a new session or one of the list.
LEMMA NewEditorKeeps ==
    ASSUME StoreInv, NEW w \in Sidebars, NewEditor(w)
    PROVE  EditorInv'
<1>1. FreshId \in Ids  BY FreshFacts DEF NewEditor
<1> DEFINE e == [index |-> 0, id |-> FreshId, kind |-> "ssh", host |-> NoHost, jump |-> NoId,
                 route |-> NoHost, proxy |-> FALSE, own |-> FALSE, jumpText |-> FALSE]
<1>2. e \in EditorFields /\ e.index = 0
  <2> HIDE DEF FreshId
  <2> QED  BY <1>1 DEF EditorFields, Kinds
<1>3. editor' = e  BY DEF NewEditor
<1> HIDE DEF e
<1> QED  BY <1>2, <1>3 DEF EditorInv

LEMMA OpenEditorKeeps ==
    ASSUME StoreInv, NEW w \in Sidebars, NEW i \in DOMAIN cache[w], NEW typed,
           NEW failing \in SUBSET Providers, OpenEditor(w, i, typed, failing)
    PROVE  EditorInv' /\ faults' \in 0..MaxFaults
<1> DEFINE s == cache[w][i]
           jump == ReadInDialog(<<s.id, "jump">>, failing, typed)
           own == ReadInDialog(<<s.id, "own">>, failing, typed)
           jumpText == s.kind = "ssh" /\ jump.text
           ownText == own.text
           e == [index |-> i, id |-> s.id, kind |-> s.kind, host |-> s.host, jump |-> s.jump,
                 route |-> s.route, proxy |-> s.proxy, own |-> ownText, jumpText |-> jumpText]
<1>1. editor' = e /\ front = w /\ UNCHANGED <<cache, front>>
  BY DEF OpenEditor, Free
<1>2. jumpText \in BOOLEAN /\ ownText \in BOOLEAN  BY DEF ReadInDialog
<1> HIDE DEF jumpText, ownText
<1>3. s \in Sessions /\ i \in Nat
  <2>1. cache[w] \in Seq(Sessions) /\ i \in 1..Len(cache[w])
    BY DEF StoreInv, FilesInv, Good
  <2> QED  BY <2>1, ElementOfSeq
<1>4. e \in EditorFields /\ e.index = i /\ e.id = s.id
  <2> HIDE DEF s
  <2> QED  BY <1>2, <1>3 DEF EditorFields, Sessions
<1> HIDE DEF e
<1>5. EditorInv'  BY <1>1, <1>4 DEF EditorInv
<1>6. Spent(Cardinality(failing))  BY DEF OpenEditor
<1>7. faults' \in 0..MaxFaults  BY <1>6, LookupCost, SpentKeeps DEF StoreInv
<1> QED  BY <1>5, <1>7

\* Every command of a sidebar.
LEMMA SidebarKeeps ==
    ASSUME StoreInv, NEW w \in Sidebars, SidebarNext(w)
    PROVE  /\ FilesInv' /\ EditorInv' /\ faults' \in 0..MaxFaults
           /\ tab' \in Sessions \cup {NoTab}
           /\ (\A i \in DOMAIN cache[w] : ~DeleteSession(w, i)) =>
                 SavedIds(file) \subseteq SavedIds(file')
<1> USE DEF StoreInv
<1> DEFINE Goal == /\ FilesInv' /\ EditorInv' /\ faults' \in 0..MaxFaults
                   /\ tab' \in Sessions \cup {NoTab}
                   /\ (\A i \in DOMAIN cache[w] : ~DeleteSession(w, i)) =>
                         SavedIds(file) \subseteq SavedIds(file')
<1> SUFFICES Goal  OBVIOUS
<1>0. usedIds \subseteq Ids  BY DEF FilesInv
<1>1. ASSUME UNCHANGED <<file, cache, front, usedIds>>
      PROVE  FilesInv' /\ SavedIds(file) \subseteq SavedIds(file')
  BY <1>0, <1>1, ListsUntouched DEF SavedIds
<1>2. ASSUME NewEditor(w) PROVE Goal
  <2>1. UNCHANGED <<file, cache, front, usedIds, tab, faults>>
    BY <1>2 DEF NewEditor, vaultVars
  <2> QED  BY <1>1, <1>2, <2>1, NewEditorKeeps
<1>3. ASSUME NEW i \in DOMAIN cache[w], NEW typed, NEW failing \in SUBSET Providers,
             OpenEditor(w, i, typed, failing)
      PROVE  Goal
  <2>1. UNCHANGED <<file, cache, front, usedIds, tab>>  BY <1>3 DEF OpenEditor
  <2> QED  BY <1>1, <1>3, <2>1, OpenEditorKeeps
<1>4. ASSUME NEW form \in Forms, AcceptNew(w, form) PROVE Goal
  BY <1>4, AcceptNewKeeps
<1>5. ASSUME NEW form \in Forms, AcceptEdit(w, form) PROVE Goal
  BY <1>5, AcceptEditKeeps
<1>6. ASSUME Reject(w) PROVE Goal
  <2>1. UNCHANGED <<file, cache, front, usedIds, tab, faults>> /\ editor' = NoEditor
    BY <1>6 DEF Reject, vaultVars
  <2>2. EditorInv'  BY <2>1 DEF EditorInv
  <2> QED  BY <1>1, <2>1, <2>2
<1>7. ASSUME NEW i \in DOMAIN cache[w], DeleteSession(w, i) PROVE Goal
  <2>1. faults' = faults  BY <1>7 DEF DeleteSession, SavesAndLoads, vaultVars
  <2> QED  BY <1>7, <2>1, DeleteKeeps
<1>8. ASSUME NEW i \in DOMAIN cache[w], DuplicateSession(w, i) PROVE Goal
  <2>1. faults' = faults  BY <1>8 DEF DuplicateSession, SavesAndLoads, vaultVars
  <2> QED  BY <1>8, <2>1, DuplicateKeeps
<1>9. ASSUME NEW i \in DOMAIN cache[w], Connect(w, i) PROVE Goal
  <2>1. UNCHANGED <<file, cache, front, editor, usedIds, faults>> /\ tab' = cache[w][i]
    BY <1>9 DEF Connect, vaultVars
  <2>2. cache[w] \in Seq(Sessions) /\ i \in 1..Len(cache[w])  BY DEF FilesInv, Good
  <2>3. tab' \in Sessions  BY <2>1, <2>2, ElementOfSeq
  <2>4. EditorInv'  BY <2>1, EditorUntouched
  <2> QED  BY <1>1, <2>1, <2>3, <2>4
<1>10. ASSUME Resave(w) PROVE Goal
  <2>1. faults' = faults  BY <1>10 DEF Resave, SavesAndLoads, vaultVars
  <2> QED  BY <1>10, <2>1, ResaveKeeps
<1>11. ASSUME NEW batch \in Imports, NEW skip, NEW renamed,
              ImportSessions(w, batch, renamed, skip)
       PROVE  Goal
  <2>1. faults' = faults  BY <1>11 DEF ImportSessions, SavesAndLoads, vaultVars
  <2> QED  BY <1>11, <2>1, ImportKeeps
<1> HIDE DEF Goal
<1> QED  BY <1>2, <1>3, <1>4, <1>5, <1>6, <1>7, <1>8, <1>9, <1>10, <1>11 DEF SidebarNext

\* The "All sessions" dialog comes and goes: the sidebar in front has just
\* read the file.
LEMMA FrontKeeps ==
    ASSUME StoreInv, OpenAllSessions \/ CloseAllSessions
    PROVE  FilesInv' /\ EditorInv'
<1> DEFINE loaded == Load
           empty == <<>>
<1>1. Good(loaded, usedIds) /\ SavedIds(file) \subseteq IdsOf(loaded)
  BY LoadFacts DEF StoreInv, FilesInv
<1>2. empty \in Seq(Sessions) /\ DOMAIN empty = {}  OBVIOUS
<1> HIDE DEF empty
<1>3. Good(empty, usedIds)  BY <1>2 DEF Good, Distinct, IdsOf
<1>4. /\ UNCHANGED <<file, usedIds, editor>> /\ editor = NoEditor
      /\ \/ front' = "all" /\ cache' = [cache EXCEPT !["all"] = loaded]
         \/ front' = "side" /\ cache' = [w \in Sidebars |-> IF w = "side" THEN loaded ELSE empty]
  BY DEF OpenAllSessions, CloseAllSessions, Free, empty
<1> HIDE DEF loaded
<1>5. /\ front' \in Sidebars /\ cache'[front'] = loaded
      /\ \A w \in Sidebars : cache'[w] \in {loaded, empty, cache[w]}
      /\ cache' \in [Sidebars -> Seq(Sessions)]
  <2>1. loaded \in Seq(Sessions)  BY <1>1 DEF Good
  <2>2. cache \in [Sidebars -> Seq(Sessions)]  BY DEF StoreInv, FilesInv
  <2>3. "side" \in Sidebars /\ "all" \in Sidebars  BY DEF Sidebars
  <2> HIDE DEF StoreInv
  <2> QED  BY <1>2, <1>4, <2>1, <2>2, <2>3
<1>6. \A w \in Sidebars : Good(cache'[w], usedIds)
  BY <1>1, <1>3, <1>5 DEF StoreInv, FilesInv
<1>7. FileOK'  BY <1>4 DEF StoreInv, FilesInv, FileOK, Good, IdsOf, Distinct
<1>8. SavedIds(file') \subseteq IdsOf(cache'[front'])
  <2>1. SavedIds(file') = SavedIds(file)  BY <1>4 DEF SavedIds
  <2> QED  BY <1>1, <1>5, <2>1
<1>9. /\ Sidebars' = Sidebars /\ usedIds' \subseteq Ids
      /\ \A w \in Sidebars' : Good(cache'[w], usedIds')
  BY <1>4, <1>6 DEF StoreInv, FilesInv, Sidebars
<1>10. FilesInv'  BY <1>5, <1>7, <1>8, <1>9 DEF FilesInv, Good, SavedIds, IdsOf, Distinct
<1>11. EditorInv'  BY <1>4 DEF EditorInv
<1> QED  BY <1>10, <1>11

\* Every step of the specification.
LEMMA StoreInvStep ==
    ASSUME StoreInv, [Next]_vars
    PROVE  StoreInv' /\ (~Deleting => SavedIds(file) \subseteq SavedIds(file'))
<1> DEFINE Goal == /\ FilesInv' /\ EditorInv' /\ faults' \in 0..MaxFaults
                   /\ tab' \in Sessions \cup {NoTab}
                   /\ ~Deleting => SavedIds(file) \subseteq SavedIds(file')
<1>0. VaultInv'  BY VaultInvStep DEF StoreInv
<1>1. ASSUME NEW w \in Sidebars, SidebarNext(w) PROVE Goal
  BY <1>1, SidebarKeeps DEF Deleting
<1>3. ASSUME UNCHANGED <<file, cache, front, usedIds, editor>>, tab' = tab \/ tab' = NoTab,
             faults' \in 0..MaxFaults
      PROVE  Goal
  <2>1. FilesInv'  BY <1>3, ListsUntouched DEF StoreInv, FilesInv
  <2>2. EditorInv'  BY <1>3, EditorUntouched DEF StoreInv
  <2>3. SavedIds(file') = SavedIds(file)  BY <1>3 DEF SavedIds
  <2> QED  BY <1>3, <2>1, <2>2, <2>3 DEF StoreInv
<1>4. ASSUME CloseTab PROVE Goal
  BY <1>3, <1>4 DEF CloseTab, vaultVars, StoreInv
<1>5. ASSUME Dial PROVE Goal
  <2>1. UNCHANGED storeVars  BY <1>5 DEF Dial
  <2>2. PICK failing \in SUBSET Providers : Spent(Cardinality(failing))
    BY <1>5 DEF Dial, LookupReads
  <2>3. faults' \in 0..MaxFaults  BY <2>2, LookupCost, SpentKeeps DEF StoreInv
  <2> QED  BY <1>3, <2>1, <2>3 DEF storeVars
<1>6. ASSUME VaultNext, UNCHANGED storeVars PROVE Goal
  <2>1. faults' = faults
    BY <1>6 DEF VaultNext, SetMasterPassword, DisableMasterPassword, Unlock, PromptAnswered,
         Lock, LookupAsks, LookupOpens
  <2> QED  BY <1>3, <1>6, <2>1 DEF storeVars, StoreInv
<1>7. ASSUME UNCHANGED vars PROVE Goal
  BY <1>3, <1>7 DEF vars, vaultVars, storeVars, StoreInv
<1>8. Goal
  <2> HIDE DEF Goal
  <2>1. CASE OpenAllSessions \/ CloseAllSessions
    <3>1. UNCHANGED <<file, tab, faults>>
      BY <2>1 DEF OpenAllSessions, CloseAllSessions, vaultVars
    <3>2. FilesInv' /\ EditorInv'  BY <2>1, FrontKeeps
    <3> QED  BY <3>1, <3>2 DEF StoreInv, SavedIds, Goal
  <2> QED  BY <1>1, <1>4, <1>5, <1>6, <1>7, <2>1 DEF Next
<1> QED  BY <1>0, <1>8 DEF StoreInv

-----------------------------------------------------------------------------
\* The inductive invariant of the saved sessions: lists with one session for an
\* id that was given out, a sidebar in front that misses no session of the file,
\* and a dialog that stands on its session's place in that sidebar's list
\* (saveSessions, loadSessions, onNewSession, onEditSession, importSessions).
THEOREM StoreInductive == Spec => []StoreInv
<1>1. StoreInv /\ [Next]_vars => StoreInv'  BY StoreInvStep
<1> QED  BY StoreInvInit, <1>1, PTL DEF Spec

\* One session for an id in the file and in each sidebar's list, whatever is
\* created, edited, duplicated, imported or deleted from whichever sidebar, and
\* in memory only the key the settings verify (sessions.json, sessionsChanged,
\* MasterPasswordManager).
THEOREM StoreIsSound == Spec => []StoreSound
<1>1. StoreInv => StoreSound
  <2> SUFFICES ASSUME StoreInv PROVE StoreSound
    OBVIOUS
  <2>1. VaultTypeOK
    BY DEF StoreInv, VaultInv, VaultTypeOK, AnyKey, Rings
  <2>2. KeyIsCurrent  BY DEF StoreInv, VaultInv
  <2>3. Distinct(Load)  BY LoadFacts DEF StoreInv, FilesInv, Good
  <2>4. Distinct(cache["side"]) /\ Distinct(cache["all"])
    BY DEF StoreInv, FilesInv, Good, Sidebars
  <2>5. front \in Sidebars /\ usedIds \subseteq Ids  BY DEF StoreInv, FilesInv
  <2>6. tab.id \in Ids \cup {NoId}  BY DEF StoreInv, Sessions, NoTab
  <2> QED  BY <2>1, <2>2, <2>3, <2>4, <2>5, <2>6 DEF StoreSound, StoreTypeOK
<1> QED  BY StoreInductive, <1>1, PTL

\* A saved session stays in the file until the user deletes it, whichever of
\* the three writers of sessions.json writes the list it has (accept, and
\* saveSessions of both sidebars).
THEOREM NothingIsLost == Spec => NothingLost
<1> DEFINE Stays == ~Deleting => SavedIds(file) \subseteq SavedIds(file')
<1>1. StoreInv /\ [Next]_vars => [Stays]_vars  BY StoreInvStep
<1>2. Spec => [][Stays]_vars  BY StoreInductive, <1>1, PTL DEF Spec
<1> QED  BY <1>2 DEF NothingLost

-----------------------------------------------------------------------------
\* Of a saved session there is one link, since ids are not shared.
LEMMA OneLink ==
    ASSUME StoreInv, NEW id, NEW s \in LinkOf(id), NEW t \in LinkOf(id)
    PROVE  s = t
<1>1. Distinct(Load)  BY LoadFacts DEF StoreInv, FilesInv, Good
<1> DEFINE l == Load
<1>2. PICK i \in DOMAIN l : s = l[i]  BY DEF LinkOf, Range
<1>3. PICK j \in DOMAIN l : t = l[j]  BY DEF LinkOf, Range
<1>4. l[i].id = l[j].id  BY <1>2, <1>3 DEF LinkOf
<1> HIDE DEF l
<1>5. Distinct(l)  BY <1>1 DEF l
<1>6. i = j  BY <1>4, <1>5 DEF Distinct
<1> QED  BY <1>2, <1>3, <1>6

\* "A stale snapshot must not override the current saved bastion data": a tab
\* whose session goes through a saved session logs in to the host that session
\* has now, under that session's own password, or not at all, however old the
\* tab's copy is and whatever was edited meanwhile (connectToHost).
THEOREM LinksAreFollowed == Spec => LinkedRouteIsCurrent
<1> DEFINE Current == lookup = NoLookup /\ lookup' # NoLookup =>
             \A s \in LinkOf(tab.id) :
                \E b \in Range(Load) :
                   /\ b.id = s.jump /\ lookup'.name = <<b.id, "own">>
                   /\ b.host = lookup'.host
<1>1. ASSUME StoreInv, Next, lookup = NoLookup, lookup' # NoLookup PROVE Dial
  <2>1. NoLookup.step = "idle"  BY DEF NoLookup
  <2>2. ~ (VaultNext /\ UNCHANGED storeVars)
    BY <1>1, <2>1 DEF VaultNext, SetMasterPassword, DisableMasterPassword, Unlock,
         PromptAnswered, Asking, Lock, LookupAsks, LookupOpens
  <2>3. ASSUME NEW w \in Sidebars, SidebarNext(w) PROVE lookup' = lookup
    BY <2>3 DEF SidebarNext, NewEditor, OpenEditor, AcceptNew, AcceptEdit, Reject,
         DeleteSession, DuplicateSession, Connect, Resave, ImportSessions, SavesAndLoads,
         vaultVars
  <2>4. ASSUME OpenAllSessions \/ CloseAllSessions \/ CloseTab PROVE lookup' = lookup
    BY <2>4 DEF OpenAllSessions, CloseAllSessions, CloseTab, vaultVars
  <2> QED  BY <1>1, <2>2, <2>3, <2>4 DEF Next
<1>2. ASSUME StoreInv, Dial PROVE Current
  <2> SUFFICES ASSUME NEW s \in LinkOf(tab.id)
               PROVE  \E b \in Range(Load) :
                         /\ b.id = s.jump /\ lookup'.name = <<b.id, "own">>
                         /\ b.host = lookup'.host
    OBVIOUS
  <2> DEFINE bastions == {x \in Range(Load) : Serves(x, s)}
             b == CHOOSE x \in bastions : TRUE
  <2>1. (CHOOSE x \in LinkOf(tab.id) : TRUE) = s  BY <1>2, OneLink
  <2>2. Dialled(tab) = IF bastions = {} THEN [host |-> NoHost, name |-> <<NoId, "own">>]
                       ELSE [host |-> b.host, name |-> <<s.jump, "own">>]
    BY <2>1 DEF Dialled
  <2>3. bastions # {}  BY <1>2, <2>2 DEF Dial
  <2>4. b \in Range(Load) /\ b.id = s.jump
    <3>1. b \in bastions  BY <2>3
    <3> QED  BY <3>1 DEF Serves
  <2>5. lookup'.name = Dialled(tab).name /\ lookup'.host = Dialled(tab).host
    BY <1>2 DEF Dial, LookupReads
  <2> HIDE DEF b, bastions
  <2>6. lookup'.name = <<b.id, "own">> /\ lookup'.host = b.host
    BY <2>2, <2>3, <2>4, <2>5
  <2> QED  BY <2>4, <2>6
<1>3. StoreInv /\ [Next]_vars => [Current]_vars
  <2> SUFFICES ASSUME StoreInv, Next PROVE Current
    BY DEF Current, vars
  <2>1. CASE lookup = NoLookup /\ lookup' # NoLookup
    <3>1. Dial  BY <1>1, <2>1
    <3> QED  BY <1>2, <3>1
  <2>2. CASE ~(lookup = NoLookup /\ lookup' # NoLookup)  BY <2>2
  <2> QED  BY <2>1, <2>2
<1> HIDE DEF Current
<1>4. Spec => [][Current]_vars  BY StoreInductive, <1>3, PTL DEF Spec
<1> QED  BY <1>4 DEF LinkedRouteIsCurrent, Current
=============================================================================
