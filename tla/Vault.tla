------------------------------- MODULE Vault -------------------------------
(***************************************************************************)
(* Where passwords are kept (keyring.cpp, masterpasswordmanager.cpp): two  *)
(* key stores asked one after the other through child processes that may   *)
(* fail or be killed after their three seconds, and the master password    *)
(* that seals what is stored in them.                                      *)
(*                                                                         *)
(* A password is known by the name it is stored under, so an entry only    *)
(* says in which form it lies there.  The settings hold salt and verifier, *)
(* which is the key itself: a key is a master password with the salt it    *)
(* was derived with.  A lookup of the window asks for the master password  *)
(* in a dialog of its own and is one step; the lookup of a worker reads    *)
(* the store first and asks later, and the window goes on in between.      *)
(***************************************************************************)
EXTENDS Integers, FiniteSets

CONSTANTS Fields,            \* what a session keeps a password for
          Ids,               \* the session ids there can be
          SavedBefore,       \* names with a password saved by an earlier run
          MasterPasswords,
          EarlierVersions,   \* whether a master password set before is of the first version
          MaxSalts,          \* bound: how often a master password is set
          MaxFaults          \* bound: calls to a key store that fail

ASSUME VaultAssumption == MaxSalts \in Nat \ {0} /\ MaxFaults \in Nat

VARIABLES settings,          \* [enabled, key]: security/* of QSettings
          sessionKey,        \* m_sessionKey, NoKey while m_isUnlocked is off
          ring,              \* the two key stores
          salts, faults,     \* counters of the bounds
          lookup             \* the lookup of a worker thread

vaultVars == <<settings, sessionKey, ring, salts, faults, lookup>>

Names == Ids \X Fields
Providers == {"secret-service", "kwallet"}

NoKey == [password |-> "none", salt |-> 0, legacy |-> FALSE]
Keys == [password : MasterPasswords, salt : 1..MaxSalts, legacy : BOOLEAN]

\* What lies in a store: nothing or an empty text, which no lookup tells apart,
\* a plain password, or one sealed in the old ("BANCHO:") or current format.
Nothing == [form |-> "nothing", key |-> NoKey]
PlainText == [form |-> "plain", key |-> NoKey]
Sealed(format, key) == [form |-> format, key |-> key]
Entries == {Nothing, PlainText}
             \cup [form : {"old", "sealed"}, key : Keys]

NoLookup == [step |-> "idle"]

(***************************************************************************)
(* The master password.                                                    *)
(***************************************************************************)
\* Mutant: a locked vault gives the password as it is.
EncryptOrPlain == IF sessionKey = NoKey THEN PlainText ELSE Sealed("sealed", sessionKey)

\* encryptPassword: a locked vault gives an empty text.
Encrypt == IF sessionKey = NoKey THEN Nothing ELSE Sealed("sealed", sessionKey)

\* The key a typed master password unlocks: it must give the verifier.
UnlockedBy(typed) ==
    IF settings.key # NoKey /\ settings.key.password = typed THEN settings.key
    ELSE sessionKey

\* What a text reads as with key k: the old format has no authentication.
Decrypt(entry, k) ==
    CASE k = NoKey -> "none"
      [] k # NoKey /\ entry.form = "old" -> IF entry.key = k THEN "password" ELSE "garbage"
      [] OTHER -> IF entry.key = k THEN "password" ELSE "none"

IsSealed(entry) == entry.form \in {"old", "sealed"}
AsksFor(entry) == IsSealed(entry) /\ settings.enabled /\ sessionKey = NoKey

(***************************************************************************)
(* The key stores.  An outcome is what a call did and what it reported: a  *)
(* call killed by its time limit may have done its work all the same.      *)
(***************************************************************************)
Outcomes == {[done |-> TRUE, ok |-> TRUE], [done |-> FALSE, ok |-> FALSE],
             [done |-> TRUE, ok |-> FALSE]}
Cost(outcome) == IF outcome.ok THEN 0 ELSE 1

Written(r, p, n, entry, outcome) ==
    IF outcome.done THEN [r EXCEPT ![p][n] = entry] ELSE r

\* The rings a store of entry under n can leave, and what it reports.
Stores(r, n, entry) ==
    {[ring |-> Written(r, "secret-service", n, entry, o), ok |-> TRUE, cost |-> 0] :
        o \in {x \in Outcomes : x.ok}}
    \cup {[ring |-> Written(Written(r, "secret-service", n, entry, o), "kwallet", n, entry, w),
           ok |-> w.ok, cost |-> 1 + Cost(w)] :
        o \in {x \in Outcomes : ~x.ok}, w \in Outcomes}

StoresPassword(r, n) ==
    Stores(r, n, IF settings.enabled THEN Encrypt ELSE PlainText)

\* A delete clears the first store and writes an empty text to the second.
Deletes(r, n) ==
    {[ring |-> Written(Written(r, "secret-service", n, Nothing, o), "kwallet", n, Nothing, w),
      ok |-> o.ok \/ w.ok, cost |-> Cost(o) + Cost(w)] :
        o \in Outcomes, w \in Outcomes}

Keeps(r) == {[ring |-> r, ok |-> TRUE, cost |-> 0]}

\* The text a lookup goes on with when the stores in failing do not answer:
\* that of the first store that gives one.
Found(n, failing) ==
    LET Text(p) == IF p \in failing THEN Nothing ELSE ring[p][n]
    IN  IF Text("secret-service") = Nothing
        THEN Text("kwallet") ELSE Text("secret-service")

\* What the text is read as: a plain one as it lies there.
ReadAs(entry, k) ==
    CASE entry.form = "nothing" -> "none"
      [] entry.form = "plain" -> "password"
      [] OTHER -> Decrypt(entry, k)

\* A start of the program: nothing is unlocked; passwords saved earlier lie in
\* the first store, sealed or from before the master password.
VaultInit ==
    /\ settings \in {[enabled |-> FALSE, key |-> NoKey]}
         \cup [enabled : {TRUE}, key : {k \in Keys : k.salt = 1 /\ k.legacy \in EarlierVersions}]
    /\ sessionKey = NoKey
    /\ \E before \in {Nothing, PlainText}
                       \cup {Sealed("sealed", settings.key), Sealed("old", settings.key)} :
          /\ before.form = "sealed" => settings.enabled
          /\ before.form = "old" => settings.key.legacy
          /\ ring = [p \in Providers |-> [n \in Names |->
                       IF p = "secret-service" /\ n \in SavedBefore THEN before ELSE Nothing]]
    /\ salts = 1
    /\ faults = 0
    /\ lookup = NoLookup

Spent(cost) == faults' = faults + cost /\ faults' <= MaxFaults

\* A dialog that asks a worker's question keeps the window from anything else.
Asking == lookup.step = "asks"

(***************************************************************************)
(* The settings dialog and the lock command.                               *)
(***************************************************************************)
\* Ticking the box, which shows it off: a new salt each time.
SetMasterPassword(typed) ==
    /\ ~Asking /\ ~settings.enabled /\ salts < MaxSalts
    /\ salts' = salts + 1
    /\ settings' = [enabled |-> TRUE,
                    key |-> [password |-> typed, salt |-> salts', legacy |-> FALSE]]
    /\ sessionKey' = settings'.key
    /\ UNCHANGED <<ring, faults, lookup>>

\* Mutant: the key stays in memory.
DisableForgetsLock(typed) ==
    /\ ~Asking /\ settings.enabled
    /\ settings.key.password = typed
    /\ settings' = [enabled |-> FALSE, key |-> NoKey]
    /\ sessionKey' = settings.key
    /\ UNCHANGED <<ring, salts, faults, lookup>>

DisableMasterPassword(typed) ==
    /\ ~Asking /\ settings.enabled
    /\ settings.key.password = typed
    /\ settings' = [enabled |-> FALSE, key |-> NoKey]
    /\ sessionKey' = NoKey
    /\ UNCHANGED <<ring, salts, faults, lookup>>

\* lockApplication, or a start of the program.
Lock ==
    /\ ~Asking /\ settings.enabled /\ sessionKey # NoKey
    /\ sessionKey' = NoKey
    /\ UNCHANGED <<settings, ring, salts, faults, lookup>>

Unlock(typed) ==
    /\ ~Asking /\ settings.enabled
    /\ UnlockedBy(typed) # sessionKey
    /\ sessionKey' = UnlockedBy(typed)
    /\ UNCHANGED <<settings, ring, salts, faults, lookup>>

(***************************************************************************)
(* The lookup of a worker: it reads the text, has the window ask for the   *)
(* master password when the vault is locked, and opens the text.           *)
(***************************************************************************)
LookupReads(n, host) ==
    \E failing \in SUBSET Providers :
       /\ Spent(Cardinality(failing))
       /\ lookup' = [step |-> "read", name |-> n, host |-> host, entry |-> Found(n, failing)]

LookupAsks ==
    /\ lookup.step = "read" /\ AsksFor(lookup.entry)
    /\ lookup' = [lookup EXCEPT !.step = "asks"]
    /\ UNCHANGED <<settings, sessionKey, ring, salts, faults>>

\* The dialog is answered, or not shown at all when the vault is open by now.
PromptAnswered(typed) ==
    /\ Asking
    /\ sessionKey' = IF sessionKey = NoKey THEN UnlockedBy(typed) ELSE sessionKey
    /\ lookup' = [lookup EXCEPT !.step = "opens"]
    /\ UNCHANGED <<settings, ring, salts, faults>>

\* What it reads goes to the login, which is not modelled here.
LookupOpens ==
    /\ \/ lookup.step = "opens"
       \/ lookup.step = "read" /\ ~AsksFor(lookup.entry)
    /\ lookup' = NoLookup
    /\ UNCHANGED <<settings, sessionKey, ring, salts, faults>>

VaultNext ==
    \/ \E typed \in MasterPasswords :
          SetMasterPassword(typed) \/ DisableMasterPassword(typed) \/ Unlock(typed)
    \/ \E typed \in MasterPasswords \cup {"none"} : PromptAnswered(typed)
    \/ Lock \/ LookupAsks \/ LookupOpens

-----------------------------------------------------------------------------
\* The state of the vault has the shape the code gives it: an enabled vault
\* has a key to verify with, and only a key that was set seals anything.
VaultTypeOK ==
    /\ settings.enabled <=> settings.key # NoKey
    /\ settings.key \in Keys \cup {NoKey} /\ sessionKey \in Keys \cup {NoKey}
    /\ ring \in [Providers -> [Names -> Entries]]
    /\ salts \in 0..MaxSalts /\ faults \in 0..MaxFaults

\* The key kept in memory is the one the settings verify (unlock,
\* setMasterPassword, disableMasterPassword, lock): whatever is sealed while
\* the vault is open can be opened after the next unlock.
KeyIsCurrent == sessionKey # NoKey => sessionKey = settings.key

\* "Never silently persist a plaintext secret": while the master password is
\* on, no store comes to hold a plain password that was not plain there before.
NeverPlain ==
    [][settings.enabled =>
          \A p \in Providers, n \in Names :
             ring'[p][n] = PlainText => ring[p][n] = PlainText]_vaultVars

\* What can be read under n when the right master password is given.
Readable(n) == ReadAs(Found(n, {}), settings.key) = "password"

\* "requires the current one to decrypt and save in the clear": switching the
\* master password off leaves every password that could be read readable.
KeptThroughDisable ==
    [][settings.enabled /\ ~settings'.enabled =>
          \A n \in Names : Readable(n) => Readable(n)']_vaultVars
=============================================================================
