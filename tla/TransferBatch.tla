---------------------------- MODULE TransferBatch ----------------------------
(* What the transfer queue promises for each file the user asked to transfer, *)
(* whatever threads, connections and dialogs it takes: the file waits, is     *)
(* being transferred by one party at a time, is tried again a bounded number  *)
(* of times, and then is over for good.  Two files with the same key are      *)
(* never transferred at the same time, and never more than Limit are.         *)
EXTENDS Naturals, FiniteSets

CONSTANTS
  Files,    \* what can be asked for
  Key(_),   \* files with one key exclude each other
  Limit,    \* how many may be transferred at once
  Retries   \* how often one file may be tried again

VARIABLE state  \* of each file: its stage and how often it was tried again

Stages == {"idle", "waiting", "running", "finished", "gone"}
States == [stage : Stages, tries : 0..Retries]
At(stage, tries) == [stage |-> stage, tries |-> tries]

Live(s) == s.stage \in {"waiting", "running"}
Over(s) == s.stage \in {"finished", "gone"}
Running(st) == {f \in Files : st[f].stage = "running"}

(* The steps of one file.  Only a file being transferred can finish or be     *)
(* tried again; a file can be given up at any time before.                    *)
Asked(a, b)   == a.stage = "idle" /\ (Live(b) \/ b.stage = "gone") /\ b.tries = 0
Started(a, b) == a.stage = "waiting" /\ b = At("running", a.tries)
Retried(a, b) == a.stage = "running" /\ Live(b) /\ b.tries = a.tries + 1
Ended(a, b)   == a.stage = "running" /\ b.stage = "finished"
GivenUp(a, b) == Live(a) /\ b.stage = "gone"

FileStep(a, b) ==
  a = b \/ Asked(a, b) \/ Started(a, b) \/ Retried(a, b) \/ Ended(a, b) \/ GivenUp(a, b)

Exclusive(st) ==
  /\ Cardinality(Running(st)) <= Limit
  /\ \A f, g \in Running(st) : Key(f) = Key(g) => f = g

Init == state = [f \in Files |-> At("idle", 0)]

(* One step may end one transfer, start others in its place and give up the   *)
(* rest; results arrive one at a time.                                        *)
Next ==
  /\ state' \in [Files -> States]
  /\ \A f \in Files : FileStep(state[f], state'[f])
  /\ Exclusive(state')
  /\ \A f, g \in Files :
       (Ended(state[f], state'[f]) \/ Retried(state[f], state'[f]))
       /\ (Ended(state[g], state'[g]) \/ Retried(state[g], state'[g])) => f = g

(* Whatever was asked for is over one day.                                    *)
EveryFileEnds == \A f \in Files : Live(state[f]) ~> Over(state[f])

Steps == Init /\ [][Next]_state
Spec == Steps /\ EveryFileEnds
=============================================================================
