-------------------------- MODULE TransferConflict --------------------------
(* The object that answers "the destination already exists, what now?" for   *)
(* one batch of transfers (src/src/transferconflict.h).  One object is shared *)
(* by every worker of the batch; this module holds its data part, the locking *)
(* and the dialog are steps of SftpTransfers.                                 *)

Choices == {"overwrite", "skip", "cancel"}   \* what the dialog can return
Decisions == {"ask", "overwrite", "skip"}    \* remembered for a batch or for good

Conflicts == [decision : Decisions, cancelled : BOOLEAN]
FreshConflict == [decision |-> "ask", cancelled |-> FALSE]

UnpromptedLate(c, policy) ==  \* mutant: the cancelled flag is not looked at
  IF c.decision = "ask" THEN policy ELSE c.decision

(* What resolve() returns without opening the dialog; "ask" when it must.     *)
(* A cancelled batch answers before the stored policy is even read.           *)
Unprompted(c, policy) ==
  IF c.cancelled THEN "cancel"
  ELSE IF c.decision = "ask" THEN policy ELSE c.decision

(* The object after the dialog returned choice with "Apply to all" = all.     *)
AfterAnswer(c, choice, all) ==
  [decision  |-> IF all /\ choice # "cancel" THEN choice ELSE c.decision,
   cancelled |-> c.cancelled \/ choice = "cancel"]

(* The stored policy after the dialog, with "Remember" = always.              *)
PolicyAfter(policy, choice, always) ==
  IF always /\ choice # "cancel" THEN choice ELSE policy
=============================================================================
