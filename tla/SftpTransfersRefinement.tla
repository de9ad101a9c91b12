----------------------- MODULE SftpTransfersRefinement -----------------------
(* SftpTransfers implements TransferBatch as long as the browser connection   *)
(* only serves the queue.                                                     *)
EXTENDS SftpTransfers

(* Where a request is: in the queue, carried by a running worker, listed as   *)
(* the folder being downloaded, reported successful, or given up.             *)
InQueue(r)  == {queue[i] : i \in {j \in 1..Len(queue) : queue[j].req = r}}
ByWorker(r) == {workers[w].item : w \in {v \in active : workers[v].item.req = r}}
AsFolder(r) == IF dirDownload /\ activeTransfer.req = r THEN {activeTransfer} ELSE {}
Tries(items) == (CHOOSE item \in items : TRUE).attempts

FileState(r) ==
  CASE InQueue(r) # {}  -> [stage |-> "waiting", tries |-> Tries(InQueue(r))]
    [] ByWorker(r) # {} -> [stage |-> "running", tries |-> Tries(ByWorker(r))]
    [] AsFolder(r) # {} -> [stage |-> "running", tries |-> Tries(AsFolder(r))]
    [] OTHER            -> [stage |-> IF r \in finished THEN "finished"
                                      ELSE IF r \in asked THEN "gone" ELSE "idle",
                            tries |-> 0]

Promise == INSTANCE TransferBatch WITH
  Files <- Requests, Key <- BusyKey, Limit <- MaxParallel, Retries <- MaxRetries,
  state <- [r \in Requests |-> FileState(r)]

(* The queue keeps its promise: each file waits, runs alone on its key within *)
(* the limit, is retried at most twice, ends once, and does end.              *)
KeepsPromise == Promise!Spec
=============================================================================
