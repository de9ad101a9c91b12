-------------------------- MODULE SftpTransfersProofs --------------------------
(* Theorems about SftpTransfers, for every set of requests, workers and       *)
(* bounds: type correctness, the exclusion of busy files, the two facts about *)
(* conflicts that let the workers share one dialog, and the limit; and, when  *)
(* it is Undisturbed, the queue as a whole and the steps of the refinement.   *)
EXTENDS SftpTransfersRefinement, FiniteSetTheorems, TLAPS

(* What the start loop assigns.                                               *)
LoopOK == QueuesOK /\ FlagsOK /\ WorkersOK

(* A sequence of items, cut and glued, is one.                                *)
LEMMA ItemsSubSeq ==
  ASSUME NEW q \in Seq(Items), NEW n \in 0..Len(q)
  PROVE  /\ SubSeq(q, n + 1, Len(q)) \in Seq(Items)
         /\ SubSeq(q, n + 1, Len(q)) # <<>> =>
              /\ Head(SubSeq(q, n + 1, Len(q))) \in Items
              /\ Tail(SubSeq(q, n + 1, Len(q))) \in Seq(Items)
  OBVIOUS

LEMMA EmptySequences ==
  <<>> \in Seq(Items) /\ <<>> \in Seq(BrowserRequest) /\ <<>> \in Seq(Signal)
  OBVIOUS

LEMMA NoItemType == NoItem \in Items /\ NoWorker \in WorkerStates
  BY BoundsAssumption DEF NoItem, Items, MaxRetries, NoWorker, WorkerStates, Phases, Results

LEMMA RequestType ==
  ASSUME NEW item \in Items, NEW op \in {"connect", "list", "dirList", "transfer", "upload"}
  PROVE  Request(op, item) \in BrowserRequest
  BY DEF Request, BrowserRequest

LEMMA LaunchedType ==
  ASSUME NEW item \in Items, NEW b \in 1..MaxBatches
  PROVE  Launched(item, b) \in WorkerStates
  BY NoItemType DEF Launched, WorkerStates, Phases

LEMMA CancelWorkersType ==
  ASSUME NEW W, NEW w \in [Workers -> WorkerStates]
  PROVE  CancelWorkers(W, w) \in [Workers -> WorkerStates]
  BY DEF CancelWorkers, WorkerStates

LEMMA StartDirectoryDownloadType ==
  ASSUME QueuesOK, NEW item \in Items, NEW q \in Seq(Items),
         item.req.kind = "dirDown", StartDirectoryDownload(item, q)
  PROVE  QueuesOK' /\ FlagsOK'
<1>1. FlagsOK'
  BY DEF FlagsOK, StartDirectoryDownload
<1>2. Append(browser, Request("dirList", item)) \in Seq(BrowserRequest)
  BY RequestType DEF QueuesOK
<1>3. queue' \in {q, <<>>} /\ browser' \in {browser, Append(browser, Request("dirList", item))}
  BY DEF StartDirectoryDownload
<1>4. queue' \in Seq(Items)
  BY <1>3, EmptySequences
<1>5. browser' \in Seq(BrowserRequest)
  BY <1>2, <1>3 DEF QueuesOK
<1> QED BY <1>1, <1>4, <1>5 DEF QueuesOK

(* The loop lists a folder only when no worker runs and it could launch none: *)
(* then the head of the queue is a folder.                                    *)
LEMMA HeadIsFolder ==
  ASSUME NEW q \in Seq(Items), NEW w, q # <<>>, ~ CanLaunch(q, {}, w, 1)
  PROVE  Head(q).req.kind = "dirDown"
<1>1. Cardinality({}) = 0
  BY FS_EmptySet
<1>2. Cardinality({}) + 1 <= MaxParallel
  BY <1>1, BoundsAssumption
<1>3. PICK i \in 1..1 :
        q[i].req.kind = "dirDown" \/ \E j \in 1..(i - 1) : BusyKey(q[j].req) = BusyKey(q[i].req)
  BY <1>2 DEF CanLaunch
<1> QED BY <1>3

LEMMA StartLoopType ==
  ASSUME LoopOK, batch' \in 1..MaxBatches,
         NEW q \in Seq(Items), NEW act \in SUBSET Workers, NEW w \in [Workers -> WorkerStates],
         StartLoop(q, act, w)
  PROVE  LoopOK'
<1> DEFINE rest(n) == SubSeq(q, n + 1, Len(q))
<1>1. PICK n \in 0..Len(q) :
        /\ n < Len(q) => ~ CanLaunch(q, act, w, n + 1)
        /\ \E fresh \in SUBSET {v \in Workers : w[v].phase = "none"} :
           \E place \in [fresh -> 1..n] :
             /\ \A i \in 1..n : \E v \in fresh : place[v] = i
             /\ active' = act \cup fresh
             /\ workers' = [v \in Workers |-> IF v \in fresh THEN Launched(q[place[v]], batch') ELSE w[v]]
        /\ \/ /\ queue' = rest(n) /\ transferActive' = TRUE
              /\ dirDownload' = FALSE /\ dirCancelled' = FALSE
              /\ UNCHANGED <<activeTransfer, browser>>
           \/ /\ queue' = rest(n) /\ transferActive' = FALSE
              /\ dirDownload' = FALSE /\ dirCancelled' = FALSE
              /\ browser' = Append(browser, Request("list", NoItem))
              /\ activeTransfer' = activeTransfer
           \/ /\ active' = {} /\ rest(n) # <<>>
              /\ StartDirectoryDownload(Head(rest(n)), Tail(rest(n)))
  BY DEF StartLoop
<1>2. PICK fresh \in SUBSET {v \in Workers : w[v].phase = "none"} :
       \E place \in [fresh -> 1..n] :
         /\ \A i \in 1..n : \E v \in fresh : place[v] = i
         /\ active' = act \cup fresh
         /\ workers' = [v \in Workers |-> IF v \in fresh THEN Launched(q[place[v]], batch') ELSE w[v]]
  BY <1>1
<1>3. PICK place \in [fresh -> 1..n] :
        /\ \A i \in 1..n : \E v \in fresh : place[v] = i
        /\ workers' = [v \in Workers |-> IF v \in fresh THEN Launched(q[place[v]], batch') ELSE w[v]]
  BY <1>2
<1>4. active' \subseteq Workers
  BY <1>2
<1>5. workers' \in [Workers -> WorkerStates]
  <2>1. ASSUME NEW v \in fresh PROVE Launched(q[place[v]], batch') \in WorkerStates
    BY LaunchedType
  <2> QED BY <1>3, <2>1
<1>6. WorkersOK'
  BY <1>4, <1>5 DEF WorkersOK
<1>7. rest(n) \in Seq(Items)
      /\ (rest(n) # <<>> => Head(rest(n)) \in Items /\ Tail(rest(n)) \in Seq(Items))
  BY ItemsSubSeq
<1>8. Append(browser, Request("list", NoItem)) \in Seq(BrowserRequest)
  BY NoItemType, RequestType DEF LoopOK, QueuesOK
<1>9. CASE /\ queue' = rest(n) /\ transferActive' = TRUE
           /\ dirDownload' = FALSE /\ dirCancelled' = FALSE
           /\ UNCHANGED <<activeTransfer, browser>>
  BY <1>6, <1>7, <1>9 DEF LoopOK, QueuesOK, FlagsOK
<1>10. CASE /\ queue' = rest(n) /\ transferActive' = FALSE
            /\ dirDownload' = FALSE /\ dirCancelled' = FALSE
            /\ browser' = Append(browser, Request("list", NoItem))
            /\ activeTransfer' = activeTransfer
  BY <1>6, <1>7, <1>8, <1>10 DEF LoopOK, QueuesOK, FlagsOK
<1>11. CASE /\ active' = {} /\ rest(n) # <<>>
            /\ StartDirectoryDownload(Head(rest(n)), Tail(rest(n)))
  <2>1. act = {} /\ fresh = {}
    BY <1>2, <1>11
  <2>2. n = 0
    BY <1>3, <2>1
  <2>3. rest(n) = q
    BY <2>2
  <2>4. ~ CanLaunch(q, {}, w, 1)
    BY <1>1, <1>11, <2>1, <2>2, <2>3
  <2>5. Head(rest(n)).req.kind = "dirDown"
    BY <1>11, <2>3, <2>4, HeadIsFolder
  <2>6. QueuesOK' /\ FlagsOK'
    BY <1>7, <1>11, <2>5, StartDirectoryDownloadType DEF LoopOK
  <2> QED BY <1>6, <2>6 DEF LoopOK
<1> QED BY <1>1, <1>9, <1>10, <1>11

LEMMA StartParallelTransfersType ==
  ASSUME LoopOK, batch' \in 1..MaxBatches,
         NEW q \in Seq(Items), NEW act \in SUBSET Workers, NEW w \in [Workers -> WorkerStates],
         StartParallelTransfers(q, act, w)
  PROVE  LoopOK'
<1>1. CASE /\ queue' = q /\ active' = act /\ workers' = w
           /\ UNCHANGED <<transferActive, activeTransfer, dirDownload, dirCancelled, browser>>
  BY <1>1 DEF LoopOK, QueuesOK, FlagsOK, WorkersOK
<1>2. CASE StartLoop(q, act, w)
  BY <1>2, StartLoopType
<1> QED BY <1>1, <1>2 DEF StartParallelTransfers

LEMMA StartNextTransferType ==
  ASSUME QueuesOK, FlagsOK, ~ dirDownload, NEW q \in Seq(Items), StartNextTransfer(q)
  PROVE  QueuesOK' /\ FlagsOK'
<1>1. CASE q = <<>>
  <2>1. Append(browser, Request("list", NoItem)) \in Seq(BrowserRequest)
    BY NoItemType, RequestType DEF QueuesOK
  <2>2. QueuesOK'
    BY <1>1, <2>1 DEF StartNextTransfer, QueuesOK
  <2>3. transferActive' = FALSE /\ UNCHANGED <<activeTransfer, dirDownload, dirCancelled>>
    BY <1>1 DEF StartNextTransfer
  <2>4. FlagsOK'
    BY <2>3 DEF FlagsOK
  <2> QED BY <2>2, <2>4
<1>2. CASE q # <<>> /\ Head(q).req.kind = "dirDown"
  <2>1. Head(q) \in Items /\ Tail(q) \in Seq(Items)
    BY <1>2
  <2> QED BY <1>2, <2>1, StartDirectoryDownloadType DEF StartNextTransfer
<1>3. CASE q # <<>> /\ Head(q).req.kind # "dirDown"
  <2>1. Head(q) \in Items /\ Tail(q) \in Seq(Items)
    BY <1>3
  <2>2. Append(browser, Request("transfer", Head(q))) \in Seq(BrowserRequest)
    BY <2>1, RequestType DEF QueuesOK
  <2>3. QueuesOK'
    BY <1>3, <2>1, <2>2 DEF StartNextTransfer, QueuesOK
  <2>4. FlagsOK'
    BY <1>3, <2>1 DEF StartNextTransfer, FlagsOK
  <2> QED BY <2>3, <2>4
<1> QED BY <1>1, <1>2, <1>3

LEMMA FinishTransferQueueType ==
  ASSUME QueuesOK, FlagsOK, SessionOK, ~ dirDownload, NEW result, FinishTransferQueue(result)
  PROVE  QueuesOK' /\ FlagsOK' /\ transferPaused' \in BOOLEAN
<1> DEFINE retry == result = "failed" /\ activeTransfer.attempts < MaxRetries /\ connected
           again == <<[activeTransfer EXCEPT !.attempts = @ + 1]>> \o queue
           next  == IF retry THEN again ELSE queue
<1>1. CASE transferPaused' = transferPaused /\ StartNextTransfer(next)
  <2>1. retry => [activeTransfer EXCEPT !.attempts = @ + 1] \in Items
    BY DEF FlagsOK, Items, MaxRetries
  <2>2. retry => again \in Seq(Items)
    BY <2>1 DEF QueuesOK
  <2>3. next \in Seq(Items)
    BY <2>2 DEF QueuesOK
  <2> HIDE DEF next
  <2> QED BY <1>1, <2>3, StartNextTransferType DEF SessionOK
<1>2. CASE /\ queue' = <<>> /\ transferActive' = FALSE /\ transferPaused' = FALSE
           /\ UNCHANGED <<activeTransfer, dirDownload, dirCancelled, browser>>
  <2>1. QueuesOK'
    BY <1>2, EmptySequences DEF QueuesOK
  <2>2. FlagsOK' /\ transferPaused' \in BOOLEAN
    BY <1>2 DEF FlagsOK
  <2> QED BY <2>1, <2>2
<1> QED BY <1>1, <1>2 DEF FinishTransferQueue

LEMMA StopParallelTransfersType ==
  ASSUME TypeOK, StopParallelTransfers
  PROVE  /\ queue' \in Seq(Items) /\ WorkersOK' /\ conflict' \in [1..MaxBatches -> Conflicts]
         /\ transferActive' = FALSE /\ dirDownload' = FALSE /\ dirCancelled' = FALSE
<1>1. conflict' \in [1..MaxBatches -> Conflicts]
  BY DEF TypeOK, ConflictsOK, StopParallelTransfers, Conflicts
<1>2. workers' \in [Workers -> WorkerStates]
  BY CancelWorkersType DEF TypeOK, WorkersOK, StopParallelTransfers
<1> QED BY <1>1, <1>2 DEF StopParallelTransfers, WorkersOK

LEMMA StopSessionType ==
  ASSUME TypeOK, StopSession, BrowserOK'
  PROVE  TypeOK'
<1>1. QueuesOK'
  BY StopParallelTransfersType DEF StopSession, QueuesOK
<1>2. FlagsOK' /\ WorkersOK'
  BY StopParallelTransfersType DEF TypeOK, StopSession, FlagsOK
<1>3. SessionOK'
  <2>1. 0 \in 0..MaxConnections
    BY BoundsAssumption
  <2>2. connected' = FALSE /\ conn' = 0 /\ transferPaused' = FALSE /\ opened' = opened
    BY DEF StopSession
  <2> QED BY <2>1, <2>2 DEF TypeOK, SessionOK
<1>4. ConflictsOK'
  BY StopParallelTransfersType DEF TypeOK, StopSession, ConflictsOK
<1>5. FilesOK' /\ HistoryOK'
  BY DEF TypeOK, StopSession, FilesOK, HistoryOK, history
<1> QED BY <1>1, <1>2, <1>3, <1>4, <1>5 DEF TypeOK

(* What the user does.                                                        *)
LEMMA NewItemsType ==
  ASSUME NEW s \in Seq(Requests)
  PROVE  /\ [i \in 1..Len(s) |-> NewItem(s[i])] \in Seq(Items)
         /\ {s[i] : i \in 1..Len(s)} \subseteq Requests
<1>1. \A r \in Requests : NewItem(r) \in Items
  BY DEF NewItem, Items, MaxRetries
<1> QED BY <1>1

LEMMA EnqueueType ==
  ASSUME TypeOK, NEW selection \in Selections, Enqueue(selection)
  PROVE  TypeOK'
<1>1. selection \in Seq(Requests)
  BY RequestsAssumption
<1> DEFINE q == queue \o [i \in 1..Len(selection) |-> NewItem(selection[i])]
<1>2. q \in Seq(Items)
  BY <1>1, NewItemsType DEF TypeOK, QueuesOK
<1>3. batch' \in 1..MaxBatches
  BY BoundsAssumption DEF Enqueue, TypeOK, ConflictsOK
<1>4. StartParallelTransfers(q, active, workers)
  BY DEF Enqueue
<1>5. LoopOK'
  <2> HIDE DEF q
  <2> QED BY <1>2, <1>3, <1>4, StartParallelTransfersType DEF TypeOK, LoopOK, WorkersOK
<1>6. ConflictsOK'
  <2>1. batch' \in 0..MaxBatches
    BY <1>3, BoundsAssumption
  <2>2. connBatch' \in {batch', connBatch} /\ UNCHANGED <<conflict, policy>>
    BY DEF Enqueue
  <2> QED BY <1>3, <2>1, <2>2 DEF TypeOK, ConflictsOK
<1>7. HistoryOK'
  BY <1>1, NewItemsType DEF Enqueue, TypeOK, HistoryOK
<1>8. SessionOK' /\ BrowserOK' /\ FilesOK'
  BY DEF Enqueue, TypeOK, SessionOK, BrowserOK, FilesOK
<1> QED BY <1>5, <1>6, <1>7, <1>8 DEF TypeOK, LoopOK

LEMMA CancelTransfersType ==
  ASSUME TypeOK, CancelTransfers
  PROVE  TypeOK'
<1>1. workers' \in [Workers -> WorkerStates]
  BY CancelWorkersType DEF CancelTransfers, TypeOK, WorkersOK
<1>2. dirCancelled' \in BOOLEAN
  BY DEF CancelTransfers, TypeOK, FlagsOK
<1>3. conflict' \in [1..MaxBatches -> Conflicts]
  BY DEF CancelTransfers, TypeOK, ConflictsOK, Conflicts
<1>4. QueuesOK'
  BY EmptySequences DEF CancelTransfers, TypeOK, QueuesOK
<1>5. FlagsOK' /\ WorkersOK' /\ ConflictsOK'
  BY <1>1, <1>2, <1>3 DEF CancelTransfers, TypeOK, FlagsOK, WorkersOK, ConflictsOK
<1>6. SessionOK' /\ BrowserOK' /\ FilesOK' /\ HistoryOK'
  BY DEF CancelTransfers, TypeOK, SessionOK, BrowserOK, FilesOK, HistoryOK, history
<1> QED BY <1>4, <1>5, <1>6 DEF TypeOK

LEMMA ToggleTransferPauseType ==
  ASSUME TypeOK, ToggleTransferPause
  PROVE  TypeOK'
<1>1. workers' \in [Workers -> WorkerStates]
  <2>1. ASSUME NEW w \in Workers, NEW b \in BOOLEAN
        PROVE  [workers[w] EXCEPT !.pause = b] \in WorkerStates
    BY DEF TypeOK, WorkersOK, WorkerStates
  <2>2. ASSUME NEW w \in Workers
        PROVE  (IF transferPaused THEN FALSE ELSE workers[w].pause \/ ~ workers[w].cancel) \in BOOLEAN
    BY DEF TypeOK, WorkersOK, WorkerStates, SessionOK
  <2> QED BY <2>1, <2>2 DEF ToggleTransferPause, TypeOK, WorkersOK
<1>2. QueuesOK' /\ FlagsOK' /\ WorkersOK'
  BY <1>1 DEF ToggleTransferPause, TypeOK, QueuesOK, FlagsOK, WorkersOK
<1>3. SessionOK'
  BY DEF ToggleTransferPause, TypeOK, SessionOK
<1>4. ConflictsOK' /\ BrowserOK' /\ FilesOK' /\ HistoryOK'
  BY DEF ToggleTransferPause, TypeOK, ConflictsOK, BrowserOK, FilesOK, HistoryOK, history
<1> QED BY <1>2, <1>3, <1>4 DEF TypeOK

LEMMA CloseTabType ==
  ASSUME TypeOK, CloseTab
  PROVE  TypeOK'
<1>1. BrowserOK'
  BY DEF CloseTab, StopSession, TypeOK, BrowserOK
<1> QED BY <1>1, StopSessionType DEF CloseTab

LEMMA SwitchConnectionType ==
  ASSUME TypeOK, SwitchConnection
  PROVE  TypeOK'
<1>1. QueuesOK'
  <2>1. browser' \in {<<Request("connect", NoItem)>>, <<Request("list", NoItem)>>}
    BY DEF SwitchConnection
  <2>2. <<Request("connect", NoItem)>> \in Seq(BrowserRequest)
        /\ <<Request("list", NoItem)>> \in Seq(BrowserRequest)
    BY NoItemType, RequestType
  <2> QED BY <2>1, <2>2, StopParallelTransfersType DEF SwitchConnection, QueuesOK
<1>2. FlagsOK' /\ WorkersOK'
  BY StopParallelTransfersType DEF TypeOK, SwitchConnection, FlagsOK
<1>3. SessionOK'
  <2>1. opened + 1 \in 0..MaxConnections
    BY BoundsAssumption DEF SwitchConnection, TypeOK, SessionOK
  <2>2. /\ conn' = opened + 1 /\ opened' = opened + 1 /\ transferPaused' = transferPaused
        /\ connected' \in {connected, TRUE}
    BY DEF SwitchConnection
  <2> QED BY <2>1, <2>2 DEF TypeOK, SessionOK
<1>4. ConflictsOK'
  <2>1. 0 \in 0..MaxBatches
    BY BoundsAssumption
  <2> QED BY <2>1, StopParallelTransfersType DEF TypeOK, SwitchConnection, ConflictsOK
<1>5. BrowserOK' /\ FilesOK' /\ HistoryOK'
  BY DEF TypeOK, SwitchConnection, BrowserOK, FilesOK, HistoryOK, history
<1> QED BY <1>1, <1>2, <1>3, <1>4, <1>5 DEF TypeOK

LEMMA WatchedFileChangedType ==
  ASSUME TypeOK, WatchedFileChanged
  PROVE  TypeOK'
<1>1. Append(browser, Request("upload", NoItem)) \in Seq(BrowserRequest)
  BY NoItemType, RequestType DEF TypeOK, QueuesOK
<1>2. QueuesOK'
  BY <1>1 DEF TypeOK, QueuesOK, WatchedFileChanged, gui
<1>3. FlagsOK' /\ WorkersOK' /\ SessionOK' /\ ConflictsOK'
  BY DEF TypeOK, WatchedFileChanged, FlagsOK, WorkersOK, SessionOK, ConflictsOK, gui
<1>4. BrowserOK' /\ FilesOK' /\ HistoryOK'
  BY DEF TypeOK, WatchedFileChanged, BrowserOK, FilesOK, HistoryOK, history
<1> QED BY <1>2, <1>3, <1>4 DEF TypeOK

(* The worker threads.                                                        *)
LEMMA WorkerFrameType ==
  ASSUME TypeOK, workers' \in [Workers -> WorkerStates], FilesOK', ConflictsOK',
         UNCHANGED <<gui, browser, browserOpen, posted, history>>
  PROVE  TypeOK'
<1>1. QueuesOK' /\ FlagsOK' /\ WorkersOK'
  BY DEF TypeOK, QueuesOK, FlagsOK, WorkersOK, gui
<1>2. SessionOK' /\ BrowserOK' /\ HistoryOK'
  BY DEF TypeOK, SessionOK, BrowserOK, HistoryOK, gui, history
<1> QED BY <1>1, <1>2 DEF TypeOK

LEMMA FinishType ==
  ASSUME WorkersOK, NEW w \in Workers, NEW result \in Results, Finish(w, result)
  PROVE  workers' \in [Workers -> WorkerStates]
  BY DEF WorkersOK, WorkerStates, Phases, Finish

LEMMA MovesType ==
  ASSUME WorkersOK, NEW w \in Workers, NEW phase \in Phases, Moves(w, phase)
  PROVE  workers' \in [Workers -> WorkerStates]
  BY DEF WorkersOK, WorkerStates, Moves

LEMMA ResolvedType ==
  ASSUME WorkersOK, NEW w \in Workers, NEW choice \in Choices, Resolved(w, choice)
  PROVE  workers' \in [Workers -> WorkerStates]
<1>1. CASE choice = "overwrite"
  BY <1>1 DEF Resolved, WorkersOK, WorkerStates, Phases
<1>2. CASE choice = "skip"
  BY <1>2, FinishType DEF Resolved, Results
<1>3. CASE choice = "cancel"
  BY <1>3, FinishType DEF Resolved, Results
<1> QED BY <1>1, <1>2, <1>3 DEF Choices

LEMMA FileUpdateType ==
  ASSUME FilesOK, NEW d, NEW s \in {"partial", "complete"}, files' = [files EXCEPT ![d] = s]
  PROVE  FilesOK'
  BY DEF FilesOK

LEMMA WorkerStepType ==
  ASSUME TypeOK, NEW w \in Workers, WorkerStep(w)
  PROVE  TypeOK'
<1> USE DEF TypeOK
<1>1. CASE Connect(w)
  <2>1. workers' \in [Workers -> WorkerStates]
    BY <1>1, FinishType, MovesType DEF Connect, Results, Phases
  <2> QED BY <1>1, <2>1, WorkerFrameType DEF Connect, FilesOK, ConflictsOK, gui
<1>2. CASE BeginUpload(w)
  <2>1. [workers[w] EXCEPT !.phase = "checking", !.cancel = FALSE, !.pause = FALSE] \in WorkerStates
    BY DEF WorkersOK, WorkerStates, Phases
  <2>2. workers' \in [Workers -> WorkerStates]
    BY <1>2, <2>1 DEF BeginUpload, WorkersOK
  <2> QED BY <1>2, <2>2, WorkerFrameType DEF BeginUpload, FilesOK, ConflictsOK, gui
<1>3. CASE CheckDestination(w)
  <2>1. workers' \in [Workers -> WorkerStates]
    BY <1>3, FinishType, MovesType DEF CheckDestination, Results, Phases
  <2> QED BY <1>3, <2>1, WorkerFrameType DEF CheckDestination, FilesOK, ConflictsOK, gui
<1>4. CASE LockConflict(w)
  <2>1. workers' \in [Workers -> WorkerStates]
    BY <1>4, MovesType DEF LockConflict, Phases
  <2> QED BY <1>4, <2>1, WorkerFrameType DEF LockConflict, FilesOK, ConflictsOK, gui
<1>5. CASE OpenDestination(w)
  <2>1. workers' \in [Workers -> WorkerStates]
    <3>1. CASE Finish(w, "failed")
      BY <3>1, FinishType DEF Results
    <3> DEFINE next == [workers[w] EXCEPT !.phase = "copying",
                                          !.cancel = workers[w].cancel /\ Uploads(w),
                                          !.pause = workers[w].pause /\ Uploads(w)]
    <3>2. next \in WorkerStates
      <4>1. (workers[w].cancel /\ Uploads(w)) \in BOOLEAN /\ (workers[w].pause /\ Uploads(w)) \in BOOLEAN
        OBVIOUS
      <4> QED BY <4>1 DEF WorkersOK, WorkerStates, Phases
    <3>3. CASE workers' = [workers EXCEPT ![w] = next]
      <4> HIDE DEF next
      <4> QED BY <3>2, <3>3 DEF WorkersOK
    <3> QED BY <1>5, <3>1, <3>3 DEF OpenDestination
  <2>2. FilesOK'
    BY <1>5, FileUpdateType DEF OpenDestination, FilesOK
  <2> QED BY <1>5, <2>1, <2>2, WorkerFrameType DEF OpenDestination, ConflictsOK, gui
<1>6. CASE Copy(w)
  <2>1. workers' \in [Workers -> WorkerStates]
    BY <1>6, FinishType DEF Copy, Results
  <2>2. FilesOK'
    BY <1>6, FileUpdateType DEF Copy, FilesOK
  <2> QED BY <1>6, <2>1, <2>2, WorkerFrameType DEF Copy, ConflictsOK, gui
<1> QED BY <1>1, <1>2, <1>3, <1>4, <1>5, <1>6 DEF WorkerStep

LEMMA PromptType ==
  ASSUME TypeOK, NEW w \in Workers, Prompt(w)
  PROVE  TypeOK'
<1> DEFINE choice == Unprompted(conflict[workers[w].batch], policy)
<1>1. CASE choice = "ask" /\ Moves(w, "dialog")
  <2>1. workers' \in [Workers -> WorkerStates]
    BY <1>1, MovesType DEF TypeOK, Phases
  <2> QED BY <2>1, WorkerFrameType DEF Prompt, TypeOK, FilesOK, ConflictsOK, gui
<1>2. CASE choice # "ask" /\ Resolved(w, choice)
  <2>1. choice \in Choices
    <3>1. conflict[workers[w].batch] \in Conflicts /\ policy \in Decisions
      BY DEF TypeOK, ConflictsOK, WorkersOK, WorkerStates
    <3> QED BY <1>2, <3>1 DEF Unprompted, Conflicts, Decisions, Choices
  <2>2. workers' \in [Workers -> WorkerStates]
    BY <1>2, <2>1, ResolvedType DEF TypeOK
  <2> QED BY <2>2, WorkerFrameType DEF Prompt, TypeOK, FilesOK, ConflictsOK, gui
<1> QED BY <1>1, <1>2 DEF Prompt

LEMMA AnswerConflictType ==
  ASSUME TypeOK, NEW w \in Workers, NEW choice \in Choices, NEW all \in BOOLEAN,
         NEW always \in BOOLEAN, AnswerConflict(w, choice, all, always)
  PROVE  TypeOK'
<1>1. workers' \in [Workers -> WorkerStates]
  BY ResolvedType DEF AnswerConflict, TypeOK
<1>2. conflict' \in [1..MaxBatches -> Conflicts]
  <2>1. \A c \in Conflicts : AfterAnswer(c, choice, all) \in Conflicts
    BY DEF AfterAnswer, Conflicts, Decisions, Choices
  <2> QED BY <2>1 DEF AnswerConflict, TypeOK, ConflictsOK
<1>3. policy' \in Decisions
  BY DEF AnswerConflict, PolicyAfter, TypeOK, ConflictsOK, Decisions, Choices
<1>4. ConflictsOK'
  BY <1>2, <1>3 DEF AnswerConflict, TypeOK, ConflictsOK, gui
<1> QED BY <1>1, <1>4, WorkerFrameType DEF AnswerConflict, TypeOK, FilesOK

LEMMA FinishParallelTransferType ==
  ASSUME TypeOK, NEW w \in Workers, FinishParallelTransfer(w)
  PROVE  TypeOK'
<1> DEFINE item   == workers[w].item
           q      == IF WindsUp(w) THEN <<>> ELSE queue
           ended  == IF WindsUp(w) THEN CancelWorkers(active \ {w}, workers) ELSE workers
           others == [ended EXCEPT ![w] = NoWorker]
           again  == IF Requeues(w) THEN <<[item EXCEPT !.attempts = @ + 1]>> \o q ELSE q
<1>1. q \in Seq(Items)
  BY EmptySequences DEF TypeOK, QueuesOK
<1>2. others \in [Workers -> WorkerStates]
  <2>1. ended \in [Workers -> WorkerStates]
    BY CancelWorkersType DEF TypeOK, WorkersOK
  <2> HIDE DEF ended
  <2> QED BY <2>1, NoItemType
<1>3. item \in Items
  BY DEF TypeOK, WorkersOK, WorkerStates
<1>4. again \in Seq(Items)
  <2>1. Requeues(w) => [item EXCEPT !.attempts = @ + 1] \in Items
    BY <1>3 DEF Requeues, Items, MaxRetries
  <2> HIDE DEF q, item
  <2> QED BY <1>1, <2>1
<1>5. ConflictsOK'
  BY DEF FinishParallelTransfer, TypeOK, ConflictsOK
<1>6. SessionOK' /\ BrowserOK' /\ FilesOK'
  BY DEF FinishParallelTransfer, TypeOK, SessionOK, BrowserOK, FilesOK
<1>7. CASE /\ queue' = q /\ workers' = others
           /\ UNCHANGED <<transferActive, activeTransfer, dirDownload, dirCancelled, active,
                          browser, finished>>
  <2>1. QueuesOK' /\ WorkersOK'
    BY <1>1, <1>2, <1>7 DEF TypeOK, QueuesOK, WorkersOK
  <2>2. FlagsOK'
    BY <1>7 DEF TypeOK, FlagsOK
  <2>3. HistoryOK'
    BY <1>7 DEF TypeOK, HistoryOK, FinishParallelTransfer
  <2> QED BY <1>5, <1>6, <2>1, <2>2, <2>3 DEF TypeOK
<1>8. CASE /\ finished' = finished \cup (IF workers[w].result = "ok" THEN {item.req} ELSE {})
           /\ StartParallelTransfers(again, active \ {w}, others)
  <2>1. active \ {w} \in SUBSET Workers
    BY DEF TypeOK, WorkersOK
  <2>2. batch' \in 1..MaxBatches
    BY <1>5 DEF ConflictsOK
  <2>3. LoopOK'
    <3> HIDE DEF again, others
    <3> QED BY <1>2, <1>4, <1>8, <2>1, <2>2, StartParallelTransfersType DEF TypeOK, LoopOK
  <2>4. HistoryOK'
    BY <1>3, <1>8 DEF TypeOK, HistoryOK, FinishParallelTransfer, Items
  <2> QED BY <1>5, <1>6, <2>3, <2>4 DEF TypeOK, LoopOK
<1> QED BY <1>7, <1>8 DEF FinishParallelTransfer

(* The browser connection and its signals.                                    *)
LEMMA BrowserOpensType ==
  ASSUME TypeOK, BrowserOpens
  PROVE  TypeOK'
<1>1. QueuesOK' /\ FlagsOK' /\ WorkersOK' /\ SessionOK'
  BY DEF BrowserOpens, TypeOK, QueuesOK, FlagsOK, WorkersOK, SessionOK, gui
<1>2. ConflictsOK' /\ BrowserOK' /\ FilesOK' /\ HistoryOK'
  BY DEF BrowserOpens, TypeOK, ConflictsOK, BrowserOK, FilesOK, HistoryOK, gui, history
<1> QED BY <1>1, <1>2 DEF TypeOK

LEMMA SignalsType ==
  ASSUME TypeOK, NEW request \in BrowserRequest, NEW signal \in Signals(request)
  PROVE  signal \in Signal
<1>1. ASSUME NEW kind \in {"success", "failure", "dirListed", "operation"},
             NEW item \in Items, NEW result \in Results
      PROVE  Reply(kind, item, result) \in Signal
  BY DEF Reply, Signal, TypeOK, SessionOK
<1>2. PICK kind \in {"success", "failure", "dirListed", "operation"},
           item \in {NoItem, request.item}, result \in Results :
        signal = Reply(kind, item, result)
  BY DEF Signals, BrowserRequest, Results
<1>3. item \in Items
  BY NoItemType DEF BrowserRequest
<1> QED BY <1>1, <1>2, <1>3

LEMMA BrowserServesType ==
  ASSUME TypeOK, BrowserServes
  PROVE  TypeOK'
<1>1. browser # <<>> /\ browser' = Tail(browser) /\ browserOpen' = FALSE
  BY DEF BrowserServes
<1>2. QueuesOK'
  BY <1>1 DEF BrowserServes, TypeOK, QueuesOK, gui
<1>3. Head(browser) \in BrowserRequest
  BY <1>1 DEF TypeOK, QueuesOK
<1>4. posted' \in Seq(Signal)
  BY <1>3, SignalsType DEF BrowserServes, TypeOK, BrowserOK
<1>5. conflict' \in [1..MaxBatches -> Conflicts]
  BY DEF BrowserServes, TypeOK, ConflictsOK, Conflicts
<1>6. BrowserOK' /\ ConflictsOK'
  BY <1>1, <1>4, <1>5 DEF BrowserServes, TypeOK, BrowserOK, ConflictsOK, gui
<1>7. FlagsOK' /\ WorkersOK' /\ SessionOK' /\ FilesOK' /\ HistoryOK'
  BY DEF BrowserServes, TypeOK, FlagsOK, WorkersOK, SessionOK, FilesOK, HistoryOK, gui, history
<1> QED BY <1>2, <1>6, <1>7 DEF TypeOK

LEMMA ConnectionSuccessType ==
  ASSUME TypeOK, ConnectionSuccess
  PROVE  TypeOK'
<1>1. Append(browser, Request("list", NoItem)) \in Seq(BrowserRequest)
  BY NoItemType, RequestType DEF TypeOK, QueuesOK
<1>2. QueuesOK' /\ BrowserOK'
  <2>1. posted' \in Seq(Signal)
    BY DEF ConnectionSuccess, TypeOK, BrowserOK
  <2>2. /\ browser' \in {browser, Append(browser, Request("list", NoItem))}
        /\ queue' = queue /\ browserOpen' = browserOpen
    BY DEF ConnectionSuccess
  <2> QED BY <1>1, <2>1, <2>2 DEF TypeOK, QueuesOK, BrowserOK
<1>3. SessionOK'
  <2>1. connected' \in {connected, TRUE} /\ UNCHANGED <<conn, opened, transferPaused>>
    BY DEF ConnectionSuccess
  <2> QED BY <2>1 DEF TypeOK, SessionOK
<1>4. FlagsOK' /\ WorkersOK'
  BY DEF ConnectionSuccess, TypeOK, FlagsOK, WorkersOK
<1>5. ConflictsOK' /\ FilesOK' /\ HistoryOK'
  BY DEF ConnectionSuccess, TypeOK, ConflictsOK, FilesOK, HistoryOK, history
<1> QED BY <1>2, <1>3, <1>4, <1>5 DEF TypeOK

LEMMA ConnectionFailedType ==
  ASSUME TypeOK, ConnectionFailed
  PROVE  TypeOK'
<1>1. BrowserOK'
  <2>1. posted' \in Seq(Signal)
    BY DEF ConnectionFailed, TypeOK, BrowserOK
  <2>2. browserOpen' \in {browserOpen, FALSE}
    BY DEF ConnectionFailed, StopSession
  <2> QED BY <2>1, <2>2 DEF TypeOK, BrowserOK
<1>2. CASE StopSession
  BY <1>1, <1>2, StopSessionType
<1>3. CASE UNCHANGED <<gui, conflict, policy, workers, browser, browserOpen, files, history>>
  <2>1. QueuesOK' /\ FlagsOK' /\ WorkersOK' /\ SessionOK'
    BY <1>3 DEF TypeOK, QueuesOK, FlagsOK, WorkersOK, SessionOK, gui
  <2>2. ConflictsOK' /\ FilesOK' /\ HistoryOK'
    BY <1>3 DEF TypeOK, ConflictsOK, FilesOK, HistoryOK, gui, history
  <2> QED BY <1>1, <2>1, <2>2 DEF TypeOK
<1> QED BY <1>2, <1>3 DEF ConnectionFailed

(* The folder being listed is one the user asked for.                         *)
LEMMA DirectoryListedType ==
  ASSUME TypeOK, DirectoryListed
  PROVE  TypeOK'
<1> DEFINE mine == Head(posted).conn = conn /\ dirDownload /\ Head(posted).item = activeTransfer
           entries == IF dirCancelled THEN <<>> ELSE Listing(activeTransfer.req)
           q == queue \o [i \in 1..Len(entries) |-> NewItem(entries[i])]
<1>1. SessionOK' /\ ConflictsOK' /\ BrowserOK' /\ FilesOK'
  BY DEF DirectoryListed, TypeOK, SessionOK, ConflictsOK, BrowserOK, FilesOK
<1>2. CASE /\ mine
           /\ asked' = asked \cup {entries[i] : i \in 1..Len(entries)}
           /\ finished' = IF dirCancelled THEN finished ELSE finished \cup {activeTransfer.req}
           /\ StartLoop(q, active, workers)
  <2>1. activeTransfer.req \in Requests
    <3>1. activeTransfer.req \in Requests \cup {NoRequest}
      BY DEF TypeOK, FlagsOK, Items
    <3>2. activeTransfer.req.kind = "dirDown"
      BY <1>2 DEF TypeOK, FlagsOK
    <3>3. NoRequest.kind = "down"
      BY DEF NoRequest
    <3> QED BY <3>1, <3>2, <3>3
  <2>2. entries \in Seq(Requests)
    BY <2>1, RequestsAssumption
  <2>3. q \in Seq(Items)
    <3> HIDE DEF entries
    <3> QED BY <2>2, NewItemsType DEF TypeOK, QueuesOK
  <2>4. batch' \in 1..MaxBatches
    BY <1>1 DEF ConflictsOK
  <2>5. LoopOK'
    <3> HIDE DEF q
    <3> QED BY <1>2, <2>3, <2>4, StartLoopType DEF TypeOK, LoopOK, WorkersOK
  <2>6. HistoryOK'
    <3> HIDE DEF entries
    <3> QED BY <1>2, <2>1, <2>2, NewItemsType DEF TypeOK, HistoryOK
  <2> QED BY <1>1, <2>5, <2>6 DEF TypeOK, LoopOK
<1>3. CASE EndDirectoryDownload /\ UNCHANGED <<workers, active, activeTransfer, browser, history>>
  <2>1. QueuesOK'
    BY <1>3, EmptySequences DEF EndDirectoryDownload, TypeOK, QueuesOK
  <2>2. FlagsOK' /\ WorkersOK' /\ HistoryOK'
    BY <1>3 DEF EndDirectoryDownload, TypeOK, FlagsOK, WorkersOK, HistoryOK, history
  <2> QED BY <1>1, <2>1, <2>2 DEF TypeOK
<1>4. CASE UNCHANGED <<queue, transferActive, activeTransfer, dirDownload, dirCancelled, active,
                       workers, browser, history>>
  BY <1>1, <1>4 DEF TypeOK, QueuesOK, FlagsOK, WorkersOK, HistoryOK, history
<1> QED BY <1>2, <1>3, <1>4 DEF DirectoryListed

LEMMA OperationFinishedType ==
  ASSUME TypeOK, OperationFinished
  PROVE  TypeOK'
<1> DEFINE result == Head(posted).result
<1>1. WorkersOK' /\ ConflictsOK' /\ FilesOK' /\ HistoryOK'
  BY DEF OperationFinished, TypeOK, WorkersOK, ConflictsOK, FilesOK, HistoryOK, history
<1>2. BrowserOK' /\ UNCHANGED <<connected, conn, opened>>
  BY DEF OperationFinished, TypeOK, BrowserOK
<1>3. CASE /\ UNCHANGED <<queue, transferActive>> /\ dirDownload' = FALSE /\ dirCancelled' = FALSE
           /\ UNCHANGED <<transferPaused, activeTransfer, browser>>
  BY <1>1, <1>2, <1>3 DEF TypeOK, QueuesOK, FlagsOK, SessionOK
<1>4. CASE EndDirectoryDownload /\ UNCHANGED <<transferPaused, activeTransfer, browser>>
  <2>1. QueuesOK'
    BY <1>4, EmptySequences DEF EndDirectoryDownload, TypeOK, QueuesOK
  <2>2. FlagsOK' /\ SessionOK'
    BY <1>2, <1>4 DEF EndDirectoryDownload, TypeOK, FlagsOK, SessionOK
  <2> QED BY <1>1, <1>2, <2>1, <2>2 DEF TypeOK
<1>5. CASE ~ dirDownload /\ FinishTransferQueue(result)
  <2>1. QueuesOK' /\ FlagsOK' /\ transferPaused' \in BOOLEAN
    BY <1>5, FinishTransferQueueType DEF TypeOK
  <2> QED BY <1>1, <1>2, <2>1 DEF TypeOK, SessionOK
<1>6. CASE /\ browser' \in {browser, Append(browser, Request("list", NoItem))}
           /\ UNCHANGED <<queue, transferActive, transferPaused, activeTransfer, dirDownload,
                          dirCancelled>>
  <2>1. Append(browser, Request("list", NoItem)) \in Seq(BrowserRequest)
    BY NoItemType, RequestType DEF TypeOK, QueuesOK
  <2>2. QueuesOK' /\ FlagsOK' /\ SessionOK'
    BY <1>2, <1>6, <2>1 DEF TypeOK, QueuesOK, FlagsOK, SessionOK
  <2> QED BY <1>1, <1>2, <2>2 DEF TypeOK
<1> QED BY <1>3, <1>4, <1>5, <1>6 DEF OperationFinished

LEMMA InitType ==
  ASSUME Init
  PROVE  TypeOK
<1>1. QueuesOK /\ BrowserOK
  BY EmptySequences DEF Init, QueuesOK, BrowserOK
<1>2. FlagsOK /\ WorkersOK
  BY NoItemType DEF Init, FlagsOK, WorkersOK
<1>3. SessionOK
  <2>1. 0 \in 0..MaxConnections
    BY BoundsAssumption
  <2>2. connected = FALSE /\ conn = 0 /\ opened = 0 /\ transferPaused = FALSE
    BY DEF Init
  <2> QED BY <2>1, <2>2 DEF SessionOK
<1>4. ConflictsOK
  <2>1. 0 \in 0..MaxBatches /\ 1 \in 1..MaxBatches
    BY BoundsAssumption
  <2>2. FreshConflict \in Conflicts
    BY DEF FreshConflict, Conflicts, Decisions
  <2> QED BY <2>1, <2>2, ControlsAssumption DEF Init, ConflictsOK
<1>5. FilesOK /\ HistoryOK
  BY DEF Init, FilesOK, HistoryOK
<1> QED BY <1>1, <1>2, <1>3, <1>4, <1>5 DEF TypeOK

LEMMA NextType ==
  ASSUME TypeOK, [Next]_vars
  PROVE  TypeOK'
<1>1. CASE User
  BY <1>1, EnqueueType, CancelTransfersType, ToggleTransferPauseType, CloseTabType,
     SwitchConnectionType, WatchedFileChangedType DEF User
<1>2. CASE BrowserOpens \/ BrowserServes
  BY <1>2, BrowserOpensType, BrowserServesType
<1>3. CASE Delivery
  BY <1>3, ConnectionSuccessType, ConnectionFailedType, DirectoryListedType,
     OperationFinishedType DEF Delivery
<1>4. ASSUME NEW w \in Workers, WorkerStep(w) \/ Prompt(w) \/ Answer(w) \/ FinishParallelTransfer(w)
      PROVE  TypeOK'
  BY <1>4, WorkerStepType, PromptType, AnswerConflictType, FinishParallelTransferType DEF Answer
<1>5. CASE UNCHANGED vars
  <2>1. QueuesOK' /\ FlagsOK' /\ WorkersOK' /\ SessionOK'
    BY <1>5 DEF TypeOK, QueuesOK, FlagsOK, WorkersOK, SessionOK, vars, gui
  <2>2. ConflictsOK' /\ BrowserOK' /\ FilesOK' /\ HistoryOK'
    BY <1>5 DEF TypeOK, ConflictsOK, BrowserOK, FilesOK, HistoryOK, vars, gui, history
  <2> QED BY <2>1, <2>2 DEF TypeOK
<1> QED BY <1>1, <1>2, <1>3, <1>4, <1>5 DEF Next

(* Every variable keeps its type in every behaviour; in particular a folder   *)
(* listing is only ever awaited for a folder.                                 *)
THEOREM TypeCorrect == Spec => []TypeOK
  BY InitType, NextType, PTL DEF Spec

-----------------------------------------------------------------------------
(* Safety.  One inductive invariant carries three properties of the runs:     *)
(* busy files exclude each other, every worker asks the conflict object of    *)
(* its batch, and one dialog is open at most.  The limit on the number of     *)
(* workers has an invariant of its own.                                       *)
Asking(s) == s.phase \in {"posted", "dialog"}

(* What the start loop relies on and re-establishes, of the running workers   *)
(* act, the threads w, the current batch b and the conflict objects c.  The   *)
(* one who holds a batch's mutex is alone with its conflict object, and a     *)
(* dialog belongs to the current batch: an older batch is cancelled, and a    *)
(* cancelled batch answers without one.                                       *)
Consistent(act, w, b, c) ==
  /\ \A u, v \in act : BusyKey(w[u].item.req) = BusyKey(w[v].item.req) => u = v
  /\ \A v \in act : w[v].phase # "none" /\ w[v].batch = b
  /\ \A v \in Workers \ act : w[v].phase # "none" => c[w[v].batch].cancelled
  /\ \A u, v \in Workers : Asking(w[u]) /\ Asking(w[v]) /\ w[u].batch = w[v].batch => u = v
  /\ \A v \in Workers : w[v].phase = "dialog" => w[v].batch = b

SafetyInv == Consistent(active, workers, batch, conflict)

(* A step of a thread that neither appears, ends, changes hands nor starts to *)
(* ask keeps everything consistent; conflicts may only become cancelled.      *)
LEMMA ConsistentSteps ==
  ASSUME NEW act \in SUBSET Workers, NEW w, NEW w2, NEW b, NEW c, NEW c2,
         Consistent(act, w, b, c),
         \A v \in Workers :
           /\ w2[v].item = w[v].item /\ w2[v].batch = w[v].batch
           /\ w2[v].phase = "none" <=> w[v].phase = "none"
           /\ Asking(w2[v]) => Asking(w[v])
           /\ w2[v].phase = "dialog" => w[v].phase = "dialog",
         \A v \in Workers : c[w[v].batch].cancelled => c2[w[v].batch].cancelled
  PROVE  Consistent(act, w2, b, c2)
  BY DEF Consistent

LEMMA ConsistentInit ==
  ASSUME Init
  PROVE  SafetyInv
  BY DEF Init, SafetyInv, Consistent, Asking, NoWorker

LEMMA CancelKeeps ==
  ASSUME NEW W, NEW w \in [Workers -> WorkerStates], NEW v \in Workers
  PROVE  /\ CancelWorkers(W, w)[v].item = w[v].item
         /\ CancelWorkers(W, w)[v].batch = w[v].batch
         /\ CancelWorkers(W, w)[v].phase = w[v].phase
  BY DEF CancelWorkers, WorkerStates

(* The start loop: the new workers carry files that are not busy, of the      *)
(* current batch, and have asked nothing yet.                                 *)
LEMMA LaunchedKeeps ==
  ASSUME NEW item, NEW b
  PROVE  /\ Launched(item, b).item = item /\ Launched(item, b).batch = b
         /\ Launched(item, b).phase = "connecting"
  BY DEF Launched, NoWorker

LEMMA StartLoopConsistent ==
  ASSUME NEW q \in Seq(Items), NEW act \in SUBSET Workers, NEW w \in [Workers -> WorkerStates],
         Consistent(act, w, batch', conflict'), StartLoop(q, act, w)
  PROVE  SafetyInv'
<1>1. PICK n \in 0..Len(q) :
        /\ CanLaunch(q, act, w, n)
        /\ \E fresh \in SUBSET {v \in Workers : w[v].phase = "none"} :
           \E place \in [fresh -> 1..n] :
             /\ \A u, v \in fresh : place[u] = place[v] => u = v
             /\ active' = act \cup fresh
             /\ workers' = [v \in Workers |-> IF v \in fresh THEN Launched(q[place[v]], batch') ELSE w[v]]
  BY DEF StartLoop
<1>2. PICK fresh \in SUBSET {v \in Workers : w[v].phase = "none"} :
       \E place \in [fresh -> 1..n] :
         /\ \A u, v \in fresh : place[u] = place[v] => u = v
         /\ active' = act \cup fresh
         /\ workers' = [v \in Workers |-> IF v \in fresh THEN Launched(q[place[v]], batch') ELSE w[v]]
  BY <1>1
<1>3. PICK place \in [fresh -> 1..n] :
        /\ \A u, v \in fresh : place[u] = place[v] => u = v
        /\ active' = act \cup fresh
        /\ workers' = [v \in Workers |-> IF v \in fresh THEN Launched(q[place[v]], batch') ELSE w[v]]
  BY <1>2
<1>4. \A v \in fresh :
        /\ v \in Workers /\ v \notin act
        /\ workers'[v].item = q[place[v]] /\ workers'[v].batch = batch'
        /\ workers'[v].phase = "connecting"
  BY <1>3, LaunchedKeeps DEF Consistent
<1>5. \A v \in Workers \ fresh : workers'[v] = w[v]
  BY <1>3
<1>6. ASSUME NEW u \in active', NEW v \in active',
             BusyKey(workers'[u].item.req) = BusyKey(workers'[v].item.req)
      PROVE  u = v
  <2>1. CASE u \in act /\ v \in act
    BY <1>4, <1>5, <1>6, <2>1 DEF Consistent
  <2>2. ASSUME NEW x \in act, NEW y \in fresh
        PROVE  BusyKey(workers'[x].item.req) # BusyKey(workers'[y].item.req)
    <3>1. workers'[x] = w[x] /\ workers'[y].item = q[place[y]] /\ place[y] \in 1..n
      BY <1>3, <1>4, <1>5
    <3> QED BY <1>1, <3>1 DEF CanLaunch
  <2>3. CASE u \in fresh /\ v \in fresh
    <3>1. /\ place[u] \in 1..n /\ place[v] \in 1..n
          /\ workers'[u].item = q[place[u]] /\ workers'[v].item = q[place[v]]
      BY <1>3, <1>4, <2>3
    <3>2. \A i \in 1..n, j \in 1..n : j < i => BusyKey(q[j].req) # BusyKey(q[i].req)
      BY <1>1 DEF CanLaunch
    <3>3. place[u] = place[v]
      BY <1>6, <3>1, <3>2
    <3> QED BY <1>3, <2>3, <3>3
  <2> QED BY <1>3, <1>6, <2>1, <2>2, <2>3
<1>7. \A v \in active' : workers'[v].phase # "none" /\ workers'[v].batch = batch'
  BY <1>3, <1>4, <1>5 DEF Consistent
<1>8. \A v \in Workers \ active' : workers'[v].phase # "none" => conflict'[workers'[v].batch].cancelled
  BY <1>3, <1>5 DEF Consistent
<1>9. \A u, v \in Workers : Asking(workers'[u]) /\ Asking(workers'[v])
        /\ workers'[u].batch = workers'[v].batch => u = v
  BY <1>4, <1>5 DEF Consistent, Asking
<1>10. \A v \in Workers : workers'[v].phase = "dialog" => workers'[v].batch = batch'
  BY <1>4, <1>5 DEF Consistent
<1> QED BY <1>6, <1>7, <1>8, <1>9, <1>10 DEF SafetyInv, Consistent

LEMMA StartParallelConsistent ==
  ASSUME NEW q \in Seq(Items), NEW act \in SUBSET Workers, NEW w \in [Workers -> WorkerStates],
         Consistent(act, w, batch', conflict'), StartParallelTransfers(q, act, w)
  PROVE  SafetyInv'
  BY StartLoopConsistent DEF StartParallelTransfers, SafetyInv

(* Cancelling can only help: conflicts stay cancelled.                        *)
LEMMA CancelledStays ==
  ASSUME TypeOK, NEW b \in 1..MaxBatches, conflict' = [conflict EXCEPT ![b].cancelled = TRUE]
  PROVE  /\ conflict'[b].cancelled
         /\ \A a \in 1..MaxBatches : conflict[a].cancelled => conflict'[a].cancelled
  BY DEF TypeOK, ConflictsOK, Conflicts

LEMMA WorkerTypes ==
  ASSUME TypeOK, NEW v \in Workers
  PROVE  workers[v] \in WorkerStates /\ workers[v].batch \in 1..MaxBatches
  BY DEF TypeOK, WorkersOK, WorkerStates

LEMMA StopParallelConsistent ==
  ASSUME TypeOK, SafetyInv, StopParallelTransfers, batch' = batch
  PROVE  SafetyInv'
<1>1. /\ conflict'[batch].cancelled
      /\ \A a \in 1..MaxBatches : conflict[a].cancelled => conflict'[a].cancelled
  BY CancelledStays DEF StopParallelTransfers, TypeOK, ConflictsOK
<1>2. \A v \in Workers : /\ workers'[v].item = workers[v].item
                         /\ workers'[v].batch = workers[v].batch
                         /\ workers'[v].phase = workers[v].phase
  BY CancelKeeps DEF StopParallelTransfers, TypeOK, WorkersOK
<1>3. active' = {}
  BY DEF StopParallelTransfers
<1>4. \A v \in Workers : workers[v].phase # "none" => conflict'[workers[v].batch].cancelled
  <2> SUFFICES ASSUME NEW v \in Workers, workers[v].phase # "none"
               PROVE  conflict'[workers[v].batch].cancelled
    OBVIOUS
  <2>1. CASE v \in active
    BY <1>1, <2>1 DEF SafetyInv, Consistent
  <2>2. CASE v \notin active
    BY <1>1, <2>2, WorkerTypes DEF SafetyInv, Consistent
  <2> QED BY <2>1, <2>2
<1> QED BY <1>2, <1>3, <1>4 DEF SafetyInv, Consistent, Asking

LEMMA EnqueueConsistent ==
  ASSUME TypeOK, SafetyInv, NEW selection \in Selections, Enqueue(selection)
  PROVE  SafetyInv'
<1> DEFINE q == queue \o [i \in 1..Len(selection) |-> NewItem(selection[i])]
<1>1. q \in Seq(Items)
  BY RequestsAssumption, NewItemsType DEF TypeOK, QueuesOK
<1>2. conflict' = conflict
  BY DEF Enqueue
<1>4. Consistent(active, workers, batch', conflict')
  <2>1. CASE batch' = batch
    BY <1>2, <2>1 DEF SafetyInv
  <2>2. CASE active = {} /\ \A v \in Workers : workers[v].phase # "dialog"
    BY <1>2, <2>2 DEF SafetyInv, Consistent
  <2> QED BY <2>1, <2>2 DEF Enqueue, HasActiveTransfers, DialogOpen
<1>5. StartParallelTransfers(q, active, workers)
  BY DEF Enqueue
<1> HIDE DEF q
<1> QED BY <1>1, <1>4, <1>5, StartParallelConsistent DEF TypeOK, WorkersOK

LEMMA UserConsistent ==
  ASSUME TypeOK, SafetyInv, User
  PROVE  SafetyInv'
<1>1. CASE \E selection \in Selections : Enqueue(selection)
  BY <1>1, EnqueueConsistent
<1>2. CASE CancelTransfers
  <2>1. \A a \in 1..MaxBatches : conflict[a].cancelled => conflict'[a].cancelled
    BY <1>2, CancelledStays DEF CancelTransfers, TypeOK, ConflictsOK
  <2>2. \A v \in Workers : /\ workers'[v].item = workers[v].item
                           /\ workers'[v].batch = workers[v].batch
                           /\ workers'[v].phase = workers[v].phase
    BY <1>2, CancelKeeps DEF CancelTransfers, TypeOK, WorkersOK
  <2>3. active' = active /\ batch' = batch
    BY <1>2 DEF CancelTransfers
  <2>4. Consistent(active, workers', batch, conflict')
    BY <2>1, <2>2, WorkerTypes, ConsistentSteps DEF SafetyInv, Asking, TypeOK, WorkersOK
  <2> QED BY <2>3, <2>4 DEF SafetyInv
<1>3. CASE ToggleTransferPause
  <2>1. \A v \in Workers : /\ workers'[v].item = workers[v].item
                           /\ workers'[v].batch = workers[v].batch
                           /\ workers'[v].phase = workers[v].phase
    BY <1>3, WorkerTypes DEF ToggleTransferPause, WorkerStates
  <2>2. active' = active /\ batch' = batch /\ conflict' = conflict
    BY <1>3 DEF ToggleTransferPause
  <2>3. Consistent(active, workers', batch, conflict)
    BY <2>1, ConsistentSteps DEF SafetyInv, Asking, TypeOK, WorkersOK
  <2> QED BY <2>2, <2>3 DEF SafetyInv
<1>4. CASE CloseTab
  BY <1>4, StopParallelConsistent DEF CloseTab, StopSession
<1>5. CASE SwitchConnection
  BY <1>5, StopParallelConsistent DEF SwitchConnection
<1>6. CASE WatchedFileChanged
  BY <1>6 DEF WatchedFileChanged, SafetyInv, gui
<1> QED BY <1>1, <1>2, <1>3, <1>4, <1>5, <1>6 DEF User

(* The steps of a thread change its phase and flags only.                     *)
LEMMA FinishKeeps ==
  ASSUME TypeOK, NEW w \in Workers, NEW result, Finish(w, result), workers[w].phase # "none"
  PROVE  \A v \in Workers :
           /\ workers'[v].item = workers[v].item /\ workers'[v].batch = workers[v].batch
           /\ workers'[v].phase = "none" <=> workers[v].phase = "none"
           /\ workers'[v].phase = IF v = w THEN "done" ELSE workers[v].phase
  BY WorkerTypes DEF Finish, TypeOK, WorkersOK, WorkerStates

LEMMA MovesKeeps ==
  ASSUME TypeOK, NEW w \in Workers, NEW phase \in Phases \ {"none"}, Moves(w, phase),
         workers[w].phase # "none"
  PROVE  \A v \in Workers :
           /\ workers'[v].item = workers[v].item /\ workers'[v].batch = workers[v].batch
           /\ workers'[v].phase = "none" <=> workers[v].phase = "none"
           /\ workers'[v].phase = IF v = w THEN phase ELSE workers[v].phase
  BY WorkerTypes DEF Moves, TypeOK, WorkersOK, WorkerStates

LEMMA ResolvedKeeps ==
  ASSUME TypeOK, NEW w \in Workers, NEW choice \in Choices, Resolved(w, choice),
         workers[w].phase # "none"
  PROVE  \A v \in Workers :
           /\ workers'[v].item = workers[v].item /\ workers'[v].batch = workers[v].batch
           /\ workers'[v].phase = "none" <=> workers[v].phase = "none"
           /\ workers'[v].phase = IF v = w THEN workers'[v].phase ELSE workers[v].phase
           /\ v = w => workers'[v].phase \in {"approved", "done"}
<1>1. CASE choice = "overwrite"
  BY <1>1, WorkerTypes DEF Resolved, TypeOK, WorkersOK, WorkerStates
<1>2. CASE choice \in {"skip", "cancel"}
  BY <1>2, FinishKeeps DEF Resolved
<1> QED BY <1>1, <1>2 DEF Choices

(* A step after which the thread w does not ask.                              *)
LEMMA QuietStep ==
  ASSUME TypeOK, SafetyInv, NEW w \in Workers, active' = active, batch' = batch,
         \A a \in 1..MaxBatches : conflict[a].cancelled => conflict'[a].cancelled,
         \A v \in Workers :
           /\ workers'[v].item = workers[v].item /\ workers'[v].batch = workers[v].batch
           /\ workers'[v].phase = "none" <=> workers[v].phase = "none"
           /\ v # w => workers'[v].phase = workers[v].phase,
         ~ Asking(workers'[w])
  PROVE  SafetyInv'
<1>1. \A v \in Workers : Asking(workers'[v]) => Asking(workers[v])
  BY DEF Asking
<1>2. \A v \in Workers : workers'[v].phase = "dialog" => workers[v].phase = "dialog"
  BY DEF Asking
<1>3. Consistent(active, workers', batch, conflict')
  BY <1>1, <1>2, WorkerTypes, ConsistentSteps DEF SafetyInv, TypeOK, WorkersOK
<1> QED BY <1>3 DEF SafetyInv

(* A step after which the thread w may ask: no other thread of its batch does. *)
LEMMA AskingStep ==
  ASSUME TypeOK, SafetyInv, NEW w \in Workers,
         active' = active, batch' = batch, conflict' = conflict,
         \A v \in Workers :
           /\ workers'[v].item = workers[v].item /\ workers'[v].batch = workers[v].batch
           /\ workers'[v].phase = "none" <=> workers[v].phase = "none"
           /\ v # w => workers'[v].phase = workers[v].phase,
         \A v \in Workers : v # w /\ workers[v].batch = workers[w].batch => ~ Asking(workers[v]),
         workers'[w].phase = "dialog" => workers[w].batch = batch
  PROVE  SafetyInv'
<1>1. \A u, v \in active' :
        BusyKey(workers'[u].item.req) = BusyKey(workers'[v].item.req) => u = v
  BY DEF SafetyInv, Consistent, TypeOK, WorkersOK
<1>2. \A v \in active' : workers'[v].phase # "none" /\ workers'[v].batch = batch'
  BY DEF SafetyInv, Consistent, TypeOK, WorkersOK
<1>3. \A v \in Workers \ active' : workers'[v].phase # "none" => conflict'[workers'[v].batch].cancelled
  BY DEF SafetyInv, Consistent
<1>4. \A u, v \in Workers : Asking(workers'[u]) /\ Asking(workers'[v])
        /\ workers'[u].batch = workers'[v].batch => u = v
  BY DEF SafetyInv, Consistent, Asking
<1>5. \A v \in Workers : workers'[v].phase = "dialog" => workers'[v].batch = batch'
  BY DEF SafetyInv, Consistent
<1> QED BY <1>1, <1>2, <1>3, <1>4, <1>5 DEF SafetyInv, Consistent

LEMMA WorkerStepConsistent ==
  ASSUME TypeOK, SafetyInv, NEW w \in Workers, WorkerStep(w)
  PROVE  SafetyInv'
<1>0. active' = active /\ batch' = batch /\ conflict' = conflict
  BY DEF WorkerStep, Connect, BeginUpload, CheckDestination, LockConflict, OpenDestination, Copy, gui
<1>1. CASE Connect(w)
  <2>1. workers[w].phase # "none"
    BY <1>1 DEF Connect
  <2>2. CASE \E result \in Results : Finish(w, result)
    BY <1>0, <2>1, <2>2, FinishKeeps, QuietStep DEF Asking
  <2>3. CASE Moves(w, "connected")
    BY <1>0, <2>1, <2>3, MovesKeeps, QuietStep DEF Asking, Phases
  <2> QED BY <1>1, <2>2, <2>3 DEF Connect, Results
<1>2. CASE BeginUpload(w)
  <2>1. \A v \in Workers :
          /\ workers'[v].item = workers[v].item /\ workers'[v].batch = workers[v].batch
          /\ workers'[v].phase = IF v = w THEN "checking" ELSE workers[v].phase
    BY <1>2, WorkerTypes DEF BeginUpload, TypeOK, WorkersOK, WorkerStates
  <2>2. workers[w].phase # "none"
    BY <1>2 DEF BeginUpload
  <2> QED BY <1>0, <2>1, <2>2, QuietStep DEF Asking
<1>3. CASE CheckDestination(w)
  <2>1. workers[w].phase # "none"
    BY <1>3 DEF CheckDestination
  <2>2. CASE Finish(w, "cancelled")
    BY <1>0, <2>1, <2>2, FinishKeeps, QuietStep DEF Asking
  <2>3. CASE Moves(w, "approved") \/ Moves(w, "locking")
    BY <1>0, <2>1, <2>3, MovesKeeps, QuietStep DEF Asking, Phases
  <2> QED BY <1>3, <2>2, <2>3 DEF CheckDestination
<1>4. CASE LockConflict(w)
  <2>1. /\ workers[w].phase = "locking" /\ Moves(w, "posted")
        /\ \A v \in Workers : workers[v].batch = workers[w].batch => ~ Asking(workers[v])
    BY <1>4 DEF LockConflict, Asking
  <2>2. \A v \in Workers :
          /\ workers'[v].item = workers[v].item /\ workers'[v].batch = workers[v].batch
          /\ workers'[v].phase = "none" <=> workers[v].phase = "none"
          /\ workers'[v].phase = IF v = w THEN "posted" ELSE workers[v].phase
    BY <2>1, MovesKeeps DEF Phases
  <2>3. workers'[w].phase # "dialog"
    BY <2>2
  <2> QED BY <1>0, <2>1, <2>2, <2>3, AskingStep
<1>5. CASE OpenDestination(w)
  <2>1. workers[w].phase # "none"
    BY <1>5 DEF OpenDestination
  <2>2. CASE Finish(w, "failed")
    BY <1>0, <2>1, <2>2, FinishKeeps, QuietStep DEF Asking
  <2>3. CASE workers' = [workers EXCEPT ![w] =
                          [@ EXCEPT !.phase = "copying",
                                    !.cancel = workers[w].cancel /\ Uploads(w),
                                    !.pause = workers[w].pause /\ Uploads(w)]]
    <3>1. \A v \in Workers :
            /\ workers'[v].item = workers[v].item /\ workers'[v].batch = workers[v].batch
            /\ workers'[v].phase = IF v = w THEN "copying" ELSE workers[v].phase
      BY <2>3, WorkerTypes DEF TypeOK, WorkersOK, WorkerStates
    <3> QED BY <1>0, <2>1, <3>1, QuietStep DEF Asking
  <2> QED BY <1>5, <2>2, <2>3 DEF OpenDestination
<1>6. CASE Copy(w)
  <2>1. workers[w].phase # "none"
    BY <1>6 DEF Copy
  <2>2. \E result \in Results : Finish(w, result)
    BY <1>6 DEF Copy, Results
  <2> QED BY <1>0, <2>1, <2>2, FinishKeeps, QuietStep DEF Asking
<1> QED BY <1>1, <1>2, <1>3, <1>4, <1>5, <1>6 DEF WorkerStep

(* Only a running worker gets as far as a dialog.                             *)
LEMMA PromptConsistent ==
  ASSUME TypeOK, SafetyInv, NEW w \in Workers, Prompt(w)
  PROVE  SafetyInv'
<1> DEFINE choice == Unprompted(conflict[workers[w].batch], policy)
<1>1. active' = active /\ batch' = batch /\ conflict' = conflict /\ workers[w].phase = "posted"
  BY DEF Prompt, gui
<1>2. conflict[workers[w].batch] \in Conflicts /\ policy \in Decisions
  BY WorkerTypes DEF TypeOK, ConflictsOK
<1>3. CASE choice = "ask" /\ Moves(w, "dialog")
  <2>1. ~ conflict[workers[w].batch].cancelled
    BY <1>3 DEF Unprompted
  <2>2. workers[w].batch = batch
    BY <1>1, <2>1 DEF SafetyInv, Consistent
  <2>3. \A v \in Workers :
          /\ workers'[v].item = workers[v].item /\ workers'[v].batch = workers[v].batch
          /\ workers'[v].phase = "none" <=> workers[v].phase = "none"
          /\ workers'[v].phase = IF v = w THEN "dialog" ELSE workers[v].phase
    BY <1>1, <1>3, MovesKeeps DEF Phases
  <2>4. \A v \in Workers : v # w /\ workers[v].batch = workers[w].batch => ~ Asking(workers[v])
    BY <1>1 DEF SafetyInv, Consistent, Asking
  <2> QED BY <1>1, <2>2, <2>3, <2>4, AskingStep
<1>4. CASE choice # "ask" /\ Resolved(w, choice)
  <2>1. choice \in Choices
    BY <1>2, <1>4 DEF Unprompted, Conflicts, Decisions, Choices
  <2> HIDE DEF choice
  <2> QED BY <1>1, <1>4, <2>1, ResolvedKeeps, QuietStep DEF Asking
<1> QED BY <1>3, <1>4 DEF Prompt

LEMMA AnswerConsistent ==
  ASSUME TypeOK, SafetyInv, NEW w \in Workers, NEW choice \in Choices, NEW all \in BOOLEAN,
         NEW always \in BOOLEAN, AnswerConflict(w, choice, all, always)
  PROVE  SafetyInv'
<1>1. /\ active' = active /\ batch' = batch /\ workers[w].phase = "dialog"
      /\ Resolved(w, choice)
  BY DEF AnswerConflict, gui
<1>2. \A a \in 1..MaxBatches : conflict[a].cancelled => conflict'[a].cancelled
  BY WorkerTypes DEF AnswerConflict, AfterAnswer, TypeOK, ConflictsOK, Conflicts
<1> QED BY <1>1, <1>2, ResolvedKeeps, QuietStep DEF Asking

LEMMA FinishParallelConsistent ==
  ASSUME TypeOK, SafetyInv, NEW w \in Workers, FinishParallelTransfer(w)
  PROVE  SafetyInv'
<1> DEFINE item   == workers[w].item
           q      == IF WindsUp(w) THEN <<>> ELSE queue
           ended  == IF WindsUp(w) THEN CancelWorkers(active \ {w}, workers) ELSE workers
           others == [ended EXCEPT ![w] = NoWorker]
           again  == IF Requeues(w) THEN <<[item EXCEPT !.attempts = @ + 1]>> \o q ELSE q
<1>1. batch' = batch /\ conflict' = conflict
  BY DEF FinishParallelTransfer
<1>2. \A v \in Workers : /\ ended[v].item = workers[v].item
                         /\ ended[v].batch = workers[v].batch
                         /\ ended[v].phase = workers[v].phase
  BY CancelKeeps DEF TypeOK, WorkersOK
<1>3. ended \in [Workers -> WorkerStates]
  BY CancelWorkersType DEF TypeOK, WorkersOK
<1>4. others \in [Workers -> WorkerStates] /\ others[w] = NoWorker
      /\ \A v \in Workers : v # w => others[v] = ended[v]
  <2> HIDE DEF ended
  <2> QED BY <1>3, NoItemType
<1>5. NoWorker.phase = "none"
  BY DEF NoWorker
<1>6. Consistent(active \ {w}, others, batch, conflict)
  <2> HIDE DEF others, ended
  <2>1. \A u, v \in active \ {w} : BusyKey(others[u].item.req) = BusyKey(others[v].item.req) => u = v
    BY <1>2, <1>4 DEF SafetyInv, Consistent, TypeOK, WorkersOK
  <2>2. \A v \in active \ {w} : others[v].phase # "none" /\ others[v].batch = batch
    BY <1>2, <1>4 DEF SafetyInv, Consistent, TypeOK, WorkersOK
  <2>3. \A v \in Workers \ (active \ {w}) : others[v].phase # "none" => conflict[others[v].batch].cancelled
    BY <1>2, <1>4, <1>5 DEF SafetyInv, Consistent
  <2>4. \A u, v \in Workers : Asking(others[u]) /\ Asking(others[v])
          /\ others[u].batch = others[v].batch => u = v
    BY <1>2, <1>4, <1>5 DEF SafetyInv, Consistent, Asking
  <2>5. \A v \in Workers : others[v].phase = "dialog" => others[v].batch = batch
    BY <1>2, <1>4, <1>5 DEF SafetyInv, Consistent
  <2> QED BY <2>1, <2>2, <2>3, <2>4, <2>5 DEF Consistent
<1>7. CASE w \notin active /\ workers' = others /\ active' = active
  <2>1. active \ {w} = active
    BY <1>7
  <2> HIDE DEF others
  <2> QED BY <1>1, <1>6, <1>7, <2>1 DEF SafetyInv
<1>8. CASE StartParallelTransfers(again, active \ {w}, others)
  <2>1. q \in Seq(Items)
    BY EmptySequences DEF TypeOK, QueuesOK
  <2>2. Requeues(w) => [item EXCEPT !.attempts = @ + 1] \in Items
    BY WorkerTypes DEF Requeues, Items, MaxRetries, WorkerStates
  <2>3. again \in Seq(Items)
    <3> HIDE DEF q, item
    <3> QED BY <2>1, <2>2
  <2>4. active \ {w} \in SUBSET Workers
    BY DEF TypeOK, WorkersOK
  <2> HIDE DEF again, others
  <2> QED BY <1>1, <1>4, <1>6, <1>8, <2>3, <2>4, StartParallelConsistent
<1> QED BY <1>7, <1>8 DEF FinishParallelTransfer

LEMMA DeliveryConsistent ==
  ASSUME TypeOK, SafetyInv, Delivery
  PROVE  SafetyInv'
<1>1. CASE ConnectionSuccess
  BY <1>1 DEF ConnectionSuccess, SafetyInv
<1>2. CASE ConnectionFailed
  <2>1. CASE StopSession
    BY <2>1, StopParallelConsistent DEF StopSession
  <2>2. CASE UNCHANGED <<gui, conflict, workers>>
    BY <2>2 DEF SafetyInv, gui
  <2> QED BY <1>2, <2>1, <2>2 DEF ConnectionFailed
<1>3. CASE DirectoryListed
  <2> DEFINE mine == Head(posted).conn = conn /\ dirDownload /\ Head(posted).item = activeTransfer
             entries == IF dirCancelled THEN <<>> ELSE Listing(activeTransfer.req)
             q == queue \o [i \in 1..Len(entries) |-> NewItem(entries[i])]
  <2>1. batch' = batch /\ conflict' = conflict
    BY <1>3 DEF DirectoryListed
  <2>2. CASE UNCHANGED <<workers, active>>
    BY <2>1, <2>2 DEF SafetyInv
  <2>3. CASE mine /\ StartLoop(q, active, workers)
    <3>1. activeTransfer.req \in Requests
      <4>1. activeTransfer.req \in Requests \cup {NoRequest}
        BY DEF TypeOK, FlagsOK, Items
      <4>2. activeTransfer.req.kind = "dirDown"
        BY <2>3 DEF TypeOK, FlagsOK
      <4>3. NoRequest.kind = "down"
        BY DEF NoRequest
      <4> QED BY <4>1, <4>2, <4>3
    <3>2. entries \in Seq(Requests)
      BY <3>1, RequestsAssumption
    <3>3. q \in Seq(Items)
      <4> HIDE DEF entries
      <4> QED BY <3>2, NewItemsType DEF TypeOK, QueuesOK
    <3> HIDE DEF q
    <3> QED BY <2>1, <2>3, <3>3, StartLoopConsistent DEF SafetyInv, TypeOK, WorkersOK
  <2> QED BY <1>3, <2>2, <2>3 DEF DirectoryListed
<1>4. CASE OperationFinished
  BY <1>4 DEF OperationFinished, SafetyInv
<1> QED BY <1>1, <1>2, <1>3, <1>4 DEF Delivery

LEMMA BrowserConsistent ==
  ASSUME TypeOK, SafetyInv, BrowserOpens \/ BrowserServes
  PROVE  SafetyInv'
<1>1. active' = active /\ batch' = batch /\ workers' = workers
  BY DEF BrowserOpens, BrowserServes, gui
<1>2. \A a \in 1..MaxBatches : conflict[a].cancelled => conflict'[a].cancelled
  BY DEF BrowserOpens, BrowserServes, TypeOK, ConflictsOK, Conflicts
<1>3. Consistent(active, workers, batch, conflict')
  BY <1>2, WorkerTypes, ConsistentSteps DEF SafetyInv, TypeOK, WorkersOK
<1> QED BY <1>1, <1>3 DEF SafetyInv

LEMMA NextConsistent ==
  ASSUME TypeOK, SafetyInv, [Next]_vars
  PROVE  SafetyInv'
<1>1. CASE UNCHANGED vars
  BY <1>1 DEF SafetyInv, vars, gui
<1>2. ASSUME NEW w \in Workers, WorkerStep(w) \/ Prompt(w) \/ Answer(w) \/ FinishParallelTransfer(w)
      PROVE  SafetyInv'
  BY <1>2, WorkerStepConsistent, PromptConsistent, AnswerConsistent, FinishParallelConsistent
     DEF Answer
<1> QED BY <1>1, <1>2, UserConsistent, BrowserConsistent, DeliveryConsistent DEF Next

THEOREM SafetyInductive == Spec => []SafetyInv
  BY ConsistentInit, NextConsistent, TypeCorrect, PTL DEF Spec

(* Two running workers of the sidebar never carry busy files with one key.    *)
THEOREM FilesExclusive == Spec => []DistinctBusyKeys
<1>1. SafetyInv => DistinctBusyKeys
  BY DEF SafetyInv, Consistent, DistinctBusyKeys
<1> QED BY <1>1, SafetyInductive, PTL

(* Every running worker asks the batch's conflict object; a forgotten one     *)
(* asks an object that is cancelled, and can no longer prompt.                *)
THEOREM ConflictShared == Spec => []OneConflictPerBatch
<1>1. SafetyInv => OneConflictPerBatch
  BY DEF SafetyInv, Consistent, OneConflictPerBatch
<1> QED BY <1>1, SafetyInductive, PTL

(* At most one conflict dialog is open, whichever workers of whichever batch  *)
(* meet existing files.                                                       *)
THEOREM DialogAlone == Spec => []OneDialog
<1>1. SafetyInv => OneDialog
  BY DEF SafetyInv, Consistent, OneDialog, Asking
<1> QED BY <1>1, SafetyInductive, PTL

-----------------------------------------------------------------------------
(* The limit.                                                                 *)
Within(act) == IsFiniteSet(act) /\ Cardinality(act) <= MaxParallel

LEMMA StartLoopWithin ==
  ASSUME NEW q, NEW act, NEW w, Within(act), StartLoop(q, act, w)
  PROVE  Within(active')
<1>1. PICK n \in 0..Len(q) :
        /\ Cardinality(act) + n <= MaxParallel
        /\ \E fresh \in SUBSET {v \in Workers : w[v].phase = "none"} :
           \E place \in [fresh -> 1..n] :
             /\ \A u, v \in fresh : place[u] = place[v] => u = v
             /\ active' = act \cup fresh
  BY DEF StartLoop, CanLaunch
<1>2. PICK fresh \in SUBSET {v \in Workers : w[v].phase = "none"} :
       \E place \in [fresh -> 1..n] :
         /\ \A u, v \in fresh : place[u] = place[v] => u = v
         /\ active' = act \cup fresh
  BY <1>1
<1>3. PICK place \in [fresh -> 1..n] : \A u, v \in fresh : place[u] = place[v] => u = v
  BY <1>2
<1>4. place \in Injection(fresh, 1..n)
  BY <1>3 DEF Injection, IsInjective
<1>5. IsFiniteSet(1..n) /\ Cardinality(1..n) = n
  BY FS_Interval
<1>6. IsFiniteSet(fresh) /\ Cardinality(fresh) <= n
  BY <1>4, <1>5, FS_Injection
<1>7. /\ IsFiniteSet(act \cup fresh)
      /\ Cardinality(act \cup fresh) =
           Cardinality(act) + Cardinality(fresh) - Cardinality(act \cap fresh)
  BY <1>6, FS_Union DEF Within
<1>8. IsFiniteSet(act \cap fresh)
  BY <1>6, FS_Subset
<1>9. /\ Cardinality(act) \in Nat /\ Cardinality(fresh) \in Nat
      /\ Cardinality(act \cap fresh) \in Nat
  BY <1>6, <1>8, FS_CardinalityType DEF Within
<1>10. n \in Int
  OBVIOUS
<1>11. Cardinality(act \cup fresh) <= MaxParallel
  BY <1>1, <1>6, <1>7, <1>9, <1>10, BoundsAssumption
<1> QED BY <1>2, <1>7, <1>11 DEF Within

LEMMA NextWithin ==
  ASSUME Within(active), [Next]_vars
  PROVE  Within(active')
<1>1. Within({})
  BY FS_EmptySet, BoundsAssumption DEF Within
<1>2. CASE active' \in {active, {}}
  BY <1>1, <1>2
<1>3. ASSUME NEW q, NEW act, NEW w, Within(act), StartParallelTransfers(q, act, w)
      PROVE  Within(active')
  BY <1>3, StartLoopWithin DEF StartParallelTransfers
<1>4. ASSUME NEW selection \in Selections, Enqueue(selection)
      PROVE  Within(active')
  BY <1>3, <1>4 DEF Enqueue
<1>5. ASSUME NEW w \in Workers, FinishParallelTransfer(w)
      PROVE  Within(active')
  <2>1. Within(active \ {w})
    <3>1. IsFiniteSet(active \ {w}) /\ Cardinality(active \ {w}) <= Cardinality(active)
      BY FS_Subset DEF Within
    <3>2. Cardinality(active \ {w}) \in Nat /\ Cardinality(active) \in Nat
      BY <3>1, FS_CardinalityType DEF Within
    <3> QED BY <3>1, <3>2, BoundsAssumption DEF Within
  <2>2. active' = active \/ \E q, others : StartParallelTransfers(q, active \ {w}, others)
    BY <1>5 DEF FinishParallelTransfer
  <2> QED BY <1>2, <1>3, <2>1, <2>2
<1>6. CASE DirectoryListed
  <2>1. active' = active \/ \E q : StartLoop(q, active, workers)
    BY <1>6 DEF DirectoryListed
  <2> QED BY <1>2, <2>1, StartLoopWithin
<1>7. CASE CancelTransfers \/ ToggleTransferPause \/ CloseTab \/ SwitchConnection
           \/ WatchedFileChanged
  BY <1>2, <1>7 DEF CancelTransfers, ToggleTransferPause, CloseTab, SwitchConnection,
     WatchedFileChanged, StopSession, StopParallelTransfers, gui
<1>8. CASE BrowserOpens \/ BrowserServes
  BY <1>2, <1>8 DEF BrowserOpens, BrowserServes, gui
<1>9. CASE ConnectionSuccess \/ ConnectionFailed \/ OperationFinished
  BY <1>2, <1>9 DEF ConnectionSuccess, ConnectionFailed, OperationFinished, StopSession,
     StopParallelTransfers, gui
<1>10. ASSUME NEW w \in Workers, WorkerStep(w) \/ Prompt(w) \/ Answer(w)
       PROVE  Within(active')
  BY <1>2, <1>10 DEF WorkerStep, Connect, BeginUpload, CheckDestination, LockConflict,
     OpenDestination, Copy, Prompt, Answer, AnswerConflict, gui
<1>11. CASE UNCHANGED vars
  BY <1>2, <1>11 DEF vars, gui
<1> QED BY <1>4, <1>5, <1>6, <1>7, <1>8, <1>9, <1>10, <1>11 DEF Next, User, Delivery

LEMMA WithinInductive == Spec => []Within(active)
<1>1. Init => Within(active)
  BY FS_EmptySet, BoundsAssumption DEF Init, Within
<1>2. Within(active) /\ [Next]_vars => Within(active)'
  BY NextWithin
<1> QED BY <1>1, <1>2, PTL DEF Spec

(* There are never more running workers than the setting allows.              *)
THEOREM LimitKept == Spec => []ParallelLimit
<1>1. Within(active) => ParallelLimit
  BY DEF Within, ParallelLimit
<1> QED BY <1>1, WithinInductive, PTL

-----------------------------------------------------------------------------
(* The queue as a whole, when it is Undisturbed: while work is left the       *)
(* sidebar says so, each request is in one place, no destination is open twice*)
(* or overwritten unasked, and a cancelled batch starts nothing.  One         *)
(* inductive invariant in five parts stands behind them all, and behind the   *)
(* refinement of TransferBatch.                                               *)

(* The folder being listed has one listing on its way, on the browser's       *)
(* thread or back to the GUI thread; otherwise none is.  After the connection *)
(* is lost there is no other, so what is still posted comes to nothing.       *)
AsksListing(i) == browser[i].op = "dirList"
IsReport(i) == posted[i].kind \in {"dirListed", "operation"}
Expected ==
  /\ \A i \in 1..Len(browser) : AsksListing(i) => dirDownload
  /\ \A i \in 1..Len(posted) : IsReport(i) => dirDownload
  /\ \A i, j \in 1..Len(browser) : AsksListing(i) /\ AsksListing(j) => i = j
  /\ \A i, j \in 1..Len(posted) : IsReport(i) /\ IsReport(j) => i = j
  /\ \A i \in 1..Len(browser), j \in 1..Len(posted) : ~ (AsksListing(i) /\ IsReport(j))
Attached ==
  /\ opened = 0 => conn = 0 /\ posted = <<>> /\ \A w \in Workers : workers[w].phase = "none"
  /\ conn = 0 => ~ connected /\ ~ transferActive /\ browser = <<>>
  /\ \A i \in 1..Len(posted) : posted[i].conn # 0
BrowserInv ==
  /\ ~ browserOpen
  /\ \A i \in 1..Len(browser) : browser[i].op \in {"connect", "list", "dirList"}
  /\ \A i \in 1..Len(posted) : posted[i].kind = "operation" => posted[i].result = "failed"
  /\ \A i \in 1..Len(posted) : posted[i].result # "cancelled"
  /\ Attached
  /\ conn # 0 => Expected

(* The sidebar is active when it lists a folder, alone, or when workers run.  *)
WorkInv ==
  /\ active # {} \/ queue # <<>> \/ dirDownload => transferActive
  /\ transferActive => active # {} \/ dirDownload
  /\ dirDownload => active = {}

(* Where requests are, of a queue q, running workers act of the threads w and *)
(* the history a, f: each in one place, asked and not finished, and no entry  *)
(* of a folder that is still to be listed has been asked.                     *)
Placed(q, act, w, a, f) ==
  /\ \A i, j \in 1..Len(q) : q[i].req = q[j].req => i = j
  /\ \A i \in 1..Len(q), v \in act : q[i].req # w[v].item.req
  /\ \A i \in 1..Len(q) : q[i].req \in a \ f
  /\ \A v \in act : w[v].item.req \in a \ f
  /\ f \subseteq a
  /\ \A folder \in Requests \ f, r \in a : ~ Lists(folder, r)
OnceInv ==
  /\ Placed(queue, active, workers, asked, finished)
  /\ dirDownload =>
       /\ \A i \in 1..Len(queue) : queue[i].req # activeTransfer.req
       /\ activeTransfer.req \in asked \ finished

(* The threads w, forgotten ones included, with the files f: one for each     *)
(* destination, and what was seen absent still is when it is about to be      *)
(* opened.                                                                    *)
Lives(s) == s.phase # "none"
Threads(w, f) ==
  /\ \A v \in Workers : Lives(w[v]) => w[v].item.req \in Requests
  /\ \A u, v \in Workers : Lives(w[u]) /\ Lives(w[v])
       /\ BusyKey(w[u].item.req) = BusyKey(w[v].item.req) => u = v
  /\ \A v \in Workers : w[v].phase = "approved" /\ ~ w[v].overwrite
                          => f[Destination(w[v].item.req)] = "absent"
NoneForgotten(act, w) == \A v \in Workers : Lives(w[v]) => v \in act
ThreadsInv ==
  /\ Threads(workers, files)
  /\ conn # 0 => NoneForgotten(active, workers)

(* A cancelled batch has nothing left to start after the listing.             *)
CancelInv ==
  /\ conflict[batch].cancelled /\ dirDownload => dirCancelled /\ queue = <<>>
  /\ \A b \in 1..MaxBatches : b > batch => ~ conflict[b].cancelled

QueueInv == BrowserInv /\ WorkInv /\ OnceInv /\ ThreadsInv /\ CancelInv

-----------------------------------------------------------------------------
(* The start loop, with what it launched in hand: the first n items of q on   *)
(* fresh threads.                                                             *)
Rest(q, n) == SubSeq(q, n + 1, Len(q))
Launches(q, act, w, n, fresh, place) ==
  /\ CanLaunch(q, act, w, n)
  /\ \A i \in 1..n : \E v \in fresh : place[v] = i
  /\ \A u, v \in fresh : place[u] = place[v] => u = v
  /\ active' = act \cup fresh
  /\ workers' = [v \in Workers |-> IF v \in fresh THEN Launched(q[place[v]], batch') ELSE w[v]]
Leaves(q, n) ==
  \/ /\ active' # {}
     /\ queue' = Rest(q, n) /\ transferActive' = TRUE
     /\ dirDownload' = FALSE /\ dirCancelled' = FALSE
     /\ UNCHANGED <<activeTransfer, browser>>
  \/ /\ active' = {} /\ Rest(q, n) = <<>>
     /\ queue' = Rest(q, n) /\ transferActive' = FALSE
     /\ dirDownload' = FALSE /\ dirCancelled' = FALSE
     /\ browser' = Append(browser, Request("list", NoItem))
     /\ activeTransfer' = activeTransfer
  \/ /\ active' = {} /\ Rest(q, n) # <<>>
     /\ StartDirectoryDownload(Head(Rest(q, n)), Tail(Rest(q, n)))

LEMMA StartLoopIs ==
  ASSUME NEW q, NEW act, NEW w, StartLoop(q, act, w)
  PROVE  \E n \in 0..Len(q), fresh \in SUBSET {v \in Workers : w[v].phase = "none"} :
         \E place \in [fresh -> 1..n] : Launches(q, act, w, n, fresh, place) /\ Leaves(q, n)
<1>1. PICK n \in 0..Len(q) :
        /\ CanLaunch(q, act, w, n)
        /\ \E fresh \in SUBSET {v \in Workers : w[v].phase = "none"} :
           \E place \in [fresh -> 1..n] : Launches(q, act, w, n, fresh, place)
        /\ Leaves(q, n)
  BY DEF StartLoop, Launches, Leaves, Rest
<1> QED BY <1>1

(* The queue that is left is a part of q beyond the first n.                  *)
LEMMA RestIs ==
  ASSUME NEW q \in Seq(Items), NEW n \in 0..Len(q)
  PROVE  /\ Rest(q, n) \in Seq(Items) /\ Len(Rest(q, n)) = Len(q) - n
         /\ \A i \in 1..Len(q) - n : Rest(q, n)[i] = q[n + i]
         /\ Rest(q, n) # <<>> =>
              /\ n < Len(q) /\ Head(Rest(q, n)) = q[n + 1]
              /\ Tail(Rest(q, n)) \in Seq(Items)
              /\ Len(Tail(Rest(q, n))) = Len(q) - n - 1
              /\ \A i \in 1..Len(q) - n - 1 : Tail(Rest(q, n))[i] = q[n + 1 + i]
  BY DEF Rest

(* Whatever the loop leaves in the queue stands in q from the place k + 1 on. *)
LEMMA LeavesIs ==
  ASSUME NEW q \in Seq(Items), NEW n \in 0..Len(q), Leaves(q, n)
  PROVE  \E k \in n..Len(q) :
           /\ queue' \in Seq(Items) /\ Len(queue') <= Len(q) - k
           /\ \A i \in 1..Len(queue') : queue'[i] = q[k + i]
           /\ dirDownload' => k = n + 1 /\ activeTransfer' = q[k]
<1>1. CASE queue' = Rest(q, n) /\ ~ dirDownload'
  BY <1>1, RestIs
<1>2. CASE Rest(q, n) # <<>> /\ activeTransfer' = Head(Rest(q, n)) /\ queue' = Tail(Rest(q, n))
  BY <1>2, RestIs
<1>3. CASE queue' = <<>> /\ ~ dirDownload'
  BY <1>3
<1> QED BY <1>1, <1>2, <1>3 DEF Leaves, StartDirectoryDownload

LEMMA LoopWork ==
  ASSUME NEW q, NEW act, NEW w, StartLoop(q, act, w)
  PROVE  WorkInv'
<1>1. PICK n \in 0..Len(q) : Leaves(q, n)
  BY StartLoopIs
<1> QED BY <1>1 DEF Leaves, StartDirectoryDownload, WorkInv

LEMMA LoopOnce ==
  ASSUME NEW q \in Seq(Items), NEW act \in SUBSET Workers, NEW w \in [Workers -> WorkerStates],
         Placed(q, act, w, asked', finished'), StartLoop(q, act, w),
         \A v \in act : w[v].phase # "none"
  PROVE  OnceInv'
<1>1. PICK n \in 0..Len(q), fresh \in SUBSET {v \in Workers : w[v].phase = "none"} :
        \E place \in [fresh -> 1..n] : Launches(q, act, w, n, fresh, place) /\ Leaves(q, n)
  BY StartLoopIs
<1>2. PICK place \in [fresh -> 1..n] : Launches(q, act, w, n, fresh, place)
  BY <1>1
<1>3. PICK k \in n..Len(q) :
        /\ queue' \in Seq(Items) /\ Len(queue') <= Len(q) - k
        /\ \A i \in 1..Len(queue') : queue'[i] = q[k + i]
        /\ dirDownload' => k = n + 1 /\ activeTransfer' = q[k]
  BY <1>1, LeavesIs
<1>4. \A v \in fresh : workers'[v].item = q[place[v]] /\ place[v] \in 1..n
  BY <1>2, LaunchedKeeps DEF Launches
<1>5. \A v \in act : workers'[v] = w[v] /\ v \notin fresh
  BY <1>2 DEF Launches
<1>6. active' = act \cup fresh
  BY <1>2 DEF Launches
<1>7. \A i \in 1..Len(queue') : i \in Int /\ k + i \in 1..Len(q) /\ k + i > n
  BY <1>3
<1>8. Placed(queue', active', workers', asked', finished')
  <2>1. ASSUME NEW i \in 1..Len(queue'), NEW j \in 1..Len(queue'), queue'[i].req = queue'[j].req
        PROVE  i = j
    <3>1. queue'[i] = q[k + i] /\ queue'[j] = q[k + j]
      BY <1>3
    <3>2. k + i \in 1..Len(q) /\ k + j \in 1..Len(q)
      BY <1>7
    <3>3. k + i = k + j
      BY <2>1, <3>1, <3>2 DEF Placed
    <3> QED BY <1>3, <1>7, <3>3
  <2>2. ASSUME NEW i \in 1..Len(queue'), NEW v \in active'
        PROVE  queue'[i].req # workers'[v].item.req
    <3>1. CASE v \in act
      BY <1>3, <1>5, <1>7, <3>1 DEF Placed
    <3>2. CASE v \in fresh
      BY <1>3, <1>4, <1>7, <3>2 DEF Placed
    <3> QED BY <1>6, <3>1, <3>2
  <2>3. \A i \in 1..Len(queue') : queue'[i].req \in asked' \ finished'
    BY <1>3, <1>7 DEF Placed
  <2>4. \A v \in active' : workers'[v].item.req \in asked' \ finished'
    BY <1>4, <1>5, <1>6 DEF Placed
  <2> QED BY <2>1, <2>2, <2>3, <2>4 DEF Placed
<1>9. ASSUME dirDownload'
      PROVE  /\ \A i \in 1..Len(queue') : queue'[i].req # activeTransfer'.req
             /\ activeTransfer'.req \in asked' \ finished'
  <2>1. k = n + 1 /\ k \in 1..Len(q) /\ activeTransfer' = q[k]
    BY <1>3, <1>9
  <2>2. ASSUME NEW i \in 1..Len(queue') PROVE queue'[i].req # activeTransfer'.req
    <3>1. queue'[i] = q[k + i] /\ k + i # k
      BY <1>3, <1>7
    <3> QED BY <1>7, <2>1, <3>1 DEF Placed
  <2> QED BY <2>1, <2>2 DEF Placed
<1> QED BY <1>8, <1>9 DEF OnceInv

LEMMA LoopThreads ==
  ASSUME NEW q \in Seq(Items), NEW act \in SUBSET Workers, NEW w \in [Workers -> WorkerStates],
         Threads(w, files'), NoneForgotten(act, w), StartLoop(q, act, w),
         \A i \in 1..Len(q) : q[i].req \in Requests
  PROVE  Threads(workers', files') /\ NoneForgotten(active', workers')
<1>1. PICK n \in 0..Len(q), fresh \in SUBSET {v \in Workers : w[v].phase = "none"} :
        \E place \in [fresh -> 1..n] : Launches(q, act, w, n, fresh, place)
  BY StartLoopIs
<1>2. PICK place \in [fresh -> 1..n] : Launches(q, act, w, n, fresh, place)
  BY <1>1
<1>3. \A v \in fresh :
        /\ place[v] \in 1..n /\ place[v] \in 1..Len(q)
        /\ workers'[v].item = q[place[v]] /\ workers'[v].phase = "connecting"
  BY <1>2, LaunchedKeeps DEF Launches
<1>4. \A v \in Workers \ fresh : workers'[v] = w[v]
  BY <1>2 DEF Launches
<1>5. active' = act \cup fresh
  BY <1>2 DEF Launches
<1>6. NoneForgotten(active', workers')
  BY <1>4, <1>5 DEF NoneForgotten
<1>7. \A v \in Workers : Lives(workers'[v]) => workers'[v].item.req \in Requests
  BY <1>3, <1>4 DEF Threads
<1>8. \A v \in Workers : workers'[v].phase = "approved" /\ ~ workers'[v].overwrite
                          => files'[Destination(workers'[v].item.req)] = "absent"
  BY <1>3, <1>4 DEF Threads
<1>9. ASSUME NEW u \in Workers, NEW v \in Workers, Lives(workers'[u]), Lives(workers'[v]),
             BusyKey(workers'[u].item.req) = BusyKey(workers'[v].item.req)
      PROVE  u = v
  <2>1. CASE u \notin fresh /\ v \notin fresh
    BY <1>4, <1>9, <2>1 DEF Threads
  <2>2. ASSUME NEW x \in Workers \ fresh, NEW y \in fresh, Lives(workers'[x])
        PROVE  BusyKey(workers'[x].item.req) # BusyKey(workers'[y].item.req)
    <3>1. x \in act /\ workers'[x] = w[x]
      BY <1>4, <2>2 DEF NoneForgotten
    <3>2. BusyKey(w[x].item.req) # BusyKey(q[place[y]].req)
      BY <1>2, <1>3, <3>1 DEF Launches, CanLaunch
    <3> QED BY <1>3, <3>1, <3>2
  <2>3. CASE u \in fresh /\ v \in fresh
    <3>1. \A i \in 1..n, j \in 1..n : j < i => BusyKey(q[j].req) # BusyKey(q[i].req)
      BY <1>2 DEF Launches, CanLaunch
    <3>2. place[u] = place[v]
      BY <1>3, <1>9, <2>3, <3>1
    <3> QED BY <1>2, <2>3, <3>2 DEF Launches
  <2> QED BY <1>9, <2>1, <2>2, <2>3
<1> QED BY <1>6, <1>7, <1>8, <1>9 DEF Threads

LEMMA LoopBrowser ==
  ASSUME browser \in Seq(BrowserRequest), posted' \in Seq(Signal),
         NEW q, NEW act, NEW w, StartLoop(q, act, w),
         \A i \in 1..Len(browser) : browser[i].op \in {"connect", "list"},
         \A i \in 1..Len(posted') : ~ IsReport(i)',
         \A i \in 1..Len(posted') : posted'[i].conn # 0 /\ posted'[i].result # "cancelled",
         ~ browserOpen', conn' # 0, opened' # 0
  PROVE  BrowserInv'
<1>1. PICK op, item :
        /\ op \in {"list", "dirList"}
        /\ browser' \in {browser, Append(browser, Request(op, item))}
        /\ op = "dirList" => dirDownload'
  <2>1. PICK n \in 0..Len(q) : Leaves(q, n)
    BY StartLoopIs
  <2> QED BY <2>1 DEF Leaves, StartDirectoryDownload
<1>2. Request(op, item).op = op
  BY DEF Request
<1>3. /\ Len(browser') \in {Len(browser), Len(browser) + 1}
      /\ \A i \in 1..Len(browser) : browser'[i] = browser[i]
      /\ Len(browser') = Len(browser) + 1 => browser'[Len(browser')].op = op
  BY <1>1, <1>2
<1>4. \A i \in 1..Len(browser') : browser'[i].op \in {"connect", "list", "dirList"}
  BY <1>1, <1>3
<1>5. \A i \in 1..Len(browser') : browser'[i].op = "dirList" => i = Len(browser) + 1 /\ op = "dirList"
  BY <1>1, <1>3
<1>6. Expected'
  BY <1>1, <1>5 DEF Expected, AsksListing
<1>7. Attached'
  BY DEF Attached
<1>8. \A i \in 1..Len(posted') : posted'[i].kind = "operation" => posted'[i].result = "failed"
  BY DEF IsReport
<1> QED BY <1>4, <1>6, <1>7, <1>8 DEF BrowserInv

LEMMA LoopCancel ==
  ASSUME NEW q \in Seq(Items), NEW act, NEW w, StartLoop(q, act, w),
         conflict'[batch'].cancelled => act # {} \/ q = <<>>
  PROVE  conflict'[batch'].cancelled /\ dirDownload' => dirCancelled' /\ queue' = <<>>
<1>1. PICK n \in 0..Len(q), fresh \in SUBSET {v \in Workers : w[v].phase = "none"} :
        \E place \in [fresh -> 1..n] : Launches(q, act, w, n, fresh, place) /\ Leaves(q, n)
  BY StartLoopIs
<1>2. active' = act \cup fresh
  BY <1>1 DEF Launches
<1>3. Rest(q, n) # <<>> => q # <<>>
  BY RestIs
<1> QED BY <1>1, <1>2, <1>3 DEF Leaves, StartDirectoryDownload

-----------------------------------------------------------------------------
(* A step of the thread w, with the dialog it may ask for.                    *)
Bystanders(w) ==
  /\ UNCHANGED <<gui, browser, browserOpen, posted, history>>
  /\ \A v \in Workers : /\ workers'[v].item = workers[v].item
                        /\ workers'[v].phase = "none" <=> workers[v].phase = "none"
                        /\ v # w => workers'[v] = workers[v]

LEMMA BystandersKeep ==
  ASSUME TypeOK, BrowserInv, WorkInv, OnceInv, NEW w \in Workers, Bystanders(w)
  PROVE  BrowserInv' /\ WorkInv' /\ OnceInv'
<1> USE DEF Bystanders, gui, history
<1>1. BrowserInv'
  BY DEF BrowserInv, Attached, Expected, AsksListing, IsReport
<1>2. WorkInv'
  BY DEF WorkInv
<1>3. OnceInv'
  BY DEF OnceInv, Placed, TypeOK, WorkersOK
<1> QED BY <1>1, <1>2, <1>3

(* Two live threads have two destinations.                                    *)
LEMMA DestinationsApart ==
  ASSUME ThreadsInv, Undisturbed, NEW v \in Workers, NEW w \in Workers,
         Lives(workers[v]), Lives(workers[w]), v # w
  PROVE  Destination(workers[v].item.req) # Destination(workers[w].item.req)
  BY DEF ThreadsInv, Threads, Undisturbed

(* A live thread that touches its own destination only, and is not approved   *)
(* without a look at it.                                                      *)
LEMMA ThreadsStep ==
  ASSUME ThreadsInv, Undisturbed, NEW w \in Workers, Bystanders(w), Lives(workers[w]),
         \A v \in Workers : Destination(workers[v].item.req) # Destination(workers[w].item.req)
           => files'[Destination(workers[v].item.req)] = files[Destination(workers[v].item.req)],
         workers'[w].phase = "approved" /\ ~ workers'[w].overwrite
           => files'[Destination(workers[w].item.req)] = "absent"
  PROVE  ThreadsInv'
<1>1. ASSUME NEW v \in Workers, workers'[v].phase = "approved", ~ workers'[v].overwrite
      PROVE  files'[Destination(workers'[v].item.req)] = "absent"
  <2>1. CASE v = w
    BY <1>1, <2>1 DEF Bystanders
  <2>2. CASE v # w
    <3>1. Destination(workers[v].item.req) # Destination(workers[w].item.req)
      BY <1>1, <2>2, DestinationsApart DEF Bystanders, Lives
    <3> QED BY <1>1, <2>2, <3>1 DEF Bystanders, ThreadsInv, Threads
  <2> QED BY <2>1, <2>2
<1>2. \A v \in Workers : Lives(workers'[v]) => workers'[v].item.req \in Requests
  BY DEF Bystanders, ThreadsInv, Threads, Lives
<1>3. \A u, v \in Workers : Lives(workers'[u]) /\ Lives(workers'[v])
        /\ BusyKey(workers'[u].item.req) = BusyKey(workers'[v].item.req) => u = v
  BY DEF Bystanders, ThreadsInv, Threads, Lives
<1>4. conn' # 0 => NoneForgotten(active', workers')
  BY DEF Bystanders, ThreadsInv, NoneForgotten, Lives, gui
<1> QED BY <1>1, <1>2, <1>3, <1>4 DEF ThreadsInv, Threads

(* The ways a thread moves on.                                                *)
LEMMA MovesOn ==
  ASSUME TypeOK, NEW w \in Workers, Lives(workers[w]),
         \/ \E phase \in Phases \ {"none", "approved"} : Moves(w, phase)
         \/ \E result \in Results : Finish(w, result)
         \/ \E choice \in Choices : Resolved(w, choice)
  PROVE  /\ \A v \in Workers : /\ workers'[v].item = workers[v].item
                               /\ workers'[v].phase = "none" <=> workers[v].phase = "none"
                               /\ v # w => workers'[v] = workers[v]
         /\ workers'[w].phase = "approved" => workers'[w].overwrite
<1> USE DEF TypeOK, WorkersOK, WorkerStates, Lives
<1>1. ASSUME NEW result \in Results, Finish(w, result)
      PROVE  /\ \A v \in Workers : /\ workers'[v].item = workers[v].item
                                   /\ workers'[v].phase = "none" <=> workers[v].phase = "none"
                                   /\ v # w => workers'[v] = workers[v]
             /\ workers'[w].phase = "done"
  BY <1>1 DEF Finish
<1>2. CASE \E phase \in Phases \ {"none", "approved"} : Moves(w, phase)
  BY <1>2 DEF Moves
<1>3. CASE \E choice \in Choices : Resolved(w, choice)
  <2>1. PICK choice \in Choices : Resolved(w, choice)
    BY <1>3
  <2>2. CASE choice = "overwrite"
    BY <2>1, <2>2 DEF Resolved
  <2>3. CASE choice \in {"skip", "cancel"}
    BY <1>1, <2>1, <2>3 DEF Resolved, Results
  <2> QED BY <2>2, <2>3 DEF Choices
<1> QED BY <1>1, <1>2, <1>3

LEMMA WorkerStepQueue ==
  ASSUME TypeOK, QueueInv, Undisturbed, NEW w \in Workers, WorkerStep(w)
  PROVE  QueueInv'
<1>1. UNCHANGED <<gui, conflict, browser, browserOpen, posted, history>>
  BY DEF WorkerStep, Connect, BeginUpload, CheckDestination, LockConflict, OpenDestination, Copy
<1>2. Lives(workers[w])
  BY DEF WorkerStep, Connect, BeginUpload, CheckDestination, LockConflict, OpenDestination, Copy,
     Lives
<1>3. CancelInv'
  BY <1>1 DEF QueueInv, CancelInv, gui
<1> DEFINE Kept == /\ \A v \in Workers : /\ workers'[v].item = workers[v].item
                                         /\ workers'[v].phase = "none" <=> workers[v].phase = "none"
                                         /\ v # w => workers'[v] = workers[v]
                   /\ workers'[w].phase = "approved" /\ ~ workers'[w].overwrite
                        => files'[Destination(workers[w].item.req)] = "absent"
           FilesKept == \A v \in Workers :
             Destination(workers[v].item.req) # Destination(workers[w].item.req)
               => files'[Destination(workers[v].item.req)] = files[Destination(workers[v].item.req)]
<1>4. Kept
  <2>1. CASE Connect(w)
    BY <1>2, <2>1, MovesOn DEF Connect, Phases, Results
  <2>2. CASE BeginUpload(w)
    BY <2>2 DEF BeginUpload, TypeOK, WorkersOK, WorkerStates
  <2>3. CASE CheckDestination(w)
    <3>1. CASE Moves(w, "approved") /\ files[Destination(workers[w].item.req)] = "absent"
      BY <1>2, <2>3, <3>1 DEF CheckDestination, Moves, Lives, TypeOK, WorkersOK, WorkerStates
    <3>2. CASE Moves(w, "locking") \/ Finish(w, "cancelled")
      BY <1>2, <3>2, MovesOn DEF Phases, Results
    <3> QED BY <2>3, <3>1, <3>2 DEF CheckDestination
  <2>4. CASE LockConflict(w)
    BY <1>2, <2>4, MovesOn DEF LockConflict, Phases
  <2>5. CASE OpenDestination(w)
    <3>1. CASE Finish(w, "failed")
      BY <1>2, <3>1, MovesOn DEF Results
    <3>2. CASE workers' = [workers EXCEPT ![w] =
                            [@ EXCEPT !.phase = "copying",
                                      !.cancel = workers[w].cancel /\ Uploads(w),
                                      !.pause = workers[w].pause /\ Uploads(w)]]
      BY <1>2, <3>2 DEF Lives, TypeOK, WorkersOK, WorkerStates
    <3> QED BY <2>5, <3>1, <3>2 DEF OpenDestination
  <2>6. CASE Copy(w)
    <3>1. \E result \in Results : Finish(w, result)
      BY <2>6 DEF Copy, Results
    <3> QED BY <1>2, <3>1, MovesOn
  <2> QED BY <2>1, <2>2, <2>3, <2>4, <2>5, <2>6 DEF WorkerStep
<1>5. FilesKept
  <2>1. \/ files' = files
        \/ \E how \in {"partial", "complete"} :
             files' = [files EXCEPT ![Destination(workers[w].item.req)] = how]
    BY DEF WorkerStep, Connect, BeginUpload, CheckDestination, LockConflict, OpenDestination, Copy
  <2>2. \A v \in Workers : Destination(workers[v].item.req) \in DOMAIN files
    BY DEF TypeOK, FilesOK, WorkersOK, WorkerStates, Items
  <2> QED BY <2>1, <2>2
<1>6. Bystanders(w)
  BY <1>1, <1>4 DEF Bystanders
<1>7. ThreadsInv'
  BY <1>2, <1>4, <1>5, <1>6, ThreadsStep DEF QueueInv
<1> QED BY <1>3, <1>6, <1>7, BystandersKeep DEF QueueInv

(* The GUI thread's answer to a thread that met an existing destination: in a *)
(* folder's listing no thread of the batch is left to be answered.            *)
LEMMA PromptQueue ==
  ASSUME TypeOK, QueueInv, Undisturbed, NEW w \in Workers, Prompt(w)
  PROVE  QueueInv'
<1> DEFINE choice == Unprompted(conflict[workers[w].batch], policy)
<1>1. /\ UNCHANGED <<gui, conflict, browser, browserOpen, posted, history, files>>
      /\ Lives(workers[w])
  BY DEF Prompt, Lives
<1>2. choice = "ask" \/ choice \in Choices
  BY WorkerTypes DEF Unprompted, TypeOK, ConflictsOK, Conflicts, Decisions, Choices
<1>3. Moves(w, "dialog") \/ (choice \in Choices /\ Resolved(w, choice))
  BY <1>2 DEF Prompt
<1> HIDE DEF choice
<1>4. /\ Bystanders(w)
      /\ workers'[w].phase = "approved" => workers'[w].overwrite
  BY <1>1, <1>3, MovesOn DEF Bystanders, Phases
<1>5. ThreadsInv'
  BY <1>1, <1>4, ThreadsStep DEF QueueInv
<1>6. CancelInv'
  BY <1>1 DEF QueueInv, CancelInv, gui
<1> QED BY <1>4, <1>5, <1>6, BystandersKeep DEF QueueInv

LEMMA AnswerQueue ==
  ASSUME TypeOK, SafetyInv, QueueInv, Undisturbed, NEW w \in Workers, Answer(w)
  PROVE  QueueInv'
<1>1. PICK choice \in Choices, all \in BOOLEAN, always \in BOOLEAN :
        AnswerConflict(w, choice, all, always)
  BY DEF Answer
<1>2. /\ UNCHANGED <<gui, browser, browserOpen, posted, history, files>>
      /\ workers[w].phase = "dialog" /\ Lives(workers[w]) /\ Resolved(w, choice)
      /\ conflict' = [conflict EXCEPT ![workers[w].batch] = AfterAnswer(@, choice, all)]
  BY <1>1 DEF AnswerConflict, Lives
<1>3. Bystanders(w) /\ (workers'[w].phase = "approved" => workers'[w].overwrite)
  BY <1>2, MovesOn DEF Bystanders
<1>4. ThreadsInv'
  BY <1>2, <1>3, ThreadsStep DEF QueueInv
<1>5. workers[w].batch = batch
  BY <1>2 DEF SafetyInv, Consistent
<1>6. \A b \in 1..MaxBatches : b # batch => conflict'[b] = conflict[b]
  BY <1>2, <1>5 DEF TypeOK, ConflictsOK
<1>7. dirDownload => conflict[batch].cancelled
  BY <1>2, <1>5 DEF SafetyInv, Consistent, QueueInv, WorkInv
<1>8. CancelInv'
  BY <1>2, <1>6, <1>7 DEF QueueInv, CancelInv, gui, TypeOK, ConflictsOK
<1> QED BY <1>3, <1>4, <1>8, BystandersKeep DEF QueueInv

-----------------------------------------------------------------------------
(* New requests at the end of the queue.                                      *)
LEMMA JoinedPlaced ==
  ASSUME NEW q \in Seq(Items), NEW s \in Seq(Requests), NEW act, NEW w, NEW a, NEW f,
         Placed(q, act, w, a, f), NoneTwice(s),
         \A i \in 1..Len(s) : s[i] \notin a,
         \A i \in 1..Len(s), folder \in Requests \ f : ~ Lists(folder, s[i])
  PROVE  Placed(q \o [i \in 1..Len(s) |-> NewItem(s[i])], act, w,
                a \cup {s[i] : i \in 1..Len(s)}, f)
<1> DEFINE new == [i \in 1..Len(s) |-> NewItem(s[i])]
           joined == q \o new
           b == a \cup {s[i] : i \in 1..Len(s)}
<1>1. new \in Seq(Items) /\ Len(new) = Len(s) /\ \A i \in 1..Len(s) : new[i].req = s[i]
  BY NewItemsType DEF NewItem
<1>2. /\ Len(joined) = Len(q) + Len(s)
      /\ \A i \in 1..Len(q) : joined[i] = q[i]
      /\ \A i \in 1..Len(s) : joined[Len(q) + i].req = s[i]
  <2> HIDE DEF new
  <2> QED BY <1>1
<1> HIDE DEF joined, new
<1>3. \A i \in 1..Len(joined) :
        \/ i \in 1..Len(q) /\ joined[i].req = q[i].req /\ joined[i].req \in a
        \/ i - Len(q) \in 1..Len(s) /\ joined[i].req = s[i - Len(q)] /\ joined[i].req \notin a
  <2> TAKE i \in 1..Len(joined)
  <2>1. CASE i \in 1..Len(q)
    BY <1>2, <2>1 DEF Placed
  <2>2. CASE i \notin 1..Len(q)
    <3>1. i - Len(q) \in 1..Len(s) /\ i = Len(q) + (i - Len(q))
      BY <1>2, <2>2
    <3> QED BY <1>2, <3>1
  <2> QED BY <2>1, <2>2
<1>4. ASSUME NEW i \in 1..Len(joined), NEW j \in 1..Len(joined), joined[i].req = joined[j].req
      PROVE  i = j
  <2>1. CASE i \in 1..Len(q) /\ j \in 1..Len(q)
    BY <1>2, <1>4, <2>1 DEF Placed
  <2>2. CASE i - Len(q) \in 1..Len(s) /\ j - Len(q) \in 1..Len(s)
             /\ joined[i].req = s[i - Len(q)] /\ joined[j].req = s[j - Len(q)]
    <3>1. i - Len(q) = j - Len(q)
      BY <1>4, <2>2 DEF NoneTwice
    <3>2. i \in Int /\ j \in Int /\ Len(q) \in Int
      BY <1>2
    <3> QED BY <3>1, <3>2
  <2> QED BY <1>3, <1>4, <2>1, <2>2
<1>5. \A i \in 1..Len(joined), v \in act : joined[i].req # w[v].item.req
  BY <1>3 DEF Placed
<1>6. \A i \in 1..Len(joined) : joined[i].req \in b \ f
  BY <1>3 DEF Placed
<1>7. \A folder \in Requests \ f, r \in b : ~ Lists(folder, r)
  BY DEF Placed
<1> QED BY <1>4, <1>5, <1>6, <1>7 DEF Placed, joined, new

LEMMA EnqueueQueue ==
  ASSUME TypeOK, SafetyInv, QueueInv, NEW selection \in Selections, Enqueue(selection)
  PROVE  QueueInv'
<1> DEFINE q == queue \o [i \in 1..Len(selection) |-> NewItem(selection[i])]
<1>0. /\ connected /\ ~ dirDownload /\ \A i \in 1..Len(selection) : selection[i] \notin asked
      /\ asked' = asked \cup {selection[i] : i \in 1..Len(selection)}
      /\ UNCHANGED <<connected, conn, opened, conflict, browserOpen, posted, files, finished>>
      /\ selection \in Seq(Requests)
  BY RequestsAssumption DEF Enqueue
<1>1. conn # 0 /\ opened # 0
  BY <1>0 DEF QueueInv, BrowserInv, Attached
<1>2. StartLoop(q, active, workers)
  BY <1>0 DEF Enqueue, StartParallelTransfers
<1>3. q \in Seq(Items)
  BY <1>0, NewItemsType DEF TypeOK, QueuesOK
<1>4. Placed(q, active, workers, asked', finished')
  <2>1. \A i \in 1..Len(selection), folder \in Requests \ finished : ~ Lists(folder, selection[i])
    BY OccurrencesAssumption
  <2>2. NoneTwice(selection)
    BY OccurrencesAssumption
  <2> QED BY <1>0, <2>1, <2>2, JoinedPlaced DEF QueueInv, OnceInv, TypeOK, QueuesOK
<1>5. \A i \in 1..Len(q) : q[i].req \in Requests
  <2>1. asked' \subseteq Requests
    BY <1>0 DEF TypeOK, HistoryOK
  <2> HIDE DEF q
  <2> QED BY <1>4, <2>1 DEF Placed
<1> HIDE DEF q
<1>6. WorkInv' /\ OnceInv'
  BY <1>2, <1>3, <1>4, LoopWork, LoopOnce DEF TypeOK, WorkersOK, SafetyInv, Consistent
<1>7. ThreadsInv'
  BY <1>0, <1>1, <1>2, <1>3, <1>5, LoopThreads DEF TypeOK, WorkersOK, QueueInv, ThreadsInv
<1>8. BrowserInv'
  <2>1. \A i \in 1..Len(browser) : browser[i].op \in {"connect", "list"}
    BY <1>0, <1>1 DEF QueueInv, BrowserInv, Expected, AsksListing
  <2>2. \A i \in 1..Len(posted) : ~ IsReport(i)
    BY <1>0, <1>1 DEF QueueInv, BrowserInv, Expected
  <2>3. \A i \in 1..Len(posted) : posted[i].conn # 0 /\ posted[i].result # "cancelled"
    BY DEF QueueInv, BrowserInv, Attached
  <2> QED BY <1>0, <1>1, <1>2, <2>1, <2>2, <2>3, LoopBrowser
          DEF TypeOK, QueuesOK, BrowserOK, IsReport, QueueInv, BrowserInv
<1>9. CancelInv'
  <2>1. conflict'[batch'].cancelled => active # {}
    <3>1. HasActiveTransfers => active # {}
      BY <1>0 DEF HasActiveTransfers, QueueInv, WorkInv
    <3>2. ~ HasActiveTransfers => batch' = batch + 1 /\ batch' \in 1..MaxBatches
      <4>1. batch \in 1..MaxBatches
        BY DEF TypeOK, ConflictsOK
      <4> QED BY <4>1, BoundsAssumption DEF Enqueue
    <3> QED BY <1>0, <3>1, <3>2 DEF QueueInv, CancelInv, TypeOK, ConflictsOK
  <2>2. \A b \in 1..MaxBatches : b > batch' => ~ conflict'[b].cancelled
    BY <1>0 DEF Enqueue, QueueInv, CancelInv, TypeOK, ConflictsOK
  <2> QED BY <1>2, <1>3, <2>1, <2>2, LoopCancel DEF CancelInv
<1> QED BY <1>6, <1>7, <1>8, <1>9 DEF QueueInv

-----------------------------------------------------------------------------
(* The workers are told to cancel.                                            *)
LEMMA CancelThreads ==
  ASSUME TypeOK, NEW W, NEW f, Threads(workers, f)
  PROVE  /\ Threads(CancelWorkers(W, workers), f)
         /\ \A v \in Workers : /\ CancelWorkers(W, workers)[v].item = workers[v].item
                               /\ CancelWorkers(W, workers)[v].phase = workers[v].phase
<1>1. \A v \in Workers :
        /\ CancelWorkers(W, workers)[v].item = workers[v].item
        /\ CancelWorkers(W, workers)[v].phase = workers[v].phase
        /\ CancelWorkers(W, workers)[v].overwrite = workers[v].overwrite
  BY WorkerTypes DEF CancelWorkers, WorkerStates
<1> QED BY <1>1 DEF Threads, Lives

(* stopParallelTransfers leaves nothing to do.                                *)
LEMMA StopQueue ==
  ASSUME TypeOK, QueueInv, StopParallelTransfers, batch' = batch, files' = files,
         UNCHANGED history
  PROVE  /\ WorkInv' /\ OnceInv' /\ CancelInv' /\ Threads(workers', files')
         /\ \A v \in Workers : workers'[v].phase = workers[v].phase
<1>1. /\ active' = {} /\ queue' = <<>> /\ ~ transferActive' /\ ~ dirDownload'
      /\ workers' = CancelWorkers(active, workers)
      /\ conflict' = [conflict EXCEPT ![batch].cancelled = TRUE]
  BY DEF StopParallelTransfers
<1>2. Threads(workers', files') /\ \A v \in Workers : workers'[v].phase = workers[v].phase
  BY <1>1, CancelThreads DEF QueueInv, ThreadsInv
<1>3. WorkInv'
  BY <1>1 DEF WorkInv
<1>4. OnceInv'
  BY <1>1 DEF OnceInv, Placed, history, QueueInv
<1>5. CancelInv'
  BY <1>1 DEF CancelInv, QueueInv, TypeOK, ConflictsOK
<1> QED BY <1>2, <1>3, <1>4, <1>5

LEMMA StopSessionQueue ==
  ASSUME TypeOK, QueueInv, StopSession,
         posted' = posted \/ (posted # <<>> /\ posted' = Tail(posted))
  PROVE  QueueInv'
<1>1. WorkInv' /\ OnceInv' /\ CancelInv' /\ Threads(workers', files')
      /\ \A v \in Workers : workers'[v].phase = workers[v].phase
  BY StopQueue DEF StopSession
<1>2. /\ conn' = 0 /\ ~ connected' /\ ~ transferActive' /\ browser' = <<>> /\ ~ browserOpen'
      /\ opened' = opened
  BY DEF StopSession, StopParallelTransfers
<1>3. /\ opened = 0 => posted' = <<>>
      /\ \A i \in 1..Len(posted') : \E j \in 1..Len(posted) : posted'[i] = posted[j]
  BY DEF QueueInv, BrowserInv, Attached, TypeOK, BrowserOK
<1>4. BrowserInv'
  BY <1>1, <1>2, <1>3 DEF BrowserInv, Attached, QueueInv
<1> QED BY <1>1, <1>2, <1>4 DEF QueueInv, ThreadsInv

LEMMA SwitchQueue ==
  ASSUME TypeOK, QueueInv, Undisturbed, SwitchConnection
  PROVE  QueueInv'
<1>1. opened = 0
  BY DEF SwitchConnection, Undisturbed, TypeOK, SessionOK
<1>2. conn' = 1 /\ opened' = 1 /\ posted' = <<>> /\ ~ browserOpen'
  BY <1>1 DEF SwitchConnection, QueueInv, BrowserInv, Attached
<1>3. \A w \in Workers : workers[w].phase = "none"
  BY <1>1 DEF QueueInv, BrowserInv, Attached
<1>4. WorkInv' /\ OnceInv' /\ CancelInv' /\ Threads(workers', files')
      /\ \A v \in Workers : workers'[v].phase = workers[v].phase
  BY StopQueue DEF SwitchConnection, history
<1>5. ThreadsInv'
  BY <1>3, <1>4 DEF ThreadsInv, NoneForgotten, Lives
<1>6. Len(browser') = 1 /\ browser'[1].op \in {"connect", "list"}
  BY DEF SwitchConnection, Request
<1>7. BrowserInv'
  BY <1>2, <1>6 DEF BrowserInv, Attached, Expected, AsksListing
<1> QED BY <1>4, <1>5, <1>7 DEF QueueInv

LEMMA UserQueue ==
  ASSUME TypeOK, SafetyInv, QueueInv, Undisturbed, User
  PROVE  QueueInv'
<1>1. CASE \E selection \in Selections : Enqueue(selection)
  BY <1>1, EnqueueQueue
<1>2. CASE CancelTransfers
  <2>1. /\ UNCHANGED <<connected, conn, opened, transferActive, activeTransfer, dirDownload, active,
                       batch, browser, browserOpen, posted, files, history>>
        /\ queue' = <<>> /\ (dirDownload => dirCancelled')
        /\ conflict' = [conflict EXCEPT ![batch].cancelled = TRUE]
        /\ workers' \in {workers, CancelWorkers(active, workers)}
    BY <1>2 DEF CancelTransfers
  <2>2. /\ Threads(workers', files')
        /\ \A v \in Workers : workers'[v].item = workers[v].item /\ workers'[v].phase = workers[v].phase
    BY <2>1, CancelThreads DEF QueueInv, ThreadsInv
  <2>3. ThreadsInv'
    BY <2>1, <2>2 DEF QueueInv, ThreadsInv, NoneForgotten, Lives
  <2>4. BrowserInv'
    BY <2>1, <2>2 DEF QueueInv, BrowserInv, Attached, Expected, AsksListing, IsReport
  <2>5. WorkInv'
    BY <2>1 DEF QueueInv, WorkInv
  <2>6. OnceInv'
    BY <2>1, <2>2 DEF QueueInv, OnceInv, Placed, history, TypeOK, WorkersOK
  <2>7. CancelInv'
    BY <2>1 DEF QueueInv, CancelInv, TypeOK, ConflictsOK
  <2> QED BY <2>3, <2>4, <2>5, <2>6, <2>7 DEF QueueInv
<1>3. CASE ToggleTransferPause
  <2>1. /\ UNCHANGED <<connected, conn, opened, queue, transferActive, activeTransfer, dirDownload,
                       dirCancelled, active, batch, conflict, browser, browserOpen, posted, files,
                       history>>
        /\ \A v \in Workers :
             /\ workers'[v].item = workers[v].item /\ workers'[v].phase = workers[v].phase
             /\ workers'[v].overwrite = workers[v].overwrite
    BY <1>3, WorkerTypes DEF ToggleTransferPause, WorkerStates
  <2>2. ThreadsInv'
    BY <2>1 DEF QueueInv, ThreadsInv, Threads, NoneForgotten, Lives
  <2>3. BrowserInv'
    BY <2>1 DEF QueueInv, BrowserInv, Attached, Expected, AsksListing, IsReport
  <2>4. OnceInv'
    BY <2>1 DEF QueueInv, OnceInv, Placed, history, TypeOK, WorkersOK
  <2> QED BY <2>1, <2>2, <2>3, <2>4 DEF QueueInv, WorkInv, CancelInv
<1>4. CASE CloseTab
  BY <1>4, StopSessionQueue DEF CloseTab
<1>5. CASE SwitchConnection
  BY <1>5, SwitchQueue
<1>6. CASE WatchedFileChanged
  BY <1>6 DEF WatchedFileChanged, Undisturbed
<1> QED BY <1>1, <1>2, <1>3, <1>4, <1>5, <1>6 DEF User

(* A request put back at the head of the queue.                               *)
LEMMA PushedPlaced ==
  ASSUME NEW q \in Seq(Items), NEW first \in Items, NEW act, NEW w, NEW a, NEW f,
         Placed(q, act, w, a, f), first.req \in a \ f,
         \A i \in 1..Len(q) : q[i].req # first.req,
         \A v \in act : w[v].item.req # first.req
  PROVE  Placed(<<first>> \o q, act, w, a, f)
<1> DEFINE again == <<first>> \o q
<1>1. /\ Len(again) = Len(q) + 1 /\ again[1] = first
      /\ \A i \in 1..Len(again) : i # 1 => i - 1 \in 1..Len(q) /\ again[i] = q[i - 1]
  OBVIOUS
<1> HIDE DEF again
<1>2. ASSUME NEW i \in 1..Len(again), NEW j \in 1..Len(again), again[i].req = again[j].req
      PROVE  i = j
  <2>1. CASE i # 1 /\ j # 1
    <3>1. i - 1 = j - 1
      BY <1>1, <1>2, <2>1 DEF Placed
    <3> QED BY <1>1, <3>1
  <2> QED BY <1>1, <1>2, <2>1
<1>3. \A i \in 1..Len(again) : again[i].req \in a \ f /\ \A v \in act : again[i].req # w[v].item.req
  BY <1>1 DEF Placed
<1> QED BY <1>2, <1>3 DEF Placed, again

-----------------------------------------------------------------------------
(* The end of a worker: what it does to the others and to its request.        *)
LEMMA FinishQueue ==
  ASSUME TypeOK, SafetyInv, QueueInv, NEW w \in Workers, FinishParallelTransfer(w)
  PROVE  QueueInv'
<1> DEFINE item   == workers[w].item
           q      == IF WindsUp(w) THEN <<>> ELSE queue
           ended  == IF WindsUp(w) THEN CancelWorkers(active \ {w}, workers) ELSE workers
           others == [ended EXCEPT ![w] = NoWorker]
           again  == IF Requeues(w) THEN <<[item EXCEPT !.attempts = @ + 1]>> \o q ELSE q
           done   == finished \cup (IF workers[w].result = "ok" THEN {item.req} ELSE {})
<1>1. /\ UNCHANGED <<connected, conn, opened, batch, conflict, browserOpen, posted, files, asked>>
      /\ workers[w].phase = "done"
  BY DEF FinishParallelTransfer
<1>2. /\ ended \in [Workers -> WorkerStates] /\ Threads(ended, files)
      /\ \A v \in Workers : ended[v].item = workers[v].item /\ ended[v].phase = workers[v].phase
  BY CancelThreads, CancelWorkersType DEF TypeOK, WorkersOK, QueueInv, ThreadsInv
<1> HIDE DEF ended
<1>3. /\ others \in [Workers -> WorkerStates] /\ others[w] = NoWorker
      /\ \A v \in Workers : v # w => others[v] = ended[v]
  BY <1>2, NoItemType
<1>4. NoWorker.phase = "none"
  BY DEF NoWorker
<1> HIDE DEF others
<1>5. Threads(others, files)
  BY <1>2, <1>3, <1>4 DEF Threads, Lives
<1>6. CASE w \notin active
  <2>1. /\ UNCHANGED <<transferActive, activeTransfer, dirDownload, dirCancelled, active, browser,
                       finished>>
        /\ queue' = q /\ workers' = others
    BY <1>6 DEF FinishParallelTransfer, others, ended
  <2>2. queue' \in {queue, <<>>}
    BY <2>1
  <2>3. ThreadsInv'
    BY <1>1, <1>2, <1>3, <1>4, <1>5, <1>6, <2>1 DEF QueueInv, ThreadsInv, NoneForgotten, Lives
  <2>4. BrowserInv'
    BY <1>1, <1>2, <1>3, <1>4, <2>1
       DEF QueueInv, BrowserInv, Attached, Expected, AsksListing, IsReport
  <2>5. OnceInv'
    <3>1. \A v \in active : workers'[v].item = workers[v].item
      BY <1>2, <1>3, <1>6, <2>1 DEF TypeOK, WorkersOK
    <3> QED BY <1>1, <2>1, <2>2, <3>1 DEF QueueInv, OnceInv, Placed
  <2>6. WorkInv' /\ CancelInv'
    BY <1>1, <2>1, <2>2 DEF QueueInv, WorkInv, CancelInv
  <2> QED BY <2>3, <2>4, <2>5, <2>6 DEF QueueInv
<1>7. CASE w \in active
  <2>1. finished' = done /\ StartParallelTransfers(again, active \ {w}, others)
    BY <1>7 DEF FinishParallelTransfer, others, ended
  <2>2. ~ dirDownload /\ conn # 0 /\ opened # 0
    BY <1>7 DEF QueueInv, WorkInv, BrowserInv, Attached
  <2>3. StartLoop(again, active \ {w}, others)
    BY <2>1, <2>2 DEF StartParallelTransfers
  <2>4. again \in Seq(Items)
    <3>1. q \in Seq(Items)
      BY EmptySequences DEF TypeOK, QueuesOK
    <3>2. Requeues(w) => [item EXCEPT !.attempts = @ + 1] \in Items
      BY WorkerTypes DEF Requeues, Items, MaxRetries, WorkerStates
    <3> HIDE DEF q, item
    <3> QED BY <3>1, <3>2
  <2>5. Placed(again, active \ {w}, others, asked', finished')
    <3>1. Placed(q, active \ {w}, others, asked', finished')
      <4>1. \A v \in active \ {w} : others[v].item = workers[v].item
        BY <1>2, <1>3 DEF TypeOK, WorkersOK
      <4>2. item.req \in asked \ finished /\ \A i \in 1..Len(q) : q[i].req # item.req
        BY <1>7 DEF QueueInv, OnceInv, Placed
      <4>3. \A v \in active \ {w} : workers[v].item.req # item.req
        BY <1>7 DEF SafetyInv, Consistent
      <4>4. q \in {queue, <<>>}
        OBVIOUS
      <4> HIDE DEF q, item
      <4> QED BY <1>1, <2>1, <4>1, <4>2, <4>3, <4>4 DEF QueueInv, OnceInv, Placed
    <3>2. CASE ~ Requeues(w)
      BY <3>1, <3>2
    <3>3. CASE Requeues(w)
      <4> DEFINE first == [item EXCEPT !.attempts = @ + 1]
      <4>1. first.req = item.req /\ done = finished
        BY <3>3, WorkerTypes DEF Requeues, WorkerStates, Items
      <4>2. /\ item.req \in asked \ finished
            /\ \A i \in 1..Len(q) : q[i].req # item.req
            /\ \A v \in active \ {w} : others[v].item.req # item.req
        <5>1. \A v \in active \ {w} : workers[v].item.req # item.req
          BY <1>7 DEF SafetyInv, Consistent
        <5> QED BY <1>2, <1>3, <1>7, <5>1 DEF QueueInv, OnceInv, Placed, TypeOK, WorkersOK
      <4>3. again = <<first>> \o q /\ q \in Seq(Items)
        BY <3>3, EmptySequences DEF TypeOK, QueuesOK
      <4>4. first \in Items
        BY <3>3, WorkerTypes DEF Requeues, Items, MaxRetries, WorkerStates
      <4> HIDE DEF again, q, first, done, item
      <4> QED BY <1>1, <2>1, <3>1, <4>1, <4>2, <4>3, <4>4, PushedPlaced
    <3> QED BY <3>2, <3>3
  <2>6. \A i \in 1..Len(again) : again[i].req \in Requests
    <3> HIDE DEF again
    <3> QED BY <1>1, <2>5 DEF Placed, TypeOK, HistoryOK
  <2>7. NoneForgotten(active \ {w}, others)
    BY <1>2, <1>3, <1>4, <2>2 DEF QueueInv, ThreadsInv, NoneForgotten, Lives
  <2>8. \A v \in active \ {w} : others[v].phase # "none"
    BY <1>2, <1>3 DEF SafetyInv, Consistent, TypeOK, WorkersOK
  <2>9. active \ {w} \in SUBSET Workers
    BY DEF TypeOK, WorkersOK
  <2>10. conflict'[batch'].cancelled => again = <<>>
    BY <1>1 DEF Requeues, WindsUp
  <2> HIDE DEF again
  <2>11. WorkInv' /\ OnceInv'
    BY <1>3, <2>3, <2>4, <2>5, <2>8, <2>9, LoopWork, LoopOnce
  <2>12. ThreadsInv'
    BY <1>1, <1>3, <1>5, <2>3, <2>4, <2>6, <2>7, <2>9, LoopThreads DEF ThreadsInv
  <2>13. BrowserInv'
    <3>1. \A i \in 1..Len(browser) : browser[i].op \in {"connect", "list"}
      BY <2>2 DEF QueueInv, BrowserInv, Expected, AsksListing
    <3>2. \A i \in 1..Len(posted) : ~ IsReport(i)
      BY <2>2 DEF QueueInv, BrowserInv, Expected
    <3>3. \A i \in 1..Len(posted) : posted[i].conn # 0 /\ posted[i].result # "cancelled"
      BY DEF QueueInv, BrowserInv, Attached
    <3> QED BY <1>1, <2>2, <2>3, <3>1, <3>2, <3>3, LoopBrowser
            DEF TypeOK, QueuesOK, BrowserOK, IsReport, QueueInv, BrowserInv
  <2>14. CancelInv'
    BY <1>1, <2>3, <2>4, <2>10, LoopCancel DEF CancelInv, QueueInv
  <2> QED BY <2>11, <2>12, <2>13, <2>14 DEF QueueInv
<1> QED BY <1>6, <1>7

-----------------------------------------------------------------------------
(* The browser connection.                                                    *)
LEMMA ServesQueue ==
  ASSUME TypeOK, QueueInv, Undisturbed, BrowserServes
  PROVE  QueueInv'
<1>1. /\ browser # <<>> /\ browser \in Seq(BrowserRequest) /\ posted \in Seq(Signal)
      /\ browser' = Tail(browser) /\ ~ browserOpen'
      /\ UNCHANGED <<gui, policy, workers, files, history>>
  BY DEF BrowserServes, TypeOK, QueuesOK, BrowserOK
<1>2. Head(browser) = browser[1] /\ browser[1].op \in {"connect", "list", "dirList"} /\ conn # 0
  BY <1>1 DEF QueueInv, BrowserInv, Attached
<1>3. /\ Len(browser') = Len(browser) - 1
      /\ \A i \in 1..Len(browser') : i + 1 \in 1..Len(browser) /\ browser'[i] = browser[i + 1]
  BY <1>1
<1>4. \/ posted' = posted /\ conflict' = conflict
      \/ \E signal \in Signals(Head(browser)) :
           /\ browser[1].op \in {"connect", "dirList"} /\ posted' = Append(posted, signal)
           /\ conflict' = IF signal.result = "cancelled" /\ connBatch # 0
                            THEN [conflict EXCEPT ![connBatch].cancelled = TRUE]
                            ELSE conflict
  BY <1>2 DEF BrowserServes, Undisturbed
<1>5. \A signal \in Signals(Head(browser)) : browser[1].op \in {"connect", "dirList"} =>
        /\ signal.conn = conn /\ signal.result # "cancelled"
        /\ signal.kind = "operation" => signal.result = "failed"
        /\ signal.kind \in {"dirListed", "operation"} => browser[1].op = "dirList"
  BY <1>2 DEF Signals, Reply
<1>6. conflict' = conflict
  BY <1>4, <1>5
<1>7. /\ \A i \in 1..Len(posted) : posted'[i] = posted[i]
      /\ \/ Len(posted') = Len(posted)
         \/ /\ Len(posted') = Len(posted) + 1
            /\ posted'[Len(posted')].conn # 0 /\ posted'[Len(posted')].result # "cancelled"
            /\ posted'[Len(posted')].kind = "operation" => posted'[Len(posted')].result = "failed"
            /\ posted'[Len(posted')].kind \in {"dirListed", "operation"} => browser[1].op = "dirList"
  <2>1. CASE posted' = posted
    BY <2>1
  <2>2. ASSUME NEW signal \in Signals(Head(browser)), posted' = Append(posted, signal),
               browser[1].op \in {"connect", "dirList"}
        PROVE  /\ \A i \in 1..Len(posted) : posted'[i] = posted[i]
               /\ Len(posted') = Len(posted) + 1 /\ posted'[Len(posted')] = signal
    BY <1>1, <2>2
  <2> QED BY <1>2, <1>4, <1>5, <2>1, <2>2
<1>8. BrowserInv'
  <2>1. Attached'
    BY <1>1, <1>2, <1>7 DEF QueueInv, BrowserInv, Attached, gui
  <2>2. Expected'
    <3> USE DEF AsksListing, IsReport
    <3>1. Expected /\ dirDownload' = dirDownload
      BY <1>1, <1>2 DEF QueueInv, BrowserInv, gui
    <3>2. \A i \in 1..Len(browser') : AsksListing(i)' => browser[i + 1].op = "dirList"
      BY <1>3
    <3>3. \A i \in 1..Len(posted') : IsReport(i)' =>
            (i \in 1..Len(posted) /\ IsReport(i)) \/ (i = Len(posted) + 1 /\ browser[1].op = "dirList")
      BY <1>7
    <3>4. \A i \in 1..Len(browser') : browser[1].op = "dirList" => browser'[i].op # "dirList"
      BY <1>1, <1>3, <3>1 DEF Expected
    <3>5. browser[1].op = "dirList" => dirDownload /\ \A i \in 1..Len(posted) : ~ IsReport(i)
      BY <1>1, <3>1 DEF Expected
    <3>6. \A i, j \in 1..Len(browser') : AsksListing(i)' /\ AsksListing(j)' => i = j
      <4>1. \A i, j \in 1..Len(browser') : AsksListing(i)' /\ AsksListing(j)' => i + 1 = j + 1
        BY <1>3, <3>1, <3>2 DEF Expected
      <4> QED BY <1>1, <1>3, <4>1
    <3>7. \A i, j \in 1..Len(posted') : IsReport(i)' /\ IsReport(j)' => i = j
      BY <3>1, <3>3, <3>5 DEF Expected
    <3>8. \A i \in 1..Len(browser'), j \in 1..Len(posted') : ~ (AsksListing(i)' /\ IsReport(j)')
      BY <1>3, <3>1, <3>3, <3>4 DEF Expected
    <3>9. \A i \in 1..Len(browser') : AsksListing(i)' => dirDownload'
      BY <1>3, <3>1, <3>2 DEF Expected
    <3>10. \A j \in 1..Len(posted') : IsReport(j)' => dirDownload'
      BY <3>1, <3>3, <3>5 DEF Expected
    <3> QED BY <3>6, <3>7, <3>8, <3>9, <3>10 DEF Expected
  <2>3. ~ browserOpen'
    BY <1>1
  <2>4. \A i \in 1..Len(browser') : browser'[i].op \in {"connect", "list", "dirList"}
    BY <1>3 DEF QueueInv, BrowserInv
  <2>5. \A i \in 1..Len(posted) : /\ posted[i].kind = "operation" => posted[i].result = "failed"
                                  /\ posted[i].result # "cancelled"
    BY DEF QueueInv, BrowserInv
  <2>6. \A i \in 1..Len(posted') : /\ posted'[i].kind = "operation" => posted'[i].result = "failed"
                                   /\ posted'[i].result # "cancelled"
    BY <1>1, <1>7, <2>5
  <2> QED BY <2>1, <2>2, <2>3, <2>4, <2>6 DEF BrowserInv
<1>9. ThreadsInv' /\ WorkInv' /\ OnceInv' /\ CancelInv'
  BY <1>1, <1>6 DEF QueueInv, ThreadsInv, WorkInv, OnceInv, CancelInv, gui, history
<1> QED BY <1>8, <1>9 DEF QueueInv

(* The first signal reaches the GUI thread.                                   *)
LEMMA PostedTail ==
  ASSUME TypeOK, posted # <<>>, posted' = Tail(posted)
  PROVE  /\ Head(posted) = posted[1] /\ 1 \in 1..Len(posted) /\ Len(posted') = Len(posted) - 1
         /\ \A i \in 1..Len(posted') : /\ i + 1 \in 1..Len(posted) /\ i + 1 # 1
                                       /\ posted'[i] = posted[i + 1]
  BY DEF TypeOK, BrowserOK

(* The browser's part when a signal is gone and at most a plain listing is    *)
(* asked for; a report may end what was being listed.                         *)
LEMMA HeardBrowser ==
  ASSUME TypeOK, BrowserInv, posted # <<>>, posted' = Tail(posted),
         UNCHANGED <<conn, opened, browserOpen, workers>>,
         connected' => conn # 0, transferActive' => transferActive,
         \/ browser' = browser
         \/ conn # 0 /\ browser' = Append(browser, Request("list", NoItem)),
         dirDownload' = dirDownload \/ IsReport(1)
  PROVE  BrowserInv'
<1>1. /\ 1 \in 1..Len(posted) /\ Len(posted') = Len(posted) - 1
      /\ \A i \in 1..Len(posted') : /\ i + 1 \in 1..Len(posted) /\ i + 1 # 1
                                    /\ posted'[i] = posted[i + 1]
  BY PostedTail
<1>2. /\ \A i \in 1..Len(browser) : browser'[i] = browser[i]
      /\ \/ Len(browser') = Len(browser)
         \/ Len(browser') = Len(browser) + 1 /\ browser'[Len(browser')].op = "list"
  <2>1. Request("list", NoItem).op = "list" /\ browser \in Seq(BrowserRequest)
    BY DEF Request, TypeOK, QueuesOK
  <2> QED BY <2>1
<1>3. \A i \in 1..Len(browser') :
        /\ browser'[i].op \in {"connect", "list", "dirList"}
        /\ browser'[i].op = "dirList" => i \in 1..Len(browser) /\ browser[i].op = "dirList"
  BY <1>2 DEF BrowserInv
<1>4. Attached'
  <2>1. browser = <<>> /\ conn = 0 => browser' = <<>>
    OBVIOUS
  <2> QED BY <1>1, <2>1 DEF BrowserInv, Attached
<1>5. ASSUME conn # 0
      PROVE  Expected'
  <2> USE DEF AsksListing, IsReport
  <2>1. Expected
    BY <1>5 DEF BrowserInv
  <2>2. \A i, j \in 1..Len(posted') : IsReport(i)' /\ IsReport(j)' => i = j
    <3>1. \A i, j \in 1..Len(posted') : IsReport(i)' /\ IsReport(j)' => i + 1 = j + 1
      BY <1>1, <2>1 DEF Expected
    <3>2. ASSUME NEW i \in 1..Len(posted'), NEW j \in 1..Len(posted'), IsReport(i)', IsReport(j)'
          PROVE  i = j
      <4>1. i + 1 = j + 1 /\ i \in Int /\ j \in Int
        BY <3>1, <3>2
      <4> QED BY <4>1
    <3> QED BY <3>2
  <2>3. \A i \in 1..Len(browser') : AsksListing(i)' => dirDownload'
    BY <1>1, <1>3, <2>1 DEF Expected
  <2>4. \A j \in 1..Len(posted') : IsReport(j)' => dirDownload'
    BY <1>1, <2>1 DEF Expected
  <2>5. \A i \in 1..Len(browser'), j \in 1..Len(posted') : ~ (AsksListing(i)' /\ IsReport(j)')
    BY <1>1, <1>3, <2>1 DEF Expected
  <2>6. \A i, j \in 1..Len(browser') : AsksListing(i)' /\ AsksListing(j)' => i = j
    BY <1>3, <2>1 DEF Expected
  <2> QED BY <2>2, <2>3, <2>4, <2>5, <2>6 DEF Expected
<1> QED BY <1>1, <1>3, <1>4, <1>5 DEF BrowserInv

LEMMA SuccessQueue ==
  ASSUME TypeOK, QueueInv, ConnectionSuccess
  PROVE  QueueInv'
<1>1. /\ posted # <<>> /\ posted' = Tail(posted)
      /\ UNCHANGED <<conn, opened, queue, transferActive, activeTransfer, dirDownload,
                     dirCancelled, active, batch, conflict, workers, browserOpen, files, history>>
      /\ \/ UNCHANGED <<connected, browser>>
         \/ /\ Head(posted).conn = conn
            /\ browser' = Append(browser, Request("list", NoItem))
  BY DEF ConnectionSuccess
<1>2. Head(posted).conn # 0
  BY <1>1, PostedTail DEF QueueInv, BrowserInv, Attached
<1>3. BrowserInv'
  <2>1. connected' => conn # 0
    BY <1>1, <1>2 DEF QueueInv, BrowserInv, Attached
  <2> QED BY <1>1, <1>2, <2>1, HeardBrowser DEF QueueInv
<1>4. ThreadsInv' /\ WorkInv' /\ OnceInv' /\ CancelInv'
  BY <1>1 DEF QueueInv, ThreadsInv, WorkInv, OnceInv, CancelInv, history
<1> QED BY <1>3, <1>4 DEF QueueInv

LEMMA FailedQueue ==
  ASSUME TypeOK, QueueInv, ConnectionFailed
  PROVE  QueueInv'
<1>1. posted # <<>> /\ posted' = Tail(posted)
  BY DEF ConnectionFailed
<1>2. CASE StopSession
  BY <1>1, <1>2, StopSessionQueue
<1>3. CASE UNCHANGED <<gui, conflict, policy, workers, browser, browserOpen, files, history>>
  <2>1. BrowserInv'
    BY <1>1, <1>3, HeardBrowser DEF QueueInv, BrowserInv, Attached, gui
  <2>2. ThreadsInv' /\ WorkInv' /\ OnceInv' /\ CancelInv'
    BY <1>3 DEF QueueInv, ThreadsInv, WorkInv, OnceInv, CancelInv, gui, history
  <2> QED BY <2>1, <2>2 DEF QueueInv
<1> QED BY <1>2, <1>3 DEF ConnectionFailed

(* The folder's entries join the queue, unless the user cancelled meanwhile.  *)
LEMMA EntriesQueue ==
  ASSUME TypeOK, SafetyInv, QueueInv, DirectoryListed,
         NEW entries \in Seq(Requests),
         entries = IF dirCancelled THEN <<>> ELSE Listing(activeTransfer.req),
         dirDownload, Head(posted).conn = conn,
         asked' = asked \cup {entries[i] : i \in 1..Len(entries)},
         finished' = IF dirCancelled THEN finished ELSE finished \cup {activeTransfer.req},
         StartLoop(queue \o [i \in 1..Len(entries) |-> NewItem(entries[i])], active, workers)
  PROVE  QueueInv'
<1> DEFINE q == queue \o [i \in 1..Len(entries) |-> NewItem(entries[i])]
<1>1. /\ posted # <<>> /\ posted' = Tail(posted) /\ Head(posted).kind = "dirListed"
      /\ UNCHANGED <<connected, conn, opened, batch, conflict, browserOpen, files>>
  BY DEF DirectoryListed
<1>2. conn # 0 /\ opened # 0
  BY <1>1, PostedTail DEF QueueInv, BrowserInv, Attached
<1>3. q \in Seq(Items) /\ StartLoop(q, active, workers)
  <2>1. q \in Seq(Items)
    <3> DEFINE new == [i \in 1..Len(entries) |-> NewItem(entries[i])]
    <3>1. new \in Seq(Items)
      BY NewItemsType
    <3>2. queue \in Seq(Items)
      BY DEF TypeOK, QueuesOK
    <3> HIDE DEF new
    <3>3. queue \o new \in Seq(Items)
      BY <3>1, <3>2
    <3> QED BY <3>3 DEF new
  <2>2. StartLoop(q, active, workers)
    OBVIOUS
  <2> QED BY <2>1, <2>2
<1>4. active = {} /\ activeTransfer.req \in asked \ finished /\ activeTransfer.req \in Requests
  BY DEF QueueInv, WorkInv, OnceInv, TypeOK, HistoryOK
<1>5. Placed(q, active, workers, asked', finished')
  <2>1. Placed(queue, active, workers, asked, finished')
    <3>1. \A i \in 1..Len(queue) : queue[i].req # activeTransfer.req
      BY DEF QueueInv, OnceInv
    <3>2. CASE finished' = finished
      BY <3>2 DEF QueueInv, OnceInv
    <3>3. CASE finished' = finished \cup {activeTransfer.req}
      BY <1>4, <3>1, <3>3 DEF QueueInv, OnceInv, Placed
    <3> QED BY <3>2, <3>3
  <2>2. NoneTwice(entries)
    <3>1. CASE dirCancelled
      BY <3>1 DEF NoneTwice
    <3>2. CASE ~ dirCancelled
      BY <1>4, <3>2, OccurrencesAssumption
    <3> QED BY <3>1, <3>2
  <2>3. \A i \in 1..Len(entries) : ~ dirCancelled /\ Lists(activeTransfer.req, entries[i])
                                   /\ entries[i] \in Requests
    BY DEF Lists
  <2>4. \A i \in 1..Len(entries) : entries[i] \notin asked
    BY <1>4, <2>3 DEF QueueInv, OnceInv, Placed
  <2>5. \A i \in 1..Len(entries), folder \in Requests \ finished' : ~ Lists(folder, entries[i])
    BY <1>4, <2>3, OccurrencesAssumption
  <2> QED BY <2>1, <2>2, <2>4, <2>5, JoinedPlaced DEF TypeOK, QueuesOK
<1>6. \A i \in 1..Len(q) : q[i].req \in Requests
  <2>1. asked' \subseteq Requests
    BY DEF TypeOK, HistoryOK
  <2> HIDE DEF q
  <2> QED BY <1>5, <2>1 DEF Placed
<1>7. conflict'[batch'].cancelled => q = <<>>
  <2>1. conflict[batch].cancelled => entries = <<>> /\ queue = <<>>
    BY DEF QueueInv, CancelInv
  <2> QED BY <1>1, <2>1
<1> HIDE DEF q
<1>8. WorkInv' /\ OnceInv'
  BY <1>3, <1>5, LoopWork, LoopOnce DEF TypeOK, WorkersOK, SafetyInv, Consistent
<1>9. ThreadsInv'
  BY <1>1, <1>2, <1>3, <1>6, LoopThreads DEF TypeOK, WorkersOK, QueueInv, ThreadsInv
<1>10. BrowserInv'
  <2>1. IsReport(1) /\ 1 \in 1..Len(posted)
    BY <1>1, PostedTail DEF IsReport
  <2>2. \A i \in 1..Len(browser) : browser[i].op \in {"connect", "list"}
    BY <1>2, <2>1 DEF QueueInv, BrowserInv, Expected, AsksListing
  <2>3. \A i \in 1..Len(posted') : ~ IsReport(i)'
    BY <1>1, <1>2, <2>1, PostedTail DEF QueueInv, BrowserInv, Expected, IsReport
  <2>4. \A i \in 1..Len(posted') : posted'[i].conn # 0 /\ posted'[i].result # "cancelled"
    BY <1>1, PostedTail DEF QueueInv, BrowserInv, Attached
  <2>5. posted' \in Seq(Signal) /\ browser \in Seq(BrowserRequest) /\ ~ browserOpen'
    BY <1>1 DEF TypeOK, QueuesOK, BrowserOK, QueueInv, BrowserInv
  <2> QED BY <1>1, <1>2, <1>3, <2>2, <2>3, <2>4, <2>5, LoopBrowser
<1>11. CancelInv'
  BY <1>1, <1>3, <1>7, LoopCancel DEF CancelInv, QueueInv
<1> QED BY <1>8, <1>9, <1>10, <1>11 DEF QueueInv

(* The folder being listed is given up, and the queue with it.                *)
LEMMA GivenUpQueue ==
  ASSUME TypeOK, QueueInv, posted # <<>>, posted' = Tail(posted), IsReport(1), dirDownload,
         EndDirectoryDownload,
         UNCHANGED <<connected, conn, opened, active, batch, conflict, workers, browser,
                     browserOpen, files, history>>
  PROVE  QueueInv'
<1>1. queue' = <<>> /\ ~ dirDownload' /\ ~ transferActive' /\ active' = {}
  BY DEF EndDirectoryDownload, QueueInv, WorkInv
<1>2. BrowserInv'
  BY <1>1, HeardBrowser DEF QueueInv, BrowserInv, Attached
<1>3. WorkInv' /\ OnceInv' /\ CancelInv' /\ ThreadsInv'
  BY <1>1 DEF QueueInv, WorkInv, OnceInv, Placed, CancelInv, ThreadsInv, history
<1> QED BY <1>2, <1>3 DEF QueueInv

LEMMA ListedQueue ==
  ASSUME TypeOK, SafetyInv, QueueInv, DirectoryListed
  PROVE  QueueInv'
<1> DEFINE entries == IF dirCancelled THEN <<>> ELSE Listing(activeTransfer.req)
           mine == Head(posted).conn = conn /\ dirDownload /\ Head(posted).item = activeTransfer
<1>1. /\ posted # <<>> /\ posted' = Tail(posted) /\ Head(posted).kind = "dirListed"
      /\ UNCHANGED <<connected, conn, opened, batch, conflict, browserOpen, files>>
  BY DEF DirectoryListed
<1>2. CASE /\ mine
           /\ asked' = asked \cup {entries[i] : i \in 1..Len(entries)}
           /\ finished' = IF dirCancelled THEN finished ELSE finished \cup {activeTransfer.req}
           /\ StartLoop(queue \o [i \in 1..Len(entries) |-> NewItem(entries[i])], active, workers)
  <2>1. activeTransfer.req \in Requests
    BY <1>2 DEF QueueInv, OnceInv, TypeOK, HistoryOK
  <2>2. entries \in Seq(Requests)
    BY <2>1, RequestsAssumption, EmptySequences
  <2> HIDE DEF entries
  <2>3. entries = IF dirCancelled THEN <<>> ELSE Listing(activeTransfer.req)
    BY DEF entries
  <2> QED BY <1>2, <2>2, <2>3, EntriesQueue
<1>3. CASE /\ mine /\ EndDirectoryDownload
           /\ UNCHANGED <<workers, active, activeTransfer, browser, history>>
  BY <1>1, <1>3, PostedTail, GivenUpQueue DEF IsReport
<1>4. CASE UNCHANGED <<queue, transferActive, activeTransfer, dirDownload, dirCancelled, active,
                       workers, browser, history>>
  <2>1. BrowserInv'
    BY <1>1, <1>4, HeardBrowser DEF QueueInv, BrowserInv, Attached
  <2>2. ThreadsInv' /\ WorkInv' /\ OnceInv' /\ CancelInv'
    BY <1>1, <1>4 DEF QueueInv, ThreadsInv, WorkInv, OnceInv, CancelInv, history
  <2> QED BY <2>1, <2>2 DEF QueueInv
<1> QED BY <1>1, <1>2, <1>3, <1>4 DEF DirectoryListed

(* Nothing else than the listing of a folder is reported by "finished".       *)
LEMMA NothingReported ==
  ASSUME TypeOK, QueueInv, OperationFinished
  PROVE  /\ Head(posted).result = "failed" /\ IsReport(1)
         /\ ~ dirDownload =>
              UNCHANGED <<queue, transferActive, activeTransfer, dirDownload, dirCancelled, browser>>
<1>1. posted # <<>> /\ Head(posted).kind = "operation"
  BY DEF OperationFinished
<1>2. Head(posted) = posted[1] /\ 1 \in 1..Len(posted) /\ IsReport(1)
  BY <1>1 DEF IsReport, TypeOK, BrowserOK
<1>3. Head(posted).result = "failed"
  BY <1>1, <1>2 DEF QueueInv, BrowserInv
<1>4. ASSUME ~ dirDownload
      PROVE  UNCHANGED <<queue, transferActive, activeTransfer, dirDownload, dirCancelled, browser>>
  <2>1. conn = 0
    BY <1>2, <1>4 DEF QueueInv, BrowserInv, Expected
  <2>2. ~ transferActive
    BY <2>1 DEF QueueInv, BrowserInv, Attached
  <2> QED BY <1>3, <1>4, <2>2 DEF OperationFinished
<1> QED BY <1>2, <1>3, <1>4

LEMMA OperationQueue ==
  ASSUME TypeOK, QueueInv, OperationFinished
  PROVE  QueueInv'
<1>1. /\ posted # <<>> /\ posted' = Tail(posted) /\ Head(posted).kind = "operation"
      /\ UNCHANGED <<connected, conn, opened, active, batch, conflict, workers, browserOpen,
                     files, history>>
  BY DEF OperationFinished
<1>2. CASE dirDownload
  BY <1>1, <1>2, NothingReported, GivenUpQueue DEF OperationFinished
<1>3. CASE ~ dirDownload
  <2>1. UNCHANGED <<queue, transferActive, activeTransfer, dirDownload, dirCancelled, browser>>
    BY <1>3, NothingReported
  <2>2. BrowserInv'
    BY <1>1, <2>1, HeardBrowser DEF QueueInv, BrowserInv, Attached
  <2>3. ThreadsInv' /\ WorkInv' /\ OnceInv' /\ CancelInv'
    BY <1>1, <2>1 DEF QueueInv, ThreadsInv, WorkInv, OnceInv, CancelInv, history
  <2> QED BY <2>2, <2>3 DEF QueueInv
<1> QED BY <1>2, <1>3

-----------------------------------------------------------------------------
LEMMA QueueInit ==
  ASSUME Init
  PROVE  QueueInv
<1>1. BrowserInv /\ WorkInv
  BY DEF Init, BrowserInv, Attached, NoWorker, WorkInv
<1>2. ThreadsInv /\ CancelInv
  BY DEF Init, ThreadsInv, Threads, NoneForgotten, Lives, NoWorker, CancelInv, FreshConflict
<1>3. OnceInv
  BY DEF Init, OnceInv, Placed
<1> QED BY <1>1, <1>2, <1>3 DEF QueueInv

LEMMA NextQueue ==
  ASSUME TypeOK, SafetyInv, QueueInv, Undisturbed, [Next]_vars
  PROVE  QueueInv'
<1>1. CASE User
  BY <1>1, UserQueue
<1>2. CASE BrowserOpens
  <2>1. browser # <<>> => Head(browser) = browser[1] /\ 1 \in 1..Len(browser)
    BY DEF TypeOK, QueuesOK
  <2> QED BY <1>2, <2>1 DEF BrowserOpens, QueueInv, BrowserInv
<1>3. CASE BrowserServes
  BY <1>3, ServesQueue
<1>4. CASE Delivery
  BY <1>4, SuccessQueue, FailedQueue, ListedQueue, OperationQueue DEF Delivery
<1>5. ASSUME NEW w \in Workers, WorkerStep(w) \/ Prompt(w) \/ Answer(w) \/ FinishParallelTransfer(w)
      PROVE  QueueInv'
  BY <1>5, WorkerStepQueue, PromptQueue, AnswerQueue, FinishQueue
<1>6. CASE UNCHANGED vars
  BY <1>6 DEF vars, gui, history, QueueInv, BrowserInv, Attached, Expected, AsksListing, IsReport,
              WorkInv, OnceInv, ThreadsInv, CancelInv
<1> QED BY <1>1, <1>2, <1>3, <1>4, <1>5, <1>6 DEF Next

(* The queue's five parts hold together for as long as the program runs.      *)
THEOREM QueueInductive ==
  ASSUME Undisturbed
  PROVE  Spec => []QueueInv
  BY TypeCorrect, SafetyInductive, QueueInit, NextQueue, PTL DEF Spec

-----------------------------------------------------------------------------
LEMMA AtMostOne ==
  ASSUME NEW S, \A x, y \in S : x = y
  PROVE  Cardinality(S) \in {0, 1} /\ (Cardinality(S) = 0 <=> S = {})
<1>1. CASE S = {}
  BY <1>1, FS_EmptySet
<1>2. CASE S # {}
  <2>1. PICK x : S = {x}
    BY <1>2
  <2>2. Cardinality({x}) = 1
    BY FS_Singleton
  <2> QED BY <1>2, <2>1, <2>2
<1> QED BY <1>1, <1>2

(* Pause, cancel and retries have a sound queue to work on: a request waits,  *)
(* is carried or is listed, once, and until it has finished; the sidebar says *)
(* so while any is left; and no destination is open twice.                    *)
THEOREM QueueIsSound ==
  ASSUME Undisturbed
  PROVE  Spec => []QueueSound
<1>1. TypeOK /\ SafetyInv /\ QueueInv => QueueSound
  <2> SUFFICES ASSUME TypeOK, SafetyInv, QueueInv
               PROVE  ActiveWhileWorking /\ EachRequestOnce /\ NeverOpenTwice
    BY DEF QueueSound
  <2>1. ActiveWhileWorking
    BY DEF QueueInv, WorkInv, ActiveWhileWorking
  <2>2. EachRequestOnce
    <3> SUFFICES ASSUME NEW r \in Requests
                 PROVE  LET waiting  == {i \in 1..Len(queue) : queue[i].req = r}
                            carrying == {w \in active : workers[w].item.req = r}
                            listing  == IF dirDownload /\ activeTransfer.req = r THEN 1 ELSE 0
                            places   == Cardinality(waiting) + Cardinality(carrying) + listing
                        IN  places <= 1 /\ (places = 1 => r \notin finished)
      BY DEF EachRequestOnce
    <3> DEFINE waiting  == {i \in 1..Len(queue) : queue[i].req = r}
               carrying == {w \in active : workers[w].item.req = r}
               listed   == dirDownload /\ activeTransfer.req = r
    <3>1. \A i, j \in waiting : i = j
      BY DEF QueueInv, OnceInv, Placed
    <3>2. \A v, w \in carrying : v = w
      BY DEF SafetyInv, Consistent
    <3>3. /\ waiting = {} \/ carrying = {}
          /\ listed => waiting = {} /\ carrying = {}
      BY DEF QueueInv, OnceInv, Placed, WorkInv
    <3>4. waiting # {} \/ carrying # {} \/ listed => r \notin finished
      BY DEF QueueInv, OnceInv, Placed
    <3>5. /\ Cardinality(waiting) \in {0, 1} /\ (Cardinality(waiting) = 0 <=> waiting = {})
          /\ Cardinality(carrying) \in {0, 1} /\ (Cardinality(carrying) = 0 <=> carrying = {})
      <4> HIDE DEF waiting, carrying
      <4> QED BY <3>1, <3>2, AtMostOne
    <3> HIDE DEF waiting, carrying
    <3>6. LET listing == IF listed THEN 1 ELSE 0
              places  == Cardinality(waiting) + Cardinality(carrying) + listing
          IN  places <= 1 /\ (places = 1 => r \notin finished)
      BY <3>3, <3>4, <3>5
    <3> QED BY <3>6 DEF waiting, carrying
  <2>3. NeverOpenTwice
    BY DestinationsApart DEF NeverOpenTwice, Writing, Lives, QueueInv, BrowserInv
  <2> QED BY <2>1, <2>2, <2>3
<1> QED BY <1>1, TypeCorrect, SafetyInductive, QueueInductive, PTL

(* A destination that was not absent when a worker looked, or was created     *)
(* since, is opened only with leave to overwrite it.                          *)
THEOREM NothingOverwrittenUnasked ==
  ASSUME Undisturbed
  PROVE  Spec => NoSilentOverwrite
<1>1. QueueInv /\ [Next]_vars =>
        [\A w \in Workers : workers[w].phase = "approved" /\ workers'[w].phase = "copying"
           /\ files[Destination(workers[w].item.req)] # "absent" => workers[w].overwrite]_vars
  BY DEF QueueInv, ThreadsInv, Threads
<1> QED BY <1>1, QueueInductive, PTL DEF Spec, NoSilentOverwrite

(* With nothing in the queue the start loop starts nothing.                   *)
LEMMA EmptyLoop ==
  ASSUME NEW act, NEW w, StartLoop(<<>>, act, w)
  PROVE  active' = act /\ ~ dirDownload'
<1> DEFINE q == <<>>
<1>1. PICK n \in 0..Len(q), fresh \in SUBSET {v \in Workers : w[v].phase = "none"} :
        \E place \in [fresh -> 1..n] : Launches(q, act, w, n, fresh, place) /\ Leaves(q, n)
  BY StartLoopIs
<1>2. n = 0 /\ q \in Seq(Items)
  BY <1>1, EmptySequences
<1>3. PICK place \in [fresh -> 1..n] : Launches(q, act, w, n, fresh, place) /\ Leaves(q, n)
  BY <1>1
<1>4. fresh = {}
  BY <1>2, <1>3
<1>5. Len(q) = 0 /\ n \in 0..Len(q)
  BY <1>1
<1> HIDE DEF q
<1>6. Rest(q, n) = <<>>
  <2>1. ~ n < Len(q)
    BY <1>2, <1>5
  <2> QED BY <1>2, <1>5, <2>1, RestIs
<1> QED BY <1>3, <1>4, <1>6 DEF Launches, Leaves

Quiet == active' \subseteq active /\ (dirDownload' => dirDownload)

LEMMA NextQuiet ==
  ASSUME TypeOK, QueueInv, [Next]_vars, conflict[batch].cancelled, asked' = asked
  PROVE  Quiet
<1> USE DEF Quiet
<1>1. CASE User
  <2>1. ASSUME NEW selection \in Selections, Enqueue(selection) PROVE FALSE
    <3>1. selection \in Seq(Requests) /\ selection # <<>>
      BY RequestsAssumption, OccurrencesAssumption
    <3>2. 1 \in 1..Len(selection)
      BY <3>1
    <3> QED BY <2>1, <3>2 DEF Enqueue
  <2>2. CASE CancelTransfers \/ ToggleTransferPause \/ WatchedFileChanged
    <3>1. active' = active /\ dirDownload' = dirDownload
      BY <2>2 DEF CancelTransfers, ToggleTransferPause, WatchedFileChanged, gui
    <3> QED BY <3>1
  <2>3. CASE CloseTab \/ SwitchConnection
    BY <2>3 DEF CloseTab, StopSession, SwitchConnection, StopParallelTransfers
  <2> QED BY <1>1, <2>1, <2>2, <2>3 DEF User
<1>2. CASE BrowserOpens \/ BrowserServes \/ UNCHANGED vars
  BY <1>2 DEF BrowserOpens, BrowserServes, vars, gui
<1>3. CASE ConnectionSuccess \/ ConnectionFailed
  BY <1>3 DEF ConnectionSuccess, ConnectionFailed, StopSession, StopParallelTransfers, gui
<1>4. CASE DirectoryListed
  <2> DEFINE entries == IF dirCancelled THEN <<>> ELSE Listing(activeTransfer.req)
  <2>1. dirDownload => entries = <<>> /\ queue = <<>>
    BY DEF QueueInv, CancelInv
  <2>2. dirDownload => queue \o [i \in 1..Len(entries) |-> NewItem(entries[i])] = <<>>
    BY <2>1
  <2>3. CASE /\ dirDownload
             /\ StartLoop(queue \o [i \in 1..Len(entries) |-> NewItem(entries[i])], active, workers)
    BY <2>2, <2>3, EmptyLoop
  <2> QED BY <1>4, <2>3 DEF DirectoryListed, EndDirectoryDownload
<1>5. CASE OperationFinished
  <2>1. CASE dirDownload
    BY <1>5, <2>1 DEF OperationFinished
  <2>2. CASE ~ dirDownload
    <3>1. dirDownload' = dirDownload /\ active' = active
      BY <1>5, <2>2, NothingReported DEF OperationFinished
    <3> QED BY <2>2, <3>1
  <2> QED BY <2>1, <2>2
<1>6. ASSUME NEW w \in Workers, WorkerStep(w) \/ Prompt(w) \/ Answer(w) PROVE Quiet
  BY <1>6 DEF WorkerStep, Connect, BeginUpload, CheckDestination, LockConflict, OpenDestination,
             Copy, Prompt, Answer, AnswerConflict, gui
<1>7. ASSUME NEW w \in Workers, FinishParallelTransfer(w) PROVE Quiet
  <2>1. WindsUp(w) /\ ~ Requeues(w)
    BY DEF WindsUp, Requeues
  <2>2. \/ UNCHANGED <<active, dirDownload>>
        \/ /\ w \in active
           /\ \E others : StartParallelTransfers(<<>>, active \ {w}, others)
    BY <1>7, <2>1 DEF FinishParallelTransfer
  <2> QED BY <2>2, EmptyLoop DEF StartParallelTransfers
<1> QED BY <1>1, <1>2, <1>3, <1>4, <1>5, <1>6, <1>7 DEF Next, Delivery

(* The cancellation of a batch is final: until the user asks for more, no     *)
(* waiting request, retry or folder entry of it starts.                       *)
THEOREM CancellationIsFinal ==
  ASSUME Undisturbed
  PROVE  Spec => CancelledStartsNothing
<1>1. TypeOK /\ QueueInv /\ [Next]_vars =>
        [conflict[batch].cancelled /\ batch' = batch /\ asked' = asked
           => active' \subseteq active /\ (dirDownload' => dirDownload)]_vars
  BY NextQuiet DEF Quiet
<1> QED BY <1>1, TypeCorrect, QueueInductive, PTL DEF Spec, CancelledStartsNothing

-----------------------------------------------------------------------------
(* The steps of an Undisturbed queue are steps of TransferBatch, for every    *)
(* set of requests, workers and limits: wherever its threads, its browser     *)
(* connection and its dialogs take it, a request only moves as promised.      *)
(* That every request ends (EveryFileEnds) needs fairness and is left to TLC. *)

(* Where an item is; a request with no item anywhere is over or idle.         *)
Waits(it) == \E i \in 1..Len(queue) : queue[i] = it
Runs(it) == (\E w \in active : workers[w].item = it) \/ (dirDownload /\ activeTransfer = it)
Placeless(r) == \A it \in Items : Waits(it) \/ Runs(it) => it.req # r

StatesAre ==
  /\ finished \subseteq asked
  /\ \A it \in Items : Waits(it) \/ Runs(it) => it.req \in asked \ finished
  /\ \A it \in Items : Waits(it) => FileState(it.req) = Promise!At("waiting", it.attempts)
  /\ \A it \in Items : Runs(it) => FileState(it.req) = Promise!At("running", it.attempts)
  /\ \A r \in Requests : Placeless(r) =>
       FileState(r) = Promise!At(IF r \in finished THEN "finished"
                                 ELSE IF r \in asked THEN "gone" ELSE "idle", 0)

(* The choice FileState makes is no choice: the item found is the only one.   *)
LEMMA TriesIs ==
  ASSUME NEW it
  PROVE  Tries({it}) = it.attempts
<1>1. (CHOOSE item \in {it} : TRUE) = it
  OBVIOUS
<1> QED BY <1>1 DEF Tries

LEMMA StatesAreSo == TypeOK /\ SafetyInv /\ QueueInv => StatesAre
<1> SUFFICES ASSUME TypeOK, SafetyInv, QueueInv PROVE StatesAre
  OBVIOUS
<1>1. \A it \in Items : Waits(it) \/ Runs(it) => it.req \in asked \ finished
  BY DEF Waits, Runs, QueueInv, OnceInv, Placed
<1>2. ASSUME NEW it \in Items, Waits(it)
      PROVE  FileState(it.req) = Promise!At("waiting", it.attempts)
  <2>1. InQueue(it.req) = {it}
    BY <1>2 DEF InQueue, Waits, QueueInv, OnceInv, Placed
  <2>2. InQueue(it.req) # {} /\ Tries(InQueue(it.req)) = it.attempts
    BY <2>1, TriesIs
  <2>3. ByWorker(it.req) = {} /\ AsFolder(it.req) = {}
    BY <1>2 DEF ByWorker, AsFolder, Waits, QueueInv, OnceInv, Placed
  <2> QED BY <2>2, <2>3 DEF FileState, Promise!At
<1>3. ASSUME NEW it \in Items, NEW w \in active, workers[w].item = it
      PROVE  FileState(it.req) = Promise!At("running", it.attempts)
  <2>1. InQueue(it.req) = {} /\ AsFolder(it.req) = {}
    BY <1>3 DEF InQueue, AsFolder, QueueInv, OnceInv, Placed, WorkInv
  <2>2. ByWorker(it.req) = {it}
    BY <1>3 DEF ByWorker, SafetyInv, Consistent
  <2>3. ByWorker(it.req) # {} /\ Tries(ByWorker(it.req)) = it.attempts
    BY <2>2, TriesIs
  <2> QED BY <2>1, <2>3 DEF FileState, Promise!At
<1>4. ASSUME NEW it \in Items, dirDownload, activeTransfer = it
      PROVE  FileState(it.req) = Promise!At("running", it.attempts)
  <2>1. InQueue(it.req) = {} /\ ByWorker(it.req) = {}
    BY <1>4 DEF InQueue, ByWorker, QueueInv, OnceInv, WorkInv
  <2>2. AsFolder(it.req) = {it}
    BY <1>4 DEF AsFolder
  <2>3. AsFolder(it.req) # {} /\ Tries(AsFolder(it.req)) = it.attempts
    BY <2>2, TriesIs
  <2> QED BY <2>1, <2>3 DEF FileState, Promise!At
<1>5. ASSUME NEW r \in Requests, Placeless(r)
      PROVE  FileState(r) = Promise!At(IF r \in finished THEN "finished"
                                       ELSE IF r \in asked THEN "gone" ELSE "idle", 0)
  <2>1. InQueue(r) = {}
    BY <1>5 DEF InQueue, Placeless, Waits, TypeOK, QueuesOK
  <2>2. ByWorker(r) = {}
    BY <1>5, WorkerTypes DEF ByWorker, Placeless, Runs, TypeOK, WorkersOK, WorkerStates
  <2>3. AsFolder(r) = {}
    BY <1>5 DEF AsFolder, Placeless, Runs, TypeOK, FlagsOK
  <2> QED BY <2>1, <2>2, <2>3 DEF FileState, Promise!At
<1>6. finished \subseteq asked
  BY DEF QueueInv, OnceInv, Placed
<1> QED BY <1>1, <1>2, <1>3, <1>4, <1>5, <1>6 DEF StatesAre, Runs

-----------------------------------------------------------------------------
(* What a step may do to the items: start what waits, put new ones anywhere,  *)
(* drop any, and end or put back the transfer of one request x.               *)
Fresh(it) == it.req \notin asked /\ it.attempts = 0
Running(x) == \E old \in Items : Runs(old) /\ old.req = x
Again(x, it) == it.req = x /\ \E old \in Items : Runs(old) /\ old.req = x /\ it.attempts = old.attempts + 1
Moved(x) ==
  /\ asked \subseteq asked' /\ finished \subseteq finished'
  /\ \A r \in finished' \ finished : r = x /\ Running(x)
  /\ \A it \in Items : Waits(it)' => Waits(it) \/ Fresh(it) \/ Again(x, it)
  /\ \A it \in Items : Runs(it)' => Waits(it) \/ Runs(it) \/ Fresh(it) \/ Again(x, it)

(* The step of one file, and whether it is one of those that come one by one. *)
Alone(a, b) == Promise!Ended(a, b) \/ Promise!Retried(a, b)

LEMMA FileSteps ==
  ASSUME TypeOK, StatesAre, StatesAre', NEW x, Moved(x), NEW r \in Requests
  PROVE  /\ Promise!FileStep(FileState(r), FileState(r)')
         /\ Alone(FileState(r), FileState(r)') => r = x
         /\ FileState(r)' \in Promise!States
<1> DEFINE s == FileState(r)
           t == FileState(r)'
           over == IF r \in finished THEN "finished" ELSE IF r \in asked THEN "gone" ELSE "idle"
<1> USE DEF Promise!FileStep, Promise!Asked, Promise!Started, Promise!Retried, Promise!Ended,
            Promise!GivenUp, Promise!Live, Promise!At, Alone, Promise!States, Promise!Stages
<1>1. ASSUME NEW b \in Items, Waits(b)' \/ Runs(b)', b.req = r
      PROVE  Promise!FileStep(s, t) /\ (Alone(s, t) => r = x) /\ t \in Promise!States
  <2>1. b.attempts \in 0..MaxRetries /\ \E stage \in {"waiting", "running"} :
          /\ t = Promise!At(stage, b.attempts)
          /\ stage = "waiting" => Waits(b)'
    BY <1>1 DEF StatesAre, Items
  <2>2. CASE Waits(b)
    <3>1. s = Promise!At("waiting", b.attempts)
      BY <1>1, <2>2 DEF StatesAre
    <3> HIDE DEF s, t
    <3> QED BY <2>1, <3>1 DEF MaxRetries
  <2>3. CASE Runs(b) /\ Runs(b)'
    <3>1. s = Promise!At("running", b.attempts) /\ t = Promise!At("running", b.attempts)
      BY <1>1, <2>3 DEF StatesAre
    <3> HIDE DEF s, t
    <3> QED BY <2>1, <3>1 DEF MaxRetries
  <2>4. CASE Fresh(b)
    <3>1. Placeless(r) /\ r \notin asked /\ r \notin finished
      BY <1>1, <2>4 DEF StatesAre, Fresh, Placeless
    <3>2. s = Promise!At("idle", 0) /\ b.attempts = 0
      BY <2>4, <3>1 DEF StatesAre, Fresh
    <3> HIDE DEF s, t
    <3> QED BY <2>1, <3>2
  <2>5. CASE Again(x, b)
    <3>1. PICK old \in Items : Runs(old) /\ old.req = x /\ b.attempts = old.attempts + 1 /\ r = x
      BY <1>1, <2>5 DEF Again
    <3>2. s = Promise!At("running", old.attempts)
      BY <3>1 DEF StatesAre
    <3> HIDE DEF s, t
    <3> QED BY <2>1, <3>1, <3>2
  <2> QED BY <1>1, <2>2, <2>3, <2>4, <2>5 DEF Moved
<1>2. ASSUME Placeless(r)'
      PROVE  Promise!FileStep(s, t) /\ (Alone(s, t) => r = x) /\ t \in Promise!States
  <2>1. t = Promise!At(over', 0)
    BY <1>2 DEF StatesAre
  <2>2. ASSUME NEW a \in Items, Waits(a) \/ Runs(a), a.req = r
        PROVE  Promise!FileStep(s, t) /\ (Alone(s, t) => r = x)
    <3>1. r \in asked \ finished /\ r \in asked'
      BY <2>2 DEF StatesAre, Moved
    <3>2. s.stage \in {"waiting", "running"}
      <4>1. s = Promise!At("waiting", a.attempts) \/ s = Promise!At("running", a.attempts)
        BY <2>2 DEF StatesAre
      <4> HIDE DEF s
      <4> QED BY <4>1
    <3>3. r \in finished' => r = x /\ s.stage = "running"
      <4> SUFFICES ASSUME r \in finished' PROVE r = x /\ s.stage = "running"
        OBVIOUS
      <4>1. r = x /\ Running(x)
        BY <3>1 DEF Moved
      <4>2. PICK old \in Items : Runs(old) /\ old.req = r
        BY <4>1 DEF Running
      <4>3. s = Promise!At("running", old.attempts)
        BY <4>2 DEF StatesAre
      <4> HIDE DEF s
      <4> QED BY <4>1, <4>3
    <3> HIDE DEF s, t
    <3> QED BY <2>1, <3>1, <3>2, <3>3
  <2>3. ASSUME Placeless(r)
        PROVE  Promise!FileStep(s, t) /\ (Alone(s, t) => r = x)
    <3>1. s = Promise!At(over, 0)
      BY <2>3 DEF StatesAre
    <3>2. r \in finished' => r \in finished
      BY <2>3 DEF Moved, Running, Placeless
    <3>3. (r \in asked => r \in asked') /\ (r \in finished => r \in finished')
          /\ (r \in finished => r \in asked)
      BY DEF Moved, StatesAre
    <3>4. over' = over \/ (over = "idle" /\ over' = "gone")
      BY <3>2, <3>3
    <3>5. s = t \/ (s = Promise!At("idle", 0) /\ t = Promise!At("gone", 0))
      BY <2>1, <3>1, <3>4
    <3>6. s.stage # "running"
      <4> HIDE DEF s
      <4> QED BY <3>1
    <3> HIDE DEF s, t, over
    <3> QED BY <3>5, <3>6
  <2>4. t \in Promise!States
    <3> HIDE DEF t
    <3> QED BY <2>1 DEF MaxRetries
  <2> QED BY <2>2, <2>3, <2>4 DEF Placeless
<1> QED BY <1>1, <1>2 DEF Placeless

(* The requests being transferred are those of the running workers, which     *)
(* exclude each other and are few enough, or the one folder being listed.     *)
Abstract == [r \in Requests |-> FileState(r)]

LEMMA FilesExclude ==
  TypeOK /\ SafetyInv /\ QueueInv /\ Within(active) => Promise!Exclusive(Abstract)
<1> SUFFICES ASSUME TypeOK, SafetyInv, QueueInv, Within(active)
             PROVE  Promise!Exclusive(Abstract)
  OBVIOUS
<1> DEFINE running == {r \in Requests : FileState(r).stage = "running"}
<1>1. Promise!Running(Abstract) = running
  BY DEF Promise!Running, Abstract
<1>2. StatesAre
  BY StatesAreSo
<1>3. ASSUME NEW r \in running
      PROVE  \/ \E w \in active : workers[w].item.req = r
             \/ dirDownload /\ activeTransfer.req = r
  <2>1. \A it \in Items : Waits(it) => it.req # r
    <3> SUFFICES ASSUME NEW it \in Items, Waits(it), it.req = r PROVE FALSE
      OBVIOUS
    <3>1. FileState(r) = Promise!At("waiting", it.attempts)
      BY <1>2 DEF StatesAre
    <3> QED BY <3>1 DEF Promise!At
  <2>2. ~ Placeless(r)
    <3> SUFFICES ASSUME Placeless(r) PROVE FALSE
      OBVIOUS
    <3>1. FileState(r).stage \in {"finished", "gone", "idle"}
      BY <1>2 DEF StatesAre, Promise!At
    <3> QED BY <3>1
  <2>3. PICK it \in Items : Runs(it) /\ it.req = r
    BY <2>1, <2>2 DEF Placeless
  <2> QED BY <2>3 DEF Runs
<1>4. \A f, g \in running : BusyKey(f) = BusyKey(g) => f = g
  BY <1>3 DEF SafetyInv, Consistent, QueueInv, WorkInv
<1>5. Cardinality(running) <= MaxParallel
  <2>1. CASE dirDownload
    <3>1. running \subseteq {activeTransfer.req}
      BY <1>3, <2>1 DEF QueueInv, WorkInv
    <3>2. IsFiniteSet({activeTransfer.req}) /\ Cardinality({activeTransfer.req}) = 1
      BY FS_Singleton
    <3> HIDE DEF running
    <3>3. Cardinality(running) <= 1 /\ Cardinality(running) \in Nat
      BY <3>1, <3>2, FS_Subset, FS_CardinalityType
    <3> QED BY <3>3, BoundsAssumption
  <2>2. CASE ~ dirDownload
    <3> DEFINE carrier == [r \in running |-> CHOOSE w \in active : workers[w].item.req = r]
    <3>1. \A r \in running : carrier[r] \in active /\ workers[carrier[r]].item.req = r
      BY <1>3, <2>2
    <3> HIDE DEF running
    <3>2. carrier \in Injection(running, active)
      BY <3>1 DEF Injection, IsInjective
    <3> HIDE DEF carrier
    <3>3. IsFiniteSet(running) /\ Cardinality(running) <= Cardinality(active)
      BY <3>2, FS_Injection DEF Within
    <3>4. Cardinality(running) \in Nat /\ Cardinality(active) \in Nat
      BY <3>3, FS_CardinalityType DEF Within
    <3> QED BY <3>3, <3>4, BoundsAssumption DEF Within
  <2> QED BY <2>1, <2>2
<1> HIDE DEF running
<1>6. Promise!Cardinality(running) = Cardinality(running)
  BY DEF Promise!Cardinality, Cardinality
<1> QED BY <1>1, <1>4, <1>5, <1>6 DEF Promise!Exclusive

LEMMA MovedStep ==
  ASSUME TypeOK, StatesAre, StatesAre', Promise!Exclusive(Abstract)', NEW x, Moved(x)
  PROVE  [Promise!Next]_Abstract
<1>1. Abstract' \in [Requests -> Promise!States]
  BY FileSteps DEF Abstract
<1>2. \A r \in Requests : Promise!FileStep(Abstract[r], Abstract'[r])
  BY FileSteps DEF Abstract
<1>3. \A f, g \in Requests :
        Alone(Abstract[f], Abstract'[f]) /\ Alone(Abstract[g], Abstract'[g]) => f = g
  BY FileSteps DEF Abstract
<1>4. Promise!Exclusive(Abstract')
  BY DEF Abstract
<1> QED BY <1>1, <1>2, <1>3, <1>4 DEF Promise!Next, Abstract, Alone

-----------------------------------------------------------------------------
(* The start loop moves what it is given, and nothing else.                   *)
In(it, q) == \E i \in 1..Len(q) : q[i] = it

LEMMA LoopItems ==
  ASSUME NEW q \in Seq(Items), NEW act \in SUBSET Workers, NEW w \in [Workers -> WorkerStates],
         StartLoop(q, act, w), \A v \in act : w[v].phase # "none"
  PROVE  /\ \A it \in Items : Waits(it)' => In(it, q)
         /\ \A it \in Items : Runs(it)' => In(it, q) \/ \E v \in act : w[v].item = it
<1>1. PICK n \in 0..Len(q), fresh \in SUBSET {v \in Workers : w[v].phase = "none"} :
        \E place \in [fresh -> 1..n] : Launches(q, act, w, n, fresh, place) /\ Leaves(q, n)
  BY StartLoopIs
<1>2. PICK place \in [fresh -> 1..n] : Launches(q, act, w, n, fresh, place)
  BY <1>1
<1>3. PICK k \in n..Len(q) :
        /\ queue' \in Seq(Items) /\ Len(queue') <= Len(q) - k
        /\ \A i \in 1..Len(queue') : queue'[i] = q[k + i]
        /\ dirDownload' => k = n + 1 /\ activeTransfer' = q[k]
  BY <1>1, LeavesIs
<1>4. \A i \in 1..Len(queue') : k + i \in 1..Len(q)
  BY <1>3
<1>5. \A v \in fresh : workers'[v].item = q[place[v]] /\ place[v] \in 1..Len(q)
  BY <1>2, LaunchedKeeps DEF Launches
<1>6. \A v \in act : workers'[v] = w[v]
  BY <1>2 DEF Launches
<1>7. active' = act \cup fresh
  BY <1>2 DEF Launches
<1>8. dirDownload' => k \in 1..Len(q)
  BY <1>3
<1>9. ASSUME NEW it \in Items, Waits(it)'
      PROVE  In(it, q)
  <2>1. PICK i \in 1..Len(queue') : queue'[i] = it
    BY <1>9 DEF Waits
  <2> QED BY <1>3, <1>4, <2>1 DEF In
<1>10. ASSUME NEW it \in Items, Runs(it)'
       PROVE  In(it, q) \/ \E v \in act : w[v].item = it
  <2>1. CASE dirDownload' /\ activeTransfer' = it
    BY <1>3, <1>8, <2>1 DEF In
  <2>2. ASSUME NEW v \in active', workers'[v].item = it
        PROVE  In(it, q) \/ \E u \in act : w[u].item = it
    BY <1>5, <1>6, <1>7, <2>2 DEF In
  <2> QED BY <1>10, <2>1, <2>2 DEF Runs
<1> QED BY <1>9, <1>10

(* Steps that only drop items, or leave them where they are.                  *)
LEMMA DroppedMoves ==
  ASSUME queue' \in {queue, <<>>}, active' \subseteq active, UNCHANGED history,
         \A v \in active' : workers'[v].item = workers[v].item,
         dirDownload' => dirDownload /\ activeTransfer' = activeTransfer
  PROVE  Moved(NoRequest)
  BY DEF Moved, Waits, Runs, history

LEMMA ThreadItems ==
  ASSUME TypeOK, NEW w \in Workers, WorkerStep(w) \/ Prompt(w) \/ Answer(w)
  PROVE  Moved(NoRequest)
<1>1. UNCHANGED <<gui, history>>
  BY DEF WorkerStep, Connect, BeginUpload, CheckDestination, LockConflict, OpenDestination, Copy,
     Prompt, Answer, AnswerConflict
<1>2. \A v \in Workers : workers'[v].item = workers[v].item
  <2> USE DEF Lives
  <2>0. Lives(workers[w])
    BY DEF WorkerStep, Connect, BeginUpload, CheckDestination, LockConflict, OpenDestination, Copy,
       Prompt, Answer, AnswerConflict
  <2>1. \A result \in Results :
          Finish(w, result) => \A v \in Workers : workers'[v].item = workers[v].item
    BY <2>0, MovesOn
  <2>2. \A phase \in Phases \ {"none", "approved"} :
          Moves(w, phase) => \A v \in Workers : workers'[v].item = workers[v].item
    BY <2>0, MovesOn
  <2>3. \A choice \in Choices :
          Resolved(w, choice) => \A v \in Workers : workers'[v].item = workers[v].item
    BY <2>0, MovesOn
  <2>4. CASE BeginUpload(w)
    BY <2>4 DEF BeginUpload, TypeOK, WorkersOK, WorkerStates
  <2>5. CASE OpenDestination(w)
    <3>1. Finish(w, "failed") => \A v \in Workers : workers'[v].item = workers[v].item
      BY <2>1 DEF Results
    <3>2. CASE workers' = [workers EXCEPT ![w] =
                            [@ EXCEPT !.phase = "copying",
                                      !.cancel = workers[w].cancel /\ Uploads(w),
                                      !.pause = workers[w].pause /\ Uploads(w)]]
      BY <3>2 DEF TypeOK, WorkersOK, WorkerStates
    <3> QED BY <2>5, <3>1, <3>2 DEF OpenDestination
  <2>6. CASE CheckDestination(w)
    <3>1. Moves(w, "approved") => \A v \in Workers : workers'[v].item = workers[v].item
      BY DEF Moves, TypeOK, WorkersOK, WorkerStates
    <3> QED BY <2>1, <2>2, <2>6, <3>1 DEF CheckDestination, Results, Phases
  <2>7. CASE Connect(w) \/ LockConflict(w) \/ Copy(w)
    BY <2>1, <2>2, <2>7 DEF Connect, LockConflict, Copy, Results, Phases
  <2>8. CASE Prompt(w)
    <3> DEFINE choice == Unprompted(conflict[workers[w].batch], policy)
    <3>1. choice = "ask" \/ choice \in Choices
      BY WorkerTypes DEF Unprompted, TypeOK, ConflictsOK, Conflicts, Decisions, Choices
    <3>2. IF choice = "ask" THEN Moves(w, "dialog") ELSE Resolved(w, choice)
      BY <2>8 DEF Prompt
    <3> HIDE DEF choice
    <3> QED BY <2>2, <2>3, <3>1, <3>2 DEF Phases
  <2>9. CASE Answer(w)
    BY <2>3, <2>9 DEF Answer, AnswerConflict
  <2> QED BY <2>4, <2>5, <2>6, <2>7, <2>8, <2>9 DEF WorkerStep
<1> QED BY <1>1, <1>2, DroppedMoves DEF gui, TypeOK, WorkersOK

(* New requests join the queue and the loop runs.                             *)
LEMMA JoinedMoves ==
  ASSUME TypeOK, SafetyInv, QueueInv, NEW s \in Seq(Requests), NEW x,
         \A i \in 1..Len(s) : s[i] \notin asked,
         asked' = asked \cup {s[i] : i \in 1..Len(s)}, finished \subseteq finished',
         \A r \in finished' \ finished : r = x /\ Running(x),
         StartLoop(queue \o [i \in 1..Len(s) |-> NewItem(s[i])], active, workers)
  PROVE  Moved(x)
<1> DEFINE new == [i \in 1..Len(s) |-> NewItem(s[i])]
           q == queue \o new
<1>1. new \in Seq(Items) /\ Len(new) = Len(s) /\ \A i \in 1..Len(s) : Fresh(new[i])
  BY NewItemsType DEF NewItem, Fresh
<1>2. StartLoop(q, active, workers)
  OBVIOUS
<1> HIDE DEF new
<1>3. q \in Seq(Items) /\ Len(q) = Len(queue) + Len(new)
  <2>1. queue \in Seq(Items) /\ new \in Seq(Items)
    BY <1>1 DEF TypeOK, QueuesOK
  <2>2. queue \o new \in Seq(Items) /\ Len(queue \o new) = Len(queue) + Len(new)
    BY <2>1
  <2> QED BY <2>2
<1>4. ASSUME NEW it \in Items, In(it, q)
      PROVE  Waits(it) \/ Fresh(it)
  <2>1. PICK i \in 1..Len(q) : q[i] = it
    BY <1>4 DEF In
  <2>2. CASE i \in 1..Len(queue)
    BY <1>1, <2>1, <2>2 DEF Waits, TypeOK, QueuesOK
  <2>3. CASE i \notin 1..Len(queue)
    <3>1. i - Len(queue) \in 1..Len(s) /\ q[i] = new[i - Len(queue)]
      BY <1>1, <1>3, <2>3 DEF TypeOK, QueuesOK
    <3> QED BY <1>1, <2>1, <3>1
  <2> QED BY <2>2, <2>3
<1> HIDE DEF q
<1>5. /\ \A it \in Items : Waits(it)' => In(it, q)
      /\ \A it \in Items : Runs(it)' => In(it, q) \/ \E v \in active : workers[v].item = it
  <2>1. \A v \in active : workers[v].phase # "none"
    BY DEF SafetyInv, Consistent
  <2>2. active \in SUBSET Workers /\ workers \in [Workers -> WorkerStates]
    BY DEF TypeOK, WorkersOK
  <2> QED BY <1>2, <1>3, <2>1, <2>2, LoopItems
<1> QED BY <1>4, <1>5 DEF Moved, Runs

LEMMA UserMoves ==
  ASSUME TypeOK, SafetyInv, QueueInv, User
  PROVE  \E x : Moved(x)
<1>1. ASSUME NEW selection \in Selections, Enqueue(selection)
      PROVE  Moved(NoRequest)
  <2>1. /\ selection \in Seq(Requests) /\ \A i \in 1..Len(selection) : selection[i] \notin asked
        /\ asked' = asked \cup {selection[i] : i \in 1..Len(selection)} /\ finished' = finished
        /\ StartLoop(queue \o [i \in 1..Len(selection) |-> NewItem(selection[i])], active, workers)
    BY <1>1, RequestsAssumption DEF Enqueue, StartParallelTransfers
  <2> QED BY <2>1, JoinedMoves
<1>2. ASSUME CancelTransfers \/ CloseTab \/ SwitchConnection
      PROVE  Moved(NoRequest)
  <2>1. /\ queue' = <<>> /\ active' \subseteq active /\ UNCHANGED history
        /\ dirDownload' => dirDownload /\ activeTransfer' = activeTransfer
        /\ \E W : workers' = CancelWorkers(W, workers)
    <3>1. CASE CancelTransfers
      <4>1. workers = CancelWorkers({}, workers)
        BY DEF CancelWorkers, TypeOK, WorkersOK
      <4> QED BY <3>1, <4>1 DEF CancelTransfers
    <3>2. CASE CloseTab \/ SwitchConnection
      BY <3>2 DEF CloseTab, StopSession, SwitchConnection, StopParallelTransfers, history
    <3> QED BY <1>2, <3>1, <3>2
  <2>2. \A v \in Workers : workers'[v].item = workers[v].item
    BY <2>1, CancelKeeps DEF TypeOK, WorkersOK
  <2> QED BY <2>1, <2>2, DroppedMoves DEF TypeOK, WorkersOK
<1>3. ASSUME ToggleTransferPause
      PROVE  Moved(NoRequest)
  <2>1. UNCHANGED <<queue, active, dirDownload, activeTransfer, history>>
    BY <1>3 DEF ToggleTransferPause
  <2>2. \A v \in Workers : workers'[v].item = workers[v].item
    BY <1>3, WorkerTypes DEF ToggleTransferPause, WorkerStates
  <2> QED BY <2>1, <2>2, DroppedMoves DEF TypeOK, WorkersOK
<1>4. ASSUME WatchedFileChanged
      PROVE  Moved(NoRequest)
  BY <1>4, DroppedMoves DEF WatchedFileChanged, gui
<1> QED BY <1>1, <1>2, <1>3, <1>4 DEF User

(* The end of a worker: its request finishes, is put back or is dropped.      *)
LEMMA FinishMoves ==
  ASSUME TypeOK, SafetyInv, QueueInv, NEW w \in Workers, FinishParallelTransfer(w)
  PROVE  \E x : Moved(x)
<1> DEFINE item   == workers[w].item
           q      == IF WindsUp(w) THEN <<>> ELSE queue
           ended  == IF WindsUp(w) THEN CancelWorkers(active \ {w}, workers) ELSE workers
           others == [ended EXCEPT ![w] = NoWorker]
           first  == [item EXCEPT !.attempts = @ + 1]
           again  == IF Requeues(w) THEN <<first>> \o q ELSE q
           done   == finished \cup (IF workers[w].result = "ok" THEN {item.req} ELSE {})
<1>1. /\ ended \in [Workers -> WorkerStates]
      /\ \A v \in Workers : ended[v].item = workers[v].item /\ ended[v].phase = workers[v].phase
  BY CancelKeeps, CancelWorkersType DEF TypeOK, WorkersOK
<1> HIDE DEF ended
<1>2. /\ others \in [Workers -> WorkerStates]
      /\ \A v \in Workers : v # w => others[v] = ended[v]
  BY <1>1, NoItemType
<1>3. asked' = asked
  BY DEF FinishParallelTransfer
<1>4. CASE w \notin active
  <2>1. /\ UNCHANGED <<activeTransfer, dirDownload, active, finished>>
        /\ queue' = q /\ workers' = others
    BY <1>4 DEF FinishParallelTransfer, ended
  <2>2. \A v \in active : workers'[v].item = workers[v].item
    BY <1>1, <1>2, <1>4, <2>1 DEF TypeOK, WorkersOK
  <2> QED BY <1>3, <2>1, <2>2, DroppedMoves DEF history
<1>5. CASE w \in active
  <2>1. finished' = done /\ StartParallelTransfers(again, active \ {w}, others)
    BY <1>5 DEF FinishParallelTransfer, ended
  <2>2. StartLoop(again, active \ {w}, others)
    BY <1>5, <2>1 DEF StartParallelTransfers, QueueInv, WorkInv
  <2>3. item \in Items /\ Runs(item) /\ Running(item.req)
    BY <1>5, WorkerTypes DEF Runs, Running, WorkerStates
  <2>4. q \in Seq(Items) /\ \A it \in Items : In(it, q) => Waits(it)
    BY EmptySequences DEF In, Waits, TypeOK, QueuesOK
  <2>5. Requeues(w) => first \in Items /\ first.req = item.req /\ first.attempts = item.attempts + 1
    BY WorkerTypes DEF Requeues, Items, MaxRetries, WorkerStates
  <2> HIDE DEF q, first, item
  <2>6. again \in Seq(Items) /\ \A it \in Items : In(it, again) => Waits(it) \/ Again(item.req, it)
    <3>1. CASE ~ Requeues(w)
      BY <2>4, <3>1
    <3>2. CASE Requeues(w)
      <4>1. again = <<first>> \o q /\ Again(item.req, first)
        BY <2>3, <2>5, <3>2 DEF Again
      <4>2. /\ again \in Seq(Items)
            /\ \A i \in 1..Len(again) : again[i] = first \/ \E j \in 1..Len(q) : again[i] = q[j]
        BY <2>4, <2>5, <3>2
      <4> HIDE DEF again
      <4> QED BY <2>4, <4>1, <4>2 DEF In
    <3> QED BY <3>1, <3>2
  <2>7. \A v \in active \ {w} : others[v].phase # "none" /\ others[v].item = workers[v].item
    BY <1>1, <1>2 DEF SafetyInv, Consistent, TypeOK, WorkersOK
  <2>8. active \ {w} \in SUBSET Workers
    BY DEF TypeOK, WorkersOK
  <2> HIDE DEF again, others
  <2>9. /\ \A it \in Items : Waits(it)' => In(it, again)
        /\ \A it \in Items : Runs(it)' => In(it, again) \/ \E v \in active \ {w} : others[v].item = it
    BY <1>2, <2>2, <2>6, <2>7, <2>8, LoopItems
  <2>10. \A it \in Items : Runs(it)' => Waits(it) \/ Again(item.req, it) \/ Runs(it)
    BY <2>6, <2>7, <2>9 DEF Runs
  <2>11. Moved(item.req)
    BY <1>3, <2>1, <2>3, <2>6, <2>9, <2>10 DEF Moved
  <2> QED BY <2>11
<1> QED BY <1>4, <1>5

(* What the browser connection reports: a folder's entries take its place.    *)
LEMMA DeliveryMoves ==
  ASSUME TypeOK, SafetyInv, QueueInv, Delivery
  PROVE  \E x : Moved(x)
<1>1. ASSUME ConnectionSuccess
      PROVE  Moved(NoRequest)
  BY <1>1, DroppedMoves DEF ConnectionSuccess
<1>2. ASSUME ConnectionFailed
      PROVE  Moved(NoRequest)
  <2>1. CASE StopSession
    <3>1. \A v \in Workers : workers'[v].item = workers[v].item
      BY <2>1, CancelKeeps DEF StopSession, StopParallelTransfers, TypeOK, WorkersOK
    <3> QED BY <2>1, <3>1, DroppedMoves DEF StopSession, StopParallelTransfers, TypeOK, WorkersOK
  <2>2. CASE UNCHANGED <<gui, workers, history>>
    BY <2>2, DroppedMoves DEF gui
  <2> QED BY <1>2, <2>1, <2>2 DEF ConnectionFailed
<1>3. ASSUME DirectoryListed
      PROVE  \E x : Moved(x)
  <2> DEFINE entries == IF dirCancelled THEN <<>> ELSE Listing(activeTransfer.req)
  <2>1. CASE /\ dirDownload
             /\ asked' = asked \cup {entries[i] : i \in 1..Len(entries)}
             /\ finished' = IF dirCancelled THEN finished ELSE finished \cup {activeTransfer.req}
             /\ StartLoop(queue \o [i \in 1..Len(entries) |-> NewItem(entries[i])], active, workers)
    <3>1. activeTransfer.req \in Requests \ finished
      BY <2>1 DEF QueueInv, OnceInv, TypeOK, HistoryOK
    <3>2. entries \in Seq(Requests)
      BY <3>1, RequestsAssumption, EmptySequences
    <3>3. \A i \in 1..Len(entries) : entries[i] \in Requests /\ Lists(activeTransfer.req, entries[i])
      BY <3>2 DEF Lists
    <3>4. \A i \in 1..Len(entries) : entries[i] \notin asked
      BY <3>1, <3>3 DEF QueueInv, OnceInv, Placed
    <3>5. Running(activeTransfer.req)
      BY <2>1 DEF Running, Runs, TypeOK, FlagsOK
    <3> HIDE DEF entries
    <3>6. Moved(activeTransfer.req)
      BY <2>1, <3>2, <3>4, <3>5, JoinedMoves
    <3> QED BY <3>6
  <2>2. CASE /\ queue' \in {queue, <<>>} /\ (dirDownload' => dirDownload)
             /\ UNCHANGED <<workers, active, activeTransfer, history>>
    BY <2>2, DroppedMoves
  <2> QED BY <1>3, <2>1, <2>2 DEF DirectoryListed, EndDirectoryDownload
<1>4. ASSUME OperationFinished
      PROVE  Moved(NoRequest)
  <2>1. UNCHANGED <<active, workers, history>>
    BY <1>4 DEF OperationFinished
  <2>2. CASE dirDownload
    BY <1>4, <2>1, <2>2, DroppedMoves DEF OperationFinished, EndDirectoryDownload
  <2>3. CASE ~ dirDownload
    BY <1>4, <2>1, <2>3, NothingReported, DroppedMoves
  <2> QED BY <2>2, <2>3
<1> QED BY <1>1, <1>2, <1>3, <1>4 DEF Delivery

LEMMA NextMoves ==
  ASSUME TypeOK, SafetyInv, QueueInv, [Next]_vars
  PROVE  \E x : Moved(x)
<1>1. CASE BrowserOpens \/ BrowserServes \/ UNCHANGED vars
  <2>1. UNCHANGED <<gui, workers, history>>
    BY <1>1 DEF BrowserOpens, BrowserServes, vars
  <2>2. Moved(NoRequest)
    BY <2>1, DroppedMoves DEF gui
  <2> QED BY <2>2
<1> QED BY <1>1, UserMoves, DeliveryMoves, ThreadItems, FinishMoves DEF Next

(* The queue implements the steps of TransferBatch.                           *)
THEOREM StepsAsPromised ==
  ASSUME Undisturbed
  PROVE  Spec => Promise!Steps
<1> DEFINE Inv == TypeOK /\ SafetyInv /\ QueueInv /\ Within(active)
<1>1. Spec => []Inv
  BY TypeCorrect, SafetyInductive, QueueInductive, WithinInductive, PTL
<1>2. Init => Promise!Init
  BY DEF Init, Promise!Init, Promise!At, FileState, InQueue, ByWorker, AsFolder
<1>3. Inv => StatesAre /\ Promise!Exclusive(Abstract)
  BY StatesAreSo, FilesExclude
<1>4. Inv /\ StatesAre /\ (StatesAre /\ Promise!Exclusive(Abstract))' /\ [Next]_vars
        => [Promise!Next]_Abstract
  BY NextMoves, MovedStep
<1> HIDE DEF Inv
<1>5. Inv /\ Inv' /\ [Next]_vars => [Promise!Next]_Abstract
  BY <1>3, <1>4, PTL
<1> QED BY <1>1, <1>2, <1>5, PTL DEF Spec, Promise!Steps, Abstract
=============================================================================
