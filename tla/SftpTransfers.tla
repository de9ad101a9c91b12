---------------------------- MODULE SftpTransfers ----------------------------
(* The transfer queue of the SFTP sidebar in an SSH session: the GUI thread   *)
(* (SftpSidebar), one thread and one SSH connection per running transfer      *)
(* (SftpTransferWorker, SshConnection), the browser connection the sidebar    *)
(* borrows from the terminal tab, and the conflict object the batch shares.   *)
(*                                                                            *)
(* Every GUI handler is one action: the GUI thread runs it without            *)
(* interruption.  A worker's steps are cut where another thread can observe   *)
(* or disturb it: its atomic flags, the conflict mutex, the destination file. *)
EXTENDS Integers, Sequences, FiniteSets, TransferConflict

CONSTANTS
  Requests,        \* what the user can ask for: records [kind, src, dest, ...]
  Listing(_),      \* the entries of a remote folder, as requests, in server order
  Selections,      \* sequences of requests one drop or one click can enqueue
  Preexisting,     \* destinations that exist before the first transfer
  Policies,        \* the stored answers to conflicts the program may start with
  Workers,         \* identities of worker threads (QUuid + QThread)
  MaxParallel,     \* sftp/maxParallelTransfers
  Controls,        \* the controls the user of this instance touches
  BrowserOps,      \* what else happens on the browser connection
  MaxBatches,      \* bound: conflict objects created
  MaxConnections,  \* bound: browser connections attached
  MaxBrowser       \* bound: operations outstanding on the browser connection

Kinds == {"up", "down", "dirUp", "dirDown"}
MaxRetries == 2

(* TransferItem{}: what m_activeTransfer holds before anything was put in it. *)
NoRequest == [kind |-> "down", src |-> "", dest |-> ""]

ASSUME RequestsAssumption ==
  /\ NoRequest \notin Requests
  /\ \A r \in Requests : r.kind \in Kinds
  /\ \A r \in Requests : Listing(r) \in Seq(Requests)
  /\ Selections \subseteq Seq(Requests)
ASSUME BoundsAssumption ==
  /\ MaxParallel \in Nat \ {0}
  /\ MaxBatches \in Nat \ {0} /\ MaxConnections \in Nat /\ MaxBrowser \in Nat
ASSUME ControlsAssumption ==
  /\ Controls \subseteq {"cancel", "pause", "close", "switch"}
  /\ BrowserOps \subseteq {"upload", "listError"}
  /\ Policies \subseteq Decisions
(* A request is one occurrence of a transfer: asking for a file again makes   *)
(* another request, and so does meeting it again in a folder.                 *)
NoneTwice(q) == \A i, j \in 1..Len(q) : q[i] = q[j] => i = j
Lists(folder, r) == \E i \in 1..Len(Listing(folder)) : Listing(folder)[i] = r
ASSUME OccurrencesAssumption ==
  /\ \A selection \in Selections :
       /\ selection # <<>> /\ NoneTwice(selection)
       /\ \A i \in 1..Len(selection), folder \in Requests : ~ Lists(folder, selection[i])
  /\ \A folder \in Requests : NoneTwice(Listing(folder))
  /\ \A folder, other, r \in Requests : Lists(folder, r) /\ Lists(other, r) => folder = other

(* The file a request writes, and what the busy test of the start loop        *)
(* compares: a folder upload has isUpload = false, so its SOURCE is compared. *)
Destination(r) == <<IF r.kind \in {"up", "dirUp"} THEN "remote" ELSE "local", r.dest>>
BusyKey(r) ==
  CASE r.kind = "up"    -> <<"upload", r.dest>>
    [] r.kind = "dirUp" -> <<"other", r.src>>
    [] OTHER            -> <<"other", r.dest>>

Items == [req : Requests \cup {NoRequest}, attempts : 0..MaxRetries]
NoItem == [req |-> NoRequest, attempts |-> 0]
NewItem(r) == [req |-> r, attempts |-> 0]

Phases == {"none", "connecting", "connected", "checking", "locking", "posted",
           "dialog", "approved", "copying", "done"}
Results == {"none", "ok", "failed", "cancelled"}
WorkerStates ==
  [phase : Phases, item : Items, batch : 1..MaxBatches, overwrite : BOOLEAN,
   stop : BOOLEAN,      \* SftpTransferWorker::m_cancelRequested
   cancel : BOOLEAN,    \* SshConnection::m_transferCancelRequested
   pause : BOOLEAN,     \* SshConnection::m_transferPaused
   result : Results]
NoWorker ==
  [phase |-> "none", item |-> NoItem, batch |-> 1, overwrite |-> FALSE, stop |-> FALSE,
   cancel |-> FALSE, pause |-> FALSE, result |-> "none"]

VARIABLES
  connected,       \* m_isConnected
  conn,            \* m_connection: 0 is nullptr, otherwise the n-th connection
  opened,          \* connections attached so far (names the next one)
  queue,           \* m_transferQueue
  transferActive,  \* m_transferActive
  transferPaused,  \* m_transferPaused of the sidebar
  activeTransfer,  \* m_activeTransfer
  dirDownload,     \* m_directoryDownloadActive
  dirCancelled,    \* m_directoryDownloadCancelled
  active,          \* the workers in m_parallelTransfers
  batch,           \* which conflict object m_conflict points to
  conflict,        \* the conflict objects created so far
  connBatch,       \* the conflict object of the browser connection (0: none)
  policy,          \* the stored sftp/existingFilePolicy
  workers,         \* the worker threads
  browser,         \* requests waiting on, or running on, the browser connection
  browserOpen,     \* the transfer at the head of browser has its file open
  posted,          \* the browser connection's signals queued for the GUI thread
  files,           \* the destinations: absent, partial or complete
  asked, finished  \* history: requests enqueued; requests reported successful

gui == <<connected, conn, opened, queue, transferActive, transferPaused, activeTransfer,
         dirDownload, dirCancelled, active, batch, connBatch>>
history == <<asked, finished>>
vars == <<gui, conflict, policy, workers, browser, browserOpen, posted, files, history>>

HasActiveQueue == transferActive \/ queue # <<>>  \* mutant: the running workers are forgotten
HasActiveTransfers == transferActive \/ active # {} \/ queue # <<>>
DialogOpen == \E w \in Workers : workers[w].phase = "dialog"
Outstanding == Len(browser) + Len(posted)

Request(op, item) == [op |-> op, item |-> item]
Reply(kind, item, result) == [kind |-> kind, conn |-> conn, item |-> item, result |-> result]

Init ==
  /\ connected = FALSE /\ conn = 0 /\ opened = 0
  /\ queue = <<>> /\ transferActive = FALSE /\ transferPaused = FALSE
  /\ activeTransfer = NoItem /\ dirDownload = FALSE /\ dirCancelled = FALSE
  /\ active = {} /\ batch = 1 /\ connBatch = 0
  /\ conflict = [b \in 1..MaxBatches |-> FreshConflict]
  /\ policy \in Policies
  /\ workers = [w \in Workers |-> NoWorker]
  /\ browser = <<>> /\ browserOpen = FALSE /\ posted = <<>>
  /\ files \in [{Destination(r) : r \in Requests \cup {NoRequest}} -> {"absent", "complete"}]
  /\ \A d \in DOMAIN files : files[d] = "complete" <=> d \in Preexisting
  /\ asked = {} /\ finished = {}

-----------------------------------------------------------------------------
(* The GUI thread's helpers.  q, act and w are the queue, the list of running *)
(* workers and the worker threads as the calling handler leaves them.         *)

(* cancel(), called directly from the GUI thread on each worker of W.         *)
CancelWorkers(W, w) ==
  [v \in Workers |-> IF v \in W THEN [w[v] EXCEPT !.stop = TRUE, !.cancel = TRUE, !.pause = FALSE]
                     ELSE w[v]]

(* A folder download lists the folder on the browser connection; when the     *)
(* local folder cannot be created, onOperationFinished ends the whole queue.  *)
StartDirectoryDownload(item, q) ==
  /\ activeTransfer' = item
  /\ dirCancelled' = FALSE
  /\ \/ /\ transferActive' = TRUE /\ dirDownload' = TRUE
        /\ queue' = q
        /\ browser' = Append(browser, Request("dirList", item))
     \/ /\ transferActive' = FALSE /\ dirDownload' = FALSE
        /\ queue' = <<>>
        /\ browser' = browser

(* The start loop takes the first n items of q: none is a folder download,    *)
(* none is busy with a running one or an earlier one, and the limit holds.    *)
CanLaunchBusy(q, act, w, n) ==     \* mutant: a busy file is launched again
  Cardinality(act) + n <= MaxParallel /\ \A i \in 1..n : q[i].req.kind # "dirDown"
CanLaunchOneMore(q, act, w, n) ==  \* mutant: the limit is off by one
  /\ Cardinality(act) + n <= MaxParallel + 1
  /\ \A i \in 1..n : q[i].req.kind # "dirDown"
CanLaunch(q, act, w, n) ==
  /\ Cardinality(act) + n <= MaxParallel
  /\ \A i \in 1..n :
       /\ q[i].req.kind # "dirDown"
       /\ \A v \in act : BusyKey(w[v].item.req) # BusyKey(q[i].req)
       /\ \A j \in 1..(i - 1) : BusyKey(q[j].req) # BusyKey(q[i].req)

(* The loop runs only when no folder is being listed: both flags are down.    *)
Launched(item, b) == [NoWorker EXCEPT !.phase = "connecting", !.item = item, !.batch = b]

StartLoop(q, act, w) ==
  \E n \in 0..Len(q) :
    /\ CanLaunch(q, act, w, n)
    /\ n < Len(q) => ~ CanLaunch(q, act, w, n + 1)
    /\ \E fresh \in SUBSET {v \in Workers : w[v].phase = "none"} :
       \E place \in [fresh -> 1..n] :
         /\ \A i \in 1..n : \E v \in fresh : place[v] = i
         /\ \A u, v \in fresh : place[u] = place[v] => u = v
         /\ active' = act \cup fresh
         /\ workers' = [v \in Workers |-> IF v \in fresh THEN Launched(q[place[v]], batch') ELSE w[v]]
    /\ LET rest == SubSeq(q, n + 1, Len(q)) IN
       \/ /\ active' # {}
          /\ queue' = rest /\ transferActive' = TRUE
          /\ dirDownload' = FALSE /\ dirCancelled' = FALSE
          /\ UNCHANGED <<activeTransfer, browser>>
       \/ /\ active' = {} /\ rest = <<>>
          /\ queue' = rest /\ transferActive' = FALSE
          /\ dirDownload' = FALSE /\ dirCancelled' = FALSE
          /\ browser' = Append(browser, Request("list", NoItem))
          /\ activeTransfer' = activeTransfer
       \/ /\ active' = {} /\ rest # <<>>
          /\ StartDirectoryDownload(Head(rest), Tail(rest))

(* startParallelTransfers: nothing starts while a folder is being listed.     *)
StartParallelTransfers(q, act, w) ==
  \/ /\ dirDownload
     /\ queue' = q /\ active' = act /\ workers' = w
     /\ UNCHANGED <<transferActive, activeTransfer, dirDownload, dirCancelled, browser>>
  \/ /\ ~ dirDownload
     /\ StartLoop(q, act, w)

(* startNextTransfer: the path of a session without workers (FTP), which an   *)
(* SSH session reaches through finishTransferQueue.                           *)
StartNextTransfer(q) ==
  \/ /\ q = <<>>
     /\ queue' = q /\ transferActive' = FALSE
     /\ browser' = Append(browser, Request("list", NoItem))
     /\ UNCHANGED <<activeTransfer, dirDownload, dirCancelled>>
  \/ /\ q # <<>>
     /\ \/ /\ Head(q).req.kind = "dirDown"
           /\ StartDirectoryDownload(Head(q), Tail(q))
        \/ /\ Head(q).req.kind # "dirDown"
           /\ activeTransfer' = Head(q) /\ queue' = Tail(q)
           /\ browser' = Append(browser, Request("transfer", Head(q)))
           /\ UNCHANGED <<transferActive, dirDownload, dirCancelled>>

(* A folder download that cannot be listed ends the whole queue.              *)
EndListingOnly ==    \* mutant: the transfer stays active
  /\ dirDownload' = FALSE /\ dirCancelled' = FALSE /\ queue' = <<>>
  /\ transferActive' = transferActive
EndDirectoryDownload ==
  /\ dirDownload' = FALSE /\ dirCancelled' = FALSE
  /\ queue' = <<>> /\ transferActive' = FALSE

(* finishTransferQueue. *)
FinishTransferQueue(result) ==
  LET retry == result = "failed" /\ activeTransfer.attempts < MaxRetries /\ connected
      again == <<[activeTransfer EXCEPT !.attempts = @ + 1]>> \o queue
  IN
  \/ /\ result = "ok" \/ retry
     /\ transferPaused' = transferPaused
     /\ StartNextTransfer(IF retry THEN again ELSE queue)
  \/ /\ result # "ok" /\ ~ retry
     /\ queue' = <<>> /\ transferActive' = FALSE /\ transferPaused' = FALSE
     /\ UNCHANGED <<activeTransfer, dirDownload, dirCancelled, browser>>

(* stopParallelTransfers: the running workers are cancelled and forgotten.    *)
StopParallelTransfers ==
  /\ conflict' = [conflict EXCEPT ![batch].cancelled = TRUE]
  /\ queue' = <<>> /\ dirDownload' = FALSE /\ dirCancelled' = FALSE
  /\ workers' = CancelWorkers(active, workers)
  /\ active' = {} /\ transferActive' = FALSE

(* stopSession and the detachConnection it calls: the requests still waiting  *)
(* on the old connection no longer concern the sidebar; the signals already   *)
(* posted do, they are delivered all the same.                                *)
StopSession ==
  /\ StopParallelTransfers
  /\ connected' = FALSE /\ conn' = 0 /\ transferPaused' = FALSE
  /\ browser' = <<>> /\ browserOpen' = FALSE
  /\ UNCHANGED <<opened, activeTransfer, batch, connBatch, policy, files, history>>

-----------------------------------------------------------------------------
(* What the user does.  A conflict dialog is application modal: while one is  *)
(* open the only control that answers is the dialog.                          *)

(* enqueueUpload / enqueueDownloadTo with beginTransferBatch.                 *)
Enqueue(selection) ==
  /\ ~ DialogOpen
  /\ connected /\ ~ dirDownload
  /\ \A i \in 1..Len(selection) : selection[i] \notin asked
  /\ IF HasActiveTransfers
       THEN /\ batch' = batch
       ELSE /\ batch < MaxBatches
            /\ batch' = batch + 1
  /\ connBatch' = (IF conn # 0 THEN batch' ELSE connBatch)
  /\ asked' = asked \cup {selection[i] : i \in 1..Len(selection)}
  /\ StartParallelTransfers(queue \o [i \in 1..Len(selection) |-> NewItem(selection[i])],
                            active, workers)
  /\ UNCHANGED <<connected, conn, opened, transferPaused, conflict, policy, browserOpen,
                 posted, files, finished>>

(* onCancelQueuedTransfers. *)
CancelTransfers ==
  /\ "cancel" \in Controls
  /\ ~ DialogOpen /\ transferActive
  /\ conflict' = [conflict EXCEPT ![batch].cancelled = TRUE]
  /\ queue' = <<>>
  /\ \/ /\ dirDownload
        /\ dirCancelled' = TRUE
        /\ workers' = workers
     \/ /\ ~ dirDownload
        /\ dirCancelled' = dirCancelled
        /\ workers' = IF conn # 0 THEN CancelWorkers(active, workers) ELSE workers
  /\ UNCHANGED <<connected, conn, opened, transferActive, transferPaused, activeTransfer,
                 dirDownload, active, batch, connBatch, policy, browser, browserOpen,
                 posted, files, history>>

(* onToggleTransferPause; a connection told to cancel ignores a pause.        *)
ToggleTransferPause ==
  /\ "pause" \in Controls
  /\ ~ DialogOpen /\ transferActive /\ conn # 0 /\ ~ dirDownload
  /\ transferPaused' = ~ transferPaused
  /\ workers' = [w \in Workers |->
       IF w \in active
         THEN [workers[w] EXCEPT !.pause = IF transferPaused THEN FALSE ELSE @ \/ ~ workers[w].cancel]
         ELSE workers[w]]
  /\ UNCHANGED <<connected, conn, opened, queue, transferActive, activeTransfer, dirDownload,
                 dirCancelled, active, batch, connBatch, conflict, policy, browser,
                 browserOpen, posted, files, history>>

(* The tab that owns the connection is closed or reconnects.                  *)
CloseTab ==
  /\ "close" \in Controls
  /\ ~ DialogOpen /\ conn # 0
  /\ StopSession
  /\ UNCHANGED posted

(* Another tab is opened or selected: setConnection, then startSession.  A    *)
(* sidebar with active transfers is put aside by the main window and never    *)
(* gets here.  m_isConnected keeps its value until the connection answers; a  *)
(* connection attached for the first time has no conflict object.             *)
SwitchConnection ==
  /\ conn = 0 \/ "switch" \in Controls
  /\ ~ DialogOpen /\ ~ HasActiveTransfers
  /\ opened < MaxConnections
  /\ opened' = opened + 1 /\ conn' = opened + 1
  /\ StopParallelTransfers
  /\ browserOpen' = FALSE
  /\ \/ /\ browser' = <<Request("connect", NoItem)>>
        /\ connected' = connected
     \/ /\ browser' = <<Request("list", NoItem)>>
        /\ connected' = TRUE
  /\ connBatch' = 0
  /\ UNCHANGED <<transferPaused, activeTransfer, batch, policy, posted, files, history>>

(* onWatchedFileChanged: a file opened for editing was saved.                 *)
WatchedFileChanged ==
  /\ "upload" \in BrowserOps
  /\ conn # 0 /\ Outstanding < MaxBrowser
  /\ browser' = Append(browser, Request("upload", NoItem))
  /\ UNCHANGED <<gui, conflict, policy, workers, browserOpen, posted, files, history>>

-----------------------------------------------------------------------------
(* A worker thread.                                                           *)

Finish(w, result) ==
  workers' = [workers EXCEPT ![w].phase = "done", ![w].result = result]

Moves(w, phase) == workers' = [workers EXCEPT ![w].phase = phase]

HeldByPause(w) == workers[w].pause /\ ~ workers[w].cancel

Uploads(w) == workers[w].item.req.kind \in {"up", "dirUp"}

(* SftpTransferWorker::start and onConnected: the only look at the worker's   *)
(* own cancel flag.                                                           *)
Connect(w) ==
  /\ workers[w].phase = "connecting"
  /\ \/ Finish(w, "failed")
     \/ workers[w].stop /\ Finish(w, "cancelled")
     \/ ~ workers[w].stop /\ Moves(w, "connected")
  /\ UNCHANGED <<gui, conflict, policy, browser, browserOpen, posted, files, history>>

(* uploadFile and uploadDirectory clear the connection's flags first.         *)
BeginUpload(w) ==
  /\ workers[w].phase = "connected" /\ Uploads(w)
  /\ workers' = [workers EXCEPT ![w] =
                   [@ EXCEPT !.phase = "checking", !.cancel = FALSE, !.pause = FALSE]]
  /\ UNCHANGED <<gui, conflict, policy, browser, browserOpen, posted, files, history>>

(* Does the destination exist?  For an upload only "no such file" permits     *)
(* creation; any other error of lstat reports a cancelled transfer.  A folder *)
(* upload looks at its flags before each entry.                               *)
CheckDestination(w) ==
  /\ workers[w].phase = (IF Uploads(w) THEN "checking" ELSE "connected")
  /\ \/ /\ workers[w].item.req.kind = "dirUp" /\ workers[w].cancel
        /\ Finish(w, "cancelled")
     \/ /\ workers[w].item.req.kind = "dirUp" => ~ workers[w].cancel /\ ~ HeldByPause(w)
        /\ \/ /\ files[Destination(workers[w].item.req)] = "absent"
              /\ Moves(w, "approved")
           \/ /\ files[Destination(workers[w].item.req)] # "absent"
              /\ Moves(w, "locking")
           \/ /\ Uploads(w)
              /\ Finish(w, "cancelled")
  /\ UNCHANGED <<gui, conflict, policy, browser, browserOpen, posted, files, history>>

(* TransferConflict::resolve takes the batch's mutex, then blocks until the   *)
(* GUI thread has run its prompt.                                             *)
LockConflict(w) ==
  /\ workers[w].phase = "locking"
  /\ \A v \in Workers : workers[v].batch = workers[w].batch =>
                          workers[v].phase \notin {"posted", "dialog"}
  /\ Moves(w, "posted")
  /\ UNCHANGED <<gui, conflict, policy, browser, browserOpen, posted, files, history>>

Resolved(w, choice) ==
  CASE choice = "overwrite" ->
         workers' = [workers EXCEPT ![w].phase = "approved", ![w].overwrite = TRUE]
    [] choice = "skip"   -> Finish(w, "ok")
    [] choice = "cancel" -> Finish(w, "cancelled")

(* The destination is opened for writing, truncated if it exists.  A download *)
(* clears the connection's flags only now.                                    *)
OpenDestination(w) ==
  /\ workers[w].phase = "approved"
  /\ \/ /\ Finish(w, "failed")
        /\ files' = files
     \/ /\ workers' = [workers EXCEPT ![w] =
                        [@ EXCEPT !.phase = "copying",
                                  !.cancel = workers[w].cancel /\ Uploads(w),
                                  !.pause = workers[w].pause /\ Uploads(w)]]
        /\ files' = [files EXCEPT ![Destination(workers[w].item.req)] = "partial"]
  /\ UNCHANGED <<gui, conflict, policy, browser, browserOpen, posted, history>>

(* The copy loop, seen at its last iteration: paused it polls, cancelled it   *)
(* leaves the destination as it is.                                           *)
Copy(w) ==
  /\ workers[w].phase = "copying" /\ ~ HeldByPause(w)
  /\ \/ /\ workers[w].cancel
        /\ Finish(w, "cancelled") /\ files' = files
     \/ /\ ~ workers[w].cancel
        /\ Finish(w, "failed") /\ files' = files
     \/ /\ ~ workers[w].cancel
        /\ Finish(w, "ok")
        /\ files' = [files EXCEPT ![Destination(workers[w].item.req)] = "complete"]
  /\ UNCHANGED <<gui, conflict, policy, browser, browserOpen, posted, history>>

WorkerStep(w) ==
  \/ Connect(w) \/ BeginUpload(w) \/ CheckDestination(w)
  \/ LockConflict(w) \/ OpenDestination(w) \/ Copy(w)

-----------------------------------------------------------------------------
(* What reaches the GUI thread from the workers.                              *)

(* The prompt of resolve() on the GUI thread: silent if it can be.            *)
Prompt(w) ==
  /\ workers[w].phase = "posted"
  /\ LET choice == Unprompted(conflict[workers[w].batch], policy) IN
     IF choice = "ask" THEN Moves(w, "dialog") ELSE Resolved(w, choice)
  /\ UNCHANGED <<gui, conflict, policy, browser, browserOpen, posted, files, history>>

AnswerConflict(w, choice, all, always) ==
  /\ workers[w].phase = "dialog"
  /\ conflict' = [conflict EXCEPT ![workers[w].batch] = AfterAnswer(@, choice, all)]
  /\ policy' = PolicyAfter(policy, choice, always)
  /\ Resolved(w, choice)
  /\ UNCHANGED <<gui, browser, browserOpen, posted, files, history>>

(* Whether a worker's end winds up the batch, and whether its request is put  *)
(* back at the head of the queue.                                             *)
WindsUp(w) == workers[w].result = "cancelled" \/ conflict[batch].cancelled

RequeuesTooOften(w) ==   \* mutant: one attempt too many
  workers[w].result = "failed" /\ ~ WindsUp(w) /\ workers[w].item.attempts <= MaxRetries
RequeuesSuccess(w) ==    \* mutant: success is not looked at
  workers[w].result # "cancelled" /\ ~ WindsUp(w) /\ workers[w].item.attempts < MaxRetries
RequeuesCancelled(w) ==  \* mutant: the batch's cancellation is not looked at
  workers[w].result = "failed" /\ workers[w].item.attempts < MaxRetries /\ connected
Requeues(w) ==
  workers[w].result = "failed" /\ ~ WindsUp(w) /\ workers[w].item.attempts < MaxRetries
  /\ connected

(* finishParallelTransfer.  The batch is wound up before the handler looks    *)
(* whether the worker belongs to it.                                          *)
FinishParallelTransfer(w) ==
  LET item   == workers[w].item
      q      == IF WindsUp(w) THEN <<>> ELSE queue
      others == [(IF WindsUp(w) THEN CancelWorkers(active \ {w}, workers) ELSE workers)
                  EXCEPT ![w] = NoWorker]
  IN
  /\ workers[w].phase = "done"
  /\ UNCHANGED <<connected, conn, opened, transferPaused, batch, connBatch, conflict, policy,
                 browserOpen, posted, files, asked>>
  /\ \/ /\ w \notin active
        /\ queue' = q /\ workers' = others
        /\ UNCHANGED <<transferActive, activeTransfer, dirDownload, dirCancelled, active,
                       browser, finished>>
     \/ /\ w \in active
        /\ finished' = finished \cup (IF workers[w].result = "ok" THEN {item.req} ELSE {})
        /\ StartParallelTransfers(
             IF Requeues(w) THEN <<[item EXCEPT !.attempts = @ + 1]>> \o q ELSE q,
             active \ {w}, others)

-----------------------------------------------------------------------------
(* The browser connection: one thread, requests in order.  Its signals are    *)
(* queued for the GUI thread.  A plain listing that succeeds only redraws the *)
(* tree and is not recorded.                                                  *)

BrowserOpens ==
  /\ browser # <<>> /\ Head(browser).op = "transfer" /\ ~ browserOpen
  /\ browserOpen' = TRUE
  /\ UNCHANGED <<gui, conflict, policy, workers, browser, posted, files, history>>

Signals(request) ==
  CASE request.op = "connect"  -> {Reply(k, NoItem, "none") : k \in {"success", "failure"}}
    [] request.op = "dirList"  -> {Reply("dirListed", request.item, "ok"),
                                   Reply("operation", NoItem, "failed")}
    [] request.op = "list"     -> {Reply("operation", NoItem, "failed")}
    [] request.op = "transfer" -> {Reply("operation", NoItem, r) : r \in Results \ {"none"}}
    [] request.op = "upload"   ->
         \* the user may cancel at the conflict dialog; a cancelled batch refuses at once
         {Reply("operation", NoItem, r) : r \in
            IF connBatch # 0 /\ conflict[connBatch].cancelled THEN {"cancelled", "failed"}
            ELSE Results \ {"none"}}

BrowserServes ==
  /\ browser # <<>>
  /\ Head(browser).op = "transfer" => browserOpen
  /\ browser' = Tail(browser) /\ browserOpen' = FALSE
  /\ \/ /\ Head(browser).op = "list"
        /\ UNCHANGED <<posted, conflict>>
     \/ /\ Head(browser).op = "list" => "listError" \in BrowserOps
        /\ \E signal \in Signals(Head(browser)) :
             /\ posted' = Append(posted, signal)
             /\ conflict' = IF signal.result = "cancelled" /\ connBatch # 0
                              THEN [conflict EXCEPT ![connBatch].cancelled = TRUE]
                              ELSE conflict
  /\ UNCHANGED <<gui, policy, workers, files, history>>

(* onConnectionSuccess; dropped when it comes from a previous connection.     *)
ConnectionSuccess ==
  /\ posted # <<>> /\ Head(posted).kind = "success"
  /\ posted' = Tail(posted)
  /\ IF Head(posted).conn = conn
       THEN /\ connected' = TRUE
            /\ browser' = Append(browser, Request("list", NoItem))
       ELSE UNCHANGED <<connected, browser>>
  /\ UNCHANGED <<conn, opened, queue, transferActive, transferPaused, activeTransfer,
                 dirDownload, dirCancelled, active, batch, connBatch, conflict, policy,
                 workers, browserOpen, files, history>>

(* onConnectionFailed; dropped when it comes from a previous connection.      *)
ConnectionFailed ==
  /\ posted # <<>> /\ Head(posted).kind = "failure"
  /\ posted' = Tail(posted)
  /\ IF Head(posted).conn = conn
       THEN StopSession
       ELSE UNCHANGED <<gui, conflict, policy, workers, browser, browserOpen, files, history>>

(* onDirectoryListed for the folder being downloaded: its entries join the    *)
(* end of the queue.  An entry with an unusable name ends the whole queue.    *)
(* The path that is listed is the one asked for: the server's listing shows   *)
(* no link as a directory, and the folder it stands in was resolved itself.   *)
DirectoryListed ==
  /\ posted # <<>> /\ Head(posted).kind = "dirListed"
  /\ posted' = Tail(posted)
  /\ batch' = batch
  /\ LET entries == IF dirCancelled THEN <<>> ELSE Listing(activeTransfer.req)
         mine    == Head(posted).conn = conn /\ dirDownload /\ Head(posted).item = activeTransfer
     IN
     \/ /\ mine
        /\ asked' = asked \cup {entries[i] : i \in 1..Len(entries)}
        /\ finished' = IF dirCancelled THEN finished ELSE finished \cup {activeTransfer.req}
        /\ StartLoop(queue \o [i \in 1..Len(entries) |-> NewItem(entries[i])], active, workers)
     \/ /\ mine /\ ~ dirCancelled
        /\ EndDirectoryDownload
        /\ UNCHANGED <<workers, active, activeTransfer, browser, history>>
     \/ /\ ~ mine
        /\ UNCHANGED <<queue, transferActive, activeTransfer, dirDownload, dirCancelled, active,
                       workers, browser, history>>
  /\ UNCHANGED <<connected, conn, opened, transferPaused, connBatch, conflict, policy,
                 browserOpen, files>>

(* onOperationFinished.  The signal does not say which operation finished:    *)
(* whatever the sidebar is waiting for is taken to be the one.                *)
OperationFinished ==
  /\ posted # <<>> /\ Head(posted).kind = "operation"
  /\ posted' = Tail(posted)
  /\ LET result == Head(posted).result IN
     \/ /\ dirDownload
        /\ IF result = "ok"
             THEN /\ dirDownload' = FALSE /\ dirCancelled' = FALSE
                  /\ UNCHANGED <<queue, transferActive>>
             ELSE EndDirectoryDownload
        /\ UNCHANGED <<transferPaused, activeTransfer, browser>>
     \/ /\ ~ dirDownload /\ transferActive
        /\ FinishTransferQueue(result)
     \/ /\ ~ dirDownload /\ ~ transferActive
        /\ browser' = (IF result = "ok" /\ conn # 0
                         THEN Append(browser, Request("list", NoItem)) ELSE browser)
        /\ UNCHANGED <<queue, transferActive, transferPaused, activeTransfer, dirDownload,
                       dirCancelled>>
  /\ UNCHANGED <<connected, conn, opened, active, batch, connBatch, conflict, policy, workers,
                 browserOpen, files, history>>

-----------------------------------------------------------------------------
User ==
  \/ \E selection \in Selections : Enqueue(selection)
  \/ CancelTransfers \/ ToggleTransferPause \/ CloseTab \/ SwitchConnection
  \/ WatchedFileChanged

Answer(w) ==
  \E choice \in Choices, all, always \in BOOLEAN : AnswerConflict(w, choice, all, always)

Delivery ==
  \/ ConnectionSuccess \/ ConnectionFailed \/ DirectoryListed \/ OperationFinished

Next ==
  \/ User \/ BrowserOpens \/ BrowserServes \/ Delivery
  \/ \E w \in Workers : WorkerStep(w) \/ Prompt(w) \/ Answer(w) \/ FinishParallelTransfer(w)

Spec == Init /\ [][Next]_vars

(* Threads run, the GUI event loop turns, a dialog is answered, and a paused  *)
(* transfer is resumed for long enough, once and again, for the copy loop,    *)
(* which polls every 50 ms, to see it.  Nothing else of the user is fair.     *)
Fairness ==
  /\ WF_vars(BrowserOpens) /\ WF_vars(BrowserServes) /\ WF_vars(Delivery)
  /\ WF_vars(transferPaused /\ ToggleTransferPause)
  /\ \A w \in Workers :
       /\ WF_vars(Connect(w)) /\ WF_vars(BeginUpload(w)) /\ SF_vars(CheckDestination(w))
       /\ WF_vars(LockConflict(w)) /\ WF_vars(OpenDestination(w)) /\ SF_vars(Copy(w))
       /\ WF_vars(Prompt(w)) /\ WF_vars(Answer(w)) /\ WF_vars(FinishParallelTransfer(w))

FairSpec == Spec /\ Fairness

-----------------------------------------------------------------------------
(* Properties.                                                                *)

Signal == [kind : {"success", "failure", "dirListed", "operation"},
           conn : 0..MaxConnections, item : Items, result : Results]
BrowserRequest == [op : {"connect", "list", "dirList", "transfer", "upload"}, item : Items]

QueuesOK == queue \in Seq(Items) /\ browser \in Seq(BrowserRequest)
FlagsOK ==
  /\ transferActive \in BOOLEAN /\ activeTransfer \in Items
  /\ dirDownload \in BOOLEAN /\ dirCancelled \in BOOLEAN
  /\ dirDownload => activeTransfer.req.kind = "dirDown"
WorkersOK == active \subseteq Workers /\ workers \in [Workers -> WorkerStates]
SessionOK ==
  /\ connected \in BOOLEAN /\ conn \in 0..MaxConnections /\ opened \in 0..MaxConnections
  /\ transferPaused \in BOOLEAN
ConflictsOK ==
  /\ batch \in 1..MaxBatches /\ connBatch \in 0..MaxBatches
  /\ conflict \in [1..MaxBatches -> Conflicts] /\ policy \in Decisions
BrowserOK == browserOpen \in BOOLEAN /\ posted \in Seq(Signal)
FilesOK ==
  files \in [{Destination(r) : r \in Requests \cup {NoRequest}} ->
               {"absent", "partial", "complete"}]
HistoryOK == asked \subseteq Requests /\ finished \subseteq Requests \cup {NoRequest}

(* Every variable has its type, and the folder being listed is a folder.      *)
TypeOK ==
  /\ QueuesOK /\ FlagsOK /\ WorkersOK /\ SessionOK
  /\ ConflictsOK /\ BrowserOK /\ FilesOK /\ HistoryOK

(* No two running workers of the sidebar are busy with the same file: the     *)
(* start loop holds back a request whose key is taken, and a retry, which     *)
(* jumps to the head of the queue, is held back like any other.               *)
DistinctBusyKeys ==
  \A v, w \in active :
    BusyKey(workers[v].item.req) = BusyKey(workers[w].item.req) => v = w

(* "One state shared by every file and connection in a transfer queue": every *)
(* running worker asks the batch's current conflict object, and a worker that *)
(* was forgotten asks one that is cancelled.                                  *)
OneConflictPerBatch ==
  \A w \in Workers : workers[w].phase # "none" =>
    IF w \in active THEN workers[w].batch = batch ELSE conflict[workers[w].batch].cancelled

(* At most one conflict dialog is open, whatever workers of whatever batch    *)
(* stumble on existing files.                                                 *)
OneDialog ==
  \A v, w \in Workers : workers[v].phase = "dialog" /\ workers[w].phase = "dialog" => v = w

(* The limit on parallel transfers is kept.                                   *)
ParallelLimit == Cardinality(active) <= MaxParallel

(* The sidebar says a transfer is active as long as a worker runs or a        *)
(* request waits: pause and cancel stay within the user's reach.              *)
ActiveWhileWorking == active # {} \/ queue # <<>> => transferActive

(* A request is in one place: waiting once, or carried by one worker, or      *)
(* being listed.  Retries and folder listings do not multiply it.             *)
EachRequestOnce ==
  LET waiting(r)  == {i \in 1..Len(queue) : queue[i].req = r}
      carrying(r) == {w \in active : workers[w].item.req = r}
      listing(r)  == IF dirDownload /\ activeTransfer.req = r THEN 1 ELSE 0
  IN \A r \in Requests :
       /\ Cardinality(waiting(r)) + Cardinality(carrying(r)) + listing(r) <= 1
       /\ Cardinality(waiting(r)) + Cardinality(carrying(r)) + listing(r) = 1 => r \notin finished

(* Once a batch is cancelled nothing more of it starts, neither a waiting     *)
(* request nor a retry, unless the user asks for more.                        *)
CancelledStartsNothing ==
  [][conflict[batch].cancelled /\ batch' = batch /\ asked' = asked
       => active' \subseteq active /\ (dirDownload' => dirDownload)]_vars

(* A worker that opens an existing destination was told to overwrite it: what *)
(* it saw when it looked is still so when it opens the file.                  *)
NoSilentOverwrite ==
  [][\A w \in Workers :
       workers[w].phase = "approved" /\ workers'[w].phase = "copying"
       /\ files[Destination(workers[w].item.req)] # "absent" => workers[w].overwrite]_vars

(* A destination is never open twice: by two workers, or by a worker and the  *)
(* browser connection.                                                        *)
Writing(w) == workers[w].phase = "copying"
NeverOpenTwice ==
  /\ \A v, w \in Workers :
       Writing(v) /\ Writing(w)
       /\ Destination(workers[v].item.req) = Destination(workers[w].item.req) => v = w
  /\ browserOpen => \A w \in Workers : Writing(w) =>
       Destination(workers[w].item.req) # Destination(Head(browser).item.req)

(* What pause, cancel and retries rely on: while work is left the sidebar     *)
(* says so, no request is duplicated or taken up again after it finished, and *)
(* no destination is open twice.                                              *)
QueueSound == ActiveWhileWorking /\ EachRequestOnce /\ NeverOpenTwice

(* A cancel that reached a worker is not lost: until the transfer ends the    *)
(* connection's flag, which the copy loop polls, stays up.                    *)
CancelNotLost ==
  \A w \in Workers : workers[w].stop
    /\ workers[w].phase \in {"connected", "checking", "locking", "posted", "dialog",
                             "approved", "copying"} => workers[w].cancel

(* The late end of a worker the sidebar has already forgotten leaves the      *)
(* current queue and the current workers alone.                               *)
ForgottenWorkersAreIgnored ==
  [][\A w \in Workers :
       w \notin active /\ workers[w].phase = "done" /\ workers'[w].phase = "none"
         => queue' = queue /\ \A v \in active : workers'[v] = workers[v]]_vars

(* What QueueSound, CancelledStartsNothing and NoSilentOverwrite rest on: the *)
(* browser connection serves the queue only, the sidebar is not attached a    *)
(* second time, and the busy test tells what writes to one destination, which *)
(* it does not for a folder upload.                                           *)
Undisturbed ==
  /\ BrowserOps = {} /\ MaxConnections = 1
  /\ \A r, s \in Requests : Destination(r) = Destination(s) => BusyKey(r) = BusyKey(s)

(* Every batch comes to an end.                                               *)
BatchEnds == transferActive ~> ~ transferActive
=============================================================================
