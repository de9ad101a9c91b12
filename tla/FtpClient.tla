------------------------------ MODULE FtpClient ------------------------------
(* The FTP client: one control connection, one reply handler waiting on it,   *)
(* one data connection, all in the GUI thread.  The control and the data      *)
(* connection are independent, so a transfer's final reply and the end of its *)
(* data arrive in any order.  The server is external; the caller (the queue   *)
(* of the SFTP sidebar) asks for one operation after the other.               *)
EXTENDS Integers, Sequences

CONSTANTS
  Kinds,        \* the operations asked for
  FolderSteps,  \* a folder upload: its folders, then its files
  Chunks,       \* pieces of 64 KiB in a file
  Owners,       \* is the client owned by the sidebar, or by nobody (a test)?
  Controls,     \* what the user does: "cancel", "pause", "folder" (also then)
  Faults,       \* "refuse" a data connection, "deny" a transfer, "abort" one,
                \* "break" an open data connection or reject its certificate
                \* (once, and "again"), "loss" of the control connection with a
                \* data connection open
  MaxOps,       \* bound: operations asked for
  MaxAfter,     \* bound: operations left to ask for when a connection breaks
  MaxConnects   \* bound: times the user connects

AllKinds == {"list", "get", "put", "putDir", "remove", "rename"}
MaxReconnects == 3

ASSUME InstanceAssumption ==
  /\ Kinds \subseteq AllKinds
  /\ FolderSteps \in Seq({"folder", "file"}) /\ FolderSteps # <<>>
  /\ Chunks \in Nat \ {0} /\ MaxOps \in Nat /\ MaxAfter \in Nat /\ MaxConnects \in Nat
  /\ Owners \subseteq BOOLEAN
  /\ Controls \subseteq {"cancel", "pause", "folder"}
  /\ Faults \subseteq {"refuse", "deny", "abort", "break", "again", "loss"}

Verbs == {"HELLO", "AUTH", "USER", "PASS", "TYPE", "PBSZ", "PROT", "PASV", "SIZE", "MKD",
          "LIST", "RETR", "STOR", "DELE", "RNFR", "RNTO"}
Transfer == [list |-> "LIST", get |-> "RETR", put |-> "STOR"]
Codes == {0, 150, 200, 213, 220, 226, 227, 230, 234, 250, 331, 350, 426, 500, 530, 550}
Positive(code) == code >= 200 /\ code < 300

(* What a reply continues: the lambda in m_pendingHandler, named for what it  *)
(* waits for, with the command and the operation it was made for.             *)
Login == {"greeting", "auth", "user", "login", "type", "pbsz", "prot"}
Handlers == Login \union {"none", "pasv", "begun", "stored", "final", "size", "made",
                          "simple", "renameFrom"}
Handler(h, verb, o) == [h |-> h, verb |-> verb, op |-> o]
NoHandler == Handler("none", "HELLO", 0)

(* The data connection of the operation in progress.  Pieces are "coming"     *)
(* while at their source, "buffered" in the client's socket, "moved" at their *)
(* destination.  Only an armed connection has disconnected() connected.  One  *)
(* whose failure is being told is "failing" until it is aborted, "rejected"   *)
(* until its handshake fails as well.                                         *)
Sockets == {"none", "asked", "opening", "open", "failing", "rejected", "closed"}
Connections ==
  [sock : Sockets, serves : DOMAIN Transfer, armed : BOOLEAN, eof : BOOLEAN,
   coming : 0..Chunks, buffered : 0..Chunks, moved : 0..Chunks]
NoData == [sock |-> "none", serves |-> "list", armed |-> FALSE, eof |-> FALSE,
           coming |-> 0, buffered |-> 0, moved |-> 0]

NoReq == [cancel |-> FALSE, pause |-> FALSE]

VARIABLES
  owned,        \* connectionFailed reaches the sidebar
  tls,          \* m_tls
  control,      \* m_control
  encrypted,    \* the control connection is encrypted
  connected,    \* m_connected
  attempts,     \* m_reconnectAttempts
  timer,        \* m_reconnectTimer is running
  connects,     \* connections the user asked for
  pending,      \* m_pendingHandler
  early,        \* m_earlyTransferReply (0: none)
  inTransfer,   \* m_transferInProgress
  data,         \* the data socket
  activeData,   \* m_activeData, and with it the active file
  req,          \* m_cancelTransferRequested, m_pauseTransferRequested
  dirActive,    \* m_directoryUploadActive
  dirLeft,      \* m_directoryUploadDirs and m_directoryUploadFiles
  overflow,     \* the GUI thread is lost in a recursion that does not end
  sent, replies,        \* commands and replies on their way
  serving,      \* the server is in the middle of a transfer
  op, busy,     \* operations asked for; is the caller waiting for a result?
  unasked,      \* history: a result came when nobody waited for one
  claims,       \* history: transfers reported successful
  broken        \* history: a data connection broke, or its certificate was rejected

session == <<owned, tls, control, encrypted, connected, attempts, timer, connects>>
early2 == <<early, inTransfer>>
flags == <<activeData, req>>
folder == <<dirActive, dirLeft, overflow>>
caller == <<busy, unasked>>
vars == <<session, pending, early2, data, flags, folder, sent, replies, serving, op, caller,
          claims, broken>>

Init ==
  /\ owned \in Owners /\ tls \in BOOLEAN
  /\ control = "none" /\ encrypted = FALSE /\ connected = FALSE
  /\ attempts = 0 /\ timer = FALSE /\ connects = 0
  /\ pending = NoHandler /\ early = 0 /\ inTransfer = FALSE
  /\ data = NoData /\ activeData = FALSE /\ req = NoReq
  /\ dirActive = FALSE /\ dirLeft = <<>> /\ overflow = FALSE
  /\ sent = <<>> /\ replies = <<>> /\ serving = FALSE
  /\ op = 0 /\ busy = FALSE /\ unasked = FALSE /\ claims = {} /\ broken = FALSE

-----------------------------------------------------------------------------
(* sendCommand: the new handler replaces whatever handler was waiting.        *)
SendFor(verb, h, o) ==
  /\ pending' = Handler(h, verb, o)
  /\ sent' = Append(sent, [verb |-> verb, op |-> o, safe |-> encrypted])
Send(verb, h) == SendFor(verb, h, op)

(* A handler ran and left no other behind.                                    *)
Quiet == pending' = NoHandler /\ UNCHANGED sent

(* operationFinished, or directoryListed.                                     *)
Report == busy' = FALSE /\ unasked' = (unasked \/ ~ busy)

(* The sidebar answers connectionFailed with stopSession, which disconnects   *)
(* and deletes the client (detachFtp): nothing of it is left.                 *)
Discard ==
  /\ control' = "none" /\ encrypted' = FALSE /\ connected' = FALSE
  /\ attempts' = 0 /\ timer' = FALSE
  /\ pending' = NoHandler /\ early' = 0 /\ inTransfer' = FALSE /\ sent' = <<>>
  /\ data' = NoData /\ activeData' = FALSE /\ req' = NoReq
  /\ dirActive' = FALSE /\ dirLeft' = <<>>
  /\ replies' = <<>> /\ serving' = FALSE /\ busy' = FALSE
  /\ UNCHANGED <<owned, tls, connects, overflow, op, unasked, claims>>

-----------------------------------------------------------------------------
(* Connecting.                                                                *)

StopTimer == FALSE

(* connectToHost, by the user or by the reconnect timer, and the              *)
(* disconnectFromHost it begins with, which forgets the control connection    *)
(* and not the data one.  The CA bundle may not load.                         *)
ConnectToHost ==
  /\ connected' = FALSE /\ timer' = StopTimer /\ encrypted' = FALSE
  /\ early' = 0 /\ inTransfer' = FALSE
  /\ sent' = <<>> /\ replies' = <<>> /\ serving' = FALSE
  /\ \/ control' = "connecting" /\ pending' = Handler("greeting", "HELLO", 0)
     \/ tls /\ control' = "none" /\ pending' = NoHandler
  /\ UNCHANGED <<owned, tls, data, flags, folder, op, caller, claims>>

UserConnects ==
  /\ ~ overflow /\ ~ connected /\ connects < MaxConnects
  /\ control \in {"none", "dead"}
  /\ connects' = connects + 1 /\ attempts' = 0
  /\ ConnectToHost

TimerFires ==
  /\ ~ overflow /\ timer
  /\ ConnectToHost
  /\ UNCHANGED <<attempts, connects>>

(* errorOccurred or disconnected of the control connection (an error or a     *)
(* rejected certificate before the login is done has no reconnect).           *)
(* scheduleReconnect runs in a client that the sidebar has discarded already. *)
ControlLost ==
  /\ ~ overflow
  /\ control \in {"connecting", "open", "securing"}
  /\ "loss" \in Faults \/ data.sock = "none"
  /\ IF owned THEN Discard
     ELSE /\ control' = "dead" /\ connected' = FALSE
          /\ replies' = <<>> /\ serving' = FALSE /\ sent' = <<>>
          /\ busy' = FALSE
          /\ IF connected /\ ~ timer /\ attempts < MaxReconnects
               THEN timer' = TRUE /\ attempts' = attempts + 1
               ELSE UNCHANGED <<timer, attempts>>
          /\ UNCHANGED <<owned, tls, encrypted, connects, pending, early2, data, flags,
                         folder, op, unasked, claims>>

(* The server greets.                                                         *)
Greeted ==
  /\ control = "connecting"
  /\ control' = "open"
  /\ replies' = Append(replies, [verb |-> "HELLO", op |-> 0, code |-> 220])
  /\ UNCHANGED <<owned, tls, encrypted, connected, attempts, timer, connects, pending,
                 early2, data, flags, folder, sent, serving, op, caller, claims>>

(* QSslSocket::encrypted: startLogin.                                         *)
Encrypted ==
  /\ control = "securing"
  /\ control' = "open" /\ encrypted' = TRUE
  /\ pending' = Handler("user", "USER", 0)
  /\ sent' = Append(sent, [verb |-> "USER", op |-> 0, safe |-> TRUE])
  /\ UNCHANGED <<owned, tls, connected, attempts, timer, connects, early2, data, flags,
                 folder, replies, serving, op, caller, claims>>

LoginRefused(code) ==
  \/ pending.h = "auth" /\ code # 234
  \/ pending.h = "user" /\ code \notin {230, 331}
  \/ pending.h = "login" /\ code # 230
  \/ pending.h \in {"pbsz", "prot"} /\ ~ Positive(code)

LoggedIn ==
  /\ connected' = TRUE /\ attempts' = 0 /\ Quiet
  /\ UNCHANGED <<control, encrypted>>

LoginAtOnce == "USER"  \* mutant: the login does not wait for encryption
FirstCommand == IF tls THEN "AUTH" ELSE "USER"
LoginStep(code) ==
  \/ /\ pending.h = "auth" /\ control' = "securing" /\ Quiet
     /\ UNCHANGED <<connected, attempts, encrypted>>
  \/ pending.h = "type" /\ ~ tls /\ LoggedIn
  \/ pending.h = "prot" /\ LoggedIn
  \/ /\ UNCHANGED <<control, connected, attempts, encrypted>>
     /\ \/ /\ pending.h = "greeting"
           /\ SendFor(FirstCommand, IF FirstCommand = "AUTH" THEN "auth" ELSE "user", 0)
        \/ pending.h = "user" /\ code = 331 /\ SendFor("PASS", "login", 0)
        \/ pending.h = "user" /\ code = 230 /\ SendFor("TYPE", "type", 0)
        \/ pending.h = "login" /\ SendFor("TYPE", "type", 0)
        \/ pending.h = "type" /\ tls /\ SendFor("PBSZ", "pbsz", 0)
        \/ pending.h = "pbsz" /\ SendFor("PROT", "prot", 0)

(* A reply during the login.  One that refuses it is connectionFailed: unless *)
(* the sidebar discards the client, the connection stays as it is.            *)
HearLogin(code) ==
  /\ pending.h \in Login
  /\ UNCHANGED <<serving, op, claims>>
  /\ IF LoginRefused(code) /\ owned
       THEN Discard
       ELSE /\ replies' = Tail(replies)
            /\ IF LoginRefused(code)
                 THEN Quiet /\ UNCHANGED <<control, encrypted, connected, attempts>>
                 ELSE LoginStep(code)
            /\ UNCHANGED <<owned, tls, timer, connects, early2, data, flags, folder, caller>>

-----------------------------------------------------------------------------
(* Uploads of folders: the result of one file leads to the next step.         *)

(* reportUploadResult(false).                                                 *)
UploadFailed ==
  /\ dirActive' = FALSE /\ dirLeft' = <<>> /\ UNCHANGED overflow
  /\ Report /\ Quiet

(* processDirectoryUpload, with r requested.  When no step is left it reports *)
(* the upload, and reportUploadResult, which finds the upload still active,   *)
(* calls it again, for ever.                                                  *)
ProcessDirectory(r) ==
  \/ r.pause /\ Quiet /\ UNCHANGED <<folder, caller>>
  \/ ~ r.pause /\ r.cancel /\ UploadFailed
  \/ /\ ~ r.pause /\ ~ r.cancel /\ dirLeft # <<>>
     /\ dirLeft' = Tail(dirLeft)
     /\ IF Head(dirLeft) = "folder" THEN Send("MKD", "made") ELSE Send("SIZE", "size")
     /\ UNCHANGED <<dirActive, overflow, caller>>
  \/ /\ ~ r.pause /\ ~ r.cancel /\ dirLeft = <<>>
     /\ overflow' = TRUE
     /\ Quiet /\ UNCHANGED <<dirActive, dirLeft, caller>>

(* reportUploadResult(true).                                                  *)
UploadSucceeded(r) ==
  IF dirActive THEN ProcessDirectory(r)
  ELSE Report /\ Quiet /\ UNCHANGED folder

-----------------------------------------------------------------------------
(* The data connection.                                                       *)

(* The handler given to expectTransferReply, run with the final reply.  Only  *)
(* a listing looks at its code.  A cancelled transfer is a failure.           *)
CancelForgotten(r) == FALSE  \* mutant: the request is cleared before it is read
WasCancelled(r) == r.cancel
Claimed(code) == {[serves |-> data.serves, complete |-> data.moved = Chunks,
                   confirmed |-> Positive(code)]}
ListingDone(code, r) ==
  /\ Report /\ Quiet /\ req' = r /\ UNCHANGED <<activeData, folder>>
  /\ claims' = claims \union (IF code \in {226, 250} THEN Claimed(code) ELSE {})
DownloadDone(code, r) ==
  /\ Report /\ Quiet /\ UNCHANGED folder
  /\ activeData' = FALSE /\ req' = NoReq
  /\ claims' = claims \union (IF WasCancelled(r) THEN {} ELSE Claimed(code))
UploadDone(code, r) ==
  LET after == [cancel |-> FALSE, pause |-> r.pause /\ dirActive] IN
  /\ activeData' = FALSE /\ req' = after
  /\ IF WasCancelled(r) THEN UploadFailed /\ UNCHANGED claims
     ELSE UploadSucceeded(after) /\ claims' = claims \union Claimed(code)
CompleteTransfer(code, r) ==
  /\ early' = 0 /\ inTransfer' = FALSE
  /\ data' = NoData
  /\ CASE data.serves = "list" -> ListingDone(code, r)
       [] data.serves = "get"  -> DownloadDone(code, r)
       [] data.serves = "put"  -> UploadDone(code, r)

Untouched == UNCHANGED <<sent, early2, activeData, folder, caller, claims>>

(* disconnected() of the data socket, left as d, with r requested:            *)
(* expectTransferReply.  Until then the handler p is waiting.                 *)
DropsReply == FALSE    \* mutant: a reply that came before the end is forgotten
KeepsReply == early # 0
Ended(d, p, r) ==
  IF d.armed /\ KeepsReply THEN CompleteTransfer(early, r)
  ELSE /\ data' = d /\ req' = r /\ Untouched
       /\ pending' = IF d.armed THEN Handler("final", Transfer[d.serves], op) ELSE p

Closed(d) == [d EXCEPT !.sock = "closed"]
Aborted(d) == [d EXCEPT !.sock = "closed", !.buffered = 0]

(* pumpUpload on the connection d: one piece at most, and the end of the      *)
(* connection when the file is read and nothing waits to be written.  A write *)
(* to a socket that is closed already is lost.                                *)
PumpUpload(d, p, r) ==
  LET room == d.coming > 0 /\ d.buffered = 0
      n == IF ~ room THEN d
           ELSE [d EXCEPT !.coming = @ - 1, !.buffered = IF d.sock = "open" THEN 1 ELSE 0]
  IN IF n.coming = 0 /\ n.buffered = 0 /\ n.sock = "open" THEN Ended(Closed(n), p, r)
     ELSE data' = n /\ pending' = p /\ req' = r /\ Untouched

(* pumpDownload; a listing is read without asking for a pause.                *)
Pulled(d) == [d EXCEPT !.buffered = 0, !.moved = @ + d.buffered]

(* onConnected of a download whose local file cannot be opened.               *)
LocalFileFails ==
  /\ data.serves = "get"
  /\ Report /\ data' = NoData /\ activeData' = FALSE
  /\ UNCHANGED <<pending, sent, early2>>

(* onConnected: LIST, RETR or STOR goes out.                                  *)
DataOpens ==
  /\ ~ overflow /\ data.sock = "opening"
  /\ UNCHANGED <<session, replies, serving, op, claims, folder, req>>
  /\ \/ /\ data' = [data EXCEPT !.sock = "open", !.armed = data.serves # "put",
                                !.coming = IF data.serves = "put" THEN Chunks ELSE 0]
        /\ activeData' = (data.serves # "list" \/ activeData)
        /\ Send(Transfer[data.serves], IF data.serves = "put" THEN "stored" ELSE "begun")
        /\ early' = 0 /\ inTransfer' = TRUE /\ UNCHANGED caller
     \/ LocalFileFails

(* errorOccurred before the connection is open: reported as it is, also       *)
(* within a folder upload, which stays active.  A peer that hangs up in the   *)
(* handshake is no error to report, and nothing listens for the end yet.      *)
DataRefused ==
  /\ ~ overflow /\ "refuse" \in Faults /\ data.sock = "opening"
  /\ data' = NoData
  /\ \/ Report
     \/ tls /\ UNCHANGED caller
  /\ UNCHANGED <<session, pending, early2, flags, folder, sent, replies, serving, op, claims>>

(* errorOccurred of an open connection, and a certificate that is not         *)
(* accepted: the failure is told first, and while it is told (a message box,  *)
(* the queue's next transfer) other events are handled.                       *)
DataBreaks ==
  /\ ~ overflow /\ "break" \in Faults /\ (broken => "again" \in Faults)
  /\ op + MaxAfter >= MaxOps
  /\ \/ data.sock = "open" /\ data' = [data EXCEPT !.sock = "failing"]
     \/ data.sock = "opening" /\ tls /\ data' = [data EXCEPT !.sock = "rejected"]
  /\ Report /\ broken' = TRUE
  /\ UNCHANGED <<session, pending, early2, flags, folder, sent, replies, serving, op, claims>>

(* Then the connection is aborted: disconnected() of an open one waits for    *)
(* the transfer's reply as after any other end, and a handshake that was      *)
(* rejected is an error of its own.  Either is a second result.               *)
Told == data.sock \in {"failing", "rejected"}
DataAborts ==
  /\ ~ overflow
  /\ \/ data.sock = "failing" /\ Ended(Aborted(data), pending, req)
     \/ /\ data.sock = "rejected" /\ data' = NoData /\ Report
        /\ UNCHANGED <<pending, sent, early2, flags, folder, claims>>
  /\ UNCHANGED <<session, replies, serving, op>>

(* readyRead.                                                                 *)
DataArrives ==
  /\ ~ overflow
  /\ data.sock = "open" /\ data.serves # "put" /\ data.coming > 0
  /\ LET d == [data EXCEPT !.coming = @ - 1, !.buffered = @ + 1]
     IN data' = IF req.pause /\ d.serves = "get" THEN d ELSE Pulled(d)
  /\ UNCHANGED <<session, pending, req, replies, serving, op>> /\ Untouched

(* bytesWritten, which pumpUpload follows once the server has accepted STOR.  *)
BytesWritten ==
  /\ ~ overflow
  /\ data.sock = "open" /\ data.serves = "put" /\ data.buffered > 0
  /\ LET d == Pulled(data)
     IN IF d.armed /\ ~ req.pause THEN PumpUpload(d, pending, req)
        ELSE data' = d /\ UNCHANGED <<pending, req>> /\ Untouched
  /\ UNCHANGED <<session, replies, serving, op>>

(* The server has closed the data connection.                                 *)
DataCloses ==
  /\ ~ overflow
  /\ data.sock = "open" /\ data.eof
  /\ data.serves = "put" \/ data.coming = 0
  /\ Ended(Closed(data), pending, req)
  /\ UNCHANGED <<session, replies, serving, op>>

-----------------------------------------------------------------------------
(* Replies to operations.                                                     *)

HearPasv(code) ==
  /\ pending.h = "pasv" /\ Quiet
  /\ \/ code = 227 /\ data' = [data EXCEPT !.sock = "opening"] /\ UNCHANGED caller
     \/ code # 227 /\ data' = NoData /\ Report
  /\ UNCHANGED <<early2, flags, folder, claims>>

(* The first reply to LIST and RETR is taken for 150, whatever it says.       *)
HearBegun ==
  /\ pending.h = "begun" /\ Quiet
  /\ UNCHANGED <<data, early2, flags, folder, caller, claims>>

HearStored(code) ==
  /\ pending.h = "stored"
  /\ IF code = 150
       THEN LET d == [data EXCEPT !.armed = TRUE]
            IN IF req.pause THEN data' = d /\ pending' = NoHandler /\ UNCHANGED req /\ Untouched
               ELSE PumpUpload(d, NoHandler, req)
       ELSE /\ data' = NoData /\ activeData' = FALSE
            /\ UploadFailed
            /\ UNCHANGED <<early2, req, claims>>

NeverWaits(code) == FALSE  \* mutant: any reply ends the transfer
Preliminary(code) == code = 150
HearFinal(code) ==
  /\ pending.h = "final"
  /\ IF Preliminary(code) THEN UNCHANGED <<pending, data, req>> /\ Untouched
     ELSE CompleteTransfer(code, req)

(* uploadFileApproved; the local file may not open.                           *)
UploadApproved ==
  /\ req' = [cancel |-> req.cancel /\ dirActive, pause |-> FALSE]
  /\ \/ /\ Send("PASV", "pasv")
        /\ data' = [NoData EXCEPT !.sock = "asked", !.serves = "put"]
        /\ UNCHANGED <<folder, caller>>
     \/ UploadFailed /\ UNCHANGED data

(* The reply to SIZE: a file that exists is for the user to decide upon       *)
(* (overwrite, skip, cancel).                                                 *)
HearSize(code) ==
  /\ pending.h = "size"
  /\ UNCHANGED <<early2, activeData, claims>>
  /\ \/ code \in {213, 550} /\ UploadApproved
     \/ code = 213 /\ UploadSucceeded(req) /\ UNCHANGED <<data, req>>
     \/ code # 550 /\ UploadFailed /\ UNCHANGED <<data, req>>

HearMade(code) ==
  /\ pending.h = "made"
  /\ IF Positive(code) \/ code = 550 THEN ProcessDirectory(req)
     ELSE UploadFailed
  /\ UNCHANGED <<data, early2, flags, claims>>

HearSimple(code) ==
  /\ pending.h \in {"simple", "renameFrom"}
  /\ IF pending.h = "renameFrom" /\ code = 350
       THEN Send("RNTO", "simple") /\ UNCHANGED caller
       ELSE Report /\ Quiet
  /\ UNCHANGED <<data, early2, flags, folder, claims>>

(* With no handler waiting, the final reply of a transfer is kept.            *)
HearEarly(code) ==
  /\ pending.h = "none"
  /\ early' = IF inTransfer /\ code >= 200 THEN code ELSE early
  /\ UNCHANGED <<pending, sent, data, inTransfer, flags, folder, caller, claims>>

(* readyRead of the control connection.                                       *)
ReadReply ==
  /\ ~ overflow /\ control = "open" /\ replies # <<>>
  /\ LET code == Head(replies).code IN
     \/ HearLogin(code)
     \/ /\ replies' = Tail(replies)
        /\ UNCHANGED <<session, serving, op>>
        /\ \/ HearPasv(code) \/ HearBegun \/ HearStored(code) \/ HearFinal(code)
           \/ HearSize(code) \/ HearMade(code) \/ HearSimple(code) \/ HearEarly(code)

-----------------------------------------------------------------------------
(* The operations.                                                            *)

Ask(verb, h) == SendFor(verb, h, op + 1) /\ busy' = TRUE /\ UNCHANGED unasked
AskData(kind) ==
  Ask("PASV", "pasv") /\ data' = [NoData EXCEPT !.sock = "asked", !.serves = kind]

(* downloadFile: the user may keep the local file that exists already.        *)
Download ==
  \/ AskData("get") /\ req' = NoReq
  \/ UNCHANGED <<pending, sent, data, req, caller>>

(* uploadDirectory: one at a time; a path that is no directory is an error.   *)
UploadDirectory ==
  \/ /\ dirActive /\ busy' = TRUE
     /\ UNCHANGED <<pending, sent, req, folder, unasked>>
  \/ /\ ~ dirActive /\ dirActive' = TRUE /\ dirLeft' = Tail(FolderSteps)
     /\ Ask("MKD", "made") /\ req' = NoReq /\ UNCHANGED overflow
  \/ /\ ~ dirActive /\ req' = NoReq
     /\ UNCHANGED <<pending, sent, folder, caller>>

(* The caller asks for the next operation once the last one has its result.   *)
Request(kind) ==
  /\ ~ overflow /\ connected /\ ~ busy /\ op < MaxOps
  /\ Told => kind = "put" /\ data.serves = "put"
  /\ op' = op + 1
  /\ UNCHANGED <<session, early2, activeData, replies, serving, claims>>
  /\ CASE kind = "list"   -> AskData("list") /\ UNCHANGED <<req, folder>>
       [] kind = "get"    -> Download /\ UNCHANGED folder
       [] kind = "putDir" -> UploadDirectory /\ UNCHANGED data
       [] OTHER ->
            /\ CASE kind = "put"    -> Ask("SIZE", "size")
                 [] kind = "remove" -> Ask("DELE", "simple")
                 [] kind = "rename" -> Ask("RNFR", "renameFrom")
            /\ UNCHANGED <<data, req, folder>>

(* The queue tries a download that failed again while the failure is told:    *)
(* the end of the old connection then replaces the handler of the new PASV,   *)
(* or is taken for the result of the new download.                            *)
RetriedDownload ==
  /\ ~ overflow /\ connected /\ ~ busy /\ op < MaxOps
  /\ Told /\ data.serves = "get"
  /\ op' = op + 1 /\ req' = NoReq
  /\ sent' = Append(sent, [verb |-> "PASV", op |-> op + 1, safe |-> encrypted])
  /\ UNCHANGED <<session, folder, unasked, replies, serving>>
  /\ IF data.sock = "failing" /\ ~ KeepsReply
       THEN /\ pending' = Handler("final", "RETR", op) /\ data' = Aborted(data)
            /\ busy' = TRUE
            /\ UNCHANGED <<early2, activeData, claims>>
       ELSE /\ pending' = Handler("pasv", "PASV", op + 1)
            /\ data' = [NoData EXCEPT !.sock = "asked", !.serves = "get"]
            /\ busy' = FALSE
            /\ IF data.sock = "failing"
                 THEN /\ early' = 0 /\ inTransfer' = FALSE /\ activeData' = FALSE
                      /\ claims' = claims \union Claimed(early)
                 ELSE UNCHANGED <<early2, activeData, claims>>

(* cancelTransfer aborts the data connection, whose end reports the transfer. *)
MayControl(c) == c \in Controls /\ (dirActive => "folder" \in Controls)
AbortData(r) ==
  IF data.sock = "open" /\ data.serves # "list" THEN Ended(Aborted(data), pending, r)
  ELSE UNCHANGED <<pending, data>> /\ req' = r /\ Untouched
AbortAndReport(r) ==   \* mutant: the cancellation is reported at once as well
  /\ UNCHANGED <<pending, sent, early2, activeData, folder, claims>>
  /\ data' = Aborted(data) /\ req' = r /\ Report
CancelActive(r) == AbortData(r)
CancelTransfer ==
  /\ ~ overflow /\ MayControl("cancel") /\ (dirActive \/ activeData)
  /\ UNCHANGED <<session, replies, serving, op>>
  /\ LET r == [req EXCEPT !.cancel = TRUE] IN
     IF activeData THEN CancelActive(r)
     ELSE /\ req' = r /\ ProcessDirectory(r)
          /\ UNCHANGED <<data, early2, activeData, claims>>

PauseTransfer ==
  /\ ~ overflow /\ MayControl("pause") /\ (dirActive \/ activeData)
  /\ req' = [req EXCEPT !.pause = TRUE]
  /\ UNCHANGED <<session, pending, early2, data, activeData, folder, sent, replies, serving,
                 op, caller, claims>>

(* resumeTransfer: what arrived meanwhile is taken, the upload goes on.       *)
ResumeTransfer ==
  /\ ~ overflow /\ MayControl("pause") /\ req.pause
  /\ UNCHANGED <<session, replies, serving, op>>
  /\ LET r == [req EXCEPT !.pause = FALSE] IN
     CASE activeData /\ data.serves = "get" ->
            data' = Pulled(data) /\ req' = r /\ UNCHANGED pending /\ Untouched
       [] activeData /\ data.serves = "put" -> PumpUpload(data, pending, r)
       [] ~ activeData /\ dirActive ->
            /\ req' = r /\ ProcessDirectory(r)
            /\ UNCHANGED <<data, early2, activeData, claims>>
       [] OTHER -> req' = r /\ UNCHANGED <<pending, data>> /\ Untouched

-----------------------------------------------------------------------------
(* The server.                                                                *)

Answers(verb) ==
  CASE verb = "AUTH" -> {234, 500}
    [] verb = "USER" -> {331, 230, 530}
    [] verb = "PASS" -> {230, 530}
    [] verb = "TYPE" -> {200}
    [] verb \in {"PBSZ", "PROT"} -> {200, 500}
    [] verb = "PASV" -> {227, 500}
    [] verb = "SIZE" -> {213, 550, 500}
    [] verb = "MKD"  -> {250, 550, 500}
    [] verb \in {"DELE", "RNTO"} -> {250, 550}
    [] verb = "RNFR" -> {350, 550}
    [] OTHER -> {150} \union (IF "deny" \in Faults THEN {550} ELSE {})

(* It answers the commands in their order.  It may close the data connection  *)
(* of a transfer that it denies.                                              *)
ServerAnswers ==
  /\ control = "open" /\ sent # <<>> /\ ~ serving
  /\ LET c == Head(sent) IN
     \E code \in Answers(c.verb) :
       /\ replies' = Append(replies, [verb |-> c.verb, op |-> c.op, code |-> code])
       /\ serving' = (code = 150)
       /\ \/ code = 150 /\ data' = [data EXCEPT !.coming = IF c.verb = "STOR" THEN @ ELSE Chunks]
          \/ code = 550 /\ c.verb \in {"LIST", "RETR", "STOR"} /\ data' = [data EXCEPT !.eof = TRUE]
          \/ code # 150 /\ UNCHANGED data
  /\ sent' = Tail(sent)
  /\ UNCHANGED <<session, pending, early2, flags, folder, op, caller, claims>>

(* The final reply.  A download ends when its last piece is sent, not when it *)
(* has arrived; an upload ends with its data connection.  The server may give *)
(* up ("abort"), and a client that hung up hears either reply.                *)
ServerEnds(code) ==
  /\ control = "open" /\ serving
  /\ serving' = FALSE
  /\ replies' = Append(replies, [verb |-> Transfer[data.serves], op |-> op, code |-> code])
  /\ \/ code = 226 /\ (data.serves = "put" => data.sock = "closed")
     \/ code = 426 /\ (data.sock = "closed" \/ "abort" \in Faults)
  /\ data' = [data EXCEPT !.eof = TRUE,
                          !.coming = IF code = 426 /\ data.serves # "put" THEN 0 ELSE @]
  /\ UNCHANGED <<session, pending, early2, flags, folder, sent, op, caller, claims>>

-----------------------------------------------------------------------------
System ==
  \/ Greeted \/ Encrypted \/ ReadReply \/ ServerAnswers \/ ServerEnds(226)
  \/ DataOpens \/ DataArrives \/ BytesWritten \/ DataCloses \/ DataAborts
Environment ==
  \/ UserConnects \/ TimerFires \/ ControlLost \/ DataRefused \/ ServerEnds(426)
  \/ CancelTransfer \/ PauseTransfer \/ ResumeTransfer
  \/ \E kind \in Kinds : Request(kind)
  \/ RetriedDownload
Next ==
  \/ (System \/ Environment) /\ UNCHANGED broken
  \/ DataBreaks

Spec == Init /\ [][Next]_vars

(* The event loop delivers what has happened, and the server answers.         *)
FairSpec == Spec /\ WF_vars(System /\ UNCHANGED broken)

-----------------------------------------------------------------------------
(* Types; a reply is kept for later only while no handler waits.              *)
TypeOK ==
  /\ owned \in BOOLEAN /\ tls \in BOOLEAN
  /\ control \in {"none", "connecting", "open", "securing", "dead"}
  /\ encrypted \in BOOLEAN /\ connected \in BOOLEAN /\ timer \in BOOLEAN
  /\ attempts \in 0..MaxReconnects /\ connects \in 0..MaxConnects
  /\ pending.h \in Handlers /\ pending.verb \in Verbs /\ pending.op \in 0..MaxOps
  /\ early \in Codes /\ (early # 0 => pending = NoHandler)
  /\ inTransfer \in BOOLEAN
  /\ data \in Connections
  /\ activeData \in BOOLEAN /\ req \in [cancel : BOOLEAN, pause : BOOLEAN]
  /\ dirActive \in BOOLEAN /\ dirLeft \in Seq({"folder", "file"}) /\ overflow \in BOOLEAN
  /\ sent \in Seq([verb : Verbs, op : 0..MaxOps, safe : BOOLEAN])
  /\ replies \in Seq([verb : Verbs, op : 0..MaxOps, code : Codes])
  /\ serving \in BOOLEAN /\ op \in 0..MaxOps /\ busy \in BOOLEAN /\ unasked \in BOOLEAN
  /\ claims \subseteq
       [serves : DOMAIN Transfer, complete : BOOLEAN, confirmed : BOOLEAN]

(* A reply is read by the handler of the command it answers: there is one     *)
(* handler only, and the 226 of a transfer and its data end in any order.     *)
RepliesMatch ==
  replies # <<>> /\ pending # NoHandler =>
    pending.verb = Head(replies).verb /\ pending.op = Head(replies).op

(* Every result answers one operation: operationFinished never comes twice,   *)
(* whatever the order of cancel, end of data, refused connections and         *)
(* replies.  One thing makes it come twice: an error of a data connection     *)
(* that is open, or a certificate that is rejected, is told as it occurs, and *)
(* the connection ends after that all the same.                               *)
ReportedOnce == unasked => broken

(* With TLS no user name and no password leaves before the connection is      *)
(* encrypted.                                                                 *)
NothingInClear ==
  tls => \A i \in 1..Len(sent) : sent[i].verb \in {"USER", "PASS"} => sent[i].safe

(* What the server confirmed and the client reports as a success has arrived  *)
(* complete: an upload that was cancelled or cut is not taken for one that    *)
(* ended.  (Downloads: DownloadsComplete.)  The retry of an upload whose data *)
(* connection broke is excepted: the reply to its SIZE is taken for the final *)
(* one of the old upload, and "confirms" it.                                  *)
Accounted == \A c \in claims : c.confirmed /\ c.serves # "get" => c.complete
ConfirmedComplete == broken \/ Accounted

(* The reconnect timer only runs while there is no connection: a connection   *)
(* that works is not replaced by an automatic one.                            *)
TimerOnlyWhenDown == timer => ~ connected

(* Every operation gets its result, but for: a folder upload, a transfer that *)
(* is paused, one whose data connection ended before the client listened for  *)
(* its end (a cancel between STOR and its 150, a server that hangs up in the  *)
(* handshake), one whose refusal was taken for 150, after which the server    *)
(* has nothing more to say, and whatever follows a data connection that broke.*)
Stranded == data.sock \in {"none", "closed"} /\ pending.h = "none"
Silent ==
  /\ data.sock \in {"open", "closed"} /\ early = 0
  /\ sent = <<>> /\ replies = <<>> /\ ~ serving
Answered == busy ~> (~ busy \/ dirActive \/ req.pause \/ Stranded \/ Silent \/ broken)

(* A folder upload ends with a result (README.md: the SFTP and FTP browser    *)
(* transfers files and folders).                                              *)
FolderUploadsEnd == dirActive ~> ~ dirActive

(* A download that the server confirmed and the client reports as a success   *)
(* is complete, also when it was paused.                                      *)
DownloadsComplete ==
  \A c \in claims : c.confirmed /\ c.serves = "get" => c.complete

(* The control connection outlives its data connections, and nobody cancels,  *)
(* pauses or resumes a folder upload.  Where this fails, a handler of the     *)
(* lost or the next operation may hear the reply of another.                  *)
Undisturbed == "loss" \notin Faults /\ "folder" \notin Controls

(* The same without the exception of a broken connection.  Not so.            *)
OneResult == ~ unasked
UploadsConfirmed ==
  \A c \in claims : c.confirmed /\ c.serves = "put" => c.complete

(* The client's connections: types, the one handler and the reply it reads,   *)
(* and the reconnect timer only while there is nothing to replace.  After a   *)
(* data connection broke the handlers and replies are out of step.            *)
ClientSound == TimerOnlyWhenDown /\ (broken \/ (TypeOK /\ RepliesMatch))
=============================================================================
