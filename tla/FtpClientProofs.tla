--------------------------- MODULE FtpClientProofs ---------------------------
(* What is proved of the FTP client, for any operations, sizes of files,      *)
(* folders and bounds: nothing in clear before TLS whatever happens, and, as  *)
(* long as the control connection is not lost under a transfer and a folder   *)
(* upload is left alone, that each reply is read by its handler, each         *)
(* operation reported once and a confirmed upload or listing complete.        *)
EXTENDS FtpClient, SequenceTheorems, TLAPS

Commands == [verb : Verbs, op : 0..MaxOps, safe : BOOLEAN]
Replies == [verb : Verbs, op : 0..MaxOps, code : Codes]
Reqs == [cancel : BOOLEAN, pause : BOOLEAN]
Continuations == [h : Handlers, verb : Verbs, op : 0..MaxOps]
Claims == [serves : {"list", "get", "put"}, complete : BOOLEAN, confirmed : BOOLEAN]
Steps == {"folder", "file"}

-----------------------------------------------------------------------------
(* The commands s and replies r on their way, v while the server transfers.   *)
Idle(s, r, v) == s = <<>> /\ r = <<>> /\ ~ v
Sent(s, verb, o) == Len(s) = 1 /\ s[1].verb = verb /\ s[1].op = o
Answer(a, verb, o) == a.verb = verb /\ a.op = o
FinalCodes == {226, 426}

(* A command with one reply: it is on its way, or its reply is.               *)
Awaited(verb, o, s, r, v) ==
  /\ ~ v
  /\ \/ Sent(s, verb, o) /\ r = <<>> /\ verb # "HELLO"
     \/ s = <<>> /\ Len(r) = 1 /\ Answer(r[1], verb, o)

(* The command of a transfer whose first reply has not been read: it may have *)
(* been denied, or its final reply may have come as well.                     *)
Begins(verb, o, s, r, v) ==
  \/ Sent(s, verb, o) /\ r = <<>> /\ ~ v
  \/ s = <<>> /\ Len(r) = 1 /\ Answer(r[1], verb, o) /\ r[1].code = 150 /\ v
  \/ s = <<>> /\ Len(r) = 1 /\ Answer(r[1], verb, o) /\ r[1].code = 550 /\ ~ v
  \/ /\ s = <<>> /\ Len(r) = 2 /\ Answer(r[1], verb, o) /\ Answer(r[2], verb, o)
     /\ r[1].code = 150 /\ r[2].code \in FinalCodes /\ ~ v

(* One whose final reply has not been read.                                   *)
Ends(verb, o, s, r, v) ==
  \/ s = <<>> /\ r = <<>> /\ v
  \/ /\ s = <<>> /\ Len(r) = 1 /\ Answer(r[1], verb, o) /\ r[1].code \in FinalCodes
     /\ ~ v

Confirms(e, r) == e = 226 \/ \E i \in 1..Len(r) : r[i].code = 226

(* A data connection d with the handler p waiting, the reply e kept and q     *)
(* requested, while operation o runs.                                         *)
InHand(d, p, e, o, s, r, v) ==
  /\ \/ /\ p = Handler("begun", Transfer[d.serves], o) /\ d.serves # "put" /\ d.sock = "open"
        /\ e = 0 /\ Begins(Transfer[d.serves], o, s, r, v)
     \/ /\ p = Handler("stored", Transfer[d.serves], o) /\ d.serves = "put"
        /\ e = 0 /\ Begins(Transfer[d.serves], o, s, r, v)
     \/ /\ p = Handler("final", Transfer[d.serves], o) /\ d.sock = "closed" /\ e = 0
        /\ \/ Begins(Transfer[d.serves], o, s, r, v) \/ Ends(Transfer[d.serves], o, s, r, v)
           \/ Idle(s, r, v)
     \/ p = NoHandler /\ e = 0 /\ Ends(Transfer[d.serves], o, s, r, v)
     \/ p = NoHandler /\ e \in {0} \cup FinalCodes /\ Idle(s, r, v)
  /\ d.armed <=> p.h # "stored"

(* The pieces of the file: none is there twice, a listing's and an upload's   *)
(* are all accounted for where the server may confirm them.                   *)
Pieces(d, e, q, s, r, v) ==
  /\ d \in Connections /\ d.sock \in {"open", "closed"}
  /\ d.coming + d.buffered + d.moved <= Chunks
  /\ s # <<>> /\ d.serves # "put" => d.coming = 0 /\ d.buffered = 0 /\ d.moved = 0
  /\ d.eof => ~ v /\ s = <<>>
  /\ d.serves = "list" =>
       /\ d.buffered = 0
       /\ v \/ Confirms(e, r) => d.coming + d.moved = Chunks
       /\ d.sock = "closed" => d.eof /\ d.coming = 0
  /\ d.serves = "put" =>
       /\ d.sock = "open" => d.coming + d.buffered + d.moved = Chunks
       /\ d.sock = "closed" /\ ~ d.eof => d.moved = Chunks \/ q.cancel
       /\ Confirms(e, r) => d.sock = "closed" /\ (d.moved = Chunks \/ q.cancel)

Transferring ==
  /\ control = "open" /\ connected /\ busy
  /\ InHand(data, pending, early, op, sent, replies, serving)
  /\ Pieces(data, early, req, sent, replies, serving)
  /\ activeData <=> data.serves # "list"

(* Without a data connection: down, connecting, logging in, refused, ready,   *)
(* with a command, or on the way to a data connection.                        *)
Asked(kind) == [NoData EXCEPT !.sock = "asked", !.serves = kind]
Simple == {"size", "made", "simple", "renameFrom"}
TransferVerbs == {"LIST", "RETR", "STOR"}

Down ==
  /\ control \in {"none", "dead"} /\ ~ connected /\ ~ busy /\ data = NoData
  /\ Idle(sent, replies, serving)
Joining ==
  /\ ~ connected /\ ~ busy /\ data = NoData
  /\ \/ control = "connecting" /\ pending = Handler("greeting", "HELLO", 0)
        /\ Idle(sent, replies, serving)
     \/ control = "securing" /\ pending = NoHandler /\ Idle(sent, replies, serving)
     \/ control = "open" /\ pending = NoHandler /\ Idle(sent, replies, serving)
     \/ /\ control = "open" /\ pending.h \in Login /\ pending.op = 0
        /\ pending.verb \notin TransferVerbs
        /\ Awaited(pending.verb, 0, sent, replies, serving)
Waiting ==
  /\ control = "open" /\ connected
  /\ \/ pending = NoHandler /\ data = NoData /\ Idle(sent, replies, serving)
     \/ /\ busy /\ data = NoData /\ pending.h \in Simple /\ pending.op = op
        /\ pending.verb \notin TransferVerbs
        /\ Awaited(pending.verb, op, sent, replies, serving)
     \/ /\ busy /\ \E kind \in {"list", "get", "put"} : data = Asked(kind)
        /\ pending = Handler("pasv", "PASV", op)
        /\ Awaited("PASV", op, sent, replies, serving)
     \/ /\ busy /\ \E kind \in {"list", "get", "put"} : data = [Asked(kind) EXCEPT !.sock = "opening"]
        /\ pending = NoHandler /\ Idle(sent, replies, serving)
WithoutData == (Down \/ Joining \/ Waiting) /\ early = 0 /\ ~ activeData

Link ==
  /\ owned \in BOOLEAN /\ tls \in BOOLEAN /\ encrypted \in BOOLEAN
  /\ connected \in BOOLEAN /\ timer \in BOOLEAN /\ (timer => control = "dead")
  /\ attempts \in 0..MaxReconnects /\ connects \in 0..MaxConnects
Books ==
  /\ pending \in Continuations
  /\ inTransfer \in BOOLEAN /\ activeData \in BOOLEAN /\ req \in Reqs
  /\ dirActive \in BOOLEAN /\ dirLeft \in Seq(Steps) /\ overflow \in BOOLEAN
  /\ sent \in Seq(Commands) /\ replies \in Seq(Replies) /\ serving \in BOOLEAN
  /\ op \in 0..MaxOps /\ busy \in BOOLEAN /\ unasked = FALSE
  /\ claims \subseteq Claims /\ Accounted

FtpInv == Link /\ Books /\ (WithoutData \/ Transferring)

-----------------------------------------------------------------------------
(* Commands and replies.                                                      *)

LEMMA HandlerType ==
  ASSUME NEW h \in Handlers, NEW verb \in Verbs, NEW o \in 0..MaxOps
  PROVE  Handler(h, verb, o) \in Continuations
BY DEF Handler, Continuations

LEMMA NoHandlerType == NoHandler \in Continuations
BY InstanceAssumption DEF NoHandler, Handler, Continuations, Handlers, Verbs

(* Nothing was on its way when a command is sent.                             *)
LEMMA SendsOne ==
  ASSUME NEW verb \in Verbs, NEW h \in Handlers, NEW o \in 0..MaxOps,
         sent = <<>>, encrypted \in BOOLEAN, SendFor(verb, h, o)
  PROVE  /\ pending' = Handler(h, verb, o) /\ pending' \in Continuations
         /\ sent' \in Seq(Commands) /\ Sent(sent', verb, o)
<1> DEFINE c == [verb |-> verb, op |-> o, safe |-> encrypted]
<1>1. c \in Commands /\ c.verb = verb /\ c.op = o  BY DEF Commands
<1>2. pending' = Handler(h, verb, o) /\ sent' = Append(<<>>, c)  BY DEF SendFor
<1> HIDE DEF c
<1>3. sent' \in Seq(Commands) /\ Len(sent') = 1 /\ sent'[1] = c
  BY <1>1, <1>2, EmptySeq, AppendProperties
<1> QED  BY <1>1, <1>2, <1>3, HandlerType DEF Sent

(* What the first reply leaves.                                               *)
LEMMA Reads ==
  ASSUME NEW r \in Seq(Replies), r # <<>>
  PROVE  /\ Head(r) = r[1] /\ r[1] \in Replies /\ Tail(r) \in Seq(Replies)
         /\ Len(Tail(r)) = Len(r) - 1
         /\ \A i \in 1..Len(Tail(r)) : Tail(r)[i] = r[i + 1]
         /\ Len(r) = 1 => Tail(r) = <<>>
<1>1. Len(r) \in Nat /\ Len(r) # 0  BY EmptySeq, LenProperties
<1>2. r[1] \in Replies  BY <1>1, ElementOfSeq
<1>3. /\ Tail(r) \in Seq(Replies) /\ Len(Tail(r)) = Len(r) - 1 /\ Head(r) = r[1]
      /\ \A i \in 1..Len(Tail(r)) : Tail(r)[i] = r[i + 1]
  BY <1>1, HeadTailProperties
<1> QED  BY <1>1, <1>2, <1>3, EmptySeq

LEMMA AwaitedRead ==
  ASSUME NEW r \in Seq(Replies), r # <<>>, NEW verb, NEW o, NEW s, NEW v,
         Awaited(verb, o, s, r, v)
  PROVE  Idle(s, Tail(r), v) /\ Answer(Head(r), verb, o)
BY Reads, EmptySeq DEF Awaited, Idle

LEMMA BeginsRead ==
  ASSUME NEW r \in Seq(Replies), r # <<>>, NEW verb, NEW o, NEW s, NEW v,
         Begins(verb, o, s, r, v)
  PROVE  /\ s = <<>> /\ Answer(Head(r), verb, o)
         /\ \/ Head(r).code = 150 /\ Ends(verb, o, s, Tail(r), v)
            \/ Head(r).code = 550 /\ Idle(s, Tail(r), v)
<1>1. /\ Head(r) = r[1] /\ Len(r) \in Nat /\ Len(Tail(r)) = Len(r) - 1
      /\ Len(Tail(r)) = 1 => Tail(r)[1] = r[2]
      /\ Len(r) = 1 => Tail(r) = <<>>
  BY Reads, LenProperties
<1>2. CASE Len(r) = 1  BY <1>1, <1>2 DEF Begins, Ends, Idle
<1>3. CASE Len(r) = 2
  <2>1. Len(Tail(r)) = 1 /\ Tail(r)[1] = r[2]  BY <1>1, <1>3
  <2>2. /\ s = <<>> /\ ~ v /\ Answer(r[1], verb, o) /\ Answer(r[2], verb, o)
        /\ r[1].code = 150 /\ r[2].code \in FinalCodes
    BY <1>3 DEF Begins
  <2>3. Ends(verb, o, s, Tail(r), v)  BY <2>1, <2>2 DEF Ends
  <2> QED  BY <1>1, <2>2, <2>3
<1> QED  BY <1>2, <1>3 DEF Begins

LEMMA EndsRead ==
  ASSUME NEW r \in Seq(Replies), r # <<>>, NEW verb, NEW o, NEW s, NEW v,
         Ends(verb, o, s, r, v)
  PROVE  /\ Idle(s, Tail(r), v) /\ Answer(Head(r), verb, o)
         /\ Head(r).code \in FinalCodes
BY Reads DEF Ends, Idle

(* What confirms a transfer and is still to be read confirmed it before.      *)
LEMMA ConfirmsRead ==
  ASSUME NEW r \in Seq(Replies), r # <<>>
  PROVE  /\ \A e : Confirms(e, Tail(r)) => Confirms(e, r)
         /\ Head(r).code = 226 => \A e : Confirms(e, r)
<1>1. Len(r) \in Nat \ {0}  BY EmptySeq, LenProperties
<1>2. \A i \in 1..Len(Tail(r)) : i + 1 \in 1..Len(r) /\ Tail(r)[i] = r[i + 1]
  BY <1>1, Reads
<1>3. 1 \in 1..Len(r) /\ Head(r) = r[1]  BY <1>1, Reads
<1> QED  BY <1>2, <1>3 DEF Confirms

-----------------------------------------------------------------------------
(* The results of operations.                                                 *)

(* One operation is over, or its folder upload goes on with another command.  *)
Proceeds ==
  /\ dirActive' \in BOOLEAN /\ dirLeft' \in Seq(Steps) /\ overflow' \in BOOLEAN
  /\ busy' \in BOOLEAN /\ unasked' = FALSE
  /\ pending' \in Continuations /\ sent' \in Seq(Commands)
  /\ \/ pending' = NoHandler /\ sent' = <<>>
     \/ /\ busy' /\ pending'.h \in Simple /\ pending'.op = op
        /\ pending'.verb \notin TransferVerbs /\ pending'.verb # "HELLO"
        /\ Sent(sent', pending'.verb, op)

(* An operation that nobody cancelled or lost is one that the caller awaits.  *)
LEMMA ReportsOnce ==
  ASSUME Books, busy, Report
  PROVE  busy' = FALSE /\ unasked' = FALSE
BY DEF Books, Report

LEMMA QuietProceeds ==
  ASSUME Books, sent = <<>>, Quiet, dirActive' \in BOOLEAN, dirLeft' \in Seq(Steps),
         overflow' \in BOOLEAN, busy' \in BOOLEAN, unasked' = FALSE
  PROVE  Proceeds
BY NoHandlerType, EmptySeq DEF Proceeds, Quiet

LEMMA ReportProceeds ==
  ASSUME Books, busy, sent = <<>>, Report, Quiet, UNCHANGED folder
  PROVE  Proceeds
<1>1. busy' = FALSE /\ unasked' = FALSE  BY ReportsOnce
<1> QED  BY <1>1, QuietProceeds DEF Books, folder

LEMMA FailureProceeds ==
  ASSUME Books, busy, sent = <<>>, UploadFailed
  PROVE  Proceeds
<1>1. busy' = FALSE /\ unasked' = FALSE  BY ReportsOnce DEF UploadFailed
<1> QED  BY <1>1, QuietProceeds, EmptySeq DEF Books, UploadFailed

LEMMA DirectoryProceeds ==
  ASSUME Link, Books, busy, sent = <<>>, NEW r \in Reqs, ProcessDirectory(r)
  PROVE  Proceeds
<1>1. CASE r.pause /\ Quiet /\ UNCHANGED <<folder, caller>>
  BY <1>1, QuietProceeds DEF Books, folder, caller
<1>2. CASE UploadFailed  BY <1>2, FailureProceeds
<1>3. CASE /\ dirLeft # <<>> /\ dirLeft' = Tail(dirLeft)
           /\ IF Head(dirLeft) = "folder" THEN Send("MKD", "made") ELSE Send("SIZE", "size")
           /\ UNCHANGED <<dirActive, overflow, caller>>
  <2>1. dirLeft' \in Seq(Steps)
    BY <1>3, EmptySeq, LenProperties, HeadTailProperties DEF Books
  <2>2. \E verb \in {"MKD", "SIZE"}, h \in {"made", "size"} : SendFor(verb, h, op)
    BY <1>3 DEF Send
  <2>3. PICK verb \in {"MKD", "SIZE"}, h \in {"made", "size"} : SendFor(verb, h, op)  BY <2>2
  <2>4. verb \in Verbs /\ h \in Handlers /\ op \in 0..MaxOps  BY DEF Verbs, Handlers, Books
  <2>5. /\ pending' = Handler(h, verb, op) /\ pending' \in Continuations
        /\ sent' \in Seq(Commands) /\ Sent(sent', verb, op)
    BY <2>3, <2>4, SendsOne DEF Link
  <2>6. pending'.h = h /\ pending'.verb = verb /\ pending'.op = op  BY <2>5 DEF Handler
  <2> QED  BY <1>3, <2>1, <2>5, <2>6 DEF Proceeds, Books, Simple, TransferVerbs, caller
<1>4. CASE overflow' = TRUE /\ Quiet /\ UNCHANGED <<dirActive, dirLeft, caller>>
  BY <1>4, QuietProceeds DEF Books, caller
<1> QED  BY <1>1, <1>2, <1>3, <1>4 DEF ProcessDirectory

LEMMA SuccessProceeds ==
  ASSUME Link, Books, busy, sent = <<>>, NEW r \in Reqs, UploadSucceeded(r)
  PROVE  Proceeds
BY DirectoryProceeds, ReportProceeds DEF UploadSucceeded

(* Such an operation needs no data connection.                                *)
LEMMA ProceedsKeeps ==
  ASSUME Proceeds, UNCHANGED <<session, op>>, control = "open", connected,
         data' = NoData, early' = 0, activeData' = FALSE,
         replies' = <<>>, serving' = FALSE
  PROVE  WithoutData'
<1>1. CASE pending' = NoHandler /\ sent' = <<>>
  BY <1>1 DEF WithoutData, Waiting, Idle, session
<1>2. CASE pending' # NoHandler \/ sent' # <<>>
  BY <1>2 DEF WithoutData, Waiting, Awaited, Proceeds, session
<1> QED  BY <1>1, <1>2

-----------------------------------------------------------------------------
(* The end of a transfer.                                                     *)

LEMMA LinkKept ==
  ASSUME Link, UNCHANGED session
  PROVE  Link'
BY DEF Link, session

(* What is claimed of the transfer with the final reply `code`: complete, if  *)
(* it is confirmed.                                                           *)
LEMMA ClaimsComplete ==
  ASSUME Books, NEW code \in {226, 426, 550},
         data.serves \in {"list", "get", "put"},
         data.serves # "get" /\ code = 226 => data.moved = Chunks
  PROVE  /\ claims \cup Claimed(code) \subseteq Claims
         /\ \A c \in claims \cup Claimed(code) : c.confirmed /\ c.serves # "get" => c.complete
<1> DEFINE c == [serves |-> data.serves, complete |-> data.moved = Chunks,
                 confirmed |-> Positive(code)]
<1>1. Positive(code) \in BOOLEAN /\ (Positive(code) => code = 226)  BY DEF Positive
<1>2. c \in Claims  BY <1>1 DEF Claims
<1>3. c.confirmed /\ c.serves # "get" => c.complete  BY <1>1
<1>4. Claimed(code) = {c}  BY DEF Claimed
<1> HIDE DEF c
<1> QED  BY <1>2, <1>3, <1>4 DEF Books, Accounted

LEMMA TransferEnds ==
  ASSUME Link, Books, connected, control = "open", busy, sent = <<>>,
         data.serves \in {"list", "get", "put"}, activeData <=> data.serves # "list",
         NEW code \in {226, 426, 550}, NEW r \in Reqs,
         data.serves = "list" /\ code = 226 => data.moved = Chunks,
         data.serves = "put" /\ code = 226 => data.moved = Chunks \/ r.cancel,
         CompleteTransfer(code, r),
         UNCHANGED <<session, op>>, replies' = <<>>, serving' = FALSE
  PROVE  FtpInv'
<1>1. data' = NoData /\ early' = 0 /\ inTransfer' = FALSE  BY DEF CompleteTransfer
<1>2. /\ Proceeds /\ activeData' = FALSE /\ req' \in Reqs
      /\ claims' \subseteq Claims /\ Accounted'
  <2>1. CASE data.serves = "list" /\ ListingDone(code, r)
    <3>1. Proceeds  BY <2>1, ReportProceeds DEF ListingDone
    <3>2. activeData' = FALSE /\ req' \in Reqs  BY <2>1 DEF ListingDone, Books
    <3>3. claims' = claims \/ claims' = claims \cup Claimed(code)  BY <2>1 DEF ListingDone
    <3>4. data.serves # "get" /\ code = 226 => data.moved = Chunks  BY <2>1
    <3>5. claims \cup Claimed(code) \subseteq Claims
          /\ \A c \in claims \cup Claimed(code) : c.confirmed /\ c.serves # "get" => c.complete
      BY <3>4, ClaimsComplete
    <3>6. claims' \subseteq Claims /\ Accounted'
      BY <3>3, <3>5 DEF Accounted
    <3> QED  BY <3>1, <3>2, <3>6
  <2>2. CASE data.serves = "get" /\ DownloadDone(code, r)
    <3>1. Proceeds  BY <2>2, ReportProceeds DEF DownloadDone
    <3>2. activeData' = FALSE /\ req' \in Reqs  BY <2>2 DEF DownloadDone, NoReq, Reqs
    <3>3. claims' = claims \/ claims' = claims \cup Claimed(code)  BY <2>2 DEF DownloadDone
    <3>4. data.serves # "get" /\ code = 226 => data.moved = Chunks  BY <2>2
    <3>5. claims \cup Claimed(code) \subseteq Claims
          /\ \A c \in claims \cup Claimed(code) : c.confirmed /\ c.serves # "get" => c.complete
      BY <3>4, ClaimsComplete
    <3>6. claims' \subseteq Claims /\ Accounted'
      BY <3>3, <3>5 DEF Accounted
    <3> QED  BY <3>1, <3>2, <3>6
  <2>3. CASE data.serves = "put" /\ UploadDone(code, r)
    <3> DEFINE after == [cancel |-> FALSE, pause |-> r.pause /\ dirActive]
    <3>1. after \in Reqs  BY DEF Reqs, Books
    <3>2. activeData' = FALSE /\ req' \in Reqs  BY <2>3, <3>1 DEF UploadDone
    <3>3. CASE r.cancel
      <4>1. UploadFailed /\ claims' = claims  BY <2>3, <3>3 DEF UploadDone, WasCancelled
      <4> QED  BY <3>2, <4>1, FailureProceeds DEF Books, Accounted
    <3>4. CASE ~ r.cancel
      <4>1. UploadSucceeded(after) /\ claims' = claims \cup Claimed(code)
        BY <2>3, <3>4 DEF UploadDone, WasCancelled
      <4> HIDE DEF after
      <4>2. Proceeds  BY <3>1, <4>1, SuccessProceeds
      <4> QED  BY <2>3, <3>2, <3>4, <4>1, <4>2, ClaimsComplete DEF Accounted
    <3> QED  BY <3>3, <3>4
  <2> QED  BY <2>1, <2>2, <2>3 DEF CompleteTransfer
<1>3. WithoutData'  BY <1>1, <1>2, ProceedsKeeps
<1>4. Link'  BY LinkKept
<1>5. Books'  BY <1>1, <1>2, EmptySeq DEF Proceeds, Books
<1> QED  BY <1>3, <1>4, <1>5 DEF FtpInv

-----------------------------------------------------------------------------
(* A transfer that goes on.                                                   *)

LEMMA TransferVerb ==
  \A kind \in {"list", "get", "put"} :
     Transfer[kind] \in Verbs /\ Transfer[kind] \in TransferVerbs
BY DEF Transfer, Verbs, TransferVerbs

LEMMA InHandType ==
  ASSUME NEW d \in Connections, NEW p, NEW e, NEW o \in 0..MaxOps, NEW s, NEW r, NEW v,
         InHand(d, p, e, o, s, r, v)
  PROVE  p \in Continuations /\ e \in Codes
<1>1. d.serves \in {"list", "get", "put"}  BY DEF Connections, Sockets, Transfer
<1>2. e \in Codes  BY DEF InHand, FinalCodes, Codes
<1>3. p = NoHandler \/ \E h \in {"begun", "stored", "final"} : p = Handler(h, Transfer[d.serves], o)
  BY DEF InHand
<1>4. {"begun", "stored", "final"} \subseteq Handlers  BY DEF Handlers
<1> QED  BY <1>1, <1>2, <1>3, <1>4, TransferVerb, HandlerType, NoHandlerType

LEMMA SameInHand ==
  ASSUME NEW d, NEW n, n.serves = d.serves, n.sock = d.sock, n.armed = d.armed,
         NEW p, NEW e, NEW o, NEW s, NEW r, NEW v, InHand(d, p, e, o, s, r, v)
  PROVE  InHand(n, p, e, o, s, r, v)
BY DEF InHand

LEMMA SamePieces ==
  ASSUME NEW d, NEW e, NEW s, NEW r, NEW v, NEW q, NEW k, Pieces(d, e, q, s, r, v),
         q.cancel => k.cancel
  PROVE  Pieces(d, e, k, s, r, v)
BY DEF Pieces

LEMMA TransferGoesOn ==
  ASSUME Link, Books, connected, control = "open", busy,
         UNCHANGED <<session, op, folder, caller, claims>>,
         InHand(data', pending', early', op, sent', replies', serving'),
         Pieces(data', early', req', sent', replies', serving'),
         activeData' <=> data'.serves # "list", activeData' \in BOOLEAN,
         req' \in Reqs, inTransfer' \in BOOLEAN, serving' \in BOOLEAN,
         sent' \in Seq(Commands), replies' \in Seq(Replies)
  PROVE  FtpInv'
<1>1. Link'  BY LinkKept
<1>2. data' \in Connections  BY DEF Pieces
<1>3. pending' \in Continuations  BY <1>2, InHandType DEF Books
<1>4. Books'  BY <1>3 DEF Books, folder, caller, Accounted
<1>5. Transferring'  BY DEF Transferring, session, caller
<1> QED  BY <1>1, <1>4, <1>5 DEF FtpInv

LEMMA EndedKeeps ==
  ASSUME Link, Books, connected, control = "open", busy,
         data \in Connections, activeData <=> data.serves # "list",
         NEW d, NEW p, NEW r \in Reqs, NEW n, d.serves = data.serves, d.sock = "closed",
         n.serves = d.serves, n.armed = d.armed, n.sock = "open",
         InHand(n, p, early, op, sent, replies', serving),
         Pieces(d, early, r, sent, replies', serving),
         early = 226 => data.serves # "put" /\ (data.serves = "list" => data.moved = Chunks),
         Ended(d, p, r), UNCHANGED <<session, serving, op>>, replies' \in Seq(Replies)
  PROVE  FtpInv'
<1>1. data.serves \in {"list", "get", "put"}  BY DEF Connections, Sockets, Transfer
<1>2. CASE early # 0
  <2>1. early \in FinalCodes /\ Idle(sent, replies', serving) /\ p = NoHandler /\ n.armed
    BY <1>2 DEF InHand, NoHandler, Handler
  <2>2. CompleteTransfer(early, r)  BY <1>2, <2>1 DEF Ended, KeepsReply
  <2>3. sent = <<>> /\ replies' = <<>> /\ serving' = FALSE  BY <2>1 DEF Idle, Books
  <2>4. early \in {226, 426, 550}  BY <2>1 DEF FinalCodes
  <2> QED  BY <1>1, <2>2, <2>3, <2>4, TransferEnds
<1>3. CASE early = 0
  <2>1. /\ data' = d /\ req' = r /\ Untouched
        /\ pending' = IF d.armed THEN Handler("final", Transfer[d.serves], op) ELSE p
    BY <1>3 DEF Ended, KeepsReply
  <2>2. InHand(d, pending', early, op, sent, replies', serving)
    <3>1. CASE d.armed
      <4>1. pending' = Handler("final", Transfer[d.serves], op) /\ pending'.h # "stored"
        BY <2>1, <3>1 DEF Handler
      <4>2. p.h # "stored"  BY <3>1 DEF InHand
      <4>3. \/ Begins(Transfer[d.serves], op, sent, replies', serving)
            \/ Ends(Transfer[d.serves], op, sent, replies', serving)
            \/ Idle(sent, replies', serving)
        BY <1>3, <4>2 DEF InHand, Handler
      <4> QED  BY <1>3, <3>1, <4>1, <4>3 DEF InHand
    <3>2. CASE ~ d.armed
      <4>1. pending' = p /\ p.h = "stored"  BY <2>1, <3>2 DEF InHand
      <4>2. /\ p = Handler("stored", Transfer[d.serves], op) /\ d.serves = "put"
            /\ Begins(Transfer[d.serves], op, sent, replies', serving)
        BY <4>1 DEF InHand, Handler, NoHandler
      <4> QED  BY <1>3, <3>2, <4>1, <4>2 DEF InHand
    <3> QED  BY <3>1, <3>2
  <2>3. UNCHANGED <<session, op, folder, caller, claims, sent, early, inTransfer, activeData>>
    BY <2>1 DEF Untouched, early2
  <2>4. InHand(data', pending', early', op, sent', replies', serving')
    BY <2>1, <2>2, <2>3
  <2>5. Pieces(data', early', req', sent', replies', serving')
    BY <2>1, <2>3
  <2>6. /\ activeData' <=> data'.serves # "list"
        /\ activeData' \in BOOLEAN /\ req' \in Reqs /\ inTransfer' \in BOOLEAN
        /\ serving' \in BOOLEAN /\ sent' \in Seq(Commands)
    BY <2>1, <2>3 DEF Books
  <2> QED  BY <2>3, <2>4, <2>5, <2>6, TransferGoesOn
<1> QED  BY <1>2, <1>3

LEMMA PumpKeeps ==
  ASSUME Link, Books, connected, control = "open", busy,
         data \in Connections, activeData, data.serves = "put",
         NEW d, NEW p, NEW r \in Reqs, d.serves = "put",
         InHand(d, p, early, op, sent, replies', serving),
         Pieces(d, early, r, sent, replies', serving),
         PumpUpload(d, p, r), UNCHANGED <<session, serving, op>>, replies' \in Seq(Replies)
  PROVE  FtpInv'
<1> DEFINE n == IF ~ (d.coming > 0 /\ d.buffered = 0) THEN d
                ELSE [d EXCEPT !.coming = @ - 1, !.buffered = IF d.sock = "open" THEN 1 ELSE 0]
<1>1. /\ d \in Connections /\ d.coming \in 0..Chunks /\ d.buffered \in 0..Chunks
      /\ d.moved \in 0..Chunks /\ Chunks \in Nat \ {0}
  BY InstanceAssumption DEF Pieces, Connections, Sockets
<1>2. /\ n \in Connections /\ n.serves = "put" /\ n.armed = d.armed /\ n.sock = d.sock
      /\ n.eof = d.eof /\ n.moved = d.moved /\ n.coming <= d.coming
      /\ n.coming + n.buffered + n.moved <= d.coming + d.buffered + d.moved
      /\ d.sock = "open" => n.coming + n.buffered = d.coming + d.buffered
  <2>1. CASE d.coming > 0 /\ d.buffered = 0
    <3> DEFINE m == IF d.sock = "open" THEN 1 ELSE 0
    <3>1. n = [d EXCEPT !.coming = @ - 1, !.buffered = m]  BY <2>1
    <3>2. m \in 0..1 /\ m \in 0..Chunks /\ d.coming - 1 \in 0..Chunks  BY <1>1, <2>1
    <3>3. n \in Connections /\ n.serves = d.serves /\ n.armed = d.armed /\ n.sock = d.sock
          /\ n.eof = d.eof /\ n.moved = d.moved /\ n.coming = d.coming - 1 /\ n.buffered = m
      <4> HIDE DEF m, n
      <4> QED  BY <1>1, <3>1, <3>2 DEF Connections, Sockets
    <3>4. d.sock = "open" => m = 1  OBVIOUS
    <3> HIDE DEF m, n
    <3> QED  BY <1>1, <2>1, <3>2, <3>3, <3>4
  <2>2. CASE ~ (d.coming > 0 /\ d.buffered = 0)
    <3>1. n = d  BY <2>2
    <3> HIDE DEF n
    <3> QED  BY <1>1, <3>1
  <2> QED  BY <2>1, <2>2
<1>3. \/ /\ n.coming = 0 /\ n.buffered = 0 /\ n.sock = "open" /\ Ended(Closed(n), p, r)
      \/ data' = n /\ pending' = p /\ req' = r /\ Untouched
  BY DEF PumpUpload
<1> HIDE DEF n
<1>4. n.coming \in 0..Chunks /\ n.buffered \in 0..Chunks /\ n.moved \in 0..Chunks
  BY <1>2 DEF Connections, Sockets
<1>5. InHand(n, p, early, op, sent, replies', serving)  BY <1>2, SameInHand
<1>6. Pieces(n, early, r, sent, replies', serving)
  BY <1>1, <1>2, <1>4 DEF Pieces
<1>7. CASE n.coming = 0 /\ n.buffered = 0 /\ n.sock = "open" /\ Ended(Closed(n), p, r)
  <2> DEFINE c == Closed(n)
  <2>1. /\ c \in Connections /\ c.sock = "closed" /\ c.serves = "put" /\ c.armed = n.armed
        /\ c.eof = n.eof /\ c.coming = n.coming /\ c.buffered = n.buffered
        /\ c.moved = n.moved
    BY <1>2 DEF Closed, Connections, Sockets
  <2> HIDE DEF c
  <2>2. n.moved = Chunks  BY <1>1, <1>2, <1>4, <1>6, <1>7 DEF Pieces
  <2>3. Pieces(c, early, r, sent, replies', serving)
    BY <1>2, <1>4, <1>6, <1>7, <2>1, <2>2 DEF Pieces
  <2>4. early # 226  BY <1>2, <1>6, <1>7 DEF Pieces, Confirms
  <2>5. Ended(c, p, r)  BY <1>7 DEF c
  <2> QED  BY <1>2, <1>5, <1>7, <2>1, <2>3, <2>4, <2>5, EndedKeeps
<1>8. CASE data' = n /\ pending' = p /\ req' = r /\ Untouched
  <2>1. UNCHANGED <<session, op, folder, caller, claims, sent, early, inTransfer, activeData>>
    BY <1>8 DEF Untouched, early2
  <2> QED  BY <1>2, <1>5, <1>6, <1>8, <2>1, TransferGoesOn DEF Books
<1> QED  BY <1>3, <1>7, <1>8

-----------------------------------------------------------------------------
(* Connecting and logging in.                                                 *)

LEMMA InitFtp ==
  ASSUME Init
  PROVE  FtpInv
<1>1. 0 \in 0..MaxOps /\ 0 \in 0..MaxConnects /\ 0 \in 0..MaxReconnects
  BY InstanceAssumption DEF MaxReconnects
<1>2. Link  BY <1>1, InstanceAssumption DEF Init, Link
<1>3. <<>> \in Seq(Commands) /\ <<>> \in Seq(Replies) /\ <<>> \in Seq(Steps)  BY EmptySeq
<1>4. Books
  BY <1>1, <1>3, NoHandlerType DEF Init, Books, NoReq, Reqs, Accounted
<1>5. WithoutData  BY DEF Init, WithoutData, Down, Idle
<1> QED  BY <1>2, <1>4, <1>5 DEF FtpInv

LEMMA DiscardFtp ==
  ASSUME FtpInv, Discard
  PROVE  FtpInv'
<1>1. 0 \in 0..MaxReconnects  BY DEF MaxReconnects
<1>2. Link'  BY <1>1 DEF FtpInv, Link, Discard
<1>3. Books'
  BY NoHandlerType, EmptySeq DEF FtpInv, Books, Discard, NoReq, Reqs, Accounted
<1>4. WithoutData'  BY DEF Discard, WithoutData, Down, Idle
<1> QED  BY <1>2, <1>3, <1>4 DEF FtpInv

(* connectToHost starts where nothing is left of the last connection.         *)
LEMMA ConnectFtp ==
  ASSUME FtpInv, control \in {"none", "dead"}, ConnectToHost,
         attempts' \in 0..MaxReconnects, connects' \in 0..MaxConnects
  PROVE  FtpInv'
<1>1. data = NoData /\ ~ busy /\ early = 0 /\ ~ activeData
  BY DEF FtpInv, WithoutData, Transferring, Down, Joining, Waiting
<1>2. Link'  BY DEF FtpInv, Link, ConnectToHost, StopTimer
<1>3. 0 \in 0..MaxOps  BY InstanceAssumption
<1>4. pending' \in Continuations
  BY <1>3, NoHandlerType, HandlerType DEF ConnectToHost, Handlers, Login, Verbs
<1>5. Books'
  BY <1>4, EmptySeq DEF FtpInv, Books, ConnectToHost, folder, flags, caller, Accounted
<1>6. WithoutData'
  BY <1>1 DEF ConnectToHost, flags, caller, WithoutData, Down, Joining, Idle
<1> QED  BY <1>2, <1>5, <1>6 DEF FtpInv

LEMMA UserConnectsFtp ==
  ASSUME FtpInv, UserConnects
  PROVE  FtpInv'
<1>1. attempts' \in 0..MaxReconnects /\ connects' \in 0..MaxConnects
  BY InstanceAssumption DEF UserConnects, MaxReconnects, FtpInv, Link
<1> QED  BY <1>1, ConnectFtp DEF UserConnects

LEMMA TimerFiresFtp ==
  ASSUME FtpInv, TimerFires
  PROVE  FtpInv'
<1>1. control = "dead"  BY DEF FtpInv, Link, TimerFires
<1> QED  BY <1>1, ConnectFtp DEF TimerFires, FtpInv, Link

(* Undisturbed, the control connection is lost without a data connection.     *)
LEMMA ControlLostFtp ==
  ASSUME Undisturbed, FtpInv, ControlLost
  PROVE  FtpInv'
<1>1. CASE Discard  BY <1>1, DiscardFtp
<1>2. CASE ~ owned
  <2>1. data.sock = "none"  BY DEF Undisturbed, ControlLost
  <2>2. data = NoData /\ early = 0 /\ ~ activeData
    BY <2>1 DEF FtpInv, WithoutData, Transferring, Pieces, Down, Joining, Waiting, Asked, NoData
  <2>3. timer' \in BOOLEAN /\ attempts' \in 0..MaxReconnects
    <3>1. \/ attempts < MaxReconnects /\ timer' = TRUE /\ attempts' = attempts + 1
          \/ timer' = timer /\ attempts' = attempts
      BY <1>2 DEF ControlLost
    <3>2. timer \in BOOLEAN /\ attempts \in 0..3  BY DEF FtpInv, Link, MaxReconnects
    <3>3. timer' \in BOOLEAN  BY <3>1, <3>2, Zenon
    <3>4. attempts' = attempts \/ (attempts < 3 /\ attempts' = attempts + 1)
      BY <3>1, Zenon DEF MaxReconnects
    <3>5. attempts' \in 0..3  BY ONLY <3>2, <3>4
    <3> QED  BY <3>3, <3>5 DEF MaxReconnects
  <2>4. Link'  BY <1>2, <2>3 DEF ControlLost, FtpInv, Link
  <2>5. Books'
    BY <1>2, EmptySeq DEF ControlLost, FtpInv, Books, early2, flags, folder, Accounted
  <2>6. WithoutData'
    BY <1>2, <2>2 DEF ControlLost, early2, flags, WithoutData, Down, Idle
  <2> QED  BY <2>4, <2>5, <2>6 DEF FtpInv
<1> QED  BY <1>1, <1>2 DEF ControlLost

LEMMA GreetedFtp ==
  ASSUME FtpInv, Greeted
  PROVE  FtpInv'
<1> DEFINE a == [verb |-> "HELLO", op |-> 0, code |-> 220]
<1>1. a \in Replies /\ a.verb = "HELLO" /\ a.op = 0
  BY InstanceAssumption DEF Replies, Verbs, Codes
<1>2. /\ pending = Handler("greeting", "HELLO", 0) /\ Idle(sent, replies, serving)
      /\ ~ connected /\ ~ busy /\ data = NoData /\ early = 0 /\ ~ activeData
  BY DEF FtpInv, Greeted, WithoutData, Transferring, Down, Joining, Waiting
<1>3. replies' = Append(<<>>, a)  BY <1>2 DEF Greeted, Idle
<1> HIDE DEF a
<1>4. replies' \in Seq(Replies) /\ Len(replies') = 1 /\ replies'[1] = a
  BY <1>1, <1>3, EmptySeq, AppendProperties
<1>5. Link'  BY DEF FtpInv, Link, Greeted
<1>6. Books'
  BY <1>4 DEF FtpInv, Books, Greeted, early2, flags, folder, caller, Accounted
<1>7. /\ control' = "open" /\ connected' = connected
      /\ UNCHANGED <<busy, data, early, activeData, pending, sent, serving>>
  BY DEF Greeted, early2, flags, caller
<1>8. pending.h \in Login /\ pending.op = 0 /\ pending.verb = "HELLO"
  BY <1>2 DEF Handler, Login
<1>9. Awaited("HELLO", 0, sent', replies', serving')
  BY <1>1, <1>2, <1>4, <1>7 DEF Awaited, Answer, Idle
<1>10. WithoutData'
  BY <1>2, <1>7, <1>8, <1>9 DEF WithoutData, Joining, TransferVerbs
<1> QED  BY <1>5, <1>6, <1>10 DEF FtpInv

LEMMA EncryptedFtp ==
  ASSUME FtpInv, Encrypted
  PROVE  FtpInv'
<1> DEFINE c == [verb |-> "USER", op |-> 0, safe |-> TRUE]
<1>1. c \in Commands /\ c.verb = "USER" /\ c.op = 0
  BY InstanceAssumption DEF Commands, Verbs
<1>2. /\ Idle(sent, replies, serving)
      /\ ~ connected /\ ~ busy /\ data = NoData /\ early = 0 /\ ~ activeData
  BY DEF FtpInv, Encrypted, WithoutData, Transferring, Down, Joining, Waiting
<1>3. sent' = Append(<<>>, c)  BY <1>2 DEF Encrypted, Idle
<1> HIDE DEF c
<1>4. sent' \in Seq(Commands) /\ Len(sent') = 1 /\ sent'[1] = c
  BY <1>1, <1>3, EmptySeq, AppendProperties
<1>5. Link'  BY DEF FtpInv, Link, Encrypted
<1>6. pending' = Handler("user", "USER", 0) /\ pending' \in Continuations
  BY InstanceAssumption, HandlerType DEF Encrypted, Handlers, Login, Verbs
<1>7. Books'
  BY <1>4, <1>6 DEF FtpInv, Books, Encrypted, early2, flags, folder, caller, Accounted
<1>8. /\ control' = "open" /\ connected' = connected
      /\ UNCHANGED <<busy, data, early, activeData, replies, serving>>
  BY DEF Encrypted, early2, flags, caller
<1>9. pending'.h \in Login /\ pending'.op = 0 /\ pending'.verb = "USER"
  BY <1>6 DEF Handler, Login
<1>10. Awaited("USER", 0, sent', replies', serving')
  BY <1>1, <1>2, <1>4, <1>8 DEF Awaited, Sent, Idle
<1>11. WithoutData'
  BY <1>2, <1>8, <1>9, <1>10 DEF WithoutData, Joining, TransferVerbs
<1> QED  BY <1>5, <1>7, <1>11 DEF FtpInv

-----------------------------------------------------------------------------
(* Replies: which one the waiting handler hears, and what is left then.       *)

LEMMA LoginHeard ==
  ASSUME FtpInv, control = "open", replies # <<>>, pending.h \in Login
  PROVE  /\ ~ connected /\ ~ busy /\ data = NoData /\ early = 0 /\ ~ activeData
         /\ Idle(sent, Tail(replies), serving) /\ sent = <<>>
<1>1. ~ Transferring  BY DEF Transferring, InHand, Handler, NoHandler, Login
<1>2. ~ Down /\ ~ Waiting  BY DEF Down, Waiting, Handler, NoHandler, Login, Simple
<1>3. /\ ~ connected /\ ~ busy /\ data = NoData /\ early = 0 /\ ~ activeData
      /\ Awaited(pending.verb, 0, sent, replies, serving)
  BY <1>1, <1>2 DEF FtpInv, WithoutData, Joining, Handler, NoHandler, Login, Idle
<1> QED  BY <1>3, AwaitedRead DEF FtpInv, Books, Idle

LEMMA CommandHeard ==
  ASSUME FtpInv, control = "open", replies # <<>>, pending.h \in Simple \cup {"pasv"}
  PROVE  /\ connected /\ busy /\ early = 0 /\ ~ activeData /\ pending.op = op
         /\ Idle(sent, Tail(replies), serving) /\ sent = <<>>
         /\ pending.h \in Simple => data = NoData
         /\ pending.h = "pasv" => \E kind \in {"list", "get", "put"} : data = Asked(kind)
<1>1. ~ Transferring  BY DEF Transferring, InHand, Handler, NoHandler, Simple
<1>2. ~ Down /\ ~ Joining  BY DEF Down, Joining, Handler, NoHandler, Login, Simple
<1>3. /\ connected /\ busy /\ early = 0 /\ ~ activeData /\ pending.op = op
      /\ Awaited(pending.verb, op, sent, replies, serving)
      /\ pending.h \in Simple => data = NoData
      /\ pending.h = "pasv" => \E kind \in {"list", "get", "put"} : data = Asked(kind)
  BY <1>1, <1>2 DEF FtpInv, WithoutData, Waiting, Handler, NoHandler, Simple, Idle
<1> QED  BY <1>3, AwaitedRead DEF FtpInv, Books, Idle

LEMMA TransferHeard ==
  ASSUME FtpInv, control = "open", replies # <<>>,
         pending.h \in {"begun", "stored", "final", "none"}
  PROVE  Transferring
BY DEF FtpInv, WithoutData, Down, Joining, Waiting, Idle, Handler, NoHandler, Login, Simple

LEMMA HearLoginFtp ==
  ASSUME FtpInv, control = "open", replies # <<>>, NEW code, HearLogin(code)
  PROVE  FtpInv'
<1>1. pending.h \in Login  BY DEF HearLogin
<1>2. /\ ~ connected /\ ~ busy /\ data = NoData /\ early = 0 /\ ~ activeData
      /\ Tail(replies) = <<>> /\ sent = <<>> /\ ~ serving
  BY <1>1, LoginHeard DEF Idle
<1>3. CASE Discard  BY <1>3, DiscardFtp
<1>4. CASE /\ replies' = Tail(replies)
           /\ UNCHANGED <<owned, tls, timer, connects, early2, data, flags, folder, caller>>
           /\ \/ Quiet /\ UNCHANGED <<control, encrypted, connected, attempts>>
              \/ LoginStep(code)
  <2>1. 0 \in 0..MaxOps /\ 0 \in 0..MaxReconnects /\ encrypted \in BOOLEAN
    BY InstanceAssumption DEF MaxReconnects, FtpInv, Link
  <2>2. /\ UNCHANGED <<owned, tls, timer, connects, early, inTransfer, data, activeData, req,
                       dirActive, dirLeft, overflow, busy, unasked, serving, op, claims>>
        /\ replies' = <<>>
    BY <1>2, <1>4 DEF HearLogin, early2, flags, folder, caller
  <2>3. ~ timer /\ attempts \in 0..MaxReconnects /\ connected \in BOOLEAN
    BY DEF FtpInv, Link
  <2>4. /\ pending' \in Continuations /\ sent' \in Seq(Commands)
        /\ attempts' \in 0..MaxReconnects /\ encrypted' = encrypted
        /\ \/ /\ control' \in {"open", "securing"} /\ pending' = NoHandler /\ sent' = <<>>
              /\ connected' = FALSE
           \/ control' = "open" /\ pending' = NoHandler /\ sent' = <<>> /\ connected' = TRUE
           \/ /\ control' = "open" /\ connected' = FALSE
              /\ \E verb \in {"AUTH", "USER", "PASS", "TYPE", "PBSZ", "PROT"}, h \in Login :
                    pending' = Handler(h, verb, 0) /\ Sent(sent', verb, 0)
    <3>1. CASE Quiet /\ UNCHANGED <<control, encrypted, connected, attempts>>
      BY <1>2, <2>3, <3>1, NoHandlerType, EmptySeq DEF Quiet
    <3>2. CASE /\ control' = "securing" /\ Quiet
               /\ UNCHANGED <<connected, attempts, encrypted>>
      BY <1>2, <2>3, <3>2, NoHandlerType, EmptySeq DEF Quiet
    <3>3. CASE LoggedIn
      BY <1>2, <2>1, <3>3, NoHandlerType, EmptySeq DEF LoggedIn, Quiet
    <3>4. CASE /\ UNCHANGED <<control, connected, attempts, encrypted>>
               /\ \E verb \in {"AUTH", "USER", "PASS", "TYPE", "PBSZ", "PROT"}, h \in Login :
                     SendFor(verb, h, 0)
      <4>1. PICK verb \in {"AUTH", "USER", "PASS", "TYPE", "PBSZ", "PROT"}, h \in Login :
               SendFor(verb, h, 0)
        BY <3>4
      <4>2. verb \in Verbs /\ h \in Handlers  BY DEF Verbs, Handlers
      <4>3. /\ pending' = Handler(h, verb, 0) /\ pending' \in Continuations
            /\ sent' \in Seq(Commands) /\ Sent(sent', verb, 0)
        BY <1>2, <2>1, <4>1, <4>2, SendsOne
      <4> QED  BY <1>2, <2>3, <3>4, <4>3
    <3> QED  BY <1>4, <3>1, <3>2, <3>3, <3>4 DEF LoginStep, FirstCommand, Login
  <2>5. Link'  BY <2>2, <2>3, <2>4 DEF FtpInv, Link
  <2>6. Books'  BY <2>2, <2>4, EmptySeq DEF FtpInv, Books, Accounted
  <2>7. WithoutData'
    <3>1. CASE pending' = NoHandler /\ sent' = <<>>
      BY <1>2, <2>2, <2>4, <3>1 DEF WithoutData, Joining, Waiting, Idle
    <3>2. CASE /\ control' = "open" /\ connected' = FALSE
               /\ \E verb \in {"AUTH", "USER", "PASS", "TYPE", "PBSZ", "PROT"}, h \in Login :
                     pending' = Handler(h, verb, 0) /\ Sent(sent', verb, 0)
      <4>1. /\ pending'.h \in Login /\ pending'.op = 0 /\ pending'.verb # "HELLO"
            /\ pending'.verb \notin TransferVerbs /\ Sent(sent', pending'.verb, 0)
        BY <3>2 DEF Handler, TransferVerbs
      <4>2. Awaited(pending'.verb, 0, sent', replies', serving')
        BY <1>2, <2>2, <4>1 DEF Awaited
      <4> QED  BY <1>2, <2>2, <3>2, <4>1, <4>2 DEF WithoutData, Joining
    <3> QED  BY <2>4, <3>1, <3>2
  <2> QED  BY <2>5, <2>6, <2>7 DEF FtpInv
<1> QED  BY <1>3, <1>4 DEF HearLogin

LEMMA ResultFtp ==
  ASSUME Link, Books, connected, control = "open", Proceeds,
         UNCHANGED <<session, op, claims>>, inTransfer' \in BOOLEAN, req' \in Reqs,
         data' = NoData, early' = 0, activeData' = FALSE, replies' = <<>>, serving' = FALSE
  PROVE  FtpInv'
<1>1. WithoutData'  BY ProceedsKeeps
<1>2. Link'  BY LinkKept
<1>3. Books'  BY EmptySeq DEF Proceeds, Books, Accounted
<1> QED  BY <1>1, <1>2, <1>3 DEF FtpInv

LEMMA HearPasvFtp ==
  ASSUME FtpInv, control = "open", replies # <<>>, replies' = Tail(replies),
         UNCHANGED <<session, serving, op>>, NEW code, HearPasv(code)
  PROVE  FtpInv'
<1>1. pending.h = "pasv"  BY DEF HearPasv
<1>2. /\ connected /\ busy /\ early = 0 /\ ~ activeData /\ Tail(replies) = <<>>
      /\ sent = <<>> /\ ~ serving /\ \E kind \in {"list", "get", "put"} : data = Asked(kind)
  BY <1>1, CommandHeard DEF Idle
<1>3. Link /\ Books  BY DEF FtpInv
<1>4. UNCHANGED <<early, inTransfer, activeData, req, dirActive, dirLeft, overflow, claims>>
  BY DEF HearPasv, early2, flags, folder
<1>5. pending' = NoHandler /\ sent' = <<>>  BY <1>2 DEF HearPasv, Quiet
<1>6. CASE data' = [data EXCEPT !.sock = "opening"] /\ UNCHANGED caller
  <2>1. Books'
    BY <1>2, <1>3, <1>4, <1>5, <1>6, NoHandlerType, EmptySeq DEF Books, caller, Accounted
  <2>2. WithoutData'
    BY <1>2, <1>4, <1>5, <1>6 DEF WithoutData, Waiting, Idle, session, caller
  <2> QED  BY <1>3, <2>1, <2>2, LinkKept DEF FtpInv
<1>7. CASE data' = NoData /\ Report
  <2>1. Proceeds
    BY <1>2, <1>3, <1>4, <1>7, ReportProceeds DEF folder, HearPasv
  <2> QED  BY <1>2, <1>3, <1>4, <1>7, <2>1, ResultFtp DEF Books
<1> QED  BY <1>6, <1>7 DEF HearPasv

(* The answers to SIZE, MKD and the commands without data.                    *)
LEMMA HearResultFtp ==
  ASSUME FtpInv, control = "open", replies # <<>>, replies' = Tail(replies),
         UNCHANGED <<session, serving, op, claims, early2, activeData>>,
         pending.h \in Simple, Proceeds, data' = data, req' \in Reqs
  PROVE  FtpInv'
<1>1. /\ connected /\ busy /\ early = 0 /\ ~ activeData /\ Tail(replies) = <<>>
      /\ sent = <<>> /\ ~ serving /\ data = NoData
  BY CommandHeard DEF Idle
<1>2. Link /\ Books  BY DEF FtpInv
<1> QED  BY <1>1, <1>2, ResultFtp DEF early2, Books

LEMMA HearSizeFtp ==
  ASSUME FtpInv, control = "open", replies # <<>>, replies' = Tail(replies),
         UNCHANGED <<session, serving, op>>, NEW code, HearSize(code)
  PROVE  FtpInv'
<1>1. pending.h \in Simple  BY DEF HearSize, Simple
<1>2. /\ connected /\ busy /\ early = 0 /\ ~ activeData /\ Tail(replies) = <<>>
      /\ sent = <<>> /\ ~ serving /\ data = NoData
  BY <1>1, CommandHeard DEF Idle
<1>3. Link /\ Books /\ req \in Reqs  BY DEF FtpInv, Books
<1>4. UNCHANGED <<early2, activeData, claims>>  BY DEF HearSize
<1>5. CASE UploadFailed /\ UNCHANGED <<data, req>>
  BY <1>1, <1>2, <1>3, <1>4, <1>5, FailureProceeds, HearResultFtp
<1>6. CASE UploadSucceeded(req) /\ UNCHANGED <<data, req>>
  BY <1>1, <1>2, <1>3, <1>4, <1>6, SuccessProceeds, HearResultFtp
<1>7. CASE UploadApproved
  <2>1. req' \in Reqs  BY <1>3, <1>7 DEF UploadApproved, Reqs, Books
  <2>2. CASE UploadFailed /\ UNCHANGED data
    BY <1>1, <1>2, <1>3, <1>4, <2>1, <2>2, FailureProceeds, HearResultFtp
  <2>3. CASE /\ Send("PASV", "pasv")
             /\ data' = [NoData EXCEPT !.sock = "asked", !.serves = "put"]
             /\ UNCHANGED <<folder, caller>>
    <3>1. "PASV" \in Verbs /\ "pasv" \in Handlers /\ op \in 0..MaxOps /\ encrypted \in BOOLEAN
      BY <1>3 DEF Verbs, Handlers, Books, Link
    <3>2. /\ pending' = Handler("pasv", "PASV", op) /\ pending' \in Continuations
          /\ sent' \in Seq(Commands) /\ Sent(sent', "PASV", op)
      BY <1>2, <2>3, <3>1, SendsOne DEF Send
    <3>3. Books'
      BY <1>2, <1>3, <1>4, <2>1, <2>3, <3>2, EmptySeq
      DEF Books, early2, folder, caller, Accounted
    <3>4. data' = Asked("put")  BY <2>3 DEF Asked
    <3>5. Awaited("PASV", op', sent', replies', serving')
      BY <1>2, <3>2 DEF Awaited
    <3>6. WithoutData'
      BY <1>2, <1>4, <2>3, <3>2, <3>4, <3>5 DEF WithoutData, Waiting, session, caller, early2
    <3> QED  BY <1>3, <3>3, <3>6, LinkKept DEF FtpInv
  <2> QED  BY <1>7, <2>2, <2>3 DEF UploadApproved
<1> QED  BY <1>5, <1>6, <1>7 DEF HearSize

LEMMA HearMadeFtp ==
  ASSUME FtpInv, control = "open", replies # <<>>, replies' = Tail(replies),
         UNCHANGED <<session, serving, op>>, NEW code, HearMade(code)
  PROVE  FtpInv'
<1>1. pending.h \in Simple  BY DEF HearMade, Simple
<1>2. busy /\ sent = <<>>  BY <1>1, CommandHeard
<1>3. Link /\ Books /\ req \in Reqs  BY DEF FtpInv, Books
<1>4. UNCHANGED <<data, early2, activeData, req, claims>>  BY DEF HearMade, flags
<1>5. Proceeds
  BY <1>2, <1>3, DirectoryProceeds, FailureProceeds DEF HearMade
<1> QED  BY <1>1, <1>3, <1>4, <1>5, HearResultFtp

LEMMA HearSimpleFtp ==
  ASSUME FtpInv, control = "open", replies # <<>>, replies' = Tail(replies),
         UNCHANGED <<session, serving, op>>, NEW code, HearSimple(code)
  PROVE  FtpInv'
<1>1. pending.h \in Simple  BY DEF HearSimple, Simple
<1>2. busy /\ sent = <<>>  BY <1>1, CommandHeard
<1>3. Link /\ Books /\ req \in Reqs  BY DEF FtpInv, Books
<1>4. UNCHANGED <<data, early2, activeData, req, folder, claims>>  BY DEF HearSimple, flags
<1>5. CASE Report /\ Quiet
  BY <1>1, <1>2, <1>3, <1>4, <1>5, ReportProceeds, HearResultFtp
<1>6. CASE Send("RNTO", "simple") /\ UNCHANGED caller
  <2>1. "RNTO" \in Verbs /\ "simple" \in Handlers /\ op \in 0..MaxOps /\ encrypted \in BOOLEAN
    BY <1>3 DEF Verbs, Handlers, Books, Link
  <2>2. /\ pending' = Handler("simple", "RNTO", op) /\ pending' \in Continuations
        /\ sent' \in Seq(Commands) /\ Sent(sent', "RNTO", op)
    BY <1>2, <1>6, <2>1, SendsOne DEF Send
  <2>3. pending'.h = "simple" /\ pending'.verb = "RNTO" /\ pending'.op = op
    BY <2>2 DEF Handler
  <2>4. Proceeds
    BY <1>2, <1>3, <1>4, <1>6, <2>2, <2>3
    DEF Proceeds, Books, folder, caller, Simple, TransferVerbs
  <2> QED  BY <1>1, <1>3, <1>4, <2>4, HearResultFtp
<1> QED  BY <1>5, <1>6 DEF HearSimple

-----------------------------------------------------------------------------
(* Replies to transfers.                                                      *)

(* Reading a reply takes nothing from what is known of the pieces.            *)
LEMMA PiecesRead ==
  ASSUME NEW r \in Seq(Replies), r # <<>>, NEW d, NEW q, NEW s, NEW v, NEW e, NEW n,
         Pieces(d, e, q, s, r, v), n = e \/ n = Head(r).code
  PROVE  Pieces(d, n, q, s, Tail(r), v)
<1>1. Confirms(n, Tail(r)) => Confirms(e, r)
  <2>1. CASE n = e  BY <2>1, ConfirmsRead
  <2>2. CASE n = Head(r).code
    <3>1. n = 226 \/ Confirms(e, Tail(r)) \/ ~ Confirms(n, Tail(r))  BY DEF Confirms
    <3> QED  BY <2>2, <3>1, ConfirmsRead
  <2> QED  BY <2>1, <2>2
<1> QED  BY <1>1 DEF Pieces

LEMMA TransferFacts ==
  ASSUME FtpInv, Transferring
  PROVE  /\ Link /\ Books /\ connected /\ control = "open" /\ busy
         /\ data \in Connections /\ data.serves \in {"list", "get", "put"}
         /\ data.sock \in {"open", "closed"}
         /\ activeData <=> data.serves # "list"
         /\ InHand(data, pending, early, op, sent, replies, serving)
         /\ Pieces(data, early, req, sent, replies, serving)
         /\ req \in Reqs /\ activeData \in BOOLEAN /\ inTransfer \in BOOLEAN
         /\ serving \in BOOLEAN /\ sent \in Seq(Commands) /\ replies \in Seq(Replies)
         /\ op \in 0..MaxOps
BY DEF FtpInv, Transferring, Pieces, Connections, Sockets, Transfer, Books

LEMMA HearBegunFtp ==
  ASSUME FtpInv, control = "open", replies # <<>>, replies' = Tail(replies),
         UNCHANGED <<session, serving, op>>, HearBegun
  PROVE  FtpInv'
<1>1. pending.h = "begun"  BY DEF HearBegun
<1>2. Transferring  BY <1>1, TransferHeard
<1>3. /\ early = 0 /\ data.armed
      /\ Begins(Transfer[data.serves], op, sent, replies, serving)
  BY <1>1, <1>2, TransferFacts DEF InHand, Handler, NoHandler
<1>4. /\ sent = <<>> /\ replies' \in Seq(Replies)
      /\ \/ Ends(Transfer[data.serves], op, sent, replies', serving)
         \/ Idle(sent, replies', serving)
  BY <1>2, <1>3, TransferFacts, BeginsRead, Reads
<1>5. pending' = NoHandler /\ UNCHANGED <<sent, data, early, inTransfer, activeData, req>>
  BY DEF HearBegun, Quiet, early2, flags
<1>6. InHand(data, NoHandler, early, op, sent, replies', serving)
  BY <1>3, <1>4 DEF InHand, NoHandler, Handler
<1>7. Pieces(data, early, req, sent, replies', serving)
  BY <1>2, TransferFacts, PiecesRead
<1> QED  BY <1>2, <1>4, <1>5, <1>6, <1>7, TransferFacts, TransferGoesOn DEF HearBegun

LEMMA HearStoredFtp ==
  ASSUME FtpInv, control = "open", replies # <<>>, replies' = Tail(replies),
         UNCHANGED <<session, serving, op>>, HearStored(Head(replies).code)
  PROVE  FtpInv'
<1>1. pending.h = "stored"  BY DEF HearStored
<1>2. Transferring  BY <1>1, TransferHeard
<1>3. /\ early = 0 /\ ~ data.armed /\ data.serves = "put"
      /\ Begins(Transfer[data.serves], op, sent, replies, serving)
  BY <1>1, <1>2, TransferFacts DEF InHand, Handler, NoHandler
<1>4. replies' \in Seq(Replies)  BY <1>2, TransferFacts, Reads
<1>5. CASE Head(replies).code = 150
  <2> DEFINE d == [data EXCEPT !.armed = TRUE]
  <2>1. Ends("STOR", op, sent, replies', serving) /\ sent = <<>>
    BY <1>2, <1>3, <1>5, TransferFacts, BeginsRead DEF Transfer
  <2>2. /\ d \in Connections /\ d.serves = "put" /\ d.armed /\ d.sock = data.sock
        /\ d.eof = data.eof /\ d.coming = data.coming /\ d.buffered = data.buffered
        /\ d.moved = data.moved
    BY <1>2, <1>3, TransferFacts DEF Connections, Sockets
  <2>3. \/ data' = d /\ pending' = NoHandler /\ UNCHANGED req /\ Untouched
        \/ PumpUpload(d, NoHandler, req)
    BY <1>5 DEF HearStored
  <2> HIDE DEF d
  <2>4. InHand(d, NoHandler, early, op, sent, replies', serving)
    BY <1>3, <2>1, <2>2 DEF InHand, NoHandler, Handler, Transfer
  <2>5. Pieces(data, early, req, sent, replies', serving)
    BY <1>2, TransferFacts, PiecesRead
  <2>6. Pieces(d, early, req, sent, replies', serving)
    BY <1>3, <2>2, <2>5 DEF Pieces
  <2>7. CASE data' = d /\ pending' = NoHandler /\ UNCHANGED req /\ Untouched
    <3>1. UNCHANGED <<folder, caller, claims, sent, early, inTransfer, activeData>>
      BY <2>7 DEF Untouched, early2
    <3> QED  BY <1>2, <1>3, <1>4, <2>2, <2>4, <2>6, <2>7, <3>1, TransferFacts, TransferGoesOn
  <2>8. CASE PumpUpload(d, NoHandler, req)
    BY <1>2, <1>3, <1>4, <2>2, <2>4, <2>6, <2>8, TransferFacts, PumpKeeps
  <2> QED  BY <2>3, <2>7, <2>8
<1>6. CASE Head(replies).code # 150
  <2>1. sent = <<>> /\ replies' = <<>> /\ ~ serving
    BY <1>2, <1>3, <1>6, TransferFacts, BeginsRead DEF Idle
  <2>2. /\ data' = NoData /\ activeData' = FALSE /\ UploadFailed
        /\ UNCHANGED <<early, inTransfer, req, claims>>
    BY <1>6 DEF HearStored, early2
  <2>3. Proceeds  BY <1>2, <2>1, <2>2, TransferFacts, FailureProceeds
  <2> QED  BY <1>2, <1>3, <2>1, <2>2, <2>3, TransferFacts, ResultFtp
<1> QED  BY <1>5, <1>6

LEMMA HearFinalFtp ==
  ASSUME FtpInv, control = "open", replies # <<>>, replies' = Tail(replies),
         UNCHANGED <<session, serving, op>>, HearFinal(Head(replies).code)
  PROVE  FtpInv'
<1> DEFINE code == Head(replies).code
<1>1. pending.h = "final"  BY DEF HearFinal
<1>2. Transferring  BY <1>1, TransferHeard
<1>3. /\ early = 0 /\ data.armed /\ data.sock = "closed"
      /\ pending = Handler("final", Transfer[data.serves], op)
      /\ \/ Begins(Transfer[data.serves], op, sent, replies, serving)
         \/ Ends(Transfer[data.serves], op, sent, replies, serving)
  BY <1>1, <1>2, TransferFacts DEF InHand, Handler, NoHandler, Idle
<1>4. replies' \in Seq(Replies)  BY <1>2, TransferFacts, Reads
<1>5. \/ code = 150 /\ Ends(Transfer[data.serves], op, sent, replies', serving)
      \/ code \in {226, 426, 550} /\ Idle(sent, replies', serving)
  BY <1>2, <1>3, TransferFacts, BeginsRead, EndsRead DEF FinalCodes
<1>6. code = 226 => Confirms(early, replies)
  BY <1>2, TransferFacts, ConfirmsRead
<1>7. CASE code = 150
  <2>1. Ends(Transfer[data.serves], op, sent, replies', serving)  BY <1>5, <1>7
  <2>2. UNCHANGED <<pending, data, req>> /\ Untouched
    BY <1>7 DEF HearFinal, Preliminary
  <2>3. InHand(data, pending, early, op, sent, replies', serving)
    BY <1>1, <1>3, <2>1 DEF InHand
  <2>4. Pieces(data, early, req, sent, replies', serving)
    BY <1>2, TransferFacts, PiecesRead
  <2>5. UNCHANGED <<folder, caller, claims, sent, early, inTransfer, activeData>>
    BY <2>2 DEF Untouched, early2
  <2> QED  BY <1>2, <1>4, <2>2, <2>3, <2>4, <2>5, TransferFacts, TransferGoesOn
<1>8. CASE code # 150
  <2>1. code \in {226, 426, 550} /\ sent = <<>> /\ replies' = <<>> /\ ~ serving
    BY <1>5, <1>8 DEF Idle
  <2>2. CompleteTransfer(code, req)  BY <1>8 DEF HearFinal, Preliminary
  <2>3. data.serves = "list" /\ code = 226 => data.moved = Chunks
    <3>1. /\ data.coming \in 0..Chunks /\ data.moved \in 0..Chunks /\ Chunks \in Nat
      BY <1>2, TransferFacts, InstanceAssumption DEF Connections, Sockets
    <3> QED  BY <1>2, <1>3, <1>6, <3>1, TransferFacts DEF Pieces
  <2>4. data.serves = "put" /\ code = 226 => data.moved = Chunks \/ req.cancel
    BY <1>2, <1>6, TransferFacts DEF Pieces
  <2> HIDE DEF code
  <2> QED  BY <1>2, <2>1, <2>2, <2>3, <2>4, TransferFacts, TransferEnds
<1> QED  BY <1>7, <1>8

(* The final reply is kept until the data connection ends.                    *)
LEMMA HearEarlyFtp ==
  ASSUME FtpInv, control = "open", replies # <<>>, replies' = Tail(replies),
         UNCHANGED <<session, serving, op>>, HearEarly(Head(replies).code)
  PROVE  FtpInv'
<1>1. pending.h = "none"  BY DEF HearEarly
<1>2. Transferring  BY <1>1, TransferHeard
<1>3. /\ pending = NoHandler /\ early = 0 /\ data.armed
      /\ Ends(Transfer[data.serves], op, sent, replies, serving)
  BY <1>1, <1>2, TransferFacts DEF InHand, Handler, NoHandler, Idle
<1>4. /\ Idle(sent, replies', serving) /\ Head(replies).code \in FinalCodes
      /\ replies' \in Seq(Replies)
  BY <1>2, <1>3, TransferFacts, EndsRead, Reads
<1>5. early' = early \/ early' = Head(replies).code  BY DEF HearEarly
<1>6. UNCHANGED <<pending, sent, data, inTransfer, activeData, req>>  BY DEF HearEarly, flags
<1>7. InHand(data, NoHandler, early', op, sent, replies', serving)
  BY <1>3, <1>4, <1>5 DEF InHand, NoHandler, Handler
<1>8. Pieces(data, early', req, sent, replies', serving)
  BY <1>2, <1>5, TransferFacts, PiecesRead
<1> QED  BY <1>2, <1>3, <1>4, <1>6, <1>7, <1>8, TransferFacts, TransferGoesOn DEF HearEarly

LEMMA ReadReplyFtp ==
  ASSUME FtpInv, ReadReply
  PROVE  FtpInv'
BY HearLoginFtp, HearPasvFtp, HearBegunFtp, HearStoredFtp, HearFinalFtp, HearSizeFtp,
   HearMadeFtp, HearSimpleFtp, HearEarlyFtp DEF ReadReply

-----------------------------------------------------------------------------
(* The server.                                                                *)

(* It answers one command, or ends the transfer that it began.                *)
LEMMA AppendsReply ==
  ASSUME NEW r \in Seq(Replies), NEW verb \in Verbs, NEW o \in 0..MaxOps, NEW code \in Codes,
         NEW q, q = Append(r, [verb |-> verb, op |-> o, code |-> code]), Len(r) \in {0, 1}
  PROVE  /\ q \in Seq(Replies) /\ Len(q) = Len(r) + 1
         /\ q[Len(r) + 1].code = code /\ Answer(q[Len(r) + 1], verb, o)
         /\ Len(r) = 1 => q[1] = r[1]
<1> DEFINE a == [verb |-> verb, op |-> o, code |-> code]
<1>1. a \in Replies /\ a.verb = verb /\ a.op = o /\ a.code = code /\ q = Append(r, a)
  BY DEF Replies
<1> HIDE DEF a
<1>2. /\ q \in Seq(Replies) /\ Len(q) = Len(r) + 1
      /\ q[Len(r) + 1] = a /\ (Len(r) = 1 => q[1] = r[1])
  BY <1>1, AppendProperties
<1> QED  BY <1>1, <1>2 DEF Answer

(* What the server does to the data connection.                               *)
LEMMA DataCounts ==
  ASSUME NEW d \in Connections
  PROVE  /\ d.coming \in 0..Chunks /\ d.buffered \in 0..Chunks /\ d.moved \in 0..Chunks
         /\ d.eof \in BOOLEAN /\ Chunks \in Nat \ {0} /\ 0 \in 0..Chunks /\ Chunks \in 0..Chunks
BY InstanceAssumption DEF Connections, Sockets



LEMMA ServerAnswersFtp ==
  ASSUME FtpInv, ServerAnswers
  PROVE  FtpInv'
<1> DEFINE c == Head(sent)
<1>1. /\ control = "open" /\ sent # <<>> /\ ~ serving /\ sent' = Tail(sent)
      /\ UNCHANGED <<session, pending, early2, flags, folder, op, caller, claims>>
  BY DEF ServerAnswers
<1>2. PICK code \in Answers(c.verb) :
        /\ replies' = Append(replies, [verb |-> c.verb, op |-> c.op, code |-> code])
        /\ serving' = (code = 150)
        /\ \/ code = 150 /\ data' = [data EXCEPT !.coming = IF c.verb = "STOR" THEN @ ELSE Chunks]
           \/ code = 550 /\ c.verb \in {"LIST", "RETR", "STOR"} /\ data' = [data EXCEPT !.eof = TRUE]
           \/ code # 150 /\ UNCHANGED data
  BY DEF ServerAnswers
<1>3. /\ replies = <<>> /\ Len(sent) = 1 /\ c = sent[1] /\ sent' = <<>>
      /\ sent \in Seq(Commands) /\ replies \in Seq(Replies) /\ c \in Commands
  <2>1. sent \in Seq(Commands) /\ replies \in Seq(Replies)  BY DEF FtpInv, Books
  <2>2. replies = <<>> /\ Len(sent) = 1
    BY <1>1 DEF FtpInv, WithoutData, Transferring, Down, Joining, Waiting, InHand, Idle,
       Awaited, Begins, Ends, Sent
  <2>3. c = sent[1] /\ Tail(sent) \in Seq(Commands) /\ Len(Tail(sent)) = 0
    BY <1>1, <2>1, <2>2, HeadTailProperties
  <2>4. c \in Commands  BY <2>1, <2>2, <2>3, ElementOfSeq
  <2> QED  BY <1>1, <2>1, <2>2, <2>3, <2>4, EmptySeq
<1>4. c.verb \in Verbs /\ c.op \in 0..MaxOps /\ code \in Codes
  BY <1>2, <1>3 DEF Commands, Answers, Verbs, Codes
<1>5. /\ replies' \in Seq(Replies) /\ Len(replies') = 1 /\ replies'[1].code = code
      /\ Answer(replies'[1], c.verb, c.op)
  <2>1. Len(replies) = 0  BY <1>3, EmptySeq
  <2>2. replies' = Append(replies, [verb |-> c.verb, op |-> c.op, code |-> code])  BY <1>2
  <2>3. /\ replies' \in Seq(Replies) /\ Len(replies') = Len(replies) + 1
        /\ replies'[Len(replies) + 1].code = code
        /\ Answer(replies'[Len(replies) + 1], c.verb, c.op)
    <3> DEFINE verb == c.verb
               o == c.op
    <3>1. verb \in Verbs /\ o \in 0..MaxOps  BY <1>4
    <3>2. replies' = Append(replies, [verb |-> verb, op |-> o, code |-> code])  BY <2>2
    <3> HIDE DEF verb, o
    <3>4. replies \in Seq(Replies) /\ code \in Codes /\ Len(replies) \in {0, 1}
      BY <1>3, <1>4, <2>1
    <3>3. /\ replies' \in Seq(Replies) /\ Len(replies') = Len(replies) + 1
          /\ replies'[Len(replies) + 1].code = code
          /\ Answer(replies'[Len(replies) + 1], verb, o)
      BY <3>1, <3>2, <3>4, AppendsReply
    <3> QED  BY <3>3 DEF verb, o
  <2> QED  BY <2>1, <2>3
<1>6. UNCHANGED <<early, inTransfer, activeData, req, dirActive, dirLeft, overflow, busy, unasked>>
  BY <1>1 DEF early2, flags, folder, caller
<1>7. Link'  BY <1>1, LinkKept DEF FtpInv
<1>8. Books'
  BY <1>1, <1>2, <1>3, <1>5, <1>6, EmptySeq DEF FtpInv, Books, Accounted
<1>9. CASE WithoutData
  <2>1. c.verb \notin TransferVerbs /\ c.verb # "HELLO"
    BY <1>1, <1>3, <1>9
    DEF WithoutData, Down, Joining, Waiting, Idle, Awaited, Sent, TransferVerbs
  <2>2. code # 150  BY <1>2, <1>4, <2>1 DEF Answers, TransferVerbs, Verbs
  <2>3. data' = data /\ serving' = FALSE  BY <1>2, <2>1, <2>2 DEF TransferVerbs
  <2>4. \A verb, o : Awaited(verb, o, sent, replies, serving)
                       => Awaited(verb, o, sent', replies', serving')
    BY <1>1, <1>3, <1>5, <2>3 DEF Awaited, Sent, Answer
  <2>5. WithoutData'
    <3>1. UNCHANGED <<control, connected, busy, data, early, activeData, pending, op>>
      BY <1>1, <1>6, <2>3 DEF session
    <3>2. ~ Idle(sent, replies, serving)  BY <1>1 DEF Idle
    <3>3. Joining \/ Waiting  BY <1>9, <3>2 DEF WithoutData, Down
    <3>4. Joining => Joining'  BY <2>4, <3>1, <3>2 DEF Joining
    <3>5. Waiting => Waiting'  BY <2>4, <3>1, <3>2 DEF Waiting
    <3> QED  BY <1>9, <3>1, <3>3, <3>4, <3>5 DEF WithoutData
  <2> QED  BY <1>7, <1>8, <2>5 DEF FtpInv
<1>10. CASE Transferring
  <2> DEFINE verb == Transfer[data.serves]
  <2>1. Begins(verb, op, sent, replies, serving) /\ c.verb = verb /\ c.op = op
    BY <1>1, <1>3, <1>10, TransferFacts DEF InHand, Begins, Ends, Idle, Sent
  <2>2. verb \in TransferVerbs /\ (verb = "STOR" <=> data.serves = "put")
    BY <1>10, TransferFacts DEF Transfer, TransferVerbs
  <2>3. code \in {150, 550}
    BY <1>2, <2>1, <2>2 DEF Answers, TransferVerbs
  <2>4. Begins(verb, op, sent', replies', serving')
    BY <1>2, <1>3, <1>5, <2>1, <2>3 DEF Begins
  <2>5. /\ data' \in Connections
        /\ data'.serves = data.serves /\ data'.sock = data.sock /\ data'.armed = data.armed
        /\ data'.buffered = data.buffered /\ data'.moved = data.moved
        /\ code = 150 => /\ data'.eof = data.eof
                         /\ data'.coming = IF data.serves = "put" THEN data.coming ELSE Chunks
        /\ code # 150 => data'.coming = data.coming
    <3>0. data \in Connections  BY <1>10, TransferFacts
    <3>1. Chunks \in 0..Chunks /\ data.coming \in 0..Chunks /\ data.eof \in BOOLEAN
      BY <3>0, DataCounts
    <3>2. CASE code = 150
      <4> DEFINE x == IF data.serves = "put" THEN data.coming ELSE Chunks
      <4>1. x \in 0..Chunks  BY <3>1
      <4>2. data' = [data EXCEPT !.coming = x]  BY <1>2, <2>1, <2>2, <3>2
      <4> HIDE DEF x
      <4>3. /\ data' \in Connections /\ data'.serves = data.serves /\ data'.sock = data.sock
            /\ data'.armed = data.armed /\ data'.buffered = data.buffered
            /\ data'.moved = data.moved /\ data'.eof = data.eof /\ data'.coming = x
        BY <3>0, <4>1, <4>2 DEF Connections, Sockets
      <4> QED  BY <3>2, <4>3 DEF x
    <3>3. CASE code = 550
      <4>1. CASE data' = data  BY <3>0, <3>3, <4>1
      <4>2. CASE data' = [data EXCEPT !.eof = TRUE]
        <5>1. /\ data' \in Connections /\ data'.serves = data.serves /\ data'.sock = data.sock
              /\ data'.armed = data.armed /\ data'.buffered = data.buffered
              /\ data'.moved = data.moved /\ data'.coming = data.coming
          BY <3>0, <4>2 DEF Connections, Sockets
        <5> QED  BY <3>3, <5>1
      <4> QED  BY <1>2, <3>3, <4>1, <4>2
    <3> QED  BY <2>3, <3>2, <3>3
  <2>6. InHand(data', pending', early', op', sent', replies', serving')
    <3>1. InHand(data, pending, early, op, sent', replies', serving')
      BY <1>1, <1>10, <2>4, TransferFacts DEF InHand, Idle, Ends
    <3> QED  BY <1>1, <1>6, <2>5, <3>1, SameInHand
  <2>7. Pieces(data', early', req', sent', replies', serving')
    <3>1. /\ ~ Confirms(early, replies') /\ ~ Confirms(early, replies)
      BY <1>1, <1>3, <1>5, <1>10, <2>3, TransferFacts, EmptySeq
      DEF Confirms, InHand, Ends, Idle, Begins, FinalCodes
    <3>2. ~ data.eof /\ (data.serves # "put" => data.coming = 0 /\ data.buffered = 0 /\ data.moved = 0)
      BY <1>1, <1>10, TransferFacts DEF Pieces
    <3>3. /\ data.coming \in 0..Chunks /\ data.moved \in 0..Chunks /\ data.buffered \in 0..Chunks
          /\ Chunks \in Nat
      BY <1>10, TransferFacts, InstanceAssumption DEF Connections, Sockets
    <3>4. data.serves = "list" => data.sock = "open"
      BY <1>10, <3>2, TransferFacts DEF Pieces
    <3>5. code = 550 => ~ serving'
      <4>1. ASSUME code # 150 PROVE serving' = FALSE  BY <1>2, <4>1
      <4> QED  BY <4>1
    <3> QED  BY <1>3, <1>6, <1>10, <2>3, <2>5, <3>1, <3>2, <3>3, <3>4, <3>5, TransferFacts DEF Pieces
  <2> QED
    BY <1>1, <1>3, <1>5, <1>6, <1>8, <1>10, <2>5, <2>6, <2>7, TransferFacts, TransferGoesOn DEF Books
<1> QED  BY <1>9, <1>10 DEF FtpInv

LEMMA ServerEndsFtp ==
  ASSUME FtpInv, NEW code \in FinalCodes, ServerEnds(code)
  PROVE  FtpInv'
<1> DEFINE verb == Transfer[data.serves]
<1>1. /\ serving /\ serving' = FALSE
      /\ replies' = Append(replies, [verb |-> verb, op |-> op, code |-> code])
      /\ \/ code = 226 /\ (data.serves = "put" => data.sock = "closed")
         \/ code = 426
      /\ data' = [data EXCEPT !.eof = TRUE,
                              !.coming = IF code = 426 /\ data.serves # "put" THEN 0 ELSE @]
      /\ UNCHANGED <<session, pending, early2, flags, folder, sent, op, caller, claims>>
  BY DEF ServerEnds
<1>2. Transferring
  BY <1>1 DEF FtpInv, WithoutData, Down, Joining, Waiting, Idle, Awaited
<1>3. /\ sent = <<>> /\ early = 0
      /\ \/ replies = <<>> /\ Ends(verb, op, sent, replies, serving)
         \/ /\ Len(replies) = 1 /\ Answer(replies[1], verb, op) /\ replies[1].code = 150
            /\ Begins(verb, op, sent, replies, serving)
  BY <1>1, <1>2, TransferFacts DEF InHand, Begins, Ends, Idle
<1>4. verb \in Verbs /\ code \in Codes /\ (verb = "STOR" <=> data.serves = "put")
  BY <1>2, TransferFacts DEF Transfer, Verbs, Codes, FinalCodes
<1>5. Len(replies) \in {0, 1}  BY <1>3, EmptySeq
<1>6. /\ replies' \in Seq(Replies) /\ Len(replies') = Len(replies) + 1
      /\ replies'[Len(replies) + 1].code = code /\ Answer(replies'[Len(replies) + 1], verb, op)
      /\ Len(replies) = 1 => replies'[1] = replies[1]
  BY <1>1, <1>2, <1>4, <1>5, TransferFacts, AppendsReply
<1>7. /\ replies = <<>> => Ends(verb, op, sent', replies', serving')
      /\ Len(replies) = 1 => Begins(verb, op, sent', replies', serving')
  <2>1. CASE Len(replies) = 1
    <3>1. Len(replies') = 2 /\ replies'[2].code = code /\ Answer(replies'[2], verb, op)
      BY <1>6, <2>1
    <3>0. replies'[1] = replies[1]  BY <1>6, <2>1
    <3>2. replies # <<>>
      <4>1. \A s : s = <<>> => Len(s) = 0  BY EmptySeq
      <4> QED  BY ONLY <2>1, <4>1
    <3>3. Answer(replies'[1], verb, op) /\ replies'[1].code = 150  BY <1>3, <3>0, <3>2
    <3>4. sent' = <<>> /\ serving' = FALSE /\ code \in FinalCodes  BY <1>1, <1>3
    <3> HIDE DEF verb
    <3>5. Begins(verb, op, sent', replies', serving')  BY <3>1, <3>3, <3>4 DEF Begins
    <3> QED  BY <3>2, <3>5
  <2>2. CASE replies = <<>>
    <3>1. Len(replies) = 0  BY <2>2, EmptySeq
    <3>2. Len(replies') = 1 /\ replies'[1].code = code /\ Answer(replies'[1], verb, op)
      BY <1>6, <3>1
    <3>3. sent' = <<>> /\ serving' = FALSE /\ code \in FinalCodes  BY <1>1, <1>3
    <3> HIDE DEF verb
    <3>4. Ends(verb, op, sent', replies', serving')  BY <3>2, <3>3 DEF Ends
    <3> QED  BY <3>1, <3>4
  <2> QED  BY <1>3, <2>1, <2>2, EmptySeq
<1>8. /\ data' \in Connections /\ data'.eof
      /\ data'.serves = data.serves /\ data'.sock = data.sock /\ data'.armed = data.armed
      /\ data'.buffered = data.buffered /\ data'.moved = data.moved
      /\ data'.coming = IF code = 426 /\ data.serves # "put" THEN 0 ELSE data.coming
  <2> DEFINE x == IF code = 426 /\ data.serves # "put" THEN 0 ELSE data.coming
  <2>1. data \in Connections  BY <1>2, TransferFacts
  <2>4. x \in 0..Chunks  BY <2>1, DataCounts
  <2>2. data' = [data EXCEPT !.eof = TRUE, !.coming = x]  BY <1>1
  <2> HIDE DEF x
  <2>3. /\ data' \in Connections /\ data'.eof
        /\ data'.serves = data.serves /\ data'.sock = data.sock /\ data'.armed = data.armed
        /\ data'.buffered = data.buffered /\ data'.moved = data.moved /\ data'.coming = x
    BY <2>1, <2>2, <2>4 DEF Connections, Sockets
  <2> QED  BY <2>3 DEF x
<1>9. UNCHANGED <<early, inTransfer, activeData, req, dirActive, dirLeft, overflow, busy, unasked>>
  BY <1>1 DEF early2, flags, folder, caller
<1>10. InHand(data', pending', early', op', sent', replies', serving')
  <2>1. InHand(data, pending, early, op, sent', replies', serving')
    <3>1. CASE replies = <<>>
      <4>1. ~ Begins(verb, op, sent, replies, serving) /\ ~ Idle(sent, replies, serving)
        BY <1>1, <1>3, <3>1, EmptySeq DEF Begins, Sent, Idle
      <4>2. /\ data.armed
            /\ \/ pending = Handler("final", verb, op) /\ data.sock = "closed"
               \/ pending = NoHandler
        BY <1>2, <4>1, TransferFacts DEF InHand, NoHandler, Handler
      <4> QED  BY <1>3, <1>7, <3>1, <4>2 DEF InHand, Handler, NoHandler
    <3>2. CASE Len(replies) = 1
      <4>1. ~ Ends(verb, op, sent, replies, serving) /\ ~ Idle(sent, replies, serving)
        BY <1>1, <3>2, EmptySeq DEF Ends, Idle
      <4> QED  BY <1>2, <1>7, <3>2, <4>1, TransferFacts DEF InHand
    <3> QED  BY <1>3, <3>1, <3>2
  <2>2. InHand(data', pending, early, op, sent', replies', serving')
    BY <1>8, <2>1, SameInHand
  <2> QED  BY <1>1, <1>9, <2>2
<1>11. Pieces(data', early', req', sent', replies', serving')
  <2>1. /\ data.coming \in 0..Chunks /\ data.moved \in 0..Chunks /\ data.buffered \in 0..Chunks
        /\ Chunks \in Nat
    BY <1>2, TransferFacts, InstanceAssumption DEF Connections, Sockets
  <2>2. Confirms(early', replies') => code = 226
    <3>1. CASE Len(replies) = 1
      <4>a. replies # <<>>
        <5>1. \A s : s = <<>> => Len(s) = 0  BY EmptySeq
        <5> QED  BY ONLY <3>1, <5>1
      <4>b. replies[1].code = 150  BY <1>3, <4>a
      <4>c. replies'[1] = replies[1]  BY <1>6, <3>1
      <4>d. Len(replies') = 2 /\ replies'[2].code = code  BY <1>6, <3>1
      <4>1. Len(replies') = 2 /\ replies'[2].code = code /\ replies'[1].code = 150
        BY <4>b, <4>c, <4>d
      <4>2. \A i \in 1..Len(replies') : i = 1 \/ i = 2  BY <4>1
      <4> QED  BY <1>3, <1>9, <4>1, <4>2 DEF Confirms
    <3>2. CASE Len(replies) = 0
      <4>1. Len(replies') = 1 /\ replies'[1].code = code  BY <1>6, <3>2
      <4>2. \A i \in 1..Len(replies') : i = 1  BY <4>1
      <4> QED  BY <1>3, <1>9, <4>1, <4>2 DEF Confirms
    <3> QED  BY <1>5, <3>1, <3>2
  <2>3. ~ data.eof  BY <1>1, <1>2, TransferFacts DEF Pieces
  <2>4. data.coming + data.buffered + data.moved <= Chunks
    BY <1>2, TransferFacts DEF Pieces
  <2>5. data.serves = "list" =>
          /\ data.buffered = 0 /\ data.coming + data.moved = Chunks
          /\ data.sock = "open"
    BY <1>1, <1>2, <2>3, TransferFacts DEF Pieces
  <2>6. data.serves = "put" =>
          /\ data.sock = "open" => data.coming + data.buffered + data.moved = Chunks
          /\ data.sock = "closed" => data.moved = Chunks \/ req.cancel
    BY <1>2, <2>3, TransferFacts DEF Pieces
  <2>7. code = 226 /\ data.serves = "put" => data.sock = "closed"  BY <1>1
  <2>8. data'.coming + data'.buffered + data'.moved <= Chunks  BY <1>8, <2>1, <2>4
  <2>9. code = 226 \/ code = 426  BY <1>1
  <2> QED
    BY <1>1, <1>2, <1>3, <1>8, <1>9, <2>1, <2>2, <2>5, <2>6, <2>7, <2>8, <2>9, TransferFacts DEF Pieces
<1> QED
  BY <1>1, <1>2, <1>6, <1>8, <1>9, <1>10, <1>11, TransferFacts, TransferGoesOn

-----------------------------------------------------------------------------
(* The data connection.                                                       *)

LEMMA OpeningFacts ==
  ASSUME FtpInv, data.sock = "opening"
  PROVE  /\ Link /\ Books /\ control = "open" /\ connected /\ busy /\ early = 0 /\ ~ activeData
         /\ pending = NoHandler /\ sent = <<>> /\ replies = <<>> /\ ~ serving
         /\ \E kind \in {"list", "get", "put"} : data = [Asked(kind) EXCEPT !.sock = "opening"]
<1>1. ~ Transferring  BY DEF Transferring, Pieces
<1>2. \A kind : data # Asked(kind)  BY DEF Asked, NoData
<1>3. data # NoData  BY DEF NoData
<1>4. /\ control = "open" /\ connected /\ busy /\ early = 0 /\ ~ activeData
      /\ pending = NoHandler /\ Idle(sent, replies, serving)
      /\ \E kind \in {"list", "get", "put"} : data = [Asked(kind) EXCEPT !.sock = "opening"]
  BY <1>1, <1>2, <1>3 DEF FtpInv, WithoutData, Down, Joining, Waiting
<1> QED  BY <1>4 DEF FtpInv, Idle

LEMMA DataOpensFtp ==
  ASSUME FtpInv, DataOpens
  PROVE  FtpInv'
<1>1. /\ Link /\ Books /\ control = "open" /\ connected /\ busy /\ early = 0 /\ ~ activeData
      /\ pending = NoHandler /\ sent = <<>> /\ replies = <<>> /\ ~ serving
  BY OpeningFacts DEF DataOpens
<1>2. PICK kind \in {"list", "get", "put"} : data = [Asked(kind) EXCEPT !.sock = "opening"]
  BY OpeningFacts DEF DataOpens
<1>3. UNCHANGED <<session, replies, serving, op, claims, folder, req>>  BY DEF DataOpens
<1>4. CASE /\ data' = [data EXCEPT !.sock = "open", !.armed = data.serves # "put",
                                   !.coming = IF data.serves = "put" THEN Chunks ELSE 0]
           /\ activeData' = (data.serves # "list" \/ activeData)
           /\ Send(Transfer[data.serves], IF data.serves = "put" THEN "stored" ELSE "begun")
           /\ early' = 0 /\ inTransfer' = TRUE /\ UNCHANGED caller
  <2> DEFINE x == IF kind = "put" THEN Chunks ELSE 0
             h == IF kind = "put" THEN "stored" ELSE "begun"
             verb == Transfer[kind]
  <2>1. data.serves = kind  BY <1>2 DEF Asked, NoData
  <2>2. x \in 0..Chunks /\ Chunks \in Nat \ {0} /\ 0 \in 0..Chunks  BY InstanceAssumption
  <2>3. data' = [NoData EXCEPT !.sock = "open", !.serves = kind, !.armed = kind # "put",
                               !.coming = x]
    BY <1>2, <1>4, <2>1 DEF Asked, NoData
  <2>4. verb \in Verbs /\ h \in Handlers /\ op \in 0..MaxOps /\ encrypted \in BOOLEAN
    BY <1>1, TransferVerb DEF Handlers, Books, Link
  <2>5. SendFor(verb, h, op)  BY <1>4, <2>1 DEF Send
  <2> HIDE DEF x
  <2>6. /\ data' \in Connections /\ data'.sock = "open" /\ data'.serves = kind
        /\ data'.armed = (kind # "put") /\ data'.eof = FALSE /\ data'.coming = x
        /\ data'.buffered = 0 /\ data'.moved = 0
    BY <2>2, <2>3 DEF NoData, Connections, Sockets, Transfer
  <2>7. /\ pending' = Handler(h, verb, op) /\ sent' \in Seq(Commands) /\ Sent(sent', verb, op)
    <3> HIDE DEF verb, h
    <3> QED  BY <1>1, <2>4, <2>5, SendsOne
  <2>8. /\ replies' = <<>> /\ ~ serving' /\ op' = op /\ early' = 0
        /\ activeData' = (kind # "list")
    BY <1>1, <1>3, <1>4, <2>1
  <2>9. Begins(verb, op', sent', replies', serving')
    BY <2>7, <2>8 DEF Begins
  <2>10. InHand(data', pending', early', op', sent', replies', serving')
    BY <2>6, <2>7, <2>8, <2>9 DEF InHand, Handler
  <2>11. Pieces(data', early', req', sent', replies', serving')
    <3>1. ~ Confirms(early', replies')  BY <2>8, EmptySeq DEF Confirms
    <3>2. sent' # <<>>
      <4>1. \A s : s = <<>> => Len(s) = 0  BY EmptySeq
      <4>2. Len(sent') = 1  BY <2>7 DEF Sent
      <4> QED  BY ONLY <4>1, <4>2
    <3> QED  BY <2>2, <2>6, <2>8, <3>1, <3>2 DEF Pieces, x
  <2> QED
    BY <1>1, <1>3, <1>4, <2>6, <2>7, <2>8, <2>10, <2>11, TransferGoesOn, EmptySeq DEF Books
<1>5. CASE LocalFileFails
  <2>1. /\ Report /\ data' = NoData /\ activeData' = FALSE
        /\ UNCHANGED <<pending, sent, early, inTransfer>>
    BY <1>5 DEF LocalFileFails, early2
  <2>2. Quiet  BY <1>1, <2>1 DEF Quiet
  <2>3. Proceeds  BY <1>1, <1>3, <2>1, <2>2, ReportProceeds
  <2> QED  BY <1>1, <1>3, <2>1, <2>3, ResultFtp DEF Books
<1> QED  BY <1>4, <1>5 DEF DataOpens

LEMMA DataRefusedFtp ==
  ASSUME FtpInv, DataRefused
  PROVE  FtpInv'
<1>1. /\ Link /\ Books /\ control = "open" /\ connected /\ busy /\ early = 0 /\ ~ activeData
      /\ pending = NoHandler /\ sent = <<>> /\ replies = <<>> /\ ~ serving
  BY OpeningFacts DEF DataRefused
<1>2. /\ data' = NoData /\ (Report \/ UNCHANGED caller)
      /\ UNCHANGED <<session, pending, early, inTransfer, activeData, req, folder, sent, replies,
                     serving, op, claims>>
  BY DEF DataRefused, early2, flags
<1>3. Quiet  BY <1>1, <1>2 DEF Quiet
<1>4. CASE Report
  <2>1. Proceeds  BY <1>1, <1>2, <1>3, <1>4, ReportProceeds
  <2> QED  BY <1>1, <1>2, <2>1, ResultFtp DEF Books
<1>5. CASE UNCHANGED caller
  <2>1. Proceeds  BY <1>1, <1>2, <1>3, <1>5, QuietProceeds DEF Books, folder, caller
  <2> QED  BY <1>1, <1>2, <2>1, ResultFtp DEF Books
<1> QED  BY <1>2, <1>4, <1>5

(* A transfer of which only the pieces move.                                  *)
LEMMA OpenTransfers ==
  ASSUME FtpInv, data.sock = "open"
  PROVE  Transferring
<1>1. data # NoData  BY DEF NoData
<1>2. \A kind : data # Asked(kind) /\ data # [Asked(kind) EXCEPT !.sock = "opening"]
  BY DEF Asked, NoData
<1> QED  BY <1>1, <1>2 DEF FtpInv, WithoutData, Down, Joining, Waiting

LEMMA PulledPieces ==
  ASSUME NEW d \in Connections, NEW e, NEW q, NEW s, NEW r, NEW v,
         Pieces(d, e, q, s, r, v), d.serves # "list" \/ d.buffered = 0
  PROVE  /\ Pieces(Pulled(d), e, q, s, r, v)
         /\ Pulled(d).serves = d.serves /\ Pulled(d).sock = d.sock
         /\ Pulled(d).armed = d.armed /\ Pulled(d) \in Connections
<1> DEFINE n == Pulled(d)
           x == d.moved + d.buffered
<1>1. /\ d.coming \in 0..Chunks /\ d.buffered \in 0..Chunks /\ d.moved \in 0..Chunks
      /\ Chunks \in Nat /\ 0 \in 0..Chunks
  BY DataCounts
<1>2. x \in 0..Chunks  BY <1>1 DEF Pieces
<1>3. n = [d EXCEPT !.buffered = 0, !.moved = x]  BY DEF Pulled
<1> HIDE DEF x, n
<1>4. /\ n \in Connections /\ n.serves = d.serves /\ n.sock = d.sock /\ n.armed = d.armed
      /\ n.eof = d.eof /\ n.coming = d.coming /\ n.buffered = 0 /\ n.moved = x
  BY <1>1, <1>2, <1>3 DEF Connections, Sockets
<1>5. Pieces(n, e, q, s, r, v)  BY <1>1, <1>4 DEF Pieces, x
<1> QED  BY <1>4, <1>5 DEF n

LEMMA DataArrivesFtp ==
  ASSUME FtpInv, DataArrives
  PROVE  FtpInv'
<1> DEFINE y == data.coming - 1
           z == data.buffered + 1
           d == [data EXCEPT !.coming = y, !.buffered = z]
<1>1. /\ data.sock = "open" /\ data.serves # "put" /\ data.coming > 0
      /\ data' = IF req.pause /\ d.serves = "get" THEN d ELSE Pulled(d)
      /\ UNCHANGED <<session, pending, req, replies, serving, op, sent, early, inTransfer,
                     activeData, folder, caller, claims>>
  BY DEF DataArrives, Untouched, early2
<1>2. Transferring  BY <1>1, OpenTransfers
<1>3. /\ data \in Connections /\ Pieces(data, early, req, sent, replies, serving)
      /\ data.coming \in 0..Chunks /\ data.buffered \in 0..Chunks /\ data.moved \in 0..Chunks
      /\ Chunks \in Nat /\ data.eof \in BOOLEAN
  BY <1>2, TransferFacts, DataCounts
<1>4. y \in 0..Chunks /\ z \in 0..Chunks /\ y + z = data.coming + data.buffered /\ z > 0
  BY <1>1, <1>3 DEF Pieces
<1>5. /\ d \in Connections /\ d.serves = data.serves /\ d.sock = data.sock
      /\ d.armed = data.armed /\ d.eof = data.eof /\ d.coming = y /\ d.buffered = z
      /\ d.moved = data.moved
  <2>1. d = [data EXCEPT !.coming = y, !.buffered = z]  OBVIOUS
  <2> HIDE DEF d, y, z
  <2> QED  BY <1>3, <1>4, <2>1 DEF Connections, Sockets
<1>6. /\ Pieces(data', early, req, sent, replies, serving) /\ data' \in Connections
      /\ data'.serves = data.serves /\ data'.sock = data.sock /\ data'.armed = data.armed
  <2>1. CASE data.serves = "get"
    <3> HIDE DEF y, z, d
    <3>1. Pieces(d, early, req, sent, replies, serving)
      BY <1>1, <1>3, <1>4, <1>5, <2>1 DEF Pieces
    <3>2. data' = d \/ data' = Pulled(d)  BY <1>1
    <3> QED  BY <1>5, <2>1, <3>1, <3>2, PulledPieces
  <2>2. CASE data.serves # "get"
    <3> DEFINE n == Pulled(d)
    <3>1. data' = n /\ data.serves = "list" /\ data.buffered = 0
      BY <1>1, <1>2, <1>3, <1>5, <2>2, TransferFacts DEF Pieces
    <3>2. z = 1 /\ data.moved + 1 \in 0..Chunks /\ 0 \in 0..Chunks
      BY <1>1, <1>3, <3>1 DEF Pieces
    <3>3. n = [d EXCEPT !.buffered = 0, !.moved = data.moved + 1]
      BY <1>3, <1>5, <3>2 DEF Pulled
    <3> HIDE DEF y, z, d, n
    <3>4. /\ n \in Connections /\ n.serves = data.serves /\ n.sock = data.sock
          /\ n.armed = data.armed /\ n.eof = data.eof /\ n.coming = y /\ n.buffered = 0
          /\ n.moved = data.moved + 1
      BY <1>3, <1>5, <3>2, <3>3 DEF Connections, Sockets
    <3>5. Pieces(n, early, req, sent, replies, serving)
      BY <1>1, <1>3, <1>4, <3>1, <3>2, <3>4 DEF Pieces
    <3> QED  BY <3>1, <3>4, <3>5
  <2> QED  BY <2>1, <2>2
<1>7. InHand(data', pending, early, op, sent, replies, serving)
  BY <1>2, <1>6, TransferFacts, SameInHand
<1> QED  BY <1>1, <1>2, <1>6, <1>7, TransferFacts, TransferGoesOn

LEMMA BytesWrittenFtp ==
  ASSUME FtpInv, BytesWritten
  PROVE  FtpInv'
<1> DEFINE d == Pulled(data)
<1>1. /\ data.sock = "open" /\ data.serves = "put"
      /\ \/ PumpUpload(d, pending, req)
         \/ data' = d /\ UNCHANGED <<pending, req>> /\ Untouched
      /\ UNCHANGED <<session, replies, serving, op>>
  BY DEF BytesWritten
<1>2. Transferring  BY <1>1, OpenTransfers
<1>3. /\ Pieces(d, early, req, sent, replies, serving)
      /\ d.serves = "put" /\ d.sock = "open" /\ d.armed = data.armed
  BY <1>1, <1>2, TransferFacts, PulledPieces
<1> HIDE DEF d
<1>4. InHand(d, pending, early, op, sent, replies, serving)
  BY <1>1, <1>2, <1>3, TransferFacts, SameInHand
<1>5. CASE PumpUpload(d, pending, req)
  BY <1>1, <1>2, <1>3, <1>4, <1>5, TransferFacts, PumpKeeps
<1>6. CASE data' = d /\ UNCHANGED <<pending, req>> /\ Untouched
  <2>1. UNCHANGED <<folder, caller, claims, sent, early, inTransfer, activeData>>
    BY <1>6 DEF Untouched, early2
  <2> QED  BY <1>1, <1>2, <1>3, <1>4, <1>6, <2>1, TransferFacts, TransferGoesOn
<1> QED  BY <1>1, <1>5, <1>6

(* Its end, with what the end of it as d leaves of the pieces.                *)
LEMMA DataCloseFtp ==
  ASSUME FtpInv, data.sock = "open", NEW d \in Connections, NEW r \in Reqs,
         Ended(d, pending, r), UNCHANGED <<session, replies, serving, op>>,
         d.serves = data.serves, d.armed = data.armed, d.sock = "closed",
         Pieces(d, early, r, sent, replies, serving),
         data.serves = "list" => data.moved = d.moved
  PROVE  FtpInv'
<1>1. Transferring  BY OpenTransfers
<1>2. early = 226 => data.serves # "put" /\ (data.serves = "list" => data.moved = Chunks)
  <2>1. ASSUME early = 226 PROVE Confirms(early, replies)  BY <2>1 DEF Confirms
  <2>2. Confirms(early, replies) => data.serves # "put"
    BY <1>1, TransferFacts DEF Pieces
  <2>3. Confirms(early, replies) /\ data.serves = "list" => d.moved = Chunks
    BY DataCounts DEF Pieces
  <2> QED  BY <2>1, <2>2, <2>3
<1> QED  BY <1>1, <1>2, TransferFacts, EndedKeeps

LEMMA DataClosesFtp ==
  ASSUME FtpInv, DataCloses
  PROVE  FtpInv'
<1> DEFINE d == Closed(data)
<1>1. /\ data.sock = "open" /\ data.eof /\ (data.serves = "put" \/ data.coming = 0)
      /\ Ended(d, pending, req) /\ UNCHANGED <<session, replies, serving, op>>
  BY DEF DataCloses
<1>2. Transferring  BY <1>1, OpenTransfers
<1>3. /\ d \in Connections /\ d.serves = data.serves /\ d.armed = data.armed
      /\ d.sock = "closed" /\ d.eof = data.eof /\ d.coming = data.coming
      /\ d.buffered = data.buffered /\ d.moved = data.moved
  BY <1>2, TransferFacts DEF Closed, Connections, Sockets
<1> HIDE DEF d
<1>4. Pieces(d, early, req, sent, replies, serving)
  BY <1>1, <1>2, <1>3, TransferFacts DEF Pieces
<1> QED  BY <1>1, <1>2, <1>3, <1>4, TransferFacts, DataCloseFtp

-----------------------------------------------------------------------------
(* The operations, and what the user does to one.                             *)

LEMMA ReadyFacts ==
  ASSUME FtpInv, connected, ~ busy
  PROVE  /\ Link /\ Books /\ control = "open" /\ pending = NoHandler /\ data = NoData
         /\ sent = <<>> /\ replies = <<>> /\ ~ serving /\ early = 0 /\ ~ activeData
BY DEF FtpInv, WithoutData, Transferring, Down, Joining, Waiting, Idle

LEMMA AskFtp ==
  ASSUME FtpInv, connected, ~ busy, op < MaxOps, op' = op + 1,
         NEW verb \in Verbs \ (TransferVerbs \cup {"HELLO"}), NEW h \in Handlers, Ask(verb, h),
         UNCHANGED <<session, early2, activeData, replies, serving, claims>>, req' \in Reqs,
         dirActive' \in BOOLEAN, dirLeft' \in Seq(Steps), overflow' \in BOOLEAN,
         \/ h \in Simple /\ data' = NoData
         \/ /\ verb = "PASV" /\ h = "pasv"
            /\ \E kind \in {"list", "get", "put"} : data' = Asked(kind)
  PROVE  FtpInv'
<1>1. /\ Link /\ Books /\ control = "open" /\ pending = NoHandler /\ data = NoData
      /\ sent = <<>> /\ replies = <<>> /\ ~ serving /\ early = 0 /\ ~ activeData
  BY ReadyFacts
<1>2. op + 1 \in 0..MaxOps /\ encrypted \in BOOLEAN
  BY <1>1, InstanceAssumption DEF Books, Link
<1>3. SendFor(verb, h, op + 1) /\ busy' = TRUE /\ unasked' = unasked  BY DEF Ask
<1>4. /\ pending' = Handler(h, verb, op') /\ pending' \in Continuations
      /\ sent' \in Seq(Commands) /\ Sent(sent', verb, op')
  BY <1>1, <1>2, <1>3, SendsOne
<1>5. Books'
  BY <1>1, <1>2, <1>3, <1>4, EmptySeq DEF Books, early2, Accounted
<1>6. pending'.h = h /\ pending'.verb = verb /\ pending'.op = op'  BY <1>4 DEF Handler
<1>7. Awaited(verb, op', sent', replies', serving')  BY <1>1, <1>4 DEF Awaited
<1>8. control' = "open" /\ connected' /\ early' = 0 /\ ~ activeData'
  BY <1>1 DEF session, early2
<1>9. Waiting'
  <2>1. CASE h \in Simple /\ data' = NoData
    BY <1>3, <1>6, <1>7, <1>8, <2>1 DEF Waiting
  <2>2. CASE /\ verb = "PASV" /\ h = "pasv"
             /\ \E kind \in {"list", "get", "put"} : data' = Asked(kind)
    BY <1>3, <1>4, <1>7, <1>8, <2>2 DEF Waiting
  <2> QED  BY <2>1, <2>2
<1> QED  BY <1>1, <1>5, <1>8, <1>9, LinkKept DEF FtpInv, WithoutData

LEMMA NothingAskedFtp ==
  ASSUME FtpInv, connected, ~ busy, op < MaxOps, op' = op + 1,
         UNCHANGED <<session, early2, activeData, replies, serving, claims, pending, sent, data,
                     unasked, folder>>,
         req' \in Reqs, busy' \in BOOLEAN
  PROVE  FtpInv'
<1>1. /\ Link /\ Books /\ control = "open" /\ pending = NoHandler /\ data = NoData
      /\ sent = <<>> /\ replies = <<>> /\ ~ serving /\ early = 0 /\ ~ activeData
  BY ReadyFacts
<1>2. op + 1 \in 0..MaxOps  BY <1>1, InstanceAssumption DEF Books
<1>3. Books'
  BY <1>1, <1>2, NoHandlerType, EmptySeq DEF Books, early2, folder, Accounted
<1>4. WithoutData'  BY <1>1 DEF WithoutData, Waiting, Idle, session, early2
<1> QED  BY <1>1, <1>3, <1>4, LinkKept DEF FtpInv

LEMMA RequestFtp ==
  ASSUME FtpInv, NEW kind \in Kinds, Request(kind)
  PROVE  FtpInv'
<1>1. /\ connected /\ ~ busy /\ op < MaxOps /\ op' = op + 1
      /\ UNCHANGED <<session, early2, activeData, replies, serving, claims>>
  BY DEF Request
<1>2. /\ data = NoData /\ req \in Reqs /\ NoReq \in Reqs
      /\ dirActive \in BOOLEAN /\ dirLeft \in Seq(Steps) /\ overflow \in BOOLEAN
  BY <1>1, ReadyFacts DEF Books, NoReq, Reqs
<1>3. /\ {"PASV", "MKD", "SIZE", "DELE", "RNFR"} \subseteq Verbs \ (TransferVerbs \cup {"HELLO"})
      /\ {"pasv", "made", "size", "simple", "renameFrom"} \subseteq Handlers
      /\ {"made", "size", "simple", "renameFrom"} \subseteq Simple
  BY DEF Verbs, TransferVerbs, Handlers, Simple
<1>4. ASSUME NEW k \in {"list", "get", "put"}, AskData(k), req' \in Reqs, UNCHANGED folder
      PROVE  FtpInv'
  <2>1. Ask("PASV", "pasv") /\ data' = Asked(k)  BY <1>4 DEF AskData, Asked
  <2> QED  BY <1>1, <1>2, <1>3, <1>4, <2>1, AskFtp DEF folder
<1>5. CASE AskData("list") /\ UNCHANGED <<req, folder>>  BY <1>2, <1>4, <1>5
<1>6. CASE Download /\ UNCHANGED folder
  <2>1. CASE AskData("get") /\ req' = NoReq  BY <1>2, <1>4, <1>6, <2>1
  <2>2. CASE UNCHANGED <<pending, sent, data, req, caller>>
    <3>1. busy' = busy /\ unasked' = unasked /\ busy \in BOOLEAN
      BY <2>2 DEF caller, FtpInv, Books
    <3> QED  BY <1>1, <1>2, <1>6, <2>2, <3>1, NothingAskedFtp
  <2> QED  BY <1>6, <2>1, <2>2 DEF Download
<1>7. CASE UploadDirectory /\ UNCHANGED data
  <2>1. CASE busy' = TRUE /\ UNCHANGED <<pending, sent, req, folder, unasked>>
    BY <1>1, <1>2, <1>7, <2>1, NothingAskedFtp
  <2>2. CASE req' = NoReq /\ UNCHANGED <<pending, sent, folder, caller>>
    <3>1. busy' = busy /\ unasked' = unasked /\ busy \in BOOLEAN
      BY <2>2 DEF caller, FtpInv, Books
    <3> QED  BY <1>1, <1>2, <1>7, <2>2, <3>1, NothingAskedFtp
  <2>3. CASE /\ dirActive' = TRUE /\ dirLeft' = Tail(FolderSteps)
             /\ Ask("MKD", "made") /\ req' = NoReq /\ UNCHANGED overflow
    <3>1. dirLeft' \in Seq(Steps)
      BY <2>3, InstanceAssumption, EmptySeq, LenProperties, HeadTailProperties DEF Steps
    <3> QED  BY <1>1, <1>2, <1>3, <1>7, <2>3, <3>1, AskFtp
  <2> QED  BY <1>7, <2>1, <2>2, <2>3 DEF UploadDirectory
<1>8. CASE \E verb \in {"SIZE", "DELE", "RNFR"}, h \in {"size", "simple", "renameFrom"} :
             Ask(verb, h) /\ UNCHANGED <<data, req, folder>>
  BY <1>1, <1>2, <1>3, <1>8, AskFtp DEF folder
<1> QED
  <2>1. kind \in {"list", "get", "put", "putDir", "remove", "rename"}
    BY InstanceAssumption DEF AllKinds
  <2>2. CASE kind = "list"  BY <1>5, <2>2 DEF Request
  <2>3. CASE kind = "get"  BY <1>6, <2>3 DEF Request
  <2>4. CASE kind = "putDir"  BY <1>7, <2>4 DEF Request
  <2>5. CASE kind \in {"put", "remove", "rename"}  BY <1>8, <2>5 DEF Request
  <2> QED  BY <2>1, <2>2, <2>3, <2>4, <2>5

(* The user leaves folder uploads alone.                                      *)
LEMMA UploadsAlone ==
  ASSUME Undisturbed, NEW c, MayControl(c)
  PROVE  ~ dirActive
BY DEF Undisturbed, MayControl

LEMMA ActiveTransfers ==
  ASSUME FtpInv, activeData
  PROVE  Transferring
BY DEF FtpInv, WithoutData

LEMMA CancelFtp ==
  ASSUME Undisturbed, FtpInv, CancelTransfer
  PROVE  FtpInv'
<1> DEFINE r == [req EXCEPT !.cancel = TRUE]
<1>1. activeData /\ Transferring
  BY UploadsAlone, ActiveTransfers DEF CancelTransfer
<1>2. AbortData(r) /\ UNCHANGED <<session, replies, serving, op>>
  BY <1>1 DEF CancelTransfer, CancelActive
<1>3. r \in Reqs /\ r.cancel  BY <1>1, TransferFacts DEF Reqs
<1> HIDE DEF r
<1>4. Pieces(data, early, r, sent, replies, serving)
  BY <1>1, <1>3, TransferFacts, SamePieces
<1>5. CASE data.sock = "open"
  <2> DEFINE d == Aborted(data)
  <2>1. Ended(d, pending, r)
    <3>1. data.serves # "list"  BY <1>1, TransferFacts
    <3> QED  BY <1>2, <1>5, <3>1 DEF AbortData
  <2>2. /\ d \in Connections /\ d.serves = data.serves /\ d.armed = data.armed
        /\ d.sock = "closed" /\ d.eof = data.eof /\ d.coming = data.coming
        /\ d.buffered = 0 /\ d.moved = data.moved
    <3>1. data \in Connections /\ 0 \in 0..Chunks  BY <1>1, TransferFacts, DataCounts
    <3> QED  BY <3>1 DEF Aborted, Connections, Sockets
  <2> HIDE DEF d
  <2>3. data.serves # "list"  BY <1>1, TransferFacts
  <2>4. Pieces(d, early, r, sent, replies, serving)
    <3>1. data.coming \in 0..Chunks /\ data.buffered \in 0..Chunks /\ data.moved \in 0..Chunks
          /\ Chunks \in Nat
      BY <1>1, TransferFacts, DataCounts
    <3> QED  BY <1>3, <1>4, <1>5, <2>2, <2>3, <3>1 DEF Pieces
  <2> QED  BY <1>2, <1>3, <1>5, <2>1, <2>2, <2>3, <2>4, DataCloseFtp
<1>6. CASE data.sock # "open"
  <2>1. UNCHANGED <<pending, data>> /\ req' = r /\ Untouched  BY <1>2, <1>6 DEF AbortData
  <2>2. UNCHANGED <<folder, caller, claims, sent, early, inTransfer, activeData>>
    BY <2>1 DEF Untouched, early2
  <2> QED  BY <1>1, <1>2, <1>3, <1>4, <2>1, <2>2, TransferFacts, TransferGoesOn
<1> QED  BY <1>5, <1>6

(* What changes nothing but what the user has requested.                      *)
LEMMA RequestedFtp ==
  ASSUME FtpInv, req' \in Reqs, req.cancel => req'.cancel,
         UNCHANGED <<session, pending, early, inTransfer, data, activeData, folder, sent,
                     replies, serving, op, caller, claims>>
  PROVE  FtpInv'
<1>1. Link' /\ Books'
  BY LinkKept DEF FtpInv, Books, folder, caller, Accounted
<1>2. CASE WithoutData
  BY <1>1, <1>2 DEF FtpInv, WithoutData, Down, Joining, Waiting, session, caller
<1>3. CASE Transferring
  <2>1. Pieces(data, early, req', sent, replies, serving)
    BY <1>3, TransferFacts, SamePieces
  <2> QED  BY <1>3, <2>1, TransferFacts, TransferGoesOn
<1> QED  BY <1>2, <1>3 DEF FtpInv

LEMMA PauseFtp ==
  ASSUME FtpInv, PauseTransfer
  PROVE  FtpInv'
<1>1. req' \in Reqs /\ (req.cancel => req'.cancel)
  BY DEF PauseTransfer, FtpInv, Books, Reqs
<1> QED  BY <1>1, RequestedFtp DEF PauseTransfer, early2

LEMMA ResumeFtp ==
  ASSUME Undisturbed, FtpInv, ResumeTransfer
  PROVE  FtpInv'
<1> DEFINE r == [req EXCEPT !.pause = FALSE]
<1>1. UNCHANGED <<session, replies, serving, op>> /\ ~ dirActive
  BY UploadsAlone DEF ResumeTransfer
<1>2. r \in Reqs /\ (req.cancel => r.cancel)  BY DEF FtpInv, Books, Reqs
<1>3. \/ /\ activeData /\ data.serves = "get"
         /\ data' = Pulled(data) /\ req' = r /\ UNCHANGED pending /\ Untouched
      \/ activeData /\ data.serves = "put" /\ PumpUpload(data, pending, r)
      \/ req' = r /\ UNCHANGED <<pending, data>> /\ Untouched
  BY <1>1 DEF ResumeTransfer
<1> HIDE DEF r
<1>4. ASSUME activeData
      PROVE  Transferring /\ Pieces(data, early, r, sent, replies, serving)
  BY <1>2, <1>4, ActiveTransfers, TransferFacts, SamePieces
<1>5. CASE /\ activeData /\ data.serves = "get"
           /\ data' = Pulled(data) /\ req' = r /\ UNCHANGED pending /\ Untouched
  <2> DEFINE d == Pulled(data)
  <2>1. Transferring /\ Pieces(data, early, r, sent, replies, serving)  BY <1>4, <1>5
  <2>2. /\ Pieces(d, early, r, sent, replies, serving)
        /\ d.serves = data.serves /\ d.sock = data.sock /\ d.armed = data.armed
    BY <1>5, <2>1, TransferFacts, PulledPieces
  <2>3. data' = d  BY <1>5
  <2> HIDE DEF d
  <2>4. InHand(d, pending, early, op, sent, replies, serving)
    BY <2>1, <2>2, TransferFacts, SameInHand
  <2>5. UNCHANGED <<folder, caller, claims, sent, early, inTransfer, activeData>>
    BY <1>5 DEF Untouched, early2
  <2> QED  BY <1>1, <1>2, <1>5, <2>1, <2>2, <2>3, <2>4, <2>5, TransferFacts, TransferGoesOn
<1>6. CASE activeData /\ data.serves = "put" /\ PumpUpload(data, pending, r)
  <2>1. Transferring /\ Pieces(data, early, r, sent, replies, serving)  BY <1>4, <1>6
  <2> QED  BY <1>1, <1>2, <1>6, <2>1, TransferFacts, PumpKeeps
<1>7. CASE req' = r /\ UNCHANGED <<pending, data>> /\ Untouched
  BY <1>1, <1>2, <1>7, RequestedFtp DEF Untouched, early2
<1> QED  BY <1>3, <1>5, <1>6, <1>7

-----------------------------------------------------------------------------
(* The theorems.                                                              *)

LEMMA FtpStutters ==
  ASSUME FtpInv, UNCHANGED vars
  PROVE  FtpInv'
<1>1. Link' /\ Books'
  BY LinkKept DEF vars, FtpInv, Books, early2, flags, folder, caller, Accounted
<1>2. WithoutData => WithoutData'
  BY DEF vars, session, early2, flags, caller, WithoutData, Down, Joining, Waiting
<1>3. Transferring => Transferring'
  BY DEF vars, session, early2, flags, caller, Transferring
<1> QED  BY <1>1, <1>2, <1>3 DEF FtpInv

(* Nothing is being told of a data connection that did not break.             *)
LEMMA NothingTold ==
  ASSUME FtpInv
  PROVE  ~ Told
<1>1. CASE Transferring  BY <1>1, TransferFacts DEF Told, Pieces
<1>2. CASE WithoutData
  <2>1. data.sock \in {"none", "asked", "opening"}
    <3>1. NoData.sock = "none"  BY DEF NoData
    <3>2. \A kind : Asked(kind).sock = "asked" /\ [Asked(kind) EXCEPT !.sock = "opening"].sock = "opening"
      BY DEF Asked, NoData
    <3> QED  BY <1>2, <3>1, <3>2 DEF WithoutData, Down, Joining, Waiting
  <2> QED  BY <2>1 DEF Told
<1> QED  BY <1>1, <1>2 DEF FtpInv

(* The invariant holds until a data connection breaks.                        *)
LEMMA FtpInductive ==
  ASSUME Undisturbed
  PROVE  Spec => [](broken \/ FtpInv)
<1>1. Init => FtpInv  BY InitFtp
<1>2. (broken \/ FtpInv) /\ [Next]_vars => (broken \/ FtpInv)'
  <2> SUFFICES ASSUME broken \/ FtpInv, [Next]_vars, ~ broken' PROVE FtpInv'  OBVIOUS
  <2>1. FtpInv /\ ~ DataBreaks  BY DEF Next, DataBreaks, vars
  <2>2. CASE UNCHANGED vars  BY <2>1, <2>2, FtpStutters
  <2>3. CASE System
    <3>1. CASE ServerEnds(226)  BY <2>1, <3>1, ServerEndsFtp DEF FinalCodes
    <3>2. CASE DataAborts  BY <2>1, <3>2, NothingTold DEF DataAborts, Told
    <3> QED
      BY <2>1, <2>3, <3>1, <3>2, GreetedFtp, EncryptedFtp, ReadReplyFtp, ServerAnswersFtp,
         DataOpensFtp, DataArrivesFtp, BytesWrittenFtp, DataClosesFtp DEF System
  <2>4. CASE Environment
    <3>1. CASE ServerEnds(426)  BY <2>1, <3>1, ServerEndsFtp DEF FinalCodes
    <3>2. CASE RetriedDownload  BY <2>1, <3>2, NothingTold DEF RetriedDownload
    <3> QED
      BY <2>1, <2>4, <3>1, <3>2, UserConnectsFtp, TimerFiresFtp, ControlLostFtp, DataRefusedFtp,
         CancelFtp, PauseFtp, ResumeFtp, RequestFtp DEF Environment
  <2> QED  BY <2>1, <2>2, <2>3, <2>4 DEF Next
<1> QED  BY <1>1, <1>2, PTL DEF Spec

(* The timer runs after the control connection was lost, and no other has     *)
(* been made since: also where a data connection broke.                       *)
TimerInv == (timer => control = "dead") /\ (control = "dead" => ~ connected)

LEMMA TimerInductive == Spec => []TimerInv
<1>1. Init => TimerInv  BY DEF Init, TimerInv
<1>2. TimerInv /\ [Next]_vars => TimerInv'
  <2> SUFFICES ASSUME TimerInv, [Next]_vars PROVE TimerInv'  OBVIOUS
  <2>1. CASE UNCHANGED session  BY <2>1 DEF TimerInv, session
  <2>2. CASE UserConnects \/ TimerFires
    BY <2>2 DEF UserConnects, TimerFires, ConnectToHost, StopTimer, TimerInv
  <2>3. CASE ControlLost  BY <2>3 DEF ControlLost, Discard, TimerInv
  <2>4. CASE Greeted \/ Encrypted  BY <2>4 DEF Greeted, Encrypted, TimerInv
  <2>5. CASE ReadReply
    <3>1. CASE \E code : HearLogin(code)
      <4>1. PICK code : HearLogin(code)  BY <3>1
      <4>2. CASE Discard  BY <4>2 DEF Discard, TimerInv
      <4>3. CASE UNCHANGED timer /\ (LoginStep(code) \/ UNCHANGED <<control, connected>>)
        <5>1. control = "open"  BY <2>5 DEF ReadReply
        <5> QED  BY <4>3, <5>1 DEF LoginStep, LoggedIn, TimerInv
      <4> QED  BY <4>1, <4>2, <4>3 DEF HearLogin
    <3> QED  BY <2>1, <2>5, <3>1 DEF ReadReply
  <2>6. CASE \/ ServerAnswers \/ ServerEnds(226) \/ ServerEnds(426) \/ DataOpens \/ DataArrives
             \/ BytesWritten \/ DataCloses \/ DataAborts \/ DataRefused \/ DataBreaks
             \/ CancelTransfer \/ PauseTransfer \/ ResumeTransfer \/ RetriedDownload
             \/ \E kind \in Kinds : Request(kind)
    <3>1. UNCHANGED session
      BY <2>6 DEF ServerAnswers, ServerEnds, DataOpens, DataArrives, BytesWritten, DataCloses,
                  DataAborts, DataRefused, DataBreaks, CancelTransfer, PauseTransfer,
                  ResumeTransfer, RetriedDownload, Request
    <3> QED  BY <2>1, <3>1
  <2>7. UNCHANGED vars => UNCHANGED session  BY DEF vars
  <2> QED
    BY <2>1, <2>2, <2>3, <2>4, <2>5, <2>6, <2>7 DEF Next, System, Environment
<1> QED  BY <1>1, <1>2, PTL DEF Spec

(* The invariant says of a handler that waits which reply is the next.        *)
LEMMA FtpInvSound ==
  ASSUME FtpInv
  PROVE  TypeOK /\ RepliesMatch /\ ~ unasked /\ Accounted
<1>1. ~ unasked /\ Accounted  BY DEF FtpInv, Books
<1>3. RepliesMatch
  <2> SUFFICES ASSUME replies # <<>>, pending # NoHandler
               PROVE  pending.verb = Head(replies).verb /\ pending.op = Head(replies).op
    BY DEF RepliesMatch
  <2>1. replies \in Seq(Replies)  BY DEF FtpInv, Books
  <2>2. CASE Transferring
    <3>1. pending.verb = Transfer[data.serves] /\ pending.op = op
      BY <2>2, TransferFacts DEF InHand, Handler
    <3>2. \/ Begins(Transfer[data.serves], op, sent, replies, serving)
          \/ Ends(Transfer[data.serves], op, sent, replies, serving)
      BY <2>2, TransferFacts DEF InHand, Idle
    <3> QED  BY <2>1, <3>1, <3>2, BeginsRead, EndsRead DEF Answer
  <2>3. CASE WithoutData
    <3>1. \/ Awaited(pending.verb, pending.op, sent, replies, serving)
          \/ Idle(sent, replies, serving)
      BY <2>3 DEF WithoutData, Down, Joining, Waiting, Handler
    <3> QED  BY <2>1, <3>1, AwaitedRead DEF Answer, Idle
  <2> QED  BY <2>2, <2>3 DEF FtpInv
<1>4. TypeOK
  <2>1. control \in {"none", "connecting", "open", "securing", "dead"}
    BY DEF FtpInv, WithoutData, Transferring, Down, Joining, Waiting
  <2>2. early \in Codes /\ (early # 0 => pending = NoHandler) /\ data \in Connections
    <3>1. CASE Transferring
      BY <3>1, TransferFacts, InHandType DEF InHand
    <3>2. CASE WithoutData
      <4>1. 0 \in Codes /\ 0 \in 0..Chunks  BY InstanceAssumption DEF Codes
      <4>2. NoData \in Connections  BY <4>1 DEF NoData, Connections, Sockets, Transfer
      <4>3. \A kind \in {"list", "get", "put"} :
              Asked(kind) \in Connections /\ [Asked(kind) EXCEPT !.sock = "opening"] \in Connections
        BY <4>1 DEF Asked, NoData, Connections, Sockets, Transfer
      <4> QED  BY <3>2, <4>1, <4>2, <4>3 DEF WithoutData, Down, Joining, Waiting
    <3> QED  BY <3>1, <3>2 DEF FtpInv
  <2>3. pending.h \in Handlers /\ pending.verb \in Verbs /\ pending.op \in 0..MaxOps
    BY DEF FtpInv, Books, Continuations
  <2>4. Claims = [serves : DOMAIN Transfer, complete : BOOLEAN, confirmed : BOOLEAN]
    BY DEF Claims, Transfer
  <2> QED
    BY <2>1, <2>2, <2>3, <2>4 DEF TypeOK, FtpInv, Link, Books, Commands, Replies, Reqs, Steps
<1> QED  BY <1>1, <1>3, <1>4

(* The one handler of the control connection hears the reply to its own       *)
(* command, whatever the order of replies, data, cancels and refused data     *)
(* connections (m_pendingHandler), until an open data connection breaks; and  *)
(* no automatic reconnect replaces a connection that works, also after that.  *)
THEOREM HandlersHearTheirReplies ==
  ASSUME Undisturbed
  PROVE  Spec => []ClientSound
<1>1. TimerInv /\ (broken \/ FtpInv) => ClientSound
  BY FtpInvSound DEF ClientSound, TimerInv, TimerOnlyWhenDown
<1> QED  BY <1>1, FtpInductive, TimerInductive, PTL

(* operationFinished comes once for one operation, or an open data connection *)
(* broke or its certificate was rejected: nothing else that the server, the   *)
(* user or the order of events does makes a second result.                    *)
THEOREM ResultsComeOnce ==
  ASSUME Undisturbed
  PROVE  Spec => []ReportedOnce
<1>1. (broken \/ FtpInv) => ReportedOnce  BY FtpInvSound DEF ReportedOnce
<1> QED  BY <1>1, FtpInductive, PTL

(* An upload or a listing that the server confirmed and the client reports as *)
(* a success has arrived complete, until a data connection breaks.            *)
THEOREM ConfirmedIsComplete ==
  ASSUME Undisturbed
  PROVE  Spec => []ConfirmedComplete
<1>1. (broken \/ FtpInv) => ConfirmedComplete  BY FtpInvSound DEF ConfirmedComplete
<1> QED  BY <1>1, FtpInductive, PTL

-----------------------------------------------------------------------------
(* The login, whatever happens: a user name or password is only sent by a     *)
(* handler of the login that waits once the connection is encrypted.          *)
AnyData ==
  [sock : {"none", "asked", "opening", "open", "failing", "rejected", "closed"},
   serves : {"list", "get", "put"},
   armed : BOOLEAN, eof : BOOLEAN, coming : Int, buffered : Int, moved : Int]
ClearInv ==
  /\ encrypted \in BOOLEAN
  /\ sent \in Seq([verb : Verbs, op : Nat, safe : BOOLEAN]) /\ op \in Nat
  /\ data \in AnyData
  /\ tls /\ pending.h \in {"user", "login"} => encrypted
  /\ NothingInClear

LEMMA ShorterIsClear ==
  ASSUME ClearInv, UNCHANGED tls, sent' = sent \/ sent' = <<>> \/ (sent # <<>> /\ sent' = Tail(sent)),
         op' \in Nat, data' \in AnyData, encrypted' \in BOOLEAN,
         tls /\ pending'.h \in {"user", "login"} => encrypted'
  PROVE  ClearInv'
<1> DEFINE S == Seq([verb : Verbs, op : Nat, safe : BOOLEAN])
<1>1. sent \in S  BY DEF ClearInv
<1> HIDE DEF S
<1>2. CASE sent' = sent  BY <1>2 DEF ClearInv, NothingInClear
<1>3. CASE sent' = <<>>
  <2>1. Len(sent') = 0 /\ sent' \in Seq([verb : Verbs, op : Nat, safe : BOOLEAN])
    BY <1>3, EmptySeq
  <2> QED  BY <2>1 DEF ClearInv, NothingInClear
<1>4. CASE sent # <<>> /\ sent' = Tail(sent)
  <2>1. Len(sent) \in Nat \ {0}  BY <1>1, <1>4, EmptySeq, LenProperties DEF S
  <2>2. /\ sent' \in S /\ Len(sent') = Len(sent) - 1
        /\ \A i \in 1..Len(sent') : sent'[i] = sent[i + 1]
    BY <1>1, <1>4, <2>1, HeadTailProperties DEF S
  <2>3. \A i \in 1..Len(sent') : i + 1 \in 1..Len(sent)  BY <2>1, <2>2
  <2>4. NothingInClear'  BY <2>2, <2>3 DEF ClearInv, NothingInClear
  <2> QED  BY <2>2, <2>4 DEF ClearInv, S
<1> QED  BY <1>2, <1>3, <1>4

LEMMA SendingIsClear ==
  ASSUME ClearInv, UNCHANGED tls, NEW verb \in Verbs, NEW o \in Nat, NEW safe \in BOOLEAN,
         sent' = Append(sent, [verb |-> verb, op |-> o, safe |-> safe]),
         tls /\ verb \in {"USER", "PASS"} => safe,
         op' \in Nat, data' \in AnyData, encrypted' \in BOOLEAN,
         tls /\ pending'.h \in {"user", "login"} => encrypted'
  PROVE  ClearInv'
<1> DEFINE R == [verb : Verbs, op : Nat, safe : BOOLEAN]
           c == [verb |-> verb, op |-> o, safe |-> safe]
<1>1. c \in R /\ c.verb = verb /\ c.safe = safe  OBVIOUS
<1>2. sent \in Seq(R)  BY DEF ClearInv
<1> HIDE DEF R, c
<1>3. sent' = Append(sent, c)  BY DEF c
<1>4. /\ sent' \in Seq(R) /\ Len(sent') = Len(sent) + 1 /\ sent'[Len(sent) + 1] = c
      /\ \A i \in 1..Len(sent) : sent'[i] = sent[i]
  BY <1>1, <1>2, <1>3, AppendProperties
<1>5. NothingInClear'
  <2> SUFFICES ASSUME tls, NEW i \in 1..Len(sent'), sent'[i].verb \in {"USER", "PASS"}
               PROVE  sent'[i].safe
    BY DEF NothingInClear
  <2>1. Len(sent) \in Nat  BY <1>2, LenProperties
  <2>2. i \in 1..Len(sent) \/ i = Len(sent) + 1  BY <1>4, <2>1
  <2> QED  BY <1>1, <1>4, <2>2 DEF ClearInv, NothingInClear
<1> QED  BY <1>4, <1>5 DEF ClearInv, R

LEMMA InitClear == Init => ClearInv
<1> SUFFICES ASSUME Init PROVE ClearInv  OBVIOUS
<1>1. Len(sent) = 0 /\ sent \in Seq([verb : Verbs, op : Nat, safe : BOOLEAN])
  BY EmptySeq DEF Init
<1>2. data \in AnyData  BY DEF Init, NoData, AnyData
<1>3. pending.h = "none"  BY DEF Init, NoHandler, Handler
<1>4. NothingInClear  BY <1>1 DEF NothingInClear
<1> QED  BY <1>1, <1>2, <1>3, <1>4 DEF Init, ClearInv

(* What a step that is not of the login does to the control connection.       *)
Harmless ==
  \/ \E verb \in Verbs \ {"USER", "PASS"}, h \in Handlers \ {"user", "login"}, o \in Nat :
        SendFor(verb, h, o)
  \/ UNCHANGED sent /\ (pending' = pending \/ pending'.h \notin {"user", "login"})

LEMMA HarmlessClear ==
  ASSUME ClearInv, UNCHANGED <<tls, encrypted>>, Harmless, data' \in AnyData, op' \in Nat
  PROVE  ClearInv'
<1>1. encrypted' \in BOOLEAN  BY DEF ClearInv
<1>2. CASE UNCHANGED sent /\ (pending' = pending \/ pending'.h \notin {"user", "login"})
  <2>1. tls /\ pending'.h \in {"user", "login"} => encrypted'  BY <1>2 DEF ClearInv
  <2> QED  BY <1>1, <1>2, <2>1, ShorterIsClear
<1>3. ASSUME NEW verb \in Verbs \ {"USER", "PASS"}, NEW h \in Handlers \ {"user", "login"},
             NEW o \in Nat, SendFor(verb, h, o)
      PROVE  ClearInv'
  <2>1. /\ pending'.h \notin {"user", "login"} /\ encrypted \in BOOLEAN
        /\ sent' = Append(sent, [verb |-> verb, op |-> o, safe |-> encrypted])
    BY <1>3 DEF SendFor, Handler, ClearInv
  <2> QED  BY <1>1, <1>3, <2>1, SendingIsClear
<1> QED  BY <1>2, <1>3 DEF Harmless

LEMMA QuietHarmless ==
  ASSUME Quiet
  PROVE  Harmless
BY DEF Quiet, Harmless, NoHandler, Handler

LEMMA SendHarmless ==
  ASSUME ClearInv, NEW verb \in Verbs \ {"USER", "PASS"}, NEW h \in Handlers \ {"user", "login"},
         Send(verb, h)
  PROVE  Harmless
BY DEF Harmless, Send, ClearInv

LEMMA DirectoryHarmless ==
  ASSUME ClearInv, NEW r, ProcessDirectory(r)
  PROVE  Harmless
<1>1. {"MKD", "SIZE"} \subseteq Verbs \ {"USER", "PASS"}
      /\ {"made", "size"} \subseteq Handlers \ {"user", "login"}
  BY DEF Verbs, Handlers
<1>2. Quiet \/ Send("MKD", "made") \/ Send("SIZE", "size")  BY DEF ProcessDirectory, UploadFailed
<1> QED  BY <1>1, <1>2, QuietHarmless, SendHarmless

LEMMA CompleteHarmless ==
  ASSUME ClearInv, NEW code, NEW r, CompleteTransfer(code, r)
  PROVE  Harmless /\ data' \in AnyData
<1>1. data' = NoData /\ NoData \in AnyData  BY DEF CompleteTransfer, NoData, AnyData
<1>2. data.serves \in {"list", "get", "put"}  BY DEF ClearInv, AnyData
<1>3. Quiet \/ \E q : ProcessDirectory(q)
  BY <1>2 DEF CompleteTransfer, ListingDone, DownloadDone, UploadDone, UploadFailed, UploadSucceeded
<1> QED  BY <1>1, <1>3, QuietHarmless, DirectoryHarmless

LEMMA EndedHarmless ==
  ASSUME ClearInv, NEW d \in AnyData, NEW p, p = pending \/ p.h \notin {"user", "login"},
         NEW r, Ended(d, p, r)
  PROVE  Harmless /\ data' \in AnyData
<1>1. CASE d.armed /\ KeepsReply  BY <1>1, CompleteHarmless DEF Ended
<1>2. CASE ~ (d.armed /\ KeepsReply)
  <2>1. /\ data' = d /\ UNCHANGED sent
        /\ pending' = IF d.armed THEN Handler("final", Transfer[d.serves], op) ELSE p
    BY <1>2 DEF Ended, Untouched
  <2> QED  BY <2>1 DEF Harmless, Handler
<1> QED  BY <1>1, <1>2

LEMMA PumpHarmless ==
  ASSUME ClearInv, NEW d \in AnyData, NEW p, p = pending \/ p.h \notin {"user", "login"},
         NEW r, PumpUpload(d, p, r)
  PROVE  Harmless /\ data' \in AnyData
<1> DEFINE n == IF ~ (d.coming > 0 /\ d.buffered = 0) THEN d
                ELSE [d EXCEPT !.coming = @ - 1, !.buffered = IF d.sock = "open" THEN 1 ELSE 0]
<1>1. n \in AnyData
  <2> DEFINE x == d.coming - 1
             y == IF d.sock = "open" THEN 1 ELSE 0
             m == [d EXCEPT !.coming = x, !.buffered = y]
  <2>1. x \in Int /\ y \in Int  BY DEF AnyData
  <2>2. m \in AnyData
    <3> HIDE DEF x, y
    <3> QED  BY <2>1 DEF AnyData
  <2>3. n = d \/ n = m  OBVIOUS
  <2> HIDE DEF m, n
  <2> QED  BY <2>2, <2>3
<1>2. Ended(Closed(n), p, r) \/ (data' = n /\ pending' = p /\ Untouched)  BY DEF PumpUpload
<1> HIDE DEF n
<1>3. Closed(n) \in AnyData  BY <1>1 DEF Closed, AnyData
<1> QED  BY <1>1, <1>2, <1>3, EndedHarmless DEF Harmless, Untouched

LEMMA PulledData ==
  ASSUME NEW d \in AnyData
  PROVE  Pulled(d) \in AnyData
<1> DEFINE x == d.moved + d.buffered
           y == 0
           m == [d EXCEPT !.buffered = y, !.moved = x]
<1>1. x \in Int /\ y \in Int  BY DEF AnyData
<1>2. m \in AnyData
  <2> HIDE DEF x, y
  <2> QED  BY <1>1 DEF AnyData
<1>3. Pulled(d) = m  BY DEF Pulled
<1> HIDE DEF m
<1> QED  BY <1>2, <1>3

LEMMA AskedData ==
  /\ NoData \in AnyData
  /\ \A kind \in {"list", "get", "put"} :
        [NoData EXCEPT !.sock = "asked", !.serves = kind] \in AnyData
<1>1. NoData \in AnyData  BY DEF NoData, AnyData
<1>2. ASSUME NEW d \in AnyData, NEW kind \in {"list", "get", "put"}
      PROVE  [d EXCEPT !.sock = "asked", !.serves = kind] \in AnyData
  BY DEF AnyData
<1> QED  BY <1>1, <1>2

(* The steps of the login itself.                                             *)
LEMMA DiscardClear ==
  ASSUME ClearInv, Discard
  PROVE  ClearInv'
<1>1. NoData \in AnyData  BY DEF NoData, AnyData
<1>2. pending'.h \notin {"user", "login"}  BY DEF Discard, NoHandler, Handler
<1>3. /\ tls' = tls /\ sent' = <<>> /\ op' \in Nat /\ data' \in AnyData
      /\ encrypted' \in BOOLEAN
  BY <1>1 DEF Discard, ClearInv
<1> QED  BY <1>2, <1>3, ShorterIsClear

LEMMA ConnectClear ==
  ASSUME ClearInv, ConnectToHost
  PROVE  ClearInv'
<1>1. pending'.h \notin {"user", "login"}  BY DEF ConnectToHost, NoHandler, Handler
<1>2. /\ tls' = tls /\ sent' = <<>> /\ op' \in Nat /\ data' \in AnyData
      /\ encrypted' \in BOOLEAN
  BY DEF ConnectToHost, ClearInv
<1> QED  BY <1>1, <1>2, ShorterIsClear

LEMMA LostClear ==
  ASSUME ClearInv, ControlLost
  PROVE  ClearInv'
<1>1. CASE Discard  BY <1>1, DiscardClear
<1>2. CASE /\ sent' = <<>>
           /\ UNCHANGED <<tls, encrypted, pending, data, op>>
  <2>1. /\ tls' = tls /\ op' \in Nat /\ data' \in AnyData /\ encrypted' \in BOOLEAN
        /\ tls /\ pending'.h \in {"user", "login"} => encrypted'
    BY <1>2 DEF ClearInv
  <2> QED  BY <1>2, <2>1, ShorterIsClear
<1> QED  BY <1>1, <1>2 DEF ControlLost

LEMMA EncryptedClear ==
  ASSUME ClearInv, Encrypted
  PROVE  ClearInv'
<1>1. /\ sent' = Append(sent, [verb |-> "USER", op |-> 0, safe |-> TRUE])
      /\ tls' = tls /\ encrypted' = TRUE /\ op' \in Nat /\ data' \in AnyData
  BY DEF Encrypted, ClearInv
<1>2. "USER" \in Verbs  BY DEF Verbs
<1> QED  BY <1>1, <1>2, SendingIsClear

LEMMA HearLoginClear ==
  ASSUME ClearInv, NEW code, HearLogin(code)
  PROVE  ClearInv'
<1>1. CASE Discard  BY <1>1, DiscardClear
<1>2. CASE /\ Quiet \/ LoginStep(code)
           /\ UNCHANGED <<tls, data, op>>
           /\ LoginStep(code) \/ UNCHANGED encrypted
  <2>1. op' \in Nat /\ data' \in AnyData /\ tls' = tls /\ encrypted \in BOOLEAN
    BY <1>2 DEF ClearInv
  <2>2. encrypted' = encrypted  BY <1>2 DEF LoginStep, LoggedIn
  <2>3. CASE Quiet
    BY <2>1, <2>2, <2>3, QuietHarmless, HarmlessClear
  <2>4. CASE \E verb \in {"AUTH", "TYPE", "PBSZ", "PROT"}, h \in {"auth", "type", "pbsz", "prot"} :
               SendFor(verb, h, 0)
    <3>1. /\ {"AUTH", "TYPE", "PBSZ", "PROT"} \subseteq Verbs \ {"USER", "PASS"}
          /\ {"auth", "type", "pbsz", "prot"} \subseteq Handlers \ {"user", "login"}
      BY DEF Verbs, Handlers, Login
    <3>2. Harmless  BY <2>4, <3>1 DEF Harmless
    <3> QED  BY <2>1, <2>2, <3>2, HarmlessClear
  <2>5. CASE ~ tls /\ SendFor("USER", "user", 0)
    <3>1. /\ sent' = Append(sent, [verb |-> "USER", op |-> 0, safe |-> encrypted])
      BY <2>5 DEF SendFor
    <3>2. "USER" \in Verbs  BY DEF Verbs
    <3> QED  BY <2>1, <2>2, <2>5, <3>1, <3>2, SendingIsClear
  <2>6. CASE pending.h = "user" /\ SendFor("PASS", "login", 0)
    <3>1. /\ sent' = Append(sent, [verb |-> "PASS", op |-> 0, safe |-> encrypted])
          /\ (tls => encrypted)
      BY <2>6 DEF SendFor, ClearInv
    <3>2. "PASS" \in Verbs  BY DEF Verbs
    <3> QED  BY <2>1, <2>2, <3>1, <3>2, SendingIsClear
  <2>7. \/ Quiet
        \/ pending.h = "greeting" /\ tls /\ SendFor("AUTH", "auth", 0)
        \/ pending.h = "greeting" /\ ~ tls /\ SendFor("USER", "user", 0)
        \/ pending.h = "user" /\ SendFor("PASS", "login", 0)
        \/ SendFor("TYPE", "type", 0) \/ SendFor("PBSZ", "pbsz", 0) \/ SendFor("PROT", "prot", 0)
    BY <1>2 DEF LoginStep, LoggedIn, FirstCommand
  <2> QED  BY <2>3, <2>4, <2>5, <2>6, <2>7
<1> QED  BY <1>1, <1>2 DEF HearLogin

LEMMA ReadReplyClear ==
  ASSUME ClearInv, ReadReply
  PROVE  ClearInv'
<1> DEFINE code == Head(replies).code
<1>1. CASE HearLogin(code)  BY <1>1, HearLoginClear
<1>2. CASE /\ UNCHANGED <<session, serving, op>>
           /\ \/ HearPasv(code) \/ HearBegun \/ HearStored(code) \/ HearFinal(code)
              \/ HearSize(code) \/ HearMade(code) \/ HearSimple(code) \/ HearEarly(code)
  <2>1. UNCHANGED <<tls, encrypted>> /\ op' \in Nat  BY <1>2 DEF session, ClearInv
  <2>2. data \in AnyData /\ NoData \in AnyData  BY DEF ClearInv, NoData, AnyData
  <2>3. CASE HearPasv(code)
    <3>1. [data EXCEPT !.sock = "opening"] \in AnyData  BY <2>2 DEF AnyData
    <3>2. Quiet /\ data' \in AnyData  BY <2>2, <2>3, <3>1 DEF HearPasv
    <3> QED  BY <2>1, <3>2, QuietHarmless, HarmlessClear
  <2>4. CASE HearBegun
    BY <2>1, <2>2, <2>4, QuietHarmless, HarmlessClear DEF HearBegun
  <2>5. CASE HearStored(code)
    <3> DEFINE d == [data EXCEPT !.armed = TRUE]
    <3>1. d \in AnyData  BY <2>2 DEF AnyData
    <3>2. \/ data' = d /\ pending' = NoHandler /\ Untouched
          \/ PumpUpload(d, NoHandler, req)
          \/ data' = NoData /\ UploadFailed
      BY <2>5 DEF HearStored
    <3> HIDE DEF d
    <3>3. NoHandler.h \notin {"user", "login"}  BY DEF NoHandler, Handler
    <3>4. Harmless /\ data' \in AnyData
      <4>1. CASE data' = d /\ pending' = NoHandler /\ Untouched
        BY <3>1, <3>3, <4>1 DEF Harmless, Untouched
      <4>2. CASE PumpUpload(d, NoHandler, req)  BY <3>1, <3>3, <4>2, PumpHarmless
      <4>3. CASE data' = NoData /\ UploadFailed
        BY <2>2, <4>3, QuietHarmless DEF UploadFailed
      <4> QED  BY <3>2, <4>1, <4>2, <4>3
    <3> QED  BY <2>1, <3>4, HarmlessClear
  <2>6. CASE HearFinal(code)
    <3>1. (UNCHANGED <<pending, data, sent>>) \/ CompleteTransfer(code, req)
      BY <2>6 DEF HearFinal, Untouched
    <3>2. Harmless /\ data' \in AnyData  BY <2>2, <3>1, CompleteHarmless DEF Harmless
    <3> QED  BY <2>1, <3>2, HarmlessClear
  <2>7. CASE HearSize(code)
    <3>1. [NoData EXCEPT !.sock = "asked", !.serves = "put"] \in AnyData
      BY AskedData
    <3>2. data' \in AnyData
      BY <2>2, <2>7, <3>1 DEF HearSize, UploadApproved
    <3>3. Send("PASV", "pasv") \/ Quiet \/ \E q : ProcessDirectory(q)
      BY <2>7 DEF HearSize, UploadApproved, UploadFailed, UploadSucceeded
    <3>4. "PASV" \in Verbs \ {"USER", "PASS"} /\ "pasv" \in Handlers \ {"user", "login"}
      BY DEF Verbs, Handlers
    <3>5. Harmless  BY <3>3, <3>4, SendHarmless, QuietHarmless, DirectoryHarmless
    <3> QED  BY <2>1, <3>2, <3>5, HarmlessClear
  <2>8. CASE HearMade(code)
    <3>1. Harmless
      BY <2>8, QuietHarmless, DirectoryHarmless DEF HearMade, UploadFailed
    <3> QED  BY <2>1, <2>2, <2>8, <3>1, HarmlessClear DEF HearMade
  <2>9. CASE HearSimple(code)
    <3>1. "RNTO" \in Verbs \ {"USER", "PASS"} /\ "simple" \in Handlers \ {"user", "login"}
      BY DEF Verbs, Handlers
    <3>2. Harmless  BY <2>9, <3>1, QuietHarmless, SendHarmless DEF HearSimple
    <3> QED  BY <2>1, <2>2, <2>9, <3>2, HarmlessClear DEF HearSimple
  <2>10. CASE HearEarly(code)
    BY <2>1, <2>2, <2>10, HarmlessClear DEF HearEarly, Harmless
  <2> QED  BY <1>2, <2>3, <2>4, <2>5, <2>6, <2>7, <2>8, <2>9, <2>10
<1> QED  BY <1>1, <1>2 DEF ReadReply

LEMMA ControlsClear ==
  ASSUME ClearInv, CancelTransfer \/ PauseTransfer \/ ResumeTransfer
  PROVE  ClearInv'
<1>1. UNCHANGED <<tls, encrypted>> /\ op' \in Nat /\ data \in AnyData
  BY DEF CancelTransfer, PauseTransfer, ResumeTransfer, session, ClearInv
<1>2. CASE UNCHANGED <<pending, sent, data>>
  BY <1>1, <1>2, HarmlessClear DEF Harmless
<1>3. CASE data' = data /\ \E r : ProcessDirectory(r)
  BY <1>1, <1>3, DirectoryHarmless, HarmlessClear
<1>4. CASE \E r : Ended(Aborted(data), pending, r)
  <2>1. Aborted(data) \in AnyData
    <3> DEFINE y == 0
    <3>1. y \in Int  OBVIOUS
    <3>2. Aborted(data) = [data EXCEPT !.sock = "closed", !.buffered = y]  BY DEF Aborted
    <3> HIDE DEF y
    <3> QED  BY <1>1, <3>1, <3>2 DEF AnyData
  <2> QED  BY <1>1, <1>4, <2>1, EndedHarmless, HarmlessClear
<1>5. CASE \E r : PumpUpload(data, pending, r)
  BY <1>1, <1>5, PumpHarmless, HarmlessClear
<1>6. CASE data' = Pulled(data) /\ UNCHANGED <<pending, sent>>
  <2>1. data' \in AnyData  BY <1>1, <1>6, PulledData
  <2> QED  BY <1>1, <1>6, <2>1, HarmlessClear DEF Harmless
<1> QED
  <2>1. CASE PauseTransfer  BY <1>2, <2>1 DEF PauseTransfer
  <2>2. CASE CancelTransfer
    BY <1>2, <1>3, <1>4, <2>2 DEF CancelTransfer, CancelActive, AbortData, Untouched
  <2>3. CASE ResumeTransfer
    BY <1>2, <1>3, <1>5, <1>6, <2>3 DEF ResumeTransfer, Untouched
  <2> QED  BY <2>1, <2>2, <2>3

LEMMA RequestClear ==
  ASSUME ClearInv, NEW kind \in Kinds, Request(kind)
  PROVE  ClearInv'
<1>1. /\ UNCHANGED <<tls, encrypted>> /\ op \in Nat /\ op' = op + 1 /\ op' \in Nat
      /\ data \in AnyData
  BY DEF Request, session, ClearInv
<1>2. CASE data' \in AnyData /\ \E verb \in {"PASV", "MKD", "SIZE", "DELE", "RNFR"},
             h \in {"pasv", "made", "size", "simple", "renameFrom"} : Ask(verb, h)
  <2>1. /\ {"PASV", "MKD", "SIZE", "DELE", "RNFR"} \subseteq Verbs \ {"USER", "PASS"}
        /\ {"pasv", "made", "size", "simple", "renameFrom"} \subseteq Handlers \ {"user", "login"}
    BY DEF Verbs, Handlers
  <2>2. Harmless  BY <1>1, <1>2, <2>1 DEF Harmless, Ask
  <2> QED  BY <1>1, <1>2, <2>2, HarmlessClear
<1>3. CASE UNCHANGED <<pending, sent, data>>
  BY <1>1, <1>3, HarmlessClear DEF Harmless
<1>4. ASSUME NEW k \in {"list", "get", "put"}, AskData(k)
      PROVE  ClearInv'
  <2>1. Ask("PASV", "pasv") /\ data' \in AnyData  BY <1>4, AskedData DEF AskData
  <2> QED  BY <1>2, <2>1
<1> QED
  <2>1. kind \in {"list", "get", "put", "putDir", "remove", "rename"}
    BY InstanceAssumption DEF AllKinds
  <2>2. CASE kind = "list"  BY <1>4, <2>2 DEF Request
  <2>3. CASE kind = "get"  BY <1>3, <1>4, <2>3 DEF Request, Download
  <2>4. CASE kind = "putDir"  BY <1>1, <1>2, <1>3, <2>4 DEF Request, UploadDirectory
  <2>5. CASE kind = "put"  BY <1>1, <1>2, <2>5 DEF Request
  <2>6. CASE kind = "remove"  BY <1>1, <1>2, <2>6 DEF Request
  <2>7. CASE kind = "rename"  BY <1>1, <1>2, <2>7 DEF Request
  <2> QED  BY <2>1, <2>2, <2>3, <2>4, <2>5, <2>6, <2>7

LEMMA ServerClear ==
  ASSUME ClearInv, ServerAnswers \/ (\E code \in FinalCodes : ServerEnds(code))
  PROVE  ClearInv'
<1>1. /\ UNCHANGED <<tls, encrypted, pending>> /\ op' \in Nat /\ data \in AnyData
      /\ encrypted' \in BOOLEAN /\ (tls /\ pending'.h \in {"user", "login"} => encrypted')
  <2>1. UNCHANGED <<tls, encrypted, pending, op>>
    BY DEF ServerAnswers, ServerEnds, session
  <2> QED  BY <2>1 DEF ClearInv
<1>2. sent' = sent \/ (sent # <<>> /\ sent' = Tail(sent))  BY DEF ServerAnswers, ServerEnds
<1>3. data' \in AnyData
  <2>1. ASSUME NEW x \in Int, NEW e \in BOOLEAN
        PROVE  [data EXCEPT !.eof = e, !.coming = x] \in AnyData
    BY <1>1 DEF AnyData
  <2>2. /\ data.coming \in Int /\ data.eof \in BOOLEAN /\ 0 \in Int /\ Chunks \in Int
    BY <1>1, InstanceAssumption DEF AnyData
  <2>3. CASE ServerAnswers
    <3>1. PICK c \in {Head(sent)}, code \in Answers(Head(sent).verb) :
            \/ data' = [data EXCEPT !.coming = IF c.verb = "STOR" THEN @ ELSE Chunks]
            \/ data' = [data EXCEPT !.eof = TRUE]
            \/ UNCHANGED data
      BY <2>3 DEF ServerAnswers
    <3> DEFINE x == IF c.verb = "STOR" THEN data.coming ELSE Chunks
    <3>2. x \in Int /\ TRUE \in BOOLEAN  BY <2>2
    <3>3. \/ data' = [data EXCEPT !.coming = x] \/ data' = [data EXCEPT !.eof = TRUE]
          \/ UNCHANGED data
      BY <3>1
    <3> HIDE DEF x
    <3> QED  BY <1>1, <3>2, <3>3 DEF AnyData
  <2>4. ASSUME NEW code \in FinalCodes, ServerEnds(code)
        PROVE  data' \in AnyData
    <3> DEFINE x == IF code = 426 /\ data.serves # "put" THEN 0 ELSE data.coming
    <3>1. x \in Int  BY <2>2
    <3>2. data' = [data EXCEPT !.eof = TRUE, !.coming = x]  BY <2>4 DEF ServerEnds
    <3> HIDE DEF x
    <3> QED  BY <1>1, <3>1, <3>2 DEF AnyData
  <2> QED  BY <2>3, <2>4
<1> QED  BY <1>1, <1>2, <1>3, ShorterIsClear

LEMMA DataClear ==
  ASSUME ClearInv, DataOpens \/ DataRefused \/ DataArrives \/ BytesWritten \/ DataCloses
  PROVE  ClearInv'
<1>1. UNCHANGED <<tls, encrypted>> /\ op' \in Nat /\ data \in AnyData
  BY DEF DataOpens, DataRefused, DataArrives, BytesWritten, DataCloses, session, ClearInv
<1>2. Chunks \in Int /\ 0 \in Int  BY InstanceAssumption
<1>3. CASE UNCHANGED <<pending, sent>> /\ data' \in AnyData
  BY <1>1, <1>3, HarmlessClear DEF Harmless
<1>4. CASE DataRefused  BY <1>3, <1>4, AskedData DEF DataRefused
<1>5. CASE DataOpens
  <2>1. CASE LocalFileFails  BY <1>3, <2>1, AskedData DEF LocalFileFails
  <2>2. CASE ~ LocalFileFails
    <3> DEFINE x == IF data.serves = "put" THEN Chunks ELSE 0
               a == data.serves # "put"
    <3>1. data' = [data EXCEPT !.sock = "open", !.armed = a, !.coming = x]
      BY <1>5, <2>2 DEF DataOpens
    <3>2. x \in Int /\ a \in BOOLEAN  BY <1>2
    <3>3. \E verb \in {"LIST", "RETR", "STOR"}, h \in {"stored", "begun"} : Send(verb, h)
      BY <1>1, <1>5, <2>2 DEF DataOpens, Transfer, AnyData
    <3>4. /\ {"LIST", "RETR", "STOR"} \subseteq Verbs \ {"USER", "PASS"}
          /\ {"stored", "begun"} \subseteq Handlers \ {"user", "login"}
      BY DEF Verbs, Handlers
    <3>5. Harmless  BY <3>3, <3>4, SendHarmless
    <3> HIDE DEF x, a
    <3>6. data' \in AnyData  BY <1>1, <3>1, <3>2 DEF AnyData
    <3> QED  BY <1>1, <3>5, <3>6, HarmlessClear
  <2> QED  BY <2>1, <2>2
<1>6. CASE DataArrives
  <2> DEFINE x == data.coming - 1
             y == data.buffered + 1
             d == [data EXCEPT !.coming = x, !.buffered = y]
  <2>1. x \in Int /\ y \in Int  BY <1>1 DEF AnyData
  <2>2. d \in AnyData
    <3> HIDE DEF x, y
    <3> QED  BY <1>1, <2>1 DEF AnyData
  <2>3. (data' = d \/ data' = Pulled(d)) /\ UNCHANGED <<pending, sent>>
    BY <1>6 DEF DataArrives, Untouched
  <2> HIDE DEF d
  <2> QED  BY <1>3, <2>2, <2>3, PulledData
<1>7. CASE BytesWritten
  <2> DEFINE d == Pulled(data)
  <2>1. d \in AnyData  BY <1>1, PulledData
  <2>2. PumpUpload(d, pending, req) \/ (data' = d /\ UNCHANGED <<pending, sent>>)
    BY <1>7 DEF BytesWritten, Untouched
  <2> HIDE DEF d
  <2> QED  BY <1>1, <1>3, <2>1, <2>2, PumpHarmless, HarmlessClear
<1>8. CASE DataCloses
  <2>1. Closed(data) \in AnyData  BY <1>1 DEF Closed, AnyData
  <2>2. Ended(Closed(data), pending, req)  BY <1>8 DEF DataCloses
  <2> QED  BY <1>1, <2>1, <2>2, EndedHarmless, HarmlessClear
<1> QED  BY <1>4, <1>5, <1>6, <1>7, <1>8

LEMMA BrokenClear ==
  ASSUME ClearInv, DataBreaks \/ DataAborts \/ RetriedDownload
  PROVE  ClearInv'
<1>1. UNCHANGED <<tls, encrypted>> /\ op' \in Nat /\ op + 1 \in Nat /\ data \in AnyData
  BY DEF DataBreaks, DataAborts, RetriedDownload, session, ClearInv
<1>2. /\ Aborted(data) \in AnyData
      /\ \A x \in {"failing", "rejected"} : [data EXCEPT !.sock = x] \in AnyData
      /\ [NoData EXCEPT !.sock = "asked", !.serves = "get"] \in AnyData /\ NoData \in AnyData
  <2> DEFINE y == 0
  <2>1. y \in Int  OBVIOUS
  <2>2. Aborted(data) = [data EXCEPT !.sock = "closed", !.buffered = y]  BY DEF Aborted
  <2> HIDE DEF y
  <2> QED  BY <1>1, <2>1, <2>2, AskedData DEF AnyData
<1>3. CASE DataBreaks
  <2>1. UNCHANGED <<pending, sent>> /\ data' \in AnyData  BY <1>2, <1>3 DEF DataBreaks
  <2> QED  BY <1>1, <2>1, HarmlessClear DEF Harmless
<1>4. CASE DataAborts
  <2>1. CASE Ended(Aborted(data), pending, req)
    BY <1>1, <1>2, <2>1, EndedHarmless, HarmlessClear
  <2>2. CASE data' = NoData /\ UNCHANGED <<pending, sent>>
    BY <1>1, <1>2, <2>2, HarmlessClear DEF Harmless
  <2> QED  BY <1>4, <2>1, <2>2 DEF DataAborts
<1>5. CASE RetriedDownload
  <2>1. data' \in AnyData  BY <1>2, <1>5 DEF RetriedDownload
  <2>2. pending'.h \in {"final", "pasv"}
    BY <1>5 DEF RetriedDownload, Handler
  <2>3. "PASV" \in Verbs \ {"USER", "PASS"}  BY DEF Verbs
  <2>4. sent' = Append(sent, [verb |-> "PASV", op |-> op + 1, safe |-> encrypted])
    BY <1>5 DEF RetriedDownload
  <2>5. encrypted' \in BOOLEAN /\ tls' = tls /\ (tls /\ pending'.h \in {"user", "login"} => encrypted')
    BY <1>1, <2>2 DEF ClearInv
  <2> QED  BY <1>1, <2>1, <2>3, <2>4, <2>5, SendingIsClear
<1> QED  BY <1>3, <1>4, <1>5

(* With TLS no user name and no password leaves before the control connection *)
(* is encrypted (startLogin), also where connections are lost, uploads        *)
(* cancelled and clients reconnected.                                         *)
THEOREM NoSecretInClear == Spec => []NothingInClear
<1>1. ClearInv /\ [Next]_vars => ClearInv'
  <2> SUFFICES ASSUME ClearInv, [Next]_vars PROVE ClearInv'  OBVIOUS
  <2>1. CASE UNCHANGED vars
    BY <2>1 DEF vars, session, ClearInv, NothingInClear
  <2>2. CASE Greeted
    <3>1. op' \in Nat /\ data' \in AnyData  BY <2>2 DEF Greeted, ClearInv
    <3> QED  BY <2>2, <3>1, HarmlessClear DEF Greeted, Harmless
  <2>3. CASE UserConnects \/ TimerFires  BY <2>3, ConnectClear DEF UserConnects, TimerFires
  <2>4. CASE ServerAnswers \/ ServerEnds(226) \/ ServerEnds(426)
    BY <2>4, ServerClear DEF FinalCodes
  <2> QED
    BY <2>1, <2>2, <2>3, <2>4, EncryptedClear, ReadReplyClear, LostClear, DataClear, BrokenClear,
       ControlsClear, RequestClear DEF Next, System, Environment
<1>2. ClearInv => NothingInClear  BY DEF ClearInv
<1> QED  BY InitClear, <1>1, <1>2, PTL DEF Spec
=============================================================================
