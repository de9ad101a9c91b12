--------------------------- MODULE SerialTransfer ---------------------------
(* Sending a file over a serial session (src/src/terminaltab.cpp): XMODEM and *)
(* YMODEM, whose packets, retries and acknowledgements the tab handles byte   *)
(* by byte, and ZMODEM, which it leaves to the external program sz.           *)
(*                                                                            *)
(* The line may lose or spoil packets and answers.  The device is external:   *)
(* a shell in which the user starts a receiver, which follows the protocols   *)
(* as lrzsz does.  A packet is the number of its block in the file with the   *)
(* block number and the kind of checksum it is sent with.                     *)
EXTENDS Integers, Sequences, SequencesExt

CONSTANTS
    Sizes,          \* sizes of the file, in packets of 128 bytes
    BlockNumbers,   \* block numbers wrap here (256 in the code)
    MaxRetries,     \* 10 in the code
    MaxFaults,      \* bound on lost and spoilt packets and answers
    MaxTransfers    \* bound on the user's transfers

ASSUME SerialAssumption ==
    /\ Sizes \subseteq Nat /\ BlockNumbers \in Nat /\ BlockNumbers > 2
    /\ MaxRetries \in Nat \ {0} /\ MaxFaults \in 0..MaxRetries /\ MaxTransfers \in Nat

VARIABLES
    tab,      \* the sender: the m_xmodem... and m_zmodem... fields and its port
    line,     \* what the tab has written and the device has not yet read
    answers,  \* what the device has written and the tab has not yet read
    device,   \* the program at the other end
    world     \* the file's size, and what has gone wrong

vars == <<tab, line, answers, device, world>>

-----------------------------------------------------------------------------
(* The tab.  `written` is what the handler that runs writes to the port.      *)

Header == 0           \* the data of YMODEM's first packet
LastHeader == -1      \* and of its empty last one

Item(kind) == [kind |-> kind, data |-> 0, n |-> 0, crc |-> FALSE]
NoPacket == Item("none")
Packet(data, n, crc) ==
    [kind |-> "packet", data |-> data, n |-> n % BlockNumbers, crc |-> crc]
Items(kinds) == [kind : kinds, data : Int, n : 0..BlockNumbers - 1, crc : BOOLEAN]

Tab == [open : BOOLEAN, file : BOOLEAN, ymodem : BOOLEAN, read : Nat,
        packet : Items({"none", "packet"}),
        block : Nat, retries : 0..MaxRetries + 1, crc : BOOLEAN,
        waitingEotAck : BOOLEAN, headerPending : BOOLEAN, finalHeader : BOOLEAN,
        zmodem : 0..MaxTransfers, running : SUBSET (1..MaxTransfers),
        result : {"none", "complete", "stopped", "cancelled", "unheard", "timed out", "failed"},
        returned : BOOLEAN,
        written : Seq(Items({"packet", "eot", "can", "zmodem"}))]

Writes(t, item) == IF t.open THEN [t EXCEPT !.written = Append(@, item)] ELSE t

(* A failure is also told to the receiver.                                    *)
FinishXmodem(t, result) ==
    LET told == IF result = "complete" THEN t ELSE Writes(t, Item("can"))
    IN  [told EXCEPT !.file = FALSE, !.packet = NoPacket, !.waitingEotAck = FALSE,
                     !.ymodem = FALSE, !.headerPending = FALSE, !.finalHeader = FALSE,
                     !.result = result]

SendsPacket(t, packet) ==
    Writes([t EXCEPT !.packet = packet, !.retries = 0], packet)

SendsEot(t) ==
    Writes([t EXCEPT !.waitingEotAck = TRUE, !.retries = 0], Item("eot"))

(* A read that fails returns nothing, like the end of the file.  What has     *)
(* been interfered with is one of world.disturbed.                            *)
SendXmodemPacket(t) ==
    CASE ~t.file -> t
      [] t.file /\ t.headerPending -> SendsPacket(t, Packet(Header, 0, t.crc))
      [] t.file /\ ~t.headerPending /\ t.read < world.size /\ world.disturbed # "unreadable" ->
           SendsPacket([t EXCEPT !.read = @ + 1], Packet(t.read + 1, t.block, t.crc))
      [] OTHER -> SendsEot(t)

(* As a slip would have it: a packet that was refused is read anew.           *)
ResendsNext(t) ==
    IF t.read < world.size /\ t.packet.data > 0
    THEN SendsPacket([t EXCEPT !.read = @ + 1], Packet(t.read + 1, t.block, t.crc))
    ELSE Writes(t, t.packet)

(* The bytes the device answers with: 'C', NAK, ACK and CAN.                  *)
Bytes == {"C", "nak", "ack", "can"}

Resends(t) == Writes(t, t.packet)

(* The end of the data is acknowledged: XMODEM is done, YMODEM sends the      *)
(* empty header that says no file follows.                                    *)
EotByte(t, byte) ==
    CASE byte # "ack" -> t
      [] byte = "ack" /\ t.ymodem /\ ~t.finalHeader ->
           SendsPacket([t EXCEPT !.waitingEotAck = FALSE, !.finalHeader = TRUE],
                       Packet(LastHeader, 0, t.crc))
      [] OTHER -> FinishXmodem(t, "complete")

StartByte(t, byte) ==
    IF byte \in {"C", "nak"} THEN SendXmodemPacket([t EXCEPT !.crc = byte = "C"]) ELSE t

AckByte(t) ==
    IF t.ymodem /\ t.finalHeader
    THEN [FinishXmodem(t, "complete") EXCEPT !.returned = TRUE]
    ELSE LET headerAcked == t.ymodem /\ t.headerPending
         IN  SendXmodemPacket([t EXCEPT
                 !.headerPending = @ /\ ~headerAcked,
                 !.block = IF headerAcked THEN 1 ELSE @ + 1,
                 !.packet = NoPacket])

TooManyBut(n) == n >= MaxRetries
TooMany(n) == n > MaxRetries

NakByte(t) ==
    IF TooMany(t.retries + 1)
    THEN FinishXmodem([t EXCEPT !.retries = @ + 1], "failed")
    ELSE Resends([t EXCEPT !.retries = @ + 1])

(* handleXmodemInput's loop body.  Only two of its ends return: after the     *)
(* others the rest of the chunk is gone through without a transfer.           *)
HandleByte(t, byte) ==
    CASE t.returned -> t
      [] ~t.returned /\ byte = "can" ->
           [FinishXmodem(t, "cancelled") EXCEPT !.returned = TRUE]
      [] ~t.returned /\ byte # "can" /\ t.waitingEotAck -> EotByte(t, byte)
      [] ~t.returned /\ byte # "can" /\ ~t.waitingEotAck /\ t.packet = NoPacket ->
           StartByte(t, byte)
      [] ~t.returned /\ ~t.waitingEotAck /\ t.packet # NoPacket /\ byte = "ack" -> AckByte(t)
      [] ~t.returned /\ ~t.waitingEotAck /\ t.packet # NoPacket /\ byte = "nak" -> NakByte(t)
      [] OTHER -> t

HandleXmodemInput(t, data) ==
    LET after[k \in 0..Len(data)] == IF k = 0 THEN t ELSE HandleByte(after[k - 1], data[k])
    IN  [after[Len(data)] EXCEPT !.returned = FALSE]

(* The end of a process, or the end of its session, takes whatever process    *)
(* the tab has by now; a QProcess that is deleted kills its program.          *)
FinishZmodem(t) ==
    IF t.zmodem = 0 THEN t
    ELSE [t EXCEPT !.zmodem = 0, !.running = @ \ {t.zmodem}]

CancelSerialFile(t) ==
    CASE t.zmodem # 0 -> FinishZmodem(t)
      [] t.zmodem = 0 /\ t.file -> FinishXmodem(t, "stopped")
      [] OTHER -> t

BeginsXmodem(t, ymodem) ==
    [t EXCEPT !.file = TRUE, !.read = 0, !.packet = NoPacket, !.block = 1,
              !.retries = 0, !.crc = TRUE, !.waitingEotAck = FALSE,
              !.ymodem = ymodem, !.headerPending = ymodem, !.finalHeader = FALSE,
              !.result = "none"]

BeginsZmodem(t, p) == [t EXCEPT !.zmodem = p, !.running = @ \union {p}]

(* The timer of a transfer: every second one more retry, whatever it waits    *)
(* for.  A transfer that is given up before the receiver's first byte was     *)
(* never heard.                                                               *)
Waits(t) == t.file /\ t.packet = NoPacket /\ ~t.waitingEotAck
TimerCountsPackets(t) == IF t.packet = NoPacket THEN t ELSE [t EXCEPT !.retries = @ + 1]
TimerCounts(t) == [t EXCEPT !.retries = @ + 1]

Timeout(t) ==
    LET u == TimerCounts(t)
    IN  CASE TooMany(u.retries) ->
               FinishXmodem(u, IF Waits(u) THEN "unheard" ELSE "timed out")
          [] ~TooMany(u.retries) /\ u.waitingEotAck -> Writes(u, Item("eot"))
          [] ~TooMany(u.retries) /\ ~u.waitingEotAck /\ u.packet # NoPacket ->
               Writes(u, u.packet)
          [] OTHER -> u

(* What a handler leaves: the tab, and what it wrote behind what is on its    *)
(* way.                                                                       *)
Leaves(t) ==
    /\ tab' = [t EXCEPT !.written = <<>>]
    /\ line' = line \o t.written

-----------------------------------------------------------------------------
(* The tab's steps.                                                           *)

InFlight == line # <<>> \/ answers # <<>>

(* The timer is started with the transfer and by nothing else: a packet does  *)
(* not start its second anew, so that on any line a tick may fall on a packet *)
(* or an answer that is on its way, or come before the receiver asks.         *)
OnTimeout ==
    /\ tab.file
    /\ Leaves(Timeout(tab))
    /\ world' = [world EXCEPT !.overtaken = @ \/ InFlight]
    /\ UNCHANGED <<answers, device>>

(* readyRead, with as much as has arrived.                                    *)
ReadyRead ==
    /\ tab.open
    /\ \E k \in 1..Len(answers) :
         /\ answers' = SubSeq(answers, k + 1, Len(answers))
         /\ Leaves(IF tab.zmodem = 0 /\ tab.file
                   THEN HandleXmodemInput(tab, SubSeq(answers, 1, k)) ELSE tab)
    /\ UNCHANGED <<device, world>>

(* The context menu: its entry says cancel when a transfer is running, but    *)
(* only one of XMODEM is cancelled; otherwise a file and a protocol are       *)
(* chosen.                                                                    *)
OffersCancel(t) == t.file \/ t.zmodem # 0
CancelsByMenu(t) == t.file

MenuCancels ==
    /\ CancelsByMenu(tab)
    /\ Leaves(CancelSerialFile(tab))
    /\ UNCHANGED <<answers, device, world>>

(* The port is looked at before both dialogs and not again: here they take no *)
(* time, so that no port dies under them.                                     *)
SendSerialFile ==
    /\ ~CancelsByMenu(tab) /\ tab.open /\ world.transfers < MaxTransfers
    /\ \/ \E ymodem \in BOOLEAN :
            /\ device.phase \in {"start", "data"} => ymodem = device.ymodem
            /\ Leaves(BeginsXmodem(tab, ymodem))
       \/ Leaves(BeginsZmodem(tab, world.transfers + 1))
    /\ world' = [world EXCEPT !.transfers = @ + 1,
                              !.overtaken = @ \/ InFlight,
                              !.awaited = tab'.file /\ device.phase = "start" /\ ~InFlight,
                              !.disturbed = IF OffersCancel(tab) THEN "beside" ELSE @]
    /\ UNCHANGED <<answers, device>>

(* A key goes to the port between two packets; Ctrl-D is the byte of EOT.     *)
TypesControlD ==
    /\ tab.open /\ tab.zmodem = 0 /\ tab.file /\ world.disturbed = "no"
    /\ Leaves(Writes(tab, Item("eot")))
    /\ world' = [world EXCEPT !.disturbed = "typed"]
    /\ UNCHANGED <<answers, device>>

ProcessEnds ==
    /\ \E p \in tab.running : Leaves([FinishZmodem(tab) EXCEPT !.running = @ \ {p}])
    /\ UNCHANGED <<answers, device, world>>

ProcessWrites ==
    /\ tab.zmodem # 0 /\ tab.open /\ line = <<>>
    /\ Leaves(Writes(tab, Item("zmodem")))
    /\ UNCHANGED <<answers, device, world>>

(* errorOccurred or the hang-up timer: finishSerialSession.                   *)
PortDies ==
    /\ tab.open
    /\ tab' = [CancelSerialFile(tab) EXCEPT !.open = FALSE, !.written = <<>>]
    /\ line' = <<>> /\ answers' = <<>>
    /\ UNCHANGED <<device, world>>

DiskFails ==
    /\ tab.file /\ world.disturbed = "no"
    /\ world' = [world EXCEPT !.disturbed = "unreadable"]
    /\ UNCHANGED <<tab, line, answers, device>>

-----------------------------------------------------------------------------
(* The line and the device.                                                   *)

Receiver(ymodem) ==
    [phase |-> "start", ymodem |-> ymodem, crc |-> TRUE,
     expects |-> IF ymodem THEN 0 ELSE 1, header |-> ~ymodem, stored |-> <<>>]

(* The receiver is started before the transfer or while it waits.             *)
StartReceiver ==
    /\ device.phase = "shell" \/ (device.phase = "over" /\ Waits(tab))
    /\ \E ymodem \in IF tab.file THEN {tab.ymodem} ELSE BOOLEAN :
         device' = Receiver(ymodem)
    /\ UNCHANGED <<tab, line, answers, world>>

(* On a quiet line it asks for the first packet until it comes, whatever the  *)
(* tab is doing, and may turn to checksums.                                   *)
Asks ==
    /\ device.phase = "start" /\ ~InFlight /\ tab.open
    /\ answers' = Append(answers, IF device.crc THEN "C" ELSE "nak")
    /\ UNCHANGED <<tab, line, device, world>>

FallsBack ==
    /\ device.phase = "start" /\ device.crc /\ ~InFlight
    /\ device' = [device EXCEPT !.crc = FALSE]
    /\ UNCHANGED <<tab, line, answers, world>>

(* The text of a shell has a 'C' in it, too.                                  *)
ShellPrints ==
    /\ device.phase = "shell" /\ answers = <<>>
    /\ tab.open /\ Waits(tab)
    /\ answers' = <<"C">>
    /\ UNCHANGED <<tab, line, device, world>>

Answers(answer, d) == answers' = Append(answers, answer) /\ device' = d
Ignores == UNCHANGED <<answers, device>>

(* What the receiver makes of a packet: the one it expects is stored, the one *)
(* before it was sent twice, any other ends the transfer.                     *)
TakesPacket(packet) ==
    CASE packet.crc # device.crc -> Answers("nak", device)
      [] packet.crc = device.crc /\ device.phase = "final" /\ packet.data = LastHeader ->
           Answers("ack", [device EXCEPT !.phase = "over"])
      [] packet.crc = device.crc /\ device.phase # "final" /\ packet.n = device.expects ->
           Answers("ack",
               IF device.header
               THEN [device EXCEPT !.phase = "data", !.stored = Append(@, packet.data),
                                   !.expects = (@ + 1) % BlockNumbers]
               ELSE [device EXCEPT !.phase = "data", !.header = TRUE, !.expects = 1])
      [] /\ packet.crc = device.crc /\ packet.n = (device.expects - 1) % BlockNumbers
         /\ ~(device.phase = "final" /\ packet.data = LastHeader) -> Answers("ack", device)
      [] OTHER -> Answers("can", [device EXCEPT !.phase = "over"])

TakesEot ==
    Answers("ack", [device EXCEPT
        !.phase = IF device.ymodem /\ device.header THEN "final" ELSE "over"])

DeviceReads ==
    /\ line # <<>>
    /\ line' = Tail(line)
    /\ LET item == Head(line)
       IN  CASE device.phase \in {"shell", "over"} -> Ignores
             [] device.phase \in {"start", "data", "final"} /\ item.kind = "packet" ->
                  TakesPacket(item)
             [] device.phase \in {"start", "data", "final"} /\ item.kind = "eot" -> TakesEot
             [] device.phase \in {"start", "data", "final"} /\ item.kind = "can" ->
                  answers' = answers /\ device' = [device EXCEPT !.phase = "over"]
             [] OTHER -> Ignores
    /\ UNCHANGED <<tab, world>>

(* Lost packets and answers, and packets whose checksum does not hold.        *)
LineFails ==
    /\ world.faults < MaxFaults
    /\ \/ line # <<>> /\ line' = Tail(line) /\ UNCHANGED answers
       \/ answers # <<>> /\ answers' = Tail(answers) /\ UNCHANGED line
       \/ /\ line # <<>> /\ device.phase \in {"start", "data", "final"}
          /\ Head(line).kind = "packet"
          /\ line' = Tail(line) /\ answers' = Append(answers, "nak")
    /\ world' = [world EXCEPT !.faults = @ + 1]
    /\ UNCHANGED <<tab, device>>

-----------------------------------------------------------------------------
Idle ==
    [open |-> TRUE, file |-> FALSE, ymodem |-> FALSE, read |-> 0, packet |-> NoPacket,
     block |-> 1, retries |-> 0, crc |-> TRUE, waitingEotAck |-> FALSE,
     headerPending |-> FALSE, finalHeader |-> FALSE, zmodem |-> 0, running |-> {},
     result |-> "none", returned |-> FALSE, written |-> <<>>]

Init ==
    /\ tab = Idle
    /\ line = <<>> /\ answers = <<>>
    /\ device = [Receiver(FALSE) EXCEPT !.phase = "shell"]
    /\ \E size \in Sizes :
         world = [size |-> size, transfers |-> 0, faults |-> 0,
                  overtaken |-> FALSE, awaited |-> FALSE, disturbed |-> "no"]

Next ==
    \/ OnTimeout \/ ReadyRead \/ MenuCancels \/ SendSerialFile \/ TypesControlD
    \/ ProcessEnds \/ ProcessWrites \/ PortDies \/ DiskFails
    \/ StartReceiver \/ Asks \/ FallsBack \/ ShellPrints \/ DeviceReads \/ LineFails

Spec == Init /\ [][Next]_vars

(* The timer runs, what is on the line arrives, a receiver that was started   *)
(* asks; the user and the faults owe nothing.                                 *)
FairSpec ==
    /\ Spec
    /\ WF_vars(OnTimeout) /\ WF_vars(ReadyRead)
    /\ WF_vars(DeviceReads) /\ WF_vars(Asks)

-----------------------------------------------------------------------------
(* Properties.                                                                *)

(* The sender, its port and the receiver keep their types.                    *)
TypeOK ==
    /\ tab \in Tab
    /\ tab.written = <<>> /\ ~tab.returned
    /\ device.phase \in {"shell", "start", "data", "final", "over"}
    /\ device.expects \in 0..BlockNumbers - 1
    /\ \A i \in DOMAIN answers : answers[i] \in Bytes

File == [i \in 1..world.size |-> i]

(* What no retry can mend: a key in the stream, a disk that cannot be read, a *)
(* second transfer beside the first.                                          *)
Disturbed == world.disturbed # "no"

(* sendXmodemPacket, handleXmodemInput: whatever is lost, spoilt or sent      *)
(* again, the receiver has a beginning of the file, never a gap, a repetition *)
(* or a swap; and when the tab says that the transfer is complete it has all  *)
(* of it, unless the timer overtook an answer: an acknowledgement carries no  *)
(* number, and one too many is taken for that of the next packet.  Then the   *)
(* receiver has a beginning only of a file whose packets have different block *)
(* numbers, and none that of a header.                                        *)
ShortFile == world.size + 1 < BlockNumbers
CompleteMeansWhole ==
    /\ ~Disturbed /\ (world.overtaken => ShortFile) => IsPrefix(device.stored, File)
    /\ tab.result = "complete" /\ ~Disturbed /\ ~world.overtaken =>
         device.stored = File /\ device.phase \in {"final", "over"}

(* The same of every file.  Not so: after an answer that the timer overtook   *)
(* the tab ends its file, and when the EOT is lost a receiver that expects    *)
(* block number 0 stores the empty last header as data.                       *)
NeverAGap == ~Disturbed => IsPrefix(device.stored, File)

(* The XMODEM timer: a transfer ends, one way or the other, whatever the      *)
(* other side does or fails to do.                                            *)
TransferEnds == tab.file ~> ~tab.file

(* The retries: a transfer whose receiver was there from the beginning, keeps *)
(* to CRC and is not interfered with does not fail for MaxRetries losses:     *)
(* whatever the tab then says, the receiver has the file.  Two kinds of       *)
(* transfer are excepted.  One is given up before the receiver's first byte,  *)
(* since the ticks count while the tab waits for it.  In the other a tick     *)
(* fell on something in flight: the packet that it repeats is answered twice, *)
(* the second answer is taken for that of the next packet, and then one loss  *)
(* puts the tab a packet ahead.                                               *)
Fails == tab.result \in {"timed out", "failed", "cancelled"}
Attended == world.awaited /\ ~Disturbed /\ device.crc /\ tab.open
HasFile == device.stored = File /\ device.phase \in {"final", "over"}
RetriesSuffice == Fails /\ Attended /\ ~world.overtaken => HasFile

(* The same without the exceptions.  Not so.                                  *)
RetriesSufficeOvertaken == Fails /\ Attended => HasFile
RetriesSufficeUnheard ==
    tab.result = "unheard" /\ Attended /\ ~world.overtaken => HasFile

(* Types, and what the receiver has of the file.                              *)
DeliverySound == TypeOK /\ CompleteMeansWhole
=============================================================================
