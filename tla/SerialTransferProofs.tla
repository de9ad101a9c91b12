------------------------- MODULE SerialTransferProofs -------------------------
(* Theorems about SerialTransfer, for every file, every number of blocks and  *)
(* every limit: the receiver has a beginning of the file, complete means      *)
(* complete, and losses within the limit do not end a transfer.               *)
EXTENDS SerialTransfer, FiniteSetTheorems, SequenceTheorems, TLAPS

-----------------------------------------------------------------------------
(* Block numbers.                                                             *)
LEMMA NumberIs ==
  ASSUME NEW n \in Int
  PROVE  n % BlockNumbers \in 0..BlockNumbers - 1
BY SerialAssumption

LEMMA SmallNumber ==
  ASSUME NEW n \in Int, 0 <= n, n < BlockNumbers
  PROVE  n % BlockNumbers = n
BY SerialAssumption

LEMMA RestIs ==
  ASSUME NEW q \in Int, NEW r \in 0..BlockNumbers - 1
  PROVE  ((BlockNumbers * q) + r) % BlockNumbers = r
BY SerialAssumption

LEMMA NextNumber ==
  ASSUME NEW n \in Int
  PROVE  (n + 1) % BlockNumbers =
           IF n % BlockNumbers = BlockNumbers - 1 THEN 0 ELSE (n % BlockNumbers) + 1
<1> DEFINE b == BlockNumbers
           q == n \div b
           r == n % b
<1>0. b \in Nat /\ b > 2  BY SerialAssumption
<1>1. q \in Int /\ r \in 0..b - 1 /\ n = (b * q) + r  BY <1>0
<1>2. CASE r = b - 1
  <2>1. b * (q + 1) = (b * q) + b  BY <1>0, <1>1
  <2>2. n + 1 = (b * (q + 1)) + 0  BY <1>0, <1>1, <1>2, <2>1
  <2>3. q + 1 \in Int /\ 0 \in 0..b - 1  BY <1>0, <1>1
  <2> HIDE DEF q, r
  <2>4. ((b * (q + 1)) + 0) % b = 0  BY <2>3, RestIs
  <2> QED  BY <1>2, <2>2, <2>4 DEF r
<1>3. CASE r # b - 1
  <2>1. n + 1 = (b * q) + (r + 1)  BY <1>0, <1>1
  <2>2. r + 1 \in 0..b - 1  BY <1>0, <1>1, <1>3
  <2> HIDE DEF q, r
  <2>3. ((b * q) + (r + 1)) % b = r + 1  BY <1>1, <2>2, RestIs
  <2> QED  BY <1>3, <2>1, <2>3 DEF r
<1> QED  BY <1>2, <1>3

(* The receiver tells a packet it has just taken from the one it expects, and *)
(* knows it for the one before.                                               *)
LEMMA NumbersApart ==
  ASSUME NEW n \in Int
  PROVE  /\ (n + 1) % BlockNumbers # n % BlockNumbers
         /\ (((n + 1) % BlockNumbers) - 1) % BlockNumbers = n % BlockNumbers
<1> DEFINE b == BlockNumbers
           r == n % b
           s == (n + 1) % b
<1>0. b \in Nat /\ b > 2  BY SerialAssumption
<1>1. r \in 0..b - 1  BY NumberIs
<1>2. s = IF r = b - 1 THEN 0 ELSE r + 1  BY NextNumber
<1>3. (-1) % b = b - 1  BY <1>0
<1> HIDE DEF r, s
<1>4. s # r  BY <1>0, <1>1, <1>2
<1>5. (s - 1) % b = r
  <2>1. CASE r = b - 1
    <3>1. s - 1 = -1  BY <1>2, <2>1
    <3> QED  BY <1>3, <2>1, <3>1
  <2>2. CASE r # b - 1
    <3>1. s - 1 = r /\ 0 <= r /\ r < b /\ r \in Int  BY <1>0, <1>1, <1>2, <2>2
    <3>2. r % b = r  BY <3>1, SmallNumber
    <3> QED  BY <3>1, <3>2
  <2> QED  BY <2>1, <2>2
<1> QED  BY <1>4, <1>5 DEF r, s

-----------------------------------------------------------------------------
(* The sender.  What its fields say together: no transfer, a transfer that    *)
(* waits for the receiver's first byte, a packet on its way, or the end of    *)
(* the data.                                                                  *)
Resting(t) ==
    /\ ~t.file /\ t.packet = NoPacket /\ ~t.waitingEotAck
    /\ ~t.ymodem /\ ~t.headerPending /\ ~t.finalHeader
Awaiting(t) ==
    /\ t.file /\ t.packet = NoPacket /\ ~t.waitingEotAck
    /\ t.headerPending = t.ymodem /\ ~t.finalHeader /\ t.read = 0 /\ t.block = 1
SendingHeader(t) ==
    /\ t.file /\ t.packet = Packet(Header, 0, t.crc) /\ ~t.waitingEotAck
    /\ t.ymodem /\ t.headerPending /\ ~t.finalHeader /\ t.read = 0 /\ t.block = 1
SendingData(t) ==
    /\ t.file /\ t.read \in 1..world.size /\ t.block = t.read
    /\ t.packet = Packet(t.read, t.read, t.crc) /\ ~t.waitingEotAck
    /\ ~t.headerPending /\ ~t.finalHeader
Ending(t) ==
    /\ t.file /\ t.packet = NoPacket /\ t.waitingEotAck
    /\ ~t.headerPending /\ ~t.finalHeader
    /\ ~Disturbed => t.read = world.size
SendingLast(t) ==
    /\ t.file /\ t.packet = Packet(LastHeader, 0, t.crc) /\ ~t.waitingEotAck
    /\ t.ymodem /\ ~t.headerPending /\ t.finalHeader
    /\ ~Disturbed => t.read = world.size
Sending(t) == SendingHeader(t) \/ SendingData(t) \/ SendingLast(t)

(* A packet carries the number of its block.                                  *)
Numbered(p) ==
    p.kind = "packet" => \/ p.data \in 1..world.size /\ p.n = p.data % BlockNumbers
                         \/ p.data \in {Header, LastHeader} /\ p.n = 0

Written == Items({"packet", "eot", "can", "zmodem"})

Sender(t) ==
    /\ t \in Tab
    /\ Resting(t) \/ Awaiting(t) \/ Sending(t) \/ Ending(t)
    /\ t.file => t.retries <= MaxRetries
    /\ t.read <= world.size
    /\ \A i \in 1..Len(t.written) : Numbered(t.written[i])

World == [size : Nat, transfers : 0..MaxTransfers,
          faults : 0..MaxFaults, overtaken : BOOLEAN, awaited : BOOLEAN,
          disturbed : {"no", "typed", "beside", "unreadable"}]

(* What a byte of the receiver leaves alone.                                  *)
Kept(t, u) ==
    /\ u.open = t.open /\ u.zmodem = t.zmodem /\ u.running = t.running
    /\ u.file => t.file

LEMMA ItemsAre ==
  /\ NoPacket \in Items({"none", "packet"}) /\ NoPacket.kind = "none"
  /\ Item("can") \in Written /\ Item("can").kind = "can"
  /\ Item("eot") \in Written /\ Item("eot").kind = "eot"
  /\ Item("zmodem") \in Written /\ Item("zmodem").kind = "zmodem"
BY SerialAssumption DEF NoPacket, Item, Items, Written

LEMMA PacketIs ==
  ASSUME NEW data \in Int, NEW n \in Int, NEW crc \in BOOLEAN
  PROVE  /\ Packet(data, n, crc) \in Items({"none", "packet"})
         /\ Packet(data, n, crc) \in Written
         /\ Packet(data, n, crc).kind = "packet" /\ Packet(data, n, crc).data = data
         /\ Packet(data, n, crc).n = n % BlockNumbers /\ Packet(data, n, crc).crc = crc
         /\ Packet(data, n, crc) # NoPacket
<1>1. n % BlockNumbers \in 0..BlockNumbers - 1  BY NumberIs
<1> QED  BY <1>1 DEF Packet, Items, Written, NoPacket, Item

(* What has been written is numbered, and so is one more.                     *)
LEMMA WritesIs ==
  ASSUME NEW t \in Tab, NEW item \in Written
  PROVE  /\ Writes(t, item) \in Tab
         /\ Writes(t, item) = [t EXCEPT !.written = Writes(t, item).written]
         /\ Writes(t, item).written = IF t.open THEN Append(t.written, item) ELSE t.written
<1>1. t.written \in Seq(Written)  BY DEF Tab, Written
<1>2. Append(t.written, item) \in Seq(Written)  BY <1>1
<1>3. [t EXCEPT !.written = Append(t.written, item)] \in Tab  BY <1>2 DEF Tab, Written
<1> QED  BY <1>3 DEF Writes, Tab

LEMMA MoreNumbered ==
  ASSUME NEW s \in Seq(Written), NEW item \in Written, Numbered(item),
         \A i \in 1..Len(s) : Numbered(s[i])
  PROVE  \A i \in 1..Len(Append(s, item)) : Numbered(Append(s, item)[i])
<1> SUFFICES ASSUME NEW i \in 1..Len(Append(s, item)) PROVE Numbered(Append(s, item)[i])
  OBVIOUS
<1>1. i \in 1..(Len(s) + 1)  OBVIOUS
<1>2. CASE i = Len(s) + 1
  <2>1. Append(s, item)[i] = item  BY <1>2
  <2> QED  BY <2>1
<1>3. CASE i # Len(s) + 1
  <2>1. i \in 1..Len(s) /\ Append(s, item)[i] = s[i]  BY <1>1, <1>3
  <2> QED  BY <2>1
<1> QED  BY <1>2, <1>3

(* The helpers of the handlers, field by field.                               *)
AllNumbered(s) == \A i \in 1..Len(s) : Numbered(s[i])
Sent(t) == IF t.waitingEotAck THEN Item("eot") ELSE t.packet
Wrote(t, u, item) == u.written = IF t.open THEN Append(t.written, item) ELSE t.written

LEMMA WritesNumbered ==
  ASSUME NEW t \in Tab, NEW item \in Written, Numbered(item), AllNumbered(t.written)
  PROVE  AllNumbered(Writes(t, item).written)
<1>1. t.written \in Seq(Written)  BY DEF Tab, Written
<1>2. CASE t.open
  <2>1. Writes(t, item).written = Append(t.written, item)  BY <1>2, WritesIs
  <2> QED  BY <1>1, <2>1, MoreNumbered DEF AllNumbered
<1>3. CASE ~t.open
  <2>1. Writes(t, item).written = t.written  BY <1>3, WritesIs
  <2> QED  BY <2>1
<1> QED  BY <1>2, <1>3

LEMMA OthersNumbered ==
  /\ Numbered(Item("eot")) /\ Numbered(Item("can")) /\ Numbered(Item("zmodem"))
BY ItemsAre DEF Numbered

LEMMA FinishDoes ==
  ASSUME NEW t \in Tab, AllNumbered(t.written),
         NEW result \in {"complete", "stopped", "cancelled", "unheard", "timed out", "failed"}
  PROVE  LET u == FinishXmodem(t, result)
         IN  /\ u \in Tab /\ Resting(u) /\ Kept(t, u) /\ AllNumbered(u.written)
             /\ u.read = t.read /\ u.result = result /\ u.returned = t.returned
             /\ result = "complete" => u.written = t.written
             /\ result # "complete" => Wrote(t, u, Item("can"))
<1> DEFINE told == IF result = "complete" THEN t ELSE Writes(t, Item("can"))
           u == FinishXmodem(t, result)
<1>1. /\ told \in Tab /\ AllNumbered(told.written)
      /\ told.open = t.open /\ told.zmodem = t.zmodem /\ told.running = t.running
      /\ told.read = t.read /\ told.returned = t.returned
      /\ result = "complete" => told.written = t.written
      /\ result # "complete" => Wrote(t, told, Item("can"))
  <2>1. CASE result = "complete"  BY <2>1
  <2>2. CASE result # "complete"
    <3> DEFINE w == Writes(t, Item("can"))
    <3>1. /\ w \in Tab /\ w = [t EXCEPT !.written = w.written]
          /\ Wrote(t, w, Item("can"))
      BY WritesIs, ItemsAre DEF Wrote
    <3>2. AllNumbered(w.written)  BY WritesNumbered, OthersNumbered, ItemsAre
    <3>3. told = w  BY <2>2
    <3> HIDE DEF w, told
    <3>4. /\ w.open = t.open /\ w.zmodem = t.zmodem /\ w.running = t.running
          /\ w.read = t.read /\ w.returned = t.returned
      BY <3>1 DEF Tab
    <3> QED  BY <2>2, <3>1, <3>2, <3>3, <3>4
  <2> QED  BY <2>1, <2>2
<1>2. u = [told EXCEPT !.file = FALSE, !.packet = NoPacket, !.waitingEotAck = FALSE,
                     !.ymodem = FALSE, !.headerPending = FALSE, !.finalHeader = FALSE,
                     !.result = result]
  BY DEF FinishXmodem
<1> HIDE DEF u, told
<1>3. u \in Tab /\ u.written = told.written
  BY <1>1, <1>2, ItemsAre DEF Tab
<1>4. /\ ~u.file /\ u.packet = NoPacket /\ ~u.waitingEotAck
      /\ ~u.ymodem /\ ~u.headerPending /\ ~u.finalHeader
      /\ u.open = told.open /\ u.zmodem = told.zmodem /\ u.running = told.running
      /\ u.read = told.read /\ u.result = result /\ u.returned = told.returned
  BY <1>1, <1>2 DEF Tab
<1>5. Kept(t, u) /\ Resting(u)  BY <1>1, <1>4 DEF Kept, Resting
<1> QED  BY <1>1, <1>3, <1>4, <1>5 DEF u, Wrote

LEMMA SendsPacketDoes ==
  ASSUME NEW t \in Tab, AllNumbered(t.written),
         NEW packet \in Items({"none", "packet"}), packet \in Written, Numbered(packet)
  PROVE  LET u == SendsPacket(t, packet)
         IN  /\ u \in Tab /\ AllNumbered(u.written) /\ Wrote(t, u, packet)
             /\ u.packet = packet /\ u.retries = 0
             /\ u.open = t.open /\ u.file = t.file /\ u.ymodem = t.ymodem /\ u.read = t.read
             /\ u.block = t.block /\ u.crc = t.crc /\ u.waitingEotAck = t.waitingEotAck
             /\ u.headerPending = t.headerPending /\ u.finalHeader = t.finalHeader
             /\ u.zmodem = t.zmodem /\ u.running = t.running /\ u.result = t.result
             /\ u.returned = t.returned
<1> DEFINE s == [t EXCEPT !.packet = packet, !.retries = 0]
           u == SendsPacket(t, packet)
<1>0. 0 \in 0..MaxRetries + 1  BY SerialAssumption
<1>1. s \in Tab /\ s.written = t.written /\ s.open = t.open  BY <1>0 DEF Tab
<1>2. u = Writes(s, packet)  BY DEF SendsPacket
<1>3. /\ s.packet = packet /\ s.retries = 0
      /\ s.file = t.file /\ s.ymodem = t.ymodem /\ s.read = t.read
      /\ s.block = t.block /\ s.crc = t.crc /\ s.waitingEotAck = t.waitingEotAck
      /\ s.headerPending = t.headerPending /\ s.finalHeader = t.finalHeader
      /\ s.zmodem = t.zmodem /\ s.running = t.running /\ s.result = t.result
      /\ s.returned = t.returned
  BY DEF Tab
<1> HIDE DEF u, s
<1>4. u \in Tab /\ u = [s EXCEPT !.written = u.written] /\ Wrote(t, u, packet)
  BY <1>1, <1>2, WritesIs DEF Wrote
<1>5. AllNumbered(u.written)  BY <1>1, <1>2, WritesNumbered
<1>6. /\ u.packet = s.packet /\ u.retries = s.retries /\ u.open = s.open
      /\ u.file = s.file /\ u.ymodem = s.ymodem /\ u.read = s.read
      /\ u.block = s.block /\ u.crc = s.crc /\ u.waitingEotAck = s.waitingEotAck
      /\ u.headerPending = s.headerPending /\ u.finalHeader = s.finalHeader
      /\ u.zmodem = s.zmodem /\ u.running = s.running /\ u.result = s.result
      /\ u.returned = s.returned
  BY <1>1, <1>4 DEF Tab
<1> QED  BY <1>1, <1>3, <1>4, <1>5, <1>6 DEF u

LEMMA SendsEotDoes ==
  ASSUME NEW t \in Tab, AllNumbered(t.written)
  PROVE  LET u == SendsEot(t)
         IN  /\ u \in Tab /\ AllNumbered(u.written) /\ Wrote(t, u, Item("eot"))
             /\ u.waitingEotAck /\ u.retries = 0
             /\ u.open = t.open /\ u.file = t.file /\ u.ymodem = t.ymodem /\ u.read = t.read
             /\ u.block = t.block /\ u.crc = t.crc /\ u.packet = t.packet
             /\ u.headerPending = t.headerPending /\ u.finalHeader = t.finalHeader
             /\ u.zmodem = t.zmodem /\ u.running = t.running /\ u.result = t.result
             /\ u.returned = t.returned
<1> DEFINE s == [t EXCEPT !.waitingEotAck = TRUE, !.retries = 0]
           u == SendsEot(t)
<1>0. 0 \in 0..MaxRetries + 1  BY SerialAssumption
<1>1. s \in Tab /\ s.written = t.written /\ s.open = t.open  BY <1>0 DEF Tab
<1>2. u = Writes(s, Item("eot"))  BY DEF SendsEot
<1>3. /\ s.waitingEotAck /\ s.retries = 0
      /\ s.file = t.file /\ s.ymodem = t.ymodem /\ s.read = t.read
      /\ s.block = t.block /\ s.crc = t.crc /\ s.packet = t.packet
      /\ s.headerPending = t.headerPending /\ s.finalHeader = t.finalHeader
      /\ s.zmodem = t.zmodem /\ s.running = t.running /\ s.result = t.result
      /\ s.returned = t.returned
  BY DEF Tab
<1> HIDE DEF u, s
<1>4. u \in Tab /\ u = [s EXCEPT !.written = u.written] /\ Wrote(t, u, Item("eot"))
  BY <1>1, <1>2, WritesIs, ItemsAre DEF Wrote
<1>5. AllNumbered(u.written)  BY <1>1, <1>2, WritesNumbered, OthersNumbered, ItemsAre
<1>6. /\ u.packet = s.packet /\ u.retries = s.retries /\ u.open = s.open
      /\ u.file = s.file /\ u.ymodem = s.ymodem /\ u.read = s.read
      /\ u.block = s.block /\ u.crc = s.crc /\ u.waitingEotAck = s.waitingEotAck
      /\ u.headerPending = s.headerPending /\ u.finalHeader = s.finalHeader
      /\ u.zmodem = s.zmodem /\ u.running = s.running /\ u.result = s.result
      /\ u.returned = s.returned
  BY <1>1, <1>4 DEF Tab
<1> QED  BY <1>1, <1>3, <1>4, <1>5, <1>6 DEF u

(* sendXmodemPacket: a header that is due, the next packet, or the end.       *)
Unsent(t) ==
    /\ t \in Tab /\ AllNumbered(t.written) /\ t.file /\ t.packet = NoPacket
    /\ ~t.waitingEotAck /\ ~t.finalHeader /\ t.read <= world.size
    /\ IF t.headerPending THEN t.ymodem /\ t.read = 0 /\ t.block = 1 ELSE t.block = t.read + 1

Goes(t, u) ==
    /\ u \in Tab /\ AllNumbered(u.written) /\ Kept(t, u) /\ u.file /\ u.retries = 0
    /\ u.crc = t.crc /\ u.ymodem = t.ymodem /\ u.result = t.result /\ u.returned = t.returned
    /\ Wrote(t, u, Sent(u))
    /\ IF t.headerPending THEN SendingHeader(u)
       ELSE IF t.read < world.size /\ world.disturbed # "unreadable"
       THEN SendingData(u) /\ u.read = t.read + 1
       ELSE Ending(u) /\ u.read = t.read

LEMMA SendXmodemPacketDoes ==
  ASSUME world \in World, NEW t, Unsent(t)
  PROVE  Goes(t, SendXmodemPacket(t))
<1> DEFINE u == SendXmodemPacket(t)
<1>0. t \in Tab /\ AllNumbered(t.written) /\ t.file /\ t.crc \in BOOLEAN
  BY DEF Unsent, Tab
<1>1. CASE t.headerPending
  <2> DEFINE p == Packet(Header, 0, t.crc)
  <2>1. u = SendsPacket(t, p)  BY <1>0, <1>1 DEF SendXmodemPacket
  <2>2. p \in Items({"none", "packet"}) /\ p \in Written /\ Numbered(p)
    <3>1. 0 % BlockNumbers = 0  BY SmallNumber, SerialAssumption
    <3> QED  BY <1>0, <3>1, PacketIs DEF Numbered, Header
  <2> HIDE DEF p, u
  <2>3. /\ u \in Tab /\ AllNumbered(u.written) /\ Wrote(t, u, p)
        /\ u.packet = p /\ u.retries = 0
        /\ u.open = t.open /\ u.file = t.file /\ u.ymodem = t.ymodem /\ u.read = t.read
        /\ u.block = t.block /\ u.crc = t.crc /\ u.waitingEotAck = t.waitingEotAck
        /\ u.headerPending = t.headerPending /\ u.finalHeader = t.finalHeader
        /\ u.zmodem = t.zmodem /\ u.running = t.running /\ u.result = t.result
        /\ u.returned = t.returned
    BY <1>0, <2>1, <2>2, SendsPacketDoes
  <2>4. Sent(u) = p  BY <2>3 DEF Sent, Unsent
  <2>5. SendingHeader(u)  BY <1>1, <2>3 DEF SendingHeader, Unsent, p
  <2> QED  BY <1>0, <1>1, <2>3, <2>4, <2>5 DEF Goes, Kept, u
<1>2. CASE ~t.headerPending /\ t.read < world.size /\ world.disturbed # "unreadable"
  <2> DEFINE r == [t EXCEPT !.read = @ + 1]
             p == Packet(t.read + 1, t.block, t.crc)
  <2>0. t.block = t.read + 1 /\ t.read \in Nat /\ t.block \in Nat /\ world.size \in Nat
    BY <1>2 DEF Unsent, Tab, World
  <2>1. u = SendsPacket(r, p)  BY <1>0, <1>2 DEF SendXmodemPacket
  <2>2. p \in Items({"none", "packet"}) /\ p \in Written /\ Numbered(p)
    <3>1. t.read + 1 \in 1..world.size  BY <1>2, <2>0
    <3>2. t.read + 1 \in Int /\ t.block \in Int  BY <2>0
    <3> QED  BY <1>0, <2>0, <3>1, <3>2, PacketIs DEF Numbered
  <2>3. /\ r \in Tab /\ r.written = t.written /\ r.open = t.open /\ r.file = t.file
        /\ r.ymodem = t.ymodem /\ r.read = t.read + 1 /\ r.block = t.block /\ r.crc = t.crc
        /\ r.waitingEotAck = t.waitingEotAck /\ r.headerPending = t.headerPending
        /\ r.finalHeader = t.finalHeader /\ r.zmodem = t.zmodem /\ r.running = t.running
        /\ r.result = t.result /\ r.returned = t.returned
    BY <1>0, <2>0 DEF Tab
  <2>p. p = Packet(t.read + 1, t.read + 1, t.crc)  BY <2>0
  <2> HIDE DEF p, u, r
  <2>4. /\ u \in Tab /\ AllNumbered(u.written) /\ Wrote(r, u, p)
        /\ u.packet = p /\ u.retries = 0
        /\ u.open = r.open /\ u.file = r.file /\ u.ymodem = r.ymodem /\ u.read = r.read
        /\ u.block = r.block /\ u.crc = r.crc /\ u.waitingEotAck = r.waitingEotAck
        /\ u.headerPending = r.headerPending /\ u.finalHeader = r.finalHeader
        /\ u.zmodem = r.zmodem /\ u.running = r.running /\ u.result = r.result
        /\ u.returned = r.returned
    BY <1>0, <2>1, <2>2, <2>3, SendsPacketDoes
  <2>5. Sent(u) = p  BY <2>3, <2>4 DEF Sent, Unsent
  <2>6. SendingData(u)
    <3>1. u.read = t.read + 1 /\ u.block = t.read + 1  BY <2>0, <2>3, <2>4
    <3>2. u.read \in 1..world.size  BY <1>2, <2>0, <3>1
    <3>3. ~t.waitingEotAck /\ ~t.finalHeader  BY DEF Unsent
    <3> QED  BY <1>0, <1>2, <2>p, <2>3, <2>4, <3>1, <3>2, <3>3 DEF SendingData
  <2> QED  BY <1>0, <1>2, <2>3, <2>4, <2>5, <2>6 DEF Goes, Kept, Wrote, u
<1>3. CASE ~t.headerPending /\ ~(t.read < world.size /\ world.disturbed # "unreadable")
  <2>1. u = SendsEot(t)  BY <1>0, <1>3 DEF SendXmodemPacket
  <2> HIDE DEF u
  <2>2. /\ u \in Tab /\ AllNumbered(u.written) /\ Wrote(t, u, Item("eot"))
        /\ u.waitingEotAck /\ u.retries = 0
        /\ u.open = t.open /\ u.file = t.file /\ u.ymodem = t.ymodem /\ u.read = t.read
        /\ u.block = t.block /\ u.crc = t.crc /\ u.packet = t.packet
        /\ u.headerPending = t.headerPending /\ u.finalHeader = t.finalHeader
        /\ u.zmodem = t.zmodem /\ u.running = t.running /\ u.result = t.result
        /\ u.returned = t.returned
    BY <1>0, <2>1, SendsEotDoes
  <2>3. Sent(u) = Item("eot")  BY <2>2 DEF Sent
  <2>4. ~Disturbed => t.read = world.size
    <3>1. t.read <= world.size /\ t.read \in Nat /\ world.size \in Nat
      BY DEF Unsent, Tab, World
    <3> QED  BY <1>3, <3>1 DEF Disturbed
  <2>5. Ending(u)  BY <1>3, <2>2, <2>4 DEF Ending, Unsent
  <2> QED  BY <1>0, <1>3, <2>2, <2>3, <2>5 DEF Goes, Kept, u
<1> QED  BY <1>1, <1>2, <1>3

LEMMA GoesOn ==
  ASSUME world \in World, NEW t, NEW u, Unsent(t), Goes(t, u)
  PROVE  Sender(u)
<1>1. MaxRetries \in Nat \ {0}  BY SerialAssumption
<1>2. t.read \in Nat /\ world.size \in Nat /\ t.read <= world.size
  BY DEF Unsent, Tab, World
<1>3. u.read <= world.size
  <2>1. CASE t.headerPending
    <3>1. u.read = 0  BY <2>1 DEF Goes, SendingHeader
    <3> QED  BY <1>2, <3>1
  <2>2. CASE ~t.headerPending
    <3>1. SendingData(u) \/ u.read = t.read  BY <2>2 DEF Goes
    <3> QED  BY <1>2, <3>1 DEF SendingData
  <2> QED  BY <2>1, <2>2
<1>4. Sending(u) \/ Ending(u)  BY DEF Goes, Sending
<1>5. u \in Tab /\ AllNumbered(u.written) /\ u.retries <= MaxRetries
  BY <1>1 DEF Goes
<1> QED  BY <1>3, <1>4, <1>5 DEF Sender, AllNumbered

(* The states of a transfer tell themselves apart.                            *)
LEMMA ModeFields ==
  ASSUME NEW t, Sender(t)
  PROVE  /\ t.waitingEotAck <=> Ending(t)
         /\ t.packet # NoPacket <=> Sending(t)
         /\ ~t.waitingEotAck /\ t.packet = NoPacket <=> Resting(t) \/ Awaiting(t)
         /\ ~t.file <=> Resting(t)
         /\ Sending(t) => /\ t.packet \in Items({"none", "packet"}) /\ t.packet \in Written
                          /\ Numbered(t.packet) /\ t.packet.crc = t.crc
         /\ t \in Tab /\ AllNumbered(t.written)
<1>1. t \in Tab /\ AllNumbered(t.written)  BY DEF Sender, AllNumbered
<1>2. t.crc \in BOOLEAN /\ t.read \in Nat  BY <1>1 DEF Tab
<1>3. ASSUME Sending(t)
      PROVE  /\ t.packet \in Items({"none", "packet"}) /\ t.packet \in Written
             /\ Numbered(t.packet) /\ t.packet # NoPacket /\ t.packet.crc = t.crc
  <2>0. 0 % BlockNumbers = 0  BY SmallNumber, SerialAssumption
  <2>1. CASE SendingHeader(t)
    <3>1. t.packet = Packet(Header, 0, t.crc) /\ Header \in Int /\ 0 \in Int
      BY <2>1 DEF SendingHeader, Header
    <3> QED  BY <1>2, <2>0, <3>1, PacketIs DEF Numbered
  <2>2. CASE SendingData(t)
    <3>1. t.packet = Packet(t.read, t.read, t.crc) /\ t.read \in Int /\ t.read \in 1..world.size
      BY <1>2, <2>2 DEF SendingData
    <3> QED  BY <1>2, <3>1, PacketIs DEF Numbered
  <2>3. CASE SendingLast(t)
    <3>1. t.packet = Packet(LastHeader, 0, t.crc) /\ LastHeader \in Int /\ 0 \in Int
      BY <2>3 DEF SendingLast, LastHeader
    <3> QED  BY <1>2, <2>0, <3>1, PacketIs DEF Numbered
  <2> QED  BY <1>3, <2>1, <2>2, <2>3 DEF Sending
<1>4. Sending(t) => ~t.waitingEotAck /\ t.file
  BY DEF Sending, SendingHeader, SendingData, SendingLast
<1>5. Ending(t) => t.waitingEotAck /\ t.packet = NoPacket /\ t.file  BY DEF Ending
<1>6. Resting(t) => ~t.waitingEotAck /\ t.packet = NoPacket /\ ~t.file  BY DEF Resting
<1>7. Awaiting(t) => ~t.waitingEotAck /\ t.packet = NoPacket /\ t.file  BY DEF Awaiting
<1>8. Resting(t) \/ Awaiting(t) \/ Sending(t) \/ Ending(t)  BY DEF Sender
<1> QED  BY <1>1, <1>3, <1>4, <1>5, <1>6, <1>7, <1>8

(* Two senders at the same point of their transfers.                          *)
SameWork(t, u) ==
    /\ u.file = t.file /\ u.packet = t.packet /\ u.waitingEotAck = t.waitingEotAck
    /\ u.ymodem = t.ymodem /\ u.headerPending = t.headerPending
    /\ u.finalHeader = t.finalHeader /\ u.read = t.read /\ u.block = t.block /\ u.crc = t.crc

LEMMA SameModes ==
  ASSUME NEW t, NEW u, SameWork(t, u)
  PROVE  /\ Resting(u) <=> Resting(t)
         /\ Awaiting(u) <=> Awaiting(t)
         /\ SendingHeader(u) <=> SendingHeader(t)
         /\ SendingData(u) <=> SendingData(t)
         /\ SendingLast(u) <=> SendingLast(t)
         /\ Sending(u) <=> Sending(t)
         /\ Ending(u) <=> Ending(t)
         /\ Sent(u) = Sent(t)
BY DEF SameWork, Resting, Awaiting, SendingHeader, SendingData, SendingLast, Sending, Ending, Sent

(* What a byte makes of each of them.                                         *)
LEMMA StartDoes ==
  ASSUME world \in World, NEW t, Sender(t), Awaiting(t), NEW byte \in {"C", "nak"}
  PROVE  LET s == [t EXCEPT !.crc = byte = "C"]
         IN  /\ StartByte(t, byte) = SendXmodemPacket(s)
             /\ Unsent(s) /\ s.crc = (byte = "C") /\ s.ymodem = t.ymodem
             /\ s.open = t.open /\ s.written = t.written /\ s.result = t.result
             /\ s.returned = t.returned /\ s.headerPending = t.ymodem /\ s.read = 0
             /\ Kept(t, s)
<1> DEFINE s == [t EXCEPT !.crc = byte = "C"]
<1>1. t \in Tab /\ AllNumbered(t.written)  BY ModeFields
<1>2. s \in Tab /\ s.written = t.written /\ s.crc = (byte = "C") /\ s.ymodem = t.ymodem
      /\ s.open = t.open /\ s.result = t.result /\ s.returned = t.returned
      /\ s.headerPending = t.headerPending /\ s.read = t.read /\ s.file = t.file
      /\ s.packet = t.packet /\ s.waitingEotAck = t.waitingEotAck
      /\ s.finalHeader = t.finalHeader /\ s.block = t.block
      /\ s.zmodem = t.zmodem /\ s.running = t.running
  BY <1>1 DEF Tab
<1>3. StartByte(t, byte) = SendXmodemPacket(s)  BY DEF StartByte
<1> HIDE DEF s
<1>4. world.size \in Nat  BY DEF World
<1>5. Unsent(s)
  <2>1. t.headerPending \in BOOLEAN /\ t.ymodem \in BOOLEAN  BY <1>1 DEF Tab
  <2> QED  BY <1>1, <1>2, <1>4, <2>1 DEF Unsent, Awaiting
<1> QED  BY <1>2, <1>3, <1>5 DEF Kept, Awaiting, s

LEMMA AckHeaderOrData ==
  ASSUME world \in World, NEW t, Sender(t), SendingHeader(t) \/ SendingData(t)
  PROVE  \E s : /\ AckByte(t) = SendXmodemPacket(s) /\ Unsent(s) /\ Kept(t, s)
                /\ s.crc = t.crc /\ s.ymodem = t.ymodem /\ s.result = t.result
                /\ s.open = t.open /\ s.written = t.written /\ s.returned = t.returned
                /\ ~s.headerPending /\ s.read = t.read
<1> DEFINE headerAcked == t.ymodem /\ t.headerPending
           s == [t EXCEPT !.headerPending = @ /\ ~headerAcked,
                          !.block = IF headerAcked THEN 1 ELSE @ + 1,
                          !.packet = NoPacket]
<1>0. t \in Tab /\ AllNumbered(t.written)  BY ModeFields
<1>a. t.block \in Nat /\ t.headerPending \in BOOLEAN /\ t.ymodem \in BOOLEAN  BY <1>0 DEF Tab
<1>1. /\ t \in Tab /\ AllNumbered(t.written) /\ t.block \in Nat
      /\ t.headerPending \in BOOLEAN /\ t.ymodem \in BOOLEAN /\ t.block + 1 \in Nat
  BY <1>0, <1>a
<1>2. ~(t.ymodem /\ t.finalHeader)  BY DEF SendingHeader, SendingData
<1>3. AckByte(t) = SendXmodemPacket(s)  BY <1>2 DEF AckByte
<1>4. /\ s \in Tab
      /\ s.headerPending = (t.headerPending /\ ~headerAcked)
      /\ s.block = IF headerAcked THEN 1 ELSE t.block + 1
      /\ s.packet = NoPacket /\ s.crc = t.crc /\ s.ymodem = t.ymodem /\ s.open = t.open
      /\ s.written = t.written /\ s.returned = t.returned /\ s.result = t.result
      /\ s.read = t.read /\ s.file = t.file /\ s.waitingEotAck = t.waitingEotAck
      /\ s.finalHeader = t.finalHeader /\ s.zmodem = t.zmodem /\ s.running = t.running
  <2> DEFINE h == t.headerPending /\ ~headerAcked
             b == IF headerAcked THEN 1 ELSE t.block + 1
  <2>1. h \in BOOLEAN /\ b \in Nat  BY <1>1
  <2>2. s = [t EXCEPT !.headerPending = h, !.block = b, !.packet = NoPacket]  OBVIOUS
  <2> HIDE DEF h, b, s
  <2>3. /\ s \in Tab /\ s.headerPending = h /\ s.block = b
        /\ s.packet = NoPacket /\ s.crc = t.crc /\ s.ymodem = t.ymodem /\ s.open = t.open
        /\ s.written = t.written /\ s.returned = t.returned /\ s.result = t.result
        /\ s.read = t.read /\ s.file = t.file /\ s.waitingEotAck = t.waitingEotAck
        /\ s.finalHeader = t.finalHeader /\ s.zmodem = t.zmodem /\ s.running = t.running
    BY <1>1, <2>1, <2>2, ItemsAre DEF Tab
  <2> QED  BY <2>3 DEF h, b
<1> HIDE DEF s
<1>5. ~s.headerPending /\ s.block = t.read + 1
  <2>1. CASE SendingHeader(t)
    <3>1. t.ymodem /\ t.headerPending /\ t.read = 0  BY <2>1 DEF SendingHeader
    <3>2. s.block = 1 /\ ~s.headerPending  BY <1>4, <3>1
    <3>3. t.read + 1 = 1  BY <3>1
    <3> QED  BY <3>2, <3>3
  <2>2. CASE SendingData(t)
    <3>1. ~t.headerPending /\ t.block = t.read  BY <2>2 DEF SendingData
    <3> QED  BY <1>1, <1>4, <3>1
  <2> QED  BY <2>1, <2>2
<1>6. t.file /\ ~t.waitingEotAck /\ ~t.finalHeader  BY DEF SendingHeader, SendingData
<1>7. t.read <= world.size  BY DEF Sender
<1>8. Unsent(s)  BY <1>1, <1>4, <1>5, <1>6, <1>7 DEF Unsent
<1> QED  BY <1>3, <1>4, <1>5, <1>6, <1>8 DEF Kept

LEMMA AckLast ==
  ASSUME NEW t, Sender(t), SendingLast(t)
  PROVE  LET u == AckByte(t)
         IN  /\ u \in Tab /\ Resting(u) /\ Kept(t, u) /\ AllNumbered(u.written)
             /\ u.read = t.read /\ u.result = "complete" /\ u.returned /\ u.written = t.written
<1> DEFINE f == FinishXmodem(t, "complete")
           u == AckByte(t)
<1>1. t \in Tab /\ AllNumbered(t.written)  BY ModeFields
<1>2. /\ f \in Tab /\ Resting(f) /\ Kept(t, f) /\ AllNumbered(f.written)
      /\ f.read = t.read /\ f.result = "complete" /\ f.written = t.written
  BY <1>1, FinishDoes
<1>3. u = [f EXCEPT !.returned = TRUE]  BY DEF AckByte, SendingLast
<1> HIDE DEF f, u
<1>4. /\ u \in Tab /\ u.returned /\ u.open = f.open /\ u.file = f.file
      /\ u.zmodem = f.zmodem /\ u.running = f.running /\ u.read = f.read
      /\ u.result = f.result /\ u.written = f.written /\ SameWork(f, u)
  BY <1>2, <1>3 DEF Tab, SameWork
<1>5. Resting(u)  BY <1>2, <1>4, SameModes
<1> QED  BY <1>2, <1>4, <1>5 DEF Kept, u

LEMMA NakDoes ==
  ASSUME NEW t, Sender(t), Sending(t)
  PROVE  LET u == NakByte(t)
         IN  /\ u \in Tab /\ Kept(t, u) /\ AllNumbered(u.written)
             /\ u.read = t.read /\ u.returned = t.returned
             /\ TooMany(t.retries + 1) =>
                  Resting(u) /\ u.result = "failed" /\ Wrote(t, u, Item("can"))
             /\ ~TooMany(t.retries + 1) =>
                  /\ SameWork(t, u) /\ u.retries = t.retries + 1 /\ u.retries <= MaxRetries
                  /\ u.result = t.result /\ Wrote(t, u, Sent(t))
<1> DEFINE s == [t EXCEPT !.retries = @ + 1]
           u == NakByte(t)
<1>1. /\ t \in Tab /\ AllNumbered(t.written) /\ t.packet \in Written /\ Numbered(t.packet)
      /\ ~t.waitingEotAck
  BY ModeFields DEF Sending, SendingHeader, SendingData, SendingLast
<1>2. t.retries \in Nat /\ t.retries <= MaxRetries /\ MaxRetries \in Nat
  <2>1. t.file  BY DEF Sending, SendingHeader, SendingData, SendingLast
  <2>2. t.retries <= MaxRetries  BY <2>1 DEF Sender
  <2>3. MaxRetries \in Nat  BY SerialAssumption
  <2>4. t.retries \in 0..MaxRetries + 1  BY <1>1 DEF Tab
  <2> QED  BY <2>2, <2>3, <2>4
<1>3. s \in Tab /\ s.retries = t.retries + 1 /\ s.written = t.written /\ s.open = t.open
      /\ s.read = t.read /\ s.returned = t.returned /\ s.result = t.result
      /\ s.zmodem = t.zmodem /\ s.running = t.running /\ SameWork(t, s)
  <2>1. t.retries + 1 \in 0..MaxRetries + 1  BY <1>2
  <2> QED  BY <1>1, <2>1 DEF Tab, SameWork
<1>4. s.packet = t.packet /\ s.file = t.file  BY <1>3 DEF SameWork
<1>5. u = IF TooMany(t.retries + 1) THEN FinishXmodem(s, "failed") ELSE Writes(s, s.packet)
  BY DEF NakByte, Resends
<1> HIDE DEF s, u
<1>6. CASE TooMany(t.retries + 1)
  <2>1. u = FinishXmodem(s, "failed")  BY <1>5, <1>6
  <2>2. /\ u \in Tab /\ Resting(u) /\ Kept(s, u) /\ AllNumbered(u.written)
        /\ u.read = s.read /\ u.result = "failed" /\ u.returned = s.returned
        /\ Wrote(s, u, Item("can"))
    BY <1>1, <1>3, <2>1, FinishDoes
  <2> QED  BY <1>3, <1>4, <1>6, <2>2 DEF Kept, Wrote, u
<1>7. CASE ~TooMany(t.retries + 1)
  <2>1. u = Writes(s, t.packet)  BY <1>4, <1>5, <1>7
  <2>2. /\ u \in Tab /\ u = [s EXCEPT !.written = u.written]
        /\ u.written = IF s.open THEN Append(s.written, t.packet) ELSE s.written
    BY <1>1, <1>3, <2>1, WritesIs
  <2>3. AllNumbered(u.written)  BY <1>1, <1>3, <2>1, WritesNumbered
  <2>4. /\ u.retries = s.retries /\ u.open = s.open /\ u.read = s.read
        /\ u.returned = s.returned /\ u.result = s.result /\ u.zmodem = s.zmodem
        /\ u.running = s.running /\ u.file = s.file /\ SameWork(s, u)
    BY <1>3, <2>2 DEF Tab, SameWork
  <2>5. SameWork(t, u)  BY <1>3, <2>4 DEF SameWork
  <2>6. Sent(t) = t.packet  BY <1>1 DEF Sent
  <2>7. u.retries <= MaxRetries  BY <1>2, <1>3, <1>7, <2>4 DEF TooMany
  <2> QED  BY <1>3, <1>4, <1>7, <2>2, <2>3, <2>4, <2>5, <2>6, <2>7 DEF Kept, Wrote, u
<1> QED  BY <1>6, <1>7

LEMMA EotDoes ==
  ASSUME NEW t, Sender(t), Ending(t)
  PROVE  LET u == EotByte(t, "ack")
         IN  /\ u \in Tab /\ Kept(t, u) /\ AllNumbered(u.written)
             /\ u.read = t.read /\ u.returned = t.returned
             /\ t.ymodem => /\ SendingLast(u) /\ u.retries = 0 /\ u.result = t.result
                            /\ u.crc = t.crc /\ u.ymodem /\ Wrote(t, u, Sent(u))
             /\ ~t.ymodem => Resting(u) /\ u.result = "complete" /\ u.written = t.written
<1> DEFINE u == EotByte(t, "ack")
<1>1. t \in Tab /\ AllNumbered(t.written) /\ t.crc \in BOOLEAN  BY ModeFields DEF Tab
<1>2. ~t.finalHeader /\ t.file /\ ~t.headerPending  BY DEF Ending
<1>3. CASE t.ymodem
  <2> DEFINE s == [t EXCEPT !.waitingEotAck = FALSE, !.finalHeader = TRUE]
             p == Packet(LastHeader, 0, t.crc)
  <2>1. u = SendsPacket(s, p)  BY <1>2, <1>3 DEF EotByte
  <2>2. p \in Items({"none", "packet"}) /\ p \in Written /\ Numbered(p)
    <3>1. 0 % BlockNumbers = 0  BY SmallNumber, SerialAssumption
    <3>2. LastHeader \in Int /\ 0 \in Int  BY DEF LastHeader
    <3> QED  BY <1>1, <3>1, <3>2, PacketIs DEF Numbered
  <2>3. /\ s \in Tab /\ s.written = t.written /\ s.open = t.open /\ s.file = t.file
        /\ s.ymodem = t.ymodem /\ s.read = t.read /\ s.block = t.block /\ s.crc = t.crc
        /\ ~s.waitingEotAck /\ s.headerPending = t.headerPending
        /\ s.finalHeader /\ s.zmodem = t.zmodem /\ s.running = t.running
        /\ s.result = t.result /\ s.returned = t.returned
    BY <1>1 DEF Tab
  <2> HIDE DEF p, u, s
  <2>4. /\ u \in Tab /\ AllNumbered(u.written) /\ Wrote(s, u, p)
        /\ u.packet = p /\ u.retries = 0
        /\ u.open = s.open /\ u.file = s.file /\ u.ymodem = s.ymodem /\ u.read = s.read
        /\ u.block = s.block /\ u.crc = s.crc /\ u.waitingEotAck = s.waitingEotAck
        /\ u.headerPending = s.headerPending /\ u.finalHeader = s.finalHeader
        /\ u.zmodem = s.zmodem /\ u.running = s.running /\ u.result = s.result
        /\ u.returned = s.returned
    BY <1>1, <2>1, <2>2, <2>3, SendsPacketDoes
  <2>5. Sent(u) = p  BY <2>3, <2>4 DEF Sent
  <2>6. ~Disturbed => u.read = world.size  BY <2>3, <2>4 DEF Ending
  <2>7. SendingLast(u)  BY <1>2, <1>3, <2>3, <2>4, <2>6 DEF SendingLast, p
  <2> QED  BY <1>2, <1>3, <2>3, <2>4, <2>5, <2>7 DEF Kept, Wrote, u
<1>4. CASE ~t.ymodem
  <2>1. u = FinishXmodem(t, "complete")  BY <1>4 DEF EotByte
  <2> HIDE DEF u
  <2>2. /\ u \in Tab /\ Resting(u) /\ Kept(t, u) /\ AllNumbered(u.written)
        /\ u.read = t.read /\ u.result = "complete" /\ u.returned = t.returned
        /\ u.written = t.written
    BY <1>1, <2>1, FinishDoes
  <2> QED  BY <1>4, <2>2 DEF u
<1> QED  BY <1>3, <1>4

(* Whatever the byte, the sender stays one.                                   *)
LEMMA RestsSound ==
  ASSUME NEW t, Sender(t), NEW u, u \in Tab, Resting(u), AllNumbered(u.written), u.read = t.read
  PROVE  Sender(u)
BY DEF Sender, Resting, AllNumbered

LEMMA KeptKept ==
  ASSUME NEW t, NEW s, NEW u, Kept(t, s), Kept(s, u)
  PROVE  Kept(t, u)
BY DEF Kept

LEMMA CancelDoes ==
  ASSUME NEW t, Sender(t), ~t.returned
  PROVE  LET u == HandleByte(t, "can")
         IN  /\ u \in Tab /\ Resting(u) /\ Kept(t, u) /\ AllNumbered(u.written)
             /\ u.read = t.read /\ u.result = "cancelled" /\ u.returned
<1> DEFINE f == FinishXmodem(t, "cancelled")
           u == HandleByte(t, "can")
<1>1. t \in Tab /\ AllNumbered(t.written)  BY ModeFields
<1>2. /\ f \in Tab /\ Resting(f) /\ Kept(t, f) /\ AllNumbered(f.written)
      /\ f.read = t.read /\ f.result = "cancelled"
  BY <1>1, FinishDoes
<1>3. u = [f EXCEPT !.returned = TRUE]  BY DEF HandleByte
<1> HIDE DEF f, u
<1>4. /\ u \in Tab /\ u.returned /\ u.open = f.open /\ u.file = f.file
      /\ u.zmodem = f.zmodem /\ u.running = f.running /\ u.read = f.read
      /\ u.result = f.result /\ u.written = f.written /\ SameWork(f, u)
  BY <1>2, <1>3 DEF Tab, SameWork
<1>5. Resting(u)  BY <1>2, <1>4, SameModes
<1> QED  BY <1>2, <1>4, <1>5 DEF Kept, u

LEMMA RestingByte ==
  ASSUME NEW t, Sender(t), Resting(t), ~t.returned, NEW byte \in Bytes, byte # "can"
  PROVE  Sender(HandleByte(t, byte)) /\ Kept(t, HandleByte(t, byte))
<1> DEFINE u == HandleByte(t, byte)
           s == [t EXCEPT !.crc = byte = "C"]
<1>1. t \in Tab /\ AllNumbered(t.written) /\ ~t.file /\ t.packet = NoPacket /\ ~t.waitingEotAck
  BY ModeFields DEF Resting
<1>2. u = StartByte(t, byte)  BY <1>1 DEF HandleByte
<1>3. CASE byte \in {"C", "nak"}
  <2>1. s \in Tab /\ s.written = t.written /\ s.file = t.file /\ s.packet = t.packet
        /\ s.waitingEotAck = t.waitingEotAck /\ s.ymodem = t.ymodem
        /\ s.headerPending = t.headerPending /\ s.finalHeader = t.finalHeader
        /\ s.read = t.read /\ s.open = t.open /\ s.zmodem = t.zmodem /\ s.running = t.running
    BY <1>1 DEF Tab
  <2>2. u = SendXmodemPacket(s)  BY <1>2, <1>3 DEF StartByte
  <2> HIDE DEF s, u
  <2>3. u = s  BY <1>1, <2>1, <2>2 DEF SendXmodemPacket
  <2>4. Resting(s)  BY <2>1 DEF Resting
  <2>5. Sender(s)  BY <1>1, <2>1, <2>4, RestsSound
  <2> QED  BY <2>1, <2>3, <2>5 DEF Kept, u
<1>4. CASE byte \notin {"C", "nak"}
  <2>1. u = t  BY <1>2, <1>4 DEF StartByte
  <2> QED  BY <2>1 DEF Kept
<1> QED  BY <1>3, <1>4

LEMMA HandleByteKeeps ==
  ASSUME world \in World, NEW t, Sender(t), NEW byte \in Bytes
  PROVE  Sender(HandleByte(t, byte)) /\ Kept(t, HandleByte(t, byte))
<1> DEFINE u == HandleByte(t, byte)
<1>k. Kept(t, t)  BY DEF Kept
<1>1. CASE t.returned
  <2>1. u = t  BY <1>1 DEF HandleByte
  <2> QED  BY <1>k, <2>1
<1>2. CASE ~t.returned /\ byte = "can"
  BY <1>2, CancelDoes, RestsSound
<1>3. CASE ~t.returned /\ byte # "can" /\ Resting(t)
  BY <1>3, RestingByte
<1>4. CASE ~t.returned /\ byte # "can" /\ Awaiting(t)
  <2>1. t.packet = NoPacket /\ ~t.waitingEotAck  BY <1>4 DEF Awaiting
  <2>2. u = StartByte(t, byte)  BY <1>4, <2>1 DEF HandleByte
  <2>3. CASE byte \in {"C", "nak"}
    <3> DEFINE s == [t EXCEPT !.crc = byte = "C"]
    <3>1. u = SendXmodemPacket(s) /\ Unsent(s) /\ Kept(t, s)
      BY <1>4, <2>2, <2>3, StartDoes
    <3> HIDE DEF s, u
    <3>2. Goes(s, u)  BY <3>1, SendXmodemPacketDoes
    <3>3. Sender(u)  BY <3>1, <3>2, GoesOn
    <3>4. Kept(s, u)  BY <3>2 DEF Goes
    <3> QED  BY <3>1, <3>3, <3>4, KeptKept DEF u
  <2>4. CASE byte \notin {"C", "nak"}
    <3>1. u = t  BY <2>2, <2>4 DEF StartByte
    <3> QED  BY <1>k, <3>1
  <2> QED  BY <2>3, <2>4
<1>5. CASE ~t.returned /\ byte # "can" /\ Ending(t)
  <2>1. t.waitingEotAck  BY <1>5 DEF Ending
  <2>2. u = EotByte(t, byte)  BY <1>5, <2>1 DEF HandleByte
  <2>3. CASE byte = "ack"
    <3>1. u = EotByte(t, "ack")  BY <2>2, <2>3
    <3> HIDE DEF u
    <3>2. /\ u \in Tab /\ Kept(t, u) /\ AllNumbered(u.written) /\ u.read = t.read
          /\ (SendingLast(u) /\ u.retries = 0) \/ Resting(u)
      BY <1>5, <3>1, EotDoes
    <3>3. MaxRetries \in Nat \ {0}  BY SerialAssumption
    <3>4. ASSUME SendingLast(u), u.retries = 0 PROVE Sender(u)
      BY <3>2, <3>3, <3>4 DEF Sender, Sending, AllNumbered
    <3>5. Sender(u)  BY <3>2, <3>4, RestsSound
    <3> QED  BY <3>2, <3>5 DEF u
  <2>4. CASE byte # "ack"
    <3>1. u = t  BY <2>2, <2>4 DEF EotByte
    <3> QED  BY <1>k, <3>1
  <2> QED  BY <2>3, <2>4
<1>6. CASE ~t.returned /\ byte # "can" /\ Sending(t)
  <2>1. t.packet # NoPacket /\ ~t.waitingEotAck
    BY <1>6, ModeFields DEF Sending, SendingHeader, SendingData, SendingLast
  <2>2. CASE byte = "ack" /\ (SendingHeader(t) \/ SendingData(t))
    <3>1. u = AckByte(t)  BY <1>6, <2>1, <2>2 DEF HandleByte
    <3> HIDE DEF u
    <3>2. PICK s : u = SendXmodemPacket(s) /\ Unsent(s) /\ Kept(t, s)
      BY <2>2, <3>1, AckHeaderOrData
    <3>3. Goes(s, u)  BY <3>2, SendXmodemPacketDoes
    <3>4. Sender(u)  BY <3>2, <3>3, GoesOn
    <3>5. Kept(s, u)  BY <3>3 DEF Goes
    <3> QED  BY <3>2, <3>4, <3>5, KeptKept DEF u
  <2>3. CASE byte = "ack" /\ SendingLast(t)
    <3>1. u = AckByte(t)  BY <1>6, <2>1, <2>3 DEF HandleByte
    <3> HIDE DEF u
    <3>2. u \in Tab /\ Resting(u) /\ Kept(t, u) /\ AllNumbered(u.written) /\ u.read = t.read
      BY <2>3, <3>1, AckLast
    <3> QED  BY <3>2, RestsSound DEF u
  <2>4. CASE byte = "nak"
    <3>1. u = NakByte(t)  BY <1>6, <2>1, <2>4 DEF HandleByte
    <3> HIDE DEF u
    <3>2. /\ u \in Tab /\ Kept(t, u) /\ AllNumbered(u.written) /\ u.read = t.read
          /\ Resting(u) \/ (SameWork(t, u) /\ u.retries <= MaxRetries)
      BY <1>6, <3>1, NakDoes
    <3>3. ASSUME SameWork(t, u), u.retries <= MaxRetries PROVE Sender(u)
      <4>1. Sending(u)  BY <1>6, <3>3, SameModes
      <4>2. u.read <= world.size  BY <3>2 DEF Sender
      <4> QED  BY <3>2, <3>3, <4>1, <4>2 DEF Sender, AllNumbered
    <3> QED  BY <3>2, <3>3, RestsSound DEF u
  <2>5. CASE byte \notin {"ack", "nak"}
    <3>1. u = t  BY <1>6, <2>1, <2>5 DEF HandleByte
    <3> QED  BY <1>k, <3>1
  <2> QED  BY <1>6, <2>2, <2>3, <2>4, <2>5 DEF Sending
<1>7. Resting(t) \/ Awaiting(t) \/ Sending(t) \/ Ending(t)  BY DEF Sender
<1> QED  BY <1>1, <1>2, <1>3, <1>4, <1>5, <1>6, <1>7

-----------------------------------------------------------------------------
(* Induction over the numbers, for a set instead of a predicate: of the       *)
(* intervals that end at a number missed, one is the smallest.                *)
LEMMA Induction ==
  ASSUME NEW S, 0 \in S, \A n \in Nat : n \in S => n + 1 \in S
  PROVE  Nat \subseteq S
<1> DEFINE missed == {n \in Nat : n \notin S}
           tails == {1..n : n \in missed}
<1> SUFFICES ASSUME NEW k \in Nat, k \notin S PROVE FALSE
  OBVIOUS
<1>1. tails \subseteq FiniteSubsetsOf(Nat)
  <2> SUFFICES ASSUME NEW n \in missed PROVE 1..n \in FiniteSubsetsOf(Nat)
    OBVIOUS
  <2> QED  BY FS_Interval DEF FiniteSubsetsOf
<1>2. tails # {}  OBVIOUS
<1>3. PICK x \in tails : \A y \in tails : ~ (<<y, x>> \in StrictSubsetOrdering(Nat))
  <2>1. IsWellFoundedOn(StrictSubsetOrdering(Nat), FiniteSubsetsOf(Nat))
    BY FS_StrictSubsetOrderingWellFounded
  <2> HIDE DEF tails
  <2> QED  BY <1>1, <1>2, <2>1, WFMin
<1>4. PICK n \in missed : x = 1..n  OBVIOUS
<1>5. n # 0 /\ n - 1 \in Nat  BY <1>4
<1>6. 1..(n - 1) \in tails  BY <1>5
<1>7. <<1..(n - 1), 1..n>> \in StrictSubsetOrdering(Nat)
  <2> DEFINE a == 1..(n - 1)
             b == 1..n
  <2>1. a \in SUBSET Nat /\ b \in SUBSET Nat /\ a \subseteq b /\ n \in b /\ n \notin a
    BY <1>5
  <2> HIDE DEF a, b
  <2>2. <<a, b>> \in StrictSubsetOrdering(Nat)  BY <2>1 DEF StrictSubsetOrdering
  <2> QED  BY <2>2 DEF a, b
<1> QED  BY <1>3, <1>4, <1>6, <1>7

(* handleXmodemInput's loop over what has arrived.                            *)
Handled(g, t, data, n) ==
  g = [k \in 0..n |-> IF k = 0 THEN t ELSE HandleByte(g[k - 1], data[k])]

LEMMA HandledExists ==
  ASSUME NEW t, NEW data
  PROVE  \A n \in Nat : \E g : Handled(g, t, data, n)
<1> DEFINE S == {n \in Nat : \E g : Handled(g, t, data, n)}
<1>0. \A n, g : Handled(g, t, data, n) <=>
                g = [k \in 0..n |-> IF k = 0 THEN t ELSE HandleByte(g[k - 1], data[k])]
  BY DEF Handled
<1>1. 0 \in S
  <2> DEFINE none == [k \in 0..0 |-> t]
  <2>1. none = [k \in 0..0 |-> IF k = 0 THEN t ELSE HandleByte(none[k - 1], data[k])]
    OBVIOUS
  <2> HIDE DEF none
  <2> QED  BY <1>0, <2>1
<1>2. ASSUME NEW n \in Nat, n \in S PROVE n + 1 \in S
  <2>1. PICK g : g = [k \in 0..n |-> IF k = 0 THEN t ELSE HandleByte(g[k - 1], data[k])]
    BY <1>0, <1>2
  <2> DEFINE next == HandleByte(g[n], data[n + 1])
             more == [k \in 0..(n + 1) |-> IF k = n + 1 THEN next ELSE g[k]]
  <2>2. /\ \A k \in 0..n : more[k] = g[k]
        /\ more[n + 1] = next
        /\ more = [k \in 0..(n + 1) |-> more[k]]
    <3> HIDE DEF next
    <3> QED  OBVIOUS
  <2>3. \A k \in 0..n : g[k] = IF k = 0 THEN t ELSE HandleByte(g[k - 1], data[k])
    BY <2>1
  <2> HIDE DEF more
  <2>4. ASSUME NEW k \in 0..(n + 1)
        PROVE  more[k] = IF k = 0 THEN t ELSE HandleByte(more[k - 1], data[k])
    <3>1. CASE k = n + 1
      <4>1. k # 0 /\ k - 1 = n /\ n \in 0..n  BY <3>1
      <4> QED  BY <2>2, <3>1, <4>1
    <3>2. CASE k = 0  BY <2>2, <2>3, <3>2
    <3>3. CASE k # 0 /\ k # n + 1
      <4>1. k \in 0..n /\ k - 1 \in 0..n  BY <3>3
      <4> QED  BY <2>2, <2>3, <3>3, <4>1
    <3> QED  BY <3>1, <3>2, <3>3
  <2>5. more = [k \in 0..(n + 1) |-> IF k = 0 THEN t ELSE HandleByte(more[k - 1], data[k])]
    BY <2>2, <2>4
  <2>6. Handled(more, t, data, n + 1)  BY <1>0, <2>5
  <2>7. \E h : Handled(h, t, data, n + 1)  BY <2>6
  <2>8. n + 1 \in Nat  OBVIOUS
  <2> QED  BY <2>7, <2>8, Zenon
<1> HIDE DEF S
<1>3. Nat \subseteq S  BY <1>1, <1>2, Induction
<1> QED  BY <1>3 DEF S

LEMMA InputRuns ==
  ASSUME NEW t, NEW data \in Seq(Bytes)
  PROVE  \E g : /\ g[0] = t
                /\ \A k \in 1..Len(data) : g[k] = HandleByte(g[k - 1], data[k])
                /\ HandleXmodemInput(t, data) = [g[Len(data)] EXCEPT !.returned = FALSE]
<1> DEFINE g == CHOOSE h : Handled(h, t, data, Len(data))
<1>0. Len(data) \in Nat  OBVIOUS
<1>1. Handled(g, t, data, Len(data))  BY <1>0, HandledExists
<1>2. HandleXmodemInput(t, data) = [g[Len(data)] EXCEPT !.returned = FALSE]
  BY DEF HandleXmodemInput, Handled
<1> HIDE DEF g
<1>3. \A k \in 0..Len(data) : g[k] = IF k = 0 THEN t ELSE HandleByte(g[k - 1], data[k])
  BY <1>1 DEF Handled
<1>4. g[0] = t  BY <1>0, <1>3
<1>5. \A k \in 1..Len(data) : g[k] = HandleByte(g[k - 1], data[k])
  BY <1>0, <1>3
<1> QED  BY <1>2, <1>4, <1>5

Returned(u) == [u EXCEPT !.returned = FALSE]

LEMMA ReturnedIs ==
  ASSUME NEW u, u \in Tab
  PROVE  LET v == Returned(u)
         IN  /\ v \in Tab /\ ~v.returned /\ SameWork(u, v) /\ Kept(u, v)
             /\ v.written = u.written /\ v.result = u.result /\ v.retries = u.retries
<1> DEFINE v == Returned(u)
<1>1. v = [u EXCEPT !.returned = FALSE]  BY DEF Returned
<1> HIDE DEF v
<1> QED  BY <1>1 DEF Tab, SameWork, Kept, v

LEMMA ReturnedKeeps ==
  ASSUME NEW t, NEW u, Sender(u), Kept(t, u)
  PROVE  Sender(Returned(u)) /\ Kept(t, Returned(u)) /\ ~Returned(u).returned
<1> DEFINE v == Returned(u)
<1>1. u \in Tab  BY DEF Sender
<1>2. /\ v \in Tab /\ ~v.returned /\ SameWork(u, v) /\ Kept(u, v)
      /\ v.written = u.written /\ v.result = u.result /\ v.retries = u.retries
  BY <1>1, ReturnedIs
<1> HIDE DEF v
<1>3. Resting(v) \/ Awaiting(v) \/ Sending(v) \/ Ending(v)
  BY <1>2, SameModes DEF Sender
<1>4. v.read = u.read /\ v.file = u.file  BY <1>2 DEF SameWork
<1>5. Sender(v)  BY <1>2, <1>3, <1>4 DEF Sender
<1>6. Kept(t, v)  BY <1>2, KeptKept
<1> QED  BY <1>2, <1>5, <1>6 DEF v

(* However much has arrived, the sender stays one.                            *)
LEMMA InputKeeps ==
  ASSUME world \in World, NEW t, Sender(t), NEW data \in Seq(Bytes)
  PROVE  LET u == HandleXmodemInput(t, data)
         IN  Sender(u) /\ Kept(t, u) /\ ~u.returned
<1>1. PICK g : /\ g[0] = t
               /\ \A k \in 1..Len(data) : g[k] = HandleByte(g[k - 1], data[k])
               /\ HandleXmodemInput(t, data) = [g[Len(data)] EXCEPT !.returned = FALSE]
  BY InputRuns
<1> DEFINE S == {k \in Nat : k <= Len(data) => Sender(g[k]) /\ Kept(t, g[k])}
<1>0. Len(data) \in Nat  OBVIOUS
<1>2. 0 \in S  BY <1>1 DEF Kept
<1>3. ASSUME NEW k \in Nat, k \in S PROVE k + 1 \in S
  <2> SUFFICES ASSUME k + 1 <= Len(data) PROVE Sender(g[k + 1]) /\ Kept(t, g[k + 1])
    OBVIOUS
  <2>1. k + 1 \in 1..Len(data) /\ (k + 1) - 1 = k /\ k <= Len(data)  BY <1>0
  <2>2. Sender(g[k]) /\ Kept(t, g[k])  BY <1>3, <2>1
  <2>3. data[k + 1] \in Bytes  BY <2>1
  <2>4. g[k + 1] = HandleByte(g[k], data[k + 1])  BY <1>1, <2>1
  <2>5. Sender(g[k + 1]) /\ Kept(g[k], g[k + 1])  BY <2>2, <2>3, <2>4, HandleByteKeeps
  <2> QED  BY <2>2, <2>5, KeptKept
<1> HIDE DEF S
<1>4. Nat \subseteq S  BY <1>2, <1>3, Induction
<1>5. Sender(g[Len(data)]) /\ Kept(t, g[Len(data)])  BY <1>0, <1>4 DEF S
<1>6. HandleXmodemInput(t, data) = Returned(g[Len(data)])  BY <1>1 DEF Returned
<1> QED  BY <1>5, <1>6, ReturnedKeeps

LEMMA InputOfOne ==
  ASSUME NEW t, NEW byte \in Bytes, NEW data \in Seq(Bytes), Len(data) = 1, data[1] = byte
  PROVE  HandleXmodemInput(t, data) = Returned(HandleByte(t, byte))
<1>1. PICK g : /\ g[0] = t
               /\ \A k \in 1..Len(data) : g[k] = HandleByte(g[k - 1], data[k])
               /\ HandleXmodemInput(t, data) = [g[Len(data)] EXCEPT !.returned = FALSE]
  BY InputRuns
<1>2. 1 \in 1..Len(data) /\ 1 - 1 = 0  OBVIOUS
<1>3. g[1] = HandleByte(t, byte)  BY <1>1, <1>2
<1> QED  BY <1>1, <1>3 DEF Returned

-----------------------------------------------------------------------------
(* The steps of the tab.                                                      *)
Stays(t, u) ==
    /\ SameWork(t, u) /\ u.retries = t.retries /\ u.open = t.open
    /\ u.result = t.result /\ u.written = t.written

LEMMA StaysSound ==
  ASSUME NEW t, Sender(t), NEW u, u \in Tab, Stays(t, u)
  PROVE  Sender(u)
<1>1. SameWork(t, u)  BY DEF Stays
<1>2. Resting(u) \/ Awaiting(u) \/ Sending(u) \/ Ending(u)
  BY <1>1, SameModes DEF Sender
<1> QED  BY <1>2 DEF Sender, Stays, SameWork

LEMMA TimeoutDoes ==
  ASSUME NEW t, Sender(t), t.file
  PROVE  LET u == Timeout(t)
         IN  /\ u \in Tab /\ Kept(t, u) /\ AllNumbered(u.written)
             /\ u.read = t.read /\ u.returned = t.returned
             /\ TooMany(t.retries + 1) =>
                  /\ Resting(u) /\ Wrote(t, u, Item("can"))
                  /\ u.result = IF Awaiting(t) THEN "unheard" ELSE "timed out"
             /\ ~TooMany(t.retries + 1) =>
                  /\ SameWork(t, u) /\ u.retries = t.retries + 1 /\ u.retries <= MaxRetries
                  /\ u.result = t.result
                  /\ IF Awaiting(t) THEN u.written = t.written ELSE Wrote(t, u, Sent(t))
<1> DEFINE s == TimerCounts(t)
           u == Timeout(t)
<1>1. t \in Tab /\ AllNumbered(t.written)  BY ModeFields
<1>2. t.retries \in Nat /\ t.retries <= MaxRetries /\ MaxRetries \in Nat
  <2>1. t.retries <= MaxRetries  BY DEF Sender
  <2>2. MaxRetries \in Nat  BY SerialAssumption
  <2>3. t.retries \in 0..MaxRetries + 1  BY <1>1 DEF Tab
  <2> QED  BY <2>1, <2>2, <2>3
<1>3. s \in Tab /\ s.retries = t.retries + 1 /\ s.written = t.written /\ s.open = t.open
      /\ s.read = t.read /\ s.returned = t.returned /\ s.result = t.result
      /\ s.zmodem = t.zmodem /\ s.running = t.running /\ SameWork(t, s)
  <2>1. t.retries + 1 \in 0..MaxRetries + 1  BY <1>2
  <2> QED  BY <1>1, <2>1 DEF Tab, SameWork, TimerCounts
<1>4. s.packet = t.packet /\ s.file = t.file /\ s.waitingEotAck = t.waitingEotAck
  BY <1>3 DEF SameWork
<1> DEFINE said == IF Waits(s) THEN "unheard" ELSE "timed out"
<1>5. u = IF TooMany(s.retries) THEN FinishXmodem(s, said)
          ELSE IF s.waitingEotAck THEN Writes(s, Item("eot"))
          ELSE IF s.packet # NoPacket THEN Writes(s, s.packet) ELSE s
  BY DEF Timeout
<1>s. said = IF Awaiting(t) THEN "unheard" ELSE "timed out"
  <2>1. Waits(s) <=> Waits(t)  BY <1>4 DEF Waits
  <2>2. Waits(t) <=> Awaiting(t)  BY ModeFields DEF Waits, Awaiting
  <2> QED  BY <2>1, <2>2
<1>t. /\ said \in {"complete", "stopped", "cancelled", "unheard", "timed out", "failed"}
      /\ said # "complete"
  OBVIOUS
<1> HIDE DEF s, u, said
<1>6. CASE TooMany(t.retries + 1)
  <2>1. u = FinishXmodem(s, said)  BY <1>3, <1>5, <1>6
  <2>a. s \in Tab /\ AllNumbered(s.written)  BY <1>1, <1>3
  <2> DEFINE v == FinishXmodem(s, said)
  <2>b. /\ v \in Tab /\ Resting(v) /\ Kept(s, v) /\ AllNumbered(v.written)
        /\ v.read = s.read /\ v.result = said /\ v.returned = s.returned
        /\ Wrote(s, v, Item("can"))
    BY <1>t, <2>a, FinishDoes
  <2>2. /\ u \in Tab /\ Resting(u) /\ Kept(s, u) /\ AllNumbered(u.written)
        /\ u.read = s.read /\ u.result = said /\ u.returned = s.returned
        /\ Wrote(s, u, Item("can"))
    BY <2>1, <2>b
  <2> QED  BY <1>3, <1>4, <1>6, <1>s, <2>2 DEF Kept, Wrote, u
<1>7. CASE ~TooMany(t.retries + 1) /\ Awaiting(t)
  <2>1. t.packet = NoPacket /\ ~t.waitingEotAck  BY <1>7 DEF Awaiting
  <2>2. u = s  BY <1>3, <1>4, <1>5, <1>7, <2>1
  <2>3. s.retries <= MaxRetries  BY <1>2, <1>3, <1>7 DEF TooMany
  <2> QED  BY <1>1, <1>3, <1>4, <1>7, <2>2, <2>3 DEF Kept, u
<1>8. CASE ~TooMany(t.retries + 1) /\ ~Awaiting(t)
  <2>1. /\ Sent(t) \in Written /\ Numbered(Sent(t)) /\ u = Writes(s, Sent(t))
    <3>1. CASE t.waitingEotAck
      <4>1. Sent(t) = Item("eot")  BY <3>1 DEF Sent
      <4> QED  BY <1>3, <1>4, <1>5, <1>8, <3>1, <4>1, ItemsAre, OthersNumbered
    <3>2. CASE ~t.waitingEotAck
      <4>1. Sending(t)  BY <1>8, <3>2, ModeFields
      <4>2. t.packet \in Written /\ Numbered(t.packet) /\ t.packet # NoPacket
        BY <4>1, ModeFields
      <4>3. Sent(t) = t.packet  BY <3>2 DEF Sent
      <4> QED  BY <1>3, <1>4, <1>5, <1>8, <3>2, <4>2, <4>3
    <3> QED  BY <3>1, <3>2
  <2>2. /\ u \in Tab /\ u = [s EXCEPT !.written = u.written]
        /\ u.written = IF s.open THEN Append(s.written, Sent(t)) ELSE s.written
    BY <1>1, <1>3, <2>1, WritesIs
  <2>3. AllNumbered(u.written)  BY <1>1, <1>3, <2>1, WritesNumbered
  <2>4. /\ u.retries = s.retries /\ u.open = s.open /\ u.read = s.read
        /\ u.returned = s.returned /\ u.result = s.result /\ u.zmodem = s.zmodem
        /\ u.running = s.running /\ u.file = s.file /\ SameWork(s, u)
    BY <1>3, <2>2 DEF Tab, SameWork
  <2>5. SameWork(t, u)  BY <1>3, <2>4 DEF SameWork
  <2>7. u.retries <= MaxRetries  BY <1>2, <1>3, <1>8, <2>4 DEF TooMany
  <2> QED  BY <1>3, <1>4, <1>8, <2>2, <2>3, <2>4, <2>5, <2>7 DEF Kept, Wrote, u
<1> QED  BY <1>6, <1>7, <1>8

LEMMA FinishZmodemDoes ==
  ASSUME NEW t \in Tab
  PROVE  LET u == FinishZmodem(t)
         IN  /\ u \in Tab /\ u.zmodem = 0 /\ Stays(t, u) /\ u.returned = t.returned
<1> DEFINE u == FinishZmodem(t)
           v == [t EXCEPT !.zmodem = 0, !.running = @ \ {t.zmodem}]
<1>0. 0 \in 0..MaxTransfers  BY SerialAssumption
<1>1. v \in Tab /\ v.zmodem = 0 /\ Stays(t, v) /\ v.returned = t.returned
  <2>1. t.running \ {t.zmodem} \in SUBSET (1..MaxTransfers)  BY DEF Tab
  <2> QED  BY <1>0, <2>1 DEF Tab, Stays, SameWork
<1>2. u = IF t.zmodem = 0 THEN t ELSE v  BY DEF FinishZmodem
<1>3. Stays(t, t)  BY DEF Stays, SameWork
<1> HIDE DEF u, v
<1> QED  BY <1>1, <1>2, <1>3 DEF u

LEMMA CancelSerialDoes ==
  ASSUME NEW t, Sender(t)
  PROVE  LET u == CancelSerialFile(t)
         IN  /\ Sender(u) /\ u.open = t.open /\ u.returned = t.returned /\ u.zmodem = 0
             /\ \/ /\ t.zmodem = 0 /\ t.file /\ Resting(u) /\ u.result = "stopped"
                   /\ Wrote(t, u, Item("can"))
                \/ (t.zmodem # 0 \/ ~t.file) /\ Stays(t, u)
<1> DEFINE u == CancelSerialFile(t)
<1>1. t \in Tab /\ AllNumbered(t.written)  BY ModeFields
<1>2. CASE t.zmodem # 0
  <2>1. u = FinishZmodem(t)  BY <1>2 DEF CancelSerialFile
  <2> HIDE DEF u
  <2>2. u \in Tab /\ u.zmodem = 0 /\ Stays(t, u) /\ u.returned = t.returned
    BY <1>1, <2>1, FinishZmodemDoes
  <2>3. Sender(u)  BY <2>2, StaysSound
  <2> QED  BY <1>2, <2>2, <2>3 DEF Stays, u
<1>3. CASE t.zmodem = 0 /\ t.file
  <2>1. u = FinishXmodem(t, "stopped")  BY <1>3 DEF CancelSerialFile
  <2> HIDE DEF u
  <2>2. /\ u \in Tab /\ Resting(u) /\ Kept(t, u) /\ AllNumbered(u.written)
        /\ u.read = t.read /\ u.result = "stopped" /\ u.returned = t.returned
        /\ Wrote(t, u, Item("can"))
    BY <1>1, <2>1, FinishDoes
  <2>3. Sender(u)  BY <2>2, RestsSound
  <2> QED  BY <1>3, <2>2, <2>3 DEF Kept, u
<1>4. CASE t.zmodem = 0 /\ ~t.file
  <2>1. u = t  BY <1>4 DEF CancelSerialFile
  <2> QED  BY <1>4, <2>1 DEF Stays, SameWork
<1> QED  BY <1>2, <1>3, <1>4

LEMMA BeginsXmodemDoes ==
  ASSUME world \in World, NEW t, Sender(t), NEW ymodem \in BOOLEAN
  PROVE  LET u == BeginsXmodem(t, ymodem)
         IN  /\ Sender(u) /\ Awaiting(u) /\ u.ymodem = ymodem /\ u.retries = 0
             /\ u.result = "none" /\ u.written = t.written /\ u.open = t.open
             /\ u.zmodem = t.zmodem /\ u.returned = t.returned
<1> DEFINE u == BeginsXmodem(t, ymodem)
<1>1. t \in Tab /\ AllNumbered(t.written)  BY ModeFields
<1>2. 0 \in 0..MaxRetries + 1 /\ MaxRetries \in Nat  BY SerialAssumption
<1>3. u = [t EXCEPT !.file = TRUE, !.read = 0, !.packet = NoPacket, !.block = 1,
              !.retries = 0, !.crc = TRUE, !.waitingEotAck = FALSE,
              !.ymodem = ymodem, !.headerPending = ymodem, !.finalHeader = FALSE,
              !.result = "none"]
  BY DEF BeginsXmodem
<1> HIDE DEF u
<1>4. u \in Tab  BY <1>1, <1>2, <1>3, ItemsAre DEF Tab
<1>5. /\ u.file /\ u.read = 0 /\ u.packet = NoPacket /\ u.block = 1 /\ u.retries = 0
      /\ ~u.waitingEotAck /\ u.ymodem = ymodem /\ u.headerPending = ymodem /\ ~u.finalHeader
      /\ u.result = "none" /\ u.written = t.written /\ u.open = t.open
      /\ u.zmodem = t.zmodem /\ u.returned = t.returned
  BY <1>1, <1>3 DEF Tab
<1>6. Awaiting(u)  BY <1>5 DEF Awaiting
<1>7. 0 <= world.size  BY DEF World
<1>8. Sender(u)  BY <1>1, <1>2, <1>4, <1>5, <1>6, <1>7 DEF Sender, AllNumbered
<1> QED  BY <1>5, <1>6, <1>8 DEF u

LEMMA BeginsZmodemDoes ==
  ASSUME NEW t, Sender(t), NEW p \in 1..MaxTransfers
  PROVE  LET u == BeginsZmodem(t, p)
         IN  Sender(u) /\ Stays(t, u) /\ u.zmodem = p /\ u.returned = t.returned
<1> DEFINE u == BeginsZmodem(t, p)
<1>1. t \in Tab /\ AllNumbered(t.written)  BY ModeFields
<1>2. p \in 0..MaxTransfers  BY SerialAssumption
<1>3. u = [t EXCEPT !.zmodem = p, !.running = @ \union {p}]  BY DEF BeginsZmodem
<1> HIDE DEF u
<1>4. u \in Tab
  <2>1. t.running \union {p} \in SUBSET (1..MaxTransfers)  BY <1>1 DEF Tab
  <2> QED  BY <1>1, <1>2, <1>3, <2>1 DEF Tab
<1>5. Stays(t, u) /\ u.zmodem = p /\ u.returned = t.returned
  BY <1>1, <1>3 DEF Tab, Stays, SameWork
<1> QED  BY <1>4, <1>5, StaysSound DEF u

LEMMA WritesDoes ==
  ASSUME NEW t, Sender(t), NEW item \in Written, Numbered(item)
  PROVE  LET u == Writes(t, item)
         IN  /\ Sender(u) /\ SameWork(t, u) /\ u.retries = t.retries /\ u.open = t.open
             /\ u.result = t.result /\ u.returned = t.returned /\ u.zmodem = t.zmodem
             /\ Wrote(t, u, item)
<1> DEFINE u == Writes(t, item)
<1>1. t \in Tab /\ AllNumbered(t.written)  BY ModeFields
<1>2. u \in Tab /\ u = [t EXCEPT !.written = u.written] /\ Wrote(t, u, item)
  BY <1>1, WritesIs DEF Wrote
<1>3. AllNumbered(u.written)  BY <1>1, WritesNumbered
<1> HIDE DEF u
<1>4. /\ SameWork(t, u) /\ u.retries = t.retries /\ u.open = t.open
      /\ u.result = t.result /\ u.returned = t.returned /\ u.zmodem = t.zmodem
  BY <1>1, <1>2 DEF Tab, SameWork
<1>5. Resting(u) \/ Awaiting(u) \/ Sending(u) \/ Ending(u)
  BY <1>4, SameModes DEF Sender
<1>6. Sender(u)  BY <1>2, <1>3, <1>4, <1>5 DEF Sender, AllNumbered, SameWork
<1> QED  BY <1>2, <1>4, <1>6 DEF u

-----------------------------------------------------------------------------
(* The first part of the invariant: types, the state of the sender, and the   *)
(* numbers of what is on the line.                                            *)
Device == [phase : {"shell", "start", "data", "final", "over"}, ymodem : BOOLEAN,
           crc : BOOLEAN, expects : 0..BlockNumbers - 1, header : BOOLEAN, stored : Seq(Int)]

TabInv(t) ==
    /\ Sender(t) /\ t.written = <<>> /\ ~t.returned
    /\ t.file /\ ~Disturbed => t.open
    /\ t.zmodem <= world.transfers
    /\ t.file /\ t.zmodem # 0 => Disturbed

LineInv(l) == l \in Seq(Written) /\ AllNumbered(l)

Typed ==
    /\ world \in World /\ device \in Device
    /\ TabInv(tab) /\ LineInv(line) /\ answers \in Seq(Bytes)

(* The file stays, and what has once interfered with it counts for good.      *)
WorldGoesOn ==
    /\ world' \in World /\ world'.size = world.size
    /\ Disturbed => Disturbed'
    /\ world.transfers <= world'.transfers
    /\ world.overtaken => world'.overtaken

LEMMA SenderLater ==
  ASSUME WorldGoesOn, Sender(tab')
  PROVE  Sender(tab)'
<1>1. world'.size = world.size /\ (Disturbed => Disturbed')  BY DEF WorldGoesOn
<1>2. /\ Resting(tab') => Resting(tab)'
      /\ Awaiting(tab') => Awaiting(tab)'
  BY DEF Resting, Awaiting
<1>3. /\ SendingHeader(tab') => SendingHeader(tab)'
      /\ SendingData(tab') => SendingData(tab)'
  BY <1>1 DEF SendingHeader, SendingData
<1>4. /\ SendingLast(tab') => SendingLast(tab)'
      /\ Ending(tab') => Ending(tab)'
  BY <1>1 DEF SendingLast, Ending
<1>5. (Resting(tab) \/ Awaiting(tab) \/ Sending(tab) \/ Ending(tab))'
  BY <1>2, <1>3, <1>4 DEF Sender, Sending
<1>6. AllNumbered(tab'.written) => AllNumbered(tab.written)'
  BY <1>1 DEF AllNumbered, Numbered
<1>7. AllNumbered(tab.written)'  BY <1>6 DEF Sender, AllNumbered
<1>8. tab' \in Tab /\ (tab'.file => tab'.retries <= MaxRetries) /\ tab'.read <= world'.size
  BY <1>1 DEF Sender
<1> QED  BY <1>5, <1>7, <1>8 DEF Sender, AllNumbered

LEMMA TabLater ==
  ASSUME world \in World, WorldGoesOn, TabInv(tab')
  PROVE  TabInv(tab)'
<1>1. Sender(tab)'  BY SenderLater DEF TabInv
<1>2. tab'.zmodem <= world'.transfers
  <2>0. MaxTransfers \in Int  BY SerialAssumption
  <2>1. tab'.zmodem \in Int
    <3>1. tab' \in Tab  BY DEF TabInv, Sender
    <3>2. \A t \in Tab : t.zmodem \in 0..MaxTransfers  BY DEF Tab
    <3>3. tab'.zmodem \in 0..MaxTransfers  BY <3>1, <3>2
    <3> QED  BY <2>0, <3>3
  <2>2. world.transfers \in Int /\ world'.transfers \in Int  BY <2>0 DEF World, WorldGoesOn
  <2>3. tab'.zmodem <= world.transfers /\ world.transfers <= world'.transfers
    BY DEF TabInv, WorldGoesOn
  <2> QED  BY <2>1, <2>2, <2>3
<1>3. Disturbed => Disturbed'  BY DEF WorldGoesOn
<1>4. /\ tab'.written = <<>> /\ ~tab'.returned /\ (tab'.file /\ ~Disturbed => tab'.open)
      /\ (tab'.file /\ tab'.zmodem # 0 => Disturbed)
  BY DEF TabInv
<1> QED  BY <1>1, <1>2, <1>3, <1>4 DEF TabInv

LEMMA LineLater ==
  ASSUME WorldGoesOn, LineInv(line')
  PROVE  LineInv(line)'
<1>1. world'.size = world.size  BY DEF WorldGoesOn
<1>2. AllNumbered(line') => AllNumbered(line)'  BY <1>1 DEF AllNumbered, Numbered
<1> QED  BY <1>2 DEF LineInv

(* What a handler leaves.                                                     *)
LEMMA Concatenation ==
  ASSUME NEW s \in Seq(Written), NEW t \in Seq(Written), AllNumbered(s), AllNumbered(t)
  PROVE  s \o t \in Seq(Written) /\ AllNumbered(s \o t)
<1>1. Len(s \o t) = Len(s) + Len(t)  OBVIOUS
<1>2. ASSUME NEW i \in 1..Len(s \o t) PROVE Numbered((s \o t)[i])
  <2>1. CASE i <= Len(s)
    <3>1. (s \o t)[i] = s[i] /\ i \in 1..Len(s)  BY <2>1
    <3> QED  BY <3>1 DEF AllNumbered
  <2>2. CASE i > Len(s)
    <3>1. (s \o t)[i] = t[i - Len(s)] /\ i - Len(s) \in 1..Len(t)  BY <1>1, <2>2
    <3> QED  BY <3>1 DEF AllNumbered
  <2> QED  BY <2>1, <2>2
<1> QED  BY <1>2 DEF AllNumbered

LEMMA LeavesDoes ==
  ASSUME NEW t, Sender(t), ~t.returned, LineInv(line), Leaves(t)
  PROVE  /\ Sender(tab') /\ tab'.written = <<>> /\ ~tab'.returned
         /\ SameWork(t, tab') /\ tab'.retries = t.retries /\ tab'.open = t.open
         /\ tab'.result = t.result /\ tab'.zmodem = t.zmodem
         /\ LineInv(line') /\ line' = line \o t.written
<1>1. t \in Tab /\ AllNumbered(t.written)  BY ModeFields
<1>2. tab' = [t EXCEPT !.written = <<>>] /\ line' = line \o t.written  BY DEF Leaves
<1>3. t.written \in Seq(Written)  BY <1>1 DEF Tab, Written
<1>4. LineInv(line')  BY <1>1, <1>2, <1>3, Concatenation DEF LineInv
<1>5. <<>> \in Seq(Written)  OBVIOUS
<1>6. /\ tab' \in Tab /\ tab'.written = <<>> /\ tab'.returned = t.returned
      /\ SameWork(t, tab') /\ tab'.retries = t.retries /\ tab'.open = t.open
      /\ tab'.result = t.result /\ tab'.zmodem = t.zmodem
  BY <1>1, <1>2, <1>5 DEF Tab, SameWork, Written
<1>7. Resting(tab') \/ Awaiting(tab') \/ Sending(tab') \/ Ending(tab')
  BY <1>6, SameModes DEF Sender
<1>8. AllNumbered(<<>>)  BY DEF AllNumbered
<1>9. Sender(tab')  BY <1>6, <1>7, <1>8 DEF Sender, SameWork, AllNumbered
<1> QED  BY <1>2, <1>4, <1>6, <1>9

LEMMA NothingChanges ==
  ASSUME Typed, UNCHANGED world
  PROVE  WorldGoesOn
<1>1. world.transfers \in Int  BY DEF Typed, World
<1> QED  BY <1>1 DEF Typed, WorldGoesOn, Disturbed

LEMMA TypedLater ==
  ASSUME world \in World, WorldGoesOn, device' \in Device, TabInv(tab'), LineInv(line'),
         answers' \in Seq(Bytes)
  PROVE  Typed'
<1>1. TabInv(tab)' /\ LineInv(line)'  BY TabLater, LineLater
<1>2. world' \in World  BY DEF WorldGoesOn
<1> QED  BY <1>1, <1>2 DEF Typed

LEMMA LeavesKept ==
  ASSUME Typed, NEW u, Sender(u), Kept(tab, u), ~u.returned, Leaves(u)
  PROVE  TabInv(tab') /\ LineInv(line')
<1>1. /\ Sender(tab') /\ tab'.written = <<>> /\ ~tab'.returned
      /\ SameWork(u, tab') /\ tab'.open = u.open /\ tab'.zmodem = u.zmodem
      /\ LineInv(line')
  BY LeavesDoes DEF Typed
<1> QED  BY <1>1 DEF Typed, TabInv, Kept, SameWork

LEMMA TimeoutSound ==
  ASSUME NEW t, Sender(t), t.file
  PROVE  Sender(Timeout(t)) /\ Kept(t, Timeout(t)) /\ Timeout(t).returned = t.returned
<1> DEFINE u == Timeout(t)
<1>1. /\ u \in Tab /\ Kept(t, u) /\ AllNumbered(u.written)
      /\ u.read = t.read /\ u.returned = t.returned
      /\ Resting(u) \/ (SameWork(t, u) /\ u.retries <= MaxRetries)
  BY TimeoutDoes
<1> HIDE DEF u
<1>2. ASSUME SameWork(t, u), u.retries <= MaxRetries PROVE Sender(u)
  <2>1. Resting(u) \/ Awaiting(u) \/ Sending(u) \/ Ending(u)
    BY <1>2, SameModes DEF Sender
  <2>2. u.read <= world.size  BY <1>1 DEF Sender
  <2> QED  BY <1>1, <1>2, <2>1, <2>2 DEF Sender, AllNumbered
<1>3. Sender(u)  BY <1>1, <1>2, RestsSound
<1> QED  BY <1>1, <1>3 DEF u

LEMMA TypedOnTimeout ==
  ASSUME Typed, OnTimeout
  PROVE  Typed' /\ WorldGoesOn
<1>1. /\ tab.file /\ Leaves(Timeout(tab)) /\ UNCHANGED <<answers, device>>
      /\ world' = [world EXCEPT !.overtaken = @ \/ InFlight]
  BY DEF OnTimeout
<1>2. WorldGoesOn
  <2>1. world.transfers \in Int  BY SerialAssumption DEF Typed, World
  <2>2. world \in World /\ InFlight \in BOOLEAN  BY DEF Typed, InFlight
  <2> DEFINE o == world.overtaken \/ InFlight
  <2>3. o \in BOOLEAN /\ world' = [world EXCEPT !.overtaken = o]  BY <1>1
  <2>4. world.overtaken => o  BY <2>2
  <2> HIDE DEF o
  <2>5. /\ world' \in World /\ world'.size = world.size /\ world'.disturbed = world.disturbed
        /\ world'.transfers = world.transfers
        /\ world'.overtaken = o
    BY <2>2, <2>3 DEF World
  <2> QED  BY <2>1, <2>4, <2>5 DEF WorldGoesOn, Disturbed
<1>3. Sender(tab) /\ ~tab.returned  BY DEF Typed, TabInv
<1>4. TabInv(tab') /\ LineInv(line')  BY <1>1, <1>3, TimeoutSound, LeavesKept
<1> QED  BY <1>1, <1>2, <1>4, TypedLater DEF Typed

LEMMA CutAnswers ==
  ASSUME answers \in Seq(Bytes), NEW k \in 1..Len(answers)
  PROVE  /\ SubSeq(answers, 1, k) \in Seq(Bytes)
         /\ SubSeq(answers, k + 1, Len(answers)) \in Seq(Bytes)
OBVIOUS

LEMMA TypedReadyRead ==
  ASSUME Typed, ReadyRead
  PROVE  Typed' /\ WorldGoesOn
<1>1. PICK k \in 1..Len(answers) :
        /\ answers' = SubSeq(answers, k + 1, Len(answers))
        /\ Leaves(IF tab.zmodem = 0 /\ tab.file
                  THEN HandleXmodemInput(tab, SubSeq(answers, 1, k)) ELSE tab)
  BY DEF ReadyRead
<1>2. UNCHANGED <<device, world>>  BY DEF ReadyRead
<1>3. Sender(tab) /\ ~tab.returned /\ Kept(tab, tab) /\ answers \in Seq(Bytes) /\ world \in World
  BY DEF Typed, TabInv, Kept
<1>4. SubSeq(answers, 1, k) \in Seq(Bytes) /\ answers' \in Seq(Bytes)
  BY <1>1, <1>3, CutAnswers
<1>5. TabInv(tab') /\ LineInv(line')
  <2>1. CASE tab.zmodem = 0 /\ tab.file
    <3> DEFINE u == HandleXmodemInput(tab, SubSeq(answers, 1, k))
    <3>1. Sender(u) /\ Kept(tab, u) /\ ~u.returned  BY <1>3, <1>4, InputKeeps
    <3>2. Leaves(u)  BY <1>1, <2>1
    <3> HIDE DEF u
    <3> QED  BY <3>1, <3>2, LeavesKept
  <2>2. CASE ~(tab.zmodem = 0 /\ tab.file)
    <3>1. Leaves(tab)  BY <1>1, <2>2
    <3> QED  BY <1>3, <3>1, LeavesKept
  <2> QED  BY <2>1, <2>2
<1>6. WorldGoesOn  BY <1>2, NothingChanges
<1> QED  BY <1>2, <1>4, <1>5, <1>6, TypedLater DEF Typed

LEMMA TypedMenuCancels ==
  ASSUME Typed, MenuCancels
  PROVE  Typed' /\ WorldGoesOn
<1>1. Leaves(CancelSerialFile(tab)) /\ UNCHANGED <<answers, device, world>>
  BY DEF MenuCancels
<1>2. Sender(tab) /\ ~tab.returned  BY DEF Typed, TabInv
<1> DEFINE u == CancelSerialFile(tab)
<1>3. /\ Sender(u) /\ u.open = tab.open /\ u.returned = tab.returned /\ u.zmodem = 0
      /\ Resting(u) \/ Stays(tab, u)
  BY <1>2, CancelSerialDoes
<1> HIDE DEF u
<1>4. /\ Sender(tab') /\ tab'.written = <<>> /\ ~tab'.returned
      /\ SameWork(u, tab') /\ tab'.open = u.open /\ tab'.zmodem = u.zmodem
      /\ LineInv(line')
  BY <1>1, <1>2, <1>3, LeavesDoes DEF Typed, u
<1>5. tab'.file => tab.file  BY <1>3, <1>4 DEF Stays, SameWork, Resting
<1>6. 0 <= world.transfers  BY SerialAssumption DEF Typed, World
<1>7. TabInv(tab')  BY <1>3, <1>4, <1>5, <1>6 DEF TabInv, Typed
<1>8. WorldGoesOn  BY <1>1, NothingChanges
<1> QED  BY <1>1, <1>4, <1>7, <1>8, TypedLater DEF Typed

LEMMA TypedSendSerialFile ==
  ASSUME Typed, SendSerialFile
  PROVE  Typed' /\ WorldGoesOn
<1>1. /\ ~tab.file /\ tab.open /\ world.transfers < MaxTransfers
      /\ world' = [world EXCEPT !.transfers = @ + 1,
                              !.overtaken = @ \/ InFlight,
                              !.awaited = tab'.file /\ device.phase = "start" /\ ~InFlight,
                              !.disturbed = IF OffersCancel(tab) THEN "beside" ELSE @]
      /\ UNCHANGED <<answers, device>>
  BY DEF SendSerialFile, CancelsByMenu
<1>2. /\ Sender(tab) /\ ~tab.returned /\ LineInv(line) /\ world \in World
      /\ tab.zmodem <= world.transfers
  BY DEF Typed, TabInv
<1>3. world.transfers \in 0..MaxTransfers /\ MaxTransfers \in Nat
  BY <1>2, SerialAssumption DEF World
<1>4. world.transfers + 1 \in 1..MaxTransfers  BY <1>1, <1>3
<1>5. /\ Sender(tab') /\ tab'.written = <<>> /\ ~tab'.returned /\ tab'.open
      /\ LineInv(line')
      /\ \/ tab'.zmodem = tab.zmodem
         \/ tab'.zmodem = world.transfers + 1 /\ ~tab'.file
  <2>1. CASE \E ymodem \in BOOLEAN : Leaves(BeginsXmodem(tab, ymodem))
    <3>1. PICK ymodem \in BOOLEAN : Leaves(BeginsXmodem(tab, ymodem))  BY <2>1
    <3> DEFINE u == BeginsXmodem(tab, ymodem)
    <3>2. Sender(u) /\ u.open = tab.open /\ u.zmodem = tab.zmodem /\ u.returned = tab.returned
      BY <1>2, BeginsXmodemDoes
    <3> HIDE DEF u
    <3>3. Leaves(u)  BY <3>1 DEF u
    <3> QED  BY <1>1, <1>2, <3>2, <3>3, LeavesDoes
  <2>2. CASE Leaves(BeginsZmodem(tab, world.transfers + 1))
    <3> DEFINE u == BeginsZmodem(tab, world.transfers + 1)
    <3>1. Sender(u) /\ Stays(tab, u) /\ u.zmodem = world.transfers + 1 /\ u.returned = tab.returned
      BY <1>2, <1>4, BeginsZmodemDoes
    <3> HIDE DEF u
    <3>2. Leaves(u)  BY <2>2 DEF u
    <3>3. u.open = tab.open /\ u.file = tab.file  BY <3>1 DEF Stays, SameWork
    <3>4. /\ Sender(tab') /\ tab'.written = <<>> /\ ~tab'.returned
          /\ SameWork(u, tab') /\ tab'.open = u.open /\ tab'.zmodem = u.zmodem
          /\ LineInv(line')
      BY <1>2, <3>1, <3>2, LeavesDoes
    <3> QED  BY <1>1, <3>1, <3>3, <3>4 DEF SameWork
  <2> QED  BY <2>1, <2>2 DEF SendSerialFile
<1>6. WorldGoesOn
  <2> DEFINE d == IF OffersCancel(tab) THEN "beside" ELSE world.disturbed
             a == tab'.file /\ device.phase = "start" /\ ~InFlight
  <2>1. d \in {"no", "typed", "beside", "unreadable"} /\ (d = "no" => world.disturbed = "no")
    BY <1>2 DEF World
  <2>2. a \in BOOLEAN
    <3>1. tab' \in Tab  BY <1>5 DEF Sender
    <3>2. \A t \in Tab : t.file \in BOOLEAN  BY DEF Tab
    <3> QED  BY <3>1, <3>2
  <2>3. world' = [world EXCEPT !.transfers = world.transfers + 1,
                               !.overtaken = world.overtaken \/ InFlight,
                               !.awaited = a, !.disturbed = d]
    BY <1>1
  <2>4. world.transfers + 1 \in 0..MaxTransfers /\ world.transfers <= world.transfers + 1
    BY <1>3, <1>4
  <2>5. InFlight \in BOOLEAN /\ world.overtaken \in BOOLEAN  BY <1>2 DEF World, InFlight
  <2> HIDE DEF a, d
  <2>6. /\ world' \in World /\ world'.size = world.size /\ world'.disturbed = d
        /\ world'.transfers = world.transfers + 1
        /\ world'.overtaken = (world.overtaken \/ InFlight)
    BY <1>2, <2>1, <2>2, <2>3, <2>4, <2>5 DEF World
  <2> QED  BY <2>1, <2>4, <2>6 DEF WorldGoesOn, Disturbed
<1>7. Typed'
  <2>1. TabInv(tab)'
    <3>1. Sender(tab)'  BY <1>5, <1>6, SenderLater
    <3>2. world'.transfers = world.transfers + 1
      BY <1>1, <1>2 DEF World
    <3>3. tab'.zmodem <= world'.transfers
      <4>1. tab.zmodem \in 0..MaxTransfers  BY <1>2 DEF Sender, Tab
      <4> QED  BY <1>2, <1>3, <1>5, <3>2, <4>1
    <3>4. tab'.file /\ tab'.zmodem # 0 => Disturbed'
      <4> SUFFICES ASSUME tab'.file, tab'.zmodem # 0 PROVE Disturbed'
        OBVIOUS
      <4>1. OffersCancel(tab)  BY <1>5 DEF OffersCancel
      <4> QED  BY <1>1, <1>2, <4>1 DEF Disturbed, World
    <3> QED  BY <1>5, <3>1, <3>3, <3>4 DEF TabInv
  <2>2. LineInv(line)'  BY <1>5, <1>6, LineLater
  <2> QED  BY <1>1, <1>6, <2>1, <2>2 DEF Typed, WorldGoesOn
<1> QED  BY <1>6, <1>7

LEMMA TypedTypesControlD ==
  ASSUME Typed, TypesControlD
  PROVE  Typed' /\ WorldGoesOn
<1>1. /\ tab.file /\ Leaves(Writes(tab, Item("eot"))) /\ UNCHANGED <<answers, device>>
      /\ world' = [world EXCEPT !.disturbed = "typed"]
  BY DEF TypesControlD
<1>2. Sender(tab) /\ ~tab.returned /\ world \in World  BY DEF Typed, TabInv
<1>3. WorldGoesOn
  <2>1. world.transfers \in Int  BY <1>2, SerialAssumption DEF World
  <2>2. /\ world' \in World /\ world'.size = world.size /\ world'.disturbed = "typed"
        /\ world'.transfers = world.transfers
        /\ world'.overtaken = world.overtaken
    BY <1>1, <1>2 DEF World
  <2> QED  BY <2>1, <2>2 DEF WorldGoesOn, Disturbed
<1> DEFINE u == Writes(tab, Item("eot"))
<1>4. /\ Sender(u) /\ SameWork(tab, u) /\ u.open = tab.open
      /\ u.returned = tab.returned /\ u.zmodem = tab.zmodem
  BY <1>2, WritesDoes, ItemsAre, OthersNumbered
<1> HIDE DEF u
<1>5. /\ Sender(tab') /\ tab'.written = <<>> /\ ~tab'.returned
      /\ SameWork(u, tab') /\ tab'.open = u.open /\ tab'.zmodem = u.zmodem
      /\ LineInv(line')
  BY <1>1, <1>2, <1>4, LeavesDoes DEF Typed, u
<1>6. TabInv(tab')  BY <1>4, <1>5 DEF TabInv, Typed, SameWork
<1> QED  BY <1>1, <1>2, <1>3, <1>5, <1>6, TypedLater DEF Typed

LEMMA EndsDoes ==
  ASSUME NEW t, Sender(t), NEW p
  PROVE  LET u == [FinishZmodem(t) EXCEPT !.running = @ \ {p}]
         IN  Sender(u) /\ Stays(t, u) /\ u.zmodem = 0 /\ u.returned = t.returned
<1> DEFINE f == FinishZmodem(t)
           u == [f EXCEPT !.running = @ \ {p}]
<1>1. t \in Tab  BY DEF Sender
<1>2. f \in Tab /\ f.zmodem = 0 /\ Stays(t, f) /\ f.returned = t.returned
  BY <1>1, FinishZmodemDoes
<1> HIDE DEF f
<1>3. f.running \ {p} \in SUBSET (1..MaxTransfers)  BY <1>2 DEF Tab
<1>4. u \in Tab /\ u.zmodem = f.zmodem /\ Stays(f, u) /\ u.returned = f.returned
  BY <1>2, <1>3 DEF Tab, Stays, SameWork
<1> HIDE DEF u
<1>5. Stays(t, u)  BY <1>2, <1>4 DEF Stays, SameWork
<1>6. Sender(u)  BY <1>4, <1>5, StaysSound
<1> QED  BY <1>2, <1>4, <1>5, <1>6 DEF u, f

LEMMA TypedProcessEnds ==
  ASSUME Typed, ProcessEnds
  PROVE  Typed' /\ WorldGoesOn
<1>1. PICK p \in tab.running : Leaves([FinishZmodem(tab) EXCEPT !.running = @ \ {p}])
  BY DEF ProcessEnds
<1>2. UNCHANGED <<answers, device, world>>  BY DEF ProcessEnds
<1>3. Sender(tab) /\ ~tab.returned /\ world \in World  BY DEF Typed, TabInv
<1> DEFINE u == [FinishZmodem(tab) EXCEPT !.running = @ \ {p}]
<1>4. Sender(u) /\ Stays(tab, u) /\ u.zmodem = 0 /\ u.returned = tab.returned
  BY <1>3, EndsDoes
<1>5. Leaves(u)  BY <1>1
<1> HIDE DEF u
<1>6. /\ Sender(tab') /\ tab'.written = <<>> /\ ~tab'.returned
      /\ SameWork(u, tab') /\ tab'.open = u.open /\ tab'.zmodem = u.zmodem
      /\ LineInv(line')
  BY <1>3, <1>4, <1>5, LeavesDoes DEF Typed
<1>7. 0 <= world.transfers  BY <1>3, SerialAssumption DEF World
<1>8. TabInv(tab')  BY <1>4, <1>6, <1>7 DEF TabInv, Typed, Stays, SameWork
<1>9. WorldGoesOn  BY <1>2, NothingChanges
<1> QED  BY <1>2, <1>3, <1>6, <1>8, <1>9, TypedLater DEF Typed

LEMMA TypedProcessWrites ==
  ASSUME Typed, ProcessWrites
  PROVE  Typed' /\ WorldGoesOn
<1>1. Leaves(Writes(tab, Item("zmodem"))) /\ UNCHANGED <<answers, device, world>>
  BY DEF ProcessWrites
<1>2. Sender(tab) /\ ~tab.returned /\ world \in World  BY DEF Typed, TabInv
<1> DEFINE u == Writes(tab, Item("zmodem"))
<1>4. /\ Sender(u) /\ SameWork(tab, u) /\ u.open = tab.open
      /\ u.returned = tab.returned /\ u.zmodem = tab.zmodem
  BY <1>2, WritesDoes, ItemsAre, OthersNumbered
<1> HIDE DEF u
<1>5. /\ Sender(tab') /\ tab'.written = <<>> /\ ~tab'.returned
      /\ SameWork(u, tab') /\ tab'.open = u.open /\ tab'.zmodem = u.zmodem
      /\ LineInv(line')
  BY <1>1, <1>2, <1>4, LeavesDoes DEF Typed, u
<1>6. TabInv(tab')  BY <1>4, <1>5 DEF TabInv, Typed, SameWork
<1>7. WorldGoesOn  BY <1>1, NothingChanges
<1> QED  BY <1>1, <1>2, <1>5, <1>6, <1>7, TypedLater DEF Typed

LEMMA TypedPortDies ==
  ASSUME Typed, PortDies
  PROVE  Typed' /\ WorldGoesOn
<1>1. /\ tab' = [CancelSerialFile(tab) EXCEPT !.open = FALSE, !.written = <<>>]
      /\ line' = <<>> /\ answers' = <<>> /\ UNCHANGED <<device, world>>
  BY DEF PortDies
<1>2. Sender(tab) /\ ~tab.returned /\ world \in World  BY DEF Typed, TabInv
<1> DEFINE u == CancelSerialFile(tab)
<1>3. /\ Sender(u) /\ u.returned = tab.returned /\ u.zmodem = 0
      /\ \/ Resting(u)
         \/ (tab.zmodem # 0 \/ ~tab.file) /\ Stays(tab, u)
  BY <1>2, CancelSerialDoes
<1>4. tab' = [u EXCEPT !.open = FALSE, !.written = <<>>]  BY <1>1
<1> HIDE DEF u
<1>5. u \in Tab /\ <<>> \in Seq(Written)  BY <1>3 DEF Sender
<1>6. /\ tab' \in Tab /\ tab'.written = <<>> /\ ~tab'.returned /\ tab'.zmodem = 0
      /\ SameWork(u, tab') /\ tab'.retries = u.retries
  BY <1>2, <1>3, <1>4, <1>5 DEF Tab, SameWork, Written
<1>7. Sender(tab')
  <2>1. Resting(tab') \/ Awaiting(tab') \/ Sending(tab') \/ Ending(tab')
    BY <1>3, <1>6, SameModes DEF Sender
  <2>2. AllNumbered(<<>>)  BY DEF AllNumbered
  <2> QED  BY <1>3, <1>6, <2>1, <2>2 DEF Sender, SameWork, AllNumbered
<1>8. tab'.file => Disturbed
  BY <1>3, <1>6 DEF Typed, TabInv, SameWork, Stays, Resting
<1>9. 0 <= world.transfers  BY <1>2, SerialAssumption DEF World
<1>10. TabInv(tab')  BY <1>6, <1>7, <1>8, <1>9 DEF TabInv
<1>11. LineInv(line') /\ answers' \in Seq(Bytes)  BY <1>1 DEF LineInv, AllNumbered
<1>12. WorldGoesOn  BY <1>1, NothingChanges
<1> QED  BY <1>1, <1>2, <1>10, <1>11, <1>12, TypedLater DEF Typed

LEMMA TypedDiskFails ==
  ASSUME Typed, DiskFails
  PROVE  Typed' /\ WorldGoesOn
<1>1. /\ world' = [world EXCEPT !.disturbed = "unreadable"]
      /\ UNCHANGED <<tab, line, answers, device>>
  BY DEF DiskFails
<1>2. world \in World  BY DEF Typed
<1>3. WorldGoesOn
  <2>1. world.transfers \in Int  BY <1>2, SerialAssumption DEF World
  <2>2. /\ world' \in World /\ world'.size = world.size /\ world'.disturbed = "unreadable"
        /\ world'.transfers = world.transfers
        /\ world'.overtaken = world.overtaken
    BY <1>1, <1>2 DEF World
  <2> QED  BY <2>1, <2>2 DEF WorldGoesOn, Disturbed
<1> QED  BY <1>1, <1>2, <1>3, TypedLater DEF Typed

(* The steps of the receiver, case by case.                                   *)
Active == device.phase \in {"start", "data", "final"}
Answered(answer) == answers' = Append(answers, answer)
Expected(packet) == device.phase # "final" /\ packet.n = device.expects
Twice(packet) == packet.n = (device.expects - 1) % BlockNumbers
EndsAll(packet) == device.phase = "final" /\ packet.data = LastHeader

Reads(item) ==
    \/ /\ ~Active \/ item.kind \notin {"packet", "eot", "can"}
       /\ answers' = answers /\ device' = device
    \/ /\ Active /\ item.kind = "packet" /\ item.crc # device.crc
       /\ Answered("nak") /\ device' = device
    \/ /\ Active /\ item.kind = "packet" /\ item.crc = device.crc /\ EndsAll(item)
       /\ Answered("ack") /\ device' = [device EXCEPT !.phase = "over"]
    \/ /\ Active /\ item.kind = "packet" /\ item.crc = device.crc /\ Expected(item)
       /\ device.header /\ Answered("ack")
       /\ device' = [device EXCEPT !.phase = "data", !.stored = Append(@, item.data),
                                   !.expects = (@ + 1) % BlockNumbers]
    \/ /\ Active /\ item.kind = "packet" /\ item.crc = device.crc /\ Expected(item)
       /\ ~device.header /\ Answered("ack")
       /\ device' = [device EXCEPT !.phase = "data", !.header = TRUE, !.expects = 1]
    \/ /\ Active /\ item.kind = "packet" /\ item.crc = device.crc
       /\ ~Expected(item) /\ ~EndsAll(item) /\ Twice(item)
       /\ Answered("ack") /\ device' = device
    \/ /\ Active /\ item.kind = "packet" /\ item.crc = device.crc
       /\ ~Expected(item) /\ ~EndsAll(item) /\ ~Twice(item)
       /\ Answered("can") /\ device' = [device EXCEPT !.phase = "over"]
    \/ /\ Active /\ item.kind = "eot" /\ Answered("ack")
       /\ device' = [device EXCEPT
            !.phase = IF device.ymodem /\ device.header THEN "final" ELSE "over"]
    \/ /\ Active /\ item.kind = "can" /\ answers' = answers
       /\ device' = [device EXCEPT !.phase = "over"]

LEMMA ReadsIs ==
  ASSUME Typed, DeviceReads
  PROVE  /\ line # <<>> /\ line' = Tail(line) /\ UNCHANGED <<tab, world>>
         /\ Reads(Head(line))
<1> DEFINE item == Head(line)
<1>1. /\ line # <<>> /\ line' = Tail(line) /\ UNCHANGED <<tab, world>>
      /\ CASE device.phase \in {"shell", "over"} -> Ignores
           [] device.phase \in {"start", "data", "final"} /\ item.kind = "packet" ->
                  TakesPacket(item)
           [] device.phase \in {"start", "data", "final"} /\ item.kind = "eot" -> TakesEot
           [] device.phase \in {"start", "data", "final"} /\ item.kind = "can" ->
                  answers' = answers /\ device' = [device EXCEPT !.phase = "over"]
           [] OTHER -> Ignores
  BY DEF DeviceReads
<1>2. device.phase \in {"shell", "start", "data", "final", "over"}  BY DEF Typed, Device
<1> HIDE DEF item
<1>3. CASE ~Active
  <2>1. device.phase \in {"shell", "over"}  BY <1>2, <1>3 DEF Active
  <2>2. Ignores  BY <1>1, <2>1
  <2> QED  BY <1>1, <1>3, <2>2 DEF Ignores, Reads, item
<1>4. CASE Active /\ item.kind \notin {"packet", "eot", "can"}
  <2>1. device.phase \notin {"shell", "over"}  BY <1>4 DEF Active
  <2>2. Ignores  BY <1>1, <1>4, <2>1
  <2> QED  BY <1>1, <1>4, <2>2 DEF Ignores, Reads, item
<1>5. CASE Active /\ item.kind = "packet"
  <2>1. TakesPacket(item)  BY <1>1, <1>5 DEF Active
  <2>2. CASE item.crc # device.crc
    <3>1. Answered("nak") /\ device' = device  BY <2>1, <2>2 DEF TakesPacket, Answers, Answered
    <3> QED  BY <1>1, <1>5, <2>2, <3>1 DEF Reads, item
  <2>3. CASE item.crc = device.crc /\ EndsAll(item)
    <3>1. Answered("ack") /\ device' = [device EXCEPT !.phase = "over"]
      BY <2>1, <2>3 DEF TakesPacket, Answers, Answered, EndsAll
    <3> QED  BY <1>1, <1>5, <2>3, <3>1 DEF Reads, item
  <2>4. CASE item.crc = device.crc /\ Expected(item)
    <3>1. /\ Answered("ack")
          /\ device' = IF device.header
               THEN [device EXCEPT !.phase = "data", !.stored = Append(@, item.data),
                                   !.expects = (@ + 1) % BlockNumbers]
               ELSE [device EXCEPT !.phase = "data", !.header = TRUE, !.expects = 1]
      <4>1. item.n # (device.expects - 1) % BlockNumbers
        <5>1. device.expects \in Int /\ 0 <= device.expects /\ device.expects < BlockNumbers
          BY SerialAssumption DEF Typed, Device
        <5>2. device.expects % BlockNumbers = device.expects  BY <5>1, SmallNumber
        <5>3. device.expects - 1 \in Int /\ (device.expects - 1) + 1 = device.expects  BY <5>1
        <5>4. ((device.expects - 1) + 1) % BlockNumbers # (device.expects - 1) % BlockNumbers
          BY <5>3, NumbersApart
        <5> QED  BY <2>4, <5>2, <5>3, <5>4 DEF Expected
      <4>2. device.phase # "final" /\ item.crc = device.crc /\ item.n = device.expects
        BY <2>4 DEF Expected
      <4> QED  BY <2>1, <4>1, <4>2 DEF TakesPacket, Answers, Answered
    <3>2. CASE device.header  BY <1>1, <1>5, <2>4, <3>1, <3>2 DEF Reads, item
    <3>3. CASE ~device.header  BY <1>1, <1>5, <2>4, <3>1, <3>3 DEF Reads, item
    <3> QED  BY <3>2, <3>3
  <2>5. CASE item.crc = device.crc /\ ~Expected(item) /\ ~EndsAll(item) /\ Twice(item)
    <3>1. Answered("ack") /\ device' = device
      BY <2>1, <2>5 DEF TakesPacket, Answers, Answered, EndsAll, Expected, Twice
    <3> QED  BY <1>1, <1>5, <2>5, <3>1 DEF Reads, item
  <2>6. CASE item.crc = device.crc /\ ~Expected(item) /\ ~EndsAll(item) /\ ~Twice(item)
    <3>1. Answered("can") /\ device' = [device EXCEPT !.phase = "over"]
      BY <2>1, <2>6 DEF TakesPacket, Answers, Answered, EndsAll, Expected, Twice
    <3> QED  BY <1>1, <1>5, <2>6, <3>1 DEF Reads, item
  <2> QED  BY <2>2, <2>3, <2>4, <2>5, <2>6
<1>6. CASE Active /\ item.kind = "eot"
  <2>1. TakesEot  BY <1>1, <1>6 DEF Active
  <2> QED  BY <1>1, <1>6, <2>1 DEF TakesEot, Answers, Answered, Reads, item
<1>7. CASE Active /\ item.kind = "can"
  <2>1. answers' = answers /\ device' = [device EXCEPT !.phase = "over"]
    BY <1>1, <1>7 DEF Active
  <2> QED  BY <1>1, <1>7, <2>1 DEF Reads, item
<1> QED  BY <1>3, <1>4, <1>5, <1>6, <1>7

LEMMA TailLine ==
  ASSUME LineInv(line), line # <<>>
  PROVE  /\ LineInv(Tail(line)) /\ Len(line) \in Nat /\ Len(line) >= 1
         /\ Len(Tail(line)) = Len(line) - 1
         /\ \A i \in 1..Len(Tail(line)) : Tail(line)[i] = line[i + 1]
         /\ Head(line) = line[1] /\ Head(line) \in Written /\ Numbered(Head(line))
<1>1. /\ line \in Seq(Written) /\ Len(line) \in Nat /\ Len(line) >= 1
      /\ Tail(line) \in Seq(Written) /\ Len(Tail(line)) = Len(line) - 1
      /\ \A i \in 1..Len(Tail(line)) : Tail(line)[i] = line[i + 1]
      /\ Head(line) = line[1] /\ Head(line) \in Written
  BY DEF LineInv
<1>2. \A i \in 1..Len(line) : Numbered(line[i])  BY DEF LineInv, AllNumbered
<1>3. Numbered(Head(line))
  <2>1. 1 \in 1..Len(line)  BY <1>1
  <2> QED  BY <1>1, <1>2, <2>1
<1>4. ASSUME NEW i \in 1..Len(Tail(line)) PROVE Numbered(Tail(line)[i])
  <2>1. i + 1 \in 1..Len(line) /\ Tail(line)[i] = line[i + 1]  BY <1>1
  <2> QED  BY <1>2, <2>1
<1> QED  BY <1>1, <1>3, <1>4 DEF LineInv, AllNumbered

LEMMA TypedDeviceReads ==
  ASSUME Typed, DeviceReads
  PROVE  Typed' /\ WorldGoesOn
<1> DEFINE item == Head(line)
<1>1. line # <<>> /\ line' = Tail(line) /\ UNCHANGED <<tab, world>> /\ Reads(item)
  BY ReadsIs
<1>2. /\ world \in World /\ device \in Device /\ LineInv(line) /\ answers \in Seq(Bytes)
      /\ TabInv(tab)
  BY DEF Typed
<1>3. LineInv(line') /\ item \in Written  BY <1>1, <1>2, TailLine
<1> HIDE DEF item
<1>4. answers' \in Seq(Bytes)
  <2>1. answers' = answers \/ \E a \in {"ack", "nak", "can"} : answers' = Append(answers, a)
    BY <1>1 DEF Reads, Answered
  <2>2. CASE answers' = answers  BY <1>2, <2>2
  <2>3. CASE \E a \in {"ack", "nak", "can"} : answers' = Append(answers, a)
    <3>1. PICK a \in {"ack", "nak", "can"} : answers' = Append(answers, a)  BY <2>3
    <3>2. a \in Bytes  BY DEF Bytes
    <3> QED  BY <1>2, <3>1, <3>2
  <2> QED  BY <2>1, <2>2, <2>3
<1>5. device' \in Device
  <2>0. /\ \A x \in {"data", "final", "over"} : [device EXCEPT !.phase = x] \in Device
        /\ device.stored \in Seq(Int) /\ device.expects \in Int
    <3>1. device.stored \in Seq(Int) /\ device.expects \in 0..BlockNumbers - 1
      BY <1>2 DEF Device
    <3>2. \A x \in {"data", "final", "over"} : [device EXCEPT !.phase = x] \in Device
      BY <1>2 DEF Device
    <3> QED  BY <3>1, <3>2, SerialAssumption
  <2>1. CASE device' = [device EXCEPT !.phase = "data", !.stored = Append(@, item.data),
                                      !.expects = (@ + 1) % BlockNumbers]
    <3>1. item.data \in Int  BY <1>3 DEF Written, Items
    <3>2. (device.expects + 1) % BlockNumbers \in 0..BlockNumbers - 1
      <4>1. device.expects + 1 \in Int  BY <2>0
      <4> QED  BY <4>1, NumberIs
    <3> DEFINE e == (device.expects + 1) % BlockNumbers
               s == Append(device.stored, item.data)
    <3>3. s \in Seq(Int)  BY <2>0, <3>1
    <3>4. device' = [device EXCEPT !.phase = "data", !.stored = s, !.expects = e]  BY <2>1
    <3> HIDE DEF s, e
    <3>5. e \in 0..BlockNumbers - 1  BY <3>2 DEF e
    <3> QED  BY <1>2, <3>3, <3>4, <3>5 DEF Device
  <2>2. CASE device' = [device EXCEPT !.phase = "data", !.header = TRUE, !.expects = 1]
    <3>1. 1 \in 0..BlockNumbers - 1  BY SerialAssumption
    <3> QED  BY <1>2, <2>2, <3>1 DEF Device
  <2>3. CASE device' = device \/ device' = [device EXCEPT !.phase = "over"]
              \/ device' = [device EXCEPT !.phase =
                              IF device.ymodem /\ device.header THEN "final" ELSE "over"]
    BY <1>2, <2>0, <2>3
  <2> QED  BY <1>1, <2>1, <2>2, <2>3 DEF Reads
<1>6. WorldGoesOn  BY <1>1, NothingChanges
<1> QED  BY <1>1, <1>2, <1>3, <1>4, <1>5, <1>6, TypedLater

LEMMA ReceiverIs ==
  ASSUME NEW ymodem \in BOOLEAN
  PROVE  Receiver(ymodem) \in Device
<1>1. 0 \in 0..BlockNumbers - 1 /\ 1 \in 0..BlockNumbers - 1  BY SerialAssumption
<1>2. <<>> \in Seq(Int)  OBVIOUS
<1> QED  BY <1>1, <1>2 DEF Receiver, Device

LEMMA TypedStartReceiver ==
  ASSUME Typed, StartReceiver
  PROVE  Typed' /\ WorldGoesOn
<1>1. PICK ymodem \in IF tab.file THEN {tab.ymodem} ELSE BOOLEAN : device' = Receiver(ymodem)
  BY DEF StartReceiver
<1>2. UNCHANGED <<tab, line, answers, world>>  BY DEF StartReceiver
<1>3. ymodem \in BOOLEAN
  <2>1. tab \in Tab  BY DEF Typed, TabInv, Sender
  <2>2. tab.ymodem \in BOOLEAN  BY <2>1 DEF Tab
  <2> QED  BY <1>1, <2>2
<1>4. device' \in Device  BY <1>1, <1>3, ReceiverIs
<1>5. WorldGoesOn  BY <1>2, NothingChanges
<1> QED  BY <1>2, <1>4, <1>5, TypedLater DEF Typed

LEMMA TypedAsks ==
  ASSUME Typed, Asks
  PROVE  Typed' /\ WorldGoesOn
<1>1. /\ answers' = Append(answers, IF device.crc THEN "C" ELSE "nak")
      /\ UNCHANGED <<tab, line, device, world>>
  BY DEF Asks
<1>2. answers' \in Seq(Bytes)
  <2>1. (IF device.crc THEN "C" ELSE "nak") \in Bytes  BY DEF Bytes
  <2> QED  BY <1>1, <2>1 DEF Typed
<1>3. WorldGoesOn  BY <1>1, NothingChanges
<1> QED  BY <1>1, <1>2, <1>3, TypedLater DEF Typed

LEMMA TypedFallsBack ==
  ASSUME Typed, FallsBack
  PROVE  Typed' /\ WorldGoesOn
<1>1. /\ device' = [device EXCEPT !.crc = FALSE]
      /\ UNCHANGED <<tab, line, answers, world>>
  BY DEF FallsBack
<1>2. device' \in Device  BY <1>1 DEF Typed, Device
<1>3. WorldGoesOn  BY <1>1, NothingChanges
<1> QED  BY <1>1, <1>2, <1>3, TypedLater DEF Typed

LEMMA TypedShellPrints ==
  ASSUME Typed, ShellPrints
  PROVE  Typed' /\ WorldGoesOn
<1>1. answers' = <<"C">> /\ UNCHANGED <<tab, line, device, world>>
  BY DEF ShellPrints
<1>2. answers' \in Seq(Bytes)  BY <1>1 DEF Bytes
<1>3. WorldGoesOn  BY <1>1, NothingChanges
<1> QED  BY <1>1, <1>2, <1>3, TypedLater DEF Typed

LEMMA TypedLineFails ==
  ASSUME Typed, LineFails
  PROVE  Typed' /\ WorldGoesOn
<1>1. /\ world.faults < MaxFaults /\ world' = [world EXCEPT !.faults = @ + 1]
      /\ UNCHANGED <<tab, device>>
      /\ \/ line # <<>> /\ line' = Tail(line) /\ UNCHANGED answers
         \/ answers # <<>> /\ answers' = Tail(answers) /\ UNCHANGED line
         \/ line # <<>> /\ line' = Tail(line) /\ answers' = Append(answers, "nak")
  BY DEF LineFails
<1>2. /\ world \in World /\ LineInv(line) /\ answers \in Seq(Bytes)
  BY DEF Typed
<1>3. LineInv(line')
  <2>1. CASE line # <<>> /\ line' = Tail(line)  BY <1>2, <2>1, TailLine
  <2>2. CASE UNCHANGED line  BY <1>2, <2>2
  <2> QED  BY <1>1, <2>1, <2>2
<1>4. answers' \in Seq(Bytes)
  <2>1. CASE UNCHANGED answers  BY <1>2, <2>1
  <2>2. CASE answers # <<>> /\ answers' = Tail(answers)  BY <1>2, <2>2
  <2>3. CASE answers' = Append(answers, "nak")
    <3>1. "nak" \in Bytes  BY DEF Bytes
    <3> QED  BY <1>2, <2>3, <3>1
  <2> QED  BY <1>1, <2>1, <2>2, <2>3
<1>5. WorldGoesOn
  <2>0. MaxFaults \in Nat /\ MaxTransfers \in Nat  BY SerialAssumption
  <2>1. world.transfers \in Int /\ world.faults \in 0..MaxFaults  BY <1>2, <2>0 DEF World
  <2>2. world.faults + 1 \in 0..MaxFaults  BY <1>1, <2>0, <2>1
  <2>3. /\ world' \in World /\ world'.size = world.size /\ world'.disturbed = world.disturbed
        /\ world'.transfers = world.transfers
        /\ world'.overtaken = world.overtaken
    BY <1>1, <1>2, <2>2 DEF World
  <2> QED  BY <2>1, <2>3 DEF WorldGoesOn, Disturbed
<1> QED  BY <1>1, <1>3, <1>4, <1>5, TypedLater DEF Typed

-----------------------------------------------------------------------------
(* The second part: what the receiver has.  What it has stored is a beginning *)
(* of the file, and it expects the number of the next block.                  *)
Stored(d) == Len(d.stored)

Stock(d) ==
    /\ Stored(d) <= world.size
    /\ \A i \in 1..Stored(d) : d.stored[i] = i
    /\ d.expects = IF d.header THEN (Stored(d) + 1) % BlockNumbers ELSE 0
    /\ ~d.header => Stored(d) = 0
    /\ d.phase \in {"shell", "start"} => Stored(d) = 0 /\ d.header = ~d.ymodem
    /\ d.phase = "data" => d.header
    /\ d.phase = "final" => d.ymodem /\ d.header

Mended == ~Disturbed /\ (world.overtaken => ShortFile)
Clean == ~Disturbed /\ ~world.overtaken

(* While the timer has overtaken no answer the receiver is where it was       *)
(* before it took what the tab sends, or where it is after that, and at most  *)
(* one packet or one answer is on its way.                                    *)
Fresh(t, d) == d.phase = "shell" \/ (d.phase = "start" /\ d.ymodem = t.ymodem)
InData(t, d, n) == d.phase = "data" /\ Stored(d) = n /\ d.ymodem = t.ymodem
Before(t, d) ==
    \/ SendingHeader(t) /\ Fresh(t, d)
    \/ SendingData(t) /\ ~t.ymodem /\ t.read = 1 /\ Fresh(t, d)
    \/ SendingData(t) /\ (t.ymodem \/ t.read > 1) /\ InData(t, d, t.read - 1)
    \/ Ending(t) /\ ~t.ymodem /\ world.size = 0 /\ Fresh(t, d)
    \/ Ending(t) /\ (t.ymodem \/ world.size > 0) /\ InData(t, d, world.size)
    \/ SendingLast(t) /\ d.phase = "final" /\ Stored(d) = world.size
After(t, d) ==
    \/ SendingHeader(t) /\ InData(t, d, 0)
    \/ SendingData(t) /\ InData(t, d, t.read)
    \/ Ending(t) /\ d.phase = (IF t.ymodem THEN "final" ELSE "over") /\ Stored(d) = world.size
    \/ SendingLast(t) /\ d.phase = "over" /\ Stored(d) = world.size

AwaitInv(t, d, l, a) ==
    /\ l = <<>> /\ Len(a) <= 1
    /\ a # <<>> => a[1] \in {"C", "nak"} /\ Fresh(t, d)
    /\ d.phase = "start" => d.ymodem = t.ymodem
SendInv(t, d, l, a) ==
    /\ Before(t, d) \/ After(t, d)
    /\ \/ l = <<Sent(t)>> /\ a = <<>>
       \/ /\ l = <<>> /\ Len(a) <= 1
          /\ a # <<>> => a[1] \in {"C", "nak"} \/ (a[1] = "ack" /\ After(t, d))

(* When the transfer has ended, what is left of it on the line is one packet, *)
(* that the receiver has, expects, or does not want.                          *)
Fits(p, d) ==
    p.kind = "packet" =>
        IF p.data = Header THEN d.phase \in {"start", "data"} /\ d.header => Stored(d) = 0
        ELSE IF p.data = LastHeader THEN d.phase \in {"final", "over"}
        ELSE /\ d.phase = "shell" => p.data = 1
             /\ d.phase \in {"start", "data"} =>
                  IF d.header THEN Stored(d) \in {p.data - 1, p.data} ELSE p.data = 1
RestInv(t, d, l) ==
    /\ l # <<>> => Fits(l[1], d)
    /\ \A i \in 2..Len(l) : l[i].kind # "packet"
    /\ t.result = "complete" => Stored(d) = world.size /\ d.phase = "over"

Tracked(t, d, l, a) ==
    /\ Awaiting(t) => AwaitInv(t, d, l, a)
    /\ Sending(t) \/ Ending(t) => SendInv(t, d, l, a)
    /\ Resting(t) => RestInv(t, d, l)


LEMMA CleanEarlier ==
  ASSUME WorldGoesOn
  PROVE  (Clean' => Clean) /\ (Mended' => Mended) /\ (Clean => Mended)
BY DEF Clean, Mended, WorldGoesOn, ShortFile

LEMMA StockLater ==
  ASSUME WorldGoesOn, Stock(device')
  PROVE  Stock(device)'
BY DEF Stock, Stored, WorldGoesOn

LEMMA TrackedLater ==
  ASSUME WorldGoesOn, Clean', Tracked(tab', device', line', answers')
  PROVE  Tracked(tab, device, line, answers)'
<1>1. world'.size = world.size /\ ~Disturbed /\ ~Disturbed'
  BY DEF WorldGoesOn, Clean
<1>2. /\ Resting(tab') <=> Resting(tab)'
      /\ Awaiting(tab') <=> Awaiting(tab)'
      /\ SendingHeader(tab') <=> SendingHeader(tab)'
      /\ SendingData(tab') <=> SendingData(tab)'
  BY <1>1 DEF Resting, Awaiting, SendingHeader, SendingData
<1>3. /\ SendingLast(tab') <=> SendingLast(tab)'
      /\ Ending(tab') <=> Ending(tab)'
  BY <1>1 DEF SendingLast, Ending
<1>4. Sending(tab') <=> Sending(tab)'  BY <1>2, <1>3 DEF Sending
<1>5. /\ Before(tab', device') <=> Before(tab, device)'
      /\ After(tab', device') <=> After(tab, device)'
  BY <1>1, <1>2, <1>3 DEF Before, After, Fresh, InData, Stored
<1>6. AwaitInv(tab', device', line', answers') <=> AwaitInv(tab, device, line, answers)'
  BY DEF AwaitInv, Fresh
<1>7. SendInv(tab', device', line', answers') <=> SendInv(tab, device, line, answers)'
  BY <1>5 DEF SendInv, Sent
<1>8. RestInv(tab', device', line') <=> RestInv(tab, device, line)'
  BY <1>1 DEF RestInv, Fits, Stored
<1> QED  BY <1>2, <1>3, <1>4, <1>6, <1>7, <1>8 DEF Tracked

(* The states of a transfer exclude each other.                               *)
LEMMA OneMode ==
  ASSUME NEW t, Sender(t)
  PROVE  /\ Resting(t) => ~Awaiting(t) /\ ~Sending(t) /\ ~Ending(t)
         /\ Awaiting(t) => ~Sending(t) /\ ~Ending(t)
         /\ Sending(t) => ~Ending(t)
         /\ SendingHeader(t) => ~SendingData(t) /\ ~SendingLast(t)
         /\ SendingData(t) => ~SendingLast(t)
<1>1. /\ Resting(t) => ~t.file /\ t.packet = NoPacket /\ ~t.waitingEotAck
      /\ Awaiting(t) => t.file /\ t.packet = NoPacket /\ ~t.waitingEotAck
      /\ Ending(t) => t.file /\ t.waitingEotAck
      /\ Sending(t) => ~t.waitingEotAck
  BY DEF Resting, Awaiting, Ending, Sending, SendingHeader, SendingData, SendingLast
<1>2. t.packet # NoPacket <=> Sending(t)  BY ModeFields
<1>3. /\ SendingHeader(t) => ~SendingData(t) /\ ~SendingLast(t)
      /\ SendingData(t) => ~SendingLast(t)
  BY DEF SendingHeader, SendingData, SendingLast
<1> QED  BY <1>1, <1>2, <1>3

LEMMA SameTracked ==
  ASSUME NEW t, NEW u, SameWork(t, u), NEW d, NEW l, NEW a
  PROVE  /\ Before(u, d) <=> Before(t, d)
         /\ After(u, d) <=> After(t, d)
         /\ AwaitInv(u, d, l, a) <=> AwaitInv(t, d, l, a)
         /\ SendInv(u, d, l, a) <=> SendInv(t, d, l, a)
<1>1. /\ SendingHeader(u) <=> SendingHeader(t)
      /\ SendingData(u) <=> SendingData(t)
      /\ SendingLast(u) <=> SendingLast(t)
      /\ Ending(u) <=> Ending(t)
      /\ Sent(u) = Sent(t)
  BY SameModes
<1>2. u.ymodem = t.ymodem /\ u.read = t.read  BY DEF SameWork
<1>3. (Before(u, d) <=> Before(t, d)) /\ (After(u, d) <=> After(t, d))
  BY <1>1, <1>2 DEF Before, After, Fresh, InData
<1>4. AwaitInv(u, d, l, a) <=> AwaitInv(t, d, l, a)
  BY <1>2 DEF AwaitInv, Fresh
<1>5. SendInv(u, d, l, a) <=> SendInv(t, d, l, a)
  BY <1>1, <1>3 DEF SendInv
<1> QED  BY <1>3, <1>4, <1>5

(* What the tab sends fits the receiver.                                      *)
LEMMA SentFits ==
  ASSUME NEW t, Sender(t), NEW d, Stock(d), Before(t, d) \/ After(t, d)
  PROVE  Fits(Sent(t), d)
<1>0. t \in Tab /\ t.crc \in BOOLEAN /\ t.read \in Nat
  <2>1. t \in Tab  BY DEF Sender
  <2> QED  BY <2>1 DEF Tab
<1>1. CASE Ending(t)
  <2>1. Sent(t).kind = "eot"  BY <1>1, ItemsAre DEF Sent, Ending
  <2> QED  BY <2>1 DEF Fits
<1>2. CASE SendingHeader(t)
  <2>1. Sent(t) = Packet(Header, 0, t.crc)  BY <1>2 DEF Sent, SendingHeader
  <2>2. Sent(t).data = Header
    <3>1. Header \in Int /\ 0 \in Int  BY DEF Header
    <3> QED  BY <1>0, <2>1, <3>1, PacketIs
  <2>3. Fresh(t, d) \/ InData(t, d, 0)
    BY <1>2, OneMode DEF Before, After, Sending
  <2>4. d.phase \in {"start", "data"} => Stored(d) = 0
    BY <2>3 DEF Fresh, InData, Stock
  <2> QED  BY <2>2, <2>4 DEF Fits
<1>3. CASE SendingLast(t)
  <2>1. Sent(t) = Packet(LastHeader, 0, t.crc)  BY <1>3 DEF Sent, SendingLast
  <2>2. Sent(t).data = LastHeader /\ LastHeader # Header
    <3>1. LastHeader \in Int /\ 0 \in Int /\ LastHeader # Header  BY DEF LastHeader, Header
    <3> QED  BY <1>0, <2>1, <3>1, PacketIs
  <2>3. d.phase \in {"final", "over"}
    BY <1>3, OneMode DEF Before, After, Sending
  <2> QED  BY <2>2, <2>3 DEF Fits
<1>4. CASE SendingData(t)
  <2>1. Sent(t) = Packet(t.read, t.read, t.crc) /\ t.read \in 1..world.size
    BY <1>4 DEF Sent, SendingData
  <2>2. Sent(t).data = t.read /\ t.read # Header /\ t.read # LastHeader
    <3>1. t.read \in Int /\ t.read > 0  BY <1>0, <2>1
    <3>2. t.read # Header /\ t.read # LastHeader  BY <3>1 DEF Header, LastHeader
    <3>3. Sent(t).data = t.read  BY <1>0, <2>1, <3>1, PacketIs
    <3> QED  BY <3>2, <3>3
  <2>3. \/ ~t.ymodem /\ t.read = 1 /\ Fresh(t, d)
        \/ (t.ymodem \/ t.read > 1) /\ InData(t, d, t.read - 1)
        \/ InData(t, d, t.read)
    BY <1>4, OneMode DEF Before, After, Sending
  <2>4. CASE t.read = 1 /\ Fresh(t, d)
    <3>1. d.phase \in {"shell", "start"} /\ Stored(d) = 0  BY <2>4 DEF Fresh, Stock
    <3>2. t.read - 1 = 0  BY <2>4
    <3> QED  BY <2>2, <2>4, <3>1, <3>2 DEF Fits
  <2>5. CASE InData(t, d, t.read - 1) \/ InData(t, d, t.read)
    <3>1. d.phase = "data" /\ d.header /\ Stored(d) \in {t.read - 1, t.read}
      BY <2>5 DEF InData, Stock
    <3> QED  BY <2>2, <3>1 DEF Fits
  <2> QED  BY <2>3, <2>4, <2>5
<1> QED  BY <1>1, <1>2, <1>3, <1>4 DEF Before, After

(* The receiver stores the right packet, either because every packet of a     *)
(* short file has a number of its own or because what comes fits.             *)
Right(item) ==
    item.kind = "packet" /\ Active /\ Expected(item) /\ device.header =>
        item.data = Stored(device) + 1 /\ item.data <= world.size

LEMMA StockFields ==
  ASSUME Typed
  PROVE  /\ Stored(device) \in Nat /\ world.size \in Nat /\ device.stored \in Seq(Int)
         /\ device.expects \in Int /\ device.header \in BOOLEAN /\ device.ymodem \in BOOLEAN
         /\ BlockNumbers \in Nat /\ BlockNumbers > 2
BY SerialAssumption DEF Typed, World, Device, Stored

LEMMA RightOfShort ==
  ASSUME Typed, Stock(device), ShortFile, NEW item \in Written, Numbered(item)
  PROVE  Right(item)
<1> SUFFICES ASSUME item.kind = "packet", Active, Expected(item), device.header
             PROVE  item.data = Stored(device) + 1 /\ item.data <= world.size
  BY DEF Right
<1>0. /\ Stored(device) \in Nat /\ world.size \in Nat /\ BlockNumbers \in Nat
      /\ world.size + 1 < BlockNumbers /\ Stored(device) <= world.size
  BY StockFields DEF ShortFile, Stock
<1>1. device.expects = Stored(device) + 1
  <2>1. (Stored(device) + 1) % BlockNumbers = Stored(device) + 1  BY <1>0, SmallNumber
  <2> QED  BY <2>1 DEF Stock
<1>2. item.n = Stored(device) + 1  BY <1>1 DEF Expected
<1>3. item.n # 0  BY <1>0, <1>2
<1>4. item.data \in 1..world.size /\ item.n = item.data % BlockNumbers
  BY <1>3 DEF Numbered
<1>5. item.data % BlockNumbers = item.data  BY <1>0, <1>4, SmallNumber
<1> QED  BY <1>2, <1>4, <1>5

LEMMA RightOfFitting ==
  ASSUME Typed, Stock(device), NEW item \in Written, Numbered(item), Fits(item, device)
  PROVE  Right(item)
<1> SUFFICES ASSUME item.kind = "packet", Active, Expected(item), device.header
             PROVE  item.data = Stored(device) + 1 /\ item.data <= world.size
  BY DEF Right
<1> DEFINE n == Stored(device)
<1>0. /\ n \in Nat /\ world.size \in Nat /\ BlockNumbers \in Nat /\ BlockNumbers > 2
  BY StockFields
<1>1. device.phase \in {"start", "data"}  BY DEF Active, Expected
<1>2. item.n = (n + 1) % BlockNumbers  BY DEF Expected, Stock
<1> HIDE DEF n
<1>3. CASE item.data \in 1..world.size /\ item.n = item.data % BlockNumbers
  <2>1. item.data # Header /\ item.data # LastHeader  BY <1>0, <1>3 DEF Header, LastHeader
  <2>2. n \in {item.data - 1, item.data}  BY <1>1, <2>1 DEF Fits, n
  <2>3. (n + 1) % BlockNumbers # n % BlockNumbers
    <3>1. n \in Int  BY <1>0
    <3> QED  BY <3>1, NumbersApart
  <2>4. n # item.data  BY <1>2, <1>3, <2>3
  <2>5. item.data = n + 1  BY <1>0, <1>3, <2>2, <2>4
  <2> QED  BY <1>0, <1>3, <2>5 DEF n
<1>4. CASE item.data \in {Header, LastHeader} /\ item.n = 0
  <2>1. item.data # LastHeader
    <3>1. LastHeader # Header  BY DEF Header, LastHeader
    <3> QED  BY <1>1, <3>1 DEF Fits
  <2>2. n = 0  BY <1>1, <1>4, <2>1 DEF Fits, n
  <2>3. (n + 1) % BlockNumbers = 1
    <3>1. n + 1 = 1 /\ 1 < BlockNumbers /\ 0 <= 1  BY <1>0, <2>2
    <3>2. 1 % BlockNumbers = 1  BY <3>1, SmallNumber
    <3> QED  BY <3>1, <3>2
  <2> QED  BY <1>2, <1>4, <2>3
<1> QED  BY <1>3, <1>4 DEF Numbered

(* What a packet that is stored leaves.                                       *)
LEMMA StoresNext ==
  ASSUME Typed, Stock(device), NEW item \in Written, Active, Expected(item), device.header,
         item.data = Stored(device) + 1, item.data <= world.size,
         device' = [device EXCEPT !.phase = "data", !.stored = Append(@, item.data),
                                  !.expects = (@ + 1) % BlockNumbers]
  PROVE  /\ Stock(device') /\ device'.phase = "data" /\ device'.ymodem = device.ymodem
         /\ Stored(device') = Stored(device) + 1 /\ device'.header
<1> DEFINE n == Stored(device)
<1>0. /\ n \in Nat /\ world.size \in Nat /\ device.stored \in Seq(Int) /\ item.data \in Int
      /\ device.expects \in Int /\ BlockNumbers \in Nat /\ BlockNumbers > 2 /\ device \in Device
  BY StockFields DEF Written, Items, Typed
<1>1. /\ device'.phase = "data" /\ device'.stored = Append(device.stored, item.data)
      /\ device'.expects = (device.expects + 1) % BlockNumbers
      /\ device'.header = device.header /\ device'.ymodem = device.ymodem
  BY <1>0 DEF Device
<1>2. Stored(device') = n + 1  BY <1>0, <1>1 DEF Stored
<1>3. \A i \in 1..(n + 1) : device'.stored[i] = i
  <2> SUFFICES ASSUME NEW i \in 1..(n + 1) PROVE Append(device.stored, item.data)[i] = i
    BY <1>1
  <2>1. CASE i = n + 1
    <3>1. Append(device.stored, item.data)[i] = item.data  BY <1>0, <2>1 DEF Stored
    <3> QED  BY <2>1, <3>1
  <2>2. CASE i # n + 1
    <3>1. i \in 1..n  BY <1>0, <2>2
    <3>2. Append(device.stored, item.data)[i] = device.stored[i]  BY <1>0, <3>1 DEF Stored
    <3> QED  BY <3>1, <3>2 DEF Stock
  <2> QED  BY <2>1, <2>2
<1>4. device'.expects = (Stored(device') + 1) % BlockNumbers
  <2>1. device.expects = (n + 1) % BlockNumbers  BY DEF Stock
  <2> HIDE DEF n
  <2>2. n + 1 \in Int  BY <1>0
  <2>3. (n + 1) % BlockNumbers \in 0..BlockNumbers - 1
        /\ ((n + 1) + 1) % BlockNumbers =
             IF (n + 1) % BlockNumbers = BlockNumbers - 1 THEN 0
             ELSE ((n + 1) % BlockNumbers) + 1
    BY <2>2, NumberIs, NextNumber
  <2>4. (device.expects + 1) % BlockNumbers =
          IF device.expects = BlockNumbers - 1 THEN 0 ELSE device.expects + 1
    <3>1. device.expects \in 0..BlockNumbers - 1  BY <2>1, <2>3
    <3>2. device.expects % BlockNumbers = device.expects  BY <1>0, <3>1, SmallNumber
    <3> QED  BY <1>0, <3>2, NextNumber
  <2> QED  BY <1>1, <1>2, <2>1, <2>3, <2>4
<1> QED  BY <1>0, <1>1, <1>2, <1>3, <1>4 DEF Stock

LEMMA StockReads ==
  ASSUME Typed, Stock(device), NEW item \in Written, Right(item), Reads(item)
  PROVE  Stock(device')
<1>0. /\ Stored(device) \in Nat /\ BlockNumbers \in Nat /\ BlockNumbers > 2 /\ device \in Device
      /\ device.header \in BOOLEAN /\ device.ymodem \in BOOLEAN
  BY StockFields DEF Typed
<1>1. CASE device' = device  BY <1>1
<1>2. CASE device' = [device EXCEPT !.phase = "over"]
  <2>1. /\ device'.phase = "over" /\ device'.stored = device.stored
        /\ device'.expects = device.expects /\ device'.header = device.header
        /\ device'.ymodem = device.ymodem
    BY <1>0, <1>2 DEF Device
  <2> QED  BY <2>1 DEF Stock, Stored
<1>3. CASE /\ item.kind = "packet" /\ Active /\ Expected(item) /\ device.header
           /\ device' = [device EXCEPT !.phase = "data", !.stored = Append(@, item.data),
                                       !.expects = (@ + 1) % BlockNumbers]
  BY <1>3, StoresNext DEF Right
<1>4. CASE ~device.header /\
           device' = [device EXCEPT !.phase = "data", !.header = TRUE, !.expects = 1]
  <2>1. /\ device'.phase = "data" /\ device'.stored = device.stored
        /\ device'.expects = 1 /\ device'.header
    BY <1>0, <1>4 DEF Device
  <2>2. Stored(device) = 0  BY <1>4 DEF Stock
  <2>3. (0 + 1) % BlockNumbers = 1
    <3>1. 1 % BlockNumbers = 1  BY <1>0, SmallNumber
    <3>2. 0 + 1 = 1  OBVIOUS
    <3> QED  BY <3>1, <3>2
  <2>4. Stored(device') = 0  BY <2>1, <2>2 DEF Stored
  <2> QED  BY <2>1, <2>2, <2>3, <2>4 DEF Stock, Stored
<1>5. CASE device' = [device EXCEPT
              !.phase = IF device.ymodem /\ device.header THEN "final" ELSE "over"]
  <2>1. /\ device'.phase = IF device.ymodem /\ device.header THEN "final" ELSE "over"
        /\ device'.stored = device.stored
        /\ device'.expects = device.expects /\ device'.header = device.header
        /\ device'.ymodem = device.ymodem
    BY <1>0, <1>5 DEF Device
  <2>2. device'.phase \in {"final", "over"} /\
        (device'.phase = "final" => device.ymodem /\ device.header)
    BY <2>1
  <2> QED  BY <2>1, <2>2 DEF Stock, Stored
<1> QED  BY <1>1, <1>2, <1>3, <1>4, <1>5 DEF Reads

(* What the tab sends, as the receiver reads it.                              *)
LEMMA SentIs ==
  ASSUME NEW t, Sender(t)
  PROVE  /\ Ending(t) => Sent(t).kind = "eot" /\ Sent(t) \in Written /\ Numbered(Sent(t))
         /\ Sending(t) => /\ Sent(t).kind = "packet" /\ Sent(t) \in Written
                          /\ Numbered(Sent(t)) /\ Sent(t).crc = t.crc
         /\ SendingHeader(t) => Sent(t).data = 0 /\ Sent(t).n = 0
         /\ SendingData(t) => Sent(t).data = t.read /\ Sent(t).n = t.read % BlockNumbers
         /\ SendingLast(t) => Sent(t).data = -1 /\ Sent(t).n = 0
<1>0. t \in Tab /\ t.crc \in BOOLEAN /\ t.read \in Nat
  <2>1. t \in Tab  BY DEF Sender
  <2> QED  BY <2>1 DEF Tab
<1>1. Ending(t) => Sent(t).kind = "eot" /\ Sent(t) \in Written /\ Numbered(Sent(t))
  BY ItemsAre, OthersNumbered DEF Sent, Ending
<1>2. ASSUME Sending(t)
      PROVE  /\ Sent(t).kind = "packet" /\ Sent(t) \in Written
             /\ Numbered(Sent(t)) /\ Sent(t).crc = t.crc /\ Sent(t) = t.packet
  <2>1. Sent(t) = t.packet
    BY <1>2 DEF Sent, Sending, SendingHeader, SendingData, SendingLast
  <2>2. /\ t.packet \in Items({"none", "packet"}) /\ t.packet \in Written
        /\ Numbered(t.packet) /\ t.packet.crc = t.crc /\ t.packet # NoPacket
    BY <1>2, ModeFields
  <2>3. t.packet.kind = "packet"
    <3>1. t.packet.kind # "none"
      <4>1. \E data, n \in Int : t.packet = Packet(data, n, t.crc)
        BY <1>0, <1>2 DEF Sending, SendingHeader, SendingData, SendingLast, Header, LastHeader
      <4> QED  BY <1>0, <4>1, PacketIs
    <3> QED  BY <2>2, <3>1 DEF Items
  <2> QED  BY <2>1, <2>2, <2>3
<1>3. 0 % BlockNumbers = 0  BY SmallNumber, SerialAssumption
<1>4. SendingHeader(t) => Sent(t).data = 0 /\ Sent(t).n = 0
  BY <1>0, <1>3, PacketIs DEF SendingHeader, Sent, Header
<1>5. SendingData(t) => Sent(t).data = t.read /\ Sent(t).n = t.read % BlockNumbers
  <2> SUFFICES ASSUME SendingData(t)
               PROVE  Sent(t).data = t.read /\ Sent(t).n = t.read % BlockNumbers
    OBVIOUS
  <2>1. Sent(t) = Packet(t.read, t.read, t.crc) /\ t.read \in Int
    BY <1>0 DEF SendingData, Sent
  <2> QED  BY <1>0, <2>1, PacketIs
<1>6. SendingLast(t) => Sent(t).data = -1 /\ Sent(t).n = 0
  <2> SUFFICES ASSUME SendingLast(t) PROVE Sent(t).data = -1 /\ Sent(t).n = 0
    OBVIOUS
  <2>1. Sent(t) = Packet(-1, 0, t.crc) /\ -1 \in Int /\ 0 \in Int
    BY <1>0 DEF SendingLast, Sent, LastHeader
  <2> QED  BY <1>0, <1>3, <2>1, PacketIs
<1> QED  BY <1>1, <1>2, <1>4, <1>5, <1>6

(* A packet that is not the one expected has been taken already.              *)
LEMMA NotExpected ==
  ASSUME Typed, Stock(device), Before(tab, device) \/ After(tab, device), Active,
         Sent(tab).kind = "packet", ~Expected(Sent(tab)), ~EndsAll(Sent(tab))
  PROVE  After(tab, device) /\ Twice(Sent(tab))
<1> DEFINE item == Sent(tab)
           n == Stored(device)
<1>0. /\ Sender(tab) /\ n \in Nat /\ BlockNumbers \in Nat /\ BlockNumbers > 2
      /\ tab.read \in Nat
  <2>1. Sender(tab)  BY DEF Typed, TabInv
  <2>2. tab \in Tab  BY <2>1 DEF Sender
  <2>3. tab.read \in Nat  BY <2>2 DEF Tab
  <2> QED  BY <2>1, <2>3, StockFields
<1>1. ~Ending(tab)  BY <1>0, SentIs
<1>2. 1 % BlockNumbers = 1 /\ 0 % BlockNumbers = 0  BY <1>0, SmallNumber
<1>3. device.expects = IF device.header THEN (n + 1) % BlockNumbers ELSE 0  BY DEF Stock
<1>4. device.phase # "final" => item.n # device.expects  BY DEF Expected
<1> HIDE DEF n, item
<1>5. CASE SendingHeader(tab)
  <2>1. item.n = 0 /\ tab.ymodem  BY <1>0, <1>5, SentIs DEF item, SendingHeader
  <2>2. ~Fresh(tab, device)
    <3> SUFFICES ASSUME Fresh(tab, device) PROVE FALSE
      OBVIOUS
    <3>1. device.phase = "start" /\ device.ymodem  BY <2>1 DEF Fresh, Active
    <3>2. ~device.header  BY <3>1 DEF Stock
    <3> QED  BY <1>3, <1>4, <2>1, <3>1, <3>2
  <2>3. InData(tab, device, 0)
    BY <1>0, <1>1, <1>5, <2>2, OneMode DEF Before, After, Sending
  <2>4. device.header /\ n = 0  BY <2>3 DEF InData, Stock, n
  <2>5. device.expects = 1
    <3>1. n + 1 = 1  BY <2>4
    <3> QED  BY <1>2, <1>3, <2>4, <3>1
  <2>6. Twice(item)
    <3>1. device.expects - 1 = 0  BY <2>5
    <3> QED  BY <1>2, <2>1, <3>1 DEF Twice
  <2> QED  BY <1>5, <2>3, <2>6 DEF After, item
<1>6. CASE SendingData(tab)
  <2>1. item.n = tab.read % BlockNumbers /\ tab.read \in 1..world.size
    BY <1>0, <1>6, SentIs DEF item, SendingData
  <2>2. ~ (~tab.ymodem /\ tab.read = 1 /\ Fresh(tab, device))
    <3> SUFFICES ASSUME ~tab.ymodem, tab.read = 1, Fresh(tab, device) PROVE FALSE
      OBVIOUS
    <3>1. device.phase = "start" /\ ~device.ymodem  BY DEF Fresh, Active
    <3>2. device.header /\ n = 0  BY <3>1 DEF Stock, n
    <3>3. n + 1 = tab.read  BY <3>2
    <3> QED  BY <1>3, <1>4, <2>1, <3>1, <3>2, <3>3
  <2>3. ~InData(tab, device, tab.read - 1)
    <3> SUFFICES ASSUME InData(tab, device, tab.read - 1) PROVE FALSE
      OBVIOUS
    <3>1. device.phase = "data" /\ n = tab.read - 1  BY DEF InData, n
    <3>2. device.header  BY <3>1 DEF Stock
    <3>3. n + 1 = tab.read  BY <1>0, <3>1
    <3> QED  BY <1>3, <1>4, <2>1, <3>1, <3>2, <3>3
  <2>4. InData(tab, device, tab.read)
    BY <1>0, <1>1, <1>6, <2>2, <2>3, OneMode DEF Before, After, Sending
  <2>5. device.header /\ n = tab.read  BY <2>4 DEF InData, Stock, n
  <2>6. Twice(item)
    <3>1. device.expects = (tab.read + 1) % BlockNumbers  BY <1>3, <2>5
    <3>2. tab.read \in Int  BY <1>0
    <3>3. (((tab.read + 1) % BlockNumbers) - 1) % BlockNumbers = tab.read % BlockNumbers
      BY <3>2, NumbersApart
    <3> QED  BY <2>1, <3>1, <3>3 DEF Twice
  <2> QED  BY <1>6, <2>4, <2>6 DEF After, item
<1>7. CASE SendingLast(tab)
  <2>1. item.data = LastHeader  BY <1>0, <1>7, SentIs DEF item, LastHeader
  <2>2. device.phase = "final" \/ device.phase = "over"
    BY <1>0, <1>1, <1>7, OneMode DEF Before, After, Sending
  <2> QED  BY <2>1, <2>2 DEF EndsAll, Active, item
<1> QED  BY <1>1, <1>5, <1>6, <1>7 DEF Before, After

(* It takes it, asks for it again, or is not there.                           *)
LEMMA SentReads ==
  ASSUME Typed, Stock(device), Before(tab, device) \/ After(tab, device),
         Reads(Sent(tab)), answers = <<>>
  PROVE  /\ Before(tab, device') \/ After(tab, device')
         /\ device'.crc = device.crc
         /\ \/ answers' = <<>> /\ ~Active /\ device' = device
            \/ answers' = <<"nak">> /\ device.crc # tab.crc /\ device' = device
            \/ answers' = <<"ack">> /\ After(tab, device')
<1> DEFINE item == Sent(tab)
           n == Stored(device)
<1>0. /\ Sender(tab) /\ n \in Nat /\ world.size \in Nat /\ tab.read \in Nat /\ device \in Device
  <2>1. Sender(tab)  BY DEF Typed, TabInv
  <2>2. tab \in Tab  BY <2>1 DEF Sender
  <2>3. tab.read \in Nat  BY <2>2 DEF Tab
  <2> QED  BY <2>1, <2>3, StockFields DEF Typed
<1>1. Sending(tab) \/ Ending(tab)  BY DEF Before, After, Sending
<1>2. item.kind \in {"packet", "eot"} /\ (item.kind = "packet" => Sending(tab) /\ item.crc = tab.crc)
  BY <1>0, <1>1, SentIs
<1>3. Right(item)
  <2>1. Fits(item, device)  BY <1>0, SentFits
  <2>2. item \in Written /\ Numbered(item)  BY <1>0, <1>1, SentIs
  <2> QED  BY <2>1, <2>2, RightOfFitting
<1>a. \A x : Append(<<>>, x) = <<x>>  OBVIOUS
<1> HIDE DEF item, n
<1>4. CASE (~Active \/ item.kind \notin {"packet", "eot", "can"})
           /\ answers' = answers /\ device' = device
  BY <1>2, <1>4
<1>5. CASE item.kind = "packet" /\ item.crc # device.crc /\ Answered("nak") /\ device' = device
  BY <1>2, <1>5, <1>a DEF Answered
<1>6. CASE /\ Active /\ item.kind = "packet" /\ EndsAll(item) /\ Answered("ack")
           /\ device' = [device EXCEPT !.phase = "over"]
  <2>1. SendingLast(tab)
    <3>1. item.data = -1  BY <1>6 DEF EndsAll, LastHeader
    <3>2. ~SendingHeader(tab)  BY <1>0, <3>1, SentIs DEF item
    <3>3. ~SendingData(tab)  BY <1>0, <3>1, SentIs DEF item
    <3> QED  BY <1>2, <1>6, <3>2, <3>3 DEF Sending
  <2>2. device'.phase = "over" /\ device'.stored = device.stored /\ device'.crc = device.crc
    BY <1>0, <1>6 DEF Device
  <2>3. n = world.size
    BY <1>0, <1>1, <2>1, OneMode DEF Before, After, Sending, n
  <2>4. After(tab, device')  BY <2>1, <2>2, <2>3 DEF After, Stored, n
  <2> QED  BY <1>6, <1>a, <2>2, <2>4 DEF Answered
<1>7. CASE /\ Active /\ item.kind = "packet" /\ Expected(item) /\ device.header
           /\ Answered("ack")
           /\ device' = [device EXCEPT !.phase = "data", !.stored = Append(@, item.data),
                                       !.expects = (@ + 1) % BlockNumbers]
  <2>1. item.data = n + 1 /\ item.data <= world.size  BY <1>3, <1>7 DEF Right, n
  <2>2. item \in Written  BY <1>0, <1>1, SentIs DEF item
  <2>3. /\ device'.phase = "data" /\ device'.ymodem = device.ymodem /\ Stored(device') = n + 1
    BY <1>7, <2>1, <2>2, StoresNext DEF n
  <2>4. device'.crc = device.crc  BY <1>0, <1>7 DEF Device
  <2>5. SendingData(tab) /\ tab.read = n + 1
    <3>1. ~SendingHeader(tab)  BY <1>0, <2>1, SentIs DEF item
    <3>2. ~SendingLast(tab)  BY <1>0, <2>1, SentIs DEF item
    <3>3. SendingData(tab)  BY <1>2, <1>7, <3>1, <3>2 DEF Sending
    <3> QED  BY <1>0, <2>1, <3>3, SentIs DEF item
  <2>6. device.ymodem = tab.ymodem
    <3>1. ~InData(tab, device, tab.read)  BY <1>0, <2>5 DEF InData, n
    <3>2. \/ ~tab.ymodem /\ tab.read = 1 /\ Fresh(tab, device)
          \/ InData(tab, device, tab.read - 1)
      BY <1>0, <1>1, <2>5, <3>1, OneMode DEF Before, After, Sending
    <3> QED  BY <1>7, <3>2 DEF InData, Fresh, Active
  <2>7. After(tab, device')  BY <2>3, <2>5, <2>6 DEF After, InData
  <2> QED  BY <1>7, <1>a, <2>4, <2>7 DEF Answered
<1>8. CASE /\ Active /\ item.kind = "packet" /\ Expected(item) /\ ~device.header
           /\ Answered("ack")
           /\ device' = [device EXCEPT !.phase = "data", !.header = TRUE, !.expects = 1]
  <2>1. device.phase = "start" /\ device.ymodem /\ n = 0
    BY <1>8 DEF Active, Expected, Stock, n
  <2>2. /\ device'.phase = "data" /\ device'.stored = device.stored
        /\ device'.ymodem = device.ymodem /\ device'.crc = device.crc
    BY <1>0, <1>8 DEF Device
  <2>3. SendingHeader(tab) /\ tab.ymodem
    <3>1. ~(~tab.ymodem /\ Fresh(tab, device))  BY <2>1 DEF Fresh
    <3>2. \A m \in Int : ~InData(tab, device, m)  BY <2>1 DEF InData
    <3>3. tab.read - 1 \in Int /\ tab.read \in Int /\ world.size \in Int /\ 0 \in Int
      BY <1>0
    <3>4. SendingHeader(tab)
      BY <1>0, <1>2, <1>8, <2>1, <3>1, <3>2, <3>3, OneMode DEF Before, After, Sending
    <3> QED  BY <3>4 DEF SendingHeader
  <2>4. Stored(device') = 0  BY <2>1, <2>2 DEF Stored, n
  <2>5. After(tab, device')  BY <2>1, <2>2, <2>3, <2>4 DEF After, InData
  <2> QED  BY <1>8, <1>a, <2>2, <2>5 DEF Answered
<1>9. CASE /\ Active /\ item.kind = "packet" /\ ~Expected(item) /\ ~EndsAll(item) /\ Twice(item)
           /\ Answered("ack") /\ device' = device
  <2>1. After(tab, device)  BY <1>9, NotExpected DEF item
  <2> QED  BY <1>9, <1>a, <2>1 DEF Answered
<1>10. CASE /\ Active /\ item.kind = "packet" /\ ~Expected(item) /\ ~EndsAll(item) /\ ~Twice(item)
  BY <1>10, NotExpected DEF item
<1>11. CASE /\ Active /\ item.kind = "eot" /\ Answered("ack")
            /\ device' = [device EXCEPT
                 !.phase = IF device.ymodem /\ device.header THEN "final" ELSE "over"]
  <2>1. Ending(tab)  BY <1>0, <1>1, <1>11, SentIs DEF item
  <2>2. /\ device'.phase = IF device.ymodem /\ device.header THEN "final" ELSE "over"
        /\ device'.stored = device.stored /\ device'.crc = device.crc
    BY <1>0, <1>11 DEF Device
  <2>3. \/ ~tab.ymodem /\ world.size = 0 /\ Fresh(tab, device)
        \/ InData(tab, device, world.size)
        \/ device.phase = (IF tab.ymodem THEN "final" ELSE "over") /\ n = world.size
    BY <1>0, <2>1, OneMode DEF Before, After, Sending, n
  <2>4. /\ n = world.size
        /\ device'.phase = IF tab.ymodem THEN "final" ELSE "over"
    <3>1. CASE ~tab.ymodem /\ world.size = 0 /\ Fresh(tab, device)
      <4>1. device.phase = "start" /\ ~device.ymodem  BY <1>11, <3>1 DEF Fresh, Active
      <4>2. n = 0  BY <4>1 DEF Stock, n
      <4> QED  BY <2>2, <3>1, <4>1, <4>2
    <3>2. CASE InData(tab, device, world.size)
      <4>1. device.header  BY <3>2 DEF InData, Stock
      <4> QED  BY <2>2, <3>2, <4>1 DEF InData, n
    <3>3. CASE device.phase = (IF tab.ymodem THEN "final" ELSE "over") /\ n = world.size
      <4>1. device.phase = "final" /\ tab.ymodem  BY <1>11, <3>3 DEF Active
      <4>2. device.ymodem /\ device.header  BY <4>1 DEF Stock
      <4> QED  BY <2>2, <3>3, <4>1, <4>2
    <3> QED  BY <2>3, <3>1, <3>2, <3>3
  <2>5. After(tab, device')  BY <2>1, <2>2, <2>4 DEF After, Stored, n
  <2> QED  BY <1>11, <1>a, <2>2, <2>5 DEF Answered
<1>12. item.kind # "can"  BY <1>2
<1>13. Reads(item)  BY DEF item
<1> QED  BY <1>4, <1>5, <1>6, <1>7, <1>8, <1>9, <1>10, <1>11, <1>12, <1>13 DEF Reads

(* Each step of the tab keeps track.                                          *)
LEMMA TrackedIn ==
  ASSUME NEW t, Sender(t), NEW d, NEW l, NEW a,
         \/ Awaiting(t) /\ AwaitInv(t, d, l, a)
         \/ (Sending(t) \/ Ending(t)) /\ SendInv(t, d, l, a)
         \/ Resting(t) /\ RestInv(t, d, l)
  PROVE  Tracked(t, d, l, a)
BY OneMode DEF Tracked

LEMMA InOneMode ==
  ASSUME NEW t, Sender(t)
  PROVE  /\ t.file => Awaiting(t) \/ Sending(t) \/ Ending(t)
         /\ ~t.file <=> Resting(t)
         /\ Awaiting(t) \/ Sending(t) \/ Ending(t) => t.file
BY ModeFields DEF Sender, Awaiting, Ending, Sending, SendingHeader, SendingData, SendingLast

LEMMA OpenFile ==
  ASSUME Typed, Clean, tab.file
  PROVE  tab.open /\ tab.zmodem = 0
BY DEF Typed, TabInv, Clean

Pair(s, x, y) == Len(s) = 2 /\ s[1] = x /\ s[2] = y

LEMMA TwoItems ==
  ASSUME NEW x, NEW y
  PROVE  Pair(<<x>> \o <<y>>, x, y)
<1>1. <<x>> \in Seq({x, y}) /\ <<y>> \in Seq({x, y}) /\ Len(<<x>>) = 1 /\ Len(<<y>>) = 1
      /\ <<x>>[1] = x /\ <<y>>[1] = y
  OBVIOUS
<1> DEFINE s == <<x>>
           t == <<y>>
<1>2. s \in Seq({x, y}) /\ t \in Seq({x, y}) /\ Len(s) = 1 /\ Len(t) = 1 /\ s[1] = x /\ t[1] = y
  BY <1>1
<1> HIDE DEF s, t
<1>3. /\ Len(s \o t) = Len(s) + Len(t)
      /\ \A i \in 1..Len(s) + Len(t) :
           (s \o t)[i] = IF i <= Len(s) THEN s[i] ELSE t[i - Len(s)]
  BY <1>2, ConcatProperties
<1>c. 1 \in 1..Len(s) + Len(t) /\ 2 \in 1..Len(s) + Len(t) /\ 2 - Len(s) = 1 /\ ~(2 <= Len(s))
      /\ 1 <= Len(s) /\ Len(s) + Len(t) = 2
  BY <1>2
<1>4. Pair(s \o t, x, y)  BY <1>2, <1>3, <1>c DEF Pair
<1> QED  BY <1>4 DEF s, t

LEMMA GivesUp ==
  ASSUME Typed, Stock(device), Clean, Tracked(tab, device, line, answers), tab.file,
         line' = line \o <<Item("can")>>, tab'.result # "complete"
  PROVE  RestInv(tab', device, line')
<1> DEFINE c == Item("can")
<1>0. Sender(tab) /\ c.kind = "can"  BY ItemsAre DEF Typed, TabInv
<1> HIDE DEF c
<1>1. line = <<>> \/ (line = <<Sent(tab)>> /\ (Before(tab, device) \/ After(tab, device)))
  BY <1>0, InOneMode DEF Tracked, AwaitInv, SendInv
<1>2. CASE line = <<>>
  <2>1. line' = <<c>>  BY <1>2 DEF c
  <2>2. line'[1] = c /\ \A i \in 2..Len(line') : FALSE  BY <2>1
  <2>3. Fits(c, device)  BY <1>0 DEF Fits
  <2> QED  BY <2>2, <2>3 DEF RestInv
<1>3. CASE line = <<Sent(tab)>> /\ (Before(tab, device) \/ After(tab, device))
  <2>1. line' = <<Sent(tab)>> \o <<c>>  BY <1>3 DEF c
  <2>2. Pair(line', Sent(tab), c)  BY <2>1, TwoItems, Zenon
  <2>3. line'[1] = Sent(tab) /\ \A i \in 2..Len(line') : line'[i] = c  BY <2>2 DEF Pair
  <2>4. Fits(Sent(tab), device)  BY <1>0, <1>3, SentFits
  <2> QED  BY <1>0, <2>3, <2>4 DEF RestInv
<1> QED  BY <1>1, <1>2, <1>3

LEMMA QuietLine ==
  ASSUME Typed, ~InFlight
  PROVE  line = <<>> /\ answers = <<>> /\ \A x : <<>> \o <<x>> = <<x>>
BY DEF InFlight

LEMMA TrackedOnTimeout ==
  ASSUME Typed, Stock(device), Clean, Tracked(tab, device, line, answers), OnTimeout, Clean'
  PROVE  Tracked(tab', device', line', answers')
<1>1. /\ tab.file /\ Leaves(Timeout(tab)) /\ UNCHANGED <<answers, device>>
      /\ world' = [world EXCEPT !.overtaken = @ \/ InFlight]
  BY DEF OnTimeout
<1>2. Sender(tab) /\ ~tab.returned /\ tab.written = <<>> /\ LineInv(line)
  BY DEF Typed, TabInv
<1>3. ~InFlight
  <2>1. world \in World  BY DEF Typed
  <2> QED  BY <1>1, <2>1 DEF Clean, World
<1>4. line = <<>> /\ answers = <<>>  BY <1>3, QuietLine
<1>5. tab.open  BY <1>1, OpenFile
<1> DEFINE u == Timeout(tab)
<1>6. Sender(u) /\ u.returned = tab.returned  BY <1>1, <1>2, TimeoutSound
<1>7. /\ TooMany(tab.retries + 1) =>
           /\ Resting(u) /\ Wrote(tab, u, Item("can"))
           /\ u.result = IF Awaiting(tab) THEN "unheard" ELSE "timed out"
      /\ ~TooMany(tab.retries + 1) =>
           /\ SameWork(tab, u) /\ u.result = tab.result
           /\ IF Awaiting(tab) THEN u.written = tab.written ELSE Wrote(tab, u, Sent(tab))
  BY <1>1, <1>2, TimeoutDoes
<1>8. Leaves(u)  BY <1>1
<1> HIDE DEF u
<1>9. /\ Sender(tab') /\ SameWork(u, tab') /\ tab'.result = u.result
      /\ line' = line \o u.written
  BY <1>2, <1>6, <1>8, LeavesDoes
<1>a. \A x : Append(<<>>, x) = <<x>> /\ <<>> \o <<x>> = <<x>>  OBVIOUS
<1>b. <<>> \o <<>> = <<>>  OBVIOUS
<1>10. CASE TooMany(tab.retries + 1)
  <2>1. u.written = <<Item("can")>>  BY <1>2, <1>5, <1>7, <1>10, <1>a DEF Wrote
  <2>2. Resting(tab') /\ tab'.result \in {"unheard", "timed out"}  BY <1>7, <1>9, <1>10, SameModes
  <2>3. RestInv(tab', device, line')  BY <1>1, <1>9, <2>1, <2>2, GivesUp
  <2> QED  BY <1>1, <1>9, <2>2, <2>3, TrackedIn
<1>11. CASE ~TooMany(tab.retries + 1) /\ Awaiting(tab)
  <2>1. line' = line  BY <1>2, <1>4, <1>7, <1>9, <1>11, <1>b
  <2>2. SameWork(tab, tab')  BY <1>7, <1>9, <1>11 DEF SameWork
  <2>3. Awaiting(tab') /\ AwaitInv(tab', device, line, answers)
    BY <1>11, <2>2, SameModes, SameTracked DEF Tracked
  <2> QED  BY <1>1, <1>9, <2>1, <2>3, TrackedIn
<1>12. CASE ~TooMany(tab.retries + 1) /\ ~Awaiting(tab)
  <2>1. SameWork(tab, tab')  BY <1>7, <1>9, <1>12 DEF SameWork
  <2>2. Sending(tab) \/ Ending(tab)  BY <1>1, <1>2, <1>12, InOneMode
  <2>3. line' = <<Sent(tab)>>  BY <1>2, <1>4, <1>5, <1>7, <1>9, <1>12, <1>a DEF Wrote
  <2>4. Before(tab, device) \/ After(tab, device)  BY <2>2 DEF Tracked, SendInv
  <2>5. SendInv(tab, device, line', answers')  BY <1>1, <1>4, <2>3, <2>4 DEF SendInv
  <2>6. (Sending(tab') \/ Ending(tab')) /\ SendInv(tab', device, line', answers')
    BY <2>1, <2>2, <2>5, SameModes, SameTracked
  <2> QED  BY <1>1, <1>9, <2>6, TrackedIn
<1> QED  BY <1>10, <1>11, <1>12

(* The bytes the tab reads: at most one while it sends a file.                *)
GoesWell(h) ==
    /\ Sender(h) /\ (Sending(h) \/ Ending(h)) /\ Before(h, device)
    /\ h.written = <<Sent(h)>> /\ h.result = tab.result

LEMMA StartGoesWell ==
  ASSUME Typed, Clean, Awaiting(tab), Fresh(tab, device), NEW byte \in {"C", "nak"}
  PROVE  LET h == HandleByte(tab, byte)
         IN  /\ GoesWell(h) /\ h.retries = 0 /\ h.crc = (byte = "C") /\ h.returned = tab.returned
<1> DEFINE h == HandleByte(tab, byte)
           s == [tab EXCEPT !.crc = byte = "C"]
<1>1. /\ Sender(tab) /\ ~tab.returned /\ tab.written = <<>> /\ world \in World
      /\ world.size \in Nat
  BY StockFields DEF Typed, TabInv
<1>2. tab.file /\ tab.packet = NoPacket /\ ~tab.waitingEotAck  BY DEF Awaiting
<1>3. tab.open  BY <1>2, OpenFile
<1>4. h = StartByte(tab, byte)  BY <1>1, <1>2 DEF HandleByte
<1>5. /\ h = SendXmodemPacket(s)
      /\ Unsent(s) /\ s.crc = (byte = "C") /\ s.ymodem = tab.ymodem
      /\ s.open = tab.open /\ s.written = tab.written /\ s.result = tab.result
      /\ s.returned = tab.returned /\ s.headerPending = tab.ymodem /\ s.read = 0
  BY <1>1, <1>4, StartDoes
<1> HIDE DEF s, h
<1>6. Goes(s, h)  BY <1>1, <1>5, SendXmodemPacketDoes
<1>7. Sender(h)  BY <1>1, <1>5, <1>6, GoesOn
<1>8. /\ h.crc = (byte = "C") /\ h.ymodem = tab.ymodem /\ h.returned = tab.returned
      /\ h.retries = 0 /\ Wrote(s, h, Sent(h)) /\ h.result = tab.result
  BY <1>5, <1>6 DEF Goes
<1>9. h.written = <<Sent(h)>>
  <2>1. \A x : Append(<<>>, x) = <<x>>  OBVIOUS
  <2> QED  BY <1>1, <1>3, <1>5, <1>8, <2>1 DEF Wrote
<1>10. Fresh(h, device)  BY <1>8 DEF Fresh
<1>11. world.disturbed = "no"  BY DEF Clean, Disturbed
<1>12. CASE tab.ymodem
  <2>1. SendingHeader(h)  BY <1>5, <1>6, <1>12 DEF Goes
  <2> QED  BY <1>7, <1>8, <1>9, <1>10, <2>1 DEF GoesWell, Before, Sending, h
<1>13. CASE ~tab.ymodem /\ 0 < world.size
  <2>1. SendingData(h) /\ h.read = 0 + 1
    BY <1>5, <1>6, <1>11, <1>13 DEF Goes
  <2> QED  BY <1>7, <1>8, <1>9, <1>10, <1>13, <2>1 DEF GoesWell, Before, Sending, h
<1>14. CASE ~tab.ymodem /\ ~(0 < world.size)
  <2>1. Ending(h)  BY <1>5, <1>6, <1>11, <1>14 DEF Goes
  <2>2. world.size = 0  BY <1>1, <1>14
  <2> QED  BY <1>7, <1>8, <1>9, <1>10, <1>14, <2>1, <2>2 DEF GoesWell, Before, Sending, h
<1> QED  BY <1>12, <1>13, <1>14

LEMMA AckGoesWell ==
  ASSUME Typed, Clean, SendingHeader(tab) \/ SendingData(tab), After(tab, device)
  PROVE  LET h == HandleByte(tab, "ack")
         IN  /\ GoesWell(h) /\ h.retries = 0 /\ h.crc = tab.crc /\ h.returned = tab.returned
<1> DEFINE h == HandleByte(tab, "ack")
<1>1. /\ Sender(tab) /\ ~tab.returned /\ tab.written = <<>> /\ world \in World
      /\ world.size \in Nat
  BY StockFields DEF Typed, TabInv
<1>2. tab.file /\ tab.packet # NoPacket /\ ~tab.waitingEotAck
  BY <1>1, ModeFields DEF Sending, SendingHeader, SendingData
<1>3. tab.open  BY <1>2, OpenFile
<1>4. h = AckByte(tab)  BY <1>1, <1>2 DEF HandleByte
<1> HIDE DEF h
<1>5. PICK s : /\ h = SendXmodemPacket(s) /\ Unsent(s)
               /\ s.crc = tab.crc /\ s.ymodem = tab.ymodem /\ s.result = tab.result
               /\ s.open = tab.open /\ s.written = tab.written /\ s.returned = tab.returned
               /\ ~s.headerPending /\ s.read = tab.read
  BY <1>1, <1>4, AckHeaderOrData
<1>6. Goes(s, h)  BY <1>1, <1>5, SendXmodemPacketDoes
<1>7. Sender(h)  BY <1>1, <1>5, <1>6, GoesOn
<1>8. /\ h.crc = tab.crc /\ h.ymodem = tab.ymodem /\ h.returned = tab.returned
      /\ h.retries = 0 /\ Wrote(s, h, Sent(h)) /\ h.result = tab.result
  BY <1>5, <1>6 DEF Goes
<1>9. h.written = <<Sent(h)>>
  <2>1. \A x : Append(<<>>, x) = <<x>>  OBVIOUS
  <2> QED  BY <1>1, <1>3, <1>5, <1>8, <2>1 DEF Wrote
<1>10. /\ InData(tab, device, tab.read) /\ tab.read \in Nat /\ tab.read <= world.size
       /\ (tab.ymodem \/ tab.read > 0)
  <2>1. tab.read <= world.size /\ tab \in Tab  BY <1>1 DEF Sender
  <2>2. tab.read \in Nat  BY <2>1 DEF Tab
  <2>3. CASE SendingHeader(tab)
    <3>1. tab.read = 0 /\ tab.ymodem  BY <2>3 DEF SendingHeader
    <3>2. InData(tab, device, 0)  BY <1>1, <2>3, OneMode DEF After, Sending
    <3> QED  BY <2>1, <2>2, <3>1, <3>2
  <2>4. CASE SendingData(tab)
    <3>1. tab.read \in 1..world.size  BY <2>4 DEF SendingData
    <3>2. InData(tab, device, tab.read)  BY <1>1, <2>4, OneMode DEF After, Sending
    <3> QED  BY <2>1, <2>2, <3>1, <3>2
  <2> QED  BY <2>3, <2>4
<1>11. world.disturbed = "no"  BY DEF Clean, Disturbed
<1>12. CASE tab.read < world.size
  <2>1. SendingData(h) /\ h.read = tab.read + 1
    BY <1>5, <1>6, <1>11, <1>12 DEF Goes
  <2>2. h.read - 1 = tab.read /\ (h.ymodem \/ h.read > 1)  BY <1>8, <1>10, <2>1
  <2>3. InData(h, device, h.read - 1)  BY <1>8, <1>10, <2>2 DEF InData
  <2> QED  BY <1>7, <1>8, <1>9, <2>1, <2>2, <2>3 DEF GoesWell, Before, Sending, h
<1>13. CASE ~(tab.read < world.size)
  <2>1. Ending(h)  BY <1>5, <1>6, <1>11, <1>13 DEF Goes
  <2>2. tab.read = world.size  BY <1>1, <1>10, <1>13
  <2>3. InData(h, device, world.size) /\ (h.ymodem \/ world.size > 0)
    BY <1>8, <1>10, <2>2 DEF InData
  <2> QED  BY <1>7, <1>8, <1>9, <2>1, <2>3 DEF GoesWell, Before, Sending, h
<1> QED  BY <1>12, <1>13

LEMMA EndGoesWell ==
  ASSUME Typed, Clean, Ending(tab), After(tab, device)
  PROVE  LET h == HandleByte(tab, "ack")
         IN  /\ tab.ymodem => GoesWell(h) /\ h.retries = 0 /\ h.crc = tab.crc
             /\ ~tab.ymodem => /\ Sender(h) /\ Resting(h) /\ h.result = "complete"
                               /\ h.written = <<>>
                               /\ Stored(device) = world.size /\ device.phase = "over"
<1> DEFINE h == HandleByte(tab, "ack")
<1>1. Sender(tab) /\ ~tab.returned /\ tab.written = <<>>  BY DEF Typed, TabInv
<1>2. tab.file /\ tab.waitingEotAck  BY DEF Ending
<1>3. tab.open  BY <1>2, OpenFile
<1>4. h = EotByte(tab, "ack")  BY <1>1, <1>2 DEF HandleByte
<1>5. device.phase = (IF tab.ymodem THEN "final" ELSE "over") /\ Stored(device) = world.size
  BY <1>1, OneMode DEF After, Sending
<1> HIDE DEF h
<1>6. /\ h \in Tab /\ AllNumbered(h.written) /\ h.read = tab.read
      /\ tab.ymodem => /\ SendingLast(h) /\ h.retries = 0 /\ h.result = tab.result
                       /\ h.crc = tab.crc /\ Wrote(tab, h, Sent(h))
      /\ ~tab.ymodem => Resting(h) /\ h.result = "complete" /\ h.written = tab.written
  BY <1>1, <1>4, EotDoes
<1>7. CASE tab.ymodem
  <2>1. \A x : Append(<<>>, x) = <<x>>  OBVIOUS
  <2>2. h.written = <<Sent(h)>>  BY <1>1, <1>3, <1>6, <1>7, <2>1 DEF Wrote
  <2>3. Before(h, device)  BY <1>5, <1>6, <1>7 DEF Before
  <2>4. MaxRetries \in Nat \ {0}  BY SerialAssumption
  <2>5. h.read <= world.size  BY <1>1, <1>6 DEF Sender
  <2>6. Sender(h)  BY <1>6, <1>7, <2>4, <2>5 DEF Sender, Sending, AllNumbered
  <2> QED  BY <1>6, <1>7, <2>2, <2>3, <2>6 DEF GoesWell, Sending, h
<1>8. CASE ~tab.ymodem
  <2>1. Sender(h)  BY <1>1, <1>6, <1>8, RestsSound
  <2> QED  BY <1>1, <1>5, <1>6, <1>8, <2>1 DEF h
<1> QED  BY <1>7, <1>8

Expecting(byte) ==
    \/ Awaiting(tab) /\ byte \in {"C", "nak"} /\ Fresh(tab, device)
    \/ /\ Sending(tab) \/ Ending(tab)
       /\ byte \in {"C", "nak"} \/ (byte = "ack" /\ After(tab, device))

Outcome(byte, h) ==
    \/ /\ GoesWell(h) /\ h.retries = 0
       /\ h.crc = IF Awaiting(tab) THEN byte = "C" ELSE tab.crc
    \/ /\ Resting(h) /\ h.result = "complete" /\ h.written = <<>>
       /\ Stored(device) = world.size /\ device.phase = "over"
    \/ /\ Sending(tab) /\ byte = "nak" /\ TooMany(tab.retries + 1)
       /\ Resting(h) /\ h.result = "failed" /\ h.written = <<Item("can")>>
    \/ /\ Sending(tab) /\ byte = "nak" /\ SameWork(tab, h) /\ h.result = tab.result
       /\ h.retries = tab.retries + 1 /\ ~TooMany(tab.retries + 1)
       /\ h.written = <<Sent(tab)>>
    \/ (Sending(tab) \/ Ending(tab)) /\ byte \in {"C", "nak"} /\ h = tab

LEMMA OutcomeIs ==
  ASSUME Typed, Clean, NEW byte, Expecting(byte)
  PROVE  Outcome(byte, HandleByte(tab, byte))
<1> DEFINE h == HandleByte(tab, byte)
<1>1. Sender(tab) /\ ~tab.returned /\ tab.written = <<>>  BY DEF Typed, TabInv
<1>2. tab.open  BY <1>1, InOneMode, OpenFile DEF Expecting
<1>a. \A x : Append(<<>>, x) = <<x>>  OBVIOUS
<1>3. CASE Awaiting(tab)
  <2>1. byte \in {"C", "nak"} /\ Fresh(tab, device)  BY <1>1, <1>3, OneMode DEF Expecting
  <2> QED  BY <1>3, <2>1, StartGoesWell DEF Outcome
<1>4. CASE (SendingHeader(tab) \/ SendingData(tab)) /\ byte = "ack"
  <2>1. Sending(tab) /\ ~Awaiting(tab)  BY <1>1, <1>4, OneMode DEF Sending
  <2>2. After(tab, device)  BY <1>4, <2>1 DEF Expecting
  <2> QED  BY <1>4, <2>1, <2>2, AckGoesWell DEF Outcome
<1>5. CASE SendingLast(tab) /\ byte = "ack"
  <2>1. Sending(tab) /\ ~Awaiting(tab)  BY <1>1, <1>5, OneMode DEF Sending
  <2>2. After(tab, device)  BY <1>5, <2>1 DEF Expecting
  <2>3. device.phase = "over" /\ Stored(device) = world.size
    BY <1>1, <1>5, <2>1, <2>2, OneMode DEF After
  <2>4. tab.packet # NoPacket /\ ~tab.waitingEotAck
    BY <1>1, <2>1, <1>5, ModeFields DEF SendingLast
  <2>5. h = AckByte(tab)  BY <1>1, <1>5, <2>4 DEF HandleByte
  <2>6. Resting(h) /\ h.result = "complete" /\ h.written = <<>>
    BY <1>1, <1>5, <2>5, AckLast
  <2> QED  BY <2>3, <2>6 DEF Outcome
<1>6. CASE Sending(tab) /\ byte = "nak"
  <2>1. tab.packet # NoPacket /\ ~tab.waitingEotAck
    BY <1>1, <1>6, ModeFields DEF Sending, SendingHeader, SendingData, SendingLast
  <2>2. h = NakByte(tab)  BY <1>1, <1>6, <2>1 DEF HandleByte
  <2>3. /\ TooMany(tab.retries + 1) =>
             Resting(h) /\ h.result = "failed" /\ Wrote(tab, h, Item("can"))
        /\ ~TooMany(tab.retries + 1) =>
             /\ SameWork(tab, h) /\ h.retries = tab.retries + 1 /\ Wrote(tab, h, Sent(tab))
             /\ h.result = tab.result
    BY <1>1, <1>6, <2>2, NakDoes
  <2> HIDE DEF h
  <2>4. CASE TooMany(tab.retries + 1)
    <3>1. h.written = <<Item("can")>>  BY <1>1, <1>2, <1>a, <2>3, <2>4 DEF Wrote
    <3> QED  BY <1>6, <2>3, <2>4, <3>1 DEF Outcome, h
  <2>5. CASE ~TooMany(tab.retries + 1)
    <3>1. h.written = <<Sent(tab)>>  BY <1>1, <1>2, <1>a, <2>3, <2>5 DEF Wrote
    <3> QED  BY <1>6, <2>3, <2>5, <3>1 DEF Outcome, h
  <2> QED  BY <2>4, <2>5
<1>7. CASE Sending(tab) /\ byte = "C"
  <2>1. tab.packet # NoPacket /\ ~tab.waitingEotAck
    BY <1>1, <1>7, ModeFields DEF Sending, SendingHeader, SendingData, SendingLast
  <2>2. h = tab  BY <1>1, <1>7, <2>1 DEF HandleByte
  <2> QED  BY <1>7, <2>2 DEF Outcome
<1>8. CASE Ending(tab) /\ byte = "ack"
  <2>1. ~Awaiting(tab) /\ ~Sending(tab)  BY <1>1, <1>8, OneMode
  <2>2. After(tab, device)  BY <1>8, <2>1 DEF Expecting
  <2>3. \/ GoesWell(h) /\ h.retries = 0 /\ h.crc = tab.crc
        \/ /\ Resting(h) /\ h.result = "complete" /\ h.written = <<>>
           /\ Stored(device) = world.size /\ device.phase = "over"
    BY <1>8, <2>2, EndGoesWell
  <2> QED  BY <2>1, <2>3 DEF Outcome
<1>9. CASE Ending(tab) /\ byte \in {"C", "nak"}
  <2>1. tab.waitingEotAck  BY <1>9 DEF Ending
  <2>2. h = tab  BY <1>1, <1>9, <2>1 DEF HandleByte, EotByte
  <2> QED  BY <1>9, <2>2 DEF Outcome
<1>10. byte \in {"C", "nak", "ack"}  BY DEF Expecting
<1> QED  BY <1>1, <1>3, <1>4, <1>5, <1>6, <1>7, <1>8, <1>9, <1>10 DEF Expecting, Sending

LEMMA ReadsOne ==
  ASSUME Typed, Clean, Tracked(tab, device, line, answers), ReadyRead, tab.file
  PROVE  LET h == HandleByte(tab, answers[1])
         IN  /\ line = <<>> /\ Len(answers) = 1 /\ answers' = <<>> /\ UNCHANGED <<device, world>>
             /\ Expecting(answers[1]) /\ Sender(tab') /\ SameWork(h, tab')
             /\ tab'.result = h.result /\ tab'.retries = h.retries /\ line' = h.written
             /\ tab'.open = tab.open
<1> DEFINE byte == answers[1]
           h == HandleByte(tab, byte)
<1>1. PICK k \in 1..Len(answers) :
        /\ answers' = SubSeq(answers, k + 1, Len(answers))
        /\ Leaves(IF tab.zmodem = 0 /\ tab.file
                  THEN HandleXmodemInput(tab, SubSeq(answers, 1, k)) ELSE tab)
  BY DEF ReadyRead
<1>2. UNCHANGED <<device, world>>  BY DEF ReadyRead
<1>3. /\ Sender(tab) /\ ~tab.returned /\ answers \in Seq(Bytes) /\ LineInv(line)
      /\ world \in World
  BY DEF Typed, TabInv
<1>4. tab.zmodem = 0  BY OpenFile
<1>5. Len(answers) \in Nat /\ Len(answers) >= 1 /\ answers # <<>>
  BY <1>1, <1>3
<1>6. line = <<>> /\ Len(answers) <= 1 /\ Expecting(byte)
  <2>1. CASE Awaiting(tab)
    <3>1. AwaitInv(tab, device, line, answers)  BY <2>1 DEF Tracked
    <3> QED  BY <1>5, <2>1, <3>1 DEF AwaitInv, Expecting
  <2>2. CASE Sending(tab) \/ Ending(tab)
    <3>1. SendInv(tab, device, line, answers)  BY <2>2 DEF Tracked
    <3> QED  BY <1>5, <2>2, <3>1 DEF SendInv, Expecting
  <2> QED  BY <1>3, <2>1, <2>2, InOneMode
<1>7. Len(answers) = 1 /\ k = 1  BY <1>1, <1>5, <1>6
<1>8. answers' = <<>>  BY <1>1, <1>3, <1>7
<1> DEFINE data == SubSeq(answers, 1, 1)
<1>9. data \in Seq(Bytes) /\ Len(data) = 1 /\ data[1] = byte /\ byte \in Bytes
  <2>1. \A s \in Seq(Bytes) : Len(s) = 1 =>
          /\ SubSeq(s, 1, 1) \in Seq(Bytes) /\ Len(SubSeq(s, 1, 1)) = 1
          /\ SubSeq(s, 1, 1)[1] = s[1] /\ s[1] \in Bytes
    OBVIOUS
  <2> QED  BY <1>3, <1>7, <2>1
<1> HIDE DEF data, byte
<1>10. Leaves(HandleXmodemInput(tab, data))  BY <1>1, <1>4, <1>7 DEF data
<1>11. HandleXmodemInput(tab, data) = Returned(h)  BY <1>9, InputOfOne
<1>12. Sender(h) /\ Kept(tab, h)  BY <1>3, <1>9, HandleByteKeeps
<1> DEFINE u == Returned(h)
<1>13. Sender(u) /\ ~u.returned  BY <1>12, ReturnedKeeps
<1>14. SameWork(h, u) /\ u.written = h.written /\ u.result = h.result /\ u.retries = h.retries
       /\ Kept(h, u)
  BY <1>12, ReturnedIs DEF Sender
<1>15. Leaves(u)  BY <1>10, <1>11
<1> HIDE DEF u, h
<1>16. /\ Sender(tab') /\ SameWork(u, tab') /\ tab'.result = u.result
       /\ tab'.retries = u.retries /\ tab'.open = u.open /\ line' = line \o u.written
  BY <1>3, <1>13, <1>15, LeavesDoes
<1>17. line' = u.written
  <2>1. u.written \in Seq(Written)
    <3>1. u \in Tab  BY <1>13 DEF Sender
    <3> QED  BY <3>1 DEF Tab, Written
  <2>2. <<>> \o u.written = u.written  BY <2>1
  <2> QED  BY <1>6, <1>16, <2>2
<1>18. SameWork(h, tab')  BY <1>14, <1>16 DEF SameWork
<1>19. tab'.open = tab.open  BY <1>12, <1>14, <1>16 DEF Kept
<1> QED  BY <1>2, <1>6, <1>7, <1>8, <1>14, <1>16, <1>17, <1>18, <1>19 DEF h, byte

LEMMA TrackedReadyRead ==
  ASSUME Typed, Stock(device), Clean, Tracked(tab, device, line, answers), ReadyRead
  PROVE  Tracked(tab', device', line', answers')
<1>1. Sender(tab) /\ ~tab.returned /\ tab.written = <<>> /\ LineInv(line)
  BY DEF Typed, TabInv
<1>2. CASE tab.file
  <2> DEFINE byte == answers[1]
             h == HandleByte(tab, byte)
  <2>1. /\ line = <<>> /\ answers' = <<>> /\ UNCHANGED <<device, world>>
        /\ Expecting(byte) /\ Sender(tab') /\ SameWork(h, tab')
        /\ tab'.result = h.result /\ line' = h.written
    BY <1>2, ReadsOne
  <2>2. Outcome(byte, h)  BY <2>1, OutcomeIs
  <2> HIDE DEF h, byte
  <2>3. CASE GoesWell(h)
    <3>1. (Sending(tab') \/ Ending(tab')) /\ Before(tab', device) /\ Sent(tab') = Sent(h)
      BY <2>1, <2>3, SameModes, SameTracked DEF GoesWell
    <3>2. line' = <<Sent(tab')>>  BY <2>1, <2>3, <3>1 DEF GoesWell
    <3>3. SendInv(tab', device', line', answers')  BY <2>1, <3>1, <3>2 DEF SendInv
    <3> QED  BY <2>1, <3>1, <3>3, TrackedIn
  <2>4. CASE /\ Resting(h) /\ h.written = <<>>
             /\ Stored(device) = world.size /\ device.phase = "over"
    <3>1. Resting(tab')  BY <2>1, <2>4, SameModes
    <3>2. line' = <<>> /\ \A i \in 2..Len(line') : FALSE  BY <2>1, <2>4
    <3>3. RestInv(tab', device', line')  BY <2>1, <2>4, <3>2 DEF RestInv
    <3> QED  BY <2>1, <3>1, <3>3, TrackedIn
  <2>5. CASE Resting(h) /\ h.result = "failed" /\ h.written = <<Item("can")>>
    <3>1. Resting(tab')  BY <2>1, <2>5, SameModes
    <3>2. line' = line \o <<Item("can")>>
      <4>1. <<>> \o <<Item("can")>> = <<Item("can")>>  OBVIOUS
      <4> QED  BY <2>1, <2>5, <4>1
    <3>3. RestInv(tab', device, line')  BY <1>2, <2>1, <2>5, <3>2, GivesUp
    <3> QED  BY <2>1, <3>1, <3>3, TrackedIn
  <2>6. CASE Sending(tab) /\ SameWork(tab, h) /\ h.written = <<Sent(tab)>>
    <3>1. SameWork(tab, tab')  BY <2>1, <2>6 DEF SameWork
    <3>2. Before(tab, device) \/ After(tab, device)  BY <2>6 DEF Tracked, SendInv
    <3>3. SendInv(tab, device, line', answers')  BY <2>1, <2>6, <3>2 DEF SendInv
    <3>4. Sending(tab') /\ SendInv(tab', device', line', answers')
      BY <2>1, <2>6, <3>1, <3>3, SameModes, SameTracked
    <3> QED  BY <2>1, <3>4, TrackedIn
  <2>7. CASE (Sending(tab) \/ Ending(tab)) /\ h = tab
    <3>1. SameWork(tab, tab')  BY <2>1, <2>7
    <3>2. Before(tab, device) \/ After(tab, device)  BY <2>7 DEF Tracked, SendInv
    <3>3. line' = <<>>  BY <1>1, <2>1, <2>7
    <3>4. SendInv(tab, device, line', answers')  BY <2>1, <3>2, <3>3 DEF SendInv
    <3>5. (Sending(tab') \/ Ending(tab')) /\ SendInv(tab', device', line', answers')
      BY <2>1, <2>7, <3>1, <3>4, SameModes, SameTracked
    <3> QED  BY <2>1, <3>5, TrackedIn
  <2> QED  BY <2>2, <2>3, <2>4, <2>5, <2>6, <2>7 DEF Outcome
<1>3. CASE ~tab.file
  <2>1. Leaves(tab) /\ UNCHANGED <<device, world>>  BY <1>3 DEF ReadyRead
  <2>2. /\ Sender(tab') /\ SameWork(tab, tab') /\ tab'.result = tab.result
        /\ line' = line \o tab.written
    BY <1>1, <2>1, LeavesDoes
  <2>3. line' = line
    <3>1. line \o <<>> = line  BY <1>1 DEF LineInv
    <3> QED  BY <1>1, <2>2, <3>1
  <2>4. Resting(tab) /\ Resting(tab')  BY <1>1, <1>3, <2>2, InOneMode, SameModes
  <2>5. RestInv(tab', device', line')
    BY <2>1, <2>2, <2>3, <2>4 DEF Tracked, RestInv
  <2> QED  BY <2>2, <2>4, <2>5, TrackedIn
<1> QED  BY <1>2, <1>3

LEMMA TrackedMenuCancels ==
  ASSUME Typed, Stock(device), Clean, Tracked(tab, device, line, answers), MenuCancels
  PROVE  Tracked(tab', device', line', answers')
<1>1. tab.file /\ Leaves(CancelSerialFile(tab)) /\ UNCHANGED <<answers, device, world>>
  BY DEF MenuCancels, CancelsByMenu
<1>2. Sender(tab) /\ ~tab.returned /\ tab.written = <<>> /\ LineInv(line)
  BY DEF Typed, TabInv
<1>3. tab.open /\ tab.zmodem = 0  BY <1>1, OpenFile
<1> DEFINE u == CancelSerialFile(tab)
<1>4. /\ Sender(u) /\ u.returned = tab.returned /\ Resting(u) /\ u.result = "stopped"
      /\ Wrote(tab, u, Item("can"))
  BY <1>1, <1>2, <1>3, CancelSerialDoes
<1>5. Leaves(u)  BY <1>1
<1> HIDE DEF u
<1>6. /\ Sender(tab') /\ SameWork(u, tab') /\ tab'.result = u.result
      /\ line' = line \o u.written
  BY <1>2, <1>4, <1>5, LeavesDoes
<1>7. u.written = <<Item("can")>>
  <2>1. \A x : Append(<<>>, x) = <<x>>  OBVIOUS
  <2> QED  BY <1>2, <1>3, <1>4, <2>1 DEF Wrote
<1>8. Resting(tab')  BY <1>4, <1>6, SameModes
<1>9. RestInv(tab', device, line')  BY <1>1, <1>4, <1>6, <1>7, GivesUp
<1> QED  BY <1>1, <1>6, <1>8, <1>9, TrackedIn

LEMMA TrackedSendSerialFile ==
  ASSUME Typed, Stock(device), Clean, Tracked(tab, device, line, answers), SendSerialFile, Clean'
  PROVE  Tracked(tab', device', line', answers')
<1>1. /\ ~tab.file
      /\ \/ \E ymodem \in BOOLEAN :
              /\ device.phase \in {"start", "data"} => ymodem = device.ymodem
              /\ Leaves(BeginsXmodem(tab, ymodem))
         \/ Leaves(BeginsZmodem(tab, world.transfers + 1))
      /\ world' = [world EXCEPT !.transfers = @ + 1,
                              !.overtaken = @ \/ InFlight,
                              !.awaited = tab'.file /\ device.phase = "start" /\ ~InFlight,
                              !.disturbed = IF OffersCancel(tab) THEN "beside" ELSE @]
      /\ UNCHANGED <<answers, device>> /\ world.transfers < MaxTransfers
  BY DEF SendSerialFile, CancelsByMenu
<1>2. /\ Sender(tab) /\ ~tab.returned /\ tab.written = <<>> /\ LineInv(line) /\ world \in World
  BY DEF Typed, TabInv
<1>3. ~InFlight  BY <1>1, <1>2 DEF Clean, World
<1>4. line = <<>> /\ answers = <<>>  BY <1>3, QuietLine
<1>5. world.transfers \in 0..MaxTransfers /\ MaxTransfers \in Nat
  BY <1>2, SerialAssumption DEF World
<1>6. world.transfers + 1 \in 1..MaxTransfers  BY <1>1, <1>5
<1>7. CASE \E ymodem \in BOOLEAN :
             /\ device.phase \in {"start", "data"} => ymodem = device.ymodem
             /\ Leaves(BeginsXmodem(tab, ymodem))
  <2>1. PICK ymodem \in BOOLEAN :
          /\ device.phase \in {"start", "data"} => ymodem = device.ymodem
          /\ Leaves(BeginsXmodem(tab, ymodem))
    BY <1>7
  <2> DEFINE u == BeginsXmodem(tab, ymodem)
  <2>2. /\ Sender(u) /\ Awaiting(u) /\ u.ymodem = ymodem /\ u.written = tab.written
        /\ u.returned = tab.returned
    BY <1>2, BeginsXmodemDoes
  <2>3. Leaves(u)  BY <2>1
  <2> HIDE DEF u
  <2>4. Sender(tab') /\ SameWork(u, tab') /\ line' = line \o u.written
    BY <1>2, <2>2, <2>3, LeavesDoes
  <2>5. line' = <<>>
    <3>1. <<>> \o <<>> = <<>>  OBVIOUS
    <3> QED  BY <1>2, <1>4, <2>2, <2>4, <3>1
  <2>6. Awaiting(tab') /\ tab'.ymodem = ymodem  BY <2>2, <2>4, SameModes DEF SameWork
  <2>7. AwaitInv(tab', device', line', answers')
    <3>1. Len(<<>>) <= 1  OBVIOUS
    <3> QED  BY <1>1, <1>4, <2>1, <2>5, <2>6, <3>1 DEF AwaitInv
  <2> QED  BY <2>4, <2>6, <2>7, TrackedIn
<1>8. CASE Leaves(BeginsZmodem(tab, world.transfers + 1))
  <2> DEFINE u == BeginsZmodem(tab, world.transfers + 1)
  <2>1. Sender(u) /\ Stays(tab, u) /\ u.returned = tab.returned
    BY <1>2, <1>6, BeginsZmodemDoes
  <2>2. Leaves(u)  BY <1>8
  <2> HIDE DEF u
  <2>3. /\ Sender(tab') /\ SameWork(u, tab') /\ tab'.result = u.result
        /\ line' = line \o u.written
    BY <1>2, <2>1, <2>2, LeavesDoes
  <2>4. line' = line
    <3>1. <<>> \o <<>> = <<>>  OBVIOUS
    <3> QED  BY <1>2, <1>4, <2>1, <2>3, <3>1 DEF Stays
  <2>5. Resting(tab) /\ Resting(tab')
    BY <1>1, <1>2, <2>1, <2>3, InOneMode, SameModes DEF Stays
  <2>6. RestInv(tab', device', line')
    BY <1>1, <2>1, <2>3, <2>4, <2>5 DEF Tracked, RestInv, Stays
  <2> QED  BY <2>3, <2>5, <2>6, TrackedIn
<1> QED  BY <1>1, <1>7, <1>8

LEMMA TrackedProcessEnds ==
  ASSUME Typed, Stock(device), Clean, Tracked(tab, device, line, answers), ProcessEnds
  PROVE  Tracked(tab', device', line', answers')
<1>1. PICK p \in tab.running : Leaves([FinishZmodem(tab) EXCEPT !.running = @ \ {p}])
  BY DEF ProcessEnds
<1>2. UNCHANGED <<answers, device, world>>  BY DEF ProcessEnds
<1>3. Sender(tab) /\ ~tab.returned /\ tab.written = <<>> /\ LineInv(line)
  BY DEF Typed, TabInv
<1> DEFINE u == [FinishZmodem(tab) EXCEPT !.running = @ \ {p}]
<1>4. Sender(u) /\ Stays(tab, u) /\ u.returned = tab.returned
  BY <1>3, EndsDoes
<1>5. Leaves(u)  BY <1>1
<1> HIDE DEF u
<1>6. /\ Sender(tab') /\ SameWork(u, tab') /\ tab'.result = u.result
      /\ line' = line \o u.written
  BY <1>3, <1>4, <1>5, LeavesDoes
<1>7. line' = line
  <2>1. line \o <<>> = line  BY <1>3 DEF LineInv
  <2> QED  BY <1>3, <1>4, <1>6, <2>1 DEF Stays
<1>8. SameWork(tab, tab') /\ tab'.result = tab.result  BY <1>4, <1>6 DEF Stays, SameWork
<1>9. Resting(tab) \/ Awaiting(tab) \/ Sending(tab) \/ Ending(tab)  BY <1>3 DEF Sender
<1>10. CASE Resting(tab)
  <2>1. Resting(tab')  BY <1>8, <1>10, SameModes
  <2>2. RestInv(tab', device', line')  BY <1>2, <1>7, <1>8, <1>10 DEF Tracked, RestInv
  <2> QED  BY <1>6, <2>1, <2>2, TrackedIn
<1>11. CASE Awaiting(tab)
  <2>1. Awaiting(tab') /\ AwaitInv(tab', device', line', answers')
    BY <1>2, <1>7, <1>8, <1>11, SameModes, SameTracked DEF Tracked
  <2> QED  BY <1>6, <2>1, TrackedIn
<1>12. CASE Sending(tab) \/ Ending(tab)
  <2>1. (Sending(tab') \/ Ending(tab')) /\ SendInv(tab', device', line', answers')
    BY <1>2, <1>7, <1>8, <1>12, SameModes, SameTracked DEF Tracked
  <2> QED  BY <1>6, <2>1, TrackedIn
<1> QED  BY <1>9, <1>10, <1>11, <1>12

LEMMA TrackedProcessWrites ==
  ASSUME Typed, Stock(device), Clean, Tracked(tab, device, line, answers), ProcessWrites
  PROVE  Tracked(tab', device', line', answers')
<1>1. /\ tab.zmodem # 0 /\ tab.open /\ line = <<>>
      /\ Leaves(Writes(tab, Item("zmodem"))) /\ UNCHANGED <<answers, device, world>>
  BY DEF ProcessWrites
<1>2. Sender(tab) /\ ~tab.returned /\ tab.written = <<>> /\ LineInv(line)
  BY DEF Typed, TabInv
<1>3. ~tab.file  BY <1>1, OpenFile
<1> DEFINE z == Item("zmodem")
           u == Writes(tab, z)
<1>z. z \in Written /\ Numbered(z) /\ z.kind = "zmodem"  BY ItemsAre, OthersNumbered
<1>l. Leaves(u)  BY <1>1
<1> HIDE DEF z
<1>4. /\ Sender(u) /\ SameWork(tab, u) /\ u.result = tab.result
      /\ u.returned = tab.returned /\ Wrote(tab, u, z)
  BY <1>2, <1>z, WritesDoes
<1> HIDE DEF u
<1>5. /\ Sender(tab') /\ SameWork(u, tab') /\ tab'.result = u.result
      /\ line' = line \o u.written
  BY <1>2, <1>4, <1>l, LeavesDoes
<1>6. line' = <<z>>
  <2>1. \A x : Append(<<>>, x) = <<x>> /\ <<>> \o <<x>> = <<x>>  OBVIOUS
  <2> QED  BY <1>1, <1>2, <1>4, <1>5, <2>1 DEF Wrote
<1>7. Resting(tab) /\ Resting(tab')  BY <1>2, <1>3, <1>4, <1>5, InOneMode, SameModes
<1>8. RestInv(tab', device', line')
  <2>1. line'[1] = z /\ \A i \in 2..Len(line') : FALSE  BY <1>6
  <2> QED  BY <1>1, <1>z, <1>4, <1>5, <1>7, <2>1 DEF Tracked, RestInv, Fits
<1> QED  BY <1>5, <1>7, <1>8, TrackedIn

LEMMA TrackedPortDies ==
  ASSUME Typed, Stock(device), Clean, Tracked(tab, device, line, answers), PortDies, Typed'
  PROVE  Tracked(tab', device', line', answers')
<1>1. /\ tab' = [CancelSerialFile(tab) EXCEPT !.open = FALSE, !.written = <<>>]
      /\ line' = <<>> /\ answers' = <<>> /\ UNCHANGED <<device, world>>
  BY DEF PortDies
<1>2. Sender(tab)  BY DEF Typed, TabInv
<1> DEFINE u == CancelSerialFile(tab)
<1>3. /\ Sender(u)
      /\ \/ tab.file /\ Resting(u) /\ u.result = "stopped"
         \/ (tab.zmodem # 0 \/ ~tab.file) /\ Stays(tab, u)
  BY <1>2, CancelSerialDoes
<1>4. tab' = [u EXCEPT !.open = FALSE, !.written = <<>>]  BY <1>1
<1> HIDE DEF u
<1>5. u \in Tab  BY <1>3 DEF Sender
<1>6. SameWork(u, tab') /\ tab'.result = u.result  BY <1>4, <1>5 DEF Tab, SameWork
<1>7. Resting(u) /\ (u.result = "complete" => Resting(tab) /\ tab.result = "complete")
  <2>1. CASE tab.file
    <3>1. tab.zmodem = 0  BY <2>1, OpenFile
    <3> QED  BY <1>3, <2>1, <3>1
  <2>2. CASE ~tab.file
    <3>1. Stays(tab, u) /\ Resting(tab)  BY <1>2, <1>3, <2>2, InOneMode
    <3> QED  BY <3>1, SameModes DEF Stays
  <2> QED  BY <2>1, <2>2
<1>8. Resting(tab')  BY <1>6, <1>7, SameModes
<1>9. Sender(tab')
  <2>1. UNCHANGED world  BY <1>1
  <2>2. tab' \in Tab
    <3>1. <<>> \in Seq(Written)  OBVIOUS
    <3> QED  BY <1>4, <1>5, <3>1 DEF Tab, Written
  <2>3. tab'.read = u.read /\ tab'.written = <<>> /\ tab'.file = u.file /\ tab'.retries = u.retries
    BY <1>4, <1>5 DEF Tab
  <2>4. AllNumbered(<<>>)  BY DEF AllNumbered
  <2> QED  BY <1>3, <1>8, <2>2, <2>3, <2>4 DEF Sender, AllNumbered
<1>10. RestInv(tab', device', line')
  <2>1. \A i \in 2..Len(<<>>) : FALSE  OBVIOUS
  <2> QED  BY <1>1, <1>6, <1>7, <2>1 DEF Tracked, RestInv
<1> QED  BY <1>8, <1>9, <1>10, TrackedIn

(* The steps of the receiver and of the line.                                 *)
LEMMA ReceiverFields ==
  ASSUME Typed, NEW ymodem \in BOOLEAN, device' = Receiver(ymodem)
  PROVE  /\ device'.phase = "start" /\ device'.ymodem = ymodem /\ device'.crc
         /\ device'.header = ~ymodem /\ Stored(device') = 0 /\ Stock(device')
<1>1. /\ device'.phase = "start" /\ device'.ymodem = ymodem /\ device'.crc
      /\ device'.header = ~ymodem /\ device'.stored = <<>>
      /\ device'.expects = IF ymodem THEN 0 ELSE 1
  BY DEF Receiver
<1>2. Stored(device') = 0
  <2>1. Len(<<>>) = 0  OBVIOUS
  <2> QED  BY <1>1, <2>1 DEF Stored
<1>3. (0 + 1) % BlockNumbers = 1 /\ BlockNumbers \in Nat
  <2>1. BlockNumbers \in Nat /\ BlockNumbers > 2  BY SerialAssumption
  <2>2. 1 % BlockNumbers = 1 /\ 0 + 1 = 1  BY <2>1, SmallNumber
  <2> QED  BY <2>1, <2>2
<1>4. Stock(device') <=> /\ 0 <= world.size
                         /\ device'.expects = IF device'.header THEN (0 + 1) % BlockNumbers ELSE 0
                         /\ device'.header = ~device'.ymodem
  BY <1>1, <1>2 DEF Stock
<1>5. 0 <= world.size  BY StockFields
<1>6. device'.expects = IF device'.header THEN (0 + 1) % BlockNumbers ELSE 0
  BY <1>1, <1>3
<1> QED  BY <1>1, <1>2, <1>4, <1>5, <1>6

LEMMA TrackedStartReceiver ==
  ASSUME Typed, Stock(device), Clean, Tracked(tab, device, line, answers), StartReceiver
  PROVE  Tracked(tab', device', line', answers')
<1>1. PICK ymodem \in IF tab.file THEN {tab.ymodem} ELSE BOOLEAN : device' = Receiver(ymodem)
  BY DEF StartReceiver
<1>2. /\ UNCHANGED <<tab, line, answers, world>>
      /\ device.phase = "shell" \/ (device.phase = "over" /\ Waits(tab))
  BY DEF StartReceiver
<1>3. Sender(tab) /\ tab.ymodem \in BOOLEAN
  <2>1. Sender(tab)  BY DEF Typed, TabInv
  <2>2. tab \in Tab  BY <2>1 DEF Sender
  <2>3. tab.ymodem \in BOOLEAN  BY <2>2 DEF Tab
  <2> QED  BY <2>1, <2>3
<1>4. /\ device'.phase = "start" /\ (tab.file => device'.ymodem = tab.ymodem)
      /\ Stored(device') = 0
  BY <1>1, <1>3, ReceiverFields
<1>5. Waits(tab) => Awaiting(tab)  BY <1>3, ModeFields DEF Waits
<1>6. CASE Awaiting(tab)
  <2>1. AwaitInv(tab, device, line, answers) /\ tab.file
    BY <1>6 DEF Tracked, Awaiting
  <2>2. AwaitInv(tab, device', line, answers)
    BY <1>4, <2>1 DEF AwaitInv, Fresh
  <2> QED  BY <1>2, <1>3, <1>6, <2>2, TrackedIn
<1>7. CASE Sending(tab) \/ Ending(tab)
  <2>1. SendInv(tab, device, line, answers) /\ tab.file
    BY <1>3, <1>7, InOneMode DEF Tracked
  <2>2. device.phase = "shell"  BY <1>2, <1>3, <1>5, <1>7, OneMode
  <2>3. ~After(tab, device)  BY <2>2 DEF After, InData
  <2>4. Fresh(tab, device')  BY <1>4, <2>1 DEF Fresh
  <2>5. Before(tab, device')  BY <2>1, <2>2, <2>3, <2>4 DEF SendInv, Before, InData
  <2>6. SendInv(tab, device', line, answers)  BY <2>1, <2>3, <2>5 DEF SendInv
  <2> QED  BY <1>2, <1>3, <1>7, <2>6, TrackedIn
<1>8. CASE Resting(tab)
  <2>1. RestInv(tab, device, line) /\ ~Awaiting(tab)  BY <1>3, <1>8, OneMode DEF Tracked
  <2>2. device.phase = "shell"  BY <1>2, <1>5, <2>1
  <2>3. ASSUME NEW p, Fits(p, device) PROVE Fits(p, device')
    <3>1. CASE p.data = Header  BY <1>4, <3>1 DEF Fits
    <3>2. CASE p.data # Header /\ p.data = LastHeader  BY <2>2, <2>3, <3>2 DEF Fits
    <3>3. CASE p.data # Header /\ p.data # LastHeader
      <4>1. p.kind = "packet" => p.data = 1  BY <2>2, <2>3, <3>3 DEF Fits
      <4> QED  BY <1>4, <3>3, <4>1 DEF Fits
    <3> QED  BY <3>1, <3>2, <3>3
  <2>4. RestInv(tab, device', line)  BY <2>1, <2>2, <2>3 DEF RestInv
  <2> QED  BY <1>2, <1>3, <1>8, <2>4, TrackedIn
<1> QED  BY <1>3, <1>6, <1>7, <1>8 DEF Sender

LEMMA TrackedAsks ==
  ASSUME Typed, Stock(device), Clean, Tracked(tab, device, line, answers), Asks
  PROVE  Tracked(tab', device', line', answers')
<1> DEFINE byte == IF device.crc THEN "C" ELSE "nak"
<1>1. /\ device.phase = "start" /\ ~InFlight
      /\ answers' = Append(answers, byte) /\ UNCHANGED <<tab, line, device, world>>
  BY DEF Asks
<1>2. line = <<>> /\ answers = <<>>  BY <1>1, QuietLine
<1>3. Sender(tab)  BY DEF Typed, TabInv
<1>4. answers' = <<byte>> /\ byte \in {"C", "nak"}
  <2>1. \A x : Append(<<>>, x) = <<x>>  OBVIOUS
  <2> QED  BY <1>1, <1>2, <2>1
<1> HIDE DEF byte
<1>5. Len(answers') = 1 /\ answers'[1] \in {"C", "nak"}  BY <1>4
<1>6. CASE Awaiting(tab)
  <2>1. AwaitInv(tab, device, line, answers)  BY <1>6 DEF Tracked
  <2>2. AwaitInv(tab, device, line, answers')  BY <1>1, <1>5, <2>1 DEF AwaitInv, Fresh
  <2> QED  BY <1>1, <1>3, <1>6, <2>2, TrackedIn
<1>7. CASE Sending(tab) \/ Ending(tab)
  <2>1. SendInv(tab, device, line, answers)  BY <1>7 DEF Tracked
  <2>2. SendInv(tab, device, line, answers')  BY <1>2, <1>5, <2>1 DEF SendInv
  <2> QED  BY <1>1, <1>3, <1>7, <2>2, TrackedIn
<1>8. CASE Resting(tab)
  <2>1. RestInv(tab, device, line)  BY <1>8 DEF Tracked
  <2> QED  BY <1>1, <1>3, <1>8, <2>1, TrackedIn
<1> QED  BY <1>3, <1>6, <1>7, <1>8 DEF Sender

LEMMA TrackedFallsBack ==
  ASSUME Typed, Stock(device), Clean, Tracked(tab, device, line, answers), FallsBack
  PROVE  Tracked(tab', device', line', answers') /\ Stock(device')
<1>1. /\ device' = [device EXCEPT !.crc = FALSE] /\ UNCHANGED <<tab, line, answers, world>>
  BY DEF FallsBack
<1>2. /\ device'.phase = device.phase /\ device'.ymodem = device.ymodem
      /\ device'.stored = device.stored /\ device'.expects = device.expects
      /\ device'.header = device.header
  BY <1>1 DEF Typed, Device
<1>3. Stock(device')  BY <1>2 DEF Stock, Stored
<1>4. /\ Before(tab, device') <=> Before(tab, device)
      /\ After(tab, device') <=> After(tab, device)
      /\ Fresh(tab, device') <=> Fresh(tab, device)
  BY <1>2 DEF Before, After, Fresh, InData, Stored
<1>5. Tracked(tab, device', line, answers)
  BY <1>2, <1>4 DEF Tracked, AwaitInv, SendInv, RestInv, Fits, Stored
<1> QED  BY <1>1, <1>3, <1>5

LEMMA TrackedShellPrints ==
  ASSUME Typed, Stock(device), Clean, Tracked(tab, device, line, answers), ShellPrints
  PROVE  Tracked(tab', device', line', answers')
<1>1. /\ device.phase = "shell" /\ answers = <<>> /\ Waits(tab) /\ answers' = <<"C">>
      /\ UNCHANGED <<tab, line, device, world>>
  BY DEF ShellPrints
<1>2. Sender(tab)  BY DEF Typed, TabInv
<1>3. Awaiting(tab)  BY <1>1, <1>2, ModeFields DEF Waits
<1>4. AwaitInv(tab, device, line, answers)  BY <1>3 DEF Tracked
<1>5. Len(answers') <= 1 /\ answers'[1] = "C"  BY <1>1
<1>6. AwaitInv(tab, device, line, answers')  BY <1>1, <1>4, <1>5 DEF AwaitInv, Fresh
<1> QED  BY <1>1, <1>2, <1>3, <1>6, TrackedIn

LEMMA TrackedDeviceReads ==
  ASSUME Typed, Stock(device), Clean, Tracked(tab, device, line, answers), DeviceReads
  PROVE  Tracked(tab', device', line', answers') /\ Stock(device')
<1> DEFINE item == Head(line)
<1>1. line # <<>> /\ line' = Tail(line) /\ UNCHANGED <<tab, world>> /\ Reads(item)
  BY ReadsIs
<1>2. Sender(tab) /\ LineInv(line) /\ device \in Device /\ Stored(device) \in Nat
  BY StockFields DEF Typed, TabInv
<1>3. /\ item = line[1] /\ item \in Written /\ Numbered(item) /\ Len(line) >= 1
      /\ Len(line') = Len(line) - 1 /\ Len(line) \in Nat
      /\ \A i \in 1..Len(line') : line'[i] = line[i + 1]
  BY <1>1, <1>2, TailLine
<1>4. CASE Awaiting(tab)
  BY <1>1, <1>4 DEF Tracked, AwaitInv
<1>5. CASE Sending(tab) \/ Ending(tab)
  <2>1. SendInv(tab, device, line, answers)  BY <1>5 DEF Tracked
  <2>2. line = <<Sent(tab)>> /\ answers = <<>> /\ (Before(tab, device) \/ After(tab, device))
    BY <1>1, <2>1 DEF SendInv
  <2>3. line' = <<>> /\ item = Sent(tab)
    <3>1. \A x : Tail(<<x>>) = <<>> /\ Head(<<x>>) = x  OBVIOUS
    <3> QED  BY <1>1, <2>2, <3>1
  <2> HIDE DEF item
  <2>4. /\ Before(tab, device') \/ After(tab, device')
        /\ \/ answers' = <<>>
           \/ answers' = <<"nak">>
           \/ answers' = <<"ack">> /\ After(tab, device')
    BY <1>1, <2>2, <2>3, SentReads
  <2>5. SendInv(tab, device', line', answers')
    <3>1. /\ Len(<<>>) = 0 /\ Len(<<"nak">>) = 1 /\ Len(<<"ack">>) = 1
          /\ <<"nak">>[1] = "nak" /\ <<"ack">>[1] = "ack"
      OBVIOUS
    <3> QED  BY <2>3, <2>4, <3>1 DEF SendInv
  <2>6. Tracked(tab', device', line', answers')  BY <1>1, <1>2, <1>5, <2>5, TrackedIn
  <2>7. Fits(item, device)  BY <1>2, <2>2, <2>3, SentFits
  <2>8. Right(item)  BY <1>3, <2>7, RightOfFitting
  <2>9. Stock(device')  BY <1>1, <1>3, <2>8, StockReads
  <2> QED  BY <2>6, <2>9
<1>6. CASE Resting(tab)
  <2>1. RestInv(tab, device, line)  BY <1>6 DEF Tracked
  <2>2. Fits(item, device)  BY <1>1, <1>3, <2>1 DEF RestInv
  <2>3. Right(item)
    <3> HIDE DEF item
    <3> QED  BY <1>3, <2>2, RightOfFitting
  <2>4. Stock(device')  BY <1>1, <1>3, <2>3, StockReads
  <2>5. \A i \in 1..Len(line') : line'[i].kind # "packet"
    <3> SUFFICES ASSUME NEW i \in 1..Len(line') PROVE line'[i].kind # "packet"
      OBVIOUS
    <3>1. i + 1 \in 2..Len(line) /\ line'[i] = line[i + 1]  BY <1>3
    <3> QED  BY <2>1, <3>1 DEF RestInv
  <2>6. line' # <<>> => 1 \in 1..Len(line')
    <3>1. line' \in Seq(Written)
      <4>1. LineInv(line')  BY <1>1, <1>2, TailLine
      <4> QED  BY <4>1 DEF LineInv
    <3> QED  BY <3>1
  <2>7. tab.result = "complete" => Stored(device') = world.size /\ device'.phase = "over"
    <3> SUFFICES ASSUME tab.result = "complete"
                 PROVE  Stored(device') = world.size /\ device'.phase = "over"
      OBVIOUS
    <3>1. Stored(device) = world.size /\ device.phase = "over"  BY <2>1 DEF RestInv
    <3>2. device' = device  BY <1>1, <3>1 DEF Reads, Active
    <3> QED  BY <3>1, <3>2
  <2>8. RestInv(tab, device', line')
    <3>1. \A i \in 2..Len(line') : i \in 1..Len(line')  BY <1>3
    <3> QED  BY <2>5, <2>6, <2>7, <3>1 DEF RestInv, Fits
  <2>9. Tracked(tab', device', line', answers')  BY <1>1, <1>2, <1>6, <2>8, TrackedIn
  <2> QED  BY <2>4, <2>9
<1> QED  BY <1>2, <1>4, <1>5, <1>6 DEF Sender

LEMMA OnlyOne ==
  ASSUME NEW s \in Seq(Bytes), s # <<>>, Len(s) <= 1
  PROVE  Tail(s) = <<>> /\ Len(s) = 1 /\ s = <<s[1]>>
<1>1. Len(s) = 1
  <2>1. Len(s) \in Nat  OBVIOUS
  <2>2. Len(s) # 0  BY EmptySeq
  <2> QED  BY <2>1, <2>2
<1>2. Tail(s) = <<>>
  <2>1. Tail(s) \in Seq(Bytes) /\ Len(Tail(s)) = 0  BY <1>1
  <2> QED  BY <2>1, EmptySeq
<1>3. s = <<s[1]>>  BY <1>1
<1> QED  BY <1>1, <1>2, <1>3

LEMMA TrackedLineFails ==
  ASSUME Typed, Stock(device), Clean, Tracked(tab, device, line, answers), LineFails
  PROVE  Tracked(tab', device', line', answers')
<1>1. /\ UNCHANGED <<tab, device>>
      /\ \/ line # <<>> /\ line' = Tail(line) /\ UNCHANGED answers
         \/ answers # <<>> /\ answers' = Tail(answers) /\ UNCHANGED line
         \/ /\ line # <<>> /\ Head(line).kind = "packet"
            /\ line' = Tail(line) /\ answers' = Append(answers, "nak")
  BY DEF LineFails
<1>2. Sender(tab) /\ LineInv(line) /\ answers \in Seq(Bytes)
  BY DEF Typed, TabInv
<1>3. CASE Awaiting(tab)
  <2>1. AwaitInv(tab, device, line, answers)  BY <1>3 DEF Tracked
  <2>2. answers # <<>> /\ answers' = Tail(answers) /\ line' = <<>>
    BY <1>1, <2>1 DEF AwaitInv
  <2>3. answers' = <<>>
    <3>1. Len(answers) <= 1  BY <2>1 DEF AwaitInv
    <3> QED  BY <1>2, <2>2, <3>1, OnlyOne
  <2>4. Len(<<>>) <= 1  OBVIOUS
  <2>5. AwaitInv(tab, device, line', answers')  BY <2>1, <2>2, <2>3, <2>4 DEF AwaitInv
  <2> QED  BY <1>1, <1>2, <1>3, <2>5, TrackedIn
<1>4. CASE Sending(tab) \/ Ending(tab)
  <2>1. SendInv(tab, device, line, answers)  BY <1>4 DEF Tracked
  <2>2. line' = <<>> /\ answers' \in {<<>>, <<"nak">>}
    <3>1. CASE line = <<Sent(tab)>> /\ answers = <<>>
      <4>1. \A x : Tail(<<x>>) = <<>> /\ Append(<<>>, x) = <<x>>  OBVIOUS
      <4> QED  BY <1>1, <3>1, <4>1
    <3>2. CASE line = <<>> /\ Len(answers) <= 1
      <4>1. answers # <<>> /\ answers' = Tail(answers) /\ line' = <<>>  BY <1>1, <3>2
      <4> QED  BY <1>2, <3>2, <4>1, OnlyOne
    <3> QED  BY <2>1, <3>1, <3>2 DEF SendInv
  <2>3. /\ Len(answers') <= 1 /\ (answers' # <<>> => answers'[1] = "nak")
    <3>1. Len(<<>>) = 0 /\ Len(<<"nak">>) = 1 /\ <<"nak">>[1] = "nak"  OBVIOUS
    <3> QED  BY <2>2, <3>1
  <2>4. SendInv(tab, device, line', answers')  BY <2>1, <2>2, <2>3 DEF SendInv
  <2> QED  BY <1>1, <1>2, <1>4, <2>4, TrackedIn
<1>5. CASE Resting(tab)
  <2>1. RestInv(tab, device, line)  BY <1>5 DEF Tracked
  <2>2. CASE UNCHANGED line
    <3>1. RestInv(tab, device, line')  BY <2>1, <2>2
    <3> QED  BY <1>1, <1>2, <1>5, <3>1, TrackedIn
  <2>3. CASE line # <<>> /\ line' = Tail(line)
    <3>1. /\ Len(line') = Len(line) - 1 /\ Len(line) \in Nat
          /\ \A i \in 1..Len(line') : line'[i] = line[i + 1]
          /\ LineInv(line')
      BY <1>2, <2>3, TailLine
    <3>2. \A i \in 1..Len(line') : line'[i].kind # "packet"
      <4> SUFFICES ASSUME NEW i \in 1..Len(line') PROVE line'[i].kind # "packet"
        OBVIOUS
      <4>1. i + 1 \in 2..Len(line) /\ line'[i] = line[i + 1]  BY <3>1
      <4> QED  BY <2>1, <4>1 DEF RestInv
    <3>3. line' # <<>> => 1 \in 1..Len(line')  BY <3>1 DEF LineInv
    <3>4. \A i \in 2..Len(line') : i \in 1..Len(line')  BY <3>1
    <3>5. RestInv(tab, device, line')  BY <2>1, <3>2, <3>3, <3>4 DEF RestInv, Fits
    <3> QED  BY <1>1, <1>2, <1>5, <3>5, TrackedIn
  <2> QED  BY <1>1, <2>2, <2>3
<1> QED  BY <1>2, <1>3, <1>4, <1>5 DEF Sender

-----------------------------------------------------------------------------
(* The third part: while no tick falls on something in flight, and with a     *)
(* receiver that was there from the beginning and keeps to CRC, every retry   *)
(* of a packet has its fault.  One that has still to be counted is owed:      *)
(* neither a packet nor its acknowledgement is on its way.                    *)
Owed(l, a) == IF l = <<>> /\ a # <<"ack">> THEN 1 ELSE 0
Watched(t, d, w) == w.awaited /\ t.open /\ d.crc

WaitsWell(a) == a \in {<<>>, <<"C">>}
CountsWell(t, d, l, a, w) ==
    /\ t.crc
    /\ d.phase = "over" \/ t.retries + Owed(l, a) <= w.faults
EndsWell(t, d) ==
    t.result \in {"timed out", "failed", "cancelled"} =>
        Stored(d) = world.size /\ d.phase = "over"

Counted(t, d, l, a, w) ==
    /\ t.file => t.result = "none"
    /\ w.awaited => d.phase # "shell"
    /\ w.awaited /\ Awaiting(t) => d.phase = "start"
    /\ Watched(t, d, w) /\ Awaiting(t) => WaitsWell(a)
    /\ Watched(t, d, w) /\ (Sending(t) \/ Ending(t)) => CountsWell(t, d, l, a, w)
    /\ Watched(t, d, w) /\ Resting(t) => EndsWell(t, d)

LEMMA CountedLater ==
  ASSUME WorldGoesOn, Clean', Counted(tab', device', line', answers', world')
  PROVE  Counted(tab, device, line, answers, world)'
<1>1. world'.size = world.size /\ ~Disturbed /\ ~Disturbed'
  BY DEF WorldGoesOn, Clean
<1>2. /\ Resting(tab') <=> Resting(tab)'
      /\ Awaiting(tab') <=> Awaiting(tab)'
      /\ SendingHeader(tab') <=> SendingHeader(tab)'
      /\ SendingData(tab') <=> SendingData(tab)'
  BY <1>1 DEF Resting, Awaiting, SendingHeader, SendingData
<1>3. /\ SendingLast(tab') <=> SendingLast(tab)'
      /\ Ending(tab') <=> Ending(tab)'
  BY <1>1 DEF SendingLast, Ending
<1>4. Sending(tab') <=> Sending(tab)'  BY <1>2, <1>3 DEF Sending
<1>5. EndsWell(tab', device') <=> EndsWell(tab, device)'
  BY <1>1 DEF EndsWell, Stored
<1> QED  BY <1>2, <1>3, <1>4, <1>5 DEF Counted, Watched, WaitsWell, CountsWell, Owed

(* In every mode only its own part says something.                            *)
LEMMA CountedIn ==
  ASSUME NEW t, Sender(t), NEW d, NEW l, NEW a, NEW w,
         t.file => t.result = "none",
         w.awaited => d.phase # "shell",
         w.awaited /\ Awaiting(t) => d.phase = "start",
         Watched(t, d, w) =>
            \/ Awaiting(t) /\ WaitsWell(a)
            \/ (Sending(t) \/ Ending(t)) /\ CountsWell(t, d, l, a, w)
            \/ Resting(t) /\ EndsWell(t, d)
  PROVE  Counted(t, d, l, a, w)
BY OneMode DEF Counted

LEMMA CountedSame ==
  ASSUME NEW t, NEW u, SameWork(t, u), u.result = t.result, u.retries = t.retries,
         u.open = t.open, NEW d, NEW l, NEW a, NEW w, Counted(t, d, l, a, w)
  PROVE  Counted(u, d, l, a, w)
<1>1. /\ Resting(u) <=> Resting(t)
      /\ Awaiting(u) <=> Awaiting(t)
      /\ Sending(u) <=> Sending(t)
      /\ Ending(u) <=> Ending(t)
  BY SameModes
<1>2. u.file = t.file /\ u.crc = t.crc  BY DEF SameWork
<1> QED  BY <1>1, <1>2 DEF Counted, Watched, WaitsWell, CountsWell, EndsWell

(* A tab at rest owes nothing, whatever is on the line.                       *)
LEMMA CountedRests ==
  ASSUME NEW t, Sender(t), NEW u, Sender(u), Resting(t), Resting(u), u.result = t.result,
         u.open = t.open, NEW d, NEW l, NEW a, NEW w, Counted(t, d, l, a, w), NEW m, NEW b
  PROVE  Counted(u, d, m, b, w)
<1>1. ~u.file /\ ~Awaiting(u)  BY OneMode DEF Resting
<1> QED  BY <1>1, CountedIn DEF Counted, Watched, EndsWell

LEMMA CountedEnds ==
  ASSUME NEW u, Sender(u), Resting(u), NEW d, NEW l, NEW a, NEW w,
         w.awaited => d.phase # "shell",
         ~u.open \/ u.result \notin {"timed out", "failed", "cancelled"}
  PROVE  Counted(u, d, l, a, w)
<1>1. ~u.file /\ ~Awaiting(u)  BY OneMode DEF Resting
<1> QED  BY <1>1, CountedIn DEF Watched, EndsWell

(* A receiver that has gone while the tab still sends has all of the file.    *)
LEMMA OverIsWhole ==
  ASSUME Sender(tab), Before(tab, device) \/ After(tab, device), device.phase = "over"
  PROVE  Stored(device) = world.size
<1>1. ~Before(tab, device)  BY DEF Before, Fresh, InData
<1>2. After(tab, device)  BY <1>1
<1> QED  BY <1>2 DEF After, InData

(* The limits.                                                                *)
LEMMA Limits ==
  ASSUME Typed
  PROVE  /\ MaxRetries \in Nat /\ world.faults \in Nat /\ world.faults <= MaxRetries
         /\ tab.retries \in Nat
         /\ \A n \in Nat : n <= world.faults => ~TooMany(n)
<1>1. MaxRetries \in Nat /\ MaxFaults \in 0..MaxRetries  BY SerialAssumption
<1>2. world \in World  BY DEF Typed
<1>3. world.faults \in 0..MaxFaults  BY <1>2 DEF World
<1>4. tab \in Tab  BY DEF Typed, TabInv, Sender
<1>5. tab.retries \in 0..MaxRetries + 1  BY <1>4 DEF Tab
<1> QED  BY <1>1, <1>3, <1>5 DEF TooMany

LEMMA OwedIs ==
  ASSUME NEW x
  PROVE  /\ Owed(<<>>, <<>>) = 1 /\ Owed(<<>>, <<"nak">>) = 1 /\ Owed(<<>>, <<"C">>) = 1
         /\ Owed(<<x>>, <<>>) = 0 /\ Owed(<<>>, <<"ack">>) = 0
<1>1. <<x>> # <<>> /\ <<"ack">> # <<>> /\ <<"ack">> # <<"nak">> /\ <<"ack">> # <<"C">>
  <2>1. /\ <<"ack">>[1] = "ack" /\ <<"nak">>[1] = "nak" /\ <<"C">>[1] = "C"
        /\ Len(<<x>>) = 1 /\ Len(<<"ack">>) = 1 /\ Len(<<>>) = 0
    OBVIOUS
  <2> QED  BY <2>1
<1> QED  BY <1>1 DEF Owed

LEMMA CountedOnTimeout ==
  ASSUME Typed, Clean, Tracked(tab, device, line, answers), OnTimeout, Clean',
         Counted(tab, device, line, answers, world)
  PROVE  Counted(tab', device', line', answers', world')
<1>1. /\ tab.file /\ Leaves(Timeout(tab)) /\ UNCHANGED <<answers, device>>
      /\ world' = [world EXCEPT !.overtaken = @ \/ InFlight]
  BY DEF OnTimeout
<1>2. Sender(tab) /\ ~tab.returned /\ tab.written = <<>> /\ LineInv(line) /\ world \in World
  BY DEF Typed, TabInv
<1>3. ~InFlight /\ world'.awaited = world.awaited /\ world'.faults = world.faults
  BY <1>1, <1>2 DEF Clean, World
<1>4. line = <<>> /\ answers = <<>>  BY <1>3, QuietLine
<1>5. tab.open /\ tab.zmodem = 0  BY <1>1, OpenFile
<1> DEFINE u == Timeout(tab)
<1>6. Sender(u) /\ u.returned = tab.returned /\ Kept(tab, u)  BY <1>1, <1>2, TimeoutSound
<1>7. /\ TooMany(tab.retries + 1) =>
           /\ Resting(u) /\ Wrote(tab, u, Item("can"))
           /\ u.result = IF Awaiting(tab) THEN "unheard" ELSE "timed out"
      /\ ~TooMany(tab.retries + 1) =>
           /\ SameWork(tab, u) /\ u.result = tab.result /\ u.retries = tab.retries + 1
           /\ IF Awaiting(tab) THEN u.written = tab.written ELSE Wrote(tab, u, Sent(tab))
  BY <1>1, <1>2, TimeoutDoes
<1>8. Leaves(u)  BY <1>1
<1> HIDE DEF u
<1>9. /\ Sender(tab') /\ SameWork(u, tab') /\ tab'.result = u.result
      /\ tab'.retries = u.retries /\ tab'.open = u.open /\ line' = line \o u.written
  BY <1>2, <1>6, <1>8, LeavesDoes
<1>10. Watched(tab', device', world') => Watched(tab, device, world)
  BY <1>1, <1>3, <1>5 DEF Watched
<1>11. ASSUME Watched(tab, device, world), ~Awaiting(tab)
       PROVE  /\ Sending(tab) \/ Ending(tab)
              /\ tab.crc /\ (device.phase = "over" \/ tab.retries + 1 <= world.faults)
  <2>1. Sending(tab) \/ Ending(tab)  BY <1>1, <1>2, <1>11, InOneMode
  <2>2. CountsWell(tab, device, line, answers, world)  BY <1>11, <2>1 DEF Counted
  <2>3. Owed(line, answers) = 1  BY <1>4, OwedIs
  <2> QED  BY <2>1, <2>2, <2>3 DEF CountsWell
<1>12. CASE TooMany(tab.retries + 1) /\ Awaiting(tab)
  <2>1. Resting(tab') /\ tab'.result = "unheard"  BY <1>7, <1>9, <1>12, SameModes
  <2>2. world'.awaited => device'.phase # "shell"  BY <1>1, <1>3 DEF Counted
  <2> QED  BY <1>9, <2>1, <2>2, CountedEnds
<1>13. CASE TooMany(tab.retries + 1) /\ ~Awaiting(tab)
  <2>1. Resting(tab') /\ ~tab'.file  BY <1>7, <1>9, <1>13, SameModes DEF Resting
  <2>2. ASSUME Watched(tab', device', world') PROVE EndsWell(tab', device')
    <3>1. device.phase = "over"
      <4>1. tab.retries + 1 \in Nat  BY Limits
      <4> QED  BY <1>10, <1>11, <1>13, <2>2, <4>1, Limits
    <3>2. Before(tab, device) \/ After(tab, device)
      BY <1>10, <1>11, <1>13, <2>2 DEF Tracked, SendInv
    <3>3. Stored(device) = world.size  BY <1>2, <3>1, <3>2, OverIsWhole
    <3> QED  BY <1>1, <3>1, <3>3 DEF EndsWell
  <2>3. ~Awaiting(tab')  BY <1>9, <2>1, OneMode
  <2>4. world'.awaited => device'.phase # "shell"  BY <1>1, <1>3 DEF Counted
  <2> QED  BY <1>9, <2>1, <2>2, <2>3, <2>4, CountedIn
<1>14. CASE ~TooMany(tab.retries + 1)
  <2>1. SameWork(tab, tab') /\ tab'.result = tab.result /\ tab'.retries = tab.retries + 1
    BY <1>7, <1>9, <1>14 DEF SameWork
  <2>2. /\ tab'.file => tab'.result = "none"
        /\ world'.awaited => device'.phase # "shell"
        /\ world'.awaited /\ Awaiting(tab') => device'.phase = "start"
    BY <1>1, <1>3, <2>1, SameModes DEF Counted, SameWork
  <2>3. ASSUME Watched(tab', device', world'), Awaiting(tab)
        PROVE  Awaiting(tab') /\ WaitsWell(answers')
    BY <1>1, <1>10, <2>1, <2>3, SameModes DEF Counted
  <2>4. ASSUME Watched(tab', device', world'), ~Awaiting(tab)
        PROVE  /\ Sending(tab') \/ Ending(tab')
               /\ CountsWell(tab', device', line', answers', world')
    <3>1. /\ Sending(tab) \/ Ending(tab)
          /\ tab.crc /\ (device.phase = "over" \/ tab.retries + 1 <= world.faults)
      BY <1>10, <1>11, <2>4
    <3>2. line' = <<Sent(tab)>>
      <4>1. \A x : Append(<<>>, x) = <<x>> /\ <<>> \o <<x>> = <<x>>  OBVIOUS
      <4> QED  BY <1>2, <1>4, <1>5, <1>7, <1>9, <1>14, <2>4, <4>1 DEF Wrote
    <3>3. Owed(line', answers') = 0  BY <1>1, <1>4, <3>2, OwedIs
    <3>4. tab'.crc  BY <2>1, <3>1 DEF SameWork
    <3>5. (tab.retries + 1) + 0 = tab.retries + 1  BY Limits
    <3>6. Sending(tab') \/ Ending(tab')  BY <2>1, <3>1, SameModes
    <3> QED  BY <1>1, <1>3, <2>1, <3>1, <3>3, <3>4, <3>5, <3>6 DEF CountsWell
  <2> QED  BY <1>9, <2>2, <2>3, <2>4, CountedIn
<1> QED  BY <1>12, <1>13, <1>14

LEMMA CountedReadyRead ==
  ASSUME Typed, Clean, Tracked(tab, device, line, answers), ReadyRead,
         Counted(tab, device, line, answers, world)
  PROVE  Counted(tab', device', line', answers', world')
<1>1. Sender(tab) /\ ~tab.returned /\ answers \in Seq(Bytes) /\ LineInv(line)
  BY DEF Typed, TabInv
<1>2. CASE tab.file
  <2> DEFINE byte == answers[1]
             h == HandleByte(tab, byte)
  <2>1. /\ line = <<>> /\ Len(answers) = 1 /\ answers' = <<>> /\ UNCHANGED <<device, world>>
        /\ Expecting(byte) /\ Sender(tab') /\ SameWork(h, tab') /\ tab'.result = h.result
        /\ tab'.retries = h.retries /\ line' = h.written /\ tab'.open = tab.open
    BY <1>2, ReadsOne
  <2>2. Outcome(byte, h)  BY <2>1, OutcomeIs
  <2>3. answers = <<byte>>
    <3>1. answers # <<>> /\ Len(answers) <= 1
      <4>1. Len(<<>>) = 0  OBVIOUS
      <4> QED  BY <2>1, <4>1
    <3> QED  BY <1>1, <3>1, OnlyOne
  <2>4. Watched(tab', device', world') <=> Watched(tab, device, world)
    BY <2>1 DEF Watched
  <2>5. tab.result = "none" /\ (world'.awaited => device'.phase # "shell")
    BY <1>2, <2>1 DEF Counted
  <2> HIDE DEF byte, h
  <2>6. CASE GoesWell(h) /\ h.retries = 0 /\ h.crc = IF Awaiting(tab) THEN byte = "C" ELSE tab.crc
    <3>1. Sending(tab') \/ Ending(tab')  BY <2>1, <2>6, SameModes DEF GoesWell
    <3>2. ~Awaiting(tab')  BY <2>1, <3>1, OneMode
    <3>3. ASSUME Watched(tab, device, world) PROVE CountsWell(tab', device', line', answers', world')
      <4>1. tab'.crc
        <5>1. CASE Awaiting(tab)
          <6>1. answers = <<"C">> \/ answers = <<>>  BY <3>3, <5>1 DEF Counted, WaitsWell
          <6>2. byte = "C"
            <7>1. <<byte>>[1] = byte /\ <<"C">>[1] = "C" /\ <<byte>> # <<>>  OBVIOUS
            <7> QED  BY <2>3, <6>1, <7>1
          <6> QED  BY <2>1, <2>6, <5>1, <6>2 DEF SameWork
        <5>2. CASE ~Awaiting(tab)
          <6>1. CountsWell(tab, device, line, answers, world)
            BY <3>3, <5>2, <1>1, <1>2, InOneMode DEF Counted
          <6> QED  BY <2>1, <2>6, <5>2, <6>1 DEF SameWork, CountsWell
        <5> QED  BY <5>1, <5>2
      <4>2. line' = <<Sent(h)>>  BY <2>1, <2>6 DEF GoesWell
      <4>3. Owed(line', answers') = 0  BY <2>1, <4>2, OwedIs
      <4>4. 0 + 0 <= world.faults  BY Limits
      <4> QED  BY <2>1, <2>5, <2>6, <4>1, <4>3, <4>4 DEF CountsWell
    <3>4. tab'.result = "none"  BY <2>1, <2>5, <2>6 DEF GoesWell
    <3> QED  BY <2>1, <2>4, <2>5, <3>1, <3>2, <3>3, <3>4, CountedIn
  <2>7. CASE Resting(h) /\ h.result = "complete"
    <3>1. Resting(tab') /\ tab'.result = "complete"  BY <2>1, <2>7, SameModes
    <3> QED  BY <2>1, <2>5, <3>1, CountedEnds
  <2>8. CASE /\ Sending(tab) /\ byte = "nak" /\ TooMany(tab.retries + 1)
             /\ Resting(h) /\ h.result = "failed"
    <3>1. Resting(tab') /\ ~tab'.file  BY <2>1, <2>8, SameModes DEF Resting
    <3>2. ~Awaiting(tab')  BY <2>1, <3>1, OneMode
    <3>3. ASSUME Watched(tab, device, world) PROVE EndsWell(tab', device')
      <4>1. CountsWell(tab, device, line, answers, world)  BY <2>8, <3>3 DEF Counted
      <4>2. Owed(line, answers) = 1  BY <2>1, <2>3, <2>8, OwedIs
      <4>3. device.phase = "over"
        <5>1. tab.retries + 1 \in Nat  BY Limits
        <5> QED  BY <2>8, <4>1, <4>2, <5>1, Limits DEF CountsWell
      <4>4. Before(tab, device) \/ After(tab, device)  BY <2>8 DEF Tracked, SendInv
      <4>5. Stored(device) = world.size  BY <1>1, <4>3, <4>4, OverIsWhole
      <4> QED  BY <2>1, <4>3, <4>5 DEF EndsWell
    <3> QED  BY <2>1, <2>4, <2>5, <3>1, <3>2, <3>3, CountedIn
  <2>9. CASE /\ Sending(tab) /\ byte = "nak" /\ SameWork(tab, h) /\ h.result = tab.result
             /\ h.retries = tab.retries + 1 /\ h.written = <<Sent(tab)>>
    <3>1. SameWork(tab, tab')  BY <2>1, <2>9 DEF SameWork
    <3>2. Sending(tab') /\ ~Awaiting(tab') /\ tab'.crc = tab.crc
      BY <2>1, <2>9, <3>1, SameModes, OneMode DEF SameWork
    <3>3. ASSUME Watched(tab, device, world) PROVE CountsWell(tab', device', line', answers', world')
      <4>1. CountsWell(tab, device, line, answers, world)  BY <2>9, <3>3 DEF Counted
      <4>2. Owed(line, answers) = 1  BY <2>1, <2>3, <2>9, OwedIs
      <4>3. Owed(line', answers') = 0  BY <2>1, <2>9, OwedIs
      <4>4. (tab.retries + 1) + 0 = tab.retries + 1  BY Limits
      <4> QED  BY <2>1, <2>5, <2>9, <3>2, <4>1, <4>2, <4>3, <4>4 DEF CountsWell
    <3>4. tab'.result = "none"  BY <2>1, <2>5, <2>9
    <3> QED  BY <2>1, <2>4, <2>5, <3>2, <3>3, <3>4, CountedIn
  <2>10. CASE (Sending(tab) \/ Ending(tab)) /\ byte \in {"C", "nak"} /\ h = tab
    <3>1. SameWork(tab, tab')  BY <2>1, <2>10
    <3>2. (Sending(tab') \/ Ending(tab')) /\ ~Awaiting(tab') /\ tab'.crc = tab.crc
      BY <2>1, <2>10, <3>1, SameModes, OneMode DEF SameWork
    <3>3. line' = <<>>  BY <2>1, <2>10 DEF Typed, TabInv
    <3>4. ASSUME Watched(tab, device, world) PROVE CountsWell(tab', device', line', answers', world')
      <4>1. CountsWell(tab, device, line, answers, world)  BY <2>10, <3>4 DEF Counted
      <4>2. answers = <<"C">> \/ answers = <<"nak">>  BY <2>3, <2>10
      <4>3. Owed(line, answers) = 1 /\ Owed(line', answers') = 1
        BY <2>1, <3>3, <4>2, OwedIs
      <4> QED  BY <2>1, <2>5, <2>10, <3>2, <4>1, <4>3 DEF CountsWell
    <3>5. tab'.result = "none"  BY <2>1, <2>5, <2>10
    <3> QED  BY <2>1, <2>4, <2>5, <3>2, <3>4, <3>5, CountedIn
  <2> QED  BY <2>2, <2>6, <2>7, <2>8, <2>9, <2>10 DEF Outcome
<1>3. CASE ~tab.file
  <2>1. Leaves(tab) /\ UNCHANGED <<device, world>>  BY <1>3 DEF ReadyRead
  <2>2. /\ Sender(tab') /\ SameWork(tab, tab') /\ tab'.result = tab.result
        /\ tab'.open = tab.open
    BY <1>1, <2>1, LeavesDoes
  <2>3. Resting(tab) /\ Resting(tab')  BY <1>1, <1>3, <2>2, InOneMode, SameModes
  <2> QED  BY <1>1, <2>1, <2>2, <2>3, CountedRests
<1> QED  BY <1>2, <1>3

LEMMA CountedMenuCancels ==
  ASSUME Typed, Clean, MenuCancels, Counted(tab, device, line, answers, world)
  PROVE  Counted(tab', device', line', answers', world')
<1>1. tab.file /\ Leaves(CancelSerialFile(tab)) /\ UNCHANGED <<answers, device, world>>
  BY DEF MenuCancels, CancelsByMenu
<1>2. Sender(tab) /\ ~tab.returned /\ LineInv(line)  BY DEF Typed, TabInv
<1>3. tab.zmodem = 0  BY <1>1, OpenFile
<1> DEFINE u == CancelSerialFile(tab)
<1>4. Sender(u) /\ u.returned = tab.returned /\ Resting(u) /\ u.result = "stopped"
  BY <1>1, <1>2, <1>3, CancelSerialDoes
<1>5. Leaves(u)  BY <1>1
<1> HIDE DEF u
<1>6. Sender(tab') /\ SameWork(u, tab') /\ tab'.result = u.result
  BY <1>2, <1>4, <1>5, LeavesDoes
<1>7. Resting(tab')  BY <1>4, <1>6, SameModes
<1>8. world'.awaited => device'.phase # "shell"  BY <1>1 DEF Counted
<1> QED  BY <1>4, <1>6, <1>7, <1>8, CountedEnds

LEMMA CountedSendSerialFile ==
  ASSUME Typed, Clean, SendSerialFile, Clean', Counted(tab, device, line, answers, world)
  PROVE  Counted(tab', device', line', answers', world')
<1>1. /\ ~tab.file
      /\ \/ \E ymodem \in BOOLEAN : Leaves(BeginsXmodem(tab, ymodem))
         \/ Leaves(BeginsZmodem(tab, world.transfers + 1))
      /\ world' = [world EXCEPT !.transfers = @ + 1,
                              !.overtaken = @ \/ InFlight,
                              !.awaited = tab'.file /\ device.phase = "start" /\ ~InFlight,
                              !.disturbed = IF OffersCancel(tab) THEN "beside" ELSE @]
      /\ UNCHANGED <<answers, device>> /\ world.transfers < MaxTransfers
  BY DEF SendSerialFile, CancelsByMenu
<1>2. /\ Sender(tab) /\ ~tab.returned /\ tab.written = <<>> /\ LineInv(line) /\ world \in World
  BY DEF Typed, TabInv
<1>3. ~InFlight  BY <1>1, <1>2 DEF Clean, World
<1>4. line = <<>> /\ answers = <<>>  BY <1>3, QuietLine
<1>5. world'.awaited => tab'.file /\ device'.phase = "start"
  BY <1>1, <1>2 DEF World
<1>6. world.transfers + 1 \in 1..MaxTransfers
  <2>1. world.transfers \in 0..MaxTransfers /\ MaxTransfers \in Nat
    BY <1>2, SerialAssumption DEF World
  <2> QED  BY <1>1, <2>1
<1>7. CASE \E ymodem \in BOOLEAN : Leaves(BeginsXmodem(tab, ymodem))
  <2>1. PICK ymodem \in BOOLEAN : Leaves(BeginsXmodem(tab, ymodem))
    BY <1>7
  <2> DEFINE u == BeginsXmodem(tab, ymodem)
  <2>2. /\ Sender(u) /\ Awaiting(u) /\ u.returned = tab.returned
        /\ u.result = "none" /\ u.retries = 0
    BY <1>2, BeginsXmodemDoes
  <2>3. Leaves(u)  BY <2>1
  <2> HIDE DEF u
  <2>4. /\ Sender(tab') /\ SameWork(u, tab') /\ tab'.result = u.result
        /\ tab'.retries = u.retries
    BY <1>2, <2>2, <2>3, LeavesDoes
  <2>5. Awaiting(tab')  BY <2>2, <2>4, SameModes
  <2>6. WaitsWell(answers')  BY <1>1, <1>4, <2>2, <2>4 DEF WaitsWell
  <2> QED  BY <1>5, <2>2, <2>4, <2>5, <2>6, CountedIn
<1>8. CASE Leaves(BeginsZmodem(tab, world.transfers + 1))
  <2> DEFINE u == BeginsZmodem(tab, world.transfers + 1)
  <2>1. Sender(u) /\ Stays(tab, u) /\ u.returned = tab.returned
    BY <1>2, <1>6, BeginsZmodemDoes
  <2>2. Leaves(u)  BY <1>8
  <2> HIDE DEF u
  <2>3. Sender(tab') /\ SameWork(u, tab')  BY <1>2, <2>1, <2>2, LeavesDoes
  <2>4. Resting(tab') /\ ~tab'.file /\ ~Awaiting(tab')
    BY <1>1, <1>2, <2>1, <2>3, InOneMode, SameModes, OneMode DEF Stays
  <2> QED  BY <1>5, <2>3, <2>4, CountedIn DEF Watched
<1> QED  BY <1>1, <1>7, <1>8

LEMMA CountedProcessEnds ==
  ASSUME Typed, ProcessEnds, Counted(tab, device, line, answers, world)
  PROVE  Counted(tab', device', line', answers', world')
<1>1. PICK p \in tab.running : Leaves([FinishZmodem(tab) EXCEPT !.running = @ \ {p}])
  BY DEF ProcessEnds
<1>2. UNCHANGED <<answers, device, world>>  BY DEF ProcessEnds
<1>3. Sender(tab) /\ ~tab.returned /\ tab.written = <<>> /\ LineInv(line)
  BY DEF Typed, TabInv
<1> DEFINE u == [FinishZmodem(tab) EXCEPT !.running = @ \ {p}]
<1>4. Sender(u) /\ Stays(tab, u) /\ u.returned = tab.returned
  BY <1>3, EndsDoes
<1>5. Leaves(u)  BY <1>1
<1> HIDE DEF u
<1>6. /\ Sender(tab') /\ SameWork(u, tab') /\ tab'.result = u.result
      /\ tab'.retries = u.retries /\ tab'.open = u.open /\ line' = line \o u.written
  BY <1>3, <1>4, <1>5, LeavesDoes
<1>7. line' = line
  <2>1. line \o <<>> = line  BY <1>3 DEF LineInv
  <2> QED  BY <1>3, <1>4, <1>6, <2>1 DEF Stays
<1>8. /\ SameWork(tab, tab') /\ tab'.result = tab.result /\ tab'.retries = tab.retries
      /\ tab'.open = tab.open
  BY <1>4, <1>6 DEF Stays, SameWork
<1>9. Counted(tab', device, line, answers, world)  BY <1>8, CountedSame
<1> QED  BY <1>2, <1>7, <1>9

LEMMA CountedProcessWrites ==
  ASSUME Typed, Clean, ProcessWrites, Counted(tab, device, line, answers, world)
  PROVE  Counted(tab', device', line', answers', world')
<1>1. /\ tab.zmodem # 0 /\ Leaves(Writes(tab, Item("zmodem")))
      /\ UNCHANGED <<answers, device, world>>
  BY DEF ProcessWrites
<1>2. Sender(tab) /\ ~tab.returned /\ LineInv(line)  BY DEF Typed, TabInv
<1>3. ~tab.file  BY <1>1, OpenFile
<1> DEFINE u == Writes(tab, Item("zmodem"))
<1>4. /\ Sender(u) /\ SameWork(tab, u) /\ u.result = tab.result
      /\ u.returned = tab.returned /\ u.open = tab.open
  BY <1>2, WritesDoes, ItemsAre, OthersNumbered
<1>5. Leaves(u)  BY <1>1
<1> HIDE DEF u
<1>6. /\ Sender(tab') /\ SameWork(u, tab') /\ tab'.result = u.result /\ tab'.open = u.open
  BY <1>2, <1>4, <1>5, LeavesDoes
<1>7. Resting(tab) /\ Resting(tab')  BY <1>2, <1>3, <1>4, <1>6, InOneMode, SameModes
<1>8. Counted(tab', device, line', answers, world)
  BY <1>2, <1>4, <1>6, <1>7, CountedRests
<1> QED  BY <1>1, <1>8

LEMMA CountedPortDies ==
  ASSUME Typed, Clean, PortDies, Counted(tab, device, line, answers, world)
  PROVE  Counted(tab', device', line', answers', world')
<1>1. /\ tab' = [CancelSerialFile(tab) EXCEPT !.open = FALSE, !.written = <<>>]
      /\ UNCHANGED <<device, world>>
  BY DEF PortDies
<1>2. Sender(tab)  BY DEF Typed, TabInv
<1> DEFINE u == CancelSerialFile(tab)
<1>3. /\ Sender(u)
      /\ \/ tab.file /\ Resting(u)
         \/ (tab.zmodem # 0 \/ ~tab.file) /\ Stays(tab, u)
  BY <1>2, CancelSerialDoes
<1>4. tab' = [u EXCEPT !.open = FALSE, !.written = <<>>]  BY <1>1
<1>a. u \in Tab  BY <1>3 DEF Sender
<1> HIDE DEF u
<1>5. SameWork(u, tab') /\ ~tab'.open  BY <1>4, <1>a DEF Tab, SameWork
<1>6. Resting(u)
  <2>1. CASE tab.file
    <3>1. tab.zmodem = 0  BY <2>1, OpenFile
    <3> QED  BY <1>3, <2>1, <3>1
  <2>2. CASE ~tab.file
    <3>1. SameWork(tab, u) /\ Resting(tab)  BY <1>2, <1>3, <2>2, InOneMode DEF Stays
    <3> QED  BY <3>1, SameModes
  <2> QED  BY <2>1, <2>2
<1>7. ~tab'.file /\ ~Awaiting(tab')
  <2>1. Resting(tab')  BY <1>5, <1>6, SameModes
  <2> QED  BY <2>1 DEF Resting, Awaiting
<1> QED  BY <1>1, <1>5, <1>7 DEF Counted, Watched

LEMMA CountedStartReceiver ==
  ASSUME Typed, StartReceiver, Counted(tab, device, line, answers, world)
  PROVE  Counted(tab', device', line', answers', world')
<1>1. /\ UNCHANGED <<tab, line, answers, world>>
      /\ device.phase = "shell" \/ (device.phase = "over" /\ Waits(tab))
  BY DEF StartReceiver
<1>2. Sender(tab)  BY DEF Typed, TabInv
<1>3. Waits(tab) => Awaiting(tab)  BY <1>2, ModeFields DEF Waits
<1>4. ~world.awaited  BY <1>1, <1>3 DEF Counted
<1> QED  BY <1>1, <1>4 DEF Counted, Watched

LEMMA CountedAsks ==
  ASSUME Typed, Clean, Asks, Counted(tab, device, line, answers, world)
  PROVE  Counted(tab', device', line', answers', world')
<1>1. /\ ~InFlight /\ answers' = Append(answers, IF device.crc THEN "C" ELSE "nak")
      /\ UNCHANGED <<tab, line, device, world>>
  BY DEF Asks
<1>2. Sender(tab)  BY DEF Typed, TabInv
<1>3. line = <<>> /\ answers = <<>>  BY <1>1, QuietLine
<1>4. Watched(tab, device, world) => answers' = <<"C">>
  <2>1. \A x : Append(<<>>, x) = <<x>>  OBVIOUS
  <2> QED  BY <1>1, <1>3, <2>1 DEF Watched
<1>5. ASSUME Watched(tab, device, world), Sending(tab) \/ Ending(tab)
      PROVE  CountsWell(tab, device, line, answers', world)
  <2>1. CountsWell(tab, device, line, answers, world)  BY <1>5 DEF Counted
  <2>2. Owed(line, answers') = Owed(line, answers)  BY <1>3, <1>4, <1>5, OwedIs
  <2> QED  BY <2>1, <2>2 DEF CountsWell
<1>6. Counted(tab, device, line, answers', world)
  BY <1>2, <1>4, <1>5 DEF Counted, WaitsWell
<1> QED  BY <1>1, <1>6

LEMMA CountedFallsBack ==
  ASSUME Typed, FallsBack, Counted(tab, device, line, answers, world)
  PROVE  Counted(tab', device', line', answers', world')
<1>1. /\ device' = [device EXCEPT !.crc = FALSE] /\ UNCHANGED <<tab, line, answers, world>>
  BY DEF FallsBack
<1>2. device'.phase = device.phase /\ ~device'.crc  BY <1>1 DEF Typed, Device
<1> QED  BY <1>1, <1>2 DEF Counted, Watched

LEMMA CountedShellPrints ==
  ASSUME ShellPrints, Counted(tab, device, line, answers, world)
  PROVE  Counted(tab', device', line', answers', world')
<1>1. device.phase = "shell" /\ UNCHANGED <<tab, line, device, world>>
  BY DEF ShellPrints
<1>2. ~world.awaited  BY <1>1 DEF Counted
<1> QED  BY <1>1, <1>2 DEF Counted, Watched

LEMMA ReadsKeeps ==
  ASSUME Typed, NEW item, Reads(item)
  PROVE  /\ device'.crc = device.crc
         /\ device.phase # "shell" => device'.phase # "shell"
         /\ ~Active => device' = device /\ answers' = answers
<1>1. device \in Device  BY DEF Typed
<1>2. CASE device' = device  BY <1>2 DEF Reads
<1>3. CASE device' = [device EXCEPT !.phase = "over"] /\ Active
  BY <1>1, <1>3 DEF Device
<1>4. CASE device' = [device EXCEPT !.phase = "data", !.stored = Append(@, item.data),
                                    !.expects = (@ + 1) % BlockNumbers] /\ Active
  BY <1>1, <1>4 DEF Device
<1>5. CASE device' = [device EXCEPT !.phase = "data", !.header = TRUE, !.expects = 1] /\ Active
  BY <1>1, <1>5 DEF Device
<1>6. CASE device' = [device EXCEPT
             !.phase = IF device.ymodem /\ device.header THEN "final" ELSE "over"] /\ Active
  BY <1>1, <1>6 DEF Device
<1> QED  BY <1>2, <1>3, <1>4, <1>5, <1>6 DEF Reads

LEMMA CountedDeviceReads ==
  ASSUME Typed, Stock(device), Clean, Tracked(tab, device, line, answers), DeviceReads,
         Counted(tab, device, line, answers, world)
  PROVE  Counted(tab', device', line', answers', world')
<1> DEFINE item == Head(line)
<1>1. line # <<>> /\ line' = Tail(line) /\ UNCHANGED <<tab, world>> /\ Reads(item)
  BY ReadsIs
<1>2. Sender(tab)  BY DEF Typed, TabInv
<1>3. /\ device'.crc = device.crc
      /\ device.phase # "shell" => device'.phase # "shell"
      /\ ~Active => device' = device /\ answers' = answers
  BY <1>1, ReadsKeeps
<1>4. Watched(tab, device', world) => Watched(tab, device, world)  BY <1>3 DEF Watched
<1>5. /\ tab.file => tab.result = "none"
      /\ world.awaited => device'.phase # "shell"
  BY <1>3 DEF Counted
<1>6. ~Awaiting(tab)  BY <1>1 DEF Tracked, AwaitInv
<1>7. CASE Sending(tab) \/ Ending(tab)
  <2>1. SendInv(tab, device, line, answers)  BY <1>7 DEF Tracked
  <2>2. line = <<Sent(tab)>> /\ answers = <<>> /\ (Before(tab, device) \/ After(tab, device))
    BY <1>1, <2>1 DEF SendInv
  <2>3. line' = <<>> /\ item = Sent(tab)
    <3>1. \A x : Tail(<<x>>) = <<>> /\ Head(<<x>>) = x  OBVIOUS
    <3> QED  BY <1>1, <2>2, <3>1
  <2> HIDE DEF item
  <2>4. ASSUME Watched(tab, device, world) PROVE CountsWell(tab, device', line', answers', world)
    <3>1. CountsWell(tab, device, line, answers, world)  BY <1>7, <2>4 DEF Counted
    <3>2. Owed(line, answers) = 0  BY <2>2, OwedIs
    <3>3. \/ answers' = <<>> /\ ~Active /\ device' = device
          \/ answers' = <<"nak">> /\ device.crc # tab.crc
          \/ answers' = <<"ack">>
      BY <1>1, <2>2, <2>3, SentReads
    <3>4. device.crc = tab.crc
      <4>1. device.crc /\ tab.crc  BY <2>4, <3>1 DEF Watched, CountsWell
      <4>2. device.crc \in BOOLEAN /\ tab.crc \in BOOLEAN
        <5>1. device \in Device /\ tab \in Tab  BY DEF Typed, TabInv, Sender
        <5> QED  BY <5>1 DEF Device, Tab
      <4> QED  BY <4>1, <4>2
    <3>5. CASE answers' = <<>> /\ ~Active /\ device' = device
      <4>1. device.phase = "over"
        <5>1. device.phase \in {"shell", "start", "data", "final", "over"}
          BY DEF Typed, Device
        <5>2. device.phase # "shell"  BY <2>4 DEF Counted, Watched
        <5> QED  BY <3>5, <5>1, <5>2 DEF Active
      <4> QED  BY <3>1, <3>5, <4>1 DEF CountsWell
    <3>6. CASE answers' = <<"ack">> /\ Active
      <4>1. Owed(line', answers') = 0  BY <2>3, <3>6, OwedIs
      <4>2. tab.retries + 0 <= world.faults
        BY <3>1, <3>2, <3>6 DEF CountsWell, Active
      <4> QED  BY <3>1, <3>6, <4>1, <4>2 DEF CountsWell
    <3>7. CASE answers' = <<"ack">> /\ ~Active
      <4>1. <<"ack">> # <<>>
        <5>1. Len(<<"ack">>) = 1 /\ Len(<<>>) = 0  OBVIOUS
        <5> QED  BY <5>1
      <4> QED  BY <1>3, <2>2, <3>7, <4>1
    <3> QED  BY <3>3, <3>4, <3>5, <3>6, <3>7
  <2>5. Counted(tab, device', line', answers', world)
    BY <1>2, <1>4, <1>5, <1>6, <1>7, <2>4, CountedIn
  <2> QED  BY <1>1, <2>5
<1>8. CASE Resting(tab)
  <2>1. ASSUME Watched(tab, device, world) PROVE EndsWell(tab, device')
    <3>1. EndsWell(tab, device)  BY <1>8, <2>1 DEF Counted
    <3>2. device.phase = "over" => device' = device  BY <1>3 DEF Active
    <3> QED  BY <3>1, <3>2 DEF EndsWell
  <2>2. Counted(tab, device', line', answers', world)
    BY <1>2, <1>4, <1>5, <1>6, <1>8, <2>1, CountedIn
  <2> QED  BY <1>1, <2>2
<1> QED  BY <1>2, <1>6, <1>7, <1>8 DEF Sender

LEMMA CountedLineFails ==
  ASSUME Typed, Stock(device), Clean, Tracked(tab, device, line, answers), LineFails,
         Counted(tab, device, line, answers, world)
  PROVE  Counted(tab', device', line', answers', world')
<1>1. /\ UNCHANGED <<tab, device>> /\ world' = [world EXCEPT !.faults = @ + 1]
      /\ \/ line # <<>> /\ line' = Tail(line) /\ UNCHANGED answers
         \/ answers # <<>> /\ answers' = Tail(answers) /\ UNCHANGED line
         \/ /\ line # <<>> /\ Head(line).kind = "packet"
            /\ line' = Tail(line) /\ answers' = Append(answers, "nak")
  BY DEF LineFails
<1>2. Sender(tab) /\ answers \in Seq(Bytes) /\ world \in World  BY DEF Typed, TabInv
<1>3. world'.awaited = world.awaited /\ world'.faults = world.faults + 1
  BY <1>1, <1>2 DEF World
<1>4. Watched(tab, device, world') => Watched(tab, device, world)  BY <1>3 DEF Watched
<1>5. /\ tab.file => tab.result = "none"
      /\ world'.awaited => device.phase # "shell"
      /\ world'.awaited /\ Awaiting(tab) => device.phase = "start"
  BY <1>3 DEF Counted
<1>6. CASE Awaiting(tab)
  <2>1. AwaitInv(tab, device, line, answers)  BY <1>6 DEF Tracked
  <2>2. answers # <<>> /\ answers' = Tail(answers) /\ Len(answers) <= 1
    BY <1>1, <2>1 DEF AwaitInv
  <2>3. answers' = <<>>  BY <1>2, <2>2, OnlyOne
  <2>4. Watched(tab, device, world') => WaitsWell(answers')
    BY <1>4, <1>6, <2>3 DEF Counted, WaitsWell
  <2>5. Counted(tab, device, line', answers', world')
    BY <1>2, <1>5, <1>6, <2>4, CountedIn
  <2> QED  BY <1>1, <2>5
<1>7. CASE Sending(tab) \/ Ending(tab)
  <2>1. SendInv(tab, device, line, answers)  BY <1>7 DEF Tracked
  <2>2. line' = <<>> /\ answers' \in {<<>>, <<"nak">>}
    <3>1. CASE line = <<Sent(tab)>> /\ answers = <<>>
      <4>1. \A x : Tail(<<x>>) = <<>> /\ Append(<<>>, x) = <<x>>  OBVIOUS
      <4> QED  BY <1>1, <3>1, <4>1
    <3>2. CASE line = <<>> /\ Len(answers) <= 1
      <4>1. answers # <<>> /\ answers' = Tail(answers) /\ line' = <<>>  BY <1>1, <3>2
      <4> QED  BY <1>2, <3>2, <4>1, OnlyOne
    <3> QED  BY <2>1, <3>1, <3>2 DEF SendInv
  <2>3. ASSUME Watched(tab, device, world)
        PROVE  CountsWell(tab, device, line', answers', world')
    <3>1. CountsWell(tab, device, line, answers, world)  BY <1>7, <2>3 DEF Counted
    <3>2. Owed(line, answers) \in {0, 1} /\ Owed(line', answers') = 1
      BY <2>2, OwedIs DEF Owed
    <3>3. tab.retries \in Nat /\ world.faults \in Nat  BY Limits
    <3> QED  BY <1>3, <3>1, <3>2, <3>3 DEF CountsWell
  <2>4. ~Awaiting(tab)  BY <1>2, <1>7, OneMode
  <2>5. Counted(tab, device, line', answers', world')
    BY <1>2, <1>4, <1>5, <1>7, <2>3, <2>4, CountedIn
  <2> QED  BY <1>1, <2>5
<1>8. CASE Resting(tab)
  <2>1. Watched(tab, device, world) => EndsWell(tab, device)  BY <1>8 DEF Counted
  <2>2. Counted(tab, device, line', answers', world')
    BY <1>2, <1>4, <1>5, <1>8, <2>1, CountedIn
  <2> QED  BY <1>1, <2>2
<1> QED  BY <1>2, <1>6, <1>7, <1>8 DEF Sender

-----------------------------------------------------------------------------
(* The invariant, and the theorems.                                           *)
TrackedAndCounted == Tracked(tab, device, line, answers) /\ Counted(tab, device, line, answers, world)
Delivery ==
    /\ Typed
    /\ Mended => Stock(device)
    /\ Clean => TrackedAndCounted

LEMMA Step ==
  ASSUME Typed, Typed', WorldGoesOn, Mended => Stock(device), Clean => TrackedAndCounted,
         Mended /\ Mended' => Stock(device'),
         Clean /\ Clean' /\ Stock(device) =>
             /\ Tracked(tab', device', line', answers')
             /\ Counted(tab', device', line', answers', world')
  PROVE  Delivery'
<1>1. Mended' => Mended /\ Stock(device')  BY CleanEarlier
<1>2. Mended' => Stock(device)'  BY <1>1, StockLater
<1>3. Clean' => Clean /\ Stock(device)  BY CleanEarlier
<1>4. Clean' => /\ Tracked(tab', device', line', answers')
                /\ Counted(tab', device', line', answers', world')
  BY <1>3
<1>5. Clean' => TrackedAndCounted'
  BY <1>4, TrackedLater, CountedLater DEF TrackedAndCounted
<1> QED  BY <1>2, <1>5 DEF Delivery

LEMMA StockDeviceReads ==
  ASSUME Typed, Mended, Stock(device), Clean => TrackedAndCounted, DeviceReads
  PROVE  Stock(device')
<1>1. CASE Clean
  BY <1>1, TrackedDeviceReads DEF TrackedAndCounted
<1>2. CASE ~Clean
  <2>1. ShortFile  BY <1>2 DEF Mended, Clean
  <2>2. line # <<>> /\ Reads(Head(line))  BY ReadsIs
  <2>3. Head(line) \in Written /\ Numbered(Head(line))
    BY <2>2, TailLine DEF Typed
  <2> DEFINE item == Head(line)
  <2>4. item \in Written /\ Numbered(item) /\ Reads(item)  BY <2>2, <2>3
  <2> HIDE DEF item
  <2>5. Right(item)  BY <2>1, <2>4, RightOfShort
  <2> QED  BY <2>4, <2>5, StockReads
<1> QED  BY <1>1, <1>2

LEMMA StockStartReceiver ==
  ASSUME Typed, StartReceiver
  PROVE  Stock(device')
<1>1. PICK ymodem \in IF tab.file THEN {tab.ymodem} ELSE BOOLEAN : device' = Receiver(ymodem)
  BY DEF StartReceiver
<1>2. tab \in Tab  BY DEF Typed, TabInv, Sender
<1>3. tab.ymodem \in BOOLEAN  BY <1>2 DEF Tab
<1>4. ymodem \in BOOLEAN  BY <1>1, <1>3
<1> QED  BY <1>1, <1>4, ReceiverFields

LEMMA StockFallsBack ==
  ASSUME Typed, Stock(device), FallsBack
  PROVE  Stock(device')
<1>1. device' = [device EXCEPT !.crc = FALSE]  BY DEF FallsBack
<1>2. /\ device'.phase = device.phase /\ device'.ymodem = device.ymodem
      /\ device'.stored = device.stored /\ device'.expects = device.expects
      /\ device'.header = device.header
  BY <1>1 DEF Typed, Device
<1> QED  BY <1>2 DEF Stock, Stored

LEMMA DeliveryInductive ==
  ASSUME Delivery, [Next]_vars
  PROVE  Delivery'
<1>0. Typed /\ (Mended => Stock(device)) /\ (Clean => TrackedAndCounted)
  BY DEF Delivery
<1>1. CASE OnTimeout
  <2>1. Typed' /\ WorldGoesOn  BY <1>0, <1>1, TypedOnTimeout
  <2>2. device' = device  BY <1>1 DEF OnTimeout
  <2>3. Clean /\ Clean' /\ Stock(device) =>
             /\ Tracked(tab', device', line', answers')
             /\ Counted(tab', device', line', answers', world')
    BY <1>0, <1>1, TrackedOnTimeout, CountedOnTimeout DEF TrackedAndCounted
  <2> QED  BY <1>0, <2>1, <2>2, <2>3, Step
<1>2. CASE ReadyRead
  <2>1. Typed' /\ WorldGoesOn  BY <1>0, <1>2, TypedReadyRead
  <2>2. device' = device  BY <1>2 DEF ReadyRead
  <2>3. Clean /\ Clean' /\ Stock(device) =>
             /\ Tracked(tab', device', line', answers')
             /\ Counted(tab', device', line', answers', world')
    BY <1>0, <1>2, TrackedReadyRead, CountedReadyRead DEF TrackedAndCounted
  <2> QED  BY <1>0, <2>1, <2>2, <2>3, Step
<1>3. CASE MenuCancels
  <2>1. Typed' /\ WorldGoesOn  BY <1>0, <1>3, TypedMenuCancels
  <2>2. device' = device  BY <1>3 DEF MenuCancels
  <2>3. Clean /\ Clean' /\ Stock(device) =>
             /\ Tracked(tab', device', line', answers')
             /\ Counted(tab', device', line', answers', world')
    BY <1>0, <1>3, TrackedMenuCancels, CountedMenuCancels DEF TrackedAndCounted
  <2> QED  BY <1>0, <2>1, <2>2, <2>3, Step
<1>4. CASE SendSerialFile
  <2>1. Typed' /\ WorldGoesOn  BY <1>0, <1>4, TypedSendSerialFile
  <2>2. device' = device  BY <1>4 DEF SendSerialFile
  <2>3. Clean /\ Clean' /\ Stock(device) =>
             /\ Tracked(tab', device', line', answers')
             /\ Counted(tab', device', line', answers', world')
    BY <1>0, <1>4, TrackedSendSerialFile, CountedSendSerialFile DEF TrackedAndCounted
  <2> QED  BY <1>0, <2>1, <2>2, <2>3, Step
<1>5. CASE TypesControlD
  <2>1. Typed' /\ WorldGoesOn  BY <1>0, <1>5, TypedTypesControlD
  <2>2. ~Mended'
    <3>1. world'.disturbed = "typed"  BY <1>0, <1>5 DEF TypesControlD, Typed, World
    <3> QED  BY <3>1 DEF Mended, Disturbed
  <2>3. ~Clean'  BY <2>2 DEF Mended, Clean
  <2> QED  BY <1>0, <2>1, <2>2, <2>3, Step
<1>6. CASE ProcessEnds
  <2>1. Typed' /\ WorldGoesOn  BY <1>0, <1>6, TypedProcessEnds
  <2>2. device' = device  BY <1>6 DEF ProcessEnds
  <2>3. Clean /\ Clean' /\ Stock(device) =>
             /\ Tracked(tab', device', line', answers')
             /\ Counted(tab', device', line', answers', world')
    BY <1>0, <1>6, TrackedProcessEnds, CountedProcessEnds DEF TrackedAndCounted
  <2> QED  BY <1>0, <2>1, <2>2, <2>3, Step
<1>7. CASE ProcessWrites
  <2>1. Typed' /\ WorldGoesOn  BY <1>0, <1>7, TypedProcessWrites
  <2>2. device' = device  BY <1>7 DEF ProcessWrites
  <2>3. Clean /\ Clean' /\ Stock(device) =>
             /\ Tracked(tab', device', line', answers')
             /\ Counted(tab', device', line', answers', world')
    BY <1>0, <1>7, TrackedProcessWrites, CountedProcessWrites DEF TrackedAndCounted
  <2> QED  BY <1>0, <2>1, <2>2, <2>3, Step
<1>8. CASE PortDies
  <2>1. Typed' /\ WorldGoesOn  BY <1>0, <1>8, TypedPortDies
  <2>2. device' = device  BY <1>8 DEF PortDies
  <2>3. Clean /\ Clean' /\ Stock(device) =>
             /\ Tracked(tab', device', line', answers')
             /\ Counted(tab', device', line', answers', world')
    BY <1>0, <1>8, <2>1, TrackedPortDies, CountedPortDies DEF TrackedAndCounted
  <2> QED  BY <1>0, <2>1, <2>2, <2>3, Step
<1>9. CASE DiskFails
  <2>1. Typed' /\ WorldGoesOn  BY <1>0, <1>9, TypedDiskFails
  <2>2. ~Mended'
    <3>1. world'.disturbed = "unreadable"  BY <1>0, <1>9 DEF DiskFails, Typed, World
    <3> QED  BY <3>1 DEF Mended, Disturbed
  <2>3. ~Clean'  BY <2>2 DEF Mended, Clean
  <2> QED  BY <1>0, <2>1, <2>2, <2>3, Step
<1>10. CASE StartReceiver
  <2>1. Typed' /\ WorldGoesOn  BY <1>0, <1>10, TypedStartReceiver
  <2>2. Stock(device')  BY <1>0, <1>10, StockStartReceiver
  <2>3. Clean /\ Clean' /\ Stock(device) =>
             /\ Tracked(tab', device', line', answers')
             /\ Counted(tab', device', line', answers', world')
    BY <1>0, <1>10, TrackedStartReceiver, CountedStartReceiver DEF TrackedAndCounted
  <2> QED  BY <1>0, <2>1, <2>2, <2>3, Step
<1>11. CASE Asks
  <2>1. Typed' /\ WorldGoesOn  BY <1>0, <1>11, TypedAsks
  <2>2. device' = device  BY <1>11 DEF Asks
  <2>3. Clean /\ Clean' /\ Stock(device) =>
             /\ Tracked(tab', device', line', answers')
             /\ Counted(tab', device', line', answers', world')
    BY <1>0, <1>11, TrackedAsks, CountedAsks DEF TrackedAndCounted
  <2> QED  BY <1>0, <2>1, <2>2, <2>3, Step
<1>12. CASE FallsBack
  <2>1. Typed' /\ WorldGoesOn  BY <1>0, <1>12, TypedFallsBack
  <2>2. Mended => Stock(device')  BY <1>0, <1>12, StockFallsBack
  <2>3. Clean /\ Clean' /\ Stock(device) =>
             /\ Tracked(tab', device', line', answers')
             /\ Counted(tab', device', line', answers', world')
    BY <1>0, <1>12, TrackedFallsBack, CountedFallsBack DEF TrackedAndCounted
  <2> QED  BY <1>0, <2>1, <2>2, <2>3, Step
<1>13. CASE ShellPrints
  <2>1. Typed' /\ WorldGoesOn  BY <1>0, <1>13, TypedShellPrints
  <2>2. device' = device  BY <1>13 DEF ShellPrints
  <2>3. Clean /\ Clean' /\ Stock(device) =>
             /\ Tracked(tab', device', line', answers')
             /\ Counted(tab', device', line', answers', world')
    BY <1>0, <1>13, TrackedShellPrints, CountedShellPrints DEF TrackedAndCounted
  <2> QED  BY <1>0, <2>1, <2>2, <2>3, Step
<1>14. CASE DeviceReads
  <2>1. Typed' /\ WorldGoesOn  BY <1>0, <1>14, TypedDeviceReads
  <2>2. Mended => Stock(device')  BY <1>0, <1>14, StockDeviceReads
  <2>3. Clean /\ Clean' /\ Stock(device) =>
             /\ Tracked(tab', device', line', answers')
             /\ Counted(tab', device', line', answers', world')
    BY <1>0, <1>14, TrackedDeviceReads, CountedDeviceReads DEF TrackedAndCounted
  <2> QED  BY <1>0, <2>1, <2>2, <2>3, Step
<1>15. CASE LineFails
  <2>1. Typed' /\ WorldGoesOn  BY <1>0, <1>15, TypedLineFails
  <2>2. device' = device  BY <1>15 DEF LineFails
  <2>3. Clean /\ Clean' /\ Stock(device) =>
             /\ Tracked(tab', device', line', answers')
             /\ Counted(tab', device', line', answers', world')
    BY <1>0, <1>15, TrackedLineFails, CountedLineFails DEF TrackedAndCounted
  <2> QED  BY <1>0, <2>1, <2>2, <2>3, Step
<1>16. CASE UNCHANGED vars
  <2>1. UNCHANGED <<tab, line, answers, device, world>>  BY <1>16 DEF vars
  <2>2. WorldGoesOn  BY <1>0, <2>1, NothingChanges
  <2>3. Typed'  BY <1>0, <2>1, <2>2, TypedLater DEF Typed
  <2> QED  BY <1>0, <2>1, <2>2, <2>3, Step DEF TrackedAndCounted
<1> QED
  BY <1>1, <1>2, <1>3, <1>4, <1>5, <1>6, <1>7, <1>8, <1>9, <1>10, <1>11, <1>12, <1>13,
     <1>14, <1>15, <1>16 DEF Next

LEMMA DeliveryInitially ==
  ASSUME Init
  PROVE  Delivery
<1>1. PICK size \in Sizes :
         world = [size |-> size, transfers |-> 0, faults |-> 0,
                  overtaken |-> FALSE, awaited |-> FALSE, disturbed |-> "no"]
  BY DEF Init
<1>2. /\ tab = Idle /\ line = <<>> /\ answers = <<>>
      /\ device = [Receiver(FALSE) EXCEPT !.phase = "shell"]
  BY DEF Init
<1>3. /\ Sizes \subseteq Nat /\ MaxTransfers \in Nat /\ MaxFaults \in Nat
      /\ MaxRetries \in Nat /\ BlockNumbers \in Nat /\ BlockNumbers > 2
  BY SerialAssumption
<1>4. world \in World /\ world.size \in Nat /\ world.transfers = 0 /\ ~world.awaited
  BY <1>1, <1>3 DEF World
<1>5. <<>> \in Seq(Written) /\ <<>> \in Seq(Bytes) /\ <<>> \in Seq(Int) /\ Len(<<>>) = 0
  OBVIOUS
<1>6. /\ device = [phase |-> "shell", ymodem |-> FALSE, crc |-> TRUE, expects |-> 1,
                   header |-> TRUE, stored |-> <<>>]
  BY <1>2 DEF Receiver
<1>7. device \in Device
  <2>1. 1 \in 0..BlockNumbers - 1  BY <1>3
  <2> QED  BY <1>5, <1>6, <2>1 DEF Device
<1>8. /\ tab \in Tab /\ ~tab.file /\ tab.packet = NoPacket /\ ~tab.waitingEotAck
      /\ ~tab.ymodem /\ ~tab.headerPending /\ ~tab.finalHeader
      /\ tab.read = 0 /\ tab.written = <<>> /\ ~tab.returned /\ tab.zmodem = 0
      /\ tab.result = "none"
  <2>1. 0 \in 0..MaxRetries + 1 /\ 0 \in 0..MaxTransfers /\ {} \in SUBSET (1..MaxTransfers)
    BY <1>3
  <2>2. tab.written = <<>> /\ tab \in Tab
    BY <1>2, <1>5, <2>1, ItemsAre DEF Idle, Tab, Written
  <2> QED  BY <1>2, <2>2 DEF Idle
<1>9. Resting(tab)  BY <1>8 DEF Resting
<1>10. Sender(tab)
  <2>1. AllNumbered(<<>>)  BY DEF AllNumbered
  <2> QED  BY <1>4, <1>8, <1>9, <2>1 DEF Sender, AllNumbered
<1>11. Typed
  <2>1. AllNumbered(<<>>)  BY DEF AllNumbered
  <2>2. LineInv(line)  BY <1>2, <1>5, <2>1 DEF LineInv
  <2>3. TabInv(tab)  BY <1>4, <1>8, <1>10 DEF TabInv
  <2> QED  BY <1>2, <1>4, <1>5, <1>7, <2>2, <2>3 DEF Typed
<1>12. Stock(device)
  <2>1. (0 + 1) % BlockNumbers = 1
    <3>1. 1 % BlockNumbers = 1 /\ 0 + 1 = 1  BY <1>3, SmallNumber
    <3> QED  BY <3>1
  <2>2. Stored(device) = 0  BY <1>5, <1>6 DEF Stored
  <2>3. /\ device.phase = "shell" /\ device.header /\ ~device.ymodem /\ device.expects = 1
    BY <1>6
  <2>4. Stored(device) <= world.size /\ \A i \in 1..Stored(device) : device.stored[i] = i
    BY <1>4, <2>2
  <2> QED  BY <2>1, <2>2, <2>3, <2>4 DEF Stock
<1>13. Tracked(tab, device, line, answers)
  <2>1. \A i \in 2..Len(line) : FALSE  BY <1>2, <1>5
  <2>2. RestInv(tab, device, line)  BY <1>2, <1>8, <2>1 DEF RestInv
  <2> QED  BY <1>9, <1>10, <2>2, TrackedIn
<1>14. Counted(tab, device, line, answers, world)
  <2>1. ~Watched(tab, device, world)  BY <1>4 DEF Watched
  <2> QED  BY <1>4, <1>8, <1>10, <2>1, CountedIn
<1> QED  BY <1>11, <1>12, <1>13, <1>14 DEF Delivery, TrackedAndCounted

(* What is stored is a beginning of the file, and all of it when it is as long *)
(* as the file.                                                               *)
LEMMA StockIsFile ==
  ASSUME Typed, Stock(device)
  PROVE  /\ IsPrefix(device.stored, File)
         /\ Stored(device) = world.size => device.stored = File
<1> DEFINE n == Len(device.stored)
           s == device.stored
<1>1. n \in Nat /\ world.size \in Nat /\ s \in Seq(Int) /\ n <= world.size
  BY StockFields DEF Stored, Stock
<1>2. \A i \in 1..n : s[i] = i  BY DEF Stock, Stored
<1> HIDE DEF n, s
<1>3. File \in Seq(Int) /\ Len(File) = world.size /\ \A i \in 1..world.size : File[i] = i
  BY <1>1 DEF File
<1>4. n = Len(s) /\ s = device.stored  BY DEF n, s
<1>5. IsPrefix(s, File)
  <2>1. SubSeq(s, 1, n) = s  BY <1>1, <1>4
  <2>2. SubSeq(File, 1, n) = s
    <3>1. /\ SubSeq(File, 1, n) \in Seq(Int) /\ Len(SubSeq(File, 1, n)) = n
          /\ \A i \in 1..n : SubSeq(File, 1, n)[i] = File[i]
      BY <1>1, <1>3
    <3>2. \A i \in 1..n : SubSeq(File, 1, n)[i] = s[i]  BY <1>1, <1>2, <1>3, <1>4, <3>1
    <3> QED  BY <1>1, <1>4, <3>1, <3>2
  <2> QED  BY <1>1, <1>3, <1>4, <2>1, <2>2 DEF IsPrefix
<1>6. n = world.size => s = File
  BY <1>1, <1>2, <1>3, <1>4
<1> QED  BY <1>4, <1>5, <1>6 DEF Stored

LEMMA DeliveryMeans ==
  ASSUME Delivery
  PROVE  DeliverySound /\ RetriesSuffice
<1>1. Typed /\ (Mended => Stock(device)) /\ (Clean => TrackedAndCounted)
  BY DEF Delivery
<1>2. TypeOK
  <2>1. tab \in Tab /\ tab.written = <<>> /\ ~tab.returned
    BY <1>1 DEF Typed, TabInv, Sender
  <2>2. /\ device.phase \in {"shell", "start", "data", "final", "over"}
        /\ device.expects \in 0..BlockNumbers - 1
    BY <1>1 DEF Typed, Device
  <2>3. \A i \in DOMAIN answers : answers[i] \in Bytes
    BY <1>1 DEF Typed
  <2> QED  BY <2>1, <2>2, <2>3 DEF TypeOK
<1>3. Mended => IsPrefix(device.stored, File)  BY <1>1, StockIsFile
<1>4. ASSUME Clean, Stored(device) = world.size PROVE device.stored = File
  BY <1>1, <1>4, StockIsFile DEF Clean, Mended
<1>5. ASSUME Clean, tab.result # "none"
      PROVE  /\ Resting(tab) /\ RestInv(tab, device, line)
             /\ Watched(tab, device, world) => EndsWell(tab, device)
  <2>1. Sender(tab)  BY <1>1 DEF Typed, TabInv
  <2>2. ~tab.file  BY <1>1, <1>5 DEF TrackedAndCounted, Counted
  <2>3. Resting(tab)  BY <2>1, <2>2, InOneMode
  <2> QED  BY <1>1, <1>5, <2>3 DEF TrackedAndCounted, Counted, Tracked
<1>6. CompleteMeansWhole
  BY <1>3, <1>4, <1>5 DEF CompleteMeansWhole, Mended, Clean, RestInv
<1>7. RetriesSuffice
  <2> SUFFICES ASSUME tab.result \in {"timed out", "failed", "cancelled"}, Clean,
                      Watched(tab, device, world)
               PROVE  device.stored = File /\ device.phase \in {"final", "over"}
    BY DEF RetriesSuffice, Fails, Attended, HasFile, Clean, Watched
  <2>1. Stored(device) = world.size /\ device.phase = "over"  BY <1>5 DEF EndsWell
  <2> QED  BY <1>4, <2>1
<1> QED  BY <1>2, <1>6, <1>7 DEF DeliverySound

(* handleXmodemInput, sendXmodemPacket: whatever is lost, spoilt, sent again  *)
(* or given up, for every file, every number of blocks and every limit the    *)
(* receiver has a beginning of the file, and complete means all of it.        *)
THEOREM DeliveryAlwaysSound == Spec => []DeliverySound
<1>1. Init => Delivery  BY DeliveryInitially
<1>2. Delivery /\ [Next]_vars => Delivery'  BY DeliveryInductive
<1>3. Delivery => DeliverySound  BY DeliveryMeans
<1> QED  BY <1>1, <1>2, <1>3, PTL DEF Spec

(* The retries: as many faults as the limit allows do not end a transfer that *)
(* the receiver awaited and heard, unless a tick fell on something in flight. *)
THEOREM RetriesAlwaysSuffice == Spec => []RetriesSuffice
<1>1. Init => Delivery  BY DeliveryInitially
<1>2. Delivery /\ [Next]_vars => Delivery'  BY DeliveryInductive
<1>3. Delivery => RetriesSuffice  BY DeliveryMeans
<1> QED  BY <1>1, <1>2, <1>3, PTL DEF Spec
=============================================================================
