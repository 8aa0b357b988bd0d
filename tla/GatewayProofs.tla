--------------------------- MODULE GatewayProofs ----------------------------
(***************************************************************************)
(* Theorems about Gateway, for every number of channels, every size of the *)
(* buffers, every set of bytes and any loss on the serial line.            *)
(***************************************************************************)
EXTENDS Gateway, SequenceTheorems, TLAPS

States == {"read_address", "read_first_nibble", "read_second_nibble"}
Readers == [state : States, address : Addresses, nibble : Nibbles]
Buffered == [byte : AllBytes, from : Addresses]
Writes == [to : Addresses, byte : Seq(Nibbles), reads : 0..MAX_PRE_WRITE_READS]
Kinds == {"address", "first", "second"}

(***************************************************************************)
(* The inductive invariant.  TypeOK is not inductive by itself: that the   *)
(* serial port has a byte to read in the middle of a frame rests on the    *)
(* three there were at its start, only the gateway taking any away.        *)
(***************************************************************************)

RestOfFrame ==
    /\ at = Server(1) => Len(serial_in) >= 2
    /\ at = Server(2) => Len(serial_in) >= 1

IInv == TypeOK /\ RestOfFrame

LEMMA Numbers ==
  /\ NUM_CLIENTS \in Nat /\ NUM_CLIENTS >= 1
  /\ COMMS_BUFFER_SIZE \in Nat /\ COMMS_BUFFER_SIZE >= 1
  /\ MAX_PRE_WRITE_READS = COMMS_BUFFER_SIZE
  /\ SERIAL_BUFFER_SIZE \in Nat
  /\ MAX_LOST_UP \in Nat /\ MAX_LOST_DOWN \in Nat
BY GatewayAssumption DEF MAX_PRE_WRITE_READS

LEMMA Places ==
  /\ 0 \in Addresses
  /\ \A c \in Addresses : c \in 0..Writing /\ c + 1 \in 0..Writing
  /\ \A c \in Addresses : c + 1 # Server(1) /\ c + 1 # Server(2)
  /\ \A n \in 0..3 : Server(n) \in 0..Writing
  /\ \A n \in 0..2 : Server(n) + 1 \in 0..Writing /\ Server(n) + 1 = Server(n + 1)
  /\ \A i, j \in 0..3 : Server(i) = Server(j) => i = j
  /\ 0 # Server(1) /\ 0 # Server(2)
  /\ Writing = Server(3)
BY Numbers DEF Addresses, Writing, Server

LEMMA BytesHaveTypes ==
  /\ DeviceBytes \subseteq AllBytes /\ ServerBytes \subseteq AllBytes
  /\ \A b \in AllBytes : b[1] \in Nibbles /\ b[2] \in Nibbles
  /\ 0 \in Nibbles
BY GatewayAssumption DEF AllBytes

(* A frame is three bytes for the serial line.                             *)
LEMMA FrameType ==
  ASSUME NEW a \in Addresses, NEW b \in AllBytes, NEW from \in Addresses
  PROVE  Frame(a, b, from) \in Seq(SerialBytes)
<1>1. [kind |-> "address", value |-> a] \in SerialBytes
  BY DEF SerialBytes
<1>2. [kind |-> "first", value |-> b[1]] \in SerialBytes
  BY BytesHaveTypes DEF SerialBytes
<1>3. [kind |-> "second", value |-> b[2],
       of |-> [address |-> a, byte |-> b, from |-> from]] \in SerialBytes
  BY BytesHaveTypes DEF SerialBytes
<1>4. QED
  BY <1>1, <1>2, <1>3 DEF Frame

LEMMA SerialByteFields ==
  ASSUME NEW b \in SerialBytes
  PROVE  /\ b.kind \in Kinds
         /\ b.kind = "address" => b.value \in Addresses
         /\ b.kind # "address" => b.value \in Nibbles
BY DEF SerialBytes, Kinds

(* What is expected third is expected of no other byte of the frame.       *)
LEMMA ExpectedKind ==
  ASSUME NEW b \in SerialBytes, NEW n \in 0..2, Expected(n, b)
  PROVE  (n = 0 => b.kind = "address") /\ (n # 0 => b.kind # "address")
<1>1. CASE n = 0
  BY <1>1 DEF Expected
<1>2. CASE n = 1
  BY <1>2 DEF Expected
<1>3. CASE n = 2
  BY <1>3 DEF Expected
<1>4. QED
  BY <1>1, <1>2, <1>3

LEMMA FedReader ==
  ASSUME NEW r \in Readers, NEW b \in SerialBytes
  PROVE  /\ Feed(r, b) \in Readers
         /\ \A d \in Received(r, b) : d.address \in Addresses
<1>1. Start \in Readers
  BY Places, BytesHaveTypes DEF Start, Readers, States
<1>2. r.address \in Addresses
  BY DEF Readers
<1>3. CASE r.state = "read_address" /\ Accepts(r, b)
  <2>1. b.value \in Addresses
    BY <1>3, SerialByteFields DEF Accepts
  <2>2. Feed(r, b) = [Start EXCEPT !.state = "read_first_nibble", !.address = b.value]
    BY <1>3 DEF Feed
  <2>3. QED
    BY <1>1, <1>2, <1>3, <2>1, <2>2 DEF Received, Readers, States
<1>4. CASE r.state = "read_first_nibble" /\ Accepts(r, b)
  <2>1. b.value \in Nibbles
    BY <1>4, SerialByteFields DEF Accepts
  <2>2. Feed(r, b) = [r EXCEPT !.state = "read_second_nibble", !.nibble = b.value]
    BY <1>4 DEF Feed
  <2>3. QED
    BY <1>2, <1>4, <2>1, <2>2 DEF Received, Readers, States
<1>5. CASE r.state = "read_second_nibble" \/ ~Accepts(r, b)
  <2>1. Feed(r, b) = Start
    BY <1>5 DEF Feed
  <2>2. QED
    BY <1>1, <1>2, <2>1 DEF Received
<1>6. QED
  BY <1>3, <1>4, <1>5 DEF Readers, States

(* One whole frame brings a reader in any state back to the first.         *)
LEMMA FrameResynchronises ==
  ASSUME NEW r \in Readers, NEW a \in Addresses, NEW b \in AllBytes
  PROVE  LET f == Frame(a, b, a)
         IN  Feed(Feed(Feed(r, f[1]), f[2]), f[3]).state = "read_address"
<1> DEFINE f == Frame(a, b, a)
           r1 == Feed(r, f[1])
           r2 == Feed(r1, f[2])
           r3 == Feed(r2, f[3])
<1>1. /\ f[1].kind = "address" /\ f[1].value = a
      /\ f[2].kind = "first" /\ f[2].value = b[1]
      /\ f[3].kind = "second"
  BY DEF Frame
<1>2. r.state \in States
  BY DEF Readers
<1> HIDE DEF f
(* After its first byte the reader has the address or has given up.        *)
<1>3. r1.state = "read_first_nibble" \/ r1.state = "read_address"
  BY <1>1, <1>2 DEF Feed, Accepts, Start, States
<1> HIDE DEF r1
<1>4. r2.state = "read_second_nibble" \/ r2.state = "read_address"
  <2>1. CASE r1.state = "read_first_nibble"
    <3>1. r2 = [r1 EXCEPT !.state = "read_second_nibble", !.nibble = f[2].value]
      BY <1>1, <2>1 DEF Feed, Accepts
    <3>2. QED
      BY <3>1, <2>1
  <2>2. CASE r1.state = "read_address"
    BY <1>1, <2>2 DEF Feed, Accepts, Start
  <2>3. QED
    BY <1>3, <2>1, <2>2
<1> HIDE DEF r2
<1>5. r3.state = "read_address"
  BY <1>1, <1>4 DEF Feed, Accepts, Start
<1>6. QED
  BY <1>5 DEF r3, r2, r1, f

-----------------------------------------------------------------------------
(* What the steps of the gateway leave alone, they leave well typed.       *)

LEMMA InitialTypes == Init => IInv
<1> SUFFICES ASSUME Init PROVE IInv
  OBVIOUS
<1>1. Start \in Readers
  BY Places, BytesHaveTypes DEF Start, Readers, States
<1>2. NoWrite \in Writes
  BY Places, Numbers DEF NoWrite, Writes
<1>3. 0 \in 0..Writing
  BY Places
<1>4. TypeOK
  BY <1>1, <1>2, <1>3, Numbers DEF Init, TypeOK, Readers, States, Writes
<1>5. RestOfFrame
  BY Places DEF Init, RestOfFrame
<1>6. QED
  BY <1>4, <1>5 DEF IInv

LEMMA DevicesKeepTypes ==
  ASSUME IInv, NEW c \in Addresses,
         DeviceGivesUp(c) \/ \E b \in DeviceBytes : DeviceWrites(c, b)
  PROVE  IInv'
<1>1. pending' \in [Addresses -> SUBSET AllBytes]
  BY BytesHaveTypes DEF IInv, TypeOK, DeviceGivesUp, DeviceWrites
<1>2. UNCHANGED <<at, write, buffer, serial_in, down, up, reader, clients, lost_up, lost_down>>
  BY DEF DeviceGivesUp, DeviceWrites, gateway, router
<1>3. QED
  BY <1>1, <1>2 DEF IInv, TypeOK, RestOfFrame

(* A byte from a device is framed and sent up.                             *)
LEMMA UpType ==
  ASSUME IInv, NEW a \in Addresses, NEW b \in AllBytes, NEW from \in Addresses
  PROVE  up \o Frame(a, b, from) \in Seq(SerialBytes)
<1>1. \A p, q \in Seq(SerialBytes) : p \o q \in Seq(SerialBytes)
  OBVIOUS
<1>2. QED
  BY <1>1, FrameType DEF IInv, TypeOK

LEMMA PollsKeepTypes ==
  ASSUME IInv, NEW c \in Addresses,
         NothingFrom(c) \/ PollBuffer(c) \/ PollLine(c) \/ PollFails(c)
  PROVE  IInv'
<1>1. at' = c + 1 /\ UNCHANGED <<write, serial_in, down, reader, clients, lost_up, lost_down>>
  BY DEF NothingFrom, PollBuffer, PollLine, PollFails, NextChannel, router
<1>2. RestOfFrame'
  BY <1>1, Places DEF RestOfFrame
<1>3. at' \in 0..Writing
  BY <1>1, Places
<1>4. pending' \in [Addresses -> SUBSET AllBytes]
  BY DEF IInv, TypeOK, NothingFrom, PollBuffer, PollLine, PollFails
<1>5. /\ buffer' \in Seq(Buffered) /\ Len(buffer') < COMMS_BUFFER_SIZE
      /\ up' \in Seq(SerialBytes)
  <2>1. buffer \in Seq(Buffered) /\ Len(buffer) < COMMS_BUFFER_SIZE /\ up \in Seq(SerialBytes)
    BY DEF IInv, TypeOK, Buffered
  <2>2. CASE PollBuffer(c)
    <3>1. /\ buffer # <<>> /\ buffer' = Tail(buffer)
          /\ up' = up \o Frame(c, Head(buffer).byte, Head(buffer).from)
      BY <2>2 DEF PollBuffer
    <3>2. Head(buffer) \in Buffered
      BY <2>1, <3>1
    <3>3. Head(buffer).byte \in AllBytes /\ Head(buffer).from \in Addresses
      BY <3>2 DEF Buffered
    <3>4. buffer' \in Seq(Buffered) /\ Len(buffer') < COMMS_BUFFER_SIZE
      BY <2>1, <3>1, Numbers
    <3>5. QED
      BY <3>1, <3>3, <3>4, UpType
  <2>3. CASE PollLine(c)
    <3>1. PICK b \in pending[c] : up' = up \o Frame(c, b, c)
      BY <2>3 DEF PollLine
    <3>2. b \in AllBytes
      BY <3>1 DEF IInv, TypeOK
    <3>3. QED
      BY <2>1, <2>3, <3>1, <3>2, UpType DEF PollLine
  <2>4. CASE NothingFrom(c) \/ PollFails(c)
    BY <2>1, <2>4 DEF NothingFrom, PollFails
  <2>5. QED
    BY <2>2, <2>3, <2>4
<1>6. QED
  BY <1>1, <1>2, <1>3, <1>4, <1>5 DEF IInv, TypeOK, Buffered

LEMMA ReadSerialKeepsTypes ==
  ASSUME IInv, NEW n \in 0..2, ReadSerial(n)
  PROVE  IInv'
<1> DEFINE b == Head(serial_in)
<1>1. /\ at = Server(n)
      /\ n = 0 => Len(serial_in) >= 3
      /\ serial_in' = Tail(serial_in)
      /\ UNCHANGED <<pending, buffer, down, up, reader, clients, lost_up, lost_down>>
  BY DEF ReadSerial, router
<1>2. serial_in \in Seq(SerialBytes) /\ Len(serial_in) <= SERIAL_BUFFER_SIZE
  BY DEF IInv, TypeOK
<1>3. Len(serial_in) >= 3 - n
  <2>1. Len(serial_in) \in Nat
    BY <1>2
  <2>2. CASE n = 0
    BY <1>1, <2>1, <2>2
  <2>3. CASE n = 1
    BY <1>1, <2>1, <2>3 DEF IInv, RestOfFrame
  <2>4. CASE n = 2
    BY <1>1, <2>1, <2>4 DEF IInv, RestOfFrame
  <2>5. QED
    BY <2>2, <2>3, <2>4
<1>4. /\ b \in SerialBytes /\ serial_in' \in Seq(SerialBytes)
      /\ Len(serial_in') = Len(serial_in) - 1
  BY <1>1, <1>2, <1>3
<1>5. /\ at' \in 0..Writing /\ write' \in Writes
      /\ at' = Server(n + 1) \/ at' = 0
  <2>1. write \in Writes
    BY DEF IInv, TypeOK, Writes
  <2>2. CASE ~Expected(n, b)
    <3>1. at' = 0 /\ write' = NoWrite
      BY <2>2 DEF ReadSerial
    <3>2. QED
      BY <3>1, Places, Numbers DEF NoWrite, Writes
  <2>3. CASE Expected(n, b) /\ n = 0
    <3>1. b.value \in Addresses
      BY <1>4, <2>3, ExpectedKind, SerialByteFields
    <3>2. at' = at + 1 /\ write' = [write EXCEPT !.to = b.value]
      BY <2>3 DEF ReadSerial
    <3>3. write' \in Writes
      BY <2>1, <3>1, <3>2 DEF Writes
    <3>4. at' \in 0..Writing /\ at' = Server(n + 1)
      BY <1>1, <3>2, Places
    <3>5. QED
      BY <3>3, <3>4
  <2>4. CASE Expected(n, b) /\ n # 0
    <3>1. b.value \in Nibbles
      BY <1>4, <2>4, ExpectedKind, SerialByteFields
    <3>2. at' = at + 1 /\ write' = [write EXCEPT !.byte = Append(write.byte, b.value)]
      BY <2>4 DEF ReadSerial
    <3>3. Append(write.byte, b.value) \in Seq(Nibbles)
      <4>1. write.byte \in Seq(Nibbles)
        BY <2>1 DEF Writes
      <4>2. QED
        BY <3>1, <4>1
    <3>4. write' \in Writes
      BY <2>1, <3>2, <3>3 DEF Writes
    <3>5. at' \in 0..Writing /\ at' = Server(n + 1)
      BY <1>1, <3>2, Places
    <3>6. QED
      BY <3>4, <3>5
  <2>5. QED
    BY <2>2, <2>3, <2>4
<1>6. RestOfFrame'
  <2>1. at' = Server(1) => n = 0
    BY <1>5, Places
  <2>2. at' = Server(2) => n = 1
    BY <1>5, Places
  <2>3. QED
    BY <1>2, <1>3, <1>4, <2>1, <2>2 DEF RestOfFrame
<1>7. Len(serial_in') <= SERIAL_BUFFER_SIZE
  BY <1>2, <1>4, Numbers
<1>8. QED
  BY <1>1, <1>4, <1>5, <1>6, <1>7 DEF IInv, TypeOK, Writes

LEMMA PreWriteReadKeepsTypes ==
  ASSUME IInv, PreWriteRead
  PROVE  IInv'
<1>1. PICK b \in pending[write.to] :
        /\ pending' = [pending EXCEPT ![write.to] = {}]
        /\ IF Len(buffer) < COMMS_BUFFER_SIZE - 1
           THEN /\ buffer' = Append(buffer, [byte |-> b, from |-> write.to])
                /\ IF write.reads + 1 < MAX_PRE_WRITE_READS
                   THEN write' = [write EXCEPT !.reads = write.reads + 1] /\ UNCHANGED at
                   ELSE write' = NoWrite /\ at' = 0
           ELSE write' = NoWrite /\ at' = 0 /\ UNCHANGED buffer
  BY DEF PreWriteRead
<1>2. UNCHANGED <<serial_in, down, up, reader, clients, lost_up, lost_down>> /\ at = Writing
  BY DEF PreWriteRead, router
<1>3. write \in Writes /\ write.to \in Addresses /\ write.reads \in 0..MAX_PRE_WRITE_READS
  BY DEF IInv, TypeOK, Writes
<1>4. b \in AllBytes /\ pending' \in [Addresses -> SUBSET AllBytes]
  BY <1>1, <1>3 DEF IInv, TypeOK
<1>5. buffer' \in Seq(Buffered) /\ Len(buffer') < COMMS_BUFFER_SIZE
  <2>1. buffer \in Seq(Buffered) /\ Len(buffer) < COMMS_BUFFER_SIZE
    BY DEF IInv, TypeOK, Buffered
  <2>2. [byte |-> b, from |-> write.to] \in Buffered
    BY <1>3, <1>4 DEF Buffered
  <2>3. CASE Len(buffer) < COMMS_BUFFER_SIZE - 1
    <3>1. buffer' = Append(buffer, [byte |-> b, from |-> write.to])
      BY <1>1, <2>3
    <3>2. buffer' \in Seq(Buffered) /\ Len(buffer') = Len(buffer) + 1
      BY <2>1, <2>2, <3>1
    <3>3. QED
      BY <2>1, <2>3, <3>2, Numbers
  <2>4. CASE ~(Len(buffer) < COMMS_BUFFER_SIZE - 1)
    BY <1>1, <2>1, <2>4
  <2>5. QED
    BY <2>3, <2>4
<1>6. (at' = at \/ at' = 0) /\ write' \in Writes
  <2>1. NoWrite \in Writes
    BY Places, Numbers DEF NoWrite, Writes
  <2>2. write.reads + 1 < MAX_PRE_WRITE_READS =>
          [write EXCEPT !.reads = write.reads + 1] \in Writes
    BY <1>3, Numbers DEF Writes
  <2>3. QED
    BY <1>1, <2>1, <2>2
<1>7. at' \in 0..Writing /\ RestOfFrame'
  <2>1. at' = Server(3) \/ at' = 0
    BY <1>2, <1>6, Places
  <2>2. at' \in 0..Writing /\ at' # Server(1) /\ at' # Server(2)
    BY <2>1, Places
  <2>3. QED
    BY <2>2 DEF RestOfFrame
<1>8. QED
  BY <1>2, <1>4, <1>5, <1>6, <1>7 DEF IInv, TypeOK, Buffered, Writes

LEMMA RoundEndKeepsTypes ==
  ASSUME IInv, NothingFromServer \/ WriteEnds
  PROVE  IInv'
<1>1. /\ at' = 0 /\ write' \in {write, NoWrite}
      /\ UNCHANGED <<pending, buffer, serial_in, down, up, reader, clients, lost_up, lost_down>>
  BY DEF NothingFromServer, WriteEnds, router
<1>2. write' \in Writes
  <2>1. write \in Writes
    BY DEF IInv, TypeOK, Writes
  <2>2. NoWrite \in Writes
    BY Places, Numbers DEF NoWrite, Writes
  <2>3. QED
    BY <1>1, <2>1, <2>2
<1>3. QED
  BY <1>1, <1>2, Places DEF IInv, TypeOK, RestOfFrame, Writes

LEMMA ArrivalKeepsTypes ==
  ASSUME IInv, Arrives
  PROVE  IInv'
<1>1. /\ down # <<>> /\ down' = Tail(down)
      /\ UNCHANGED <<pending, at, write, buffer, up, reader, clients, lost_up>>
  BY DEF Arrives, gateway, router
<1>2. down \in Seq(SerialBytes) /\ serial_in \in Seq(SerialBytes)
  BY DEF IInv, TypeOK
<1>3. Head(down) \in SerialBytes /\ down' \in Seq(SerialBytes)
  BY <1>1, <1>2
<1>4. CASE Len(serial_in) < SERIAL_BUFFER_SIZE
  <2>1. serial_in' = Append(serial_in, Head(down)) /\ lost_down' = 0
    BY <1>4 DEF Arrives
  <2>2. /\ serial_in' \in Seq(SerialBytes)
        /\ Len(serial_in') = Len(serial_in) + 1
        /\ Len(serial_in) \in Nat
    BY <1>2, <1>3, <2>1
  <2>3. RestOfFrame'
    BY <1>1, <2>2 DEF IInv, RestOfFrame
  <2>4. Len(serial_in') <= SERIAL_BUFFER_SIZE /\ lost_down' \in 0..MAX_LOST_DOWN
    BY <1>4, <2>1, <2>2, Numbers
  <2>5. QED
    BY <1>1, <1>3, <2>2, <2>3, <2>4 DEF IInv, TypeOK
<1>5. CASE ~(Len(serial_in) < SERIAL_BUFFER_SIZE)
  <2>1. lost_down < MAX_LOST_DOWN /\ lost_down' = lost_down + 1 /\ UNCHANGED serial_in
    BY <1>5 DEF Arrives
  <2>2. lost_down' \in 0..MAX_LOST_DOWN
    BY <2>1, Numbers DEF IInv, TypeOK
  <2>3. QED
    BY <1>1, <1>3, <2>1, <2>2 DEF IInv, TypeOK, RestOfFrame
<1>6. QED
  BY <1>4, <1>5

LEMMA LossKeepsTypes ==
  ASSUME IInv, Lose
  PROVE  IInv'
<1>1. /\ up # <<>> /\ up' = Tail(up)
      /\ lost_up < MAX_LOST_UP /\ lost_up' = lost_up + 1
      /\ UNCHANGED <<pending, at, write, buffer, serial_in, down, reader, clients, lost_down>>
  BY DEF Lose, gateway, router
<1>2. up' \in Seq(SerialBytes)
  BY <1>1 DEF IInv, TypeOK
<1>3. lost_up' \in 0..MAX_LOST_UP
  BY <1>1, Numbers DEF IInv, TypeOK
<1>4. QED
  BY <1>1, <1>2, <1>3 DEF IInv, TypeOK, RestOfFrame

LEMMA RouterReadsKeepsTypes ==
  ASSUME IInv, RouterReads
  PROVE  IInv'
<1>1. /\ up # <<>> /\ up' = Tail(up)
      /\ reader' = Feed(reader, Head(up))
      /\ clients' = clients \cup {d.address : d \in Received(reader, Head(up))}
      /\ lost_up' = 0
      /\ UNCHANGED <<pending, at, write, buffer, serial_in, down, lost_down>>
  BY DEF RouterReads, gateway
<1>2. Head(up) \in SerialBytes /\ up' \in Seq(SerialBytes)
  BY <1>1 DEF IInv, TypeOK
<1>3. reader \in Readers /\ clients \subseteq Addresses
  BY DEF IInv, TypeOK, Readers, States
<1>4. reader' \in Readers /\ clients' \subseteq Addresses
  BY <1>1, <1>2, <1>3, FedReader
<1>5. lost_up' \in 0..MAX_LOST_UP
  BY <1>1, Numbers
<1>6. QED
  BY <1>1, <1>2, <1>4, <1>5 DEF IInv, TypeOK, RestOfFrame, Readers, States

LEMMA RouterWritesKeepsTypes ==
  ASSUME IInv, NEW c \in Addresses, NEW b \in ServerBytes, RouterWrites(c, b)
  PROVE  IInv'
<1>1. /\ down' = down \o Frame(c, b, c)
      /\ UNCHANGED <<pending, at, write, buffer, serial_in, up, reader, clients,
                     lost_up, lost_down>>
  BY DEF RouterWrites, gateway, router
<1>2. \A p, q \in Seq(SerialBytes) : p \o q \in Seq(SerialBytes)
  OBVIOUS
<1>3. down' \in Seq(SerialBytes)
  BY <1>1, <1>2, FrameType, BytesHaveTypes DEF IInv, TypeOK
<1>4. QED
  BY <1>1, <1>3 DEF IInv, TypeOK, RestOfFrame

LEMMA StepKeepsTypes ==
  ASSUME IInv, [Next]_vars
  PROVE  IInv'
<1>1. CASE UNCHANGED vars
  BY <1>1 DEF IInv, TypeOK, RestOfFrame, vars, gateway, router
<1>2. CASE \E c \in Addresses : DeviceGivesUp(c) \/ \E b \in DeviceBytes : DeviceWrites(c, b)
  BY <1>2, DevicesKeepTypes
<1>3. CASE Loop
  <2>1. CASE \E c \in Addresses : NothingFrom(c) \/ PollBuffer(c) \/ PollLine(c) \/ PollFails(c)
    BY <2>1, PollsKeepTypes
  <2>2. CASE \E n \in 0..2 : ReadSerial(n)
    BY <2>2, ReadSerialKeepsTypes
  <2>3. CASE PreWriteRead
    BY <2>3, PreWriteReadKeepsTypes
  <2>4. CASE NothingFromServer \/ WriteEnds
    BY <2>4, RoundEndKeepsTypes
  <2>5. QED
    BY <1>3, <2>1, <2>2, <2>3, <2>4 DEF Loop
<1>4. CASE Arrives
  BY <1>4, ArrivalKeepsTypes
<1>5. CASE Lose
  BY <1>5, LossKeepsTypes
<1>6. CASE RouterReads
  BY <1>6, RouterReadsKeepsTypes
<1>7. CASE \E c \in Addresses, b \in ServerBytes : RouterWrites(c, b)
  BY <1>7, RouterWritesKeepsTypes
<1>8. QED
  BY <1>1, <1>2, <1>3, <1>4, <1>5, <1>6, <1>7 DEF Next

-----------------------------------------------------------------------------
THEOREM Invariance == Spec => []IInv
<1>1. Init => IInv
  BY InitialTypes
<1>2. IInv /\ [Next]_vars => IInv'
  BY StepKeepsTypes
<1>3. QED
  BY <1>1, <1>2, PTL DEF Spec

(* Every variable of the gateway, the line and the reader keeps its type:  *)
(* the shared receive buffer never holds more than it has room for, and no *)
(* byte is read from a serial port that has none.  On gateway.cpp,         *)
(* Comms::Write and gatewayio.py.                                          *)
THEOREM TypeCorrectness == Spec => []TypeOK
<1>1. IInv => TypeOK
  BY DEF IInv
<1>2. QED
  BY <1>1, Invariance, PTL

(* From every state that can be reached, whatever was lost, one whole      *)
(* frame brings the router's reader back in step.  On gatewayio.py.        *)
THEOREM Resynchronisation == Spec => []InSync
<1>1. IInv => InSync
  <2> SUFFICES ASSUME IInv PROVE InSync
    OBVIOUS
  <2>1. reader \in Readers
    BY DEF IInv, TypeOK, Readers, States
  <2>2. QED
    BY <2>1, FrameResynchronises DEF InSync
<1>2. QED
  BY <1>1, Invariance, PTL

=============================================================================
