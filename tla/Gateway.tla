------------------------------ MODULE Gateway -------------------------------
(***************************************************************************)
(* The gateway: the Arduino that polls the two-wire links of the devices   *)
(* (src/arduino/gateway/gateway.cpp), the serial line to the router, and   *)
(* the router's end of that line (src/router/gatewayio.py, gateway.py).    *)
(*                                                                         *)
(* A byte is a pair of nibbles, the low one first.  On the serial line it  *)
(* is a frame of three bytes, of three kinds: an address (high bits 0000), *)
(* a first nibble (1111) and a second nibble (1011).                       *)
(*                                                                         *)
(* The links are those of ByteLink outside trouble: a device's Write holds *)
(* its line until the gateway reads the byte or the device gives up; the   *)
(* gateway's Write is received or fails.                                   *)
(***************************************************************************)
EXTENDS Naturals, Sequences

CONSTANTS
    NUM_CLIENTS,          \* 5
    Nibbles,
    DeviceBytes,          \* the bytes the devices write
    ServerBytes,          \* the bytes the router's clients write
    COMMS_BUFFER_SIZE,
    SERIAL_BUFFER_SIZE,   \* of the Arduino's serial port: 63 bytes
    MAX_UP, MAX_DOWN,     \* bounds: bytes on the serial line, each way
    MAX_LOST_UP,          \* bounds: bytes lost in a row, each way
    MAX_LOST_DOWN

ASSUME GatewayAssumption ==
    /\ NUM_CLIENTS \in 1..16
    /\ 0 \in Nibbles
    /\ DeviceBytes \subseteq Nibbles \X Nibbles
    /\ ServerBytes \subseteq Nibbles \X Nibbles
    /\ COMMS_BUFFER_SIZE \in Nat \ {0}
    /\ {SERIAL_BUFFER_SIZE, MAX_UP, MAX_DOWN, MAX_LOST_UP, MAX_LOST_DOWN} \subseteq Nat

Addresses == 0..(NUM_CLIENTS - 1)
AllBytes == Nibbles \X Nibbles
MAX_PRE_WRITE_READS == COMMS_BUFFER_SIZE

VARIABLES
    pending,      \* the byte each device's Write holds its line with, if any
    at,           \* the channel to poll next, or the place in RouteDataFromServer
    write,        \* what has been read of a frame, then the comms.Write of it
    buffer,       \* the receive buffer of comms: bytes, and who wrote them
    serial_in,    \* the input buffer of the gateway's serial port
    down,         \* bytes on the line to it
    up,           \* bytes on the line to the router
    reader,       \* the FSM of gatewayio.py
    clients,      \* the addresses gateway.py has a Client for
    lost_up, lost_down    \* the bytes just lost in a row, each way

gateway == <<at, write, buffer>>
router == <<reader, clients>>
vars == <<pending, gateway, serial_in, down, up, router, lost_up, lost_down>>

(* Where RouteDataFromServer is: after so many bytes of a frame, or in     *)
(* comms.Write.                                                            *)
Server(n) == NUM_CLIENTS + n
Writing == Server(3)
NoWrite == [to |-> 0, byte |-> <<>>, reads |-> 0]

(* A byte of a frame; the last carries the whole frame as history.         *)
Frame(a, b, from) ==
    << [kind |-> "address", value |-> a],
       [kind |-> "first", value |-> b[1]],
       [kind |-> "second", value |-> b[2],
        of |-> [address |-> a, byte |-> b, from |-> from]] >>

Start == [state |-> "read_address", address |-> 0, nibble |-> 0]

Init ==
    /\ pending = [c \in Addresses |-> {}]
    /\ at = 0
    /\ write = NoWrite
    /\ buffer = <<>>
    /\ serial_in = <<>> /\ down = <<>> /\ up = <<>>
    /\ reader = Start
    /\ clients = {}
    /\ lost_up = 0 /\ lost_down = 0

(* ---------------------------- the devices ------------------------------ *)

DeviceWrites(c, b) ==
    /\ pending[c] = {}
    /\ pending' = [pending EXCEPT ![c] = {b}]
    /\ UNCHANGED <<gateway, serial_in, down, up, router, lost_up, lost_down>>

DeviceGivesUp(c) ==
    /\ pending[c] # {}
    /\ pending' = [pending EXCEPT ![c] = {}]
    /\ UNCHANGED <<gateway, serial_in, down, up, router, lost_up, lost_down>>

(* ------------------- gateway.cpp: RouteDataFromClients ----------------- *)

Available(c) == buffer # <<>> \/ pending[c] # {}

NextChannelButLast ==                                    \* mutant
    /\ at' = IF at + 1 = NUM_CLIENTS - 1 THEN Server(0) ELSE at + 1
    /\ UNCHANGED <<write, serial_in, down, router, lost_up, lost_down>>

NextChannel == at' = at + 1 /\ UNCHANGED <<write, serial_in, down, router, lost_up, lost_down>>

NothingFrom(c) ==
    /\ at = c /\ ~Available(c)
    /\ NextChannel
    /\ UNCHANGED <<pending, buffer, up>>

(* comms.Read takes the oldest byte of the buffer, or else the one that is *)
(* on the line of the channel.                                             *)
PollBuffer(c) ==
    /\ at = c /\ buffer # <<>>
    /\ Len(up) + 3 <= MAX_UP
    /\ up' = up \o Frame(c, Head(buffer).byte, Head(buffer).from)
    /\ buffer' = Tail(buffer)
    /\ NextChannel
    /\ UNCHANGED pending

PollLine(c) ==
    /\ at = c /\ buffer = <<>>
    /\ Len(up) + 3 <= MAX_UP
    /\ \E b \in pending[c] : up' = up \o Frame(c, b, c)
    /\ pending' = [pending EXCEPT ![c] = {}]
    /\ NextChannel
    /\ UNCHANGED buffer

(* The device gives up while it is read: comms.Read is -1.                 *)
PollFails(c) ==
    /\ at = c /\ buffer = <<>> /\ pending[c] # {}
    /\ pending' = [pending EXCEPT ![c] = {}]
    /\ NextChannel
    /\ UNCHANGED <<buffer, up>>

(* ------------------- gateway.cpp: RouteDataFromServer ------------------ *)

NothingFromServer ==
    /\ at = Server(0) /\ Len(serial_in) < 3
    /\ at' = 0
    /\ UNCHANGED <<pending, write, buffer, serial_in, down, up, router,
                   lost_up, lost_down>>

ExpectedAddressOnly(n, b) == n = 0 => b.kind = "address"  \* mutant

Expected(n, b) == b.kind = <<"address", "first", "second">>[n + 1]

(* A byte of another kind than is expected ends the round; it is gone.     *)
ReadSerial(n) ==
    /\ at = Server(n)
    /\ n = 0 => Len(serial_in) >= 3
    /\ LET b == Head(serial_in)
       IN IF Expected(n, b)
          THEN /\ at' = at + 1
               /\ write' = IF n = 0 THEN [write EXCEPT !.to = b.value]
                           ELSE [write EXCEPT !.byte = Append(@, b.value)]
          ELSE at' = 0 /\ write' = NoWrite
    /\ serial_in' = Tail(serial_in)
    /\ UNCHANGED <<pending, buffer, down, up, router, lost_up, lost_down>>

PreWriteReadUnchecked ==                                 \* mutant
    /\ at = Writing
    /\ \E b \in pending[write.to] :
          /\ pending' = [pending EXCEPT ![write.to] = {}]
          /\ buffer' = Append(buffer, [byte |-> b, from |-> write.to])
          /\ IF write.reads + 1 < MAX_PRE_WRITE_READS
             THEN write' = [write EXCEPT !.reads = @ + 1] /\ UNCHANGED at
             ELSE write' = NoWrite /\ at' = 0
    /\ UNCHANGED <<serial_in, down, up, router, lost_up, lost_down>>

(* comms.Write first receives what the device is writing.                  *)
PreWriteRead ==
    /\ at = Writing
    /\ \E b \in pending[write.to] :
          /\ pending' = [pending EXCEPT ![write.to] = {}]
          /\ IF Len(buffer) < COMMS_BUFFER_SIZE - 1
             THEN /\ buffer' = Append(buffer, [byte |-> b, from |-> write.to])
                  /\ IF write.reads + 1 < MAX_PRE_WRITE_READS
                     THEN write' = [write EXCEPT !.reads = @ + 1] /\ UNCHANGED at
                     ELSE write' = NoWrite /\ at' = 0
             ELSE write' = NoWrite /\ at' = 0 /\ UNCHANGED buffer
    /\ UNCHANGED <<serial_in, down, up, router, lost_up, lost_down>>

(* The device has the byte, or OnWriteError does nothing about it.         *)
WriteEnds ==
    /\ at = Writing
    /\ at' = 0
    /\ write' = NoWrite
    /\ UNCHANGED <<pending, buffer, serial_in, down, up, router, lost_up, lost_down>>

(* --------------------- the serial line and the router ------------------ *)

(* The port of the Arduino drops what its buffer has no room for.          *)
Arrives ==
    /\ down # <<>>
    /\ down' = Tail(down)
    /\ IF Len(serial_in) < SERIAL_BUFFER_SIZE
       THEN /\ serial_in' = Append(serial_in, Head(down))
            /\ lost_down' = 0
       ELSE /\ lost_down < MAX_LOST_DOWN
            /\ lost_down' = lost_down + 1
            /\ UNCHANGED serial_in
    /\ UNCHANGED <<pending, gateway, up, router, lost_up>>

Lose ==
    /\ up # <<>> /\ lost_up < MAX_LOST_UP
    /\ up' = Tail(up)
    /\ lost_up' = lost_up + 1
    /\ UNCHANGED <<pending, gateway, serial_in, down, router, lost_down>>

(* The FSM of gatewayio.py: the mask of the second nibble, 0b10110000,     *)
(* lets both kinds of nibble pass.                                         *)
Accepts(r, b) ==
    CASE r.state = "read_address"       -> b.kind = "address"
      [] r.state = "read_first_nibble"  -> b.kind = "first"
      [] r.state = "read_second_nibble" -> b.kind \in {"first", "second"}

FeedUnchecked(r, b) ==                                   \* mutant
    IF r.state = "read_second_nibble" THEN Start
    ELSE IF r.state = "read_address"
    THEN [Start EXCEPT !.state = "read_first_nibble", !.address = b.value]
    ELSE [r EXCEPT !.state = "read_second_nibble", !.nibble = b.value]

Feed(r, b) ==
    IF ~Accepts(r, b) \/ r.state = "read_second_nibble"
    THEN Start
    ELSE IF r.state = "read_address"
    THEN [Start EXCEPT !.state = "read_first_nibble", !.address = b.value]
    ELSE [r EXCEPT !.state = "read_second_nibble", !.nibble = b.value]

(* What data_recieved is called with, if it is.                            *)
Received(r, b) ==
    IF r.state = "read_second_nibble" /\ Accepts(r, b)
    THEN {[address |-> r.address, byte |-> <<r.nibble, b.value>>]}
    ELSE {}

(* The first byte from an address makes a Client for it.                   *)
RouterReads ==
    /\ up # <<>>
    /\ up' = Tail(up)
    /\ reader' = Feed(reader, Head(up))
    /\ clients' = clients \cup {d.address : d \in Received(reader, Head(up))}
    /\ lost_up' = 0
    /\ UNCHANGED <<pending, gateway, serial_in, down, lost_down>>

(* A client writes to its device: GatewayIO.write.                         *)
RouterWrites(c, b) ==
    /\ c \in clients
    /\ Len(down) + 3 <= MAX_DOWN
    /\ down' = down \o Frame(c, b, c)
    /\ UNCHANGED <<pending, gateway, serial_in, up, router, lost_up, lost_down>>

-----------------------------------------------------------------------------

Loop ==
    \/ \E c \in Addresses : NothingFrom(c) \/ PollBuffer(c) \/ PollLine(c) \/ PollFails(c)
    \/ NothingFromServer
    \/ \E n \in 0..2 : ReadSerial(n)
    \/ PreWriteRead
    \/ WriteEnds

Next ==
    \/ \E c \in Addresses : DeviceGivesUp(c) \/ \E b \in DeviceBytes : DeviceWrites(c, b)
    \/ Loop
    \/ Arrives
    \/ Lose
    \/ RouterReads
    \/ \E c \in Addresses, b \in ServerBytes : RouterWrites(c, b)

(* The Arduino runs, and the router reads.                                 *)
Spec == Init /\ [][Next]_vars /\ WF_vars(Loop) /\ WF_vars(RouterReads)

-----------------------------------------------------------------------------

SerialBytes ==
    [kind : {"address"}, value : Addresses] \cup [kind : {"first"}, value : Nibbles]
    \cup [kind : {"second"}, value : Nibbles,
          of : [address : Addresses, byte : AllBytes, from : Addresses]]

TypeOK ==
    /\ pending \in [Addresses -> SUBSET AllBytes]
    /\ at \in 0..Writing
    /\ write \in [to : Addresses, byte : Seq(Nibbles), reads : 0..MAX_PRE_WRITE_READS]
    /\ buffer \in Seq([byte : AllBytes, from : Addresses])
    /\ Len(buffer) < COMMS_BUFFER_SIZE
    /\ serial_in \in Seq(SerialBytes)
    /\ Len(serial_in) <= SERIAL_BUFFER_SIZE
    /\ down \in Seq(SerialBytes) /\ up \in Seq(SerialBytes)
    /\ reader \in [state : {"read_address", "read_first_nibble", "read_second_nibble"},
                   address : Addresses, nibble : Nibbles]
    /\ clients \subseteq Addresses
    /\ lost_up \in 0..MAX_LOST_UP /\ lost_down \in 0..MAX_LOST_DOWN

(* Whatever was lost or garbled before, one whole frame is enough to bring *)
(* the router's reader back to the start of a frame.  On gatewayio.py.     *)
InSync ==
    \A a \in Addresses, b \in AllBytes :
       LET f == Frame(a, b, a)
       IN Feed(Feed(Feed(reader, f[1]), f[2]), f[3]).state = "read_address"

(* A byte is never put together from the nibbles of two frames or given to *)
(* another address than its frame's, as long as no two bytes in a row are  *)
(* lost (on the way to the gateway, no three: see GatewayFrames).  On the  *)
(* readers of gatewayio.py and of RouteDataFromServer.                     *)
Completes(b, address, byte) ==
    /\ b.kind = "second"
    /\ b.of.address = address
    /\ b.of.byte = byte

WholeFrames ==
    /\ up # <<>> => \A d \in Received(reader, Head(up)) :
                       Completes(Head(up), d.address, d.byte)
    /\ at = Server(2) /\ Expected(2, Head(serial_in)) =>
          Completes(Head(serial_in), write.to, Append(write.byte, Head(serial_in).value))

(* A device is not starved by the others or by the server: its byte is     *)
(* read, or the device gives up, if the server stops writing to devices    *)
(* that write at the same time.  On loop, RouteDataFromClients and the     *)
(* bound on the reads before a write.                                      *)
Served ==
    <>[](buffer = <<>>) => \A c \in Addresses : pending[c] # {} ~> pending[c] = {}

(* What gateway.py says: "Called when a byte of data is received from a    *)
(* client", the client of that address.                                    *)
ReceivedFromThatClient ==
    up # <<>> /\ Head(up).kind = "second" =>
       \A d \in Received(reader, Head(up)) : d.address = Head(up).of.from

=============================================================================
