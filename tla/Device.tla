------------------------------- MODULE Device -------------------------------
(***************************************************************************)
(* A device: the Arduino client library (src/arduino/lib) and the sketch   *)
(* that uses it, over a Comms link it reads and writes byte by byte.       *)
(*                                                                         *)
(* The program is sequential: between two calls of DoSHET the sketch adds  *)
(* and removes objects and raises events, and DoSHET runs the main loop    *)
(* once, or more often while the device is resetting.  A step is one read  *)
(* of a byte, one Client::Write, or a decision; what happens meanwhile is  *)
(* that bytes arrive, the ping falls due, and reads and writes time out.   *)
(*                                                                         *)
(* An int is the two bytes it is on the wire.  An address is one character *)
(* long; what the sketch's callbacks return is Result.                     *)
(***************************************************************************)
EXTENDS SHETSource, SequencesExt

CONSTANTS
    NUM_ACTIONS, NUM_EVENTS, NUM_PROPERTIES,
    LENGTH_OF_RESET_COMMAND,
    ConnectionIds,       \* the ints random(0xFFFF) may give
    Garbage,             \* the bytes an uninitialised int may hold
    Result(_, _),        \* what the callback of an action returns, as an int
    EventValues,         \* the ints the sketch raises events with
    DIRECT_CONN,         \* whether the link is the two-wire one, which fails
    COMMS_BUFFER_SIZE,   \* how many bytes may be waiting to be read
    Input                \* the bytes the server may send

ASSUME CountAssumption ==
    /\ NUM_ACTIONS \in Nat /\ NUM_ACTIONS <= 32767
    /\ NUM_EVENTS \in Nat /\ NUM_EVENTS <= 32767
    /\ NUM_PROPERTIES \in Nat /\ NUM_PROPERTIES <= 32767
    /\ LENGTH_OF_RESET_COMMAND \in Nat
ASSUME ByteAssumption == Garbage \subseteq Bytes /\ Input \subseteq Bytes
ASSUME LinkAssumption == DIRECT_CONN \in BOOLEAN /\ COMMS_BUFFER_SIZE \in Nat

Ints        == Bytes \X Bytes
ActionIds   == 0 .. NUM_ACTIONS - 1
EventIds    == 0 .. NUM_EVENTS - 1
PropertyIds == 0 .. NUM_PROPERTIES - 1

ASSUME IntAssumption == /\ ConnectionIds \subseteq Ints
                        /\ EventValues \subseteq Ints
                        /\ \A a \in ActionIds, v \in Ints : Result(a, v) \in Ints

TYPE_VOID == 0
TYPE_INT  == 1

(* The bits of the status, each fault with the bit that asks for a reset.  *)
STATUS_CONNECTED         == {}
STATUS_RESETTING         == {1}
STATUS_MALFORMED_ONLY    == {4}                          \* mutant
STATUS_MALFORMED_COMMAND == {4} \cup STATUS_RESETTING
STATUS_IO_FAIL_ONLY      == {8}                          \* mutant
STATUS_IO_FAIL           == {8} \cup STATUS_RESETTING
STATUS_READ_FAIL         == {16} \cup STATUS_IO_FAIL
STATUS_WRITE_FAIL        == {32} \cup STATUS_IO_FAIL

(* A slot's address is NULL, or it holds a callback of one of four types,  *)
(* named for what it returns and takes.                                    *)
FREE      == "free"
Callbacks == {"vv", "vi", "iv", "ii"}
Address   == <<97, 0>>

-----------------------------------------------------------------------------
VARIABLES
    status,          \* state, as the set of its bits
    actions,         \* for each slot, FREE or the type of its callback
    events,          \* the slots in use
    properties,      \* for each slot, FREE, "callbacks" or "variable"
    value,           \* for each property, the sketch's int behind it
    connection_id,
    pc,              \* where the program is
    task,            \* what it is writing
    request,         \* the command being handled and the bytes read for it
    todo,            \* the writes still to do
    ping_due,        \* millis() - last_ping > PING_INTERVAL
    rx,              \* the bytes that have arrived
    out,             \* the bytes the last step wrote
    owed             \* requests taken off the link and not answered yet

vars == <<status, actions, events, properties, value, connection_id, pc, task,
          request, todo, ping_due, rx, out, owed>>

tables == <<actions, events, properties>>

NoRequest == [cmd |-> -1, bytes |-> <<>>]

Init ==
    /\ status = STATUS_RESETTING
    /\ actions = [a \in ActionIds |-> FREE]
    /\ events = {}
    /\ properties = [p \in PropertyIds |-> FREE]
    /\ value = [p \in PropertyIds |-> <<0, 0>>]
    /\ connection_id = <<0, 0>>
    /\ pc = "sketch"
    /\ task = "none"
    /\ request = NoRequest
    /\ todo = <<>>
    /\ ping_due = FALSE
    /\ rx = <<>>
    /\ out = <<>>
    /\ owed = 0

ORState(val)  == status' = status \cup val
SetStateByOr(val) == status' = status \cup val           \* mutant
SetState(val) == status' = val

(* The number its bits make.                                               *)
GetState ==
    LET Bit(b) == IF b \in status THEN b ELSE 0
    IN  Bit(1) + Bit(4) + Bit(8) + Bit(16) + Bit(32)

(* The rest of a step that only moves the program on.                      *)
Goto(p) == pc' = p /\ out' = <<>>

(* A handler or the sketch starts writing.                                 *)
Send(t, writes) ==
    /\ Goto("write")
    /\ task' = t
    /\ todo' = writes

-----------------------------------------------------------------------------
(* The sketch.                                                             *)

InSketch == /\ pc = "sketch"
            /\ UNCHANGED <<value, connection_id, request, ping_due, rx, owed>>

(* The first slot that is not in use.  There is one: the index would be -1 *)
(* and the write out of bounds otherwise.                                  *)
FirstFree(free) == CHOOSE i \in free : \A j \in free : i <= j

AddAction(callback) ==
    LET free == {a \in ActionIds : actions[a] = FREE}
    IN  /\ InSketch
        /\ free # {}
        /\ actions' = [actions EXCEPT ![FirstFree(free)] = callback]
        /\ Goto("sketch")
        /\ UNCHANGED <<status, events, properties, task, todo>>

(* The server is not told.                                                 *)
RemoveAction(a) ==
    /\ InSketch
    /\ actions[a] # FREE
    /\ actions' = [actions EXCEPT ![a] = FREE]
    /\ Goto("sketch")
    /\ UNCHANGED <<status, events, properties, task, todo>>

AddEvent ==
    LET free == EventIds \ events
    IN  /\ InSketch
        /\ free # {}
        /\ events' = events \cup {FirstFree(free)}
        /\ Goto("sketch")
        /\ UNCHANGED <<status, actions, properties, task, todo>>

RemoveEvent(e) ==
    /\ InSketch
    /\ e \in events
    /\ events' = events \ {e}
    /\ Goto("sketch")
    /\ UNCHANGED <<status, actions, properties, task, todo>>

AddProperty(kind) ==
    LET free == {p \in PropertyIds : properties[p] = FREE}
    IN  /\ InSketch
        /\ free # {}
        /\ properties' = [properties EXCEPT ![FirstFree(free)] = kind]
        /\ Goto("sketch")
        /\ UNCHANGED <<status, actions, events, task, todo>>

(* Calling a LocalEvent: v is what it writes after the id.                 *)
RaiseEvent(e, v) ==
    /\ InSketch
    /\ UNCHANGED tables
    /\ IF e \notin events
       THEN /\ ORState(STATUS_MALFORMED_COMMAND)
            /\ Goto("sketch")
            /\ UNCHANGED <<task, todo>>
       ELSE /\ Send("event", << <<COMMAND_RAISE_EVENT>>, EncodeInteger(e) >> \o v)
            /\ UNCHANGED status

DoSHET ==
    /\ InSketch
    /\ Goto("loop")
    /\ UNCHANGED <<status, tables, task, todo>>

Sketch ==
    \/ \E c \in Callbacks : AddAction(c)
    \/ \E a \in ActionIds : RemoveAction(a)
    \/ AddEvent
    \/ \E e \in EventIds : RemoveEvent(e)
    \/ \E k \in {"callbacks", "variable"} : AddProperty(k)
    \/ \E e \in EventIds : RaiseEvent(e, << <<TYPE_VOID>> >>)
    \/ \E e \in EventIds, i \in EventValues :
          RaiseEvent(e, << <<TYPE_INT>>, i >>)
    \/ DoSHET

-----------------------------------------------------------------------------
(* The main loop, up to the ping.                                          *)

InLibrary == UNCHANGED <<tables, connection_id>>

(* DoSHET does not return to the sketch while the device is resetting.     *)
EndOfLoop == IF STATUS_RESETTING \subseteq status THEN "loop" ELSE "sketch"

StartReset ==
    /\ pc = "loop"
    /\ STATUS_RESETTING \subseteq status
    /\ Goto("flush")
    /\ InLibrary
    /\ UNCHANGED <<status, value, task, request, todo, ping_due, rx, owed>>

NothingAvailable ==
    /\ pc = "loop"
    /\ ~(STATUS_RESETTING \subseteq status)
    /\ rx = <<>>
    /\ Goto("ping")
    /\ InLibrary
    /\ UNCHANGED <<status, value, task, request, todo, ping_due, rx, owed>>

(* The first byte of a request: the command.                               *)
TakeCommand(c) ==
    /\ pc = "loop"
    /\ ~(STATUS_RESETTING \subseteq status)
    /\ rx # <<>>
    /\ c = Head(rx)
    /\ rx' = Tail(rx)
    /\ InLibrary
    /\ UNCHANGED <<value, ping_due>>

OnRcvReset ==
    /\ TakeCommand(COMMAND_RESET)
    /\ ORState(STATUS_RESETTING)
    /\ Goto("ping")
    /\ UNCHANGED <<task, request, todo, owed>>

OnRcvPing ==
    /\ TakeCommand(COMMAND_PING)
    /\ owed' = owed + 1
    /\ Send("reply", << <<COMMAND_RETURN>>, EncodeInteger(GetState) >>)
    /\ UNCHANGED <<status, request>>

Requests == {COMMAND_CALL_ACTION, COMMAND_SET_PROPERTY, COMMAND_GET_PROPERTY}
Answered == {COMMAND_CALL_ACTION, COMMAND_GET_PROPERTY}

OnRcvRequest(c) ==
    /\ c \in Requests
    /\ TakeCommand(c)
    /\ request' = [cmd |-> c, bytes |-> <<>>]
    /\ owed' = IF c \in Answered THEN owed + 1 ELSE owed
    /\ Goto("read")
    /\ UNCHANGED <<status, task, todo>>

OnRcvUnknown(c) ==
    /\ c \notin Requests \cup {COMMAND_RESET, COMMAND_PING}
    /\ TakeCommand(c)
    /\ ORState(STATUS_MALFORMED_COMMAND)
    /\ Goto("ping")
    /\ UNCHANGED <<task, request, todo, owed>>

(* The far end pulls its line low and no byte follows.                     *)
CommandTimeout ==
    /\ pc = "loop"
    /\ ~(STATUS_RESETTING \subseteq status)
    /\ DIRECT_CONN
    /\ rx = <<>>
    /\ ORState(STATUS_READ_FAIL)
    /\ Goto("ping")
    /\ InLibrary
    /\ UNCHANGED <<value, task, request, todo, ping_due, rx, owed>>

HandleRequests ==
    \/ CommandTimeout
    \/ OnRcvReset
    \/ OnRcvPing
    \/ rx # <<>> /\ (OnRcvRequest(Head(rx)) \/ OnRcvUnknown(Head(rx)))

-----------------------------------------------------------------------------
(* Reading and serving a request.                                          *)

(* The id a request names, and the slot it means.                          *)
Id(bs) == DecodeInteger(bs[1], bs[2])

InUse(bs) == IF request.cmd = COMMAND_CALL_ACTION
             THEN Id(bs) \in ActionIds /\ actions[Id(bs)] # FREE
             ELSE Id(bs) \in PropertyIds /\ properties[Id(bs)] # FREE

TakesArgumentUnlessInt(bs) ==                           \* mutant
    \/ request.cmd = COMMAND_SET_PROPERTY
    \/ /\ request.cmd = COMMAND_CALL_ACTION
       /\ actions[Id(bs)] = "vi"

TakesArgument(bs) ==
    \/ request.cmd = COMMAND_SET_PROPERTY
    \/ /\ request.cmd = COMMAND_CALL_ACTION
       /\ actions[Id(bs)] \in {"vi", "ii"}

(* The int an argument is read into: what has been received of it and, for *)
(* the rest, what it held before.                                          *)
ReadInto(bs, lo, hi) == <<IF Len(bs) > 2 THEN bs[3] ELSE lo,
                          IF Len(bs) > 3 THEN bs[4] ELSE hi>>

(* The handler returns without an answer.                                  *)
Abandon(fault) ==
    /\ ORState(fault)
    /\ Goto("ping")
    /\ request' = NoRequest
    /\ UNCHANGED <<value, task, todo>>

(* A callback's argument is a local int, uninitialised; a failed read of   *)
(* it is not looked at.                                                    *)
CallAction(bs) ==
    /\ request.cmd = COMMAND_CALL_ACTION
    /\ \E lo, hi \in Garbage :
          LET a == Id(bs)
              ret == IF actions[a] \in {"iv", "ii"}
                     THEN <<Result(a, ReadInto(bs, lo, hi))>> ELSE <<>>
          IN  Send("reply", << <<COMMAND_RETURN>> >> \o ret)
    /\ UNCHANGED value

(* A variable is read into where it is.                                    *)
SetProperty(bs) ==
    /\ request.cmd = COMMAND_SET_PROPERTY
    /\ LET p == Id(bs)
       IN  IF properties[p] = "callbacks"
           THEN \E lo, hi \in Garbage :
                   value' = [value EXCEPT ![p] = ReadInto(bs, lo, hi)]
           ELSE value' = [value EXCEPT ![p] = ReadInto(bs, @[1], @[2])]
    /\ Goto("ping")
    /\ UNCHANGED <<task, todo>>

GetProperty(bs) ==
    /\ request.cmd = COMMAND_GET_PROPERTY
    /\ Send("reply", << <<COMMAND_RETURN>>, value[Id(bs)] >>)
    /\ UNCHANGED value

Serve(bs) ==
    /\ request' = NoRequest
    /\ CallAction(bs) \/ SetProperty(bs) \/ GetProperty(bs)

ReadMore(bs) ==
    /\ \/ Len(bs) \in {1, 3}
       \/ Len(bs) = 2 /\ InUse(bs) /\ TakesArgument(bs)
    /\ request' = [request EXCEPT !.bytes = bs]
    /\ Goto("read")
    /\ UNCHANGED <<status, value, task, todo>>

RejectRequest(bs) ==
    /\ Len(bs) = 2
    /\ ~InUse(bs)
    /\ Abandon(STATUS_MALFORMED_COMMAND)

ServeRequest(bs) ==
    /\ \/ Len(bs) = 4
       \/ Len(bs) = 2 /\ InUse(bs) /\ ~TakesArgument(bs)
    /\ Serve(bs)
    /\ UNCHANGED status

Reading == /\ pc = "read"
           /\ InLibrary
           /\ UNCHANGED <<ping_due, owed>>

ReadByte ==
    /\ Reading
    /\ rx # <<>>
    /\ rx' = Tail(rx)
    /\ LET bs == Append(request.bytes, Head(rx))
       IN  ReadMore(bs) \/ RejectRequest(bs) \/ ServeRequest(bs)

(* No byte comes within TIMEOUT_CYCLES.                                    *)
ReadTimeout ==
    /\ Reading
    /\ rx = <<>>
    /\ UNCHANGED rx
    /\ IF Len(request.bytes) < 2
       THEN Abandon(STATUS_READ_FAIL)
       ELSE Serve(request.bytes) /\ ORState(STATUS_READ_FAIL)

-----------------------------------------------------------------------------
(* InitialiseWithServer.                                                   *)

RegisterAction(a) ==
    IF actions[a] = FREE THEN <<>>
    ELSE << <<COMMAND_ADD_ACTION>>, EncodeInteger(a), Address,
            <<IF actions[a] \in {"iv", "ii"} THEN TYPE_INT ELSE TYPE_VOID>>,
            <<IF actions[a] \in {"vi", "ii"} THEN TYPE_INT ELSE TYPE_VOID>> >>

RegisterEvent(e) ==
    IF e \notin events THEN <<>>
    ELSE << <<COMMAND_ADD_EVENT>>, EncodeInteger(e), Address >>

RegisterProperty(p) ==
    IF properties[p] = FREE THEN <<>>
    ELSE << <<COMMAND_ADD_PROPERTY>>, EncodeInteger(p), Address, <<TYPE_INT>> >>

ResetWrites(id) ==
    [i \in 1 .. LENGTH_OF_RESET_COMMAND |-> <<COMMAND_RESET>>]
        \o << <<END_OF_RESET>>, id, Address >>
        \o FlattenSeq([i \in 1 .. NUM_ACTIONS |-> RegisterAction(i - 1)])
        \o FlattenSeq([i \in 1 .. NUM_EVENTS |-> RegisterEvent(i - 1)])
        \o FlattenSeq([i \in 1 .. NUM_PROPERTIES |-> RegisterProperty(i - 1)])

FlushByte ==
    /\ pc = "flush"
    /\ rx # <<>>
    /\ rx' = Tail(rx)
    /\ Goto("flush")
    /\ InLibrary
    /\ UNCHANGED <<status, value, task, request, todo, ping_due, owed>>

(* Nothing has arrived for 100 ms.  What was owed to the server before is  *)
(* not owed after a reset.                                                 *)
FlushDone ==
    /\ pc = "flush"
    /\ rx = <<>>
    /\ \E id \in ConnectionIds :
          connection_id' = id /\ Send("reset", ResetWrites(id))
    /\ owed' = 0
    /\ UNCHANGED <<status, tables, value, request, ping_due, rx>>

-----------------------------------------------------------------------------
(* Writing, and the ping.                                                  *)

Writing == /\ pc = "write"
           /\ InLibrary
           /\ UNCHANGED <<value, request, ping_due, rx>>

WriteNext ==
    /\ Writing
    /\ todo # <<>>
    /\ out' = Head(todo)
    /\ todo' = Tail(todo)
    /\ owed' = IF Head(todo) = <<COMMAND_RETURN>> /\ task = "reply"
               THEN owed - 1 ELSE owed
    /\ UNCHANGED <<status, pc, task>>

(* A write that times out has written part of what it was given, or all of *)
(* it: the far end may have the byte and be slow to let its line go.  The  *)
(* result is looked at only when an event is raised.                       *)
WriteTimeout ==
    /\ Writing
    /\ DIRECT_CONN
    /\ todo # <<>>
    /\ \E n \in 0 .. Len(Head(todo)) : out' = SubSeq(Head(todo), 1, n)
    /\ ORState(STATUS_WRITE_FAIL)
    /\ todo' = IF task = "event" THEN <<>> ELSE Tail(todo)
    /\ UNCHANGED <<pc, task, owed>>

(* The last write of InitialiseWithServer sets the status, whatever the    *)
(* writes before it came to.                                               *)
WriteDone ==
    /\ Writing
    /\ todo = <<>>
    /\ IF task = "reset" THEN SetState(STATUS_CONNECTED) ELSE UNCHANGED status
    /\ Goto(CASE task = "event"              -> "sketch"
              [] task \in {"reply", "reset"} -> "ping"
              [] task = "ping"               -> EndOfLoop)
    /\ task' = "none"
    /\ UNCHANGED <<todo, owed>>

Ping ==
    /\ pc = "ping"
    /\ ping_due
    /\ ping_due' = FALSE
    /\ Send("ping", << <<COMMAND_PING>>, connection_id >>)
    /\ InLibrary
    /\ UNCHANGED <<status, value, request, rx, owed>>

NoPing ==
    /\ pc = "ping"
    /\ ~ping_due
    /\ Goto(EndOfLoop)
    /\ InLibrary
    /\ UNCHANGED <<status, value, task, request, todo, ping_due, rx, owed>>

-----------------------------------------------------------------------------
(* What happens to the device.                                             *)

(* More than PING_INTERVAL since the last ping.                            *)
PingFallsDue ==
    /\ ~ping_due
    /\ ping_due' = TRUE
    /\ out' = <<>>
    /\ UNCHANGED <<status, tables, value, connection_id, pc, task, request,
                   todo, rx, owed>>

Arrives(b) ==
    /\ rx' = Append(rx, b)
    /\ out' = <<>>
    /\ UNCHANGED <<status, tables, value, connection_id, pc, task, request,
                   todo, ping_due, owed>>

Library ==
    \/ StartReset \/ NothingAvailable \/ HandleRequests
    \/ ReadByte \/ ReadTimeout
    \/ FlushByte \/ FlushDone
    \/ WriteNext \/ WriteTimeout \/ WriteDone
    \/ Ping \/ NoPing

ServerSends == Len(rx) < COMMS_BUFFER_SIZE /\ \E b \in Input : Arrives(b)

Next == Sketch \/ Library \/ PingFallsDue \/ ServerSends

(* The library keeps running while it has control; the sketch may keep     *)
(* control, and the server may say nothing.                                *)
Fairness == WF_vars(Library)

Spec == Init /\ [][Next]_vars /\ Fairness

-----------------------------------------------------------------------------
(* What the library promises.                                              *)

(* Every variable has its type.                                            *)
TypeOK ==
    /\ status \subseteq {1, 4, 8, 16, 32}
    /\ actions \in [ActionIds -> Callbacks \cup {FREE}]
    /\ events \subseteq EventIds
    /\ properties \in [PropertyIds -> {FREE, "callbacks", "variable"}]
    /\ value \in [PropertyIds -> Ints]
    /\ connection_id \in Ints
    /\ pc \in {"sketch", "loop", "flush", "read", "write", "ping"}
    /\ task \in {"none", "event", "reply", "reset", "ping"}
    /\ request \in [cmd : Requests \cup {-1}, bytes : Seq(Bytes)]
    /\ todo \in Seq(Seq(Bytes))
    /\ ping_due \in BOOLEAN
    /\ rx \in Seq(Bytes)
    /\ out \in Seq(Bytes)
    /\ owed \in {0, 1}

(* Answers carry no number: the router gives a RETURN to the oldest        *)
(* request that waits, so an answer too few or too many would shift every  *)
(* later one.  A request taken off the link is about to be answered or the *)
(* device is about to reset, and nothing else writes a RETURN.  On         *)
(* SHETSource_OnRcv.cpp, LocalAction::operator() and LocalProperty::Get.   *)
AboutToAnswer ==
    \/ pc = "read" /\ request.cmd \in Answered
    \/ pc = "write" /\ task = "reply" /\ todo # <<>> /\ todo[1] = <<COMMAND_RETURN>>

AnswersOrResets ==
    /\ AboutToAnswer => owed = 1
    /\ owed = 1 => AboutToAnswer \/ STATUS_RESETTING \subseteq status

(* DoSHET gives control back to the sketch, if the server falls silent and *)
(* writes stop timing out: the reset it must complete first does complete, *)
(* and the ping after it cannot keep the loop going for ever.              *)
DoSHETReturns ==
    <>[][~ServerSends /\ ~WriteTimeout /\ ~CommandTimeout]_vars =>
        (pc = "loop" ~> pc = "sketch")

(* A failed read of the new value of a property is not looked at: the      *)
(* callback, or the variable, is given bytes nobody sent.  When that       *)
(* happens the device is about to reset.  On LocalProperty::Set.           *)
WasSent(p) == rx # <<>> /\ value'[p] = <<request.bytes[3], Head(rx)>>

UnsentValueResets ==
    [][\A p \in PropertyIds :
          value'[p] # value[p] => \/ WasSent(p)
                                 \/ STATUS_RESETTING \subseteq status']_vars

=============================================================================
