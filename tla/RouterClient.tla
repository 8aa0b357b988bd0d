---------------------------- MODULE RouterClient ----------------------------
(***************************************************************************)
(* One Client object of the router: the server's end of the link to one    *)
(* device (src/router/client.py with its three mix-ins clientfsm.py,       *)
(* clientshet.py and clientshetsource.py, and the resumable byte parser    *)
(* they are built on, fsm.py and typefsm.py).                              *)
(*                                                                         *)
(* The environment is the peer, which may send any byte Input offers, the  *)
(* SHET network, which may call whatever is registered, the transport,     *)
(* which may be lost, and time.  One action is one callback the Twisted    *)
(* reactor runs to completion; a chunk given to dataReceived is as many    *)
(* DataReceived steps as it has bytes.                                     *)
(*                                                                         *)
(* Data are abstracted to what the code branches on.  A string is its      *)
(* first character, 0 when it is empty: only startswith("/") looks at it.  *)
(* A value is an integer; a void value is 0.                               *)
(***************************************************************************)
EXTENDS SHETSource, Sequences, Functions

CONSTANTS
    Requests,              \* the Deferreds SHET may hold at one time
    Values,                \* the integers SHET may pass to the device
    Input(_),              \* Input(s): the bytes the peer may send in state s
    INACTIVITY_TIMEOUT,    \* ticks of silence that close a link
    RESET_COOLOFF_DELAY    \* ticks between two resets sent to the device

ASSUME ValuesAssumption == Values \subseteq Int
ASSUME TimeoutAssumption == INACTIVITY_TIMEOUT \in Nat \ {0}
ASSUME CooloffAssumption == RESET_COOLOFF_DELAY \in Nat

SLASH == 47

AddCommands    == {COMMAND_ADD_ACTION, COMMAND_ADD_EVENT, COMMAND_ADD_PROPERTY}
RemoveCommands == {COMMAND_REMOVE_ACTION, COMMAND_REMOVE_EVENT,
                   COMMAND_REMOVE_PROPERTY}
(* The commands whose handler starts by reading an argument.               *)
ArgumentCommands == {COMMAND_PING, COMMAND_RAISE_EVENT}
                        \cup AddCommands \cup RemoveCommands

-----------------------------------------------------------------------------
(* The types of typefsm.py.                                                *)

Types == {"Void", "Integer", "String"}

TypeOfCode == [c \in 0 .. 2 |->
                 IF c = 0 THEN "Void" ELSE IF c = 1 THEN "Integer" ELSE "String"]

(* Encoding keeps a string's first character and its terminating NUL.      *)
Encode(type, v) ==
    CASE type = "Void"    -> <<>>
      [] type = "Integer" -> EncodeInteger(v)
      [] type = "String"  -> IF v = 0 THEN <<0>> ELSE <<v, 0>>

(* The values SHET may pass where a device asked for that type.            *)
ValuesFor(type) == CASE type = "Void"    -> {0}
                     [] type = "Integer" -> Values
                     [] type = "String"  -> {0, SLASH}

-----------------------------------------------------------------------------
VARIABLES
    transport,         \* "none" before makeConnection, then "open", then "lost"
    connected,         \* _connected
    connection_id,     \* {} for None, else the singleton of the id
    base_path,         \* {} for None, else the singleton of the address
    state,             \* FSM.state: the generator suspended in a field, or Idle
    registry,          \* _properties, _actions and _events
    leaked,            \* registrations SHET still holds and the client forgot
    deferred_returns,  \* _deferred_returns, oldest first
    call,              \* what became of each request SHET made
    inactivity_timer,  \* ticks left, or NoTimer
    since_reset,       \* ticks since last_reset, saturating
    out                \* what the last step wrote and the event it raised

vars == <<transport, connected, connection_id, base_path, state, registry,
          leaked, deferred_returns, call, inactivity_timer, since_reset, out>>

NoCommand == -1
NoTimer   == -1

(* Which dictionary an object sits in, its key there, and the types that   *)
(* were injected into it: argument (or set value) and return (or get).     *)
Registrations == [kind : {"property", "action", "event"}, id : Int16,
                  arg : Types, ret : Types]

Deferreds == [req : Requests, return_type : Types]

Outcomes == [status : {"idle", "waiting", "answered", "failed"}, value : Int16]

(* The bytes written to the device and the events raised on SHET.          *)
Outputs == [bytes : Seq(Bytes), raised : SUBSET (Int16 \X Int16)]

(* A suspended handler: its command, the fields it has read, the bytes of  *)
(* the field being read that matter later, and the Deferred it popped.     *)
Parsers == [cmd : Bytes \cup {NoCommand}, vals : Seq(Int16),
            part : Seq(Bytes), popped : Seq(Deferreds)]

Idle == [cmd |-> NoCommand, vals |-> <<>>, part |-> <<>>, popped |-> <<>>]
Reading(c, ds) == [cmd |-> c, vals |-> <<>>, part |-> <<>>, popped |-> ds]

Silent       == [bytes |-> <<>>, raised |-> {}]
Wrote(bs)    == [bytes |-> bs, raised |-> {}]
Raised(e, v) == [bytes |-> <<>>, raised |-> {<<e, v>>}]

(* The requests whose Deferred waits in the queue, or in a handler that is *)
(* still reading the value to give it.                                     *)
Queued == {d.req : d \in Range(deferred_returns)}
Popped == {d.req : d \in Range(state.popped)}

Init ==
    /\ transport = "none"
    /\ connected = FALSE
    /\ connection_id = {}
    /\ base_path = {}
    /\ state = Idle
    /\ registry = {}
    /\ leaked = {}
    /\ deferred_returns = <<>>
    /\ call = [r \in Requests |-> [status |-> "idle", value |-> 0]]
    /\ inactivity_timer = NoTimer
    /\ since_reset = RESET_COOLOFF_DELAY + 1     \* last_reset = 0: long ago
    /\ out = Silent

-----------------------------------------------------------------------------
(* Effects several callbacks share.                                        *)

OnDisconnectKeepsPath ==                                \* mutant
    /\ connected' = FALSE
    /\ registry' = {}
    /\ UNCHANGED <<base_path, leaked>>
    /\ connection_id' = {}
    /\ call' = [r \in Requests |->
                  IF r \in Queued THEN [status |-> "failed", value |-> 0]
                                  ELSE call[r]]
    /\ deferred_returns' = <<>>
    /\ inactivity_timer' = NoTimer

OnDisconnectForgetsReturns ==                           \* mutant
    /\ connected' = FALSE
    /\ registry' = {}
    /\ base_path' = {}
    /\ connection_id' = {}
    /\ deferred_returns' = <<>>
    /\ inactivity_timer' = NoTimer
    /\ UNCHANGED <<leaked, call>>

OnDisconnectKeepsRegistry ==                            \* mutant
    /\ connected' = FALSE
    /\ base_path' = {}
    /\ connection_id' = {}
    /\ call' = [r \in Requests |->
                  IF r \in Queued THEN [status |-> "failed", value |-> 0]
                                  ELSE call[r]]
    /\ deferred_returns' = <<>>
    /\ inactivity_timer' = NoTimer
    /\ UNCHANGED <<registry, leaked>>

(* connected = False: _on_disconnect.                                      *)
OnDisconnect ==
    /\ connected' = FALSE
    /\ registry' = {}
    /\ base_path' = {}
    /\ connection_id' = {}
    /\ call' = [r \in Requests |->
                  IF r \in Queued THEN [status |-> "failed", value |-> 0]
                                  ELSE call[r]]
    /\ deferred_returns' = <<>>
    /\ inactivity_timer' = NoTimer
    /\ UNCHANGED leaked

DeviceResetRestartsCooloff ==                           \* mutant
    /\ out' = IF since_reset > RESET_COOLOFF_DELAY
              THEN Wrote(<<COMMAND_RESET>>) ELSE Silent
    /\ since_reset' = 0

(* A reset is written unless the last one is too recent; none is ever      *)
(* scheduled for later, delayed_reset being None from the start.           *)
DeviceReset ==
    IF since_reset > RESET_COOLOFF_DELAY
    THEN out' = Wrote(<<COMMAND_RESET>>) /\ since_reset' = 0
    ELSE out' = Silent /\ UNCHANGED since_reset

CancelInactivityTimer ==                                \* mutant
    inactivity_timer' = NoTimer

ResetInactivityTimer ==
    inactivity_timer' = IF connected /\ inactivity_timer # NoTimer
                        THEN INACTIVITY_TIMEOUT ELSE inactivity_timer

(* A byte whose handler leaves the link as it is.                          *)
LinkUnchanged ==
    /\ ResetInactivityTimer
    /\ UNCHANGED <<connected, base_path, leaked>>

Quiet == out' = Silent /\ UNCHANGED since_reset

(* _on_malformed_command, called by a handler or by dataReceived for any   *)
(* exception; the parser is back at process_command in every case.         *)
OnMalformedCommand ==
    /\ IF connected
       THEN OnDisconnect
       ELSE /\ LinkUnchanged
            /\ UNCHANGED <<connection_id, registry, deferred_returns, call>>
    /\ DeviceReset
    /\ state' = Idle

Answer(d, v) ==
    call' = [call EXCEPT ![d.req] = [status |-> "answered", value |-> v]]

-----------------------------------------------------------------------------
(* process_command: the first byte of a command.                           *)

(* A command other than a reset from a peer that has not reset.            *)
CommandFromStranger(b) ==
    /\ state.cmd = NoCommand
    /\ ~connected
    /\ b # COMMAND_RESET
    /\ DeviceReset
    /\ LinkUnchanged
    /\ UNCHANGED <<state, connection_id, registry, deferred_returns, call>>

ProcessReset(b) ==
    /\ state.cmd = NoCommand
    /\ b = COMMAND_RESET
    /\ IF connected
       THEN OnDisconnect
       ELSE /\ LinkUnchanged
            /\ UNCHANGED <<connection_id, registry, deferred_returns, call>>
    /\ state' = Reading(b, <<>>)
    /\ Quiet

(* A void answer is given at once, any other when its value has come.      *)
ServeReturn(b, d) ==
    /\ IF d.return_type = "Void"
       THEN Answer(d, 0) /\ state' = Idle
       ELSE UNCHANGED call /\ state' = Reading(b, <<d>>)
    /\ LinkUnchanged
    /\ UNCHANGED <<connection_id, registry>>
    /\ Quiet

ProcessReturnNewest(b) ==                               \* mutant
    /\ state.cmd = NoCommand
    /\ connected
    /\ b = COMMAND_RETURN
    /\ IF deferred_returns = <<>>
       THEN OnMalformedCommand
       ELSE /\ ServeReturn(b, deferred_returns[Len(deferred_returns)])
            /\ deferred_returns' = SubSeq(deferred_returns, 1,
                                          Len(deferred_returns) - 1)

ProcessReturnUnpopped(b) ==                             \* mutant
    /\ state.cmd = NoCommand
    /\ connected
    /\ b = COMMAND_RETURN
    /\ IF deferred_returns = <<>>
       THEN OnMalformedCommand
       ELSE ServeReturn(b, Head(deferred_returns)) /\ UNCHANGED deferred_returns

(* pop(0) comes before the value: on an empty queue it is an IndexError.   *)
ProcessReturn(b) ==
    /\ state.cmd = NoCommand
    /\ connected
    /\ b = COMMAND_RETURN
    /\ IF deferred_returns = <<>>
       THEN OnMalformedCommand
       ELSE /\ ServeReturn(b, Head(deferred_returns))
            /\ deferred_returns' = Tail(deferred_returns)

ProcessArguments(b) ==
    /\ state.cmd = NoCommand
    /\ connected
    /\ b \in ArgumentCommands
    /\ state' = Reading(b, <<>>)
    /\ LinkUnchanged
    /\ UNCHANGED <<connection_id, registry, deferred_returns, call>>
    /\ Quiet

UnknownCommand(b) ==
    /\ state.cmd = NoCommand
    /\ connected
    /\ b \notin ArgumentCommands \cup {COMMAND_RESET, COMMAND_RETURN}
    /\ OnMalformedCommand

ProcessCommand(b) ==
    \/ CommandFromStranger(b)
    \/ ProcessReset(b)
    \/ ProcessReturn(b)
    \/ ProcessArguments(b)
    \/ UnknownCommand(b)

-----------------------------------------------------------------------------
(* The fields of a suspended handler, each read by a sub-FSM.              *)

Signature(c) ==
    CASE c = COMMAND_RESET        -> <<"Byte", "Integer", "String">>
      [] c = COMMAND_ADD_PROPERTY -> <<"Integer", "String", "Type">>
      [] c = COMMAND_ADD_ACTION   -> <<"Integer", "String", "Type", "Type">>
      [] c = COMMAND_ADD_EVENT    -> <<"Integer", "String">>
      [] c = COMMAND_RAISE_EVENT  -> <<"Integer", "Type", "Value">>
      [] c = COMMAND_RETURN       -> <<"Value">>
      [] OTHER                    -> <<"Integer">>

Field == Signature(state.cmd)[Len(state.vals) + 1]

(* The sub-FSM reading the field: a value's is chosen by the type that was *)
(* just read, or that was injected into the Deferred.                      *)
SubFsm == IF Field # "Value" THEN Field
          ELSE IF state.cmd = COMMAND_RETURN THEN state.popped[1].return_type
          ELSE TypeOfCode[state.vals[2]]

EndsField(b) == CASE SubFsm = "Integer" -> state.part # <<>>
                  [] SubFsm = "String"  -> b = 0
                  [] OTHER              -> TRUE

FieldValue(b) ==
    CASE SubFsm = "Integer" -> DecodeInteger(state.part[1], b)
      [] SubFsm = "String"  -> IF state.part = <<>> THEN 0 ELSE state.part[1]
      [] OTHER              -> b

(* The fields read once this byte is taken.                                *)
Args(b) == Append(state.vals, FieldValue(b))

EndsAllFields(b) == Len(Args(b)) = Len(Signature(state.cmd))    \* mutant

(* The last field has been read; a void value is not read at all.          *)
EndsArguments(b) ==
    \/ Len(Args(b)) = Len(Signature(state.cmd))
    \/ state.cmd = COMMAND_RAISE_EVENT /\ Len(Args(b)) = 2 /\ Args(b)[2] = 0

Known(kind, id) == \E o \in registry : o.kind = kind /\ o.id = id

BadType(b) == SubFsm = "Type" /\ b \notin DOMAIN TypeOfCode      \* mutant

(* Type.types[d] or self._events[event_id] raises KeyError.  The event is  *)
(* looked up before its value is read.                                     *)
BadField(b) ==
    \/ SubFsm = "Type" /\ b \notin DOMAIN TypeOfCode
    \/ /\ state.cmd = COMMAND_RAISE_EVENT
       /\ Field = "Type"
       /\ ~Known("event", state.vals[1])

(* The sub-FSM keeps what it needs of the byte and stays.                  *)
ReadPart(b) ==
    /\ ~EndsField(b)
    /\ state' = IF state.part = <<>> THEN [state EXCEPT !.part = <<b>>] ELSE state
    /\ LinkUnchanged
    /\ UNCHANGED <<connection_id, registry, deferred_returns, call>>
    /\ Quiet

AbsorbOneReset(b) ==                                    \* mutant
    /\ state.cmd = COMMAND_RESET
    /\ Field = "Byte"
    /\ IF b = END_OF_RESET
       THEN /\ state' = [state EXCEPT !.vals = <<b>>]
            /\ LinkUnchanged
            /\ UNCHANGED <<connection_id, registry, deferred_returns, call>>
            /\ Quiet
       ELSE OnMalformedCommand

(* process_reset absorbs resets up to their inverse.                       *)
AbsorbReset(b) ==
    /\ state.cmd = COMMAND_RESET
    /\ Field = "Byte"
    /\ \/ /\ b \in {COMMAND_RESET, END_OF_RESET}
          /\ state' = IF b = COMMAND_RESET THEN state
                                           ELSE [state EXCEPT !.vals = <<b>>]
          /\ LinkUnchanged
          /\ UNCHANGED <<connection_id, registry, deferred_returns, call>>
          /\ Quiet
       \/ /\ b \notin {COMMAND_RESET, END_OF_RESET}
          /\ OnMalformedCommand

RejectField(b) ==
    /\ EndsField(b)
    /\ BadField(b)
    /\ OnMalformedCommand

(* connection_id is assigned as soon as it is read.                        *)
NextField(b) ==
    /\ Field # "Byte"
    /\ EndsField(b)
    /\ ~BadField(b)
    /\ ~EndsArguments(b)
    /\ state' = [state EXCEPT !.vals = Args(b), !.part = <<>>]
    /\ connection_id' = IF state.cmd = COMMAND_RESET THEN {FieldValue(b)}
                                                     ELSE connection_id
    /\ LinkUnchanged
    /\ UNCHANGED <<registry, deferred_returns, call>>
    /\ Quiet

LastField(b) == EndsField(b) /\ ~BadField(b) /\ EndsArguments(b)

(* connected = True: _on_connect starts the inactivity timer.              *)
Connect(b) ==
    /\ state.cmd = COMMAND_RESET
    /\ connected' = TRUE
    /\ base_path' = {FieldValue(b)}
    /\ inactivity_timer' = INACTIVITY_TIMEOUT
    /\ state' = Idle
    /\ Quiet
    /\ UNCHANGED <<connection_id, registry, leaked, deferred_returns, call>>

FinishReturn(b) ==
    /\ state.cmd = COMMAND_RETURN
    /\ Answer(state.popped[1], FieldValue(b))
    /\ state' = Idle
    /\ LinkUnchanged
    /\ Quiet
    /\ UNCHANGED <<connection_id, registry, deferred_returns>>

FinishPing(b) ==
    /\ state.cmd = COMMAND_PING
    /\ IF connection_id # {FieldValue(b)}
       THEN OnMalformedCommand
       ELSE /\ state' = Idle
            /\ LinkUnchanged
            /\ Quiet
            /\ UNCHANGED <<connection_id, registry, deferred_returns, call>>

(* The object an add_* handler makes of its arguments.                     *)
NewObject(a) ==
    CASE state.cmd = COMMAND_ADD_PROPERTY ->
           [kind |-> "property", id |-> a[1],
            arg |-> TypeOfCode[a[3]], ret |-> TypeOfCode[a[3]]]
      [] state.cmd = COMMAND_ADD_ACTION ->
           [kind |-> "action", id |-> a[1],
            arg |-> TypeOfCode[a[4]], ret |-> TypeOfCode[a[3]]]
      [] OTHER ->
           [kind |-> "event", id |-> a[1], arg |-> "Void", ret |-> "Void"]

(* path() joins base_path, None before the first reset, to the address.    *)
PathFails(address) == address # SLASH /\ base_path = {}

(* The object overwrites one already in its dictionary under that id,      *)
(* which stays registered with SHET and is called by it like any other.    *)
FinishAdd(b) ==
    /\ state.cmd \in AddCommands
    /\ IF PathFails(Args(b)[2])
       THEN OnMalformedCommand
       ELSE LET new == NewObject(Args(b))
                old == {o \in registry : o.kind = new.kind /\ o.id = new.id}
            IN  /\ registry' = (registry \ old) \cup {new}
                /\ leaked' = leaked \cup old
                /\ state' = Idle
                /\ ResetInactivityTimer
                /\ Quiet
                /\ UNCHANGED <<connected, connection_id, base_path,
                               deferred_returns, call>>

RemovedKind == CASE state.cmd = COMMAND_REMOVE_PROPERTY -> "property"
                 [] state.cmd = COMMAND_REMOVE_ACTION   -> "action"
                 [] OTHER                               -> "event"

(* An unknown id is a KeyError in the finally clause.                      *)
FinishRemove(b) ==
    /\ state.cmd \in RemoveCommands
    /\ IF ~Known(RemovedKind, FieldValue(b))
       THEN OnMalformedCommand
       ELSE /\ registry' = {o \in registry : o.kind # RemovedKind
                                               \/ o.id # FieldValue(b)}
            /\ state' = Idle
            /\ LinkUnchanged
            /\ Quiet
            /\ UNCHANGED <<connection_id, deferred_returns, call>>

FinishRaise(b) ==
    /\ state.cmd = COMMAND_RAISE_EVENT
    /\ out' = Raised(Args(b)[1], IF Field = "Value" THEN FieldValue(b) ELSE 0)
    /\ state' = Idle
    /\ LinkUnchanged
    /\ UNCHANGED <<connection_id, registry, deferred_returns, call, since_reset>>

FinishCommand(b) ==
    /\ LastField(b)
    /\ \/ Connect(b)
       \/ FinishReturn(b)
       \/ FinishPing(b)
       \/ FinishAdd(b)
       \/ FinishRemove(b)
       \/ FinishRaise(b)

ProcessField(b) ==
    /\ state.cmd # NoCommand
    /\ \/ ReadPart(b)
       \/ AbsorbReset(b)
       \/ RejectField(b)
       \/ NextField(b)
       \/ FinishCommand(b)

-----------------------------------------------------------------------------
(* The callbacks.                                                          *)

(* Twisted's makeConnection assigns connected = 1, which is this class's   *)
(* property: the link starts connected, before any reset.                  *)
MakeConnection ==
    /\ transport = "none"
    /\ transport' = "open"
    /\ connected' = TRUE
    /\ inactivity_timer' = INACTIVITY_TIMEOUT
    /\ Quiet
    /\ UNCHANGED <<connection_id, base_path, state, registry, leaked,
                   deferred_returns, call>>

DataReceived(b) ==
    /\ transport = "open"
    /\ UNCHANGED transport
    /\ ProcessCommand(b) \/ ProcessField(b)

(* The assertion in _set_connected fails, and nothing changes, when the    *)
(* link was not connected.                                                 *)
ConnectionLost ==
    /\ transport = "open"
    /\ transport' = "lost"
    /\ Quiet
    /\ IF connected
       THEN OnDisconnect /\ state' = Idle
       ELSE UNCHANGED <<connected, connection_id, base_path, state, registry,
                        leaked, deferred_returns, call, inactivity_timer>>

InactivityTimeout ==
    /\ inactivity_timer = 0
    /\ OnDisconnect
    /\ state' = Idle
    /\ Quiet
    /\ UNCHANGED transport

(* What SHET may call: everything registered with it, forgotten or not.    *)
Callable(kind) == {o \in registry \cup leaked : o.kind = kind}

(* A request that will be answered: the command is written and a Deferred  *)
(* of the expected type is queued.                                         *)
Ask(r, bytes, type) ==
    /\ call[r].status # "waiting"
    /\ call' = [call EXCEPT ![r] = [status |-> "waiting", value |-> 0]]
    /\ deferred_returns' = Append(deferred_returns,
                                  [req |-> r, return_type |-> type])
    /\ out' = Wrote(bytes)
    /\ UNCHANGED <<transport, connected, connection_id, base_path, state,
                   registry, leaked, inactivity_timer, since_reset>>

OnGetProperty(o, r) ==
    Ask(r, <<COMMAND_GET_PROPERTY>> \o EncodeInteger(o.id), o.ret)

OnAction(o, r, v) ==
    Ask(r, <<COMMAND_CALL_ACTION>> \o EncodeInteger(o.id) \o Encode(o.arg, v),
        o.ret)

OnSetProperty(o, v) ==
    /\ out' = Wrote(<<COMMAND_SET_PROPERTY>> \o EncodeInteger(o.id)
                        \o Encode(o.arg, v))
    /\ UNCHANGED <<transport, connected, connection_id, base_path, state,
                   registry, leaked, deferred_returns, call, inactivity_timer,
                   since_reset>>

(* One tick.  A timer that reached 0 fires when the reactor gets to it.    *)
Tick ==
    /\ inactivity_timer' = IF inactivity_timer \in {NoTimer, 0}
                           THEN inactivity_timer ELSE inactivity_timer - 1
    /\ since_reset' = IF since_reset > RESET_COOLOFF_DELAY
                      THEN since_reset ELSE since_reset + 1
    /\ out' = Silent
    /\ UNCHANGED <<transport, connected, connection_id, base_path, state,
                   registry, leaked, deferred_returns, call>>

PeerSends == \E b \in Input(state) \cap Bytes : DataReceived(b)

ShetCalls ==
    \/ \E o \in Callable("property"), r \in Requests : OnGetProperty(o, r)
    \/ \E o \in Callable("property") : \E v \in ValuesFor(o.arg) :
          OnSetProperty(o, v)
    \/ \E o \in Callable("action"), r \in Requests : \E v \in ValuesFor(o.arg) :
          OnAction(o, r, v)

Next == \/ MakeConnection \/ PeerSends \/ ConnectionLost
        \/ ShetCalls \/ InactivityTimeout \/ Tick

(* Time passes and the reactor runs the timers that are due; nothing is    *)
(* assumed of the peer, of SHET or of the transport.                       *)
Fairness == WF_vars(Tick) /\ WF_vars(InactivityTimeout)

Spec == Init /\ [][Next]_vars /\ Fairness

-----------------------------------------------------------------------------
(* What the link promises.                                                 *)

(* Every variable has its type.                                            *)
TypeOK ==
    /\ transport \in {"none", "open", "lost"}
    /\ connected \in BOOLEAN
    /\ connection_id \in SUBSET Int16
    /\ base_path \in SUBSET Bytes
    /\ state \in Parsers
    /\ registry \in SUBSET Registrations
    /\ leaked \in SUBSET Registrations
    /\ deferred_returns \in Seq(Deferreds)
    /\ call \in [Requests -> Outcomes]
    /\ inactivity_timer \in {NoTimer} \cup 0 .. INACTIVITY_TIMEOUT
    /\ since_reset \in 0 .. RESET_COOLOFF_DELAY + 1
    /\ out \in Outputs

(* What the peer set up lasts exactly as long as the link.  While it is    *)
(* down nothing of the peer is registered, its path is forgotten, no timer *)
(* runs and the only bytes parsed as arguments are a reset's; while it is  *)
(* up the timer runs and no reset is half read.  The id of the connection  *)
(* is there only if a reset gave it, early in the handshake, and the path  *)
(* only together with it.                                                  *)
ResetHalfRead == state.cmd = COMMAND_RESET /\ Len(state.vals) = 2

LinkOK ==
    /\ connected => /\ transport = "open"
                    /\ inactivity_timer # NoTimer
                    /\ state.cmd # COMMAND_RESET
    /\ ~connected => /\ registry = {}
                     /\ base_path = {}
                     /\ inactivity_timer = NoTimer
                     /\ state.cmd \in {NoCommand, COMMAND_RESET}
                     /\ connection_id # {} => ResetHalfRead
    /\ (connection_id = {}) <=> (base_path = {} /\ ~ResetHalfRead)

(* A suspended handler has read a proper prefix of its fields, each of the *)
(* kind its signature asks for, and holds a byte of a field only while a   *)
(* field of several bytes is being read; a RETURN holds one Deferred whose *)
(* type is not void, an event whose value is being read is registered.     *)
FieldOK(f, v) == CASE f = "Byte"   -> v = END_OF_RESET
                   [] f = "String" -> v \in Bytes
                   [] f = "Type"   -> v \in DOMAIN TypeOfCode
                   [] OTHER        -> v \in Int16

ParserOK ==
    \/ state = Idle
    \/ /\ state.cmd \in ArgumentCommands \cup {COMMAND_RESET, COMMAND_RETURN}
       /\ Len(state.vals) < Len(Signature(state.cmd))
       /\ \A i \in 1 .. Len(state.vals) :
             FieldOK(Signature(state.cmd)[i], state.vals[i])
       /\ Len(state.part) <= (IF SubFsm \in {"Integer", "String"} THEN 1 ELSE 0)
       /\ IF state.cmd = COMMAND_RETURN
          THEN Len(state.popped) = 1 /\ state.popped[1].return_type # "Void"
          ELSE state.popped = <<>>
       /\ state.cmd = COMMAND_RAISE_EVENT /\ Field = "Value" =>
             state.vals[2] # 0 /\ Known("event", state.vals[1])

(* Each queued Deferred belongs to a request of its own that still waits,  *)
(* and so does the one a half-read RETURN has taken from the queue.        *)
Pending == state.popped \o deferred_returns

WaitersOK ==
    /\ \A i, j \in 1 .. Len(Pending) :
          Pending[i].req = Pending[j].req => i = j
    /\ \A i \in 1 .. Len(Pending) : call[Pending[i].req].status = "waiting"

(* A request is answered by the RETURN of the oldest queued Deferred only, *)
(* a new one queues behind all others, and a Deferred that has fired never *)
(* fires again: its request must be made anew first.  On process_return,   *)
(* on_action, on_get_property and the errbacks of _on_disconnect.          *)
Oldest == Head(Pending).req
Newest == Pending[Len(Pending)].req

FateInOrder(r) ==
    CASE call'[r].status = "answered" ->
           call[r].status = "waiting" /\ r = Oldest
      [] call'[r].status = "failed" ->
           call[r].status = "waiting" /\ connected /\ ~connected'
      [] OTHER -> call[r].status # "waiting" /\ r = Newest'

AnswersInOrder ==
    [][\A r \in Requests : call'[r] # call[r] => FateInOrder(r)]_vars

(* A waiting request that no queue and no handler holds any more.          *)
Forgotten(r) == call[r].status = "waiting" /\ r \notin Queued \cup Popped

(* A Deferred is forgotten only in one way: the link goes down between the *)
(* RETURN byte, which takes it from the queue, and the end of its value.   *)
ForgottenOnlyMidReturn ==
    [][\A r \in Requests : Forgotten(r)' /\ ~Forgotten(r) =>
          r \in Popped /\ connected /\ ~connected']_vars

(* An event raised on SHET is one this peer registered over this link: the *)
(* object looked up before its value is read is still in the dictionary    *)
(* when the last byte of the value raises it.                              *)
RaisedIsRegistered ==
    [][\A e \in out'.raised : out' # out =>
          connected /\ Known("event", e[1])]_vars

(* The bytes the parser may still take for arguments before a zero byte is *)
(* taken for a reset: 0 in process_reset, 1 in process_command, and two    *)
(* for each unread field of another handler.                               *)
LENGTH_OF_RESET_COMMAND == 10

ZerosToReset ==
    IF state.cmd = NoCommand THEN 1
    ELSE IF state.cmd = COMMAND_RESET /\ Field = "Byte" THEN 0
    ELSE 1 + 2 * (Len(Signature(state.cmd)) - Len(state.vals))
           - (IF SubFsm = "Integer" THEN Len(state.part) ELSE 0)

(* The leading zeros of a device's reset are enough to get any handler,    *)
(* whatever it was reading, to process_reset: each zero byte brings it     *)
(* nearer, and there are more zeros than any state needs.                  *)
Resynchronises ==
    /\ [](ZerosToReset < LENGTH_OF_RESET_COMMAND)
    /\ [][DataReceived(COMMAND_RESET) =>
             \/ ZerosToReset' < ZerosToReset
             \/ ZerosToReset = 0 /\ ZerosToReset' = 0]_vars

(* If the peer falls silent for good the link is closed for good, and then *)
(* no request is left waiting, except one forgotten in mid-return or one   *)
(* made through a registration the client has leaked.                      *)
SilenceClosesLink ==
    <>[][~PeerSends]_vars =>
        <>[](/\ ~connected
             /\ \A r \in Requests :
                   call[r].status = "waiting" => Forgotten(r) \/ leaked # {})

-----------------------------------------------------------------------------
(* What the code says of itself and does not keep.                         *)

(* "Clear all waiting returns" (client.py:70): when the link is down no    *)
(* Deferred given to SHET still waits.                                     *)
DisconnectClearsReturns ==
    ~connected => \A r \in Requests : call[r].status # "waiting"

(* "Clear all SHET records for this client" (clientshet.py:13): when the   *)
(* link is down SHET holds no registration of this client.                 *)
DisconnectClearsShet == ~connected => Callable("property")
                                        \cup Callable("action")
                                        \cup Callable("event") = {}

(* assert(self._connected != connected) (client.py:47): connectionLost     *)
(* sets connected to False, so the link must have been connected.          *)
AssertConnectedChanges == [][ConnectionLost => connected]_vars

=============================================================================
