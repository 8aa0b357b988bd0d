------------------------------ MODULE Session -------------------------------
(***************************************************************************)
(* The router's Client and a device at the two ends of one connection:     *)
(* RouterClient and Device, each giving the other the bytes it writes.     *)
(*                                                                         *)
(* The connection is the serial port of directrouter.py or a TCP stream to *)
(* tcprouter.py: bytes arrive in order, none is lost, and those of one     *)
(* write arrive together.  The device may be switched off and on again,    *)
(* which the router does not see on a serial port.  A stream may break,    *)
(* which both ends see; the sketch then makes another, and tcprouter.py    *)
(* has a new Client for it.  A tick is PING_INTERVAL.                      *)
(***************************************************************************)
EXTENDS SHETSource, Sequences, SequencesExt

CONSTANTS
    Askers,               \* the requests SHET makes, Requests of RouterClient
    Values, INACTIVITY_TIMEOUT, RESET_COOLOFF_DELAY,
    RESET_LENGTH,         \* the zeros of a reset: 10
    ConnectionIds, DIRECT_CONN,
    MAX_UP, MAX_DOWN      \* bounds: bytes on the way to each end

ASSUME SessionAssumption ==
    /\ Values \subseteq Int
    /\ INACTIVITY_TIMEOUT \in Nat \ {0}
    /\ RESET_COOLOFF_DELAY \in Nat
    /\ RESET_LENGTH \in Nat
    /\ ConnectionIds \subseteq Bytes \X Bytes
    /\ DIRECT_CONN \in BOOLEAN
    /\ MAX_UP \in Nat /\ MAX_DOWN \in Nat

VARIABLES
    (* RouterClient *)
    transport, connected, router_id, base_path, state, registry, leaked,
    deferred_returns, call, inactivity_timer, since_reset, router_out,
    (* Device; rx is what is on the way to it as well *)
    status, actions, events, properties, value, device_id, pc, task, request,
    todo, ping_due, rx, device_out, owed,
    (* Session *)
    tcp,          \* whether the connection is a TCP stream
    up,           \* the bytes on the way to the router
    asked,        \* history: the argument each waiting request was made with
    in_doubt      \* history: this session began with answers to an earlier
                  \* one's requests still to come, or the device was switched
                  \* off in the middle of an answer

router == <<transport, connected, router_id, base_path, state, registry, leaked,
            deferred_returns, call, inactivity_timer, since_reset>>
device == <<status, actions, events, properties, value, device_id, pc, task,
            request, todo, owed>>
history == <<asked, in_doubt>>
vars == <<router, router_out, device, ping_due, rx, device_out, tcp, up, history>>

R == INSTANCE RouterClient WITH
        Requests <- Askers, connection_id <- router_id, out <- router_out,
        Input <- LAMBDA s : Bytes

(* One action, which returns its argument.                                 *)
D == INSTANCE Device WITH
        connection_id <- device_id, out <- device_out,
        LENGTH_OF_RESET_COMMAND <- RESET_LENGTH,
        NUM_ACTIONS <- 1, NUM_EVENTS <- 0, NUM_PROPERTIES <- 0,
        Garbage <- {0}, Result <- LAMBDA a, v : v, EventValues <- {},
        COMMS_BUFFER_SIZE <- MAX_DOWN, Input <- Bytes

Init ==
    /\ R!Init
    /\ D!Init
    /\ tcp \in BOOLEAN
    /\ up = <<>>
    /\ asked = [r \in Askers |-> 0]
    /\ in_doubt = FALSE

(* ------------------------------ the router ----------------------------- *)

(* A step of the router: what it writes is on its way to the device.       *)
RouterStep(step) ==
    /\ step
    /\ rx' = rx \o router_out'.bytes
    /\ device_out' = <<>>
    /\ UNCHANGED <<device, tcp>>

(* History: a request that no longer waits needs no argument.              *)
Forget ==
    asked' = [r \in Askers |-> IF call'[r].status = "waiting" THEN asked[r] ELSE 0]

(* A handler raises an exception: process_return finds the queue empty, or *)
(* a field is bad.                                                         *)
Raises(b) ==
    \/ R!ProcessReturn(b) /\ deferred_returns = <<>>
    \/ R!RejectField(b)

(* dataReceived, for a byte.  If it raises an exception the rest of the    *)
(* chunk that the byte came in is gone.                                    *)
RouterReceives ==
    /\ up # <<>>
    /\ RouterStep(R!DataReceived(Head(up)))
    /\ IF Raises(Head(up))
       THEN \E n \in 2..(Len(up) + 1) : up' = SubSeq(up, n, Len(up))
       ELSE up' = Tail(up)
    /\ in_doubt' = IF connected' /\ ~connected
                  THEN \/ COMMAND_CALL_ACTION \in Range(rx)
                       \/ owed > 0
                       \/ COMMAND_RETURN \in Range(up)
                  ELSE in_doubt
    /\ Forget
    /\ UNCHANGED ping_due

ShetCalls ==
    /\ Len(rx) + 5 <= MAX_DOWN
    /\ \E o \in R!Callable("action"), r \in Askers :
          \E v \in R!ValuesFor(o.arg) :
             /\ RouterStep(R!OnAction(o, r, v))
             /\ asked' = [asked EXCEPT ![r] = v]
    /\ UNCHANGED <<up, ping_due, in_doubt>>

(* directrouter.py opens the serial port.                                  *)
MakeConnection ==
    /\ ~tcp
    /\ RouterStep(R!MakeConnection)
    /\ UNCHANGED <<up, ping_due, asked, in_doubt>>

InactivityTimeout ==
    /\ RouterStep(R!InactivityTimeout)
    /\ Forget
    /\ UNCHANGED <<up, ping_due, in_doubt>>

(* The device may still read what had arrived.                             *)
ConnectionBreaks ==
    /\ tcp
    /\ R!ConnectionLost
    /\ up' = <<>>
    /\ \E n \in 0..Len(rx) : rx' = SubSeq(rx, 1, n)
    /\ device_out' = <<>>
    /\ Forget
    /\ UNCHANGED <<device, ping_due, tcp, in_doubt>>

(* ------------------------------ the device ----------------------------- *)

DeviceStep(step) ==
    /\ step
    /\ up' = IF tcp /\ transport # "open" THEN <<>> ELSE up \o device_out'
    /\ Len(up') <= MAX_UP
    /\ router_out' = R!Silent
    /\ UNCHANGED <<router, tcp, asked, in_doubt>>

DeviceRuns == DeviceStep(D!Library)

(* setup() of the sketch adds the action, and loop() calls DoSHET.         *)
Setup ==
    /\ actions[0] = D!FREE
    /\ tcp => transport = "open"
    /\ DeviceStep(D!AddAction("ii"))

DoSHET ==
    /\ actions[0] # D!FREE
    /\ tcp => transport = "open"
    /\ DeviceStep(D!DoSHET)

(* ensure_connected of the sketch, and buildProtocol of tcprouter.py: a    *)
(* new Client, connected by makeConnection.                                *)
EnsureConnected ==
    /\ tcp /\ transport # "open"
    /\ pc = "sketch"
    /\ status' = D!STATUS_RESETTING
    /\ transport' = "open"
    /\ connected' = TRUE
    /\ inactivity_timer' = INACTIVITY_TIMEOUT
    /\ router_id' = {} /\ base_path' = {}
    /\ state' = R!Idle
    /\ registry' = {}
    /\ deferred_returns' = <<>>
    /\ since_reset' = RESET_COOLOFF_DELAY + 1
    /\ router_out' = R!Silent
    /\ up' = <<>> /\ rx' = <<>> /\ device_out' = <<>>
    /\ UNCHANGED <<actions, events, properties, value, device_id, pc, task, request,
                   todo, owed, leaked, call, ping_due, tcp, asked, in_doubt>>

(* The device is switched off, wherever it is, and on; its stream, if that *)
(* is what it has, broke before.                                           *)
DeviceRestarts ==
    /\ tcp => transport = "lost"
    /\ status' = D!STATUS_RESETTING
    /\ actions' = [a \in D!ActionIds |-> D!FREE]
    /\ device_id' = <<0, 0>>
    /\ pc' = "sketch" /\ task' = "none"
    /\ request' = D!NoRequest /\ todo' = <<>>
    /\ ping_due' = FALSE
    /\ rx' = <<>> /\ device_out' = <<>>
    /\ owed' = 0
    /\ in_doubt' = (in_doubt \/ (pc = "write" /\ task = "reply"))
    /\ router_out' = R!Silent
    /\ UNCHANGED <<events, properties, value>>
    /\ UNCHANGED <<router, tcp, up, asked>>

(* -------------------------------- time --------------------------------- *)

Tick ==
    /\ RouterStep(R!Tick)
    /\ ping_due' = TRUE
    /\ UNCHANGED <<up, asked, in_doubt>>

Next ==
    \/ RouterReceives \/ ShetCalls \/ MakeConnection \/ InactivityTimeout
    \/ ConnectionBreaks
    \/ Setup \/ DoSHET \/ EnsureConnected \/ DeviceRuns \/ DeviceRestarts
    \/ Tick

(* Nothing is on its way and neither end is in the middle of anything.     *)
Settled ==
    /\ up = <<>> /\ rx = <<>>
    /\ pc = "sketch" /\ ~ping_due

(* The reactor and the device's program run, each as long as it has        *)
(* something to do.  Time goes on if both ends are settled again and       *)
(* again; that they are is not assumed, nor how fast it goes.              *)
Fairness ==
    /\ WF_vars(RouterReceives \/ MakeConnection)
    /\ WF_vars(Setup \/ DoSHET \/ EnsureConnected \/ DeviceRuns)
    /\ SF_vars(Settled /\ Tick)

Spec == Init /\ [][Next]_vars /\ Fairness

-----------------------------------------------------------------------------

(* The router knows the device's connection by its id.                     *)
SameIds == router_id = {DecodeInteger(device_id[1], device_id[2])}

(* Both ends are up, agree on the connection and know the same actions.    *)
Linked ==
    /\ connected /\ status = D!STATUS_CONNECTED
    /\ SameIds
    /\ registry = {[kind |-> "action", id |-> a, arg |-> "Integer", ret |-> "Integer"] :
                      a \in D!ActionIds}

(* When nothing is on its way and the router is connected to a device that *)
(* has reset, and the id it took from a reset is the device's, SHET has    *)
(* what the device announced, once, and both ends are at the start of a    *)
(* command.  The ids may differ: while the link is down the bytes of an    *)
(* answer are commands to process_command, and those of -256 are a reset   *)
(* and its end, which takes the next two bytes for an id.  The next ping   *)
(* then ends it.  On InitialiseWithServer, and on the handlers of          *)
(* COMMAND_RESET and COMMAND_ADD_ACTION in clientfsm.py.                   *)
RegistrationsAgree ==
    /\ leaked = {}
    /\ Settled /\ connected /\ SameIds /\ status = D!STATUS_CONNECTED
          => state = R!Idle /\ Linked

(* The answer SHET is given is that of the call it made, unless an answer  *)
(* to an earlier session's call was still to come when this one began, or  *)
(* the device was switched off in the middle of an answer, which the zeros *)
(* of its reset then complete.                                             *)
AnswersMatch ==
    [][\A r \in Askers :
          call'[r] # call[r] /\ call'[r].status = "answered" =>
             in_doubt \/ call'[r].value = asked[r]]_vars

(* From some time on SHET makes no calls, the device stays on, its         *)
(* connection is whole, and a tick finds both ends done with what the last *)
(* one began.                                                              *)
Calm == <>[][/\ ~ShetCalls /\ ~DeviceRestarts /\ ~ConnectionBreaks
             /\ Tick => Settled]_vars

(* Whatever happened before, a timeout that closed the link on a device    *)
(* that knows nothing of it and a reset lost to the cool-off included,     *)
(* once it is calm the two ends are done with it, come to be linked, and   *)
(* stay so.  A device that resets without end, and so never lets a tick    *)
(* find it settled, breaks this.  On device_reset, dataReceived and        *)
(* _on_inactivity_timeout of the router, and DoSHET of the device.         *)
Recovers == Calm => <>[]connected /\ []<>(Settled /\ Linked)

=============================================================================
