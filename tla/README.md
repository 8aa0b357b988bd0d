# SHETSource in TLA+

SHETSource attaches Arduinos to SHET, a network of actions (which can be
called), properties (which can be got and set) and events (which can be
raised). A sketch on an Arduino declares its objects with a C++ library; a
Python router holds the other end of the link to each device and registers the
objects with SHET on its behalf. This directory models the two ends of such a
link, what lies between them and the two ends together, model-checks all of it
with TLC, and proves with TLAPS the invariants of the router's client, of the
device, of the two-wire link, of the gateway and of the two ends together, for
every value of the constants.

Contents: [the system](#the-system), [what is hard](#what-is-hard),
[modules](#the-modules), [runs](#the-runs), [proofs](#the-proofs),
[findings](#findings), [what is left out](#what-is-left-out), [plan](#plan).

## The system

| Part | Source | State it keeps | Operations |
|---|---|---|---|
| Router client, one for each device | `router/client.py`, `clientfsm.py`, `clientshet.py`, `clientshetsource.py` | `_connected`, `connection_id`, `base_path`, the dictionaries `_properties`, `_actions`, `_events`, the queue `_deferred_returns`, the inactivity timer, `last_reset`, the suspended parser | `dataReceived`, `connectionLost`, `makeConnection`, the inactivity timeout, and the closures SHET calls to get, set and call |
| Parser | `router/fsm.py`, `typefsm.py` | the current state: `process_command`, or the sub-FSM whose value a suspended generator waits for | `process`, one byte at a time |
| Device library | `arduino/lib/SHETSource_*.cpp` | the status bits, the tables of actions, events and properties, `connection_id`, `last_ping` | `DoSHET`, `AddAction`, `RemoveAction`, `AddEvent`, `RemoveEvent`, `AddProperty`, raising an event |
| Device links | `arduino/lib/comms.cpp`, `pins.cpp` | a ring buffer of received bytes, two pins | `Available`, `Read`, `Write`, each with a timeout (two wires), or over a serial port or TCP |
| Gateway, router side | `router/gateway.py`, `gatewayio.py` | the clients by address, the state of the frame reader | frames of three bytes in, frames out |
| Gateway, Arduino side | `arduino/gateway/gateway.cpp` | one `Comms` for five channels | polls the channels and the serial port |
| Programs | `router/router.py`, `directrouter.py`, `tcprouter.py` | none of their own | set-up of the reactor |
| Examples | `arduino/client_example*` | a sketch's own variables | the calls a sketch makes |
| SHET | `shet.client`, not in the repository | the registrations | calls the closures, receives events |

A session goes like this. The device flushes its input and writes ten zero
bytes, `0xFF`, a random connection id, its name, and a registration for every
object. The router absorbs the zeros, takes id and name, counts as connected and
registers the objects with SHET. From then on the device pings with its id every
2.5 s; SHET's calls are written to the device as a command, and a Deferred is
queued; the device answers `RETURN` and a value, **without a number**, which the
router gives to the oldest Deferred. Anything that goes wrong ends the session:
the router clears the records of the client and writes a single `RESET` byte, at
most once in ten seconds; the device sets the `RESETTING` bit and starts again.
The two ends share nothing but the bytes.

What makes each part correct:

* *Router client.* What the device set up lasts as long as the link; answers go
  to the requests in the order these were made, once; no request is left waiting
  when the link is gone; only registered events are raised; a device that has
  gone is noticed.
* *Parser.* Wherever it stands, the leading zeros of a reset bring it to the
  reset; a handler finds the fields it read and of the types it asked for.
* *Device library.* A request taken off the link is answered or the device
  resets; `DoSHET` gives control back; values are what was sent.
* *Links.* Bytes arrive once and in order, or the writer learns of a failure
  (`ByteLink` says it exactly).
* *Gateway.* A byte reaches the client, or the device, of the address it came
  from or was meant for; a lost byte spoils one frame; no device is starved.
* *The two ends together.* SHET gets the answer to the call it made; SHET knows
  what the device announced; after any fault both ends come together again.

## What is hard

`PROJECT.json` lists every hazard at its line, with the properties that cover it
or the reason none does. They are of six families:

* **Answers without numbers.** One answer too few or too many, on either end,
  shifts all the later ones (`AnswersInOrder`, `WaitersOK`, `AnswersOrResets`).
* **Suspended handlers.** A generator of `clientfsm.py` holds what it read, and
  what it looked up or popped, across any number of callbacks: resets, timeouts,
  lost transports (`ParserOK`, `RaisedIsRegistered`, `ForgottenOnlyMidReturn`,
  `LinkOK`).
* **Losing and finding the thread.** After a malformed byte the rest of a
  command is parsed as commands; what gets both ends back in step
  (`Resynchronises`, `DoSHETReturns`, `SilenceClosesLink`).
* **Results nobody looks at.** The device ignores the result of most reads and
  writes and relies on the status bits (`AnswersOrResets`, `UnsentValueResets`).
* **Two ends that only share levels or bytes.** Requests that clash and answers
  that come too late (`Implements`, `CallsReturn`); devices switched off, streams
  that break, resets dropped by the cool-off (`RegistrationsAgree`,
  `AnswersMatch`, `Recovers`).
* **Shared and full buffers.** One receive buffer for five channels, a serial
  port without flow control, frames that lose bytes (`Served`, `InSync`,
  `WholeFrames`, `ReceivedFromThatClient`).

## The modules

| Module | What it is |
|---|---|
| `SHETSource` | the commands, and integers on the wire; used by both ends |
| `RouterClient` | one `Client` of the router, against any peer, any SHET and any order of timeouts |
| `MCRouterClient` | the bytes and values it is model-checked with |
| `RouterClientProofs`, `RouterClientSteps` | theorems about `RouterClient`: its invariants; what a step may never do |
| `RouterStream` | theorems about `RouterClient`: what it makes of the stream of one device |
| `Device` | the device library and a sketch, against any server and, on two wires, any failure of the link |
| `MCDevice` | the ints and callbacks it is model-checked with |
| `DeviceProofs` | theorems about `Device` |
| `ByteLink` | what a `Comms` link promises: the abstract specification of the next |
| `TwoWire`, `MCTwoWire` | the two-wire handshake, half clock by half clock, at both ends of a link |
| `TwoWireProofs` | theorems about `TwoWire`, its refinement of `ByteLink` among them |
| `Gateway`, `MCGateway` | the gateway's loop, the serial line, and the router's end of it |
| `GatewayProofs`, `GatewayFrames` | theorems about `Gateway` |
| `Session`, `MCSession` | `RouterClient` and `Device` as instances, each reading what the other writes |
| `SessionProofs` | theorems about `Session`; `RouterStream` is an instance |

`RouterClient` and `Device` are open systems: the other end is an adversary that
may send any byte at any time, so what is shown of one end holds whatever the
other does, lost and repeated bytes included. `Session` closes them over one
connection, and shows what only holds of the two together. `TwoWire` and
`Gateway` model the links in between; `ByteLink` is where they meet the rest: a
device on two wires (`DIRECT_CONN` of `Device`) and a channel of the gateway see
a link that delivers in order or fails, as `ByteLink` says.

### RouterClient

One action is one callback that the Twisted reactor runs to completion, so
callbacks interleave and code within one does not. `dataReceived` is one
`DataReceived(b)` step for each byte of its chunk.

| Model | Code |
|---|---|
| `connected` | the attribute behind the property `connected`: setting it runs `_on_connect` or `_on_disconnect`, and those are part of every action that sets it (`Connect`, `MakeConnection`, `OnDisconnect`) |
| `state` | `FSM.state`: `Idle` is `process_command`; otherwise the handler's command, the fields it has read (`vals`), the part of the field being read (`part`) and the Deferred it popped |
| `Signature(c)` | the fields a handler yields, in order |
| `registry`, `leaked` | the three dictionaries; the objects an overwritten entry held, which SHET still has |
| `deferred_returns`, `call` | the queue; for each request of SHET, whether its Deferred waits, was called back or failed |
| `inactivity_timer`, `since_reset` | time in ticks, up to a timeout or just beyond a delay |
| `out` | the bytes written and the event raised by the last step |

Two facts of the code shape the model. Twisted's `makeConnection` assigns 1 to
`connected`, which this class made a property, so the link starts connected
with no path and no id (`MakeConnection`). And an exception in a handler ends in
`_on_malformed_command` like an explicit rejection (`RejectField`,
`ProcessReturn` on an empty queue, `FinishRemove` of an unknown id,
`PathFails`), with the parser back at `process_command`.

A string is its first character, because only `startswith("/")` looks into it.
SHET is its interface: it may call anything registered and not removed
(`Callable`), with any value of the registered type.

### Device

The library is one thread: `pc` says where it is. A step is one byte read, one
`Client::Write`, or a decision, so that bytes, a due ping, a read timeout or a
failed write may come between any two of them.

| Model | Code |
|---|---|
| `status` | the status bits as a set; each fault contains the bit that asks for a reset |
| `actions`, `events`, `properties` | the slots, with the kind of callback that `operator()`, `Set` and `Get` branch on |
| `pc`, `task`, `request`, `todo` | the program counter, the command being read, the writes a handler has still to do |
| `rx` | the bytes that have arrived; `COMMS_BUFFER_SIZE` bounds it |
| `DIRECT_CONN` | the two-wire link: a write may time out having sent any part, and `Available` may hold with no byte behind it |
| `Garbage` | the bytes an uninitialised `int` may hold |
| `owed` | history: the requests taken off the link and not answered |

A write that fails does not stop a handler: only raising an event looks at the
result (`WriteTimeout`), and the last statement of `InitialiseWithServer` clears
the status whatever the writes before it came to (`WriteDone`). The sketch may
add, remove, raise or call `DoSHET` in any order; what it does within a callback
is not modelled.

### ByteLink and TwoWire

Each end of a two-wire link drives one line and hears the other. An end that
wants to write pulls its line low and waits for the other to do so too; the
reader samples a bit a clock, raises its line, and waits for the writer's line
to rise. In `TwoWire` an end is at a place of `Write` (`poll`, `request`, `ack`,
`send`, `end`, `gap`), of `ReadToBuffer` (`await`, `sample`, `release`,
`refuse`) or of `Read` (`take`). `Tick` is half a clock, and happens only when
no end has anything to do: the code between two waits takes a small part of it.
What both ends do at the same instant happens in any order, so both may pull
their lines low at once (`comms.cpp:70`), a level may come just as its wait
times out, and so on. Every wait is a `WaitTimeout`, which ends in `GiveUp`.

`ByteLink` is the promise, in the terms of a sketch: a `Write` is pending, then
sent or failed; a byte handed to it reaches the buffer of the other end, once,
intact and after those before it, or the `Write` fails. The refinement is the
identity on `result` and `buffer` and two history variables of `TwoWire`:
`handed`, the byte that a `Write` still has to deliver, and `in_trouble`.
Writing it down showed three things about the code, all of them in `ByteLink`:

* A `Write` may report a failure though its byte was delivered: if the reader at
  once writes itself, the writer misses the short high pulse at the end of its
  byte (`comms.cpp:89`). `Fail` says nothing of `handed`.
* A full buffer drops a byte its sender is told was sent (`comms.cpp:199`):
  `Deliver`.
* When both ends write at once, or a `Write` gives up in the moment it is
  answered, each takes the other's line for an answer: bytes are lost, made up,
  and reported as sent. That is `in_trouble`; it starts in these two ways only
  (`Clash`, `Fail`) and ends when neither end is in the middle of a byte.

`MAX_PRE_WRITE_READS` never takes effect: the buffer has one place less, and is
full first.

### Gateway

| Model | Code |
|---|---|
| `pending` | the byte with which a device's `Write` holds its line |
| `at` | the channel `RouteDataFromClients` polls next, or the place in `RouteDataFromServer` |
| `write` | what was read of a frame, then the `comms.Write` of it |
| `buffer` | the one receive buffer of the one `Comms`; `from` is history |
| `serial_in`, `down`, `up` | the Arduino's serial buffer, and the line in each direction |
| `reader`, `clients` | the FSM of `gatewayio.py`, the table of `gateway.py` |

A byte is a pair of nibbles, low one first, and a frame is an address, a first
and a second nibble, told apart by their high bits; of those the model keeps the
kind. `Accepts` and `Expected` are the masks: `gatewayio.py` takes either nibble
for a second one (`0b10110000`), `gateway.cpp` does not. What the two readers do
in the middle of a frame differs too, and the model keeps it: the router's goes
back to `read_address` on any byte it does not expect, and the byte is gone; the
gateway's round ends. Bytes are lost on the way up at will (`Lose`), and on the
way down where the code loses them, in a serial buffer that is full
(`Arrives`). `lost_up` and `lost_down` bound the bytes lost in a row.

### Session

`R == INSTANCE RouterClient` and `D == INSTANCE Device` share two channels: `rx`
is what is on its way to the device, `up` what is on its way to the router.
`Input` of each is every byte, and the head of the channel is the one that is
read: an action of `Session` is an action of one of the two, and what that
action wrote appended to the other's channel. What the two do not say and
`Session` adds:

| Action | Code |
|---|---|
| `RouterReceives` | the bytes of one chunk that follow one whose handler raised are gone (`FSM.process`); chunks are any prefix of what is on its way |
| `Setup`, `DoSHET` | `setup` and `loop` of the example sketches |
| `ConnectionBreaks`, `EnsureConnected` | the stream of the Ethernet example; `connectionLost`, a new `Client` of `tcprouter.py`, and `SetState(RESETTING)` |
| `DeviceRestarts` | the device is switched off, wherever it is, and on; on a serial port the router does not see it |
| `Tick` | `PING_INTERVAL`: both ends' clocks |

`asked` and `in_doubt` are history. A session is in doubt when it began with an
answer to an earlier session's call still to come: a call that the router wrote
just before it read the reset arrives after the flush of the device, and the
device serves it in the new session; or when the device was switched off in the
middle of an answer, which the zeros of its reset then complete. The code cannot
tell such an answer from the right one, and `AnswersMatch` excepts just these.

## The runs

| Run | Bounds | Shows |
|---|---|---|
| `router_actions` | two requests (symmetric), one action id, timeout and delay of one tick, resets, registrations and answers with void and integer results | `TypeOK`, `LinkOK`, `WaitersOK`, `AnswersInOrder`, `ForgottenOnlyMidReturn` |
| `router_commands` | one request, every other command and an unknown one, one id, a bad type code | `LinkOK`, `ParserOK`, `Resynchronises`, `RaisedIsRegistered`, `SilenceClosesLink` |
| `device_actions` | one action of any of the four kinds, one event, calls, pings, resets, an unknown byte, two-wire link | `TypeOK`, `AnswersOrResets`, `DoSHETReturns` |
| `device_properties` | one property of either kind, gets, sets, resets, two-wire link | `AnswersOrResets`, `UnsentValueResets` |
| `link` | bytes of two bits, a timeout of six half clocks, a buffer of one byte | `TypeOK`, `Implements` (that is `ByteLink!Spec`), `CallsReturn` |
| `gateway` | two channels, one byte, a receive buffer of one byte, a serial buffer of three, one frame on the line each way, one byte lost in a row | `TypeOK`, `InSync`, `WholeFrames`, `Served` |
| `session` | one action, one request at a time with one of two values, 1 and -256, serial port or TCP, two bytes on the way up and ten down, timeout of two pings and cool-off of four, the real length of a reset | `RegistrationsAgree`, `AnswersMatch` |
| `recovery` | the same with the value -256 only and five bytes down | `Recovers` |
| `DisconnectClearsReturns`, `DisconnectClearsShet`, `AssertConnectedChanges`, `ReceivedFromThatClient` | as above, some smaller | each finds a counterexample: see [findings](#findings) |

Why the bounds are enough. Two requests are the least that can be answered in
the wrong order; their identities matter to nothing, hence the symmetry. The
queue, the parser and the dictionaries have no bound of their own: the number of
requests bounds the queue, and one id can be registered, overwritten and removed.
A second id would only add rows the code treats alike. The peer of `MCInput`
chooses, at each field, among bytes the code tells apart there: the
end of a reset or not, the right connection id or a wrong one, a string that is
empty, relative or absolute, a type known or not. Timeouts of one tick
still let anything happen before, at and after the deadline. On the device one
slot of each table shows a request for a slot in use, free, and out of range
(the other bytes of `Input` read as an id). `LENGTH_OF_RESET_COMMAND` is 1
there: the zeros matter to the router, and `Resynchronises` uses the real 10.
With more than one byte of `COMMS_BUFFER_SIZE` the states are more and the
results the same: the device takes one byte at a time.

For the link, two bits are the least that can be sampled too early or too late,
and the two bytes written end with the line low and with the line high. The
timeout is the least the module's assumption allows: longer than it takes to
send a byte, so that, as in the code (10000 against 16 half clocks), the order
of all other events is open. A buffer of one byte (`COMMS_BUFFER_SIZE = 2`) is
full after one. Also checked once, and too long to be a run: all four bytes
(787 thousand states), and a buffer of two (3.6 million, safety only).

For the gateway, frames differ by their address, which is enough to tell a byte
of one from a byte of another, and the theorems hold for every set of bytes; two
channels are the least that can be confused or starved; the serial buffer holds
the three bytes that `RouteDataFromServer` waits for and no more, so that it
overflows. Two bytes lost in a row on the way down are checked by the theorem
`FramesStayWhole` (1.7 million states, too long to be a run). The bound is sharp:
with `MAX_LOST_UP = 2` or `MAX_LOST_DOWN = 3` TLC finds `WholeFrames` violated.

For the session, one request at a time: `AnswersInOrder` and `WaitersOK` are
about several. A request whose Deferred the router forgot (see [findings](#findings))
waits for ever, and the one asker then asks no more. A chunk of two bytes has a rest to
lose. Ten bytes down hold two calls, one of an earlier session and one of this, or a
reset and a call after it; with the five of `recovery` a call is written only when
nothing else is on its way down. Of the two values one, -256, has the bytes of a reset
and its end (see [findings](#findings)).

A tick is 2.5 s, the time between two pings (`SHETSource.h:19`). The inactivity timeout
of 6 s (`client.py:22`) is 2.4 pings: two ticks pass before it and a third does not. The
cool-off of 10 s (`clientshetsource.py:10`) is four, and so longer than the timeout: when
the timeout closes a link just after a reset was written, the device still counts as
connected and pings, and those pings get no reset until the cool-off is over. The
timeout may also fire when a ping is still on its way.

Fairness. For the router, `WF(Tick)` and `WF(InactivityTimeout)`: time passes
and the reactor runs a timer that is due. Nothing is assumed of the peer, SHET
or the transport. `SilenceClosesLink` therefore has the peer's silence as its
hypothesis. For the device, `WF(Library)`: the library runs on while it has
control. `DoSHETReturns` has as its hypothesis that the server falls silent and
that the link stops failing; without the first the flush before a reset
(`SHETSource_Client.cpp:98-105`) may indeed go on for ever.

For the link, `WF(Tick)` and `WF(Proceed(e))` for each end: time passes and a
processor that is in a call runs; the programs need never call. For the gateway,
`WF(Loop)` and `WF(RouterReads)`: the Arduino loops and the router reads. The
devices and the router's writes are free, and `Served` needs a hypothesis on
them: a shared buffer that is not empty is served before the line of any
channel, and if the server keeps writing to devices that write at the same time
it never is. For the session, the
reactor runs while bytes wait for it or the port is to be opened, and the device's
program (the sketch's `setup`, `loop` and reconnecting, and the library) runs on: `WF` of
each. Nothing is assumed of the timers of the reactor, and of time only
`SF(Settled /\ Tick)`: if both ends are done with everything again and again, time does
not stand still. `Recovers` holds under `Calm`: from some time on no calls, no switching
off and no broken streams, and a tick finds the ends done with what the last one began (a
reset takes far less than 2.5 s). That tick need not come. A `WF(Tick)` would make
it come, and with it the assumption that every burst of bytes ends; as it is, a device
that resets without end, or an exchange that never settles, is a behaviour that is
calm and breaks `Recovers` (the mutant `SetStateByOr`, whose device never clears its
status, does just that). Nothing is assumed of the state the faults have left
behind: a reset dropped by the cool-off (`clientshetsource.py:57`), the end of a chunk
dropped, both ends thinking they are connected to something else.

No run disables deadlock checking. Where time can pass, something can always
happen (`Tick`; on the device, the sketch or the library).

## The proofs

### The router's client

`RouterClientProofs` proves for every set of requests and values, every `Input`
the peer may choose from, every timeout of at least one tick and every delay:

| Theorem | |
|---|---|
| `TypeCorrectness` | `Spec => []TypeOK` |
| `LinkLifetime` | `Spec => []LinkOK` |
| `ParserSoundness` | `Spec => []ParserOK` |
| `QueueSoundness` | `Spec => []WaitersOK` |
| `AnswersOrder` | `Spec => AnswersInOrder` |
| `EncodeDecoded` | what was decoded from two bytes is encoded in the same two bytes |

The first five come from one invariant, `IInv /\ Unstarted`. None of its four
parts is inductive alone. A half-read `RETURN` is typed only because the parser
holds a Deferred of a type that is not void (`ParserOK`); that a reset is read
only while the link is down needs `LinkOK`; that answering leaves the others
waiting needs the requests of the queue to be distinct (`WaitersOK`).
`Unstarted` adds what holds before `makeConnection`: without it the first
connection could find an id or a half-read reset.

The proof has one lemma for each action (`ResetInv`, `ReturnInv`,
`FinishAddInv`, ...), each of the form "`IInv` and the action give `IInv'`",
built from lemmas about the effects actions share (`DisconnectInv`,
`MalformedInv`, `LinkKept`) and about the queue (`QueueServed`, `QueueJoined`,
`QueueEmptied`). `NextInv` puts them together and `Invariance` is the temporal
step. `AnswersOrder` is a property of steps: `NextOrder` derives it from `IInv`
action by action, the one served being the head of the queue (`ServedOrder`),
the ones that fail being in it (`DisconnectOrder`), and a new one being its last
(`AskOrder`). The assumptions used are the three named `ASSUME`s of `RouterClient`.

What a step may never do is derived from the same invariant in
`RouterClientSteps`:

| Theorem | |
|---|---|
| `RaisesRegistered` | `Spec => RaisedIsRegistered` |
| `LostOnlyMidReturn` | `Spec => ForgottenOnlyMidReturn` |
| `ZerosReset` | `Spec => Resynchronises` |

`RaisesRegistered` rests on the part of `ParserOK` that says the event a suspended
`process_raise_event` has looked up is registered still: the registry changes only
in steps that leave the handler. `LostOnlyMidReturn` goes through the actions to see
who is in the queue, or is held by the handler, before a step and is in neither
after (`DisconnectForgets`, `ReturnForgets`, ...). `ZerosReset` has two halves:
`ZerosToReset` is less than a reset has zeros (`ZerosBounded`), as no signature has
more than four fields; and a zero byte makes it smaller in every handler and every
part of a field (`CommandNearer`, `FieldNearer`) or finds `process_reset` already
absorbing zeros (`ResetAbsorbed`). That is the whole argument that a device's reset
is understood in any state, but for the temporal step from "nearer each time" to
"there after ten", which is arithmetic.

### The device

For tables of any size an `int` can count, any bytes the server may send, any ints
the callbacks return, and a link that may fail or may not:

| Theorem | |
|---|---|
| `TypeCorrectness` | `Spec => []TypeOK` |
| `OneAnswerEach` | `Spec => []AnswersOrResets` |
| `OnlySentValues` | `Spec => UnsentValueResets` |

The invariant is `IInv`. `TypeOK` alone is not inductive: that the argument of a
request can be given to a callback needs the id before it to be one in use that
takes an argument (`RequestOK`). Nor is `AnswersOrResets`: after the `RETURN` of a
reply is written nothing must write a second one (`WritesOK`: the rest of a reply
holds none), and a reset, which drops the reply, must begin with nothing owed.
There is one lemma for each place of the program (`LoopStep`, `ReadStep`,
`FlushStep`, `WriteStep`, `PingStep`, `SketchStep`). The writes of a reset are
`FlattenSeq` of those of each object, which the community modules define by
recursion; that it yields a sequence of writes (`FlattenType`) is proved by taking
the least index at which it fails, since numbers are well-founded. The assumptions
are the four named `ASSUME`s of `Device`.

### The two-wire link

For bytes of any length, any set of them, buffers of any size, and any timeout
longer than it takes to send a byte (`LinkAssumption`):

| Theorem | |
|---|---|
| `TypeCorrectness` | `Spec => []TypeOK` |
| `Implementation` | `Spec => Implements`, that is, `ByteLink!Spec` |

`IInv` has three parts. `CallOK` says of one end what its place in a call implies:
whether it writes, the level of its line, which bits it holds. `InStep` says, of
two ends that are not in trouble, where they stand to each other: the bits sampled
are the first ones of the byte being sent, those still to be sent are its last, and
the two clocks differ by at most half a clock in one direction or the other
(`Phase`). It is a statement in half clocks about four situations (just
acknowledged, sampling before the bit is over, sampling after the next has begun,
sampling the last bit while the sender waits for its release), and an invariant
only with what holds just before and just after: a sender has a
reader sampling, and one that has sent its byte either still has it to deliver and
a reader that will take it in time, or has delivered it. That the wait of either end
for the other does not run out in between uses `TIMEOUT_CYCLES > 2 * BITS + 1`.
There is one lemma for each action. `StepRefines` then maps each: `Acknowledged` of
both ends at once to `Clash`, `Receive` to `Deliver` or, in trouble, to `MakeUp`,
`Sent` to `Succeed`, `GiveUp` of a write to `Fail`, `StartWrite` to `Write`, `Take`
to `Read`, and all that happens in the middle of a byte to a stutter or `Over`.

### The gateway

For every number of channels up to the 16 an address has room for, every set of
nibbles and bytes, every size of the buffers and any loss (`GatewayAssumption`):

| Theorem | |
|---|---|
| `TypeCorrectness` | `Spec => []TypeOK`, the shared buffer's limit included |
| `Resynchronisation` | `Spec => []InSync` |
| `FramesStayWhole` | if `MAX_LOST_UP <= 1` and `MAX_LOST_DOWN <= 2`: `Spec => []WholeFrames` |

`TypeOK` is not inductive: that the serial port has a byte to read in the middle
of a frame rests on the three there were at its start (`RestOfFrame`). There is
one lemma for each action. `Resynchronisation` follows from the types alone:
`FrameResynchronises` shows it of a reader in any state.

`FramesStayWhole` needs to know what is still on its way (`FInv`, in
`GatewayFrames`). `Follows` says that a line holds whole frames but for the
beginning of the first. `AfterAddress(s, n, a)` and `AfterFirst(s, n, a, x)` say
what is at the head of the line `s` when its reader has just taken an address, or
an address and a first nibble, and `n` bytes after it are lost: for `n = 0` the
rest of the same frame, and otherwise a byte that the reader will not take for it.
`ReaderInStep` says this of the router's reader. On the other side bytes wait in
the serial buffer before they are read, so `PortInStep` says it of the last that
have arrived, and that those before them are in order, and `WriteInStep` carries it
on to what `RouteDataFromServer` has read. Three lemmas do the work: a line keeps
its form when it loses a byte (`AfterLoss`), when a frame is written
(`AfterWrite`), and when its head is read (`AfterHead`). The two bounds come
from the two masks: after two lost bytes the head may be the first nibble of
the next frame, which only the router's reader takes for a second one.

### The two ends together

For every set of requests, values and ids, every timeout and cool-off, and any number
of bytes on their way (`SessionAssumption`), if `NoResetInside`:

| Theorem | |
|---|---|
| `StreamFollowed` (of `RouterStream`) | a byte of a device's stream takes the router to where it takes the device, or makes it ignore what comes |
| `RegistrationAgreement` | `Spec => []RegistrationsAgree` |
| `AgreementBeforeIds` | the same of a router that may not have the device's id |

`NoResetInside` says that no id and no value has the bytes 0, 255 of a reset and its
end, that the link is a serial port or a stream (`DIRECT_CONN = FALSE`), and that a
reset has at least the ten zeros of the code. The session runs go beyond it with the
value -256 (and one id, 7). Without it the theorems are not true: with that value
TLC finds `RegistrationsAgree` violated for the id 514 (see [findings](#findings)); with
the id whose bytes are 0, 255 it finds `AgreementBeforeIds` violated, a router that
ignores the device taking its pings for a reset; for two wires see
[what is left out](#what-is-left-out). Of `RegistrationsAgree` with that id and other
values TLC finds no counterexample; it is not proved of it. `NoResetInside` holds of
the constants of both session runs with `Values = {1}`.

The argument follows the bytes. `RouterStream` numbers the places of what a device
says after it is switched on, from the first zero of the reset through the id, the name
and the announcement to the start of a command, and round again with each ping and each
answer (`Places`, `Sends`). `RouterAt(p)` says what the router may be doing when the
next byte it reads is one that the device sent at `p`:

* it ignores what comes until a zero (`Deaf`);
* it absorbs the zeros of a reset, at a place where they cannot be taken for the
  beginning of a reset's end (`Absorbing`, `AbsorbsAt`);
* it is anywhere at all, and the zeros to come are as many as it needs
  (`EnoughZeros`, from `ZerosToReset` of `RouterClientSteps`);
* it is in the same field of the same command (`Follows`).

`StreamFollowed` is the heart: each of the four is left for one of the four. Handlers
that zeros complete may leave something behind, a void action say; `Tame` bounds what
that can be until the reset is understood. `RaisesDeaf` is the step of an exception,
after which any part of what is on its way may be missing.

`SInv` of `SessionProofs` puts it together. What is in `up` is a walk along `Sends`
from a place `p` with `RouterAt(p)` to a place `q` with `DeviceAt(q)`: the end of the
walk is where the rest of the device's writes (`todo`) begins. Switching the device off
moves that end to the first zero, which is one more edge of the graph (`Sent`), for a
reset may follow any byte. What is in `rx` is a walk through the calls that the router
writes, from the place where the device reads to the end of a call (`DownAgrees`);
without it the device could take the argument of a call for a command, and
reset when it should not. A call without an argument, made in the middle of a reset
that zeros garble, shifts the device by a call; `ReadingAt` has those cases. Each
action moves one end of a walk (`WalkOn`, `WalkJoin`, `WalkCut`), and that is its
lemma: `RouterReceivesStep`, `ShetCallsStep`, `WriteNextAgrees`,
`DeviceRestartsInv` and so on. When all is quiet `up` is empty, hence `p = q`, and a
device that has reset and is in its sketch is at the start of a command
(`SessionSettled`).

`RouterClient` is in `Session` twice, as `R` and, with the theorems about it, as `RP`:
the lemmas `SameConstants` to `SameCallbacks` say that the two are one.

### Only model-checked

`AnswersMatch`: the walks of `SInv` would have to carry the values of the calls and
answers on their way, in the order of the queue, and what makes a session doubtful.
And `SilenceClosesLink`, `DoSHETReturns`, `CallsReturn`, `Served` and `Recovers`, which
are liveness under fairness and out of the prover's reach.

## Findings

* **A Deferred is forgotten in mid-return** (`DisconnectClearsReturns`).
  `process_return` pops the Deferred before it has the value; a link that goes
  down in between leaves it neither called back nor failed, though
  `_on_disconnect` means to "clear all waiting returns".
  `ForgottenOnlyMidReturn` shows that this is the only way.
* **A registration outlives the device** (`DisconnectClearsShet`). Registering
  an id twice overwrites the dictionary entry and leaves the first object with
  SHET for ever. The library never does; it takes a link that loses bytes, or another
  peer (on a serial port or a stream `RegistrationAgreement` excludes it).
* **An assertion fails on a lost transport** (`AssertConnectedChanges`).
  `connectionLost` sets `connected` to `False` when it is `False` already.
* **A byte comes from the wrong device** (`ReceivedFromThatClient`). The gateway
  has one `Comms` for all channels. A byte that its `Write` to one device
  receives first is in the one buffer, and is read when channel 0 is polled: the
  router gives it to the client of device 0.

Seen in the source and not made into a run: `commands.h` says that a device
ignores an invalid request "silently", and it resets; the same file has a ping
answered with 8 bits, and the device answers with an `int`; `RemoveAction` says
it unregisters the action with the server, and tells the server nothing; the comment
on `INACTIVITY_TIMEOUT` says that a ping is sent to the device then
(`client.py:18-22`), and `_on_inactivity_timeout` closes the link; `LocalProperty::Set`
does not look at the result of `ReadInt`, so that after a read timeout a property is set
to bytes nobody sent (`UnsentValueResets` shows that the device at least resets).

And one that no comment rules out. While the link is down `process_command` ignores
every byte that is not 0 (`clientfsm.py:27`), the fields of a command included. The
answer to a call may still be on its way then, and if it is -256 its two bytes are a
`RESET` and the end of one: the router takes what comes next for the id and the name
of a connection. The device's next ping does not have that id and ends it.
`RegistrationsAgree` therefore speaks of a router that has the device's id, and the
session runs have -256 among their values; `Recovers` shows that both ends get over it. The one
exception is a device with the id 514, which a ping (byte 2, then the id) may
by chance give to the router in this way; TLC finds it with that id.

## What is left out

* **Session on two wires.** With `DIRECT_CONN = TRUE` the device ignores the
  result of every write of a reset and then clears the status, failures included
  (`SHETSource_Client.cpp:134`): TLC finds, in 31 steps, two ends that are
  connected by the same id and disagree about the actions. `Session` is therefore about links
  whose writes do not fail; `Device` covers the failing ones for one end.
* **Two connections of one device.** A device that reconnects before
  `tcprouter.py` learns that its old stream is gone has two `Client`s. What SHET does
  with a path that is added twice is not in the repository.
* **The programs.** Command lines, the start of the reactor, and its stop when a serial
  port goes away; the Ethernet shield's own start; pin numbers, modes and levels other
  than those of the link.
* `out_of_sync` of the gateway is written and never read. The status LEDs and
  printing only display.
* A frame of the gateway that is garbled rather than lost: a byte with another kind is
  one that its reader does not take, like a lost one; a nibble with another value is
  noticed by nobody.
* `LocalProperty::Remove` is declared and defined nowhere, so no program can
  call `RemoveProperty`. `Unregister` is called by nothing.
* Writing or reading outside the tables (a full table, a negative id) has no
  outcome to model: adding is enabled when there is a free slot, and a negative
  id counts as not in use.
* The sketch calling the library from within a callback; SHET making a call from
  within a callback of a Deferred.

## Plan

Done: the two ends (1), the two ends together (2), the two-wire link and its
abstract specification (3), the gateway (4), the invariants of the router's client and
of the gateway (5), the router's properties of steps, the device, the refinement
of `ByteLink` (6), and that the two ends agree on what is registered (7). Left:

1. `AnswersMatch` as a theorem, from `SInv` with a list of values at each place of
   its walks.
