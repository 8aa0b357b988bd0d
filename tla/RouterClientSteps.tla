------------------------- MODULE RouterClientSteps -------------------------
(***************************************************************************)
(* What a step of RouterClient may never do, for every set of requests and *)
(* values and every peer: the action properties, from the invariant of     *)
(* RouterClientProofs.                                                     *)
(***************************************************************************)
EXTENDS RouterClientProofs

(* Sequences: what is in one.                                              *)
LEMMA HeadOrTail ==
  ASSUME NEW S, NEW s \in Seq(S), s # <<>>, NEW x \in Range(s)
  PROVE  x = Head(s) \/ x \in Range(Tail(s))
<1>1. PICK n \in Nat : n = Len(s)
  BY LenProperties
<1>2. PICK i \in 1 .. n : x = s[i]
  BY <1>1 DEF Range
<1>3. Tail(s) \in Seq(S) /\ Len(Tail(s)) = n - 1 /\ \A j \in 1 .. n - 1 : Tail(s)[j] = s[j + 1]
  BY <1>1
<1>4. CASE i = 1
  BY <1>2, <1>4
<1>5. CASE i # 1
  <2>1. i - 1 \in 1 .. n - 1 /\ (i - 1) + 1 = i
    BY <1>1, <1>2, <1>5
  <2>2. x = Tail(s)[i - 1] /\ i - 1 \in DOMAIN Tail(s)
    BY <1>2, <1>3, <2>1
  <2>3. QED
    BY <2>2 DEF Range
<1>6. QED
  BY <1>4, <1>5

LEMMA AppendKeeps ==
  ASSUME NEW S, NEW s \in Seq(S), NEW d
  PROVE  Range(s) \cup {d} \subseteq Range(Append(s, d))
<1>1. PICK n \in Nat : n = Len(s) /\ DOMAIN s = 1 .. n
  BY LenProperties
<1>2. /\ DOMAIN Append(s, d) = 1 .. n + 1
      /\ \A i \in 1 .. n : Append(s, d)[i] = s[i]
      /\ Append(s, d)[n + 1] = d
  BY <1>1
<1>3. \A i \in 1 .. n : i \in 1 .. n + 1
  OBVIOUS
<1>4. n + 1 \in 1 .. n + 1
  OBVIOUS
<1>5. QED
  BY <1>1, <1>2, <1>3, <1>4 DEF Range

(***************************************************************************)
(* Only a finished RAISE_EVENT raises an event.                            *)
(***************************************************************************)
NothingRaised == out' = out \/ out'.raised = {}

LEMMA NotRaised ==
  /\ Quiet => NothingRaised
  /\ DeviceReset => NothingRaised
  /\ OnMalformedCommand => NothingRaised
  /\ \A bytes : out' = Wrote(bytes) => NothingRaised
BY DEF NothingRaised, Quiet, DeviceReset, OnMalformedCommand, Silent, Wrote

LEMMA RaisedIsKnown ==
  ASSUME IInv, NEW b \in Bytes, LastField(b), FinishRaise(b)
  PROVE  connected /\ \A e \in out'.raised : Known("event", e[1])
<1>0. TypeOK /\ ParserOK /\ LinkOK /\ state.cmd # NoCommand /\ state.cmd = COMMAND_RAISE_EVENT
  BY InvParts DEF FinishRaise, NoCommand, COMMAND_RAISE_EVENT
<1>1. connected
  BY <1>0 DEF LinkOK, NoCommand, COMMAND_RAISE_EVENT, COMMAND_RESET
<1>2. EndsField(b) /\ ~BadField(b) /\ EndsArguments(b) /\ Field # "Byte"
  BY <1>0, LastFieldFacts DEF LastField
<1>3. /\ Args(b) \in Seq(Int16) /\ Len(Args(b)) = Len(state.vals) + 1
      /\ state.vals \in Seq(Int16) /\ Len(state.vals) \in Nat
  BY <1>0, <1>2, ArgsType, ReadingFacts
<1>4. Signature(state.cmd) = <<"Integer", "Type", "Value">>
  BY <1>0, SignatureCases DEF FieldCommands, ArgumentCommands
<1>5. PICK n \in Nat : n = Len(state.vals)
  BY <1>3
<1>6. n = 1 \/ n = 2
  <2>1. Len(Args(b)) = n + 1 /\ Len(Signature(state.cmd)) = 3
    BY <1>3, <1>4, <1>5
  <2>2. n + 1 = 3 \/ n + 1 = 2
    BY <1>2, <2>1 DEF EndsArguments
  <2>3. QED
    BY <2>2
<1>7. Known("event", state.vals[1])
  <2>1. CASE n = 1
    <3>1. Field = "Type"
      BY <1>4, <1>5, <2>1 DEF Field
    <3>2. QED
      BY <1>0, <1>2, <3>1 DEF BadField
  <2>2. CASE n = 2
    <3>1. Field = "Value"
      BY <1>4, <1>5, <2>2 DEF Field
    <3>2. state # Idle
      BY <1>0, IdleIsParser
    <3>3. QED
      BY <1>0, <3>1, <3>2 DEF ParserOK
  <2>3. QED
    BY <1>6, <2>1, <2>2
<1>8. Args(b)[1] = state.vals[1]
  BY <1>3, <1>5, <1>6 DEF Args
<1>9. out'.raised = {<<Args(b)[1], IF Field = "Value" THEN FieldValue(b) ELSE 0>>}
  BY DEF FinishRaise, Raised
<1>10. QED
  BY <1>1, <1>7, <1>8, <1>9

RaiseStep == \A e \in out'.raised : out' # out => connected /\ Known("event", e[1])

LEMMA NextRaises ==
  ASSUME IInv, [Next]_vars
  PROVE  RaiseStep
<1>1. ASSUME NEW b \in Bytes, ProcessCommand(b)
      PROVE  NothingRaised
  BY <1>1, NotRaised DEF ProcessCommand, CommandFromStranger, ProcessReset, ProcessReturn,
     ServeReturn, ProcessArguments, UnknownCommand
<1>2. ASSUME NEW b \in Bytes, ProcessField(b), ~(FinishCommand(b) /\ FinishRaise(b))
      PROVE  NothingRaised
  <2>1. CASE FinishCommand(b)
    BY <1>2, <2>1, NotRaised DEF FinishCommand, Connect, FinishReturn, FinishPing,
       FinishAdd, FinishRemove
  <2>2. CASE ~FinishCommand(b)
    BY <1>2, <2>2, NotRaised DEF ProcessField, ReadPart, AbsorbReset, RejectField, NextField
  <2>3. QED
    BY <2>1, <2>2
<1>3. CASE PeerSends
  <2>1. PICK b \in Bytes : ProcessCommand(b) \/ ProcessField(b)
    BY <1>3 DEF PeerSends, DataReceived
  <2>2. CASE FinishCommand(b) /\ FinishRaise(b)
    BY <2>2, RaisedIsKnown DEF FinishCommand, RaiseStep
  <2>3. CASE ~(FinishCommand(b) /\ FinishRaise(b))
    BY <1>1, <1>2, <2>1, <2>3 DEF NothingRaised, RaiseStep
  <2>4. QED
    BY <2>2, <2>3
<1>4. CASE ShetCalls
  <2>1. NothingRaised
    <3>1. ASSUME NEW r, NEW bytes, NEW type, Ask(r, bytes, type)
          PROVE  NothingRaised
      BY <3>1, NotRaised DEF Ask
    <3>2. ASSUME NEW o, NEW r \in Requests, OnGetProperty(o, r) PROVE NothingRaised
      BY <3>1, <3>2 DEF OnGetProperty
    <3>3. ASSUME NEW o, NEW r \in Requests, NEW v, OnAction(o, r, v) PROVE NothingRaised
      BY <3>1, <3>3 DEF OnAction
    <3>4. ASSUME NEW o, NEW v, OnSetProperty(o, v) PROVE NothingRaised
      BY <3>4, NotRaised DEF OnSetProperty
    <3>5. CASE \E o \in Callable("property"), r \in Requests : OnGetProperty(o, r)
      BY <3>2, <3>5
    <3>6. CASE \E o \in Callable("property") : \E v \in ValuesFor(o.arg) : OnSetProperty(o, v)
      BY <3>4, <3>6
    <3>7. CASE \E o \in Callable("action"), r \in Requests : \E v \in ValuesFor(o.arg) :
                  OnAction(o, r, v)
      BY <3>3, <3>7
    <3>8. QED
      BY <1>4, <3>5, <3>6, <3>7 DEF ShetCalls
  <2>2. QED
    BY <2>1 DEF NothingRaised, RaiseStep
<1>5. CASE MakeConnection \/ ConnectionLost \/ InactivityTimeout \/ Tick \/ UNCHANGED vars
  <2>1. NothingRaised
    <3>1. CASE MakeConnection \/ ConnectionLost \/ InactivityTimeout
      BY <3>1, NotRaised DEF MakeConnection, ConnectionLost, InactivityTimeout
    <3>2. CASE Tick \/ UNCHANGED vars
      BY <3>2 DEF Tick, vars, NothingRaised, Silent
    <3>3. QED
      BY <1>5, <3>1, <3>2
  <2>2. QED
    BY <2>1 DEF NothingRaised, RaiseStep
<1>6. QED
  BY <1>3, <1>4, <1>5 DEF Next

(* An event raised on SHET is one the device registered over this link:    *)
(* what process_raise_event looked up before it read the value is still    *)
(* there when the last byte of the value has come.                         *)
THEOREM RaisesRegistered == Spec => RaisedIsRegistered
<1>1. IInv /\ [Next]_vars => [RaiseStep]_vars
  BY NextRaises
<1>2. QED
  BY <1>1, Invariance, PTL DEF Spec, RaisedIsRegistered, RaiseStep

-----------------------------------------------------------------------------
(***************************************************************************)
(* A Deferred is forgotten only while a RETURN holds it.                   *)
(***************************************************************************)
ForgetStep ==
    \A r \in Requests : Forgotten(r)' /\ ~Forgotten(r) =>
        r \in Popped /\ connected /\ ~connected'

LEMMA QueueAndHandlerStay ==
  ASSUME UNCHANGED <<deferred_returns, call>>, state'.popped = state.popped
  PROVE  ForgetStep
BY DEF ForgetStep, Forgotten, Queued, Popped

LEMMA NoneHeld ==
  ASSUME IInv, state.cmd # COMMAND_RETURN
  PROVE  state.popped = <<>>
BY InvParts, PendingFacts

LEMMA StillIdle ==
  ASSUME IInv, state.cmd # COMMAND_RETURN, UNCHANGED <<deferred_returns, call>>,
         state'.popped = <<>>
  PROVE  ForgetStep
BY NoneHeld, QueueAndHandlerStay

LEMMA IdlePopped ==
  /\ Idle.popped = <<>>
  /\ \A c, ds : Reading(c, ds).popped = ds
BY DEF Idle, Reading

LEMMA DisconnectForgets ==
  ASSUME IInv, connected, OnDisconnect
  PROVE  ForgetStep
<1>1. SUFFICES ASSUME NEW r \in Requests, Forgotten(r)', ~Forgotten(r)
               PROVE  r \in Popped /\ connected /\ ~connected'
  BY DEF ForgetStep
<1>2. r \notin Queued
  BY <1>1 DEF OnDisconnect, Forgotten
<1>3. call[r].status = "waiting"
  BY <1>1, <1>2 DEF OnDisconnect, Forgotten
<1>4. QED
  BY <1>1, <1>2, <1>3 DEF OnDisconnect, Forgotten

LEMMA MalformedForgets ==
  ASSUME IInv, OnMalformedCommand
  PROVE  ForgetStep
<1>1. CASE connected
  BY <1>1, DisconnectForgets DEF OnMalformedCommand
<1>2. CASE ~connected
  <2>1. state.cmd # COMMAND_RETURN
    BY <1>2, InvParts DEF LinkOK, NoCommand, COMMAND_RESET, COMMAND_RETURN
  <2>2. QED
    BY <1>2, <2>1, StillIdle, IdlePopped DEF OnMalformedCommand
<1>3. QED
  BY <1>1, <1>2

LEMMA ReturnForgets ==
  ASSUME IInv, NEW b, ProcessReturn(b)
  PROVE  ForgetStep
<1>0. TypeOK /\ deferred_returns \in Seq(Deferreds)
  BY InvParts DEF TypeOK
<1>1. CASE deferred_returns = <<>>
  BY <1>1, MalformedForgets DEF ProcessReturn
<1>2. CASE deferred_returns # <<>>
  <2> DEFINE d == Head(deferred_returns)
  <2>1. d \in Deferreds /\ deferred_returns' = Tail(deferred_returns) /\ ServeReturn(b, d)
    BY <1>0, <1>2 DEF ProcessReturn
  <2>2. \A q \in Range(deferred_returns) : q = d \/ q \in Range(Tail(deferred_returns))
    BY <1>0, <1>2, HeadOrTail
  <2> HIDE DEF d
  <2>3. ASSUME NEW r \in Requests, r \in Queued PROVE r = d.req \/ r \in Queued'
    BY <2>1, <2>2, <2>3 DEF Queued
  <2>4. state.popped = <<>>
    BY NoneHeld DEF ProcessReturn, NoCommand, COMMAND_RETURN
  <2>5. Popped = {}
    BY <2>4 DEF Popped, Range
  <2>6. CASE d.return_type = "Void"
    <3>1. call' = [call EXCEPT ![d.req] = [status |-> "answered", value |-> 0]]
      BY <2>1, <2>6 DEF ServeReturn, Answer
    <3>2. \A r \in Requests : /\ call'[r].status = "waiting" => r # d.req
                              /\ r # d.req => call'[r] = call[r]
      BY <1>0, <3>1 DEF TypeOK
    <3>3. QED
      BY <2>3, <2>5, <3>2 DEF ForgetStep, Forgotten
  <2>7. CASE d.return_type # "Void"
    <3>1. call' = call /\ state'.popped = <<d>>
      BY <2>1, <2>7, IdlePopped DEF ServeReturn
    <3>2. d.req \in Popped'
      <4>1. d \in Range(<<d>>)
        BY DEF Range
      <4>2. QED
        BY <3>1, <4>1 DEF Popped
    <3>3. QED
      BY <2>3, <2>5, <3>1, <3>2 DEF ForgetStep, Forgotten
  <2>8. QED
    BY <2>6, <2>7
<1>3. QED
  BY <1>1, <1>2

LEMMA AskForgets ==
  ASSUME IInv, NEW r \in Requests, NEW bytes, NEW type, Ask(r, bytes, type)
  PROVE  ForgetStep
<1>0. TypeOK /\ deferred_returns \in Seq(Deferreds)
  BY InvParts DEF TypeOK
<1> DEFINE d == [req |-> r, return_type |-> type]
<1>1. /\ deferred_returns' = Append(deferred_returns, d) /\ state' = state
      /\ \A q \in Requests : q # r => call'[q] = call[q]
  BY <1>0 DEF Ask, TypeOK
<1>2. d.req = r
  OBVIOUS
<1> HIDE DEF d
<1>3. Range(deferred_returns) \cup {d} \subseteq Range(Append(deferred_returns, d))
  BY <1>0, AppendKeeps
<1>4. r \in Queued' /\ Queued \subseteq Queued'
  BY <1>1, <1>2, <1>3 DEF Queued
<1>5. Popped' = Popped
  BY <1>1 DEF Popped
<1>6. QED
  BY <1>1, <1>4, <1>5 DEF ForgetStep, Forgotten

LEMMA CommandForgets ==
  ASSUME IInv, NEW b, ProcessCommand(b)
  PROVE  ForgetStep
<1>1. CASE CommandFromStranger(b)
  BY <1>1, QueueAndHandlerStay DEF CommandFromStranger
<1>2. CASE ProcessReset(b)
  <2>1. CASE connected
    BY <1>2, <2>1, DisconnectForgets DEF ProcessReset
  <2>2. CASE ~connected
    BY <1>2, <2>2, StillIdle, IdlePopped DEF ProcessReset, NoCommand, COMMAND_RETURN
  <2>3. QED
    BY <2>1, <2>2
<1>3. CASE ProcessReturn(b)
  BY <1>3, ReturnForgets
<1>4. CASE ProcessArguments(b)
  BY <1>4, StillIdle, IdlePopped DEF ProcessArguments, NoCommand, COMMAND_RETURN
<1>5. CASE UnknownCommand(b)
  BY <1>5, MalformedForgets DEF UnknownCommand
<1>6. QED
  BY <1>1, <1>2, <1>3, <1>4, <1>5 DEF ProcessCommand

LEMMA ReturnFinished ==
  ASSUME IInv, NEW b, FinishReturn(b)
  PROVE  ForgetStep
<1>0. TypeOK /\ Len(state.popped) = 1
  BY InvParts, PendingFacts DEF FinishReturn
<1>1. Popped = {state.popped[1].req}
  <2>1. DOMAIN state.popped = {1}
    BY <1>0, PendingFacts, InvParts
  <2>2. QED
    BY <2>1 DEF Popped, Range
<1>2. \A r \in Requests : /\ call'[r].status = "waiting" => r # state.popped[1].req
                          /\ r # state.popped[1].req => call'[r] = call[r]
  BY <1>0 DEF FinishReturn, Answer, TypeOK
<1>3. Queued' = Queued
  BY DEF FinishReturn, Queued
<1>4. QED
  BY <1>1, <1>2, <1>3 DEF ForgetStep, Forgotten

LEMMA FinishForgets ==
  ASSUME IInv, NEW b, FinishCommand(b)
  PROVE  ForgetStep
<1>1. CASE FinishReturn(b)
  BY <1>1, ReturnFinished
<1>2. CASE OnMalformedCommand
  BY <1>2, MalformedForgets
<1>3. CASE ~FinishReturn(b) /\ ~OnMalformedCommand
  <2>1. state.cmd # COMMAND_RETURN
    BY <1>3 DEF FinishCommand, Connect, FinishPing, FinishAdd, FinishRemove, FinishRaise,
       AddCommands, RemoveCommands, COMMAND_RESET, COMMAND_PING, COMMAND_ADD_ACTION,
       COMMAND_ADD_EVENT, COMMAND_ADD_PROPERTY, COMMAND_REMOVE_ACTION,
       COMMAND_REMOVE_EVENT, COMMAND_REMOVE_PROPERTY, COMMAND_RAISE_EVENT, COMMAND_RETURN
  <2>2. state' = Idle /\ UNCHANGED <<deferred_returns, call>>
    BY <1>3 DEF FinishCommand, Connect, FinishPing, FinishAdd, FinishRemove, FinishRaise
  <2>3. QED
    BY <2>1, <2>2, StillIdle, IdlePopped
<1>4. QED
  BY <1>1, <1>2, <1>3

LEMMA FieldForgets ==
  ASSUME IInv, NEW b \in Bytes, ProcessField(b)
  PROVE  ForgetStep
<1>0. TypeOK /\ state \in Parsers
  BY InvParts DEF TypeOK
<1>1. CASE ReadPart(b)
  BY <1>0, <1>1, QueueAndHandlerStay DEF ReadPart, Parsers
<1>2. CASE AbsorbReset(b)
  BY <1>0, <1>2, QueueAndHandlerStay, MalformedForgets DEF AbsorbReset, Parsers
<1>3. CASE RejectField(b)
  BY <1>3, MalformedForgets DEF RejectField
<1>4. CASE NextField(b)
  BY <1>0, <1>4, QueueAndHandlerStay DEF NextField, Parsers
<1>5. CASE FinishCommand(b)
  BY <1>5, FinishForgets
<1>6. QED
  BY <1>1, <1>2, <1>3, <1>4, <1>5 DEF ProcessField

LEMMA NextForgets ==
  ASSUME IInv, [Next]_vars
  PROVE  ForgetStep
<1>1. CASE MakeConnection
  BY <1>1, QueueAndHandlerStay DEF MakeConnection
<1>2. CASE PeerSends
  BY <1>2, CommandForgets, FieldForgets DEF PeerSends, DataReceived
<1>3. CASE ConnectionLost
  BY <1>3, DisconnectForgets, QueueAndHandlerStay DEF ConnectionLost
<1>4. CASE ShetCalls
  <2>1. ASSUME NEW o \in Callable("property"), NEW r \in Requests, OnGetProperty(o, r)
        PROVE  ForgetStep
    BY <2>1, AskForgets DEF OnGetProperty
  <2>2. ASSUME NEW o \in Callable("property"), NEW v \in ValuesFor(o.arg), OnSetProperty(o, v)
        PROVE  ForgetStep
    BY <2>2, QueueAndHandlerStay DEF OnSetProperty
  <2>3. ASSUME NEW o \in Callable("action"), NEW r \in Requests, NEW v \in ValuesFor(o.arg),
               OnAction(o, r, v)
        PROVE  ForgetStep
    BY <2>3, AskForgets DEF OnAction
  <2>4. QED
    BY <1>4, <2>1, <2>2, <2>3 DEF ShetCalls
<1>5. CASE InactivityTimeout
  <2>1. connected
    BY <1>5, InvParts DEF InactivityTimeout, LinkOK, NoTimer
  <2>2. QED
    BY <1>5, <2>1, DisconnectForgets DEF InactivityTimeout
<1>6. CASE Tick
  BY <1>6, QueueAndHandlerStay DEF Tick
<1>7. CASE UNCHANGED vars
  BY <1>7, QueueAndHandlerStay DEF vars
<1>8. QED
  BY <1>1, <1>2, <1>3, <1>4, <1>5, <1>6, <1>7 DEF Next

(* A request SHET waits for is lost in one way only: the link goes down    *)
(* after the RETURN byte has taken its Deferred from the queue and before  *)
(* the value has come (process_return pops first, _on_disconnect fails     *)
(* what is queued).                                                        *)
THEOREM LostOnlyMidReturn == Spec => ForgottenOnlyMidReturn
<1>1. IInv /\ [Next]_vars => [ForgetStep]_vars
  BY NextForgets
<1>2. QED
  BY <1>1, Invariance, PTL DEF Spec, ForgottenOnlyMidReturn, ForgetStep

-----------------------------------------------------------------------------
(***************************************************************************)
(* The zeros of a reset get any handler to process_reset.                  *)
(***************************************************************************)

(* In the middle of the fields of a handler, at least two zeros are to go; *)
(* and never more than nine.                                               *)
LEMMA ZerosInField ==
  ASSUME TypeOK, ParserOK, state.cmd # NoCommand, Field # "Byte"
  PROVE  \E n \in 1 .. 4, p \in 0 .. 1, z \in 2 .. 9 :
            /\ n = Len(Signature(state.cmd)) - Len(state.vals)
            /\ p = (IF SubFsm = "Integer" THEN Len(state.part) ELSE 0)
            /\ z = ZerosToReset
            /\ z = 1 + 2 * n - p
<1>1. /\ state.cmd \in FieldCommands
      /\ Len(state.vals) + 1 \in 1 .. Len(Signature(state.cmd))
      /\ state.part \in Seq(Bytes)
  BY ReadingFacts
<1>2. PICK v \in Nat : v = Len(state.vals)
  BY ReadingFacts
<1>3. PICK l \in 1 .. 4 : l = Len(Signature(state.cmd))
  BY <1>1, SignatureType
<1>4. PICK m \in Nat : m = Len(state.part)
  BY <1>1, LenProperties
<1>5. SubFsm = "Integer" => m <= 1
  <2>1. state # Idle
    BY IdleIsParser
  <2>2. QED
    BY <1>4, <2>1 DEF ParserOK
<1>6. l - v \in 1 .. 4
  <2>1. v + 1 \in 1 .. l
    BY <1>1, <1>2, <1>3
  <2>2. QED
    BY <2>1
<1>7. PICK p \in 0 .. 1 : p = (IF SubFsm = "Integer" THEN Len(state.part) ELSE 0)
  <2>1. 0 \in 0 .. 1 /\ (m <= 1 => m \in 0 .. 1)
    OBVIOUS
  <2>2. QED
    BY <1>4, <1>5, <2>1, Zenon
<1>8. PICK z \in 2 .. 9 : z = 1 + 2 * (l - v) - p
  <2>1. \A n \in 1 .. 4, q \in 0 .. 1 : 1 + 2 * n - q \in 2 .. 9
    OBVIOUS
  <2>2. QED
    BY <1>6, <2>1, Zenon
<1>9. ZerosToReset = 1 + 2 * (l - v) - p
  BY <1>2, <1>3, <1>7 DEF ZerosToReset
<1>10. QED
  BY <1>2, <1>3, <1>6, <1>7, <1>8, <1>9, Zenon

LEMMA ZerosBounded ==
  ASSUME IInv
  PROVE  ZerosToReset < LENGTH_OF_RESET_COMMAND
<1>0. TypeOK /\ ParserOK
  BY InvParts
<1>1. CASE state.cmd = NoCommand
  BY <1>1 DEF ZerosToReset, LENGTH_OF_RESET_COMMAND
<1>2. CASE state.cmd # NoCommand /\ Field = "Byte"
  <2>1. state.cmd = COMMAND_RESET
    BY <1>0, <1>2, ValueFields
  <2>2. ZerosToReset = 0
    BY <1>2, <2>1 DEF ZerosToReset
  <2>3. QED
    BY <2>2 DEF LENGTH_OF_RESET_COMMAND
<1>3. CASE state.cmd # NoCommand /\ Field # "Byte"
  <2>1. PICK z \in 2 .. 9 : z = ZerosToReset
    BY <1>0, <1>3, ZerosInField
  <2>2. z < 10
    OBVIOUS
  <2>3. QED
    BY <2>1, <2>2, Zenon DEF LENGTH_OF_RESET_COMMAND
<1>4. QED
  BY <1>1, <1>2, <1>3

LEMMA IdleZeros ==
  state' = Idle => ZerosToReset' = 1
BY IdleIsParser DEF ZerosToReset

LEMMA CommandNearer ==
  ASSUME IInv, state.cmd = NoCommand, DataReceived(COMMAND_RESET)
  PROVE  ZerosToReset' < ZerosToReset
<1>1. ProcessReset(COMMAND_RESET)
  BY DEF DataReceived, ProcessField, ProcessCommand, CommandFromStranger, ProcessReturn,
     ProcessArguments, UnknownCommand, ArgumentCommands, AddCommands, RemoveCommands,
     COMMAND_RESET, COMMAND_PING, COMMAND_ADD_ACTION, COMMAND_ADD_EVENT,
     COMMAND_ADD_PROPERTY, COMMAND_REMOVE_ACTION, COMMAND_REMOVE_EVENT,
     COMMAND_REMOVE_PROPERTY, COMMAND_RAISE_EVENT, COMMAND_RETURN
<1>2. state' = Reading(COMMAND_RESET, <<>>)
  BY <1>1 DEF ProcessReset
<1>3. state'.cmd = COMMAND_RESET /\ Len(state'.vals) = 0 /\ COMMAND_RESET # NoCommand
  BY <1>2 DEF Reading, NoCommand, COMMAND_RESET
<1>4. Signature(COMMAND_RESET)[1] = "Byte"
  BY SignatureCases DEF FieldCommands
<1>5. Field' = "Byte"
  BY <1>3, <1>4 DEF Field
<1>6. ZerosToReset' = 0 /\ ZerosToReset = 1
  BY <1>3, <1>5 DEF ZerosToReset
<1>7. QED
  BY <1>6

LEMMA ResetAbsorbed ==
  ASSUME IInv, state.cmd # NoCommand, Field = "Byte", DataReceived(COMMAND_RESET)
  PROVE  ZerosToReset = 0 /\ ZerosToReset' = 0
<1>0. TypeOK /\ ParserOK
  BY InvParts
<1>1. state.cmd = COMMAND_RESET
  BY <1>0, ValueFields
<1>2. SubFsm = "Byte" /\ COMMAND_RESET \in Bytes
  BY <1>0, SubFsmType, CommandsAreBytes DEF FieldCommands
<1>3. ProcessField(COMMAND_RESET)
  BY DEF DataReceived, ProcessCommand, CommandFromStranger, ProcessReset, ProcessReturn,
     ProcessArguments, UnknownCommand
<1>4. ~ReadPart(COMMAND_RESET) /\ ~NextField(COMMAND_RESET)
  BY <1>2 DEF ReadPart, EndsField, NextField
<1>5. ~RejectField(COMMAND_RESET)
  BY <1>1, <1>2 DEF RejectField, BadField, COMMAND_RESET, COMMAND_RAISE_EVENT
<1>6. ~FinishCommand(COMMAND_RESET)
  BY <1>0, <1>2, LastFieldFacts DEF FinishCommand
<1>7. AbsorbReset(COMMAND_RESET)
  BY <1>3, <1>4, <1>5, <1>6 DEF ProcessField
<1>8. state' = state
  BY <1>7 DEF AbsorbReset
<1>9. ZerosToReset = 0
  BY <1>1 DEF ZerosToReset
<1>10. ZerosToReset' = ZerosToReset
  BY <1>8 DEF ZerosToReset, Field, SubFsm
<1>11. QED
  BY <1>9, <1>10

LEMMA FieldNearer ==
  ASSUME IInv, state.cmd # NoCommand, Field # "Byte", DataReceived(COMMAND_RESET)
  PROVE  ZerosToReset' < ZerosToReset
<1>0. /\ TypeOK /\ ParserOK /\ state \in Parsers
      /\ COMMAND_RESET \in Bytes /\ COMMAND_RESET = 0
  BY InvParts, CommandsAreBytes DEF FieldCommands, TypeOK, COMMAND_RESET
<1>1. PICK n \in 1 .. 4, p \in 0 .. 1, z \in 2 .. 9 :
         /\ n = Len(Signature(state.cmd)) - Len(state.vals)
         /\ p = (IF SubFsm = "Integer" THEN Len(state.part) ELSE 0)
         /\ z = ZerosToReset
         /\ z = 1 + 2 * n - p
  BY <1>0, ZerosInField
<1>2. state' = Idle => ZerosToReset' < ZerosToReset
  <2>1. 1 < z
    OBVIOUS
  <2>2. QED
    BY <1>1, <2>1, IdleZeros, Zenon
<1>3. ProcessField(COMMAND_RESET)
  BY DEF DataReceived, ProcessCommand, CommandFromStranger, ProcessReset, ProcessReturn,
     ProcessArguments, UnknownCommand
<1>4. CASE ReadPart(COMMAND_RESET)
  <2>1. SubFsm = "Integer" /\ state.part = <<>>
    BY <1>0, <1>4 DEF ReadPart, EndsField
  <2>2. state' = [state EXCEPT !.part = <<COMMAND_RESET>>]
    BY <1>4, <2>1 DEF ReadPart
  <2>3. /\ state'.cmd = state.cmd /\ state'.vals = state.vals
        /\ state'.popped = state.popped /\ state'.part = <<COMMAND_RESET>>
    BY <1>0, <2>2 DEF Parsers
  <2>4. Field' = Field
    BY <2>3 DEF Field
  <2>5. SubFsm' = SubFsm
    BY <2>3, <2>4 DEF SubFsm
  <2>6. Len(state'.part) = 1 /\ p = 0
    BY <1>1, <2>1, <2>3
  <2>7. ZerosToReset' = 1 + 2 * n - 1
    BY <1>1, <2>1, <2>3, <2>4, <2>5, <2>6 DEF ZerosToReset
  <2>8. p = 0 /\ z = 1 + 2 * n - p => 1 + 2 * n - 1 < z
    OBVIOUS
  <2>9. QED
    BY <1>1, <2>6, <2>7, <2>8, Zenon
<1>5. CASE AbsorbReset(COMMAND_RESET)
  BY <1>5 DEF AbsorbReset
<1>6. CASE RejectField(COMMAND_RESET)
  BY <1>2, <1>6 DEF RejectField, OnMalformedCommand
<1>7. CASE NextField(COMMAND_RESET)
  <2>1. EndsField(COMMAND_RESET) /\ ~BadField(COMMAND_RESET)
    BY <1>7 DEF NextField
  <2>2. PICK v \in Nat : v = Len(state.vals)
    BY <1>0, ReadingFacts
  <2>3. PICK w \in Nat : w = Len(Args(COMMAND_RESET)) /\ w = v + 1
    BY <1>0, <2>1, <2>2, ArgsType
  <2>4. /\ state'.cmd = state.cmd /\ state'.part = <<>>
        /\ state'.vals = Args(COMMAND_RESET)
    BY <1>0, <1>7 DEF NextField, Parsers
  <2>5. Len(state'.vals) = w /\ Len(state'.part) = 0
    BY <2>3, <2>4
  <2>6. PICK l \in 1 .. 4 : l = Len(Signature(state.cmd))
    BY <1>0, ReadingFacts, SignatureType
  <2>7. ZerosToReset' = 0 \/ ZerosToReset' = 1 + 2 * (l - w)
    BY <2>4, <2>5, <2>6 DEF ZerosToReset
  <2>8. n = l - v
    BY <1>1, <2>2, <2>6, Zenon
  <2>9. w = v + 1 /\ n = l - v /\ z = 1 + 2 * n - p => 0 < z /\ 1 + 2 * (l - w) < z
    OBVIOUS
  <2>10. QED
    BY <1>1, <2>3, <2>7, <2>8, <2>9, Zenon
<1>8. CASE FinishCommand(COMMAND_RESET)
  <2>1. state' = Idle
    BY <1>8 DEF FinishCommand, Connect, FinishReturn, FinishPing, FinishAdd, FinishRemove,
       FinishRaise, OnMalformedCommand
  <2>2. QED
    BY <1>2, <2>1
<1>9. QED
  BY <1>3, <1>4, <1>5, <1>6, <1>7, <1>8 DEF ProcessField

ZeroStep ==
    DataReceived(COMMAND_RESET) =>
        \/ ZerosToReset' < ZerosToReset
        \/ ZerosToReset = 0 /\ ZerosToReset' = 0

(* A device that resets is understood, whatever was being parsed: each     *)
(* leading zero of its reset (LENGTH_OF_RESET_COMMAND of                   *)
(* SHETSource_Client.h) brings every handler nearer to process_reset, and  *)
(* no handler needs as many as there are.                                  *)
THEOREM ZerosReset == Spec => Resynchronises
<1>1. IInv => ZerosToReset < LENGTH_OF_RESET_COMMAND
  BY ZerosBounded
<1>2. IInv => ZeroStep
  BY CommandNearer, ResetAbsorbed, FieldNearer DEF ZeroStep
<1>3. IInv /\ [Next]_vars => [ZeroStep]_vars
  BY <1>2
<1>4. QED
  BY <1>1, <1>3, Invariance, PTL DEF Spec, Resynchronises, ZeroStep

=============================================================================
