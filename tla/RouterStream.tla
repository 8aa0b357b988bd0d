---------------------------- MODULE RouterStream ----------------------------
(***************************************************************************)
(* What the router makes of the bytes of one device, whatever was lost of  *)
(* them and wherever the router was.                                       *)
(*                                                                         *)
(* The device sends a reset of RESET_LENGTH zeros, which announces one     *)
(* action in slot 0 that takes and returns an int, and then pings and      *)
(* answers.  It may be switched off at any byte, and then begins with the  *)
(* zeros again.  A place is where in this stream the next byte is sent     *)
(* from; RouterAt(p) says what the router is in the middle of when the     *)
(* next byte it is to parse was sent from p.                               *)
(***************************************************************************)
EXTENDS RouterClientSteps

CONSTANT RESET_LENGTH

-----------------------------------------------------------------------------
(***************************************************************************)
(* The stream.                                                             *)
(***************************************************************************)

(* The places at the start of a field, or of a command.                    *)
Starts == {"id", "name", "name2", "add", "slot", "slot2", "path", "path2",
           "returns", "takes", "command", "ping", "answer"}

(* In the middle of an int the place has its first byte.                   *)
Middles == {"id2", "ping2", "answer2"}

Places == ({"zeros"} \X (0 .. RESET_LENGTH)) \cup (Starts \X {0})
              \cup (Middles \X Bytes)

Zeros(k) == <<"zeros", k>>
Start(s) == <<s, 0>>

(* The ints that parse as a reset and its end.                             *)
LooksLikeReset(lo, hi) == lo = COMMAND_RESET /\ hi = END_OF_RESET

(* From p the device sends b, and is then at q.                            *)
Sends(p, b, q) ==
    \/ \E k \in 0 .. RESET_LENGTH : /\ p = Zeros(k) /\ k # RESET_LENGTH
                                    /\ b = COMMAND_RESET /\ q = Zeros(k + 1)
    \/ p = Zeros(RESET_LENGTH) /\ b = END_OF_RESET /\ q = Start("id")
    \/ p = Start("id") /\ q = <<"id2", b>>
    \/ p[1] = "id2" /\ ~LooksLikeReset(p[2], b) /\ q = Start("name")
    \/ p = Start("name") /\ b = 97 /\ q = Start("name2")
    \/ p = Start("name2") /\ b = 0 /\ q = Start("add")
    \/ p = Start("add") /\ b = COMMAND_ADD_ACTION /\ q = Start("slot")
    \/ p = Start("slot") /\ b = 0 /\ q = Start("slot2")
    \/ p = Start("slot2") /\ b = 0 /\ q = Start("path")
    \/ p = Start("path") /\ b = 97 /\ q = Start("path2")
    \/ p = Start("path2") /\ b = 0 /\ q = Start("returns")
    \/ p = Start("returns") /\ b = 1 /\ q = Start("takes")
    \/ p = Start("takes") /\ b = 1 /\ q = Start("command")
    \/ p = Start("command") /\ b = COMMAND_PING /\ q = Start("ping")
    \/ p = Start("command") /\ b = COMMAND_RETURN /\ q = Start("answer")
    \/ p = Start("ping") /\ q = <<"ping2", b>>
    \/ p = Start("answer") /\ q = <<"answer2", b>>
    \/ p[1] = "ping2" /\ ~LooksLikeReset(p[2], b) /\ q = Start("command")
    \/ p[1] = "answer2" /\ ~LooksLikeReset(p[2], b) /\ q = Start("command")

-----------------------------------------------------------------------------
(***************************************************************************)
(* The router in the middle of it.                                         *)
(***************************************************************************)

Reader(c, vals, part) ==
    [cmd |-> c, vals |-> vals, part |-> part, popped |-> <<>>]

(* It ignores everything but a reset, or absorbs the zeros of one.         *)
Deaf      == ~connected /\ state = Idle
Absorbing == ~connected /\ state = Reader(COMMAND_RESET, <<>>, <<>>)

(* Where absorbing zeros cannot end in the middle of another field.        *)
AbsorbsAt(p) ==
    /\ p[1] \notin {"id", "ping", "answer"}
    /\ p[1] \in Middles => p[2] = 0

Announced == {[kind |-> "action", id |-> 0, arg |-> "Integer", ret |-> "Integer"]}

(* It follows the device.                                                  *)
Resetting(vals, part) ==
    ~connected /\ state = Reader(COMMAND_RESET, vals, part)
Adding(vals, part) ==
    connected /\ registry = {} /\ state = Reader(COMMAND_ADD_ACTION, vals, part)
Linked(s) == connected /\ registry = Announced /\ state = s
Returning(part) ==
    \E d \in Deferreds :
        /\ d.return_type = "Integer"
        /\ Linked([cmd |-> COMMAND_RETURN, vals |-> <<>>, part |-> part,
                   popped |-> <<d>>])

Follows(p) ==
    CASE p[1] = "id"      -> Resetting(<<END_OF_RESET>>, <<>>)
      [] p[1] = "id2"     -> Resetting(<<END_OF_RESET>>, <<p[2]>>)
      [] p[1] = "name"    -> \E i \in Int16 : Resetting(<<END_OF_RESET, i>>, <<>>)
      [] p[1] = "name2"   -> \E i \in Int16 : Resetting(<<END_OF_RESET, i>>, <<97>>)
      [] p[1] = "add"     -> connected /\ registry = {} /\ state = Idle
      [] p[1] = "slot"    -> Adding(<<>>, <<>>)
      [] p[1] = "slot2"   -> Adding(<<>>, <<0>>)
      [] p[1] = "path"    -> Adding(<<0>>, <<>>)
      [] p[1] = "path2"   -> Adding(<<0>>, <<97>>)
      [] p[1] = "returns" -> Adding(<<0, 97>>, <<>>)
      [] p[1] = "takes"   -> Adding(<<0, 97, 1>>, <<>>)
      [] p[1] = "command" -> Linked(Idle)
      [] p[1] = "ping"    -> Linked(Reader(COMMAND_PING, <<>>, <<>>))
      [] p[1] = "ping2"   -> Linked(Reader(COMMAND_PING, <<>>, <<p[2]>>))
      [] p[1] = "answer"  -> Returning(<<>>)
      [] p[1] = "answer2" -> Returning(<<p[2]>>)
      [] OTHER            -> FALSE

(* At the zeros it may be in the middle of anything, if the zeros to come  *)
(* are enough to get it out of there.                                      *)
EnoughZeros(p) == p[1] = "zeros" /\ ZerosToReset <= RESET_LENGTH - p[2]

IntegersAwaited ==
    \A i \in 1 .. Len(deferred_returns) : deferred_returns[i].return_type = "Integer"

RouterAt(p) ==
    /\ \/ Deaf
       \/ Absorbing /\ AbsorbsAt(p)
       \/ EnoughZeros(p)
       \/ Follows(p)
    /\ p[1] # "zeros" => IntegersAwaited
    /\ transport = "none" => p = Zeros(0) /\ state = Idle

(* What holds wherever it is: the few commands the stream can be taken     *)
(* for, and the objects they can announce.                                 *)
Objects == [kind : {"action"}, id : {0}, arg : {"Void", "Integer"}, ret : {"Void", "Integer"}]

AddsFirst ==
    /\ registry = {}
    /\ Len(state.vals) = 0 => state.part = <<>> \/ state.part = <<0>>
    /\ Len(state.vals) # 0 => state.vals[1] = 0
    /\ Len(state.vals) = 3 => state.vals[3] \in {0, 1}

Tame ==
    /\ leaked = {}
    /\ registry \subseteq Objects
    /\ ~connected => deferred_returns = <<>>
    /\ state.cmd \in {NoCommand, COMMAND_RESET, COMMAND_PING, COMMAND_ADD_ACTION,
                      COMMAND_RETURN}
    /\ state.cmd = COMMAND_ADD_ACTION => AddsFirst

-----------------------------------------------------------------------------
(***************************************************************************)
(* Sequences.                                                              *)
(***************************************************************************)
LEMMA AppendToNone ==
  ASSUME NEW x
  PROVE  Append(<<>>, x) = <<x>>
<1>1. Append(<<>>, x) \in Seq({x}) /\ <<x>> \in Seq({x})
  OBVIOUS
<1>2. Len(Append(<<>>, x)) = 1 /\ Len(<<x>>) = 1
  OBVIOUS
<1>3. \A i \in 1 .. 1 : Append(<<>>, x)[i] = <<x>>[i]
  OBVIOUS
<1>4. QED
  BY <1>1, <1>2, <1>3, SeqEqual

LEMMA AppendToOne ==
  ASSUME NEW x, NEW y
  PROVE  Append(<<x>>, y) = <<x, y>>
<1>1. Append(<<x>>, y) \in Seq({x, y}) /\ <<x, y>> \in Seq({x, y})
  OBVIOUS
<1>2. Len(Append(<<x>>, y)) = 2 /\ Len(<<x, y>>) = 2
  OBVIOUS
<1>3. \A i \in 1 .. 2 : Append(<<x>>, y)[i] = <<x, y>>[i]
  OBVIOUS
<1>4. QED
  BY <1>1, <1>2, <1>3, SeqEqual

LEMMA AppendToTwo ==
  ASSUME NEW x, NEW y, NEW z
  PROVE  Append(<<x, y>>, z) = <<x, y, z>>
<1>1. Append(<<x, y>>, z) \in Seq({x, y, z}) /\ <<x, y, z>> \in Seq({x, y, z})
  OBVIOUS
<1>2. Len(Append(<<x, y>>, z)) = 3 /\ Len(<<x, y, z>>) = 3
  OBVIOUS
<1>3. \A i \in 1 .. 3 : Append(<<x, y>>, z)[i] = <<x, y, z>>[i]
  OBVIOUS
<1>4. QED
  BY <1>1, <1>2, <1>3, SeqEqual

LEMMA AppendToThree ==
  ASSUME NEW x, NEW y, NEW z, NEW u
  PROVE  Append(<<x, y, z>>, u) = <<x, y, z, u>>
<1>1. /\ Append(<<x, y, z>>, u) \in Seq({x, y, z, u})
      /\ <<x, y, z, u>> \in Seq({x, y, z, u})
  OBVIOUS
<1>2. Len(Append(<<x, y, z>>, u)) = 4 /\ Len(<<x, y, z, u>>) = 4
  OBVIOUS
<1>3. \A i \in 1 .. 4 : Append(<<x, y, z>>, u)[i] = <<x, y, z, u>>[i]
  OBVIOUS
<1>4. QED
  BY <1>1, <1>2, <1>3, SeqEqual

-----------------------------------------------------------------------------
(***************************************************************************)
(* One byte.                                                               *)
(***************************************************************************)

(* Malformed or not, the link goes down and the parser is done.            *)
LEMMA MalformedIsDeaf ==
  ASSUME IInv, Tame, OnMalformedCommand
  PROVE  Deaf' /\ Tame' /\ deferred_returns' = <<>> /\ registry' = {}
<1>0. TypeOK /\ LinkOK
  BY InvParts
<1>1. connected' = FALSE /\ state' = Idle /\ leaked' = leaked
  BY <1>0 DEF OnMalformedCommand, OnDisconnect, LinkUnchanged, TypeOK
<1>2. deferred_returns' = <<>> /\ registry' = {}
  BY <1>0 DEF OnMalformedCommand, OnDisconnect, LinkOK, Tame
<1>3. Tame'
  BY <1>1, <1>2, IdleIsParser DEF Tame, NoCommand, COMMAND_ADD_ACTION
<1>4. QED
  BY <1>1, <1>2, <1>3 DEF Deaf

(* Whatever the byte: nothing is leaked while no object is added over      *)
(* another, and a link that is down has an empty queue.                    *)
LEMMA DataTame ==
  ASSUME IInv, Tame, NEW b \in Bytes, DataReceived(b)
  PROVE  leaked' = {} /\ (~connected' => deferred_returns' = <<>>)
<1>0. TypeOK /\ LinkOK
  BY InvParts
<1>1. CASE OnMalformedCommand
  BY <1>1, MalformedIsDeaf DEF Tame
<1>2. CASE ProcessCommand(b) /\ ~OnMalformedCommand
  <2>1. connected' = connected \/ (connected' = FALSE /\ deferred_returns' = <<>>)
    BY <1>2 DEF ProcessCommand, CommandFromStranger, ProcessReset, ProcessReturn,
       ServeReturn, ProcessArguments, UnknownCommand, LinkUnchanged, OnDisconnect
  <2>2. leaked' = leaked
    BY <1>2 DEF ProcessCommand, CommandFromStranger, ProcessReset, ProcessReturn,
       ServeReturn, ProcessArguments, UnknownCommand, LinkUnchanged, OnDisconnect
  <2>3. ~connected => deferred_returns' = deferred_returns
    BY <1>2 DEF ProcessCommand, CommandFromStranger, ProcessReset, ProcessReturn,
       ProcessArguments, UnknownCommand
  <2>4. QED
    BY <2>1, <2>2, <2>3 DEF Tame
<1>3. CASE ProcessField(b) /\ ~OnMalformedCommand
  <2>1. connected' = connected \/ connected' = TRUE
    BY <1>3 DEF ProcessField, ReadPart, AbsorbReset, RejectField, NextField, FinishCommand,
       Connect, FinishReturn, FinishPing, FinishAdd, FinishRemove, FinishRaise, LinkUnchanged
  <2>2. deferred_returns' = deferred_returns
    BY <1>3 DEF ProcessField, ReadPart, AbsorbReset, RejectField, NextField, FinishCommand,
       Connect, FinishReturn, FinishPing, FinishAdd, FinishRemove, FinishRaise
  <2>3. leaked' = leaked
    <3>1. CASE FinishAdd(b)
      <4>1. state.cmd = COMMAND_ADD_ACTION
        BY <3>1 DEF FinishAdd, AddCommands, Tame, NoCommand, COMMAND_RESET, COMMAND_PING,
           COMMAND_ADD_ACTION, COMMAND_ADD_EVENT, COMMAND_ADD_PROPERTY, COMMAND_RETURN
      <4>2. registry = {}
        BY <4>1 DEF Tame, AddsFirst
      <4>3. QED
        BY <1>3, <3>1, <4>2 DEF FinishAdd
    <3>2. CASE ~FinishAdd(b)
      BY <1>3, <3>2 DEF ProcessField, ReadPart, AbsorbReset, RejectField, NextField,
         FinishCommand, Connect, FinishReturn, FinishPing, FinishRemove, FinishRaise,
         LinkUnchanged
    <3>3. QED
      BY <3>1, <3>2
  <2>4. QED
    BY <2>1, <2>2, <2>3 DEF Tame
<1>4. QED
  BY <1>1, <1>2, <1>3 DEF DataReceived

(* The first byte of a command.                                            *)
LEMMA CommandByte ==
  ASSUME state.cmd = NoCommand, NEW b \in Bytes, DataReceived(b)
  PROVE  ProcessCommand(b)
BY DEF DataReceived, ProcessField

(* A byte of a field is kept, ends the field, or ends the command.         *)
LEMMA FieldByte ==
  ASSUME TypeOK, ParserOK, state.cmd # NoCommand, Field # "Byte",
         NEW b \in Bytes, DataReceived(b), ~BadField(b)
  PROVE  /\ ~EndsField(b) => ReadPart(b)
         /\ EndsField(b) /\ ~EndsArguments(b) => NextField(b)
         /\ EndsField(b) /\ EndsArguments(b) => FinishCommand(b)
<1>1. ProcessField(b)
  BY DEF DataReceived, ProcessCommand, CommandFromStranger, ProcessReset, ProcessReturn,
     ProcessArguments, UnknownCommand
<1>2. ~AbsorbReset(b)
  BY DEF AbsorbReset
<1>3. QED
  BY <1>1, <1>2 DEF ProcessField, ReadPart, RejectField, NextField, FinishCommand, LastField

LEMMA IdleReader ==
  /\ Idle = Reader(NoCommand, <<>>, <<>>)
  /\ \A c : Reading(c, <<>>) = Reader(c, <<>>, <<>>)
  /\ \A c, v, t : /\ Reader(c, v, t).cmd = c /\ Reader(c, v, t).vals = v
                  /\ Reader(c, v, t).part = t /\ Reader(c, v, t).popped = <<>>
BY DEF Idle, Reader, Reading

(* A router that ignores the device is roused by a zero only.              *)
LEMMA DeafByte ==
  ASSUME IInv, Tame, Deaf, NEW b \in Bytes, DataReceived(b)
  PROVE  /\ b = COMMAND_RESET => Absorbing'
         /\ b # COMMAND_RESET => Deaf'
         /\ registry' = {} /\ deferred_returns' = <<>> /\ Tame'
<1>1. state.cmd = NoCommand /\ ~connected /\ registry = {} /\ deferred_returns = <<>>
  BY IdleIsParser, InvParts DEF Deaf, LinkOK, Tame
<1>2. CommandFromStranger(b) \/ ProcessReset(b)
  BY <1>1, CommandByte DEF ProcessCommand, ProcessReturn, ProcessArguments, UnknownCommand
<1>3. connected' = connected /\ registry' = {} /\ deferred_returns' = <<>> /\ leaked' = leaked
  BY <1>1, <1>2 DEF CommandFromStranger, ProcessReset, LinkUnchanged
<1>4. b = COMMAND_RESET => state' = Reader(COMMAND_RESET, <<>>, <<>>)
  BY <1>2, IdleReader DEF CommandFromStranger, ProcessReset
<1>5. b # COMMAND_RESET => state' = Idle
  BY <1>2 DEF CommandFromStranger, ProcessReset, Deaf
<1>6. state'.cmd \in {NoCommand, COMMAND_RESET}
  BY <1>4, <1>5, IdleReader
<1>7. Tame'
  BY <1>3, <1>6 DEF Tame, NoCommand, COMMAND_RESET, COMMAND_ADD_ACTION
<1>8. QED
  BY <1>1, <1>3, <1>4, <1>5, <1>7 DEF Deaf, Absorbing

LEMMA AbsorbingField ==
  ASSUME state = Reader(COMMAND_RESET, <<>>, <<>>)
  PROVE  state.cmd = COMMAND_RESET /\ state.cmd # NoCommand /\ Field = "Byte" /\ SubFsm = "Byte"
<1>1. state.cmd = COMMAND_RESET /\ Len(state.vals) = 0
  BY IdleReader
<1>2. Signature(COMMAND_RESET)[1] = "Byte"
  BY SignatureCases DEF FieldCommands
<1>3. Field = "Byte"
  BY <1>1, <1>2 DEF Field
<1>4. QED
  BY <1>1, <1>3 DEF SubFsm, COMMAND_RESET, NoCommand

(* One that absorbs zeros goes on to an end of the reset only.             *)
LEMMA AbsorbingByte ==
  ASSUME IInv, Tame, Absorbing, NEW b \in Bytes, DataReceived(b)
  PROVE  /\ b = COMMAND_RESET => Absorbing'
         /\ b = END_OF_RESET => Resetting(<<END_OF_RESET>>, <<>>)'
         /\ b \notin {COMMAND_RESET, END_OF_RESET} => Deaf'
         /\ registry' = {} /\ deferred_returns' = <<>> /\ Tame'
<1>0. TypeOK /\ ParserOK /\ LinkOK
  BY InvParts
<1>1. /\ state.cmd = COMMAND_RESET /\ state.cmd # NoCommand
      /\ Field = "Byte" /\ SubFsm = "Byte"
  BY AbsorbingField DEF Absorbing
<1>2. ProcessField(b)
  BY <1>1 DEF DataReceived, ProcessCommand, CommandFromStranger, ProcessReset,
     ProcessReturn, ProcessArguments, UnknownCommand
<1>3. ~ReadPart(b) /\ ~NextField(b)
  BY <1>1 DEF ReadPart, EndsField, NextField
<1>4. ~RejectField(b)
  BY <1>1 DEF RejectField, BadField, COMMAND_RESET, COMMAND_RAISE_EVENT
<1>5. ~FinishCommand(b)
  BY <1>0, <1>1, LastFieldFacts DEF FinishCommand
<1>6. AbsorbReset(b)
  BY <1>2, <1>3, <1>4, <1>5 DEF ProcessField
<1>7. CASE b \notin {COMMAND_RESET, END_OF_RESET}
  BY <1>6, <1>7, MalformedIsDeaf DEF AbsorbReset
<1>8. CASE b \in {COMMAND_RESET, END_OF_RESET}
  <2>1. /\ connected' = connected /\ registry' = registry /\ leaked' = leaked
        /\ deferred_returns' = deferred_returns
        /\ state' = IF b = COMMAND_RESET THEN state ELSE [state EXCEPT !.vals = <<b>>]
    BY <1>6, <1>8 DEF AbsorbReset, LinkUnchanged
  <2>2. registry = {} /\ deferred_returns = <<>>
    BY <1>0 DEF Absorbing, LinkOK, Tame
  <2>3. b = END_OF_RESET => state' = Reader(COMMAND_RESET, <<END_OF_RESET>>, <<>>)
    BY <2>1 DEF Absorbing, Reader, COMMAND_RESET, END_OF_RESET
  <2>4. b = COMMAND_RESET => state' = Reader(COMMAND_RESET, <<>>, <<>>)
    BY <2>1 DEF Absorbing
  <2>5. state'.cmd = COMMAND_RESET
    BY <1>8, <2>3, <2>4, IdleReader
  <2>6. Tame'
    BY <2>1, <2>2, <2>5 DEF Tame, COMMAND_RESET, COMMAND_ADD_ACTION
  <2>7. QED
    BY <1>8, <2>1, <2>2, <2>3, <2>4, <2>6 DEF Absorbing, Resetting, COMMAND_RESET, END_OF_RESET
<1>9. QED
  BY <1>7, <1>8

Kept == UNCHANGED <<connected, registry, deferred_returns>>

LEMMA ParserUpdates ==
  ASSUME NEW s \in Parsers, NEW v \in Seq(Int16), NEW t \in Seq(Bytes)
  PROVE  /\ [s EXCEPT !.vals = v, !.part = t] =
                [cmd |-> s.cmd, vals |-> v, part |-> t, popped |-> s.popped]
         /\ [s EXCEPT !.part = t] =
                [cmd |-> s.cmd, vals |-> s.vals, part |-> t, popped |-> s.popped]
<1>1. ASSUME NEW r \in Parsers
      PROVE  r = [cmd |-> r.cmd, vals |-> r.vals, part |-> r.part, popped |-> r.popped]
  BY DEF Parsers
<1> DEFINE both == [s EXCEPT !.vals = v, !.part = t]
           part == [s EXCEPT !.part = t]
<1>2. /\ both \in Parsers
      /\ both.cmd = s.cmd /\ both.vals = v /\ both.part = t /\ both.popped = s.popped
  BY DEF Parsers
<1>3. /\ part \in Parsers
      /\ part.cmd = s.cmd /\ part.vals = s.vals /\ part.part = t /\ part.popped = s.popped
  BY DEF Parsers
<1>4. both = [cmd |-> s.cmd, vals |-> v, part |-> t, popped |-> s.popped]
  <2> HIDE DEF both
  <2>1. QED
    BY <1>1, <1>2
<1>5. part = [cmd |-> s.cmd, vals |-> s.vals, part |-> t, popped |-> s.popped]
  <2> HIDE DEF part
  <2>1. QED
    BY <1>1, <1>3
<1>6. QED
  BY <1>4, <1>5

LEMMA FieldBegins ==
  ASSUME TypeOK, ParserOK, state.cmd # NoCommand, Field # "Byte", state.part = <<>>,
         NEW b \in Bytes, DataReceived(b), ~BadField(b), ~EndsField(b)
  PROVE  /\ Kept
         /\ state' = [cmd |-> state.cmd, vals |-> state.vals, part |-> <<b>>,
                      popped |-> state.popped]
<1>1. ReadPart(b)
  BY FieldByte
<1>2. state \in Parsers /\ state.vals \in Seq(Int16) /\ <<b>> \in Seq(Bytes)
  BY ReadingFacts DEF TypeOK
<1>3. QED
  BY <1>1, <1>2, ParserUpdates DEF ReadPart, Kept, LinkUnchanged

LEMMA FieldEnds ==
  ASSUME TypeOK, ParserOK, state.cmd # NoCommand, Field # "Byte",
         NEW b \in Bytes, DataReceived(b), ~BadField(b), EndsField(b), ~EndsArguments(b)
  PROVE  /\ Kept
         /\ state' = [cmd |-> state.cmd, vals |-> Args(b), part |-> <<>>,
                      popped |-> state.popped]
<1>1. NextField(b)
  BY FieldByte
<1>2. state \in Parsers /\ Args(b) \in Seq(Int16) /\ <<>> \in Seq(Bytes)
  BY ArgsType DEF TypeOK
<1>3. QED
  BY <1>1, <1>2, ParserUpdates DEF NextField, Kept, LinkUnchanged

(* The fields of a reset and of ADD_ACTION.                                *)
LEMMA ResetFields ==
  ASSUME state.cmd = COMMAND_RESET
  PROVE  /\ \A e : state.vals = <<e>> => Field = "Integer" /\ SubFsm = "Integer"
         /\ \A e, i : state.vals = <<e, i>> => Field = "String" /\ SubFsm = "String"
         /\ \A b : (EndsArguments(b) <=> Len(Args(b)) = 3) /\ (SubFsm # "Type" => ~BadField(b))
<1>1. Signature(COMMAND_RESET) = <<"Byte", "Integer", "String">>
  BY SignatureCases DEF FieldCommands
<1>2. \A e : state.vals = <<e>> => Field = "Integer" /\ SubFsm = "Integer"
  BY <1>1 DEF Field, SubFsm
<1>3. \A e, i : state.vals = <<e, i>> => Field = "String" /\ SubFsm = "String"
  BY <1>1 DEF Field, SubFsm
<1>4. ASSUME NEW b
      PROVE  (EndsArguments(b) <=> Len(Args(b)) = 3) /\ (SubFsm # "Type" => ~BadField(b))
  BY <1>1 DEF EndsArguments, BadField, COMMAND_RESET, COMMAND_RAISE_EVENT
<1>5. QED
  BY <1>2, <1>3, <1>4

LEMMA AddFields ==
  ASSUME state.cmd = COMMAND_ADD_ACTION
  PROVE  /\ state.vals = <<>> => Field = "Integer" /\ SubFsm = "Integer"
         /\ \A i : state.vals = <<i>> => Field = "String" /\ SubFsm = "String"
         /\ \A i, s : state.vals = <<i, s>> => Field = "Type" /\ SubFsm = "Type"
         /\ \A i, s, r : state.vals = <<i, s, r>> => Field = "Type" /\ SubFsm = "Type"
         /\ \A b : /\ EndsArguments(b) <=> Len(Args(b)) = 4
                   /\ SubFsm # "Type" \/ b \in {0, 1} => ~BadField(b)
<1>1. Signature(COMMAND_ADD_ACTION) = <<"Integer", "String", "Type", "Type">>
  BY SignatureCases DEF FieldCommands, ArgumentCommands, AddCommands
<1>2. state.vals = <<>> => Field = "Integer" /\ SubFsm = "Integer"
  BY <1>1 DEF Field, SubFsm
<1>3. \A i : state.vals = <<i>> => Field = "String" /\ SubFsm = "String"
  BY <1>1 DEF Field, SubFsm
<1>4. \A i, s : state.vals = <<i, s>> => Field = "Type" /\ SubFsm = "Type"
  BY <1>1 DEF Field, SubFsm
<1>5. \A i, s, r : state.vals = <<i, s, r>> => Field = "Type" /\ SubFsm = "Type"
  BY <1>1 DEF Field, SubFsm
<1>6. ASSUME NEW b
      PROVE  /\ EndsArguments(b) <=> Len(Args(b)) = 4
             /\ SubFsm # "Type" \/ b \in {0, 1} => ~BadField(b)
  <2>1. EndsArguments(b) <=> Len(Args(b)) = 4
    BY <1>1 DEF EndsArguments, COMMAND_ADD_ACTION, COMMAND_RAISE_EVENT
  <2>2. SubFsm # "Type" \/ b \in {0, 1} => ~BadField(b)
    BY DEF BadField, TypeOfCode, COMMAND_ADD_ACTION, COMMAND_RAISE_EVENT
  <2>3. QED
    BY <2>1, <2>2
<1>7. QED
  BY <1>2, <1>3, <1>4, <1>5, <1>6

(* A ping reads an int, and so does an answer that is one.                 *)
LEMMA PingFields ==
  ASSUME state.cmd = COMMAND_PING, state.vals = <<>>
  PROVE  /\ Field = "Integer" /\ SubFsm = "Integer"
         /\ \A b : EndsArguments(b) /\ ~BadField(b)
<1>1. Signature(COMMAND_PING) = <<"Integer">>
  BY SignatureCases DEF FieldCommands, ArgumentCommands
<1>2. Field = "Integer" /\ SubFsm = "Integer"
  BY <1>1 DEF Field, SubFsm
<1>3. ASSUME NEW b PROVE EndsArguments(b) /\ ~BadField(b)
  <2>1. Args(b) = <<FieldValue(b)>>
    BY DEF Args
  <2>2. QED
    BY <1>1, <1>2, <2>1 DEF EndsArguments, BadField, COMMAND_PING, COMMAND_RAISE_EVENT
<1>4. QED
  BY <1>2, <1>3

LEMMA ReturnFields ==
  ASSUME state.cmd = COMMAND_RETURN, state.vals = <<>>,
         state.popped[1].return_type = "Integer"
  PROVE  /\ Field = "Value" /\ SubFsm = "Integer"
         /\ \A b : EndsArguments(b) /\ ~BadField(b)
<1>1. Signature(COMMAND_RETURN) = <<"Value">>
  BY SignatureCases DEF FieldCommands
<1>2. Field = "Value" /\ SubFsm = "Integer"
  BY <1>1 DEF Field, SubFsm
<1>3. ASSUME NEW b PROVE EndsArguments(b) /\ ~BadField(b)
  <2>1. Args(b) = <<FieldValue(b)>>
    BY DEF Args
  <2>2. QED
    BY <1>1, <1>2, <2>1 DEF EndsArguments, BadField, COMMAND_RETURN, COMMAND_RAISE_EVENT
<1>4. QED
  BY <1>2, <1>3

LEMMA TameAfter ==
  ASSUME IInv, Tame, NEW b \in Bytes, DataReceived(b), registry' \subseteq Objects,
         \/ state'.cmd \in {NoCommand, COMMAND_RESET, COMMAND_PING, COMMAND_RETURN}
         \/ state'.cmd = COMMAND_ADD_ACTION /\ AddsFirst'
  PROVE  Tame'
BY DataTame DEF Tame, NoCommand, COMMAND_RESET, COMMAND_PING, COMMAND_ADD_ACTION, COMMAND_RETURN

(* The end of a reset: the id of the connection and the name.              *)
LEMMA ResettingFacts ==
  ASSUME IInv, Tame, NEW v, NEW t, Resetting(v, t)
  PROVE  /\ TypeOK /\ ParserOK /\ state = Reader(COMMAND_RESET, v, t)
         /\ state.cmd = COMMAND_RESET /\ state.cmd # NoCommand
         /\ state.vals = v /\ state.part = t /\ state.popped = <<>>
         /\ ~connected /\ registry = {} /\ deferred_returns = <<>>
BY InvParts, IdleReader DEF Resetting, LinkOK, Tame, COMMAND_RESET, NoCommand

LEMMA ResettingAfter ==
  ASSUME IInv, Tame, NEW v, NEW t, Resetting(v, t), NEW b \in Bytes, DataReceived(b), Kept,
         NEW w, NEW u, state' = Reader(COMMAND_RESET, w, u)
  PROVE  Resetting(w, u)' /\ Tame' /\ deferred_returns' = <<>>
<1>1. ~connected' /\ registry' = {} /\ deferred_returns' = <<>>
  BY ResettingFacts DEF Kept
<1>2. state'.cmd = COMMAND_RESET
  BY IdleReader
<1>3. QED
  BY <1>1, <1>2, TameAfter DEF Resetting

LEMMA ResetId ==
  ASSUME IInv, Tame, NEW e, Resetting(<<e>>, <<>>), NEW b \in Bytes, DataReceived(b)
  PROVE  Resetting(<<e>>, <<b>>)' /\ Tame' /\ deferred_returns' = <<>>
<1>1. Field = "Integer" /\ SubFsm = "Integer" /\ ~BadField(b)
  BY ResettingFacts, ResetFields
<1>2. ~EndsField(b)
  BY <1>1, ResettingFacts DEF EndsField
<1>3. /\ Kept
      /\ state' = [cmd |-> state.cmd, vals |-> state.vals, part |-> <<b>>,
                   popped |-> state.popped]
  BY <1>1, <1>2, ResettingFacts, FieldBegins
<1>4. state' = Reader(COMMAND_RESET, <<e>>, <<b>>)
  BY <1>3, ResettingFacts DEF Reader
<1>5. QED
  BY <1>3, <1>4, ResettingAfter

LEMMA ResetId2 ==
  ASSUME IInv, Tame, NEW e, NEW x, Resetting(<<e>>, <<x>>), NEW b \in Bytes, DataReceived(b)
  PROVE  (\E i \in Int16 : Resetting(<<e, i>>, <<>>)') /\ Tame' /\ deferred_returns' = <<>>
<1>1. Field = "Integer" /\ SubFsm = "Integer" /\ ~BadField(b)
  BY ResettingFacts, ResetFields
<1>2. EndsField(b)
  BY <1>1, ResettingFacts DEF EndsField
<1>3. FieldValue(b) \in Int16
  BY <1>1, <1>2, ResettingFacts, ValueType
<1>4. Args(b) = <<e, FieldValue(b)>>
  BY ResettingFacts, AppendToOne DEF Args
<1>5. ~EndsArguments(b)
  <2>1. Len(<<e, FieldValue(b)>>) # 3
    OBVIOUS
  <2>2. QED
    BY <1>4, <2>1, ResettingFacts, ResetFields
<1>6. PICK i \in Int16 : i = FieldValue(b)
  BY <1>3
<1>7. Kept /\ state' = [cmd |-> state.cmd, vals |-> <<e, i>>, part |-> <<>>,
                          popped |-> state.popped]
  BY <1>1, <1>2, <1>4, <1>5, <1>6, ResettingFacts, FieldEnds
<1>8. state' = Reader(COMMAND_RESET, <<e, i>>, <<>>)
  BY <1>7, ResettingFacts DEF Reader
<1>9. Resetting(<<e, i>>, <<>>)' /\ Tame' /\ deferred_returns' = <<>>
  BY <1>7, <1>8, ResettingAfter
<1>10. QED
  BY <1>9

LEMMA ResetName ==
  ASSUME IInv, Tame, NEW e, NEW i, Resetting(<<e, i>>, <<>>),
         NEW b \in Bytes, b # 0, DataReceived(b)
  PROVE  Resetting(<<e, i>>, <<b>>)' /\ Tame' /\ deferred_returns' = <<>>
<1>1. Field = "String" /\ SubFsm = "String" /\ ~BadField(b)
  BY ResettingFacts, ResetFields
<1>2. ~EndsField(b)
  BY <1>1, ResettingFacts DEF EndsField
<1>3. /\ Kept
      /\ state' = [cmd |-> state.cmd, vals |-> state.vals, part |-> <<b>>,
                   popped |-> state.popped]
  BY <1>1, <1>2, ResettingFacts, FieldBegins
<1>4. state' = Reader(COMMAND_RESET, <<e, i>>, <<b>>)
  BY <1>3, ResettingFacts DEF Reader
<1>5. QED
  BY <1>3, <1>4, ResettingAfter

LEMMA ResetName2 ==
  ASSUME IInv, Tame, NEW e, NEW i, NEW c, Resetting(<<e, i>>, <<c>>), DataReceived(0)
  PROVE  /\ connected' /\ registry' = {} /\ state' = Idle
         /\ Tame' /\ deferred_returns' = <<>>
<1>1. Field = "String" /\ SubFsm = "String" /\ ~BadField(0) /\ 0 \in Bytes
  BY ResettingFacts, ResetFields DEF Bytes
<1>2. EndsField(0)
  BY <1>1, ResettingFacts DEF EndsField
<1>3. EndsArguments(0)
  <2>1. Args(0) = <<e, i, FieldValue(0)>>
    BY ResettingFacts, AppendToTwo DEF Args
  <2>2. QED
    BY <2>1, ResettingFacts, ResetFields
<1>4. FinishCommand(0)
  BY <1>1, <1>2, <1>3, ResettingFacts, FieldByte
<1>5. Connect(0)
  BY <1>4, ResettingFacts DEF FinishCommand, FinishReturn, FinishPing, FinishAdd,
     FinishRemove, FinishRaise, AddCommands, RemoveCommands, COMMAND_RESET, COMMAND_PING,
     COMMAND_ADD_ACTION, COMMAND_ADD_EVENT, COMMAND_ADD_PROPERTY, COMMAND_REMOVE_ACTION,
     COMMAND_REMOVE_EVENT, COMMAND_REMOVE_PROPERTY, COMMAND_RAISE_EVENT, COMMAND_RETURN
<1>6. connected' /\ registry' = {} /\ state' = Idle /\ deferred_returns' = <<>>
  BY <1>5, ResettingFacts DEF Connect
<1>7. Tame'
  BY <1>1, <1>6, IdleIsParser, TameAfter
<1>8. QED
  BY <1>6, <1>7

(* The announcement of the action.                                         *)
LEMMA AddingFacts ==
  ASSUME IInv, NEW v, NEW t, Adding(v, t)
  PROVE  /\ TypeOK /\ ParserOK
         /\ state.cmd = COMMAND_ADD_ACTION /\ state.cmd # NoCommand
         /\ state.vals = v /\ state.part = t /\ state.popped = <<>>
         /\ connected /\ registry = {}
BY InvParts, IdleReader DEF Adding, COMMAND_ADD_ACTION, NoCommand

LEMMA AddingAfter ==
  ASSUME IInv, Tame, connected, registry = {}, NEW b \in Bytes, DataReceived(b), Kept,
         NEW w, NEW u, state' = Reader(COMMAND_ADD_ACTION, w, u),
         Len(w) = 0 => u = <<>> \/ u = << 0 >>,
         Len(w) # 0 => w[1] = 0,
         Len(w) = 3 => w[3] \in {0, 1}
  PROVE  Adding(w, u)' /\ Tame' /\ deferred_returns' = deferred_returns
<1>1. connected' /\ registry' = {} /\ deferred_returns' = deferred_returns
  BY DEF Kept
<1>2. state'.cmd = COMMAND_ADD_ACTION /\ state'.vals = w /\ state'.part = u
  BY IdleReader
<1>3. AddsFirst'
  BY <1>1, <1>2 DEF AddsFirst
<1>4. QED
  BY <1>1, <1>2, <1>3, TameAfter DEF Adding

LEMMA AddBegins ==
  ASSUME IInv, Tame, connected, registry = {}, state = Idle, DataReceived(COMMAND_ADD_ACTION)
  PROVE  Adding(<<>>, <<>>)' /\ Tame' /\ deferred_returns' = deferred_returns
<1>0. COMMAND_ADD_ACTION \in Bytes
  BY CommandsAreBytes DEF FieldCommands, ArgumentCommands, AddCommands
<1>1. ProcessCommand(COMMAND_ADD_ACTION)
  BY <1>0, IdleIsParser, CommandByte
<1>2. ProcessArguments(COMMAND_ADD_ACTION)
  BY <1>1 DEF ProcessCommand, CommandFromStranger, ProcessReset, ProcessReturn,
     UnknownCommand, ArgumentCommands, AddCommands, COMMAND_RESET, COMMAND_ADD_ACTION,
     COMMAND_RETURN
<1>3. Kept /\ state' = Reader(COMMAND_ADD_ACTION, <<>>, <<>>)
  BY <1>2, IdleReader DEF ProcessArguments, LinkUnchanged, Kept
<1>4. Len(<<>>) = 0
  OBVIOUS
<1>5. QED
  BY <1>0, <1>3, <1>4, AddingAfter

LEMMA AddSlot ==
  ASSUME IInv, Tame, Adding(<<>>, <<>>), DataReceived(0)
  PROVE  Adding(<<>>, <<0>>)' /\ Tame' /\ deferred_returns' = deferred_returns
<1>1. Field = "Integer" /\ SubFsm = "Integer" /\ ~BadField(0) /\ 0 \in Bytes
  BY AddingFacts, AddFields DEF Bytes
<1>2. ~EndsField(0)
  BY <1>1, AddingFacts DEF EndsField
<1>3. /\ Kept
      /\ state' = [cmd |-> state.cmd, vals |-> state.vals, part |-> <<0>>,
                   popped |-> state.popped]
  BY <1>1, <1>2, AddingFacts, FieldBegins
<1>4. state' = Reader(COMMAND_ADD_ACTION, <<>>, <<0>>) /\ Len(<<>>) = 0
  BY <1>3, AddingFacts DEF Reader
<1>5. QED
  BY <1>1, <1>3, <1>4, AddingFacts, AddingAfter

LEMMA AddSlot2 ==
  ASSUME IInv, Tame, Adding(<<>>, << 0 >>), DataReceived(0)
  PROVE  Adding(<<0>>, <<>>)' /\ Tame' /\ deferred_returns' = deferred_returns
<1>1. Field = "Integer" /\ SubFsm = "Integer" /\ ~BadField(0) /\ 0 \in Bytes
  BY AddingFacts, AddFields DEF Bytes
<1>2. EndsField(0)
  BY <1>1, AddingFacts DEF EndsField
<1>3. FieldValue(0) = 0
  BY <1>1, AddingFacts DEF FieldValue, DecodeInteger
<1>4. Args(0) = <<0>> /\ Len(<<0>>) = 1
  BY <1>3, AddingFacts, AppendToNone DEF Args
<1>5. ~EndsArguments(0)
  BY <1>4, AddingFacts, AddFields
<1>6. Kept /\ state' = [cmd |-> state.cmd, vals |-> <<0>>, part |-> <<>>,
                        popped |-> state.popped]
  BY <1>1, <1>2, <1>4, <1>5, AddingFacts, FieldEnds
<1>7. state' = Reader(COMMAND_ADD_ACTION, <<0>>, <<>>)
  BY <1>6, AddingFacts DEF Reader
<1>8. QED
  BY <1>1, <1>4, <1>6, <1>7, AddingFacts, AddingAfter

LEMMA AddPath ==
  ASSUME IInv, Tame, Adding(<< 0 >>, <<>>), DataReceived(97)
  PROVE  Adding(<<0>>, <<97>>)' /\ Tame' /\ deferred_returns' = deferred_returns
<1>1. Field = "String" /\ SubFsm = "String" /\ ~BadField(97) /\ 97 \in Bytes
  BY AddingFacts, AddFields DEF Bytes
<1>2. ~EndsField(97)
  BY <1>1, AddingFacts DEF EndsField
<1>3. /\ Kept
      /\ state' = [cmd |-> state.cmd, vals |-> state.vals, part |-> <<97>>,
                   popped |-> state.popped]
  BY <1>1, <1>2, AddingFacts, FieldBegins
<1>4. state' = Reader(COMMAND_ADD_ACTION, <<0>>, <<97>>) /\ Len(<<0>>) = 1 /\ <<0>>[1] = 0
  BY <1>3, AddingFacts DEF Reader
<1>5. QED
  BY <1>1, <1>3, <1>4, AddingFacts, AddingAfter

LEMMA AddPath2 ==
  ASSUME IInv, Tame, Adding(<< 0 >>, << 97 >>), DataReceived(0)
  PROVE  Adding(<<0, 97>>, <<>>)' /\ Tame' /\ deferred_returns' = deferred_returns
<1>1. Field = "String" /\ SubFsm = "String" /\ ~BadField(0) /\ 0 \in Bytes
  BY AddingFacts, AddFields DEF Bytes
<1>2. EndsField(0)
  BY <1>1, AddingFacts DEF EndsField
<1>3. FieldValue(0) = 97
  BY <1>1, AddingFacts DEF FieldValue
<1>4. Args(0) = <<0, 97>> /\ Len(<<0, 97>>) = 2 /\ <<0, 97>>[1] = 0
  <2>1. Args(0) = Append(state.vals, FieldValue(0))
    BY DEF Args
  <2>2. state.vals = <<0>>
    BY AddingFacts
  <2>3. Append(<<0>>, 97) = <<0, 97>>
    BY AppendToOne
  <2>4. QED
    BY <1>3, <2>1, <2>2, <2>3
<1>5. ~EndsArguments(0)
  BY <1>4, AddingFacts, AddFields
<1>6. Kept /\ state' = [cmd |-> state.cmd, vals |-> <<0, 97>>, part |-> <<>>,
                        popped |-> state.popped]
  BY <1>1, <1>2, <1>4, <1>5, AddingFacts, FieldEnds
<1>7. state' = Reader(COMMAND_ADD_ACTION, <<0, 97>>, <<>>)
  BY <1>6, AddingFacts DEF Reader
<1>8. QED
  BY <1>1, <1>4, <1>6, <1>7, AddingFacts, AddingAfter

LEMMA AddReturns ==
  ASSUME IInv, Tame, Adding(<<0, 97>>, <<>>), DataReceived(1)
  PROVE  Adding(<<0, 97, 1>>, <<>>)' /\ Tame' /\ deferred_returns' = deferred_returns
<1>1. Field = "Type" /\ SubFsm = "Type" /\ ~BadField(1) /\ 1 \in Bytes
  BY AddingFacts, AddFields DEF Bytes
<1>2. EndsField(1)
  BY <1>1 DEF EndsField
<1>3. FieldValue(1) = 1
  BY <1>1 DEF FieldValue
<1>4. Args(1) = <<0, 97, 1>> /\ Len(<<0, 97, 1>>) = 3
  <2>1. Args(1) = Append(state.vals, FieldValue(1))
    BY DEF Args
  <2>2. state.vals = <<0, 97>>
    BY AddingFacts
  <2>3. Append(<<0, 97>>, 1) = <<0, 97, 1>>
    BY AppendToTwo
  <2>4. QED
    BY <1>3, <2>1, <2>2, <2>3
<1>5. ~EndsArguments(1)
  BY <1>4, AddingFacts, AddFields
<1>6. Kept /\ state' = [cmd |-> state.cmd, vals |-> <<0, 97, 1>>, part |-> <<>>,
                        popped |-> state.popped]
  BY <1>1, <1>2, <1>4, <1>5, AddingFacts, FieldEnds
<1>7. state' = Reader(COMMAND_ADD_ACTION, <<0, 97, 1>>, <<>>)
  BY <1>6, AddingFacts DEF Reader
<1>8. <<0, 97, 1>>[1] = 0 /\ <<0, 97, 1>>[3] \in {0, 1}
  OBVIOUS
<1>9. QED
  BY <1>1, <1>4, <1>6, <1>7, <1>8, AddingFacts, AddingAfter

(* The action, or a path that no base_path was given for.                  *)
LEMMA AddEnds ==
  ASSUME IInv, Tame, state.cmd = COMMAND_ADD_ACTION, registry = {},
         NEW b \in {0, 1}, DataReceived(b), FinishCommand(b),
         NEW s, NEW r \in {0, 1}, Args(b) = <<0, s, r, b>>
  PROVE  \/ Deaf' /\ Tame' /\ deferred_returns' = <<>> /\ registry' = {}
         \/ /\ connected' = connected /\ state' = Idle /\ deferred_returns' = deferred_returns
            /\ registry' = {[kind |-> "action", id |-> 0, arg |-> TypeOfCode[b],
                             ret |-> TypeOfCode[r]]}
            /\ Tame'
<1>0. b \in Bytes /\ state.cmd # NoCommand
  BY DEF Bytes, NoCommand, COMMAND_ADD_ACTION
<1>1. FinishAdd(b)
  BY DEF FinishCommand, Connect, FinishReturn, FinishPing, FinishRemove, FinishRaise,
     RemoveCommands, COMMAND_RESET, COMMAND_PING, COMMAND_ADD_ACTION,
     COMMAND_REMOVE_ACTION, COMMAND_REMOVE_EVENT, COMMAND_REMOVE_PROPERTY,
     COMMAND_RAISE_EVENT, COMMAND_RETURN
<1>2. CASE OnMalformedCommand
  BY <1>2, MalformedIsDeaf
<1>3. CASE ~OnMalformedCommand
  <2> DEFINE new == [kind |-> "action", id |-> 0, arg |-> TypeOfCode[b], ret |-> TypeOfCode[r]]
  <2>1. NewObject(Args(b)) = new
    <3>1. /\ <<0, s, r, b>>[1] = 0 /\ <<0, s, r, b>>[3] = r /\ <<0, s, r, b>>[4] = b
      OBVIOUS
    <3>2. QED
      BY <3>1 DEF NewObject, COMMAND_ADD_ACTION, COMMAND_ADD_PROPERTY
  <2>2. /\ connected' = connected /\ state' = Idle /\ deferred_returns' = deferred_returns
        /\ registry' = {NewObject(Args(b))}
    BY <1>1, <1>3 DEF FinishAdd
  <2>3. TypeOfCode[b] \in {"Void", "Integer"} /\ TypeOfCode[r] \in {"Void", "Integer"}
    BY DEF TypeOfCode
  <2>4. new \in Objects
    BY <2>3 DEF Objects
  <2>5. Tame'
    BY <1>0, <2>1, <2>2, <2>4, IdleIsParser, TameAfter
  <2>6. QED
    BY <2>1, <2>2, <2>5
<1>4. QED
  BY <1>2, <1>3

LEMMA AddTakes ==
  ASSUME IInv, Tame, Adding(<<0, 97, 1>>, <<>>), DataReceived(1)
  PROVE  /\ Tame'
         /\ \/ Deaf' /\ deferred_returns' = <<>> /\ registry' = {}
            \/ Linked(Idle)' /\ deferred_returns' = deferred_returns
<1>1. Field = "Type" /\ SubFsm = "Type" /\ ~BadField(1) /\ 1 \in Bytes
  BY AddingFacts, AddFields DEF Bytes
<1>2. EndsField(1)
  BY <1>1 DEF EndsField
<1>3. FieldValue(1) = 1
  BY <1>1 DEF FieldValue
<1>4. Args(1) = <<0, 97, 1, 1>> /\ Len(<<0, 97, 1, 1>>) = 4
  <2>1. Args(1) = Append(state.vals, FieldValue(1))
    BY DEF Args
  <2>2. state.vals = <<0, 97, 1>>
    BY AddingFacts
  <2>3. Append(<<0, 97, 1>>, 1) = <<0, 97, 1, 1>>
    BY AppendToThree
  <2>4. QED
    BY <1>3, <2>1, <2>2, <2>3
<1>5. EndsArguments(1)
  BY <1>4, AddingFacts, AddFields
<1>6. FinishCommand(1)
  BY <1>1, <1>2, <1>5, AddingFacts, FieldByte
<1>7. TypeOfCode[1] = "Integer"
  BY DEF TypeOfCode
<1>8. \/ Deaf' /\ Tame' /\ deferred_returns' = <<>> /\ registry' = {}
      \/ /\ connected' = connected /\ state' = Idle /\ deferred_returns' = deferred_returns
         /\ registry' = {[kind |-> "action", id |-> 0, arg |-> TypeOfCode[1],
                          ret |-> TypeOfCode[1]]}
         /\ Tame'
  BY <1>4, <1>6, AddingFacts, AddEnds
<1>9. QED
  BY <1>7, <1>8, AddingFacts DEF Linked, Announced

(* Pings and answers.                                                      *)
LEMMA LinkedAfter ==
  ASSUME IInv, Tame, connected, registry = Announced, NEW b \in Bytes, DataReceived(b),
         connected' = connected, registry' = registry,
         state'.cmd \in {NoCommand, COMMAND_RESET, COMMAND_PING, COMMAND_RETURN}
  PROVE  Tame' /\ connected' /\ registry' = Announced
<1>1. registry' \subseteq Objects
  BY DEF Announced, Objects
<1>2. QED
  BY <1>1, TameAfter

LEMMA PingBegins ==
  ASSUME IInv, Tame, Linked(Idle), DataReceived(COMMAND_PING)
  PROVE  /\ Linked(Reader(COMMAND_PING, <<>>, <<>>))' /\ Tame'
         /\ deferred_returns' = deferred_returns
<1>0. COMMAND_PING \in Bytes /\ state.cmd = NoCommand
  BY CommandsAreBytes, IdleIsParser DEF FieldCommands, ArgumentCommands, Linked
<1>1. ProcessCommand(COMMAND_PING)
  BY <1>0, CommandByte
<1>2. ProcessArguments(COMMAND_PING)
  BY <1>1 DEF ProcessCommand, CommandFromStranger, ProcessReset, ProcessReturn, Linked,
     UnknownCommand, ArgumentCommands, COMMAND_RESET, COMMAND_PING, COMMAND_RETURN
<1>3. Kept /\ state' = Reader(COMMAND_PING, <<>>, <<>>)
  BY <1>2, IdleReader DEF ProcessArguments, LinkUnchanged, Kept
<1>4. state'.cmd = COMMAND_PING
  BY <1>3, IdleReader
<1>5. QED
  BY <1>0, <1>3, <1>4, LinkedAfter DEF Linked, Kept

LEMMA PingId ==
  ASSUME IInv, Tame, Linked(Reader(COMMAND_PING, <<>>, <<>>)), NEW b \in Bytes, DataReceived(b)
  PROVE  /\ Linked(Reader(COMMAND_PING, <<>>, <<b>>))' /\ Tame'
         /\ deferred_returns' = deferred_returns
<1>0. /\ state.cmd = COMMAND_PING /\ state.vals = <<>> /\ state.part = <<>>
      /\ state.popped = <<>> /\ TypeOK /\ ParserOK
  BY IdleReader, InvParts DEF Linked
<1>1. Field = "Integer" /\ SubFsm = "Integer" /\ ~BadField(b) /\ state.cmd # NoCommand
  BY <1>0, PingFields DEF COMMAND_PING, NoCommand
<1>2. ~EndsField(b)
  BY <1>0, <1>1 DEF EndsField
<1>3. /\ Kept
      /\ state' = [cmd |-> state.cmd, vals |-> state.vals, part |-> <<b>>,
                   popped |-> state.popped]
  BY <1>0, <1>1, <1>2, FieldBegins
<1>4. state' = Reader(COMMAND_PING, <<>>, <<b>>)
  BY <1>0, <1>3 DEF Reader
<1>5. state'.cmd = COMMAND_PING
  BY <1>4, IdleReader
<1>6. QED
  BY <1>3, <1>4, <1>5, LinkedAfter DEF Linked, Kept

LEMMA PingId2 ==
  ASSUME IInv, Tame, NEW x, Linked(Reader(COMMAND_PING, <<>>, <<x>>)),
         NEW b \in Bytes, DataReceived(b)
  PROVE  /\ Tame'
         /\ \/ Deaf' /\ deferred_returns' = <<>>
            \/ Linked(Idle)' /\ deferred_returns' = deferred_returns
<1>0. /\ state.cmd = COMMAND_PING /\ state.vals = <<>> /\ state.part = <<x>>
      /\ TypeOK /\ ParserOK
  BY IdleReader, InvParts DEF Linked
<1>1. /\ Field = "Integer" /\ SubFsm = "Integer" /\ ~BadField(b) /\ state.cmd # NoCommand
      /\ EndsArguments(b)
  BY <1>0, PingFields DEF COMMAND_PING, NoCommand
<1>2. EndsField(b)
  BY <1>0, <1>1 DEF EndsField
<1>3. FinishCommand(b)
  BY <1>0, <1>1, <1>2, FieldByte
<1>4. FinishPing(b)
  BY <1>0, <1>3 DEF FinishCommand, Connect, FinishReturn, FinishAdd, FinishRemove,
     FinishRaise, AddCommands, RemoveCommands, COMMAND_RESET, COMMAND_PING,
     COMMAND_ADD_ACTION, COMMAND_ADD_EVENT, COMMAND_ADD_PROPERTY, COMMAND_REMOVE_ACTION,
     COMMAND_REMOVE_EVENT, COMMAND_REMOVE_PROPERTY, COMMAND_RAISE_EVENT, COMMAND_RETURN
<1>5. CASE OnMalformedCommand
  BY <1>5, MalformedIsDeaf
<1>6. CASE ~OnMalformedCommand
  <2>1. Kept /\ state' = Idle
    BY <1>4, <1>6 DEF FinishPing, LinkUnchanged, Kept
  <2>2. QED
    BY <2>1, IdleIsParser, LinkedAfter DEF Linked, Kept
<1>7. QED
  BY <1>5, <1>6

LEMMA ReturnBegins ==
  ASSUME IInv, Tame, Linked(Idle), IntegersAwaited, DataReceived(COMMAND_RETURN)
  PROVE  /\ Tame' /\ IntegersAwaited'
         /\ \/ Deaf' /\ deferred_returns' = <<>>
            \/ Returning(<<>>)'
<1>0. /\ COMMAND_RETURN \in Bytes /\ state.cmd = NoCommand
      /\ deferred_returns \in Seq(Deferreds)
  BY CommandsAreBytes, IdleIsParser, InvParts DEF FieldCommands, Linked, TypeOK
<1>1. ProcessCommand(COMMAND_RETURN)
  BY <1>0, CommandByte
<1>2. ProcessReturn(COMMAND_RETURN)
  BY <1>1 DEF ProcessCommand, CommandFromStranger, ProcessReset, ProcessArguments, Linked,
     UnknownCommand, ArgumentCommands, AddCommands, RemoveCommands, COMMAND_RESET,
     COMMAND_PING, COMMAND_ADD_ACTION, COMMAND_ADD_EVENT, COMMAND_ADD_PROPERTY,
     COMMAND_REMOVE_ACTION, COMMAND_REMOVE_EVENT, COMMAND_REMOVE_PROPERTY,
     COMMAND_RAISE_EVENT, COMMAND_RETURN
<1>3. CASE deferred_returns = <<>>
  <2>1. OnMalformedCommand
    BY <1>2, <1>3 DEF ProcessReturn
  <2>2. Deaf' /\ Tame' /\ deferred_returns' = <<>>
    BY <2>1, MalformedIsDeaf
  <2>3. QED
    BY <2>2 DEF IntegersAwaited
<1>4. CASE deferred_returns # <<>>
  <2> DEFINE d == Head(deferred_returns)
  <2>1. ServeReturn(COMMAND_RETURN, d) /\ deferred_returns' = Tail(deferred_returns)
    BY <1>2, <1>4 DEF ProcessReturn
  <2>2. d \in Deferreds /\ d = deferred_returns[1]
    BY <1>0, <1>4
  <2>3. PICK n \in Nat : n = Len(deferred_returns)
    BY <1>0, LenProperties
  <2>4. n # 0
    BY <1>0, <1>4, <2>3
  <2>5. d.return_type = "Integer"
    <3>1. 1 \in 1 .. n
      BY <2>4
    <3>2. QED
      BY <2>2, <2>3, <3>1 DEF IntegersAwaited
  <2>6. IntegersAwaited'
    <3>1. /\ Len(Tail(deferred_returns)) = n - 1
          /\ \A i \in 1 .. n - 1 : Tail(deferred_returns)[i] = deferred_returns[i + 1]
      BY <1>0, <1>4, <2>3
    <3>2. \A i \in 1 .. n - 1 : i + 1 \in 1 .. n
      BY <2>3
    <3>3. QED
      BY <2>1, <2>3, <3>1, <3>2 DEF IntegersAwaited
  <2> HIDE DEF d
  <2>7. Reading(COMMAND_RETURN, <<d>>).cmd = COMMAND_RETURN
    BY DEF Reading
  <2>8. connected' = connected /\ registry' = registry /\ state' = Reading(COMMAND_RETURN, <<d>>)
    BY <2>1, <2>5 DEF ServeReturn, LinkUnchanged
  <2>9. Tame' /\ connected' /\ registry' = Announced
    BY <1>0, <2>7, <2>8, LinkedAfter DEF Linked
  <2>10. state' = [cmd |-> COMMAND_RETURN, vals |-> <<>>, part |-> <<>>, popped |-> <<d>>]
    BY <2>8 DEF Reading
  <2>11. QED
    BY <2>2, <2>5, <2>6, <2>9, <2>10 DEF Linked, Returning
<1>5. QED
  BY <1>3, <1>4

LEMMA ReturningFacts ==
  ASSUME IInv, NEW t, Returning(t)
  PROVE  /\ TypeOK /\ ParserOK /\ connected /\ registry = Announced
         /\ state.cmd = COMMAND_RETURN /\ state.cmd # NoCommand
         /\ state.vals = <<>> /\ state.part = t
         /\ \E d \in Deferreds : d.return_type = "Integer" /\ state.popped = <<d>>
         /\ Field = "Value" /\ SubFsm = "Integer"
         /\ \A b : EndsArguments(b) /\ ~BadField(b)
<1>1. PICK d \in Deferreds :
        /\ d.return_type = "Integer"
        /\ connected /\ registry = Announced
        /\ state = [cmd |-> COMMAND_RETURN, vals |-> <<>>, part |-> t, popped |-> <<d>>]
  BY DEF Returning, Linked
<1>2. /\ state.cmd = COMMAND_RETURN /\ state.vals = <<>> /\ state.part = t
      /\ state.popped = <<d>> /\ state.popped[1].return_type = "Integer"
  BY <1>1
<1>3. /\ Field = "Value" /\ SubFsm = "Integer"
      /\ \A b : EndsArguments(b) /\ ~BadField(b)
  BY <1>2, ReturnFields
<1>4. QED
  BY <1>1, <1>2, <1>3, InvParts DEF COMMAND_RETURN, NoCommand

LEMMA ReturnValue ==
  ASSUME IInv, Tame, Returning(<<>>), NEW b \in Bytes, DataReceived(b)
  PROVE  Returning(<<b>>)' /\ Tame' /\ deferred_returns' = deferred_returns
<1>1. ~EndsField(b)
  BY ReturningFacts DEF EndsField
<1>2. /\ Kept
      /\ state' = [cmd |-> state.cmd, vals |-> state.vals, part |-> <<b>>,
                   popped |-> state.popped]
  BY <1>1, ReturningFacts, FieldBegins
<1>3. PICK d \in Deferreds : d.return_type = "Integer" /\ state.popped = <<d>>
  BY ReturningFacts
<1>4. state' = [cmd |-> COMMAND_RETURN, vals |-> <<>>, part |-> <<b>>, popped |-> <<d>>]
  BY <1>2, <1>3, ReturningFacts
<1>5. Tame' /\ connected' /\ registry' = Announced
  BY <1>2, <1>4, ReturningFacts, LinkedAfter DEF Kept
<1>6. QED
  BY <1>2, <1>3, <1>4, <1>5 DEF Returning, Linked, Kept

LEMMA ReturnValue2 ==
  ASSUME IInv, Tame, NEW x, Returning(<<x>>), NEW b \in Bytes, DataReceived(b)
  PROVE  Linked(Idle)' /\ Tame' /\ deferred_returns' = deferred_returns
<1>1. EndsField(b)
  BY ReturningFacts DEF EndsField
<1>2. FinishCommand(b)
  BY <1>1, ReturningFacts, FieldByte
<1>3. FinishReturn(b)
  BY <1>2, ReturningFacts DEF FinishCommand, Connect, FinishPing, FinishAdd, FinishRemove,
     FinishRaise, AddCommands, RemoveCommands, COMMAND_RESET, COMMAND_PING,
     COMMAND_ADD_ACTION, COMMAND_ADD_EVENT, COMMAND_ADD_PROPERTY, COMMAND_REMOVE_ACTION,
     COMMAND_REMOVE_EVENT, COMMAND_REMOVE_PROPERTY, COMMAND_RAISE_EVENT, COMMAND_RETURN
<1>4. Kept /\ state' = Idle
  BY <1>3 DEF FinishReturn, LinkUnchanged, Kept
<1>5. QED
  BY <1>4, ReturningFacts, IdleIsParser, LinkedAfter DEF Linked, Kept

-----------------------------------------------------------------------------
(***************************************************************************)
(* A zero, whatever the router is reading.                                 *)
(***************************************************************************)
LEMMA AddReading ==
  ASSUME IInv, Tame, state.cmd = COMMAND_ADD_ACTION
  PROVE  /\ TypeOK /\ ParserOK /\ state.cmd # NoCommand /\ registry = {} /\ AddsFirst
         /\ state.vals \in Seq(Int16) /\ Len(state.vals) \in 0 .. 3
         /\ Len(state.vals) = 0 => state.vals = <<>> /\ SubFsm = "Integer"
         /\ Len(state.vals) \in {2, 3} => SubFsm = "Type"
         /\ Field # "Byte"
<1>0. TypeOK /\ ParserOK /\ AddsFirst /\ state.cmd # NoCommand
  BY InvParts DEF Tame, COMMAND_ADD_ACTION, NoCommand
<1>1. Signature(COMMAND_ADD_ACTION) = <<"Integer", "String", "Type", "Type">>
  BY SignatureCases DEF FieldCommands, ArgumentCommands, AddCommands
<1>2. state.vals \in Seq(Int16) /\ Len(state.vals) \in Nat
  BY <1>0, ReadingFacts
<1>3. PICK n \in Nat : n = Len(state.vals)
  BY <1>2
<1>4. n \in 0 .. 3
  <2>1. n + 1 \in 1 .. Len(Signature(COMMAND_ADD_ACTION))
    BY <1>0, <1>3, ReadingFacts
  <2>2. n + 1 \in 1 .. 4
    BY <1>1, <2>1
  <2>3. QED
    BY <2>2
<1>5. Field = <<"Integer", "String", "Type", "Type">>[n + 1]
  BY <1>1, <1>3 DEF Field
<1>6. Field = (IF n = 0 THEN "Integer" ELSE IF n = 1 THEN "String" ELSE "Type")
  <2>1. n = 0 \/ n = 1 \/ n = 2 \/ n = 3
    BY <1>4
  <2>2. QED
    BY <1>5, <2>1
<1>7. SubFsm = Field /\ Field # "Byte"
  BY <1>6 DEF SubFsm
<1>8. n = 0 => state.vals = <<>> /\ SubFsm = "Integer"
  BY <1>2, <1>3, <1>6, <1>7, EmptySeq
<1>9. n \in {2, 3} => SubFsm = "Type"
  BY <1>6, <1>7
<1>10. registry = {}
  BY <1>0 DEF AddsFirst
<1>11. QED
  BY <1>0, <1>2, <1>3, <1>4, <1>7, <1>8, <1>9, <1>10, Zenon

LEMMA ZeroAddTame ==
  ASSUME IInv, Tame, state.cmd = COMMAND_ADD_ACTION, DataReceived(0)
  PROVE  Tame'
<1>0. 0 \in Bytes /\ ~BadField(0) /\ Field # "Byte"
  <2>1. ~BadField(0)
    BY DEF BadField, TypeOfCode, COMMAND_ADD_ACTION, COMMAND_RAISE_EVENT
  <2>2. QED
    BY <2>1, AddReading DEF Bytes
<1>1. PICK n \in 0 .. 3 : n = Len(state.vals)
  BY AddReading
<1>2. CASE ~EndsField(0)
  <2>1. ReadPart(0)
    BY <1>0, <1>2, AddReading, FieldByte
  <2>2. state \in Parsers /\ registry' = {}
    BY <2>1, AddReading DEF ReadPart, TypeOK
  <2>3. /\ state'.cmd = COMMAND_ADD_ACTION /\ state'.vals = state.vals
        /\ state'.part = (IF state.part = <<>> THEN <<0>> ELSE state.part)
    BY <2>1, <2>2 DEF ReadPart, Parsers
  <2>4. AddsFirst'
    BY <2>2, <2>3, AddReading DEF AddsFirst
  <2>5. QED
    BY <1>0, <2>2, <2>3, <2>4, TameAfter
<1>3. CASE EndsField(0)
  <2>1. /\ Args(0) \in Seq(Int16) /\ Len(Args(0)) = n + 1
        /\ Args(0)[n + 1] = FieldValue(0)
        /\ \A i \in 1 .. n : Args(0)[i] = state.vals[i]
    BY <1>0, <1>1, <1>3, AddReading, ArgsType
  <2>2. n # 0 => Args(0)[1] = 0
    <3>1. n # 0 => 1 \in 1 .. n
      OBVIOUS
    <3>2. QED
      BY <1>1, <2>1, <3>1, AddReading DEF AddsFirst
  <2>3. n = 0 => Args(0)[1] = 0
    <3>1. SUFFICES ASSUME n = 0 PROVE Args(0)[1] = 0
      OBVIOUS
    <3>2. SubFsm = "Integer" /\ state.part = <<0>>
      BY <1>1, <1>3, <3>1, AddReading DEF AddsFirst, EndsField
    <3>3. FieldValue(0) = 0
      BY <3>2 DEF FieldValue, DecodeInteger
    <3>4. QED
      BY <2>1, <3>1, <3>3
  <2>4. n = 2 => Args(0)[3] = 0
    <3>1. n = 2 => SubFsm = "Type"
      BY <1>1, AddReading
    <3>2. n = 2 => FieldValue(0) = 0
      BY <3>1 DEF FieldValue
    <3>3. QED
      BY <2>1, <3>2
  <2>5. CASE ~EndsArguments(0)
    <3>1. /\ Kept
          /\ state' = [cmd |-> state.cmd, vals |-> Args(0), part |-> <<>>,
                       popped |-> state.popped]
      BY <1>0, <1>3, <2>5, AddReading, FieldEnds
    <3>2. state'.cmd = COMMAND_ADD_ACTION /\ state'.vals = Args(0) /\ registry' = {}
      BY <3>1, AddReading DEF Kept
    <3>3. n + 1 # 0 /\ (n + 1 = 3 => n = 2)
      OBVIOUS
    <3>4. Len(state'.vals) = n + 1 /\ state'.vals[1] = 0
      BY <2>1, <2>2, <2>3, <3>2
    <3>5. Len(state'.vals) = 3 => state'.vals[3] = 0
      BY <2>4, <3>2, <3>3, <3>4
    <3>6. AddsFirst'
      BY <3>2, <3>3, <3>4, <3>5 DEF AddsFirst
    <3>7. QED
      BY <1>0, <3>2, <3>6, TameAfter
  <2>6. CASE EndsArguments(0)
    <3>1. FinishCommand(0)
      BY <1>0, <1>3, <2>6, AddReading, FieldByte
    <3>2. n + 1 = 4
      BY <2>1, <2>6, AddFields
    <3>3. n = 3 /\ SubFsm = "Type"
      <4>1. n = 3
        BY <3>2
      <4>2. QED
        BY <1>1, <4>1, AddReading
    <3>4. state.vals[3] \in {0, 1} /\ FieldValue(0) = 0
      BY <1>1, <3>3, AddReading DEF AddsFirst, FieldValue
    <3>5. PICK r \in {0, 1} : r = state.vals[3]
      BY <3>4
    <3>6. Args(0)[1] = 0 /\ Args(0)[3] = r /\ Args(0)[4] = 0 /\ Len(Args(0)) = 4
      BY <2>1, <2>2, <3>3, <3>4, <3>5
    <3>7. Args(0) = <<0, Args(0)[2], r, 0>>
      <4> DEFINE a == Args(0)
                 t == <<0, a[2], r, 0>>
      <4>1. a[2] \in Int16
        BY <2>1, <3>6, ElementOfSeq
      <4>2. r \in Int16 /\ 0 \in Int16
        BY DEF Int16
      <4>3. t \in Seq(Int16) /\ Len(t) = 4
        <5> HIDE DEF a
        <5>1. QED
          BY <4>1, <4>2
      <4>4. t[1] = 0 /\ t[2] = a[2] /\ t[3] = r /\ t[4] = 0
        <5> HIDE DEF a
        <5>1. QED
          OBVIOUS
      <4>5. a \in Seq(Int16) /\ Len(a) = 4 /\ a[1] = 0 /\ a[3] = r /\ a[4] = 0
        BY <2>1, <3>6
      <4> HIDE DEF a, t
      <4>6. \A i \in 1 .. 4 : a[i] = t[i]
        <5>1. \A i \in 1 .. 4 : i = 1 \/ i = 2 \/ i = 3 \/ i = 4
          OBVIOUS
        <5>2. QED
          BY <4>4, <4>5, <5>1
      <4>7. a = t
        BY <4>3, <4>5, <4>6, SeqEqual
      <4>8. QED
        BY <4>7 DEF a, t
    <3>8. QED
      BY <3>1, <3>7, AddReading, AddEnds
  <2>7. QED
    BY <2>5, <2>6
<1>4. QED
  BY <1>2, <1>3

LEMMA ZeroTame ==
  ASSUME IInv, Tame, DataReceived(0)
  PROVE  Tame'
<1>0. 0 \in Bytes /\ COMMAND_RESET = 0
  BY DEF Bytes, COMMAND_RESET
<1>1. CASE OnMalformedCommand
  BY <1>1, MalformedIsDeaf
<1>2. CASE state.cmd = COMMAND_ADD_ACTION
  BY <1>2, ZeroAddTame
<1>3. CASE state.cmd = NoCommand
  <2>1. ProcessReset(0)
    BY <1>0, <1>3, CommandByte DEF ProcessCommand, CommandFromStranger, ProcessReturn,
       ProcessArguments, UnknownCommand, ArgumentCommands, AddCommands, RemoveCommands,
       COMMAND_RESET, COMMAND_PING, COMMAND_ADD_ACTION, COMMAND_ADD_EVENT,
       COMMAND_ADD_PROPERTY, COMMAND_REMOVE_ACTION, COMMAND_REMOVE_EVENT,
       COMMAND_REMOVE_PROPERTY, COMMAND_RAISE_EVENT, COMMAND_RETURN
  <2>2. registry' = registry \/ registry' = {}
    BY <2>1 DEF ProcessReset, OnDisconnect
  <2>3. state'.cmd = COMMAND_RESET
    BY <1>0, <2>1, IdleReader DEF ProcessReset
  <2>4. QED
    BY <1>0, <2>2, <2>3, TameAfter DEF Tame
<1>4. CASE /\ state.cmd \in {COMMAND_RESET, COMMAND_PING, COMMAND_RETURN}
           /\ ~OnMalformedCommand
  <2>1. state.cmd # NoCommand /\ state \in Parsers
    BY <1>4, InvParts DEF TypeOK, COMMAND_RESET, COMMAND_PING, COMMAND_RETURN, NoCommand
  <2>2. ProcessField(0)
    BY <2>1 DEF DataReceived, ProcessCommand, CommandFromStranger, ProcessReset,
       ProcessReturn, ProcessArguments, UnknownCommand
  <2>3. ~FinishAdd(0) /\ ~FinishRemove(0) /\ ~FinishRaise(0)
    BY <1>4 DEF FinishAdd, FinishRemove, FinishRaise, AddCommands, RemoveCommands,
       COMMAND_RESET, COMMAND_PING, COMMAND_ADD_ACTION, COMMAND_ADD_EVENT,
       COMMAND_ADD_PROPERTY, COMMAND_REMOVE_ACTION, COMMAND_REMOVE_EVENT,
       COMMAND_REMOVE_PROPERTY, COMMAND_RAISE_EVENT, COMMAND_RETURN
  <2>4. registry' = registry
    BY <1>4, <2>2, <2>3 DEF ProcessField, ReadPart, AbsorbReset, RejectField, NextField,
       FinishCommand, Connect, FinishReturn, FinishPing
  <2>5. state'.cmd = state.cmd \/ state' = Idle
    <3>1. CASE ReadPart(0)
      BY <2>1, <3>1 DEF ReadPart, Parsers
    <3>2. CASE AbsorbReset(0)
      BY <1>4, <2>1, <3>2 DEF AbsorbReset, Parsers
    <3>3. CASE NextField(0)
      BY <2>1, <3>3 DEF NextField, Parsers
    <3>4. CASE FinishCommand(0)
      BY <1>4, <2>3, <3>4 DEF FinishCommand, Connect, FinishReturn, FinishPing
    <3>5. QED
      BY <1>4, <2>2, <3>1, <3>2, <3>3, <3>4 DEF ProcessField, RejectField
  <2>6. QED
    BY <1>0, <1>4, <2>4, <2>5, IdleIsParser, TameAfter DEF Tame
<1>5. QED
  BY <1>1, <1>2, <1>3, <1>4 DEF Tame

-----------------------------------------------------------------------------
(***************************************************************************)
(* The router at every place.                                              *)
(***************************************************************************)
LongReset == RESET_LENGTH \in Nat /\ RESET_LENGTH >= LENGTH_OF_RESET_COMMAND

LEMMA ZerosType ==
  ASSUME IInv
  PROVE  ZerosToReset \in Int
<1>1. CASE state.cmd = NoCommand
  BY <1>1 DEF ZerosToReset
<1>2. CASE state.cmd # NoCommand /\ Field = "Byte"
  BY <1>2, InvParts, ValueFields DEF ZerosToReset
<1>3. CASE state.cmd # NoCommand /\ Field # "Byte"
  <2>1. PICK z \in 2 .. 9 : z = ZerosToReset
    BY <1>3, InvParts, ZerosInField
  <2>2. QED
    BY <2>1
<1>4. QED
  BY <1>1, <1>2, <1>3

LEMMA NextZerosType == IInv' => ZerosToReset' \in Int
<1>1. IInv => ZerosToReset \in Int
  BY ZerosType
<1>2. (IInv => ZerosToReset \in Int)'
  BY <1>1, PTL
<1>3. QED
  BY <1>2

(* No place is past what the zeros of a reset can repair.                  *)
LEMMA AtZeros ==
  ASSUME IInv, LongReset, transport # "none" \/ state = Idle
  PROVE  RouterAt(Zeros(0))
<1>1. ZerosToReset < LENGTH_OF_RESET_COMMAND
  BY ZerosBounded
<1>2. Zeros(0)[1] = "zeros" /\ Zeros(0)[2] = 0
  BY DEF Zeros
<1>3. ZerosToReset \in Int
  BY ZerosType
<1>4. ZerosToReset <= RESET_LENGTH - 0
  <2>1. PICK z \in Int : z = ZerosToReset
    BY <1>3
  <2>2. z < 10 /\ RESET_LENGTH \in Nat /\ RESET_LENGTH >= 10
    BY <1>1, <2>1 DEF LENGTH_OF_RESET_COMMAND, LongReset
  <2>3. z <= RESET_LENGTH - 0
    BY <2>2
  <2>4. QED
    BY <2>1, <2>3
<1>5. QED
  BY <1>2, <1>4 DEF RouterAt, EnoughZeros

LEMMA NextAtZeros ==
  LongReset /\ IInv' /\ (transport' # "none" \/ state' = Idle) => RouterAt(Zeros(0))'
<1>1. LongReset /\ IInv /\ (transport # "none" \/ state = Idle) => RouterAt(Zeros(0))
  BY AtZeros
<1>2. (LongReset /\ IInv /\ (transport # "none" \/ state = Idle) => RouterAt(Zeros(0)))'
  BY <1>1, PTL
<1>3. QED
  BY <1>2

(* A router that ignores the device may be at any place.                   *)
LEMMA DeafAnywhere ==
  ASSUME Deaf', deferred_returns' = <<>>, transport' = "open", NEW p
  PROVE  RouterAt(p)'
<1>1. IntegersAwaited'
  BY DEF IntegersAwaited
<1>2. QED
  BY <1>1, Zenon DEF RouterAt

LEMMA AbsorbingAt ==
  ASSUME Absorbing', deferred_returns' = <<>>, transport' = "open", NEW p, AbsorbsAt(p)
  PROVE  RouterAt(p)'
<1>1. IntegersAwaited'
  BY DEF IntegersAwaited
<1>2. AbsorbsAt(p)'
  BY DEF AbsorbsAt, Middles
<1>3. QED
  BY <1>1, <1>2, Zenon DEF RouterAt

LEMMA FollowsAt ==
  ASSUME IntegersAwaited', transport' = "open", NEW p, Follows(p)'
  PROVE  RouterAt(p)'
BY Zenon DEF RouterAt

(* What the bytes that rouse a router are followed by.                     *)
LEMMA ZeroSent ==
  ASSUME NEW p, NEW q, Sends(p, COMMAND_RESET, q)
  PROVE  AbsorbsAt(q)
BY DEF Sends, AbsorbsAt, Middles, Zeros, Start, COMMAND_RESET, END_OF_RESET, COMMAND_PING,
   COMMAND_RETURN, COMMAND_ADD_ACTION

LEMMA EndSent ==
  ASSUME NEW p, NEW q, AbsorbsAt(p), Sends(p, END_OF_RESET, q)
  PROVE  q = Start("id")
BY DEF Sends, AbsorbsAt, Middles, Zeros, Start, LooksLikeReset, COMMAND_RESET, END_OF_RESET,
   COMMAND_PING, COMMAND_RETURN, COMMAND_ADD_ACTION

LEMMA DeafStep ==
  ASSUME IInv, Tame, Deaf, NEW b \in Bytes, DataReceived(b), NEW p, NEW q, Sends(p, b, q)
  PROVE  Tame' /\ RouterAt(q)'
<1>1. transport' = "open"
  BY DEF DataReceived
<1>2. CASE b = COMMAND_RESET
  <2>1. Absorbing' /\ deferred_returns' = <<>> /\ Tame'
    BY <1>2, DeafByte
  <2>2. AbsorbsAt(q)
    BY <1>2, ZeroSent
  <2>3. QED
    BY <1>1, <2>1, <2>2, AbsorbingAt
<1>3. CASE b # COMMAND_RESET
  BY <1>1, <1>3, DeafByte, DeafAnywhere
<1>4. QED
  BY <1>2, <1>3

LEMMA AbsorbingStep ==
  ASSUME IInv, Tame, Absorbing, NEW b \in Bytes, DataReceived(b), NEW p, NEW q,
         AbsorbsAt(p), Sends(p, b, q)
  PROVE  Tame' /\ RouterAt(q)'
<1>1. transport' = "open" /\ deferred_returns' = <<>> /\ Tame'
  BY AbsorbingByte DEF DataReceived
<1>2. CASE b = COMMAND_RESET
  BY <1>1, <1>2, AbsorbingByte, ZeroSent, AbsorbingAt
<1>3. CASE b = END_OF_RESET
  <2>1. q = Start("id") /\ q[1] = "id"
    BY <1>3, EndSent DEF Start
  <2>2. Resetting(<<END_OF_RESET>>, <<>>)'
    BY <1>3, AbsorbingByte
  <2>3. Follows(q)' /\ IntegersAwaited'
    BY <1>1, <2>1, <2>2 DEF Follows, IntegersAwaited
  <2>4. QED
    BY <1>1, <2>3, FollowsAt
<1>4. CASE b \notin {COMMAND_RESET, END_OF_RESET}
  BY <1>1, <1>4, AbsorbingByte, DeafAnywhere
<1>5. QED
  BY <1>2, <1>3, <1>4

LEMMA QueueStaysIntegers ==
  ASSUME IntegersAwaited, deferred_returns' = <<>> \/ deferred_returns' = deferred_returns
  PROVE  IntegersAwaited'
<1>1. CASE deferred_returns' = <<>>
  BY <1>1 DEF IntegersAwaited
<1>2. CASE deferred_returns' = deferred_returns
  BY <1>2 DEF IntegersAwaited
<1>3. QED
  BY <1>1, <1>2

(* A step that follows the device, or that goes deaf.                      *)
LEMMA FollowsOrDeaf ==
  ASSUME Tame', IntegersAwaited', NEW b, DataReceived(b), NEW q,
         \/ Deaf' /\ deferred_returns' = <<>>
         \/ Follows(q)'
  PROVE  Tame' /\ RouterAt(q)'
<1>1. transport' = "open"
  BY DEF DataReceived
<1>2. CASE Deaf' /\ deferred_returns' = <<>>
  BY <1>1, <1>2, DeafAnywhere
<1>3. CASE Follows(q)'
  BY <1>1, <1>3, FollowsAt
<1>4. QED
  BY <1>2, <1>3

LEMMA FollowReset ==
  ASSUME IInv, Tame, IntegersAwaited, NEW p, NEW b \in Bytes, NEW q, Follows(p),
         Sends(p, b, q), DataReceived(b), p[1] \in {"id", "id2", "name", "name2"}
  PROVE  Tame' /\ RouterAt(q)'
<1>1. CASE p[1] = "id"
  <2>1. Resetting(<<END_OF_RESET>>, <<>>) /\ q = <<"id2", b>>
    BY <1>1 DEF Follows, Sends, Zeros, Start
  <2>2. Resetting(<<END_OF_RESET>>, <<b>>)' /\ Tame' /\ deferred_returns' = <<>>
    BY <2>1, ResetId
  <2>3. Follows(q)'
    BY <2>1, <2>2 DEF Follows
  <2>4. QED
    BY <2>2, <2>3, FollowsOrDeaf, QueueStaysIntegers
<1>2. CASE p[1] = "id2"
  <2>1. Resetting(<<END_OF_RESET>>, <<p[2]>>) /\ q = Start("name")
    BY <1>2 DEF Follows, Sends, Zeros, Start
  <2>2. /\ \E i \in Int16 : Resetting(<<END_OF_RESET, i>>, <<>>)'
        /\ Tame' /\ deferred_returns' = <<>>
    BY <2>1, ResetId2
  <2>3. Follows(q)'
    BY <2>1, <2>2 DEF Follows, Start
  <2>4. QED
    BY <2>2, <2>3, FollowsOrDeaf, QueueStaysIntegers
<1>3. CASE p[1] = "name"
  <2>1. PICK i \in Int16 : Resetting(<<END_OF_RESET, i>>, <<>>)
    BY <1>3 DEF Follows
  <2>2. b = 97 /\ b # 0 /\ q = Start("name2")
    BY <1>3 DEF Sends, Zeros, Start
  <2>3. Resetting(<<END_OF_RESET, i>>, <<97>>)' /\ Tame' /\ deferred_returns' = <<>>
    BY <2>1, <2>2, ResetName
  <2>4. Follows(q)'
    BY <2>2, <2>3 DEF Follows, Start
  <2>5. QED
    BY <2>3, <2>4, FollowsOrDeaf, QueueStaysIntegers
<1>4. CASE p[1] = "name2"
  <2>1. PICK i \in Int16 : Resetting(<<END_OF_RESET, i>>, <<97>>)
    BY <1>4 DEF Follows
  <2>2. b = 0 /\ q = Start("add")
    BY <1>4 DEF Sends, Zeros, Start
  <2>3. connected' /\ registry' = {} /\ state' = Idle /\ Tame' /\ deferred_returns' = <<>>
    BY <2>1, <2>2, ResetName2
  <2>4. Follows(q)'
    BY <2>2, <2>3 DEF Follows, Start
  <2>5. QED
    BY <2>3, <2>4, FollowsOrDeaf, QueueStaysIntegers
<1>5. QED
  BY <1>1, <1>2, <1>3, <1>4

LEMMA FollowAdd ==
  ASSUME IInv, Tame, IntegersAwaited, NEW p, NEW b \in Bytes, NEW q, Follows(p),
         Sends(p, b, q), DataReceived(b),
         p[1] \in {"add", "slot", "slot2", "path", "path2", "returns", "takes"}
  PROVE  Tame' /\ RouterAt(q)'
<1>1. CASE p[1] = "add"
  <2>1. connected /\ registry = {} /\ state = Idle
    BY <1>1 DEF Follows
  <2>2. b = COMMAND_ADD_ACTION /\ q = Start("slot")
    BY <1>1 DEF Sends, Zeros, Start
  <2>3. Adding(<<>>, <<>>)' /\ Tame' /\ deferred_returns' = deferred_returns
    BY <2>1, <2>2, AddBegins
  <2>4. Follows(q)'
    BY <2>2, <2>3 DEF Follows, Start
  <2>5. QED
    BY <2>3, <2>4, FollowsOrDeaf, QueueStaysIntegers
<1>2. CASE p[1] = "slot"
  <2>1. Adding(<<>>, <<>>)
    BY <1>2 DEF Follows
  <2>2. b = 0 /\ q = Start("slot2")
    BY <1>2 DEF Sends, Zeros, Start
  <2>3. Adding(<<>>, <<0>>)' /\ Tame' /\ deferred_returns' = deferred_returns
    BY <2>1, <2>2, AddSlot
  <2>4. Follows(q)'
    BY <2>2, <2>3 DEF Follows, Start
  <2>5. QED
    BY <2>3, <2>4, FollowsOrDeaf, QueueStaysIntegers
<1>3. CASE p[1] = "slot2"
  <2>1. Adding(<<>>, <<0>>)
    BY <1>3 DEF Follows
  <2>2. b = 0 /\ q = Start("path")
    BY <1>3 DEF Sends, Zeros, Start
  <2>3. Adding(<<0>>, <<>>)' /\ Tame' /\ deferred_returns' = deferred_returns
    BY <2>1, <2>2, AddSlot2
  <2>4. Follows(q)'
    BY <2>2, <2>3 DEF Follows, Start
  <2>5. QED
    BY <2>3, <2>4, FollowsOrDeaf, QueueStaysIntegers
<1>4. CASE p[1] = "path"
  <2>1. Adding(<<0>>, <<>>)
    BY <1>4 DEF Follows
  <2>2. b = 97 /\ q = Start("path2")
    BY <1>4 DEF Sends, Zeros, Start
  <2>3. Adding(<<0>>, <<97>>)' /\ Tame' /\ deferred_returns' = deferred_returns
    BY <2>1, <2>2, AddPath
  <2>4. Follows(q)'
    BY <2>2, <2>3 DEF Follows, Start
  <2>5. QED
    BY <2>3, <2>4, FollowsOrDeaf, QueueStaysIntegers
<1>5. CASE p[1] = "path2"
  <2>1. Adding(<<0>>, <<97>>)
    BY <1>5 DEF Follows
  <2>2. b = 0 /\ q = Start("returns")
    BY <1>5 DEF Sends, Zeros, Start
  <2>3. Adding(<<0, 97>>, <<>>)' /\ Tame' /\ deferred_returns' = deferred_returns
    BY <2>1, <2>2, AddPath2
  <2>4. Follows(q)'
    BY <2>2, <2>3 DEF Follows, Start
  <2>5. QED
    BY <2>3, <2>4, FollowsOrDeaf, QueueStaysIntegers
<1>6. CASE p[1] = "returns"
  <2>1. Adding(<<0, 97>>, <<>>)
    BY <1>6 DEF Follows
  <2>2. b = 1 /\ q = Start("takes")
    BY <1>6 DEF Sends, Zeros, Start
  <2>3. Adding(<<0, 97, 1>>, <<>>)' /\ Tame' /\ deferred_returns' = deferred_returns
    BY <2>1, <2>2, AddReturns
  <2>4. Follows(q)'
    BY <2>2, <2>3 DEF Follows, Start
  <2>5. QED
    BY <2>3, <2>4, FollowsOrDeaf, QueueStaysIntegers
<1>7. CASE p[1] = "takes"
  <2>1. Adding(<<0, 97, 1>>, <<>>)
    BY <1>7 DEF Follows
  <2>2. b = 1 /\ q = Start("command")
    BY <1>7 DEF Sends, Zeros, Start
  <2>3. /\ Tame'
        /\ \/ Deaf' /\ deferred_returns' = <<>>
           \/ Linked(Idle)' /\ deferred_returns' = deferred_returns
    BY <2>1, <2>2, AddTakes
  <2>4. Linked(Idle)' => Follows(q)'
    BY <2>2 DEF Follows, Start
  <2>5. QED
    BY <2>3, <2>4, FollowsOrDeaf, QueueStaysIntegers
<1>8. QED
  BY <1>1, <1>2, <1>3, <1>4, <1>5, <1>6, <1>7

LEMMA FollowCommand ==
  ASSUME IInv, Tame, IntegersAwaited, NEW p, NEW b \in Bytes, NEW q, Follows(p),
         Sends(p, b, q), DataReceived(b),
         p[1] \in {"command", "ping", "ping2", "answer", "answer2"}
  PROVE  Tame' /\ RouterAt(q)'
<1>1. CASE p[1] = "command"
  <2>1. Linked(Idle)
    BY <1>1 DEF Follows
  <2>2. \/ b = COMMAND_PING /\ q = Start("ping")
        \/ b = COMMAND_RETURN /\ q = Start("answer")
    BY <1>1 DEF Sends, Zeros, Start
  <2>3. CASE b = COMMAND_PING /\ q = Start("ping")
    <3>1. /\ Linked(Reader(COMMAND_PING, <<>>, <<>>))' /\ Tame'
          /\ deferred_returns' = deferred_returns
      BY <2>1, <2>3, PingBegins
    <3>2. Follows(q)'
      BY <2>3, <3>1 DEF Follows, Start
    <3>3. QED
      BY <3>1, <3>2, FollowsOrDeaf, QueueStaysIntegers
  <2>4. CASE b = COMMAND_RETURN /\ q = Start("answer")
    <3>1. /\ Tame' /\ IntegersAwaited'
          /\ \/ Deaf' /\ deferred_returns' = <<>>
             \/ Returning(<<>>)'
      BY <2>1, <2>4, ReturnBegins
    <3>2. Returning(<<>>)' => Follows(q)'
      BY <2>4 DEF Follows, Start
    <3>3. QED
      BY <3>1, <3>2, FollowsOrDeaf
  <2>5. QED
    BY <2>2, <2>3, <2>4
<1>2. CASE p[1] = "ping"
  <2>1. Linked(Reader(COMMAND_PING, <<>>, <<>>)) /\ q = <<"ping2", b>>
    BY <1>2 DEF Follows, Sends, Zeros, Start
  <2>2. /\ Linked(Reader(COMMAND_PING, <<>>, <<b>>))' /\ Tame'
        /\ deferred_returns' = deferred_returns
    BY <2>1, PingId
  <2>3. Follows(q)'
    BY <2>1, <2>2 DEF Follows
  <2>4. QED
    BY <2>2, <2>3, FollowsOrDeaf, QueueStaysIntegers
<1>3. CASE p[1] = "ping2"
  <2>1. Linked(Reader(COMMAND_PING, <<>>, <<p[2]>>)) /\ q = Start("command")
    BY <1>3 DEF Follows, Sends, Zeros, Start
  <2>2. /\ Tame'
        /\ \/ Deaf' /\ deferred_returns' = <<>>
           \/ Linked(Idle)' /\ deferred_returns' = deferred_returns
    BY <2>1, PingId2
  <2>3. Linked(Idle)' => Follows(q)'
    BY <2>1 DEF Follows, Start
  <2>4. QED
    BY <2>2, <2>3, FollowsOrDeaf, QueueStaysIntegers
<1>4. CASE p[1] = "answer"
  <2>1. Returning(<<>>) /\ q = <<"answer2", b>>
    BY <1>4 DEF Follows, Sends, Zeros, Start
  <2>2. Returning(<<b>>)' /\ Tame' /\ deferred_returns' = deferred_returns
    BY <2>1, ReturnValue
  <2>3. Follows(q)'
    BY <2>1, <2>2 DEF Follows
  <2>4. QED
    BY <2>2, <2>3, FollowsOrDeaf, QueueStaysIntegers
<1>5. CASE p[1] = "answer2"
  <2>1. Returning(<<p[2]>>) /\ q = Start("command")
    BY <1>5 DEF Follows, Sends, Zeros, Start
  <2>2. Linked(Idle)' /\ Tame' /\ deferred_returns' = deferred_returns
    BY <2>1, ReturnValue2
  <2>3. Follows(q)'
    BY <2>1, <2>2 DEF Follows, Start
  <2>4. QED
    BY <2>2, <2>3, FollowsOrDeaf, QueueStaysIntegers
<1>6. QED
  BY <1>1, <1>2, <1>3, <1>4, <1>5

LEMMA FollowStep ==
  ASSUME IInv, Tame, IntegersAwaited, NEW p, NEW b \in Bytes, NEW q, Follows(p),
         Sends(p, b, q), DataReceived(b)
  PROVE  Tame' /\ RouterAt(q)'
<1>1. \/ p[1] \in {"id", "id2", "name", "name2"}
      \/ p[1] \in {"add", "slot", "slot2", "path", "path2", "returns", "takes"}
      \/ p[1] \in {"command", "ping", "ping2", "answer", "answer2"}
  BY DEF Follows
<1>2. QED
  BY <1>1, FollowReset, FollowAdd, FollowCommand


(* At the end of the zeros it has absorbed some, whatever it was doing.    *)
LEMMA NoZerosNeeded ==
  ASSUME IInv, NEW n \in Int, n <= 0, n = ZerosToReset
  PROVE  Absorbing
<1>0. TypeOK /\ ParserOK /\ LinkOK /\ state \in Parsers
  BY InvParts DEF TypeOK
<1>1. state.cmd # NoCommand
  <2>1. CASE state.cmd = NoCommand
    <3>1. n = 1
      BY <2>1 DEF ZerosToReset
    <3>2. QED
      BY <3>1
  <2>2. QED
    BY <2>1
<1>2. Field = "Byte"
  <2>1. CASE Field # "Byte"
    <3>1. PICK z \in 2 .. 9 : z = ZerosToReset
      BY <1>0, <1>1, <2>1, ZerosInField
    <3>2. QED
      BY <3>1
  <2>2. QED
    BY <2>1
<1>3. state.cmd = COMMAND_RESET /\ state.vals = <<>> /\ SubFsm = "Byte"
  BY <1>0, <1>1, <1>2, ValueFields, SubFsmType
<1>4. state # Idle
  BY <1>1, IdleIsParser
<1>5. state.part \in Seq(Bytes) /\ Len(state.part) <= 0 /\ state.popped = <<>>
  BY <1>0, <1>3, <1>4 DEF ParserOK, Parsers, COMMAND_RESET, COMMAND_RETURN
<1>6. state.part = <<>>
  <2>1. PICK m \in Nat : m = Len(state.part)
    BY <1>5, LenProperties
  <2>2. m = 0
    BY <1>5, <2>1
  <2>3. QED
    BY <1>5, <2>1, <2>2, EmptySeq
<1>7. state = [cmd |-> state.cmd, vals |-> state.vals, part |-> state.part,
               popped |-> state.popped]
  BY <1>0 DEF Parsers
<1>8. state = Reader(COMMAND_RESET, <<>>, <<>>)
  BY <1>3, <1>5, <1>6, <1>7 DEF Reader
<1>9. ~connected
  BY <1>0, <1>3 DEF LinkOK
<1>10. QED
  BY <1>8, <1>9 DEF Absorbing

(* Each zero is one fewer to come and one fewer needed.                    *)
LEMMA ZerosStep ==
  ASSUME IInv, Tame, LongReset, NEW p, EnoughZeros(p),
         NEW b \in Bytes, DataReceived(b), NEW q, Sends(p, b, q)
  PROVE  Tame' /\ RouterAt(q)'
<1>1. PICK z \in Int : z = ZerosToReset
  BY ZerosType
<1>2. PICK l \in Nat : l = RESET_LENGTH
  BY DEF LongReset
<1>3. \/ \E k \in 0 .. l : /\ p = Zeros(k) /\ k # l
                           /\ b = COMMAND_RESET /\ q = Zeros(k + 1)
      \/ p = Zeros(l) /\ b = END_OF_RESET /\ q = Start("id")
  BY <1>2 DEF Sends, EnoughZeros, Start
<1>4. CASE \E k \in 0 .. l : /\ p = Zeros(k) /\ k # l
                             /\ b = COMMAND_RESET /\ q = Zeros(k + 1)
  <2>1. PICK k \in 0 .. l : /\ p = Zeros(k) /\ k # l
                            /\ b = COMMAND_RESET /\ q = Zeros(k + 1)
    BY <1>4
  <2>2. z <= l - k
    BY <1>1, <1>2, <2>1 DEF EnoughZeros, Zeros
  <2>3. IInv'
    BY DataInv
  <2>5. PICK y \in Int : y = ZerosToReset'
    BY <2>3, NextZerosType
  <2>6. y < z \/ (z = 0 /\ y = 0)
    <3>1. ZerosToReset' < ZerosToReset \/ (ZerosToReset = 0 /\ ZerosToReset' = 0)
      BY <2>1, CommandNearer, ResetAbsorbed, FieldNearer
    <3>2. QED
      BY <1>1, <2>5, <3>1
  <2>7. y <= l - (k + 1)
    BY <2>2, <2>6, <2>1
  <2>8. q[1] = "zeros" /\ q[2] = k + 1
    BY <2>1 DEF Zeros
  <2>9. EnoughZeros(q)'
    BY <1>2, <2>5, <2>7, <2>8 DEF EnoughZeros
  <2>10. transport' # "none"
    BY DEF DataReceived
  <2>11. RouterAt(q)'
    BY <2>8, <2>9, <2>10, Zenon DEF RouterAt
  <2>12. Tame'
    BY <2>1, ZeroTame DEF COMMAND_RESET
  <2>13. QED
    BY <2>11, <2>12
<1>5. CASE p = Zeros(l) /\ b = END_OF_RESET /\ q = Start("id")
  <2>1. z <= l - l
    BY <1>1, <1>2, <1>5 DEF EnoughZeros, Zeros
  <2>2. z <= 0
    BY <2>1
  <2>3. Absorbing
    BY <1>1, <2>2, NoZerosNeeded
  <2>4. AbsorbsAt(p)
    BY <1>5 DEF AbsorbsAt, Zeros, Middles
  <2>5. QED
    BY <2>3, <2>4, AbsorbingStep
<1>6. QED
  BY <1>3, <1>4, <1>5

(* Every byte of the device's stream, from the zeros of a reset through    *)
(* the announcement to its pings and answers, takes the router to the      *)
(* place it takes the device to, or the router ignores what comes until    *)
(* the next zero: process_reset, process_add_action, process_ping and      *)
(* process_return take apart what InitialiseWithServer, Register, the ping *)
(* of MainLoop and OnRcvCallAction put together, wherever it was cut.      *)
THEOREM StreamFollowed ==
  ASSUME IInv, Tame, LongReset, NEW p, RouterAt(p),
         NEW b \in Bytes, DataReceived(b), NEW q, Sends(p, b, q)
  PROVE  Tame' /\ RouterAt(q)'
<1>1. CASE Deaf
  BY <1>1, DeafStep
<1>2. CASE Absorbing /\ AbsorbsAt(p)
  BY <1>2, AbsorbingStep
<1>3. CASE EnoughZeros(p)
  BY <1>3, ZerosStep
<1>4. CASE Follows(p)
  <2>1. p[1] # "zeros"
    BY <1>4 DEF Follows
  <2>2. QED
    BY <1>4, <2>1, FollowStep DEF RouterAt
<1>5. QED
  BY <1>1, <1>2, <1>3, <1>4 DEF RouterAt

(* What came after a byte whose handler raised an exception may be gone.   *)
LEMMA RaisesDeaf ==
  ASSUME IInv, Tame, NEW b \in Bytes, DataReceived(b), OnMalformedCommand
  PROVE  Tame' /\ \A q : RouterAt(q)'
<1>1. transport' = "open"
  BY DEF DataReceived
<1>2. QED
  BY <1>1, MalformedIsDeaf, DeafAnywhere


-----------------------------------------------------------------------------
(***************************************************************************)
(* The other callbacks.                                                    *)
(***************************************************************************)

(* One that leaves the parser, the link and the registrations alone.       *)
LEMMA StillAt ==
  ASSUME NEW p, RouterAt(p), UNCHANGED <<transport, connected, state, registry>>,
         p[1] # "zeros" => IntegersAwaited'
  PROVE  RouterAt(p)'
<1>1. Field' = Field
  BY DEF Field
<1>2. SubFsm' = SubFsm
  BY <1>1 DEF SubFsm
<1>3. ZerosToReset' = ZerosToReset
  BY <1>1, <1>2 DEF ZerosToReset
<1>4. EnoughZeros(p) => EnoughZeros(p)'
  BY <1>3 DEF EnoughZeros
<1>5. (Deaf => Deaf') /\ (Absorbing => Absorbing')
  BY DEF Deaf, Absorbing
<1>6. Follows(p) => Follows(p)'
  BY DEF Follows, Resetting, Adding, Linked, Returning
<1>7. AbsorbsAt(p) => AbsorbsAt(p)'
  BY DEF AbsorbsAt, Middles
<1>8. transport' = "none" => p = Zeros(0) /\ state' = Idle
  BY DEF RouterAt
<1>9. (Deaf \/ (Absorbing /\ AbsorbsAt(p)) \/ EnoughZeros(p) \/ Follows(p))'
  BY <1>4, <1>5, <1>6, <1>7 DEF RouterAt
<1>10. QED
  BY <1>8, <1>9, Zenon DEF RouterAt

LEMMA StillTame ==
  ASSUME Tame, UNCHANGED <<connected, state, registry, leaked>>,
         connected \/ deferred_returns' = deferred_returns
  PROVE  Tame'
BY DEF Tame, AddsFirst

LEMMA TickAt ==
  ASSUME Tame, Tick
  PROVE  Tame' /\ \A p : RouterAt(p) => RouterAt(p)'
<1>1. UNCHANGED <<transport, connected, state, registry, leaked, deferred_returns>>
  BY DEF Tick
<1>2. ASSUME NEW p, RouterAt(p)
      PROVE  RouterAt(p)'
  <2>1. p[1] # "zeros" => IntegersAwaited'
    BY <1>1, <1>2, QueueStaysIntegers DEF RouterAt
  <2>2. QED
    BY <1>1, <1>2, <2>1, StillAt
<1>3. QED
  BY <1>1, <1>2, StillTame

LEMMA MakeConnectionAt ==
  ASSUME IInv, Unstarted, Tame, LongReset, MakeConnection
  PROVE  Tame' /\ \A p : RouterAt(p) => RouterAt(p)'
<1>1. transport = "none" /\ transport' = "open"
  BY DEF MakeConnection
<1>2. IInv'
  BY MakeConnectionInv
<1>3. RouterAt(Zeros(0))'
  BY <1>1, <1>2, NextAtZeros
<1>4. Tame'
  BY DEF MakeConnection, Tame, AddsFirst
<1>5. QED
  BY <1>1, <1>3, <1>4 DEF RouterAt

LEMMA InactivityTimeoutAt ==
  ASSUME IInv, Tame, InactivityTimeout
  PROVE  Tame' /\ \A p : RouterAt(p)'
<1>1. transport = "open" /\ connected
  BY InvParts DEF LinkOK, InactivityTimeout, NoTimer
<1>2. Deaf' /\ deferred_returns' = <<>> /\ registry' = {} /\ leaked' = leaked
  BY DEF InactivityTimeout, OnDisconnect, Deaf
<1>3. Tame'
  BY <1>2, IdleIsParser DEF Tame, Deaf, NoCommand, COMMAND_ADD_ACTION
<1>4. transport' = "open"
  BY <1>1 DEF InactivityTimeout
<1>5. QED
  BY <1>2, <1>3, <1>4, DeafAnywhere

(* SHET calls what is registered, which returns an int unless zeros ended  *)
(* its announcement.                                                       *)
LEMMA CallAt ==
  ASSUME IInv, Tame, NEW o \in Callable("action"), NEW r \in Requests,
         NEW v, OnAction(o, r, v)
  PROVE  Tame' /\ \A p : RouterAt(p) => RouterAt(p)'
<1>1. o \in registry /\ connected /\ deferred_returns \in Seq(Deferreds)
  BY InvParts DEF Callable, Tame, LinkOK, TypeOK
<1>2. /\ UNCHANGED <<transport, connected, state, registry, leaked>>
      /\ deferred_returns' = Append(deferred_returns, [req |-> r, return_type |-> o.ret])
  BY DEF OnAction, Ask
<1>3. Tame'
  BY <1>1, <1>2, StillTame
<1>4. ASSUME NEW p, RouterAt(p), p[1] # "zeros"
      PROVE  IntegersAwaited'
  <2>1. Follows(p)
    BY <1>1, <1>4 DEF RouterAt, Deaf, Absorbing, EnoughZeros
  <2>2. registry = Announced
    BY <1>1, <2>1 DEF Follows, Resetting, Adding, Linked, Returning
  <2>3. o.ret = "Integer"
    BY <1>1, <2>2 DEF Announced
  <2>4. IntegersAwaited
    BY <1>4 DEF RouterAt
  <2>5. PICK n \in Nat : n = Len(deferred_returns)
    BY <1>1, LenProperties
  <2>6. /\ Len(deferred_returns') = n + 1
        /\ \A i \in 1 .. n : deferred_returns'[i] = deferred_returns[i]
        /\ deferred_returns'[n + 1].return_type = "Integer"
    BY <1>1, <1>2, <2>3, <2>5
  <2>7. \A i \in 1 .. n + 1 : i \in 1 .. n \/ i = n + 1
    OBVIOUS
  <2>8. QED
    BY <2>4, <2>5, <2>6, <2>7, Zenon DEF IntegersAwaited
<1>5. ASSUME NEW p, RouterAt(p)
      PROVE  RouterAt(p)'
  BY <1>2, <1>4, <1>5, StillAt
<1>6. QED
  BY <1>3, <1>5

-----------------------------------------------------------------------------
(***************************************************************************)
(* What the router writes.                                                 *)
(***************************************************************************)
LEMMA DataWrites ==
  ASSUME NEW b \in Bytes, DataReceived(b)
  PROVE  out'.bytes \in {<<>>, <<COMMAND_RESET>>}
<1>1. /\ Quiet => out'.bytes = <<>>
      /\ DeviceReset => out'.bytes \in {<<>>, <<COMMAND_RESET>>}
      /\ OnMalformedCommand => out'.bytes \in {<<>>, <<COMMAND_RESET>>}
  BY DEF Quiet, DeviceReset, OnMalformedCommand, Silent, Wrote
<1>2. ProcessCommand(b) => out'.bytes \in {<<>>, <<COMMAND_RESET>>}
  BY <1>1 DEF ProcessCommand, CommandFromStranger, ProcessReset, ProcessReturn,
     ServeReturn, ProcessArguments, UnknownCommand
<1>3. FinishCommand(b) => out'.bytes \in {<<>>, <<COMMAND_RESET>>}
  BY <1>1 DEF FinishCommand, Connect, FinishReturn, FinishPing, FinishAdd, FinishRemove,
     FinishRaise, Raised
<1>4. ProcessField(b) => out'.bytes \in {<<>>, <<COMMAND_RESET>>}
  BY <1>1, <1>3 DEF ProcessField, ReadPart, AbsorbReset, RejectField, NextField
<1>5. QED
  BY <1>2, <1>4 DEF DataReceived

(* A call: the id is 0, and an int follows if the action takes one.        *)
LEMMA CallWrites ==
  ASSUME Tame, NEW o \in Callable("action"), NEW r, NEW v, OnAction(o, r, v)
  PROVE  out'.bytes = <<COMMAND_CALL_ACTION>> \o <<0, 0>>
                         \o (IF o.arg = "Void" THEN <<>> ELSE EncodeInteger(v))
<1>1. o.id = 0 /\ o.arg \in {"Void", "Integer"}
  BY DEF Callable, Tame, Objects
<1>2. EncodeInteger(o.id) = <<0, 0>>
  <2>1. 0 % 256 = 0 /\ (0 \div 256) % 256 = 0
    OBVIOUS
  <2>2. QED
    BY <1>1, <2>1 DEF EncodeInteger
<1>3. Encode(o.arg, v) = IF o.arg = "Void" THEN <<>> ELSE EncodeInteger(v)
  BY <1>1 DEF Encode
<1>4. out'.bytes = <<COMMAND_CALL_ACTION>> \o EncodeInteger(o.id) \o Encode(o.arg, v)
  BY DEF OnAction, Ask, Wrote
<1>5. QED
  BY <1>2, <1>3, <1>4


-----------------------------------------------------------------------------
(***************************************************************************)
(* For who shares the connection with the router.                          *)
(***************************************************************************)

(* Nothing but the record of what it last wrote is changed by others.      *)
LEMMA OthersInv ==
  ASSUME IInv, out' = Silent,
         UNCHANGED <<transport, connected, connection_id, base_path, state, registry,
                     leaked, deferred_returns, call, inactivity_timer, since_reset>>
  PROVE  IInv'
<1>1. OutOK' /\ LinkTypes'
  BY InvParts DEF OutOK, LinkTypes, TypeOK, Silent, Outputs
<1>2. WaitersOK'
  BY QueueUntouched
<1>3. QED
  BY <1>1, <1>2, InvParts, LinkIdle DEF TypeOK

(* A new Client in the place of this one starts like this one did.         *)
LEMMA NewClient ==
  ASSUME IInv, leaked = {}, LongReset,
         transport' = "open", connected' = TRUE, inactivity_timer' = INACTIVITY_TIMEOUT,
         connection_id' = {}, base_path' = {}, state' = Idle, registry' = {},
         deferred_returns' = <<>>, since_reset' = RESET_COOLOFF_DELAY + 1, out' = Silent,
         UNCHANGED <<leaked, call>>
  PROVE  IInv' /\ Tame' /\ RouterAt(Zeros(0))'
<1>1. OutOK'
  BY CooloffAssumption DEF OutOK, Silent, Outputs
<1>2. LinkTypes'
  BY TimeoutAssumption DEF LinkTypes
<1>3. ParserOK' /\ state' \in Parsers /\ state'.cmd = NoCommand /\ ~ResetHalfRead'
  BY IdleParser
<1>4. TypeOK'
  BY <1>1, <1>2, <1>3, InvParts, TypeParts DEF TypeOK
<1>5. LinkOK'
  BY <1>3, TimeoutAssumption DEF LinkOK, NoTimer, NoCommand, COMMAND_RESET
<1>6. WaitersOK'
  <2>1. Pending' = <<>>
    BY IdleIsParser DEF Pending
  <2>2. QED
    BY <2>1, QueueEmptied
<1>7. IInv'
  BY <1>3, <1>4, <1>5, <1>6 DEF IInv
<1>8. Tame'
  BY <1>3 DEF Tame, NoCommand, COMMAND_ADD_ACTION
<1>9. QED
  BY <1>7, <1>8, NextAtZeros

LEMMA OutputBytes == IInv' => out'.bytes \in Seq(Bytes)
<1>1. IInv => out.bytes \in Seq(Bytes)
  BY InvParts DEF TypeOK, Outputs
<1>2. (IInv => out.bytes \in Seq(Bytes))'
  BY <1>1, PTL
<1>3. QED
  BY <1>2

(* Where the device is at the start of a command and nothing is on its     *)
(* way, a router that is connected is at the start of one as well, and     *)
(* what the device has announced is registered.                            *)
LEMMA AtCommand ==
  ASSUME RouterAt(Start("command")), connected
  PROVE  state = Idle /\ registry = Announced
<1>1. Start("command")[1] = "command"
  BY DEF Start
<1>2. Follows(Start("command"))
  BY <1>1 DEF RouterAt, Deaf, Absorbing, EnoughZeros
<1>3. QED
  BY <1>1, <1>2 DEF Follows, Linked

=============================================================================
