------------------------- MODULE RouterClientProofs -------------------------
(***************************************************************************)
(* Theorems about RouterClient, for every set of requests and values, every*)
(* peer and every pair of delays.                                          *)
(***************************************************************************)
EXTENDS RouterClient, SequenceTheorems, TLAPS

(***************************************************************************)
(* Integers on the wire (typefsm.py).                                      *)
(***************************************************************************)

LEMMA BytesAreIntegers ==
  ASSUME NEW b \in Bytes
  PROVE  b \in Int /\ 0 <= b /\ b <= 255
BY DEF Bytes

LEMMA ByteRemainder ==
  ASSUME NEW n \in Int
  PROVE  n % 256 \in Bytes /\ n \div 256 \in Int
BY DEF Bytes

LEMMA DivideByByte ==
  ASSUME NEW lo \in 0 .. 255, NEW n \in Int
  PROVE  (lo + 256 * n) % 256 = lo /\ (lo + 256 * n) \div 256 = n
BY SMTT(20)

(* Two bytes decode to a signed 16-bit integer.                            *)
LEMMA DecodeType ==
  ASSUME NEW lo \in Bytes, NEW hi \in Bytes
  PROVE  DecodeInteger(lo, hi) \in Int16
BY BytesAreIntegers DEF DecodeInteger, Int16

(* Any integer is encoded in two bytes.                                    *)
LEMMA EncodeIntegerType ==
  ASSUME NEW v \in Int
  PROVE  EncodeInteger(v) \in Seq(Bytes)
<1>1. v % 256 \in Bytes /\ (v \div 256) % 256 \in Bytes
  BY ByteRemainder
<1>2. QED
  BY <1>1 DEF EncodeInteger

(* What was decoded is encoded in the same two bytes: an id the device     *)
(* chose goes back to it unchanged.                                        *)
THEOREM EncodeDecoded ==
  ASSUME NEW lo \in Bytes, NEW hi \in Bytes
  PROVE  EncodeInteger(DecodeInteger(lo, hi)) = <<lo, hi>>
<1>0. PICK q \in Int : /\ DecodeInteger(lo, hi) = lo + 256 * q
                       /\ q % 256 = hi
  <2>0. lo \in 0 .. 255 /\ hi \in 0 .. 255 /\ hi - 256 \in Int
    BY DEF Bytes
  <2>1. CASE hi < 128
    <3>1. hi % 256 = hi
      BY <2>0
    <3>2. QED
      BY <2>0, <2>1, <3>1, BytesAreIntegers DEF DecodeInteger
  <2>2. CASE ~(hi < 128)
    <3>1. (hi - 256) % 256 = hi
      BY <2>0, <2>2
    <3>2. DecodeInteger(lo, hi) = lo + 256 * (hi - 256)
      BY <2>0, <2>2, BytesAreIntegers DEF DecodeInteger
    <3>3. QED
      BY <2>0, <3>1, <3>2
  <2>3. QED
    BY <2>1, <2>2
<1>1. (lo + 256 * q) % 256 = lo /\ (lo + 256 * q) \div 256 = q
  BY DivideByByte DEF Bytes
<1>2. QED
  BY <1>0, <1>1, Zenon DEF EncodeInteger

-----------------------------------------------------------------------------
(***************************************************************************)
(* The inductive invariant.  TypeOK is not inductive by itself: that the   *)
(* object a handler makes has types rests on the fields it has read        *)
(* (ParserOK); that a forgotten id is forgotten rests on which bytes can be*)
(* parsed while the link is down (LinkOK); that the Deferred popped has an *)
(* owner rests on the queue (WaitersOK).                                   *)
(***************************************************************************)

IInv == TypeOK /\ ParserOK /\ LinkOK /\ WaitersOK

FieldCommands == ArgumentCommands \cup {COMMAND_RESET, COMMAND_RETURN}

LEMMA CommandsAreBytes == FieldCommands \subseteq Bytes /\ NoCommand \notin Bytes
BY DEF FieldCommands, ArgumentCommands, AddCommands, RemoveCommands, Bytes,
  NoCommand, COMMAND_RESET, COMMAND_PING, COMMAND_ADD_ACTION,
  COMMAND_ADD_EVENT, COMMAND_ADD_PROPERTY, COMMAND_REMOVE_ACTION,
  COMMAND_REMOVE_EVENT, COMMAND_REMOVE_PROPERTY, COMMAND_RAISE_EVENT,
  COMMAND_RETURN

LEMMA SignatureCases ==
  ASSUME NEW c \in FieldCommands
  PROVE  /\ c = COMMAND_RESET => Signature(c) = <<"Byte", "Integer", "String">>
         /\ c = COMMAND_RETURN => Signature(c) = <<"Value">>
         /\ c = COMMAND_RAISE_EVENT => Signature(c) = <<"Integer", "Type", "Value">>
         /\ c = COMMAND_ADD_PROPERTY => Signature(c) = <<"Integer", "String", "Type">>
         /\ c = COMMAND_ADD_ACTION =>
              Signature(c) = <<"Integer", "String", "Type", "Type">>
         /\ c = COMMAND_ADD_EVENT => Signature(c) = <<"Integer", "String">>
         /\ c \in RemoveCommands \cup {COMMAND_PING} => Signature(c) = <<"Integer">>
BY DEF Signature, RemoveCommands, COMMAND_RESET, COMMAND_PING,
  COMMAND_ADD_ACTION, COMMAND_ADD_EVENT, COMMAND_ADD_PROPERTY,
  COMMAND_REMOVE_ACTION, COMMAND_REMOVE_EVENT, COMMAND_REMOVE_PROPERTY,
  COMMAND_RAISE_EVENT, COMMAND_RETURN

FieldKinds == {"Byte", "Integer", "String", "Type", "Value"}

LEMMA SignatureType ==
  ASSUME NEW c \in FieldCommands
  PROVE  /\ Signature(c) \in Seq(FieldKinds)
         /\ Len(Signature(c)) \in 1 .. 4
<1>1. CASE c = COMMAND_RESET
  <2>1. Signature(c) = <<"Byte", "Integer", "String">>
    BY <1>1, SignatureCases
  <2>2. QED
    BY <2>1 DEF FieldKinds
<1>2. CASE c = COMMAND_RAISE_EVENT
  <2>1. Signature(c) = <<"Integer", "Type", "Value">>
    BY <1>2, SignatureCases
  <2>2. QED
    BY <2>1 DEF FieldKinds
<1>3. CASE c = COMMAND_ADD_PROPERTY
  <2>1. Signature(c) = <<"Integer", "String", "Type">>
    BY <1>3, SignatureCases
  <2>2. QED
    BY <2>1 DEF FieldKinds
<1>4. CASE c = COMMAND_ADD_ACTION
  <2>1. Signature(c) = <<"Integer", "String", "Type", "Type">>
    BY <1>4, SignatureCases
  <2>2. QED
    BY <2>1 DEF FieldKinds
<1>5. CASE c = COMMAND_ADD_EVENT
  <2>1. Signature(c) = <<"Integer", "String">>
    BY <1>5, SignatureCases
  <2>2. QED
    BY <2>1 DEF FieldKinds
<1>6. CASE c = COMMAND_RETURN
  <2>1. Signature(c) = <<"Value">>
    BY <1>6, SignatureCases
  <2>2. QED
    BY <2>1 DEF FieldKinds
<1>7. CASE c \in RemoveCommands \cup {COMMAND_PING}
  <2>1. Signature(c) = <<"Integer">>
    BY <1>7, SignatureCases
  <2>2. QED
    BY <2>1 DEF FieldKinds
<1>8. QED
  BY <1>1, <1>2, <1>3, <1>4, <1>5, <1>6, <1>7
    DEF FieldCommands, ArgumentCommands, AddCommands

LEMMA IdleIsParser == Idle \in Parsers /\ Idle.cmd = NoCommand /\ Idle.popped = <<>>
BY DEF Idle, Parsers

LEMMA InitInv == Init => IInv
<1> SUFFICES ASSUME Init PROVE IInv
  OBVIOUS
<1> USE DEF Init
<1>1. TypeOK
  <2>1. call \in [Requests -> Outcomes]
    BY DEF Outcomes, Int16
  <2>2. out \in Outputs
    BY DEF Silent, Outputs
  <2>3. since_reset \in 0 .. RESET_COOLOFF_DELAY + 1
    BY CooloffAssumption
  <2>4. /\ deferred_returns \in Seq(Deferreds)
        /\ registry \in SUBSET Registrations
        /\ leaked \in SUBSET Registrations
        /\ connection_id \in SUBSET Int16
        /\ base_path \in SUBSET Bytes
    OBVIOUS
  <2>5. transport \in {"none", "open", "lost"} /\ connected \in BOOLEAN
    OBVIOUS
  <2>6. inactivity_timer \in {NoTimer} \cup 0 .. INACTIVITY_TIMEOUT
    OBVIOUS
  <2>7. state \in Parsers
    BY IdleIsParser
  <2>8. QED
    BY <2>1, <2>2, <2>3, <2>4, <2>5, <2>6, <2>7, Zenon DEF TypeOK
<1>2. ParserOK
  BY DEF ParserOK
<1>3. LinkOK
  BY IdleIsParser DEF LinkOK, ResetHalfRead, NoCommand, COMMAND_RESET, NoTimer
<1>4. WaitersOK
  BY IdleIsParser DEF WaitersOK, Pending
<1>5. QED
  BY <1>1, <1>2, <1>3, <1>4 DEF IInv

-----------------------------------------------------------------------------
(***************************************************************************)
(* What a suspended handler knows of its fields.                           *)
(***************************************************************************)

LEMMA ReadingFacts ==
  ASSUME TypeOK, ParserOK, state.cmd # NoCommand
  PROVE  /\ state.cmd \in FieldCommands
         /\ state.vals \in Seq(Int16)
         /\ state.part \in Seq(Bytes)
         /\ state.popped \in Seq(Deferreds)
         /\ Len(state.vals) \in Nat
         /\ Len(state.vals) + 1 \in 1 .. Len(Signature(state.cmd))
         /\ Field \in FieldKinds
<1>1. state # Idle
  BY IdleIsParser
<1>2. state.cmd \in FieldCommands /\ Len(state.vals) < Len(Signature(state.cmd))
  BY <1>1 DEF ParserOK, FieldCommands
<1>3. /\ state.vals \in Seq(Int16)
      /\ state.part \in Seq(Bytes)
      /\ state.popped \in Seq(Deferreds)
  BY DEF TypeOK, Parsers
<1>4. Len(state.vals) \in Nat
  BY <1>3, LenProperties
<1>5. /\ Signature(state.cmd) \in Seq(FieldKinds)
      /\ Len(Signature(state.cmd)) \in 1 .. 4
  BY <1>2, SignatureType
<1>6. Len(state.vals) + 1 \in 1 .. Len(Signature(state.cmd))
  BY <1>2, <1>4, <1>5
<1>7. Field \in FieldKinds
  BY <1>5, <1>6, ElementOfSeq DEF Field
<1>8. QED
  BY <1>2, <1>3, <1>4, <1>6, <1>7

LEMMA ValueFields ==
  ASSUME TypeOK, ParserOK, state.cmd # NoCommand
  PROVE  /\ Field = "Value" => \/ state.cmd = COMMAND_RETURN
                               \/ /\ state.cmd = COMMAND_RAISE_EVENT
                                  /\ Len(state.vals) = 2
         /\ Field = "Byte" => state.cmd = COMMAND_RESET /\ state.vals = <<>>
<1>0. /\ state.cmd \in FieldCommands
      /\ Len(state.vals) \in Nat
      /\ Len(state.vals) + 1 \in 1 .. Len(Signature(state.cmd))
  BY ReadingFacts
<1>0a. Len(Signature(state.cmd)) \in 1 .. 4
  BY <1>0, SignatureType
<1>0b. \A m \in 1 .. 4 : \A k \in 1 .. m : k \in 1 .. 4
  OBVIOUS
<1>0c. Len(state.vals) + 1 \in 1 .. 4
  BY <1>0, <1>0a, <1>0b, Zenon
<1>1. PICK n \in 1 .. 4 : n = Len(state.vals) + 1
  BY <1>0c, Zenon
<1>2. state.cmd \in FieldCommands /\ Len(state.vals) < Len(Signature(state.cmd))
  BY <1>0, <1>0a
<1>3. CASE state.cmd \in {COMMAND_RETURN, COMMAND_RESET}
  <2>1. Signature(COMMAND_RETURN) = <<"Value">>
    BY SignatureCases DEF FieldCommands
  <2>2. Signature(COMMAND_RESET) = <<"Byte", "Integer", "String">>
    BY SignatureCases DEF FieldCommands
  <2>3. Field = Signature(state.cmd)[n] /\ n <= Len(Signature(state.cmd))
    BY <1>1, ReadingFacts DEF Field
  <2>4. n = 1 => state.vals = <<>>
    BY <1>1, ReadingFacts, EmptySeq
  <2>5. CASE state.cmd = COMMAND_RETURN
    BY <2>5, <2>1, <2>3, <2>4
  <2>6. CASE state.cmd = COMMAND_RESET
    BY <2>6, <2>2, <2>3, <2>4
  <2>7. QED
    BY <1>3, <2>5, <2>6
<1>4. CASE state.cmd = COMMAND_RAISE_EVENT
  <2>1. Signature(state.cmd) = <<"Integer", "Type", "Value">>
    BY <1>2, <1>4, SignatureCases
  <2>2. Field = Signature(state.cmd)[n] /\ n <= Len(Signature(state.cmd))
    BY <1>1, ReadingFacts DEF Field
  <2>3. n \in 1 .. 3
    BY <2>1, <2>2
  <2>4. /\ n = 1 => Field = "Integer"
        /\ n = 2 => Field = "Type"
    BY <2>1, <2>2
  <2>5. n # 3 => n = 1 \/ n = 2
    BY <2>3
  <2>6. n = 3 => Len(state.vals) = 2
    <3>1. Len(state.vals) \in Nat
      BY ReadingFacts
    <3>2. \A k \in Nat : k + 1 = 3 => k = 2
      OBVIOUS
    <3>3. QED
      BY <1>1, <3>1, <3>2
  <2>7. n = 3 => Field = "Value"
    BY <2>1, <2>2
  <2>8. QED
    BY <1>4, <2>4, <2>5, <2>6, <2>7
<1>5. CASE state.cmd \in AddCommands \cup RemoveCommands \cup {COMMAND_PING}
  <2>1. Signature(state.cmd) \in {<<"Integer", "String", "Type">>,
                                  <<"Integer", "String", "Type", "Type">>,
                                  <<"Integer", "String">>, <<"Integer">>}
    BY <1>2, <1>5, SignatureCases, Zenon DEF AddCommands
  <2>2. Field = Signature(state.cmd)[n] /\ n <= Len(Signature(state.cmd))
    BY <1>1, ReadingFacts DEF Field
  <2>3. Field \in {"Integer", "String", "Type"}
    BY <1>1, <2>1, <2>2
  <2>4. QED
    BY <2>3
<1>6. QED
  BY <1>2, <1>3, <1>4, <1>5 DEF FieldCommands, ArgumentCommands

LEMMA SubFsmType ==
  ASSUME TypeOK, ParserOK, state.cmd # NoCommand
  PROVE  /\ SubFsm \in {"Byte", "Integer", "String", "Type"}
         /\ Field # "Value" => SubFsm = Field
         /\ Field = "Value" => SubFsm \in {"Integer", "String"}
<1>1. state # Idle
  BY IdleIsParser
<1>2. CASE Field # "Value"
  <2>1. SubFsm = Field
    BY <1>2 DEF SubFsm
  <2>2. QED
    BY <1>2, <2>1, ReadingFacts DEF FieldKinds
<1>3. CASE Field = "Value" /\ state.cmd = COMMAND_RETURN
  <2>1. Len(state.popped) = 1 /\ state.popped[1].return_type # "Void"
    BY <1>1, <1>3 DEF ParserOK
  <2>2. state.popped[1] \in Deferreds
    BY <2>1, ReadingFacts, ElementOfSeq
  <2>3. state.popped[1].return_type \in {"Integer", "String"}
    BY <2>1, <2>2 DEF Deferreds, Types
  <2>4. QED
    BY <1>3, <2>3 DEF SubFsm
<1>4. CASE Field = "Value" /\ state.cmd # COMMAND_RETURN
  <2>1. state.cmd = COMMAND_RAISE_EVENT /\ Len(state.vals) = 2
    BY <1>4, ValueFields
  <2>2. FieldOK(Signature(state.cmd)[2], state.vals[2])
    BY <1>1, <2>1 DEF ParserOK
  <2>3. Signature(state.cmd)[2] = "Type"
    BY <2>1, ReadingFacts, SignatureCases
  <2>4. state.vals[2] \in DOMAIN TypeOfCode
    BY <2>2, <2>3 DEF FieldOK
  <2>5. state.vals[2] # 0
    BY <1>1, <1>4, <2>1 DEF ParserOK
  <2>6. TypeOfCode[state.vals[2]] \in {"Integer", "String"}
    BY <2>4, <2>5 DEF TypeOfCode
  <2>7. QED
    BY <1>4, <2>6 DEF SubFsm
<1>5. QED
  BY <1>2, <1>3, <1>4

LEMMA ZeroTypes == 0 \in Int16 /\ 0 \in Bytes /\ Bytes \subseteq Int16
BY DEF Int16, Bytes

LEMMA ValueType ==
  ASSUME TypeOK, ParserOK, state.cmd # NoCommand, Field # "Byte",
         NEW b \in Bytes, EndsField(b), ~BadField(b)
  PROVE  /\ FieldValue(b) \in Int16
         /\ FieldOK(Field, FieldValue(b))
<1>1. CASE SubFsm = "Integer"
  <2>1. state.part # <<>>
    BY <1>1 DEF EndsField
  <2>2. state.part[1] \in Bytes
    BY <2>1, ReadingFacts, EmptySeq, ElementOfSeq
  <2>3. FieldValue(b) = DecodeInteger(state.part[1], b)
    BY <1>1 DEF FieldValue
  <2>4. FieldValue(b) \in Int16
    BY <2>2, <2>3, DecodeType
  <2>5. Field \in {"Integer", "Value"}
    BY <1>1, SubFsmType
  <2>6. QED
    BY <2>4, <2>5 DEF FieldOK
<1>2. CASE SubFsm = "String"
  <2>1. FieldValue(b) = IF state.part = <<>> THEN 0 ELSE state.part[1]
    BY <1>2 DEF FieldValue
  <2>2. state.part # <<>> => state.part[1] \in Bytes
    BY ReadingFacts, EmptySeq, ElementOfSeq
  <2>3. FieldValue(b) \in Bytes
    BY <2>1, <2>2, ZeroTypes
  <2>4. Field \in {"String", "Value"}
    BY <1>2, SubFsmType
  <2>5. QED
    BY <2>3, <2>4, ZeroTypes DEF FieldOK
<1>3. CASE SubFsm = "Type"
  <2>1. FieldValue(b) = b
    BY <1>3 DEF FieldValue
  <2>2. b \in DOMAIN TypeOfCode
    BY <1>3 DEF BadField
  <2>3. Field = "Type"
    BY <1>3, SubFsmType
  <2>4. QED
    BY <2>1, <2>2, <2>3, ZeroTypes DEF FieldOK
<1>4. SubFsm # "Byte"
  BY SubFsmType
<1>5. QED
  BY <1>1, <1>2, <1>3, <1>4, SubFsmType

(* The arguments read so far and the one this byte ends are what the       *)
(* signature asks for.                                                     *)
LEMMA ArgsType ==
  ASSUME TypeOK, ParserOK, state.cmd # NoCommand, Field # "Byte",
         NEW b \in Bytes, EndsField(b), ~BadField(b)
  PROVE  /\ Args(b) \in Seq(Int16)
         /\ Len(Args(b)) = Len(state.vals) + 1
         /\ Len(Args(b)) \in 1 .. Len(Signature(state.cmd))
         /\ \A i \in 1 .. Len(Args(b)) :
               FieldOK(Signature(state.cmd)[i], Args(b)[i])
         /\ Args(b)[Len(state.vals) + 1] = FieldValue(b)
         /\ \A i \in 1 .. Len(state.vals) : Args(b)[i] = state.vals[i]
<1>0. state # Idle
  BY IdleIsParser
<1>1. FieldValue(b) \in Int16 /\ FieldOK(Field, FieldValue(b))
  BY ValueType
<1>2. /\ state.vals \in Seq(Int16)
      /\ Len(state.vals) \in Nat
      /\ Len(state.vals) + 1 \in 1 .. Len(Signature(state.cmd))
  BY ReadingFacts
<1>3. /\ Args(b) \in Seq(Int16)
      /\ Len(Args(b)) = Len(state.vals) + 1
      /\ Args(b)[Len(state.vals) + 1] = FieldValue(b)
      /\ \A i \in 1 .. Len(state.vals) : Args(b)[i] = state.vals[i]
  BY <1>1, <1>2 DEF Args
<1>4. ASSUME NEW i \in 1 .. Len(Args(b))
      PROVE  FieldOK(Signature(state.cmd)[i], Args(b)[i])
  <2>1. CASE i = Len(state.vals) + 1
    BY <1>1, <1>3, <2>1 DEF Field
  <2>2. CASE i # Len(state.vals) + 1
    <3>1. i \in 1 .. Len(state.vals)
      BY <1>2, <1>3, <2>2
    <3>2. FieldOK(Signature(state.cmd)[i], state.vals[i])
      BY <1>0, <3>1 DEF ParserOK
    <3>3. QED
      BY <1>3, <3>1, <3>2
  <2>3. QED
    BY <2>1, <2>2
<1>5. QED
  BY <1>2, <1>3, <1>4

-----------------------------------------------------------------------------
(***************************************************************************)
(* What the shared effects do to each part of the invariant.               *)
(***************************************************************************)

OutOK == since_reset \in 0 .. RESET_COOLOFF_DELAY + 1 /\ out \in Outputs

LEMMA QuietOut == TypeOK /\ Quiet => OutOK'
BY DEF TypeOK, Quiet, OutOK, Silent, Outputs

LEMMA DeviceResetOut == TypeOK /\ DeviceReset => OutOK'
<1> SUFFICES ASSUME TypeOK, DeviceReset PROVE OutOK'
  OBVIOUS
<1>1. <<COMMAND_RESET>> \in Seq(Bytes)
  BY ZeroTypes DEF COMMAND_RESET
<1>2. CASE since_reset > RESET_COOLOFF_DELAY
  <2>1. out' = Wrote(<<COMMAND_RESET>>) /\ since_reset' = 0
    BY <1>2 DEF DeviceReset
  <2>2. out' \in Outputs
    BY <1>1, <2>1 DEF Wrote, Outputs
  <2>3. QED
    BY <2>1, <2>2, CooloffAssumption DEF OutOK
<1>3. CASE ~(since_reset > RESET_COOLOFF_DELAY)
  <2>1. out' = Silent /\ since_reset' = since_reset
    BY <1>3 DEF DeviceReset
  <2>2. QED
    BY <2>1 DEF OutOK, Silent, Outputs, TypeOK
<1>4. QED
  BY <1>2, <1>3

LinkTypes ==
    /\ connected \in BOOLEAN
    /\ base_path \in SUBSET Bytes
    /\ leaked \in SUBSET Registrations
    /\ inactivity_timer \in {NoTimer} \cup 0 .. INACTIVITY_TIMEOUT

LEMMA LinkUnchangedTypes == TypeOK /\ LinkUnchanged => LinkTypes'
BY TimeoutAssumption DEF TypeOK, LinkUnchanged, ResetInactivityTimer, LinkTypes

LEMMA TypeParts ==
  ASSUME LinkTypes', OutOK',
         transport' \in {"none", "open", "lost"},
         connection_id' \in SUBSET Int16,
         state' \in Parsers,
         registry' \in SUBSET Registrations,
         deferred_returns' \in Seq(Deferreds),
         call' \in [Requests -> Outcomes]
  PROVE  TypeOK'
BY Zenon DEF TypeOK, LinkTypes, OutOK

(* A byte that changes nothing of the link and keeps a half-read reset a   *)
(* half-read reset.                                                        *)
LEMMA LinkKept ==
  ASSUME LinkOK, TypeOK, ResetInactivityTimer,
         UNCHANGED <<transport, connected, base_path>>,
         connection_id' = connection_id,
         ~connected => registry' = registry /\ state'.cmd \in {NoCommand, COMMAND_RESET},
         connected => state'.cmd # COMMAND_RESET,
         ResetHalfRead' <=> ResetHalfRead
  PROVE  LinkOK'
<1>1. /\ connected' = connected
      /\ base_path' = base_path
      /\ (inactivity_timer' = NoTimer) <=> (inactivity_timer = NoTimer)
  BY TimeoutAssumption
    DEF ResetInactivityTimer, TypeOK, NoTimer
<1>2. CASE connected
  BY <1>1, <1>2 DEF LinkOK
<1>3. CASE ~connected
  BY <1>1, <1>3 DEF LinkOK
<1>4. QED
  BY <1>2, <1>3

(* A handler suspended before its first field.                             *)
LEMMA StartedParser ==
  ASSUME NEW c \in FieldCommands, c # COMMAND_RETURN, state' = Reading(c, <<>>)
  PROVE  state' \in Parsers /\ ParserOK' /\ ~ResetHalfRead' /\ state'.cmd = c
<1>1. /\ state'.cmd = c /\ state'.vals = <<>>
      /\ state'.part = <<>> /\ state'.popped = <<>>
  BY DEF Reading
<1>2. state' \in Parsers
  BY CommandsAreBytes DEF Reading, Parsers
<1>3. Len(state'.vals) = 0 /\ Len(state'.part) = 0
  BY <1>1
<1>4. Len(state'.vals) < Len(Signature(state'.cmd))
  <2>1. Len(Signature(c)) \in 1 .. 4
    BY SignatureType
  <2>2. Len(state'.vals) < Len(Signature(c))
    <3>1. PICK k \in 1 .. 4 : k = Len(Signature(c))
      BY <2>1
    <3>2. 0 < k
      OBVIOUS
    <3>3. QED
      BY <1>3, <3>1, <3>2
  <2>3. QED
    BY <1>1, <2>2, Zenon
<1>5. Field' # "Value" \/ c # COMMAND_RAISE_EVENT
  <2>1. CASE c = COMMAND_RAISE_EVENT
    <3>1. Signature(c) = <<"Integer", "Type", "Value">>
      BY <2>1, SignatureCases
    <3>2. QED
      BY <1>1, <1>3, <3>1 DEF Field
  <2>2. QED
    BY <2>1
<1>6. Len(state'.part) <= (IF SubFsm' \in {"Integer", "String"} THEN 1 ELSE 0)
  BY <1>3
<1>7. \A i \in 1 .. Len(state'.vals) :
         FieldOK(Signature(state'.cmd)[i], state'.vals[i])
  BY <1>3
<1>8. ParserOK'
  BY <1>1, <1>4, <1>5, <1>6, <1>7 DEF ParserOK, FieldCommands
<1>9. QED
  BY <1>1, <1>2, <1>3, <1>8 DEF ResetHalfRead

LEMMA IdleParser ==
  ASSUME state' = Idle
  PROVE  /\ state' \in Parsers /\ ParserOK' /\ ~ResetHalfRead'
         /\ state'.cmd = NoCommand
BY IdleIsParser DEF ParserOK, ResetHalfRead, NoCommand, COMMAND_RESET

-----------------------------------------------------------------------------
(***************************************************************************)
(* The queue of Deferreds.                                                 *)
(***************************************************************************)

(* A Deferred is in hand only while a RETURN is half read.                 *)
LEMMA PendingFacts ==
  ASSUME TypeOK, ParserOK
  PROVE  /\ state.popped \in Seq(Deferreds)
         /\ deferred_returns \in Seq(Deferreds)
         /\ Pending \in Seq(Deferreds)
         /\ state.cmd # COMMAND_RETURN =>
              state.popped = <<>> /\ Pending = deferred_returns
         /\ state.cmd = COMMAND_RETURN =>
              /\ Len(state.popped) = 1
              /\ Pending # <<>>
              /\ Head(Pending) = state.popped[1]
              /\ Tail(Pending) = deferred_returns
<1>1. /\ state.popped \in Seq(Deferreds)
      /\ deferred_returns \in Seq(Deferreds)
  BY DEF TypeOK, Parsers
<1>2. Pending \in Seq(Deferreds)
  BY <1>1, ConcatProperties DEF Pending
<1>3. CASE state.cmd # COMMAND_RETURN
  <2>1. state.popped = <<>>
    BY <1>3, IdleIsParser DEF ParserOK
  <2>2. Pending = deferred_returns
    BY <1>1, <2>1, ConcatEmptySeq DEF Pending
  <2>3. QED
    BY <1>1, <1>2, <1>3, <2>1, <2>2
<1>4. CASE state.cmd = COMMAND_RETURN
  <2>1. state # Idle
    BY <1>4, IdleIsParser DEF COMMAND_RETURN, NoCommand
  <2>2. Len(state.popped) = 1
    BY <1>4, <2>1 DEF ParserOK
  <2>3. PICK d \in Deferreds : d = state.popped[1]
    BY <1>1, <2>2, ElementOfSeq
  <2>4. Len(Pending) = 1 + Len(deferred_returns)
    <3>1. Len(Pending) = Len(state.popped) + Len(deferred_returns)
      BY <1>1, ConcatProperties DEF Pending
    <3>2. QED
      BY <2>2, <3>1
  <2>5. Len(deferred_returns) \in Nat
    BY <1>1, LenProperties
  <2>6. \A i \in 1 .. 1 + Len(deferred_returns) :
           Pending[i] = IF i <= 1 THEN state.popped[i] ELSE deferred_returns[i - 1]
    <3>1. \A i \in 1 .. Len(state.popped) + Len(deferred_returns) :
             Pending[i] = IF i <= Len(state.popped) THEN state.popped[i]
                          ELSE deferred_returns[i - Len(state.popped)]
      BY <1>1, ConcatProperties DEF Pending
    <3>2. QED
      BY <2>2, <3>1
  <2>7. Pending # <<>>
    BY <2>4, <2>5
  <2>8. Head(Pending) = state.popped[1]
    <3>1. Head(Pending) = Pending[1]
      BY <1>2, <2>7
    <3>2. QED
      BY <2>5, <2>6, <3>1
  <2>9. Tail(Pending) = deferred_returns
    <3>1. /\ Tail(Pending) \in Seq(Deferreds)
          /\ Len(Tail(Pending)) = Len(Pending) - 1
          /\ \A i \in 1 .. Len(Tail(Pending)) : Tail(Pending)[i] = Pending[i + 1]
      BY <1>2, <2>7, HeadTailProperties
    <3>2. Len(Tail(Pending)) = Len(deferred_returns)
      BY <2>4, <2>5, <3>1
    <3>3. \A i \in 1 .. Len(deferred_returns) :
             Tail(Pending)[i] = deferred_returns[i]
      BY <2>5, <2>6, <3>1, <3>2
    <3>4. QED
      BY <1>1, <3>1, <3>2, <3>3, SeqEqual
  <2>10. QED
    BY <1>1, <1>2, <1>4, <2>2, <2>7, <2>8, <2>9
<1>5. QED
  BY <1>3, <1>4

(* Nobody joins the queue and nobody leaves it.                            *)
LEMMA QueueKept ==
  ASSUME WaitersOK, Pending' = Pending, call' = call
  PROVE  WaitersOK'
BY DEF WaitersOK

LEMMA QueueEmptied ==
  ASSUME Pending' = <<>>
  PROVE  WaitersOK'
BY DEF WaitersOK

(* The oldest leaves, answered.                                            *)
LEMMA QueueServed ==
  ASSUME TypeOK, ParserOK, WaitersOK, Pending # <<>>,
         Pending' = Tail(Pending),
         NEW v, Answer(Head(Pending), v)
  PROVE  WaitersOK'
<1>1. Pending \in Seq(Deferreds)
  BY PendingFacts
<1>2. /\ Len(Pending) \in Nat \ {0}
      /\ Len(Tail(Pending)) = Len(Pending) - 1
      /\ \A i \in 1 .. Len(Tail(Pending)) : Tail(Pending)[i] = Pending[i + 1]
      /\ Head(Pending) = Pending[1]
  BY <1>1, HeadTailProperties, EmptySeq
<1>3. ASSUME NEW i \in 1 .. Len(Tail(Pending))
      PROVE  /\ i + 1 \in 1 .. Len(Pending)
             /\ Tail(Pending)[i] = Pending[i + 1]
             /\ Pending[i + 1].req # Head(Pending).req
             /\ Pending[i + 1].req \in Requests
  <2>1. i + 1 \in 1 .. Len(Pending) /\ 1 \in 1 .. Len(Pending) /\ i + 1 # 1
    BY <1>2
  <2>2. Pending[i + 1].req # Head(Pending).req
    BY <1>2, <2>1 DEF WaitersOK
  <2>3. Pending[i + 1] \in Deferreds
    BY <1>1, <2>1, ElementOfSeq
  <2>4. QED
    BY <1>2, <2>1, <2>2, <2>3 DEF Deferreds
<1>4. ASSUME NEW i \in 1 .. Len(Tail(Pending)), NEW j \in 1 .. Len(Tail(Pending)),
             Tail(Pending)[i].req = Tail(Pending)[j].req
      PROVE  i = j
  <2>1. i + 1 = j + 1
    BY <1>3, <1>4 DEF WaitersOK
  <2>2. QED
    BY <2>1
<1>5. ASSUME NEW i \in 1 .. Len(Tail(Pending))
      PROVE  call'[Tail(Pending)[i].req].status = "waiting"
  <2>1. call[Pending[i + 1].req].status = "waiting"
    BY <1>3 DEF WaitersOK
  <2>2. call'[Pending[i + 1].req] = call[Pending[i + 1].req]
    BY <1>3 DEF Answer, TypeOK
  <2>3. QED
    BY <1>3, <2>1, <2>2
<1>6. QED
  BY <1>4, <1>5 DEF WaitersOK

(* A request that is not waiting joins at the end.                         *)
LEMMA QueueJoined ==
  ASSUME TypeOK, WaitersOK, Pending \in Seq(Deferreds),
         NEW r \in Requests, NEW type \in Types,
         call[r].status # "waiting",
         Pending' = Append(Pending, [req |-> r, return_type |-> type]),
         call' = [call EXCEPT ![r] = [status |-> "waiting", value |-> 0]]
  PROVE  WaitersOK'
<1>1. PICK n \in Nat : n = Len(Pending)
  BY LenProperties
<1>2. /\ Len(Pending') = n + 1
      /\ \A i \in 1 .. n : Pending'[i] = Pending[i]
      /\ Pending'[n + 1].req = r
  BY <1>1
<1>3. ASSUME NEW i \in 1 .. n
      PROVE  /\ Pending[i].req \in Requests
             /\ call[Pending[i].req].status = "waiting"
  <2>1. Pending[i] \in Deferreds
    BY <1>1, ElementOfSeq
  <2>2. QED
    BY <1>1, <2>1 DEF WaitersOK, Deferreds
<1>4. ASSUME NEW i \in 1 .. n + 1
      PROVE  call'[Pending'[i].req].status = "waiting"
  <2>1. CASE i = n + 1
    BY <1>2, <2>1 DEF TypeOK
  <2>2. CASE i # n + 1
    <3>1. i \in 1 .. n
      BY <2>2
    <3>2. Pending'[i].req = Pending[i].req
      BY <1>2, <3>1
    <3>3. call'[Pending[i].req] = call[Pending[i].req]
      BY <1>3, <3>1 DEF TypeOK
    <3>4. QED
      BY <1>3, <3>1, <3>2, <3>3
  <2>3. QED
    BY <2>1, <2>2
<1>5. ASSUME NEW i \in 1 .. n + 1, NEW j \in 1 .. n + 1,
             Pending'[i].req = Pending'[j].req
      PROVE  i = j
  <2>1. ASSUME NEW k \in 1 .. n PROVE Pending'[k].req # r
    BY <1>2, <1>3, <2>1
  <2>2. \A k \in 1 .. n + 1 : k = n + 1 \/ k \in 1 .. n
    OBVIOUS
  <2>3. CASE i \in 1 .. n /\ j \in 1 .. n
    BY <1>1, <1>2, <1>5, <2>3 DEF WaitersOK
  <2>4. CASE i = n + 1 \/ j = n + 1
    BY <1>2, <1>5, <2>1, <2>2, <2>4
  <2>5. QED
    BY <2>2, <2>3, <2>4
<1>6. QED
  BY <1>2, <1>4, <1>5 DEF WaitersOK

-----------------------------------------------------------------------------
(***************************************************************************)
(* The end of a link, however it ends.                                     *)
(***************************************************************************)

LEMMA DisconnectTypes ==
  ASSUME TypeOK, OnDisconnect
  PROVE  /\ LinkTypes'
         /\ connection_id' \in SUBSET Int16
         /\ registry' \in SUBSET Registrations
         /\ deferred_returns' \in Seq(Deferreds)
         /\ call' \in [Requests -> Outcomes]
<1>1. call' \in [Requests -> Outcomes]
  BY ZeroTypes DEF OnDisconnect, TypeOK, Outcomes
<1>2. LinkTypes'
  BY DEF OnDisconnect, TypeOK, LinkTypes
<1>3. QED
  BY <1>1, <1>2 DEF OnDisconnect

LEMMA DisconnectInv ==
  ASSUME IInv, OnDisconnect, OutOK',
         transport' \in {"none", "open", "lost"},
         state' \in {Idle, Reading(COMMAND_RESET, <<>>)}
  PROVE  IInv'
<1>0. TypeOK
  BY DEF IInv
<1>1. /\ state' \in Parsers /\ ParserOK' /\ ~ResetHalfRead'
      /\ state'.cmd \in {NoCommand, COMMAND_RESET}
  <2>1. CASE state' = Idle
    BY <2>1, IdleParser
  <2>2. CASE state' = Reading(COMMAND_RESET, <<>>)
    <3>1. COMMAND_RESET \in FieldCommands /\ COMMAND_RESET # COMMAND_RETURN
      BY DEF FieldCommands, COMMAND_RESET, COMMAND_RETURN
    <3>2. QED
      BY <2>2, <3>1, StartedParser
  <2>3. QED
    BY <2>1, <2>2
<1>2. TypeOK'
  BY <1>0, <1>1, DisconnectTypes, TypeParts
<1>3. LinkOK'
  BY <1>1 DEF LinkOK, OnDisconnect
<1>4. WaitersOK'
  <2>1. state'.popped = <<>>
    BY DEF Idle, Reading
  <2>2. Pending' = <<>>
    BY <2>1, ConcatEmptySeq DEF Pending, OnDisconnect
  <2>3. QED
    BY <2>2, QueueEmptied
<1>5. QED
  BY <1>1, <1>2, <1>3, <1>4 DEF IInv

(* A malformed command met anywhere but in the last field of a reset.      *)
LEMMA MalformedInv ==
  ASSUME IInv, OnMalformedCommand, transport' = transport, ~ResetHalfRead
  PROVE  IInv'
<1>0. TypeOK /\ ParserOK /\ LinkOK /\ WaitersOK
  BY DEF IInv
<1>1. OutOK' /\ state' = Idle
  BY <1>0, DeviceResetOut DEF OnMalformedCommand
<1>2. CASE connected
  BY <1>0, <1>1, <1>2, DisconnectInv DEF OnMalformedCommand, TypeOK
<1>3. CASE ~connected
  <2>1. /\ LinkUnchanged
        /\ UNCHANGED <<connection_id, registry, deferred_returns, call>>
    BY <1>3 DEF OnMalformedCommand
  <2>2. /\ state' \in Parsers /\ ParserOK' /\ ~ResetHalfRead'
        /\ state'.cmd = NoCommand
    BY <1>1, IdleParser
  <2>3. TypeOK'
    <3>1. LinkTypes'
      BY <1>0, <2>1, LinkUnchangedTypes
    <3>2. QED
      BY <1>0, <1>1, <2>1, <2>2, <3>1, TypeParts DEF TypeOK
  <2>4. LinkOK'
    BY <1>0, <1>3, <2>1, <2>2, LinkKept DEF LinkUnchanged
  <2>5. WaitersOK'
    <3>1. state.cmd # COMMAND_RETURN
      BY <1>0, <1>3 DEF LinkOK, NoCommand, COMMAND_RESET, COMMAND_RETURN
    <3>2. Pending = deferred_returns
      BY <1>0, <3>1, PendingFacts
    <3>3. Pending' = deferred_returns
      BY <1>0, <1>1, <2>1, IdleIsParser, PendingFacts, ConcatEmptySeq DEF Pending
    <3>4. QED
      BY <1>0, <2>1, <3>2, <3>3, QueueKept
  <2>6. QED
    BY <2>2, <2>3, <2>4, <2>5 DEF IInv
<1>4. QED
  BY <1>2, <1>3

-----------------------------------------------------------------------------
(***************************************************************************)
(* Each handler.                                                           *)
(***************************************************************************)

LEMMA InvParts == IInv => TypeOK /\ ParserOK /\ LinkOK /\ WaitersOK
BY DEF IInv

(* A step that keeps the link as it is.                                    *)
LEMMA StepKept ==
  ASSUME IInv, ResetInactivityTimer, LinkTypes', OutOK',
         UNCHANGED <<transport, connected, base_path, connection_id>>,
         registry' \in SUBSET Registrations,
         ~connected => registry' = registry
                       /\ state'.cmd \in {NoCommand, COMMAND_RESET},
         connected => state'.cmd # COMMAND_RESET,
         ResetHalfRead' <=> ResetHalfRead,
         state' \in Parsers, ParserOK', WaitersOK',
         deferred_returns' \in Seq(Deferreds),
         call' \in [Requests -> Outcomes]
  PROVE  IInv'
<1>1. LinkOK'
  BY InvParts, LinkKept
<1>2. TypeOK'
  BY InvParts, TypeParts DEF TypeOK
<1>3. QED
  BY <1>1, <1>2 DEF IInv

(* The parser is Idle exactly when no command is half read.                *)
LEMMA IdleState ==
  ASSUME ParserOK
  PROVE  /\ state.cmd = NoCommand => state = Idle /\ ~ResetHalfRead
         /\ state.cmd # NoCommand => state # Idle
<1>1. NoCommand \notin ArgumentCommands \cup {COMMAND_RESET, COMMAND_RETURN}
  BY CommandsAreBytes DEF FieldCommands
<1>2. QED
  BY <1>1, IdleIsParser DEF ParserOK, ResetHalfRead, NoCommand, COMMAND_RESET

(* Nothing is taken from or added to the queue by a handler that neither   *)
(* is a RETURN nor ends one.                                               *)
LEMMA QueueUntouched ==
  ASSUME IInv, UNCHANGED <<deferred_returns, call>>,
         state'.popped = state.popped
  PROVE  WaitersOK'
BY InvParts, QueueKept DEF Pending

LEMMA StrangerInv ==
  ASSUME IInv, UNCHANGED transport, NEW b, CommandFromStranger(b)
  PROVE  IInv'
<1> USE DEF CommandFromStranger
<1>1. OutOK' /\ LinkTypes'
  BY InvParts, DeviceResetOut, LinkUnchangedTypes
<1>2. state' = state /\ registry' = registry
  OBVIOUS
<1>3. ParserOK' /\ (ResetHalfRead' <=> ResetHalfRead)
  <2>1. state = Idle
    BY InvParts, IdleState
  <2>2. QED
    BY <1>2, <2>1, IdleParser, InvParts, IdleState
<1>4. WaitersOK'
  BY QueueUntouched
<1>5. QED
  BY <1>1, <1>2, <1>3, <1>4, InvParts, StepKept DEF LinkUnchanged, TypeOK

LEMMA ResetInv ==
  ASSUME IInv, UNCHANGED transport, NEW b, ProcessReset(b)
  PROVE  IInv'
<1> USE DEF ProcessReset
<1>1. OutOK'
  BY InvParts, QuietOut
<1>2. CASE connected
  BY <1>1, <1>2, InvParts, DisconnectInv DEF TypeOK
<1>3. CASE ~connected
  <2>1. LinkTypes'
    BY <1>3, InvParts, LinkUnchangedTypes
  <2>2. COMMAND_RESET \in FieldCommands /\ COMMAND_RESET # COMMAND_RETURN
    BY DEF FieldCommands, COMMAND_RESET, COMMAND_RETURN
  <2>3. /\ state' \in Parsers /\ ParserOK' /\ ~ResetHalfRead'
        /\ state'.cmd = COMMAND_RESET
    BY <2>2, StartedParser
  <2>4. state = Idle /\ ~ResetHalfRead
    BY InvParts, IdleState
  <2>5. WaitersOK'
    BY <1>3, <2>4, QueueUntouched DEF Idle, Reading
  <2>6. QED
    BY <1>1, <1>3, <2>1, <2>3, <2>4, <2>5, InvParts, StepKept
      DEF LinkUnchanged, TypeOK
<1>4. QED
  BY <1>2, <1>3

LEMMA ArgumentsInv ==
  ASSUME IInv, UNCHANGED transport, NEW b, ProcessArguments(b)
  PROVE  IInv'
<1> USE DEF ProcessArguments
<1>1. OutOK' /\ LinkTypes'
  BY InvParts, QuietOut, LinkUnchangedTypes
<1>2. b \in FieldCommands /\ b # COMMAND_RETURN /\ b # COMMAND_RESET
  BY DEF FieldCommands, ArgumentCommands, AddCommands, RemoveCommands,
     COMMAND_RESET, COMMAND_PING, COMMAND_ADD_ACTION, COMMAND_ADD_EVENT,
     COMMAND_ADD_PROPERTY, COMMAND_REMOVE_ACTION, COMMAND_REMOVE_EVENT,
     COMMAND_REMOVE_PROPERTY, COMMAND_RAISE_EVENT, COMMAND_RETURN
<1>3. /\ state' \in Parsers /\ ParserOK' /\ ~ResetHalfRead'
      /\ state'.cmd = b
  BY <1>2, StartedParser
<1>4. state = Idle /\ ~ResetHalfRead
  BY InvParts, IdleState
<1>5. WaitersOK'
  BY <1>4, QueueUntouched DEF Idle, Reading
<1>6. QED
  BY <1>1, <1>2, <1>3, <1>4, <1>5, InvParts, StepKept
    DEF LinkUnchanged, TypeOK

LEMMA UnknownInv ==
  ASSUME IInv, UNCHANGED transport, NEW b, UnknownCommand(b)
  PROVE  IInv'
<1>1. ~ResetHalfRead
  BY InvParts, IdleState DEF UnknownCommand
<1>2. QED
  BY <1>1, MalformedInv DEF UnknownCommand

LEMMA HeadThenTail ==
  ASSUME NEW S, NEW s \in Seq(S), s # <<>>
  PROVE  <<Head(s)>> \o Tail(s) = s
<1>1. PICK n \in Nat \ {0} : n = Len(s)
  BY EmptySeq
<1>2. /\ Head(s) \in S
      /\ Tail(s) \in Seq(S)
      /\ Len(Tail(s)) = n - 1
      /\ \A i \in 1 .. n - 1 : Tail(s)[i] = s[i + 1]
      /\ Head(s) = s[1]
  BY <1>1, HeadTailProperties
<1>3. <<Head(s)>> \in Seq(S) /\ Len(<<Head(s)>>) = 1
  BY <1>2
<1>4. DEFINE t == <<Head(s)>> \o Tail(s)
<1>5. t \in Seq(S)
  BY <1>2, <1>3, ConcatProperties
<1>6. Len(t) = n
  <2>1. Len(t) = Len(<<Head(s)>>) + Len(Tail(s))
    BY <1>2, <1>3, ConcatProperties
  <2>2. QED
    BY <1>2, <1>3, <2>1
<1>7. \A i \in 1 .. n : t[i] = s[i]
  <2>1. \A i \in 1 .. Len(<<Head(s)>>) + Len(Tail(s)) :
           t[i] = IF i <= Len(<<Head(s)>>) THEN <<Head(s)>>[i]
                  ELSE Tail(s)[i - Len(<<Head(s)>>)]
    BY <1>2, <1>3, ConcatProperties
  <2>2. \A i \in 1 .. n : t[i] = IF i <= 1 THEN <<Head(s)>>[i] ELSE Tail(s)[i - 1]
    BY <1>2, <1>3, <2>1
  <2>3. ASSUME NEW i \in 1 .. n PROVE t[i] = s[i]
    <3>1. CASE i = 1
      BY <1>2, <2>2, <3>1
    <3>2. CASE i # 1
      <4>1. i - 1 \in 1 .. n - 1 /\ (i - 1) + 1 = i /\ ~(i <= 1)
        BY <3>2
      <4>2. QED
        BY <1>2, <2>2, <4>1
    <3>3. QED
      BY <3>1, <3>2
  <2>4. QED
    BY <2>3
<1>8. QED
  BY <1>1, <1>5, <1>6, <1>7, SeqEqual

(* Answering a request keeps the type of what became of the requests.      *)
LEMMA AnswerType ==
  ASSUME TypeOK, NEW d \in Deferreds, NEW v \in Int16, Answer(d, v)
  PROVE  call' \in [Requests -> Outcomes]
<1>1. [status |-> "answered", value |-> v] \in Outcomes
  BY DEF Outcomes
<1>2. QED
  BY <1>1 DEF Answer, TypeOK

LEMMA ReturnInv ==
  ASSUME IInv, UNCHANGED transport, NEW b, ProcessReturn(b)
  PROVE  IInv'
<1>0. TypeOK /\ ParserOK /\ WaitersOK
  BY InvParts
<1>1. state = Idle /\ ~ResetHalfRead /\ state.popped = <<>>
  BY <1>0, IdleState, IdleIsParser DEF ProcessReturn, ServeReturn
<1>2. Pending = deferred_returns /\ deferred_returns \in Seq(Deferreds)
  BY <1>0, <1>1, PendingFacts DEF Idle, NoCommand, COMMAND_RETURN
<1>3. CASE deferred_returns = <<>>
  BY <1>1, <1>3, MalformedInv DEF ProcessReturn, ServeReturn
<1>4. CASE deferred_returns # <<>>
  <2>0. DEFINE d == Head(deferred_returns)
  <2>1. /\ deferred_returns' = Tail(deferred_returns)
        /\ LinkUnchanged /\ Quiet
        /\ UNCHANGED <<connection_id, registry>>
        /\ connected
    BY <1>4 DEF ProcessReturn, ServeReturn
  <2>2. d \in Deferreds /\ Tail(deferred_returns) \in Seq(Deferreds)
    BY <1>2, <1>4, HeadTailProperties
  <2>3. OutOK' /\ LinkTypes'
    BY <1>0, <2>1, QuietOut, LinkUnchangedTypes
  <2>4. CASE d.return_type = "Void"
    <3>1. Answer(d, 0) /\ state' = Idle
      BY <1>4, <2>4 DEF ProcessReturn, ServeReturn
    <3>2. call' \in [Requests -> Outcomes]
      BY <1>0, <2>2, <3>1, ZeroTypes, AnswerType
    <3>3. Pending' = Tail(Pending)
      BY <1>2, <2>1, <2>2, <3>1, IdleIsParser, ConcatEmptySeq DEF Pending
    <3>4. WaitersOK'
      BY <1>0, <1>2, <1>4, <3>1, <3>3, QueueServed
    <3>5. /\ state' \in Parsers /\ ParserOK' /\ ~ResetHalfRead'
          /\ state'.cmd = NoCommand
      BY <3>1, IdleParser
    <3>6. QED
      BY <1>0, <1>1, <2>1, <2>2, <2>3, <3>2, <3>4, <3>5, StepKept
        DEF LinkUnchanged, TypeOK, NoCommand, COMMAND_RESET
  <2>5. CASE d.return_type # "Void"
    <3>1. UNCHANGED call /\ state' = Reading(COMMAND_RETURN, <<d>>)
      BY <1>4, <2>5 DEF ProcessReturn, ServeReturn
    <3>2. /\ state'.cmd = COMMAND_RETURN /\ state'.vals = <<>>
          /\ state'.part = <<>> /\ state'.popped = <<d>>
      BY <3>1 DEF Reading
    <3>3. Pending' = Pending
      BY <1>2, <1>4, <2>1, <3>2, HeadThenTail DEF Pending
    <3>4. WaitersOK'
      BY <1>0, <3>1, <3>3, QueueKept
    <3>5. state' \in Parsers
      <4>1. COMMAND_RETURN \in Bytes /\ <<d>> \in Seq(Deferreds)
        BY <2>2, CommandsAreBytes DEF FieldCommands
      <4>2. QED
        BY <3>1, <4>1 DEF Reading, Parsers
    <3>6. ParserOK'
      <4>1. Signature(COMMAND_RETURN) = <<"Value">>
        BY SignatureCases DEF FieldCommands
      <4>2. Len(state'.vals) = 0 /\ Len(state'.part) = 0 /\ Len(state'.popped) = 1
            /\ Len(Signature(state'.cmd)) = 1 /\ state'.popped[1] = d
        BY <3>2, <4>1
      <4>3. state'.cmd # COMMAND_RAISE_EVENT
        BY <3>2 DEF COMMAND_RETURN, COMMAND_RAISE_EVENT
      <4>4. QED
        BY <2>5, <3>2, <4>2, <4>3 DEF ParserOK
    <3>7. state'.cmd # COMMAND_RESET /\ ~ResetHalfRead'
      BY <3>2 DEF ResetHalfRead, COMMAND_RETURN, COMMAND_RESET
    <3>8. QED
      BY <1>0, <1>1, <2>1, <2>2, <2>3, <3>1, <3>4, <3>5, <3>6, <3>7, StepKept
        DEF LinkUnchanged, TypeOK
  <2>6. QED
    BY <2>4, <2>5
<1>5. QED
  BY <1>3, <1>4

LEMMA ReadPartInv ==
  ASSUME IInv, UNCHANGED transport, NEW b \in Bytes,
         state.cmd # NoCommand, ReadPart(b)
  PROVE  IInv'
<1> USE DEF ReadPart
<1>0. TypeOK /\ ParserOK /\ LinkOK /\ state # Idle
  BY InvParts, IdleState
<1>1. OutOK' /\ LinkTypes'
  BY <1>0, QuietOut, LinkUnchangedTypes
<1>2. SubFsm \in {"Integer", "String"}
  BY <1>0, SubFsmType DEF EndsField
<1>3. CASE state.part # <<>>
  <2>1. state' = state /\ registry' = registry
    BY <1>3
  <2>2. ParserOK' /\ (ResetHalfRead' <=> ResetHalfRead)
    BY <1>0, <2>1 DEF ParserOK, ResetHalfRead, Field, SubFsm, Known
  <2>3. WaitersOK'
    BY <2>1, QueueUntouched
  <2>4. QED
    BY <1>0, <1>1, <2>1, <2>2, <2>3, StepKept DEF LinkUnchanged, TypeOK, LinkOK
<1>4. CASE state.part = <<>>
  <2>1. state' = [state EXCEPT !.part = <<b>>]
    BY <1>4
  <2>2. /\ state'.cmd = state.cmd /\ state'.vals = state.vals
        /\ state'.popped = state.popped /\ state'.part = <<b>>
        /\ state' \in Parsers
    <3>1. state \in Parsers /\ <<b>> \in Seq(Bytes)
      BY <1>0 DEF TypeOK
    <3>2. QED
      BY <2>1, <3>1 DEF Parsers
  <2>3. Field' = Field /\ SubFsm' = SubFsm /\ (ResetHalfRead' <=> ResetHalfRead)
    BY <2>2 DEF Field, SubFsm, ResetHalfRead
  <2>4. Len(state'.part) <= (IF SubFsm' \in {"Integer", "String"} THEN 1 ELSE 0)
    <3>1. Len(state'.part) = 1
      BY <2>2
    <3>2. SubFsm' \in {"Integer", "String"}
      BY <1>2, <2>3
    <3>3. 1 <= 1
      OBVIOUS
    <3>4. QED
      BY <3>1, <3>2, <3>3
  <2>5. ParserOK'
    BY <1>0, <2>2, <2>3, <2>4 DEF ParserOK, Known
  <2>6. WaitersOK'
    BY <2>2, QueueUntouched
  <2>7. QED
    BY <1>0, <1>1, <2>2, <2>3, <2>5, <2>6, StepKept
      DEF LinkUnchanged, TypeOK, LinkOK
<1>5. QED
  BY <1>3, <1>4

LEMMA AbsorbInv ==
  ASSUME IInv, UNCHANGED transport, NEW b \in Bytes,
         state.cmd # NoCommand, AbsorbReset(b)
  PROVE  IInv'
<1>0. TypeOK /\ ParserOK /\ LinkOK /\ state # Idle
  BY InvParts, IdleState
<1>1. state.cmd = COMMAND_RESET /\ Field = "Byte" /\ state.vals = <<>>
  BY <1>0, ValueFields DEF AbsorbReset
<1>2. ~connected /\ ~ResetHalfRead
  BY <1>0, <1>1 DEF LinkOK, ResetHalfRead
<1>3. CASE b \notin {COMMAND_RESET, END_OF_RESET}
  BY <1>2, <1>3, MalformedInv DEF AbsorbReset
<1>4. CASE b \in {COMMAND_RESET, END_OF_RESET}
  <2>1. /\ LinkUnchanged /\ Quiet
        /\ UNCHANGED <<connection_id, registry, deferred_returns, call>>
        /\ state' = IF b = COMMAND_RESET THEN state
                                         ELSE [state EXCEPT !.vals = <<b>>]
    BY <1>4 DEF AbsorbReset
  <2>2. OutOK' /\ LinkTypes'
    BY <1>0, <2>1, QuietOut, LinkUnchangedTypes
  <2>3. CASE b = COMMAND_RESET
    <3>1. state' = state
      BY <2>1, <2>3
    <3>2. ParserOK' /\ ~ResetHalfRead'
      BY <1>0, <1>2, <2>1, <3>1 DEF ParserOK, ResetHalfRead, Field, SubFsm, Known
    <3>3. WaitersOK'
      BY <2>1, <3>1, QueueUntouched
    <3>4. QED
      BY <1>0, <1>2, <2>1, <2>2, <3>1, <3>2, <3>3, StepKept
        DEF LinkUnchanged, TypeOK, LinkOK
  <2>4. CASE b # COMMAND_RESET
    <3>1. b = END_OF_RESET /\ state' = [state EXCEPT !.vals = <<b>>]
      BY <1>4, <2>1, <2>4
    <3>2. b \in Int16
      BY ZeroTypes
    <3>3. /\ state'.cmd = COMMAND_RESET /\ state'.vals = <<b>>
          /\ state'.popped = state.popped /\ state'.part = state.part
          /\ state' \in Parsers
      <4>1. state \in Parsers /\ <<b>> \in Seq(Int16)
        BY <1>0, <3>2 DEF TypeOK
      <4>2. QED
        BY <1>1, <3>1, <4>1 DEF Parsers
    <3>4. Signature(COMMAND_RESET) = <<"Byte", "Integer", "String">>
      BY SignatureCases DEF FieldCommands
    <3>5. /\ Len(state'.vals) = 1 /\ state'.vals[1] = b
          /\ Len(Signature(state'.cmd)) = 3 /\ Signature(state'.cmd)[1] = "Byte"
      BY <3>3, <3>4
    <3>6. FieldOK("Byte", b)
      BY <3>1 DEF FieldOK
    <3>7. Len(state'.part) = 0
      <4>1. SubFsm = "Byte"
        BY <1>0, <1>1, SubFsmType
      <4>2. Len(state.part) <= 0 /\ Len(state.part) \in Nat
        BY <1>0, <4>1, ReadingFacts, LenProperties DEF ParserOK
      <4>3. QED
        BY <3>3, <4>2
    <3>8. state.popped = <<>>
      BY <1>0, <1>1 DEF ParserOK, COMMAND_RESET, COMMAND_RETURN
    <3>9. ParserOK'
      <4>1. \A i \in 1 .. Len(state'.vals) :
               FieldOK(Signature(state'.cmd)[i], state'.vals[i])
        BY <3>5, <3>6
      <4>2. state'.cmd # COMMAND_RAISE_EVENT /\ state'.cmd # COMMAND_RETURN
        BY <3>3 DEF COMMAND_RESET, COMMAND_RAISE_EVENT, COMMAND_RETURN
      <4>3. Len(state'.part) <= (IF SubFsm' \in {"Integer", "String"} THEN 1 ELSE 0)
        BY <3>7
      <4>4. Len(state'.vals) < Len(Signature(state'.cmd))
        BY <3>5
      <4>5. QED
        BY <3>3, <3>8, <4>1, <4>2, <4>3, <4>4 DEF ParserOK
    <3>10. ~ResetHalfRead'
      BY <3>5 DEF ResetHalfRead
    <3>11. WaitersOK'
      BY <2>1, <3>3, QueueUntouched
    <3>12. QED
      BY <1>0, <1>2, <2>1, <2>2, <3>3, <3>9, <3>10, <3>11, StepKept
        DEF LinkUnchanged, TypeOK
  <2>5. QED
    BY <2>3, <2>4
<1>5. QED
  BY <1>3, <1>4

(* A reset's last field is a string, which is never bad.                   *)
LEMMA HalfReadField ==
  ASSUME TypeOK, ParserOK, ResetHalfRead
  PROVE  Field = "String" /\ SubFsm = "String" /\ Len(Signature(state.cmd)) = 3
<1>1. state.cmd = COMMAND_RESET /\ Len(state.vals) = 2
  BY DEF ResetHalfRead
<1>2. Signature(COMMAND_RESET) = <<"Byte", "Integer", "String">>
  BY SignatureCases DEF FieldCommands
<1>3. Field = "String"
  BY <1>1, <1>2 DEF Field
<1>4. QED
  BY <1>1, <1>2, <1>3 DEF SubFsm

LEMMA RejectInv ==
  ASSUME IInv, UNCHANGED transport, NEW b \in Bytes, RejectField(b)
  PROVE  IInv'
<1>1. ~ResetHalfRead
  BY InvParts, HalfReadField
    DEF RejectField, BadField, ResetHalfRead, COMMAND_RESET, COMMAND_RAISE_EVENT
<1>2. QED
  BY <1>1, MalformedInv DEF RejectField

(* The type byte of an event's value names a type that has a value.        *)
LEMMA RaiseFields ==
  ASSUME TypeOK, ParserOK, state.cmd = COMMAND_RAISE_EVENT,
         NEW b \in Bytes, EndsField(b), ~BadField(b), ~EndsArguments(b),
         Len(Args(b)) = 2
  PROVE  Args(b)[2] # 0 /\ Known("event", Args(b)[1])
<1>1. state.cmd # NoCommand
  BY DEF NoCommand, COMMAND_RAISE_EVENT
<1>2. Field # "Byte"
  BY <1>1, ValueFields DEF COMMAND_RESET, COMMAND_RAISE_EVENT
<1>3. Args(b)[2] # 0
  BY DEF EndsArguments
<1>4. Len(Args(b)) = Len(state.vals) + 1 /\ Len(state.vals) \in Nat
  BY <1>1, <1>2, ArgsType, ReadingFacts
<1>5. Len(state.vals) = 1
  <2>1. \A k \in Nat : 2 = k + 1 => k = 1
    OBVIOUS
  <2>2. QED
    BY <1>4, <2>1
<1>6. Signature(state.cmd) = <<"Integer", "Type", "Value">>
  BY SignatureCases DEF FieldCommands, ArgumentCommands
<1>7. Field = "Type"
  BY <1>5, <1>6 DEF Field
<1>8. Known("event", state.vals[1])
  BY <1>7 DEF BadField
<1>9. Args(b)[1] = state.vals[1]
  BY <1>1, <1>2, <1>5, ArgsType
<1>10. QED
  BY <1>3, <1>8, <1>9

LEMMA NextFieldParser ==
  ASSUME TypeOK, ParserOK, state.cmd # NoCommand, registry' = registry,
         NEW b \in Bytes, NextField(b)
  PROVE  /\ state' \in Parsers /\ ParserOK'
         /\ state'.cmd = state.cmd /\ state'.popped = state.popped
         /\ state'.vals = Args(b)
<1>0. /\ state # Idle
      /\ Field # "Byte" /\ EndsField(b) /\ ~BadField(b) /\ ~EndsArguments(b)
  BY IdleIsParser DEF NextField
<1>1. /\ Args(b) \in Seq(Int16)
      /\ Len(Args(b)) \in 1 .. Len(Signature(state.cmd))
      /\ \A i \in 1 .. Len(Args(b)) : FieldOK(Signature(state.cmd)[i], Args(b)[i])
  BY <1>0, ArgsType
<1>2. /\ state'.cmd = state.cmd /\ state'.vals = Args(b)
      /\ state'.popped = state.popped /\ state'.part = <<>>
      /\ state' \in Parsers
  <2>1. state \in Parsers /\ state' = [state EXCEPT !.vals = Args(b), !.part = <<>>]
    BY DEF TypeOK, NextField
  <2>2. <<>> \in Seq(Bytes)
    OBVIOUS
  <2>3. QED
    BY <1>1, <2>1, <2>2 DEF Parsers
<1>3. state.cmd \in FieldCommands
  BY ReadingFacts
<1>4. Len(Args(b)) < Len(Signature(state.cmd))
  <2>1. Len(Args(b)) # Len(Signature(state.cmd))
    BY <1>0 DEF EndsArguments
  <2>2. Len(Signature(state.cmd)) \in 1 .. 4
    BY <1>3, SignatureType
  <2>3. QED
    BY <1>1, <2>1, <2>2
<1>5. IF state.cmd = COMMAND_RETURN
      THEN Len(state.popped) = 1 /\ state.popped[1].return_type # "Void"
      ELSE state.popped = <<>>
  BY <1>0 DEF ParserOK
<1>6. ASSUME state.cmd = COMMAND_RAISE_EVENT, Field' = "Value"
      PROVE  state'.vals[2] # 0 /\ Known("event", state.vals[1])'
  <2>1. Signature(state.cmd) = <<"Integer", "Type", "Value">>
    BY <1>3, <1>6, SignatureCases
  <2>2. Field' = Signature(state.cmd)[Len(Args(b)) + 1]
    BY <1>2 DEF Field
  <2>3. PICK k \in 1 .. 2 : k = Len(Args(b))
    <3>1. Len(Signature(state.cmd)) = 3
      BY <2>1
    <3>2. Len(Args(b)) \in 1 .. 3 /\ Len(Args(b)) < 3
      BY <1>1, <1>4, <3>1
    <3>3. QED
      BY <3>2
  <2>4. k # 1
    <3>1. ASSUME k = 1 PROVE FALSE
      <4>1. Field' = Signature(state.cmd)[2]
        BY <2>2, <2>3, <3>1
      <4>2. QED
        BY <1>6, <2>1, <4>1
    <3>2. QED
      BY <3>1
  <2>5. Len(Args(b)) = 2
    BY <2>3, <2>4
  <2>6. Args(b)[2] # 0 /\ Known("event", Args(b)[1])
    BY <1>0, <1>6, <2>5, RaiseFields
  <2>7. QED
    BY <1>2, <2>6 DEF Known
<1>7. Len(state'.part) <= (IF SubFsm' \in {"Integer", "String"} THEN 1 ELSE 0)
  BY <1>2
<1>8. ParserOK'
  BY <1>1, <1>2, <1>3, <1>4, <1>5, <1>6, <1>7 DEF ParserOK, FieldCommands, Known
<1>9. QED
  BY <1>2, <1>8

(* A reset's id is kept from the moment it is read, which is when the      *)
(* reset counts as half read.                                              *)
LEMMA NextFieldInv ==
  ASSUME IInv, UNCHANGED transport, NEW b \in Bytes,
         state.cmd # NoCommand, NextField(b)
  PROVE  IInv'
<1>0. TypeOK /\ ParserOK /\ LinkOK /\ state # Idle
  BY InvParts, IdleState
<1>1. /\ LinkUnchanged /\ Quiet
      /\ UNCHANGED <<registry, deferred_returns, call>>
      /\ Field # "Byte" /\ EndsField(b) /\ ~BadField(b) /\ ~EndsArguments(b)
  BY DEF NextField
<1>2. /\ state' \in Parsers /\ ParserOK'
      /\ state'.cmd = state.cmd /\ state'.popped = state.popped
      /\ state'.vals = Args(b)
  BY <1>0, <1>1, NextFieldParser
<1>3. OutOK' /\ LinkTypes'
  BY <1>0, <1>1, QuietOut, LinkUnchangedTypes
<1>4. WaitersOK'
  BY <1>1, <1>2, QueueUntouched
<1>5. CASE state.cmd # COMMAND_RESET
  <2>1. connection_id' = connection_id
    BY <1>5 DEF NextField
  <2>2. ~ResetHalfRead /\ ~ResetHalfRead'
    BY <1>2, <1>5 DEF ResetHalfRead
  <2>3. QED
    BY <1>0, <1>1, <1>2, <1>3, <1>4, <1>5, <2>1, <2>2, StepKept
      DEF LinkUnchanged, TypeOK, LinkOK
<1>6. CASE state.cmd = COMMAND_RESET
  <2>1. connection_id' = {FieldValue(b)} /\ FieldValue(b) \in Int16
    BY <1>0, <1>1, <1>6, ValueType DEF NextField
  <2>2. Len(state.vals) + 1 = 2
    <3>1. Signature(COMMAND_RESET) = <<"Byte", "Integer", "String">>
      BY SignatureCases DEF FieldCommands
    <3>2. PICK n \in 1 .. 3 : n = Len(state.vals) + 1
      BY <1>0, <1>6, <3>1, ReadingFacts
    <3>3. Field = Signature(COMMAND_RESET)[n] /\ n # 1
      BY <1>1, <1>6, <3>1, <3>2 DEF Field
    <3>4. n # 3
      <4>1. Len(Args(b)) = n
        BY <1>0, <1>1, <3>2, ArgsType
      <4>2. QED
        BY <1>1, <1>6, <3>1, <4>1 DEF EndsArguments
    <3>5. QED
      BY <3>2, <3>3, <3>4
  <2>3. Len(state'.vals) = 2
    BY <1>0, <1>1, <1>2, <2>2, ArgsType
  <2>4. ResetHalfRead'
    BY <1>2, <1>6, <2>3 DEF ResetHalfRead
  <2>5. ~connected /\ base_path = {} /\ inactivity_timer = NoTimer /\ registry = {}
    BY <1>0, <1>6 DEF LinkOK
  <2>6. /\ ~connected' /\ base_path' = {} /\ registry' = {}
        /\ inactivity_timer' = NoTimer
    BY <1>1, <2>5 DEF LinkUnchanged, ResetInactivityTimer
  <2>7. LinkOK'
    BY <1>2, <1>6, <2>1, <2>4, <2>6 DEF LinkOK
  <2>8. TypeOK'
    BY <1>0, <1>1, <1>2, <1>3, <2>1, TypeParts DEF TypeOK
  <2>9. QED
    BY <1>2, <1>4, <2>7, <2>8 DEF IInv
<1>7. QED
  BY <1>5, <1>6

(* A half-read reset is completed by its last field only.                  *)
LEMMA LastFieldFacts ==
  ASSUME TypeOK, ParserOK, state.cmd # NoCommand,
         NEW b \in Bytes, LastField(b)
  PROVE  /\ Field # "Byte"
         /\ state.cmd = COMMAND_RESET => ResetHalfRead
<1>1. EndsArguments(b) /\ EndsField(b) /\ ~BadField(b)
  BY DEF LastField
<1>2. CASE state.cmd = COMMAND_RESET
  <2>1. Signature(COMMAND_RESET) = <<"Byte", "Integer", "String">>
    BY SignatureCases DEF FieldCommands
  <2>2. Len(Args(b)) = 3
    BY <1>1, <1>2, <2>1 DEF EndsArguments, COMMAND_RESET, COMMAND_RAISE_EVENT
  <2>3. PICK n \in Nat : n = Len(state.vals)
    BY ReadingFacts
  <2>4. Len(Args(b)) = n + 1
    <3>1. state.vals \in Seq(Int16)
      BY ReadingFacts
    <3>2. QED
      BY <2>3, <3>1 DEF Args
  <2>5. n = 2
    <3>1. \A k \in Nat : 3 = k + 1 => k = 2
      OBVIOUS
    <3>2. QED
      BY <2>2, <2>4, <3>1
  <2>6. QED
    BY <1>2, <2>1, <2>3, <2>5 DEF ResetHalfRead, Field
<1>3. CASE state.cmd # COMMAND_RESET
  BY <1>3, ValueFields
<1>4. QED
  BY <1>2, <1>3

LEMMA ConnectInv ==
  ASSUME IInv, transport = "open", UNCHANGED transport, NEW b \in Bytes,
         state.cmd # NoCommand, LastField(b), Connect(b)
  PROVE  IInv'
<1>0. TypeOK /\ ParserOK /\ LinkOK /\ state.cmd = COMMAND_RESET
  BY InvParts DEF Connect
<1>1. ResetHalfRead /\ Field = "String"
  BY <1>0, LastFieldFacts, HalfReadField
<1>2. FieldValue(b) \in Bytes
  BY <1>0, <1>1, ValueType DEF LastField, FieldOK
<1>3. /\ state' \in Parsers /\ ParserOK' /\ ~ResetHalfRead'
      /\ state'.cmd = NoCommand
  BY IdleParser DEF Connect
<1>4. OutOK'
  BY <1>0, QuietOut DEF Connect
<1>5. LinkTypes'
  BY <1>0, <1>2, TimeoutAssumption DEF Connect, TypeOK, LinkTypes
<1>6. TypeOK'
  BY <1>0, <1>3, <1>4, <1>5, TypeParts DEF Connect, TypeOK
<1>7. LinkOK'
  <2>1. connection_id # {}
    BY <1>0, <1>1 DEF LinkOK
  <2>2. /\ connected' = TRUE /\ transport' = "open"
        /\ connection_id' # {} /\ base_path' # {}
    BY <2>1 DEF Connect
  <2>3. inactivity_timer' # NoTimer
    BY TimeoutAssumption DEF Connect, NoTimer
  <2>4. QED
    BY <1>3, <2>2, <2>3 DEF LinkOK, NoCommand, COMMAND_RESET
<1>8. WaitersOK'
  <2>1. state.popped = <<>>
    BY <1>0, PendingFacts DEF COMMAND_RESET, COMMAND_RETURN
  <2>2. QED
    BY <2>1, QueueUntouched DEF Connect, Idle
<1>9. QED
  BY <1>3, <1>6, <1>7, <1>8 DEF IInv

LEMMA FinishReturnInv ==
  ASSUME IInv, UNCHANGED transport, NEW b \in Bytes,
         state.cmd # NoCommand, LastField(b), FinishReturn(b)
  PROVE  IInv'
<1>0. TypeOK /\ ParserOK /\ LinkOK /\ WaitersOK /\ state.cmd = COMMAND_RETURN
  BY InvParts DEF FinishReturn
<1>1. connected /\ ~ResetHalfRead
  BY <1>0 DEF LinkOK, ResetHalfRead, NoCommand, COMMAND_RESET, COMMAND_RETURN
<1>2. /\ Len(state.popped) = 1 /\ state.popped \in Seq(Deferreds)
      /\ Pending # <<>> /\ Head(Pending) = state.popped[1]
      /\ Tail(Pending) = deferred_returns /\ deferred_returns \in Seq(Deferreds)
  BY <1>0, PendingFacts
<1>3. state.popped[1] \in Deferreds
  BY <1>2, ElementOfSeq
<1>4. FieldValue(b) \in Int16
  BY <1>0, LastFieldFacts, ValueType DEF LastField
<1>5. call' \in [Requests -> Outcomes]
  BY <1>0, <1>3, <1>4, AnswerType DEF FinishReturn
<1>6. /\ state' \in Parsers /\ ParserOK' /\ ~ResetHalfRead'
      /\ state'.cmd = NoCommand
  BY IdleParser DEF FinishReturn
<1>7. WaitersOK'
  <2>1. Pending' = Tail(Pending)
    BY <1>2, IdleIsParser, ConcatEmptySeq DEF Pending, FinishReturn
  <2>2. Answer(Head(Pending), FieldValue(b))
    BY <1>2 DEF FinishReturn
  <2>3. QED
    BY <1>0, <1>2, <2>1, <2>2, QueueServed
<1>8. OutOK' /\ LinkTypes'
  BY <1>0, QuietOut, LinkUnchangedTypes DEF FinishReturn
<1>9. QED
  BY <1>0, <1>1, <1>5, <1>6, <1>7, <1>8, StepKept
    DEF FinishReturn, LinkUnchanged, TypeOK, NoCommand, COMMAND_RESET

(* A handler of the connected link that ends at Idle and touches at most   *)
(* the registrations and the output.                                       *)
LEMMA EndsConnected ==
  ASSUME IInv, UNCHANGED <<transport, connected, base_path, connection_id>>,
         ResetInactivityTimer, LinkTypes', OutOK', state' = Idle,
         state.cmd \notin {NoCommand, COMMAND_RESET, COMMAND_RETURN},
         registry' \in SUBSET Registrations,
         UNCHANGED <<deferred_returns, call>>
  PROVE  IInv'
<1>0. TypeOK /\ ParserOK /\ LinkOK
  BY InvParts
<1>1. connected /\ ~ResetHalfRead
  BY <1>0 DEF LinkOK, ResetHalfRead
<1>2. /\ state' \in Parsers /\ ParserOK' /\ ~ResetHalfRead'
      /\ state'.cmd = NoCommand
  BY IdleParser
<1>3. WaitersOK'
  <2>1. state.popped = <<>>
    BY <1>0, PendingFacts
  <2>2. QED
    BY <2>1, QueueUntouched, IdleIsParser
<1>4. QED
  BY <1>0, <1>1, <1>2, <1>3, StepKept DEF TypeOK, NoCommand, COMMAND_RESET

LEMMA FinishPingInv ==
  ASSUME IInv, UNCHANGED transport, NEW b \in Bytes,
         state.cmd # NoCommand, FinishPing(b)
  PROVE  IInv'
<1>1. state.cmd \notin {NoCommand, COMMAND_RESET, COMMAND_RETURN} /\ ~ResetHalfRead
  BY DEF FinishPing, ResetHalfRead, COMMAND_PING, COMMAND_RESET, COMMAND_RETURN
<1>2. CASE connection_id # {FieldValue(b)}
  BY <1>1, <1>2, MalformedInv DEF FinishPing
<1>3. CASE connection_id = {FieldValue(b)}
  <2>1. /\ LinkUnchanged /\ Quiet /\ state' = Idle
        /\ UNCHANGED <<connection_id, registry, deferred_returns, call>>
    BY <1>3 DEF FinishPing
  <2>2. OutOK' /\ LinkTypes'
    BY <2>1, InvParts, QuietOut, LinkUnchangedTypes
  <2>3. QED
    BY <1>1, <2>1, <2>2, InvParts, EndsConnected DEF LinkUnchanged, TypeOK
<1>4. QED
  BY <1>2, <1>3

LEMMA NewObjectType ==
  ASSUME TypeOK, ParserOK, state.cmd \in AddCommands,
         NEW b \in Bytes, LastField(b)
  PROVE  NewObject(Args(b)) \in Registrations
<1>0. /\ state.cmd # NoCommand /\ state.cmd \in FieldCommands
      /\ state.cmd # COMMAND_RAISE_EVENT
  BY DEF AddCommands, COMMAND_ADD_ACTION, COMMAND_ADD_EVENT,
    COMMAND_ADD_PROPERTY, NoCommand, FieldCommands, ArgumentCommands,
    COMMAND_RAISE_EVENT
<1>1. /\ Args(b) \in Seq(Int16)
      /\ Len(Args(b)) \in 1 .. Len(Signature(state.cmd))
      /\ \A i \in 1 .. Len(Args(b)) : FieldOK(Signature(state.cmd)[i], Args(b)[i])
  BY <1>0, LastFieldFacts, ArgsType DEF LastField
<1>2. Len(Args(b)) = Len(Signature(state.cmd))
  BY <1>0 DEF LastField, EndsArguments
<1>3. Args(b)[1] \in Int16
  <2>1. 1 \in 1 .. Len(Args(b))
    BY <1>1
  <2>2. QED
    BY <1>1, <2>1, ElementOfSeq
<1>4. \A c \in DOMAIN TypeOfCode : TypeOfCode[c] \in Types
  BY DEF TypeOfCode, Types
<1>5. CASE state.cmd = COMMAND_ADD_PROPERTY
  <2>1. Signature(state.cmd) = <<"Integer", "String", "Type">>
    BY <1>0, <1>5, SignatureCases
  <2>2. Len(Args(b)) = 3 /\ Signature(state.cmd)[3] = "Type"
    BY <1>2, <2>1
  <2>3. FieldOK("Type", Args(b)[3])
    BY <1>1, <2>2
  <2>4. TypeOfCode[Args(b)[3]] \in Types
    BY <1>4, <2>3 DEF FieldOK
  <2>5. NewObject(Args(b)) = [kind |-> "property", id |-> Args(b)[1],
           arg |-> TypeOfCode[Args(b)[3]], ret |-> TypeOfCode[Args(b)[3]]]
    BY <1>5 DEF NewObject, COMMAND_ADD_ACTION, COMMAND_ADD_PROPERTY
  <2>6. QED
    BY <1>3, <2>4, <2>5 DEF Registrations
<1>6. CASE state.cmd = COMMAND_ADD_ACTION
  <2>1. Signature(state.cmd) = <<"Integer", "String", "Type", "Type">>
    BY <1>0, <1>6, SignatureCases
  <2>2. /\ Len(Args(b)) = 4
        /\ Signature(state.cmd)[3] = "Type" /\ Signature(state.cmd)[4] = "Type"
    BY <1>2, <2>1
  <2>3. FieldOK("Type", Args(b)[3]) /\ FieldOK("Type", Args(b)[4])
    BY <1>1, <2>2
  <2>4. TypeOfCode[Args(b)[3]] \in Types /\ TypeOfCode[Args(b)[4]] \in Types
    BY <1>4, <2>3 DEF FieldOK
  <2>5. NewObject(Args(b)) = [kind |-> "action", id |-> Args(b)[1],
           arg |-> TypeOfCode[Args(b)[4]], ret |-> TypeOfCode[Args(b)[3]]]
    BY <1>6 DEF NewObject, COMMAND_ADD_ACTION, COMMAND_ADD_PROPERTY
  <2>6. QED
    BY <1>3, <2>4, <2>5 DEF Registrations
<1>7. CASE state.cmd = COMMAND_ADD_EVENT
  <2>1. NewObject(Args(b)) = [kind |-> "event", id |-> Args(b)[1],
                              arg |-> "Void", ret |-> "Void"]
    BY <1>7 DEF NewObject, COMMAND_ADD_ACTION, COMMAND_ADD_PROPERTY,
       COMMAND_ADD_EVENT
  <2>2. QED
    BY <1>3, <2>1 DEF Registrations, Types
<1>8. QED
  BY <1>5, <1>6, <1>7 DEF AddCommands

LEMMA FinishAddInv ==
  ASSUME IInv, UNCHANGED transport, NEW b \in Bytes, LastField(b), FinishAdd(b)
  PROVE  IInv'
<1>0. TypeOK /\ ParserOK /\ LinkOK /\ state.cmd \in AddCommands
  BY InvParts DEF FinishAdd
<1>1. state.cmd \notin {NoCommand, COMMAND_RESET, COMMAND_RETURN} /\ ~ResetHalfRead
  BY <1>0 DEF ResetHalfRead, AddCommands, COMMAND_ADD_ACTION,
    COMMAND_ADD_EVENT, COMMAND_ADD_PROPERTY, NoCommand, COMMAND_RESET,
    COMMAND_RETURN
<1>2. CASE PathFails(Args(b)[2])
  BY <1>1, <1>2, MalformedInv DEF FinishAdd
<1>3. CASE ~PathFails(Args(b)[2])
  <2>0. DEFINE new == NewObject(Args(b))
               old == {o \in registry : o.kind = new.kind /\ o.id = new.id}
  <2>1. /\ registry' = (registry \ old) \cup {new}
        /\ leaked' = leaked \cup old
        /\ state' = Idle
        /\ ResetInactivityTimer /\ Quiet
        /\ UNCHANGED <<connected, connection_id, base_path, deferred_returns, call>>
    BY <1>3 DEF FinishAdd
  <2>2. new \in Registrations
    BY <1>0, NewObjectType
  <2>3. OutOK'
    BY <1>0, <2>1, QuietOut
  <2>4. /\ registry' \in SUBSET Registrations
        /\ leaked' \in SUBSET Registrations
    BY <1>0, <2>1, <2>2 DEF TypeOK
  <2>5. LinkTypes'
    BY <1>0, <2>1, <2>4, TimeoutAssumption
      DEF ResetInactivityTimer, LinkTypes, TypeOK
  <2>6. QED
    BY <1>1, <2>1, <2>3, <2>4, <2>5, EndsConnected
<1>4. QED
  BY <1>2, <1>3

LEMMA FinishRemoveInv ==
  ASSUME IInv, UNCHANGED transport, NEW b \in Bytes, FinishRemove(b)
  PROVE  IInv'
<1>0. TypeOK /\ ParserOK /\ LinkOK /\ state.cmd \in RemoveCommands
  BY InvParts DEF FinishRemove
<1>1. state.cmd \notin {NoCommand, COMMAND_RESET, COMMAND_RETURN} /\ ~ResetHalfRead
  BY <1>0 DEF ResetHalfRead, RemoveCommands, COMMAND_REMOVE_ACTION,
    COMMAND_REMOVE_EVENT, COMMAND_REMOVE_PROPERTY, NoCommand, COMMAND_RESET,
    COMMAND_RETURN
<1>2. CASE ~Known(RemovedKind, FieldValue(b))
  BY <1>1, <1>2, MalformedInv DEF FinishRemove
<1>3. CASE Known(RemovedKind, FieldValue(b))
  <2>1. /\ registry' \subseteq registry
        /\ state' = Idle
        /\ LinkUnchanged /\ Quiet
        /\ UNCHANGED <<connection_id, deferred_returns, call>>
    BY <1>3 DEF FinishRemove
  <2>2. OutOK' /\ LinkTypes'
    BY <1>0, <2>1, QuietOut, LinkUnchangedTypes
  <2>3. registry' \in SUBSET Registrations
    BY <1>0, <2>1 DEF TypeOK
  <2>4. QED
    BY <1>1, <2>1, <2>2, <2>3, EndsConnected DEF LinkUnchanged
<1>4. QED
  BY <1>2, <1>3

LEMMA FinishRaiseInv ==
  ASSUME IInv, UNCHANGED transport, NEW b \in Bytes, LastField(b), FinishRaise(b)
  PROVE  IInv'
<1>0. TypeOK /\ ParserOK /\ LinkOK /\ state.cmd = COMMAND_RAISE_EVENT
  BY InvParts DEF FinishRaise
<1>1. state.cmd \notin {NoCommand, COMMAND_RESET, COMMAND_RETURN}
  BY <1>0 DEF COMMAND_RAISE_EVENT, NoCommand, COMMAND_RESET, COMMAND_RETURN
<1>2. /\ Args(b) \in Seq(Int16) /\ Len(Args(b)) \in 1 .. Len(Signature(state.cmd))
      /\ FieldValue(b) \in Int16
  BY <1>0, <1>1, LastFieldFacts, ArgsType, ValueType DEF LastField
<1>3. Args(b)[1] \in Int16
  <2>1. 1 \in 1 .. Len(Args(b))
    BY <1>2
  <2>2. QED
    BY <1>2, <2>1, ElementOfSeq
<1>4. out' \in Outputs
  <2>1. PICK v \in Int16 : out' = Raised(Args(b)[1], v)
    BY <1>2, ZeroTypes DEF FinishRaise
  <2>2. {<<Args(b)[1], v>>} \in SUBSET (Int16 \X Int16)
    BY <1>3
  <2>3. QED
    BY <2>1, <2>2 DEF Raised, Outputs
<1>5. OutOK' /\ LinkTypes'
  BY <1>0, <1>4, LinkUnchangedTypes DEF FinishRaise, OutOK, TypeOK
<1>6. QED
  BY <1>0, <1>1, <1>5, EndsConnected DEF FinishRaise, LinkUnchanged, TypeOK

LEMMA FinishCommandInv ==
  ASSUME IInv, transport = "open", UNCHANGED transport, NEW b \in Bytes,
         state.cmd # NoCommand, FinishCommand(b)
  PROVE  IInv'
BY ConnectInv, FinishReturnInv, FinishPingInv, FinishAddInv, FinishRemoveInv,
   FinishRaiseInv DEF FinishCommand

LEMMA DataInv ==
  ASSUME IInv, NEW b \in Bytes, DataReceived(b)
  PROVE  IInv'
<1>1. CASE ProcessCommand(b)
  BY <1>1, StrangerInv, ResetInv, ReturnInv, ArgumentsInv, UnknownInv
    DEF ProcessCommand, DataReceived
<1>2. CASE ProcessField(b)
  BY <1>2, ReadPartInv, AbsorbInv, RejectInv, NextFieldInv, FinishCommandInv
    DEF ProcessField, DataReceived
<1>3. QED
  BY <1>1, <1>2 DEF DataReceived

(* Callbacks that leave parser and queue alone.                            *)
LEMMA ParserKept ==
  ASSUME IInv, UNCHANGED <<state, registry>>
  PROVE  ParserOK' /\ (ResetHalfRead' <=> ResetHalfRead)
BY InvParts DEF ParserOK, ResetHalfRead, Field, SubFsm, Known

(* Before makeConnection nothing has been parsed.                           *)
Unstarted == transport = "none" => state = Idle

LEMMA MakeConnectionInv ==
  ASSUME IInv, Unstarted, MakeConnection
  PROVE  IInv'
<1>0. TypeOK /\ ParserOK /\ LinkOK
  BY InvParts
<1>1. UNCHANGED <<state, registry, deferred_returns, call, base_path,
                  connection_id>>
  BY DEF MakeConnection
<1>2. state = Idle /\ ~connected
  BY <1>0 DEF Unstarted, MakeConnection, LinkOK
<1>3. OutOK'
  BY <1>0, QuietOut DEF MakeConnection
<1>4. LinkTypes'
  BY <1>0, TimeoutAssumption DEF MakeConnection, TypeOK, LinkTypes
<1>5. TypeOK'
  BY <1>0, <1>1, <1>3, <1>4, TypeParts DEF MakeConnection, TypeOK
<1>6. ParserOK' /\ state'.cmd = NoCommand /\ ~ResetHalfRead'
  BY <1>1, <1>2, IdleParser
<1>7. LinkOK'
  <2>1. ~ResetHalfRead
    BY <1>2, IdleIsParser DEF ResetHalfRead, NoCommand, COMMAND_RESET
  <2>2. (connection_id' = {}) <=> (base_path' = {} /\ ~ResetHalfRead')
    BY <1>0, <1>1, <1>6, <2>1 DEF LinkOK
  <2>3. /\ connected' = TRUE /\ transport' = "open"
        /\ inactivity_timer' = INACTIVITY_TIMEOUT
    BY DEF MakeConnection
  <2>4. INACTIVITY_TIMEOUT # NoTimer
    BY TimeoutAssumption DEF NoTimer
  <2>5. QED
    BY <1>6, <2>2, <2>3, <2>4 DEF LinkOK, NoCommand, COMMAND_RESET
<1>8. WaitersOK'
  BY <1>1, QueueUntouched
<1>9. QED
  BY <1>5, <1>6, <1>7, <1>8 DEF IInv

LEMMA ConnectionLostInv ==
  ASSUME IInv, ConnectionLost
  PROVE  IInv'
<1>0. TypeOK /\ ParserOK /\ LinkOK
  BY InvParts
<1>1. OutOK'
  BY <1>0, QuietOut DEF ConnectionLost
<1>2. CASE connected
  BY <1>1, <1>2, DisconnectInv DEF ConnectionLost
<1>3. CASE ~connected
  <2>1. UNCHANGED <<connected, connection_id, base_path, state, registry,
                    leaked, deferred_returns, call, inactivity_timer>>
    BY <1>3 DEF ConnectionLost
  <2>2. ParserOK' /\ (ResetHalfRead' <=> ResetHalfRead)
    BY <2>1, ParserKept
  <2>3. WaitersOK'
    BY <2>1, QueueUntouched
  <2>4. LinkTypes'
    BY <1>0, <2>1 DEF TypeOK, LinkTypes
  <2>5. TypeOK'
    BY <1>0, <1>1, <2>1, <2>4, TypeParts DEF ConnectionLost, TypeOK
  <2>6. LinkOK'
    BY <1>0, <1>3, <2>1, <2>2 DEF LinkOK
  <2>7. QED
    BY <2>2, <2>3, <2>5, <2>6 DEF IInv
<1>4. QED
  BY <1>2, <1>3

LEMMA InactivityTimeoutInv ==
  ASSUME IInv, InactivityTimeout
  PROVE  IInv'
<1>1. OutOK'
  BY InvParts, QuietOut DEF InactivityTimeout
<1>2. QED
  BY <1>1, InvParts, DisconnectInv DEF InactivityTimeout, TypeOK

(* Calls from SHET and the passing of time leave the link alone.           *)
LEMMA LinkIdle ==
  ASSUME IInv, OutOK', LinkTypes', WaitersOK',
         UNCHANGED <<transport, connected, connection_id, base_path, state,
                     registry, leaked>>,
         (inactivity_timer' = NoTimer) <=> (inactivity_timer = NoTimer),
         deferred_returns' \in Seq(Deferreds),
         call' \in [Requests -> Outcomes]
  PROVE  IInv'
<1>1. ParserOK' /\ (ResetHalfRead' <=> ResetHalfRead)
  BY ParserKept
<1>2. TypeOK'
  BY InvParts, TypeParts DEF TypeOK
<1>3. LinkOK'
  BY <1>1, InvParts DEF LinkOK
<1>4. QED
  BY <1>1, <1>2, <1>3 DEF IInv

(* A new request queues behind all others.                                 *)
LEMMA PendingGrows ==
  ASSUME TypeOK, ParserOK, NEW r \in Requests, NEW bytes,
         NEW type \in Types, Ask(r, bytes, type)
  PROVE  Pending' = Append(Pending, [req |-> r, return_type |-> type])
<1>1. DEFINE d == [req |-> r, return_type |-> type]
<1>2. d \in Deferreds
  BY DEF Deferreds
<1>3. /\ state.popped \in Seq(Deferreds)
      /\ deferred_returns \in Seq(Deferreds)
  BY PendingFacts
<1>4. ASSUME NEW e \in Deferreds
      PROVE  state.popped \o Append(deferred_returns, e)
               = Append(state.popped \o deferred_returns, e)
  <2>1. \A p, q \in Seq(Deferreds) : p \o Append(q, e) = Append(p \o q, e)
    OBVIOUS
  <2>2. QED
    BY <1>3, <2>1
<1>5. state' = state /\ deferred_returns' = Append(deferred_returns, d)
  BY DEF Ask
<1>6. QED
  BY <1>2, <1>4, <1>5 DEF Pending

LEMMA AskInv ==
  ASSUME IInv, NEW r \in Requests, NEW bytes \in Seq(Bytes),
         NEW type \in Types, Ask(r, bytes, type)
  PROVE  IInv'
<1> USE DEF Ask
<1>0. TypeOK /\ ParserOK /\ WaitersOK
  BY InvParts
<1>1. DEFINE d == [req |-> r, return_type |-> type]
<1>2. d \in Deferreds
  BY DEF Deferreds
<1>3. /\ state.popped \in Seq(Deferreds)
      /\ deferred_returns \in Seq(Deferreds)
      /\ Pending \in Seq(Deferreds)
  BY <1>0, PendingFacts
<1>4. Pending' = Append(Pending, d)
  BY <1>0, PendingGrows
<1>5. WaitersOK'
  BY <1>0, <1>3, <1>4, QueueJoined
<1>6. deferred_returns' \in Seq(Deferreds)
  BY <1>2, <1>3
<1>7. call' \in [Requests -> Outcomes]
  BY <1>0, ZeroTypes DEF TypeOK, Outcomes
<1>8. OutOK' /\ LinkTypes'
  BY <1>0 DEF OutOK, Outputs, Wrote, LinkTypes, TypeOK
<1>9. QED
  BY <1>5, <1>6, <1>7, <1>8, LinkIdle

LEMMA CallableType ==
  ASSUME TypeOK, NEW kind, NEW o \in Callable(kind)
  PROVE  /\ o \in Registrations
         /\ o.id \in Int16 /\ o.arg \in Types /\ o.ret \in Types
BY DEF Callable, TypeOK, Registrations

(* An argument of any type, as bytes.                                      *)
LEMMA ArgumentBytes ==
  ASSUME NEW type \in Types, NEW v \in ValuesFor(type)
  PROVE  Encode(type, v) \in Seq(Bytes)
<1>1. CASE type = "Void"
  BY <1>1 DEF Encode
<1>2. CASE type = "Integer"
  <2>1. v \in Int
    BY <1>2, ValuesAssumption DEF ValuesFor
  <2>2. Encode(type, v) = EncodeInteger(v)
    BY <1>2 DEF Encode
  <2>3. QED
    BY <2>1, <2>2, EncodeIntegerType
<1>3. CASE type = "String"
  <2>1. v \in {0, 47}
    BY <1>3 DEF ValuesFor, SLASH
  <2>2. <<0>> \in Seq(Bytes) /\ <<47, 0>> \in Seq(Bytes)
    BY DEF Bytes
  <2>3. Encode(type, v) = IF v = 0 THEN <<0>> ELSE <<v, 0>>
    BY <1>3 DEF Encode
  <2>4. QED
    BY <2>1, <2>2, <2>3
<1>4. QED
  BY <1>1, <1>2, <1>3 DEF Types

(* A command and its arguments, as bytes.                                  *)
LEMMA CallBytes ==
  ASSUME NEW c \in Bytes, NEW id \in Int16, NEW type \in Types,
         NEW v \in ValuesFor(type)
  PROVE  /\ <<c>> \o EncodeInteger(id) \in Seq(Bytes)
         /\ <<c>> \o EncodeInteger(id) \o Encode(type, v) \in Seq(Bytes)
<1>1. <<c>> \in Seq(Bytes) /\ EncodeInteger(id) \in Seq(Bytes)
  BY EncodeIntegerType DEF Int16
<1>2. Encode(type, v) \in Seq(Bytes)
  BY ArgumentBytes
<1>3. <<c>> \o EncodeInteger(id) \in Seq(Bytes)
  BY <1>1, ConcatProperties
<1>4. QED
  BY <1>2, <1>3, ConcatProperties

LEMMA ShetCallsInv ==
  ASSUME IInv, ShetCalls
  PROVE  IInv'
<1>0. TypeOK /\ /\ COMMAND_GET_PROPERTY \in Bytes
                /\ COMMAND_SET_PROPERTY \in Bytes
                /\ COMMAND_CALL_ACTION \in Bytes
  BY InvParts DEF Bytes, COMMAND_GET_PROPERTY, COMMAND_SET_PROPERTY,
    COMMAND_CALL_ACTION
<1>1. ASSUME NEW o \in Callable("property"), NEW r \in Requests,
             OnGetProperty(o, r)
      PROVE  IInv'
  <2>1. o.id \in Int16 /\ o.ret \in Types
    BY <1>0, CallableType
  <2>2. <<COMMAND_GET_PROPERTY>> \o EncodeInteger(o.id) \in Seq(Bytes)
    <3>1. /\ <<COMMAND_GET_PROPERTY>> \in Seq(Bytes)
          /\ EncodeInteger(o.id) \in Seq(Bytes)
      BY <1>0, <2>1, EncodeIntegerType DEF Int16
    <3>2. QED
      BY <3>1, ConcatProperties
  <2>3. QED
    BY <1>1, <2>1, <2>2, AskInv DEF OnGetProperty
<1>2. ASSUME NEW o \in Callable("property"), NEW v \in ValuesFor(o.arg),
             OnSetProperty(o, v)
      PROVE  IInv'
  <2>1. o.id \in Int16 /\ o.arg \in Types
    BY <1>0, CallableType
  <2>2. out' \in Outputs
    <3>1. <<COMMAND_SET_PROPERTY>> \o EncodeInteger(o.id) \o Encode(o.arg, v)
             \in Seq(Bytes)
      BY <1>0, <2>1, CallBytes
    <3>2. QED
      BY <1>2, <3>1 DEF OnSetProperty, Outputs, Wrote
  <2>3. OutOK' /\ LinkTypes'
    BY <1>0, <1>2, <2>2 DEF OnSetProperty, OutOK, LinkTypes, TypeOK
  <2>4. WaitersOK'
    BY <1>2, QueueUntouched DEF OnSetProperty
  <2>5. QED
    BY <1>0, <1>2, <2>3, <2>4, LinkIdle DEF OnSetProperty, TypeOK
<1>3. ASSUME NEW o \in Callable("action"), NEW r \in Requests,
             NEW v \in ValuesFor(o.arg), OnAction(o, r, v)
      PROVE  IInv'
  <2>1. o.id \in Int16 /\ o.arg \in Types /\ o.ret \in Types
    BY <1>0, CallableType
  <2>2. <<COMMAND_CALL_ACTION>> \o EncodeInteger(o.id) \o Encode(o.arg, v)
           \in Seq(Bytes)
    BY <1>0, <2>1, CallBytes
  <2>3. QED
    BY <1>3, <2>1, <2>2, AskInv DEF OnAction
<1>4. QED
  BY <1>1, <1>2, <1>3 DEF ShetCalls

LEMMA TickInv ==
  ASSUME IInv, Tick
  PROVE  IInv'
<1> USE DEF Tick
<1>0. TypeOK
  BY InvParts
<1>1. /\ inactivity_timer' \in {NoTimer} \cup 0 .. INACTIVITY_TIMEOUT
      /\ (inactivity_timer' = NoTimer) <=> (inactivity_timer = NoTimer)
  BY <1>0, TimeoutAssumption DEF TypeOK, NoTimer
<1>2. since_reset' \in 0 .. RESET_COOLOFF_DELAY + 1
  BY <1>0, CooloffAssumption DEF TypeOK
<1>3. OutOK' /\ LinkTypes'
  BY <1>0, <1>1, <1>2 DEF OutOK, LinkTypes, TypeOK, Silent, Outputs
<1>4. WaitersOK'
  BY QueueUntouched
<1>5. QED
  BY <1>0, <1>1, <1>3, <1>4, LinkIdle DEF TypeOK

LEMMA StutterInv ==
  ASSUME IInv, UNCHANGED vars
  PROVE  IInv'
<1> USE DEF vars
<1>1. OutOK' /\ LinkTypes'
  BY InvParts DEF OutOK, LinkTypes, TypeOK
<1>2. WaitersOK'
  BY QueueUntouched
<1>3. QED
  BY <1>1, <1>2, InvParts, LinkIdle DEF TypeOK

-----------------------------------------------------------------------------
(***************************************************************************)
(* The invariants.                                                         *)
(***************************************************************************)

(* Only a byte received makes the parser leave Idle, and bytes are         *)
(* received only once the link is open.                                    *)
LEMMA NextUnstarted ==
  ASSUME TypeOK, Unstarted, [Next]_vars
  PROVE  Unstarted'
<1>1. CASE MakeConnection
  BY <1>1 DEF MakeConnection, Unstarted
<1>2. CASE PeerSends
  BY <1>2 DEF PeerSends, DataReceived, Unstarted
<1>3. CASE ConnectionLost
  BY <1>3 DEF ConnectionLost, Unstarted
<1>4. CASE ShetCalls
  BY <1>4 DEF ShetCalls, OnGetProperty, OnSetProperty, OnAction, Ask, Unstarted
<1>5. CASE InactivityTimeout
  BY <1>5 DEF InactivityTimeout, Unstarted
<1>6. CASE Tick
  BY <1>6 DEF Tick, Unstarted
<1>7. CASE UNCHANGED vars
  BY <1>7 DEF vars, Unstarted
<1>8. QED
  BY <1>1, <1>2, <1>3, <1>4, <1>5, <1>6, <1>7 DEF Next

LEMMA NextInv ==
  ASSUME IInv, Unstarted, [Next]_vars
  PROVE  IInv'
<1>1. CASE PeerSends
  BY <1>1, DataInv DEF PeerSends
<1>2. CASE ~PeerSends
  BY <1>2, MakeConnectionInv, ConnectionLostInv, ShetCallsInv,
     InactivityTimeoutInv, TickInv, StutterInv DEF Next
<1>3. QED
  BY <1>1, <1>2

LEMMA Invariance == Spec => [](IInv /\ Unstarted)
<1>1. Init => IInv /\ Unstarted
  BY InitInv DEF Init, Unstarted
<1>2. IInv /\ Unstarted /\ [Next]_vars => (IInv /\ Unstarted)'
  BY NextInv, NextUnstarted, InvParts
<1>3. QED
  BY <1>1, <1>2, PTL DEF Spec

(* Every variable keeps its type, whatever the peer sends.                 *)
THEOREM TypeCorrectness == Spec => []TypeOK
BY Invariance, InvParts, PTL

(* What the peer set up lasts exactly as long as the link                  *)
(* (Client._on_connect and _on_disconnect, process_reset).                 *)
THEOREM LinkLifetime == Spec => []LinkOK
BY Invariance, InvParts, PTL

(* A handler suspended in a field holds what its signature asks for        *)
(* (clientfsm.py, typefsm.py).                                             *)
THEOREM ParserSoundness == Spec => []ParserOK
BY Invariance, InvParts, PTL

(* No two Deferreds in the queue or in hand have one request, and each of  *)
(* these requests waits (_deferred_returns, process_return).               *)
THEOREM QueueSoundness == Spec => []WaitersOK
BY Invariance, InvParts, PTL

-----------------------------------------------------------------------------
(***************************************************************************)
(* The order in which requests are answered.                               *)
(***************************************************************************)

OrderStep == \A r \in Requests : call'[r] # call[r] => FateInOrder(r)

(* Only the requests in the queue fail, and these wait.                    *)
LEMMA DisconnectOrder ==
  ASSUME IInv, connected, OnDisconnect
  PROVE  OrderStep
<1>0. TypeOK /\ ParserOK /\ WaitersOK
  BY InvParts
<1>1. SUFFICES ASSUME NEW r \in Requests, call'[r] # call[r]
               PROVE  FateInOrder(r)
  BY DEF OrderStep
<1>2. r \in Queued /\ call'[r] = [status |-> "failed", value |-> 0]
  BY <1>1 DEF OnDisconnect
<1>3. call[r].status = "waiting"
  <2>1. /\ state.popped \in Seq(Deferreds)
        /\ deferred_returns \in Seq(Deferreds)
    BY <1>0, PendingFacts
  <2>2. PICK i \in 1 .. Len(deferred_returns) : deferred_returns[i].req = r
    BY <1>2, <2>1 DEF Queued, Range
  <2>3. PICK m \in Nat : m = Len(state.popped)
    BY <2>1, LenProperties
  <2>4. PICK n \in Nat : n = Len(deferred_returns)
    BY <2>1, LenProperties
  <2>5. /\ Len(Pending) = m + n
        /\ \A k \in 1 .. m + n :
              Pending[k] = IF k <= m THEN state.popped[k]
                           ELSE deferred_returns[k - m]
    BY <2>1, <2>3, <2>4, ConcatProperties DEF Pending
  <2>6. \A a, c \in Nat : \A j \in 1 .. c :
           a + j \in 1 .. a + c /\ ~(a + j <= a) /\ (a + j) - a = j
    OBVIOUS
  <2>7. Pending[m + i] = deferred_returns[i] /\ m + i \in 1 .. Len(Pending)
    BY <2>2, <2>4, <2>5, <2>6
  <2>8. QED
    BY <1>0, <2>2, <2>7 DEF WaitersOK
<1>4. connected' = FALSE
  BY DEF OnDisconnect
<1>5. QED
  BY <1>2, <1>3, <1>4 DEF FateInOrder

LEMMA MalformedOrder ==
  ASSUME IInv, OnMalformedCommand
  PROVE  OrderStep
<1>1. CASE connected
  BY <1>1, DisconnectOrder DEF OnMalformedCommand
<1>2. CASE ~connected
  BY <1>2 DEF OnMalformedCommand, OrderStep
<1>3. QED
  BY <1>1, <1>2

LEMMA ServedOrder ==
  ASSUME IInv, Pending \in Seq(Deferreds), Pending # <<>>,
         NEW v, Answer(Head(Pending), v)
  PROVE  OrderStep
<1>0. TypeOK /\ WaitersOK
  BY InvParts
<1>1. SUFFICES ASSUME NEW r \in Requests, call'[r] # call[r]
               PROVE  FateInOrder(r)
  BY DEF OrderStep
<1>2. r = Oldest /\ call'[r] = [status |-> "answered", value |-> v]
  BY <1>0, <1>1 DEF Answer, Oldest, TypeOK
<1>3. call[r].status = "waiting"
  <2>1. 1 \in 1 .. Len(Pending) /\ Head(Pending) = Pending[1]
    BY EmptySeq, LenProperties
  <2>2. QED
    BY <1>0, <1>2, <2>1 DEF WaitersOK, Oldest
<1>4. QED
  BY <1>2, <1>3 DEF FateInOrder

LEMMA ReturnOrder ==
  ASSUME IInv, NEW b, ProcessReturn(b)
  PROVE  OrderStep
<1>1. CASE deferred_returns = <<>>
  BY <1>1, MalformedOrder DEF ProcessReturn
<1>2. CASE deferred_returns # <<>>
  <2>1. CASE Head(deferred_returns).return_type # "Void"
    BY <1>2, <2>1 DEF ProcessReturn, ServeReturn, OrderStep
  <2>2. CASE Head(deferred_returns).return_type = "Void"
    <3>1. Pending = deferred_returns /\ Pending \in Seq(Deferreds)
      BY InvParts, PendingFacts DEF ProcessReturn, NoCommand, COMMAND_RETURN
    <3>2. Answer(Head(deferred_returns), 0)
      BY <1>2, <2>2 DEF ProcessReturn, ServeReturn
    <3>3. QED
      BY <1>2, <3>1, <3>2, ServedOrder
  <2>3. QED
    BY <2>1, <2>2
<1>3. QED
  BY <1>1, <1>2

LEMMA AskOrder ==
  ASSUME IInv, NEW r \in Requests, NEW bytes, NEW type \in Types,
         Ask(r, bytes, type)
  PROVE  OrderStep
<1>0. TypeOK /\ ParserOK
  BY InvParts
<1>1. SUFFICES ASSUME NEW q \in Requests, call'[q] # call[q]
               PROVE  FateInOrder(q)
  BY DEF OrderStep
<1>2. /\ q = r
      /\ call'[q] = [status |-> "waiting", value |-> 0]
      /\ call[q].status # "waiting"
  BY <1>0, <1>1 DEF Ask, TypeOK
<1>3. r = Newest'
  <2>1. Pending \in Seq(Deferreds)
    BY <1>0, PendingFacts
  <2>2. DEFINE d == [req |-> r, return_type |-> type]
  <2>3. Pending' = Append(Pending, d)
    BY <1>0, PendingGrows
  <2>4. Append(Pending, d)[Len(Append(Pending, d))] = d
    BY <2>1
  <2>5. Newest' = d.req
    BY <2>3, <2>4 DEF Newest
  <2>6. QED
    BY <2>5
<1>4. QED
  BY <1>2, <1>3 DEF FateInOrder

LEMMA CommandOrder ==
  ASSUME IInv, NEW b, ProcessCommand(b)
  PROVE  OrderStep
<1>1. CASE CommandFromStranger(b)
  BY <1>1 DEF CommandFromStranger, OrderStep
<1>2. CASE ProcessReset(b)
  BY <1>2, DisconnectOrder DEF ProcessReset, OrderStep
<1>3. CASE ProcessReturn(b)
  BY <1>3, ReturnOrder
<1>4. CASE ProcessArguments(b)
  BY <1>4 DEF ProcessArguments, OrderStep
<1>5. CASE UnknownCommand(b)
  BY <1>5, MalformedOrder DEF UnknownCommand
<1>6. QED
  BY <1>1, <1>2, <1>3, <1>4, <1>5 DEF ProcessCommand

LEMMA FinishOrder ==
  ASSUME IInv, NEW b, FinishCommand(b)
  PROVE  OrderStep
<1>1. CASE Connect(b)
  BY <1>1 DEF Connect, OrderStep
<1>2. CASE FinishReturn(b)
  <2>1. Pending \in Seq(Deferreds) /\ Pending # <<>>
        /\ Head(Pending) = state.popped[1]
    BY <1>2, InvParts, PendingFacts DEF FinishReturn
  <2>2. QED
    BY <1>2, <2>1, ServedOrder DEF FinishReturn
<1>3. CASE FinishPing(b)
  BY <1>3, MalformedOrder DEF FinishPing, OrderStep
<1>4. CASE FinishAdd(b)
  BY <1>4, MalformedOrder DEF FinishAdd, OrderStep
<1>5. CASE FinishRemove(b)
  BY <1>5, MalformedOrder DEF FinishRemove, OrderStep
<1>6. CASE FinishRaise(b)
  BY <1>6 DEF FinishRaise, OrderStep
<1>7. QED
  BY <1>1, <1>2, <1>3, <1>4, <1>5, <1>6 DEF FinishCommand

LEMMA FieldOrder ==
  ASSUME IInv, NEW b, ProcessField(b)
  PROVE  OrderStep
<1>1. CASE ReadPart(b)
  BY <1>1 DEF ReadPart, OrderStep
<1>2. CASE AbsorbReset(b)
  BY <1>2, MalformedOrder DEF AbsorbReset, OrderStep
<1>3. CASE RejectField(b)
  BY <1>3, MalformedOrder DEF RejectField
<1>4. CASE NextField(b)
  BY <1>4 DEF NextField, OrderStep
<1>5. CASE FinishCommand(b)
  BY <1>5, FinishOrder
<1>6. QED
  BY <1>1, <1>2, <1>3, <1>4, <1>5 DEF ProcessField

LEMMA ShetCallsOrder ==
  ASSUME IInv, ShetCalls
  PROVE  OrderStep
<1>0. TypeOK
  BY InvParts
<1>1. ASSUME NEW o \in Callable("property"), NEW r \in Requests,
             OnGetProperty(o, r)
      PROVE  OrderStep
  BY <1>0, <1>1, CallableType, AskOrder DEF OnGetProperty
<1>2. ASSUME NEW o \in Callable("property"), NEW v \in ValuesFor(o.arg),
             OnSetProperty(o, v)
      PROVE  OrderStep
  BY <1>2 DEF OnSetProperty, OrderStep
<1>3. ASSUME NEW o \in Callable("action"), NEW r \in Requests,
             NEW v \in ValuesFor(o.arg), OnAction(o, r, v)
      PROVE  OrderStep
  BY <1>0, <1>3, CallableType, AskOrder DEF OnAction
<1>4. QED
  BY <1>1, <1>2, <1>3 DEF ShetCalls

LEMMA NextOrder ==
  ASSUME IInv, [Next]_vars
  PROVE  OrderStep
<1>1. CASE MakeConnection
  BY <1>1 DEF MakeConnection, OrderStep
<1>2. CASE PeerSends
  BY <1>2, CommandOrder, FieldOrder DEF PeerSends, DataReceived
<1>3. CASE ConnectionLost
  BY <1>3, DisconnectOrder DEF ConnectionLost, OrderStep
<1>4. CASE ShetCalls
  BY <1>4, ShetCallsOrder
<1>5. CASE InactivityTimeout
  <2>1. connected
    BY <1>5, InvParts DEF InactivityTimeout, LinkOK, NoTimer
  <2>2. QED
    BY <1>5, <2>1, DisconnectOrder DEF InactivityTimeout
<1>6. CASE Tick
  BY <1>6 DEF Tick, OrderStep
<1>7. CASE UNCHANGED vars
  BY <1>7 DEF vars, OrderStep
<1>8. QED
  BY <1>1, <1>2, <1>3, <1>4, <1>5, <1>6, <1>7 DEF Next

(* A RETURN answers the request that has waited longest, a request fails   *)
(* only with its link, and one that was answered or failed stays so until  *)
(* it is made anew (process_return, _on_disconnect, on_action,             *)
(* on_get_property).                                                       *)
THEOREM AnswersOrder == Spec => AnswersInOrder
<1>1. IInv /\ [Next]_vars => [OrderStep]_vars
  BY NextOrder
<1>2. QED
  BY <1>1, Invariance, PTL DEF Spec, AnswersInOrder, OrderStep

=============================================================================
