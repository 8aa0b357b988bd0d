--------------------------- MODULE TwoWireProofs ---------------------------
(***************************************************************************)
(* TwoWire implements ByteLink, for bytes of any length, any timeout that  *)
(* is long enough to send one, and buffers of any size.                    *)
(***************************************************************************)
EXTENDS TwoWire, FiniteSetTheorems, TLAPS

Bits(n) == [1..n -> {LOW, HIGH}]

(* The places of a call by what the end does there.                        *)
ToWrite   == {"poll", "request", "ack"}
Sending   == {"send", "end", "gap"}
Receiving == {"await", "sample", "release"}
Quiet     == {"idle", "poll", "request", "gap", "await", "release", "refuse", "take"}

(***************************************************************************)
(* The inductive invariant, for an end e and the other end o.  The first   *)
(* part holds always: what a call is, and the level of its line.           *)
(***************************************************************************)
CallOK(e) ==
    LET c == call[e]
    IN  /\ IF c.writing
           THEN /\ c.at \in ToWrite \cup Sending \cup Receiving \cup {"refuse"}
                /\ c.byte \in Byte
                /\ result[e] = "pending"
                /\ c.at \in Receiving => c.reads < MAX_PRE_WRITE_READS
                /\ c.at \notin {"end", "gap"} => handed[e] = {c.byte}
           ELSE /\ c.at \in {"idle", "take", "refuse"} \cup Receiving
                /\ result[e] # "pending"
                /\ handed[e] = {}
        /\ c.at \in Quiet => line[e] = HIGH
        /\ c.at \in {"ack", "sample"} => line[e] = LOW
        /\ c.at = "sample" => c.timer <= Clock
        /\ c.at = "release" => Len(c.bits) = BITS
        /\ c.at = "send" => Len(c.bits) < BITS

(* The bits o has sent and those it still has to send make up its byte.    *)
SentSoFar(o) ==
    LET c == call[o]
        n == BITS - Len(c.bits)
    IN  c.at = "send" =>
           /\ line[o] = c.byte[n]
           /\ \A i \in 1..Len(c.bits) : c.bits[i] = c.byte[n + i]

(* While e samples, o is at most half a clock from where e takes it to be: *)
(* c is the call of e, d that of o.                                        *)
Phase(c, d) ==
    \/ d.at = "ack" /\ c.bits = <<>> /\ c.timer = 1
    \/ /\ d.at = "send" /\ Len(c.bits) = BITS - Len(d.bits) - 1
       /\ d.timer = c.timer + 1 /\ c.timer \in {0, 1}
    \/ /\ d.at = "send" /\ Len(c.bits) = BITS - Len(d.bits)
       /\ d.timer = c.timer - 1 /\ c.timer \in {1, 2}
    \/ /\ d.at = "end" /\ Len(c.bits) = BITS
       /\ d.timer = TIMEOUT_CYCLES + c.timer - 1 /\ c.timer \in {0, 1}

SampledSoFar(e, o) ==
    call[e].at = "sample" =>
       /\ Len(call[e].bits) <= BITS
       /\ \A i \in 1..Len(call[e].bits) : call[e].bits[i] = call[o].byte[i]
       /\ Phase(call[e], call[o])

(* When e has the byte, o still has it to deliver, until e has received it. *)
InStep(e, o) ==
    /\ SentSoFar(o)
    /\ SampledSoFar(e, o)
    /\ call[e].at = "release" =>
          /\ call[e].bits = call[o].byte
          /\ handed[o] = {call[o].byte}
          /\ call[e].timer = TIMEOUT_CYCLES
          /\ \/ call[o].at = "end" /\ call[o].timer = TIMEOUT_CYCLES - 1
             \/ call[o].at = "gap" /\ call[o].timer = EndGap
    /\ call[o].at = "send" => call[e].at = "sample"
    /\ call[o].at = "end" /\ call[e].at = "sample" => handed[o] = {call[o].byte}
    /\ call[o].at = "end" /\ call[e].at \notin {"sample", "release"} =>
          handed[o] = {} /\ line[o] = HIGH
    /\ call[o].at = "gap" /\ call[e].at # "release" => handed[o] = {}

IInv ==
    /\ TypeOK
    /\ \A e \in Ends : CallOK(e)
    /\ ~in_trouble => \A e \in Ends : InStep(e, Other(e))

-----------------------------------------------------------------------------
(* The ends, and what is in the fields of a call.                          *)

(* There are two ends, each the other of the other.                        *)
LEMMA OtherEnd ==
  ASSUME NEW e \in Ends
  PROVE  /\ Other(e) \in Ends /\ Other(e) # e /\ Other(Other(e)) = e
         /\ \A x \in Ends : x = e \/ x = Other(e)
<1>1. IsFiniteSet(Ends) /\ Cardinality(Ends) = 2
  BY LinkAssumption
<1>2. IsFiniteSet(Ends \ {e}) /\ Cardinality(Ends \ {e}) = 1
  BY <1>1, FS_RemoveElement
<1>3. PICK o : Ends \ {e} = {o}
  BY <1>2, FS_Singleton
<1>4. Ends = {e, o} /\ e # o
  BY <1>3
<1>5. Other(e) = o /\ Other(o) = e
  BY <1>4 DEF Other
<1> QED
  BY <1>4, <1>5

(* The functions from 1..n with n at most N are the sequences that long.   *)
LEMMA UpTo ==
  ASSUME NEW S, NEW N \in Nat
  PROVE  UNION {[1..n -> S] : n \in 0..N} = {s \in Seq(S) : Len(s) <= N}
<1>1. ASSUME NEW s \in UNION {[1..n -> S] : n \in 0..N}
      PROVE  s \in Seq(S) /\ Len(s) <= N
  <2>1. PICK n \in 0..N : s \in [1..n -> S]
    OBVIOUS
  <2> QED
    BY <2>1
<1>2. ASSUME NEW s \in Seq(S), Len(s) <= N
      PROVE  s \in UNION {[1..n -> S] : n \in 0..N}
  <2>1. Len(s) \in 0..N /\ s \in [1..Len(s) -> S]
    BY <1>2
  <2> QED
    BY <2>1
<1> QED
  BY <1>1, <1>2

LEMMA Constants ==
  /\ BITS \in Nat /\ BITS > 0
  /\ TIMEOUT_CYCLES \in Nat /\ TIMEOUT_CYCLES > 3
  /\ COMMS_BUFFER_SIZE \in Nat /\ COMMS_BUFFER_SIZE > 0
  /\ MAX_PRE_WRITE_READS = COMMS_BUFFER_SIZE
  /\ HalfClock = 1 /\ Clock = 2 /\ EndGap = 10 /\ LOW = 0 /\ HIGH = 1
BY LinkAssumption DEF MAX_PRE_WRITE_READS, HalfClock, Clock, EndGap, LOW, HIGH

BitSeq == {s \in Seq({LOW, HIGH}) : Len(s) <= BITS}
Stored == {s \in Seq(Byte) : Len(s) <= COMMS_BUFFER_SIZE - 1}

Places == {"idle", "poll", "request", "ack", "send", "end", "gap",
           "await", "sample", "release", "refuse", "take"}

(* The type of a call and of a buffer, as sequences.                       *)
LEMMA Types ==
  /\ Call = [at : Places, writing : BOOLEAN, byte : Byte \cup {<<>>}, bits : BitSeq,
             timer : 0..(TIMEOUT_CYCLES + EndGap), reads : 0..MAX_PRE_WRITE_READS]
  /\ UNION {[1..n -> Byte] : n \in 0..(COMMS_BUFFER_SIZE - 1)} = Stored
<1>1. UNION {[1..n -> {LOW, HIGH}] : n \in 0..BITS} = BitSeq
  BY UpTo, Constants DEF BitSeq
<1>2. COMMS_BUFFER_SIZE - 1 \in Nat
  BY Constants
<1>3. UNION {[1..n -> Byte] : n \in 0..(COMMS_BUFFER_SIZE - 1)} = Stored
  BY UpTo, <1>2 DEF Stored
<1> QED
  BY <1>1, <1>3 DEF Call, Places

LEMMA IdleCall == Idle \in Call
<1>1. <<>> \in BitSeq
  BY Constants DEF BitSeq
<1> QED
  BY <1>1, Types, Constants DEF Idle, Places

(* A byte is a sequence of BITS bits.                                      *)
LEMMA ByteBits ==
  ASSUME NEW b
  PROVE  b \in Byte <=> b \in Seq({LOW, HIGH}) /\ Len(b) = BITS
<1>1. ASSUME b \in Byte PROVE b \in Seq({LOW, HIGH}) /\ Len(b) = BITS
  BY <1>1, Constants DEF Byte
<1>2. ASSUME b \in Seq({LOW, HIGH}), Len(b) = BITS PROVE b \in Byte
  BY <1>2, Constants DEF Byte
<1> QED
  BY <1>1, <1>2

-----------------------------------------------------------------------------
(* The steps.  It is enough to look at the end that takes a step and at    *)
(* the other one, each as the receiver of what the other sends.            *)

LEMMA BothEnds ==
  ASSUME NEW e \in Ends, TypeOK', CallOK(e)', CallOK(Other(e))',
         ~in_trouble' => InStep(e, Other(e))' /\ InStep(Other(e), e)'
  PROVE  IInv'
BY OtherEnd DEF IInv

(* Where an end neither sends nor receives a byte.                         *)
Apart == {"idle", "poll", "request", "await", "refuse", "take"}

(* An end that is apart, and does not begin to send or to sample, disturbs *)
(* nothing.                                                                *)
LEMMA StaysApart ==
  ASSUME NEW e \in Ends, NEW o \in Ends, InStep(e, o), InStep(o, e),
         call[e].at \in Apart, call'[e].at \in Apart \cup {"ack"},
         call'[o] = call[o], line'[o] = line[o], handed'[o] = handed[o]
  PROVE  InStep(e, o)' /\ InStep(o, e)'
<1>1. call'[e].at \notin {"send", "end", "gap", "sample", "release"}
  BY DEF Apart
<1>2. call[e].at \notin {"ack", "send", "end", "gap", "sample", "release"}
  BY DEF Apart
<1>3. call[o].at \notin {"send", "sample", "release"}
  BY <1>2 DEF InStep, SampledSoFar, Phase
<1>4. InStep(e, o)'
  BY <1>1, <1>2, <1>3 DEF InStep, SentSoFar, SampledSoFar, Phase
<1>5. InStep(o, e)'
  BY <1>1, <1>2, <1>3 DEF InStep, SentSoFar, SampledSoFar, Phase
<1> QED
  BY <1>4, <1>5

LEMMA StartWriteStep ==
  ASSUME IInv, NEW e \in Ends, NEW b \in Written, StartWrite(e, b)
  PROVE  IInv'
<1> DEFINE o == Other(e)
           c == [Idle EXCEPT !.at = "poll", !.writing = TRUE, !.byte = b]
<1>1. o \in Ends /\ o # e /\ Other(o) = e
  BY OtherEnd
<1>2. b \in Byte
  BY LinkAssumption
<1>3. c \in Call
  BY <1>2, IdleCall, Types DEF Idle, Places
<1>4. c.at = "poll" /\ c.writing /\ c.byte = b /\ c.reads = 0 /\ c.bits = <<>>
  BY DEF Idle
<1> HIDE DEF c, o
<1>5. call' = [call EXCEPT ![e] = c] /\ call[e].at = "idle"
  BY DEF StartWrite, c
<1>6. TypeOK'
  BY <1>2, <1>3, <1>5 DEF TypeOK, IInv, StartWrite
<1>7. call'[e] = c /\ call'[o] = call[o] /\ line' = line /\ handed'[e] = {b}
      /\ handed'[o] = handed[o] /\ result'[e] = "pending" /\ result'[o] = result[o]
  BY <1>1, <1>5 DEF TypeOK, IInv, StartWrite
<1>8. CallOK(e)'
  BY <1>2, <1>4, <1>5, <1>7 DEF IInv, CallOK, ToWrite, Sending, Receiving, Quiet
<1>9. CallOK(o)'
  BY <1>1, <1>7 DEF IInv, CallOK
<1>10. ASSUME ~in_trouble' PROVE InStep(e, o)' /\ InStep(o, e)'
  <2>1. InStep(e, o) /\ InStep(o, e)
    BY <1>1, <1>10 DEF IInv, StartWrite, o
  <2> QED
    BY <2>1, <1>1, <1>4, <1>5, <1>7, StaysApart DEF Apart
<1> QED
  BY <1>6, <1>8, <1>9, <1>10, BothEnds DEF o

(* What a call becomes in Goto.                                            *)
LEMMA GotoCall ==
  ASSUME TypeOK, NEW e \in Ends, NEW place \in Places,
         NEW time \in 0..(TIMEOUT_CYCLES + EndGap), Goto(e, place, time)
  PROVE  /\ call' \in [Ends -> Call]
         /\ \A x \in Ends \ {e} : call'[x] = call[x]
         /\ call'[e].at = place /\ call'[e].timer = time
         /\ call'[e].writing = call[e].writing /\ call'[e].byte = call[e].byte
         /\ call'[e].bits = call[e].bits /\ call'[e].reads = call[e].reads
<1>1. call[e] \in Call
  BY DEF TypeOK
<1>2. [call[e] EXCEPT !.at = place, !.timer = time] \in Call
  BY <1>1, Types
<1>3. call' = [call EXCEPT ![e] = [call[e] EXCEPT !.at = place, !.timer = time]]
  BY DEF Goto
<1> QED
  BY <1>1, <1>2, <1>3, Types DEF TypeOK

LEMMA PollStep ==
  ASSUME IInv, NEW e \in Ends, Poll(e)
  PROVE  IInv'
<1> DEFINE o == Other(e)
<1>1. o \in Ends /\ o # e /\ Other(o) = e
  BY OtherEnd
<1> HIDE DEF o
<1>2. PICK place \in {"request", "await", "refuse"}, time \in {0, TIMEOUT_CYCLES} :
         Goto(e, place, time) /\ (place = "await" => call[e].reads < MAX_PRE_WRITE_READS)
  BY DEF Poll
<1>3. TypeOK /\ place \in Places /\ time \in 0..(TIMEOUT_CYCLES + EndGap)
  BY Constants DEF IInv, Places
<1>4. /\ call' \in [Ends -> Call] /\ call'[o] = call[o]
      /\ call'[e].at = place /\ call'[e].writing = call[e].writing
      /\ call'[e].byte = call[e].byte /\ call'[e].bits = call[e].bits
      /\ call'[e].reads = call[e].reads
  BY <1>1, <1>2, <1>3, GotoCall
<1>5. call[e].at = "poll" /\ UNCHANGED <<line, result, buffer, handed, in_trouble>>
  BY DEF Poll
<1>6. TypeOK'
  BY <1>3, <1>4, <1>5 DEF TypeOK
<1>7. CallOK(e)'
  BY <1>2, <1>4, <1>5 DEF IInv, CallOK, ToWrite, Sending, Receiving, Quiet
<1>8. CallOK(o)'
  BY <1>1, <1>4, <1>5 DEF IInv, CallOK
<1>9. ASSUME ~in_trouble' PROVE InStep(e, o)' /\ InStep(o, e)'
  <2>1. InStep(e, o) /\ InStep(o, e)
    BY <1>1, <1>5, <1>9 DEF IInv, o
  <2> QED
    BY <2>1, <1>1, <1>4, <1>5, StaysApart DEF Apart
<1> QED
  BY <1>6, <1>7, <1>8, <1>9, BothEnds DEF o

LEMMA RequestStep ==
  ASSUME IInv, NEW e \in Ends, Request(e)
  PROVE  IInv'
<1> DEFINE o == Other(e)
<1>1. o \in Ends /\ o # e /\ Other(o) = e
  BY OtherEnd
<1> HIDE DEF o
<1>2. TypeOK /\ "ack" \in Places /\ TIMEOUT_CYCLES \in 0..(TIMEOUT_CYCLES + EndGap)
  BY Constants DEF IInv, Places
<1>3. /\ call[e].at = "request" /\ Goto(e, "ack", TIMEOUT_CYCLES)
      /\ line' = [line EXCEPT ![e] = LOW]
      /\ UNCHANGED <<result, buffer, handed, in_trouble>>
  BY DEF Request, Drive
<1>4. /\ call' \in [Ends -> Call] /\ call'[o] = call[o]
      /\ call'[e].at = "ack" /\ call'[e].writing = call[e].writing
      /\ call'[e].byte = call[e].byte /\ call'[e].bits = call[e].bits
      /\ call'[e].reads = call[e].reads
  BY <1>1, <1>2, <1>3, GotoCall
<1>5. TypeOK' /\ line'[e] = LOW /\ line'[o] = line[o]
  BY <1>1, <1>2, <1>3, <1>4 DEF TypeOK
<1>6. CallOK(e)'
  BY <1>3, <1>4, <1>5 DEF IInv, CallOK, ToWrite, Sending, Receiving, Quiet
<1>7. CallOK(o)'
  BY <1>1, <1>3, <1>4, <1>5 DEF IInv, CallOK
<1>8. ASSUME ~in_trouble' PROVE InStep(e, o)' /\ InStep(o, e)'
  <2>1. InStep(e, o) /\ InStep(o, e)
    BY <1>1, <1>3, <1>8 DEF IInv, o
  <2> QED
    BY <2>1, <1>1, <1>3, <1>4, <1>5, StaysApart DEF Apart
<1> QED
  BY <1>5, <1>6, <1>7, <1>8, BothEnds DEF o

LEMMA StartReadStep ==
  ASSUME IInv, NEW e \in Ends, StartRead(e)
  PROVE  IInv'
<1> DEFINE o == Other(e)
<1>1. o \in Ends /\ o # e /\ Other(o) = e
  BY OtherEnd
<1> HIDE DEF o
<1>2. TypeOK /\ "await" \in Places /\ TIMEOUT_CYCLES \in 0..(TIMEOUT_CYCLES + EndGap)
  BY Constants DEF IInv, Places
<1>3. /\ call[e].at = "idle" /\ Goto(e, "await", TIMEOUT_CYCLES)
      /\ UNCHANGED <<line, result, buffer, handed, in_trouble>>
  BY DEF StartRead
<1>4. /\ call' \in [Ends -> Call] /\ call'[o] = call[o]
      /\ call'[e].at = "await" /\ call'[e].writing = call[e].writing
      /\ call'[e].byte = call[e].byte /\ call'[e].bits = call[e].bits
      /\ call'[e].reads = call[e].reads
  BY <1>1, <1>2, <1>3, GotoCall
<1>5. TypeOK'
  BY <1>2, <1>3, <1>4 DEF TypeOK
<1>6. CallOK(e)'
  BY <1>3, <1>4, <1>5 DEF IInv, CallOK, ToWrite, Sending, Receiving, Quiet
<1>7. CallOK(o)'
  BY <1>1, <1>3, <1>4, <1>5 DEF IInv, CallOK
<1>8. ASSUME ~in_trouble' PROVE InStep(e, o)' /\ InStep(o, e)'
  <2>1. InStep(e, o) /\ InStep(o, e)
    BY <1>1, <1>3, <1>8 DEF IInv, o
  <2> QED
    BY <2>1, <1>1, <1>3, <1>4, StaysApart DEF Apart
<1> QED
  BY <1>5, <1>6, <1>7, <1>8, BothEnds DEF o

(* A byte in a buffer is taken from it.                                    *)
LEMMA TakeType ==
  ASSUME TypeOK, NEW e \in Ends, Take(e)
  PROVE  TypeOK'
<1>1. buffer[e] \in Stored /\ buffer[e] # <<>>
  BY Types DEF TypeOK, Take
<1>2. buffer[e] \in Seq(Byte) /\ Len(buffer[e]) \in Nat
  BY <1>1 DEF Stored
<1>3. Tail(buffer[e]) \in Seq(Byte) /\ Len(Tail(buffer[e])) = Len(buffer[e]) - 1
  BY <1>1, <1>2
<1>4. Tail(buffer[e]) \in Stored
  BY <1>1, <1>2, <1>3, Constants DEF Stored
<1>5. buffer \in [Ends -> Stored] /\ buffer' = [buffer EXCEPT ![e] = Tail(@)]
  BY Types DEF TypeOK, Take
<1>6. buffer' \in [Ends -> Stored]
  BY <1>4, <1>5
<1>7. call' \in [Ends -> Call]
  BY IdleCall DEF TypeOK, Take
<1> QED
  BY <1>6, <1>7, Types DEF TypeOK, Take

LEMMA TakeStep ==
  ASSUME IInv, NEW e \in Ends, Take(e)
  PROVE  IInv'
<1> DEFINE o == Other(e)
<1>1. o \in Ends /\ o # e /\ Other(o) = e
  BY OtherEnd
<1> HIDE DEF o
<1>2. TypeOK /\ TypeOK'
  BY TakeType DEF IInv
<1>3. /\ call[e].at \in {"idle", "take"} /\ call' = [call EXCEPT ![e] = Idle]
      /\ UNCHANGED <<line, result, handed, in_trouble>>
  BY DEF Take
<1>4. call'[e] = Idle /\ call'[o] = call[o]
  BY <1>1, <1>2, <1>3 DEF TypeOK
<1>5. CallOK(e)'
  BY <1>3, <1>4 DEF IInv, CallOK, ToWrite, Sending, Receiving, Quiet, Idle
<1>6. CallOK(o)'
  BY <1>1, <1>3, <1>4 DEF IInv, CallOK
<1>7. ASSUME ~in_trouble' PROVE InStep(e, o)' /\ InStep(o, e)'
  <2>1. InStep(e, o) /\ InStep(o, e)
    BY <1>1, <1>3, <1>7 DEF IInv, o
  <2>2. call[e].at \in Apart /\ call'[e].at \in Apart
    BY <1>3, <1>4 DEF Apart, Idle
  <2> QED
    BY <2>1, <2>2, <1>1, <1>3, <1>4, StaysApart
<1> QED
  BY <1>2, <1>5, <1>6, <1>7, BothEnds DEF o

(* The other end asks: it has only just pulled its line low.               *)
LEMMA AnswerStep ==
  ASSUME IInv, NEW e \in Ends, Answer(e)
  PROVE  IInv'
<1> DEFINE o == Other(e)
           c == [call[e] EXCEPT !.at = "sample", !.timer = HalfClock, !.bits = <<>>]
<1>1. o \in Ends /\ o # e /\ Other(o) = e
  BY OtherEnd
<1>2. /\ call[e].at = "await" /\ line[o] = LOW
      /\ call' = [call EXCEPT ![e] = c] /\ line' = [line EXCEPT ![e] = LOW]
      /\ UNCHANGED <<result, buffer, handed, in_trouble>>
  BY DEF Answer, Drive, Heard, Waiting, Target, Hears
<1>3. TypeOK /\ call[e] \in Call
  BY DEF IInv, TypeOK
<1>4. <<>> \in BitSeq /\ "sample" \in Places /\ HalfClock \in 0..(TIMEOUT_CYCLES + EndGap)
  BY Constants DEF BitSeq, Places
<1>5. c \in Call
  BY <1>3, <1>4, Types
<1>6. /\ c.at = "sample" /\ c.timer = 1 /\ c.bits = <<>> /\ Len(c.bits) = 0
      /\ c.writing = call[e].writing /\ c.byte = call[e].byte /\ c.reads = call[e].reads
  BY <1>3, Types, Constants
<1> HIDE DEF o, c
<1>7. call'[e] = c /\ call'[o] = call[o] /\ line'[e] = LOW /\ line'[o] = line[o]
  BY <1>1, <1>2, <1>3 DEF TypeOK
<1>8. TypeOK'
  BY <1>2, <1>3, <1>5 DEF TypeOK
<1>9. CallOK(e)'
  BY <1>2, <1>6, <1>7, Constants DEF IInv, CallOK, ToWrite, Sending, Receiving, Quiet
<1>10. CallOK(o)'
  BY <1>1, <1>2, <1>7 DEF IInv, CallOK
<1>11. ASSUME ~in_trouble' PROVE InStep(e, o)' /\ InStep(o, e)'
  <2>1. InStep(e, o) /\ InStep(o, e)
    BY <1>1, <1>2, <1>11 DEF IInv, o
  <2>2. call[o].at \notin Quiet /\ call[o].at \in Places
    BY <1>1, <1>2, <1>3, Types, Constants DEF IInv, CallOK, TypeOK
  <2>3. call[o].at = "ack"
    BY <1>2, <2>1, <2>2, Constants DEF InStep, SampledSoFar, Phase, Quiet, Places
  <2>4. InStep(e, o)'
    BY <1>6, <1>7, <2>3, Constants DEF InStep, SentSoFar, SampledSoFar, Phase
  <2>5. InStep(o, e)'
    BY <1>6, <1>7, <2>3 DEF InStep, SentSoFar, SampledSoFar, Phase
  <2> QED
    BY <2>4, <2>5
<1> QED
  BY <1>8, <1>9, <1>10, <1>11, BothEnds DEF o

(* What SendBit does with the bits s that are left.                        *)
LEMMA SendBitCall ==
  ASSUME TypeOK, NEW e \in Ends, NEW s \in BitSeq, s # <<>>, SendBit(e, s)
  PROVE  /\ call' \in [Ends -> Call] /\ line' \in [Ends -> {LOW, HIGH}]
         /\ \A x \in Ends \ {e} : call'[x] = call[x] /\ line'[x] = line[x]
         /\ call'[e].at = "send" /\ call'[e].timer = 2
         /\ call'[e].writing = call[e].writing /\ call'[e].byte = call[e].byte
         /\ call'[e].reads = call[e].reads
         /\ Len(call'[e].bits) = Len(s) - 1
         /\ \A i \in 1..(Len(s) - 1) : call'[e].bits[i] = s[i + 1]
         /\ line'[e] = s[1]
<1> DEFINE c == [call[e] EXCEPT !.at = "send", !.timer = Clock, !.bits = Tail(s)]
<1>1. s \in Seq({LOW, HIGH}) /\ Len(s) \in Nat /\ Len(s) <= BITS /\ Len(s) > 0
  BY DEF BitSeq
<1>2. /\ Tail(s) \in Seq({LOW, HIGH}) /\ Len(Tail(s)) = Len(s) - 1
      /\ \A i \in 1..(Len(s) - 1) : Tail(s)[i] = s[i + 1]
  BY <1>1
<1>3. Head(s) = s[1] /\ Head(s) \in {LOW, HIGH}
  BY <1>1
<1>4. /\ Tail(s) \in BitSeq /\ "send" \in Places
      /\ Clock \in 0..(TIMEOUT_CYCLES + EndGap) /\ Clock = 2
  BY <1>1, <1>2, Constants DEF BitSeq, Places
<1>5. call[e] \in Call /\ call' = [call EXCEPT ![e] = c] /\ line' = [line EXCEPT ![e] = Head(s)]
  BY DEF TypeOK, SendBit, Drive
<1>6. c \in Call
  BY <1>4, <1>5, Types
<1>7. /\ c.at = "send" /\ c.timer = 2 /\ c.bits = Tail(s)
      /\ c.writing = call[e].writing /\ c.byte = call[e].byte /\ c.reads = call[e].reads
  BY <1>4, <1>5, Types
<1> HIDE DEF c
<1>8. call'[e] = c /\ line'[e] = Head(s)
  BY <1>5 DEF TypeOK
<1>9. /\ call' \in [Ends -> Call] /\ line' \in [Ends -> {LOW, HIGH}]
      /\ \A x \in Ends \ {e} : call'[x] = call[x] /\ line'[x] = line[x]
  BY <1>3, <1>5, <1>6 DEF TypeOK
<1> QED
  BY <1>2, <1>3, <1>7, <1>8, <1>9

(* In step, an end that writes and hears a low line has been answered, or  *)
(* the other end asks as well.                                             *)
LEMMA AskedOrAnswered ==
  ASSUME IInv, ~in_trouble, NEW e \in Ends, call[e].at = "ack", Hears(e) = LOW
  PROVE  call[Other(e)].at \in {"ack", "sample"}
<1> DEFINE o == Other(e)
<1>1. o \in Ends /\ o # e /\ Other(o) = e /\ line[o] = LOW
  BY OtherEnd DEF Hears
<1> HIDE DEF o
<1>2. call[o] \in Call
  BY <1>1 DEF IInv, TypeOK
<1>3. call[o].at \notin Quiet /\ call[o].at \in Places
  BY <1>1, <1>2, Types, Constants DEF IInv, CallOK
<1>4. InStep(e, o)
  BY <1>1 DEF IInv, o
<1>5. call[o].at \notin {"send", "end"}
  BY <1>1, <1>4, Constants DEF InStep
<1> QED
  BY <1>3, <1>5 DEF Quiet, Places, o

LEMMA AcknowledgedStep ==
  ASSUME IInv, NEW e \in Ends, Acknowledged(e)
  PROVE  IInv'
<1> DEFINE o == Other(e)
           s == call[e].byte
<1>1. o \in Ends /\ o # e /\ Other(o) = e
  BY OtherEnd
<1>2. /\ call[e].at = "ack" /\ Hears(e) = LOW /\ SendBit(e, s)
      /\ Trouble(call[o].at # "sample") /\ UNCHANGED <<result, buffer, handed>>
  BY DEF Acknowledged, Heard, Target
<1> HIDE DEF o
<1>3. TypeOK /\ CallOK(e) /\ call[e].at = "ack"
  BY <1>2 DEF IInv
<1>4. s \in Byte /\ call[e].writing
  BY <1>3 DEF CallOK, Receiving
<1>5. s \in BitSeq /\ Len(s) = BITS /\ s # <<>>
  BY <1>4, ByteBits, Constants DEF BitSeq
<1>6. /\ call' \in [Ends -> Call] /\ line' \in [Ends -> {LOW, HIGH}]
      /\ call'[o] = call[o] /\ line'[o] = line[o]
      /\ call'[e].at = "send" /\ call'[e].timer = 2
      /\ call'[e].writing = call[e].writing /\ call'[e].byte = s
      /\ call'[e].reads = call[e].reads
      /\ Len(call'[e].bits) = BITS - 1
      /\ \A i \in 1..(BITS - 1) : call'[e].bits[i] = s[i + 1]
      /\ line'[e] = s[1]
  BY <1>1, <1>2, <1>3, <1>5, SendBitCall
<1>7. in_trouble' = (in_trouble \/ call[o].at # "sample")
  BY <1>2, <1>6 DEF Trouble, MidByte
<1>8. TypeOK'
  BY <1>2, <1>3, <1>6, <1>7 DEF TypeOK
<1>9. CallOK(e)'
  BY <1>2, <1>3, <1>4, <1>6, Constants DEF CallOK, ToWrite, Sending, Receiving, Quiet
<1>10. CallOK(o)'
  BY <1>1, <1>2, <1>6 DEF IInv, CallOK
<1>11. ASSUME ~in_trouble' PROVE InStep(e, o)' /\ InStep(o, e)'
  <2>1. ~in_trouble /\ call[o].at = "sample"
    BY <1>7, <1>11
  <2>2. SampledSoFar(o, e)
    BY <1>1, <2>1 DEF IInv, InStep
  <2>3. call[o].bits = <<>> /\ Len(call[o].bits) = 0 /\ call[o].timer = 1
    BY <1>2, <2>1, <2>2 DEF SampledSoFar, Phase
  <2>4. SentSoFar(e)'
    BY <1>6, Constants DEF SentSoFar
  <2>5. SampledSoFar(o, e)'
    BY <1>6, <2>1, <2>3, Constants DEF SampledSoFar, Phase
  <2>6. InStep(o, e)'
    BY <1>6, <2>1, <2>4, <2>5 DEF InStep
  <2>7. InStep(e, o)'
    BY <1>6, <2>1 DEF InStep, SentSoFar, SampledSoFar, Phase
  <2> QED
    BY <2>6, <2>7
<1> QED
  BY <1>8, <1>9, <1>10, <1>11, BothEnds DEF o

(* The bit on the line is the one before those left.                       *)
LEMMA NextBitStep ==
  ASSUME IInv, NEW e \in Ends, NextBit(e)
  PROVE  IInv'
<1> DEFINE o == Other(e)
           s == call[e].bits
<1>1. o \in Ends /\ o # e /\ Other(o) = e
  BY OtherEnd
<1> HIDE DEF o
<1>2. /\ call[e].at = "send" /\ call[e].timer = 0
      /\ UNCHANGED <<result, buffer, handed, in_trouble>>
  BY DEF NextBit, Elapsed
<1>3. TypeOK /\ CallOK(e)
  BY DEF IInv
<1>4. call[e].writing /\ s \in BitSeq /\ Len(s) \in Nat /\ Len(s) < BITS
  BY <1>2, <1>3, Types DEF TypeOK, CallOK, Receiving, BitSeq
<1>5. ASSUME ~in_trouble
      PROVE  /\ call[o].at = "sample" /\ SampledSoFar(o, e) /\ SentSoFar(e)
             /\ Len(call[o].bits) = BITS - Len(s) /\ call[o].timer = 1
             /\ call[o].bits \in Seq({LOW, HIGH})
  <2>1. InStep(o, e)
    BY <1>1, <1>5 DEF IInv
  <2>2. call[o].at = "sample" /\ SampledSoFar(o, e) /\ SentSoFar(e)
    BY <1>2, <2>1 DEF InStep
  <2>3. call[o] \in Call
    BY <1>1, <1>3 DEF TypeOK
  <2>4. call[o].timer \in Nat /\ call[o].bits \in Seq({LOW, HIGH})
    BY <2>3, Types, Constants DEF BitSeq
  <2> QED
    BY <1>2, <2>2, <2>4 DEF SampledSoFar, Phase
<1>6. CASE s # <<>>
  <2>1. Len(s) > 0 /\ SendBit(e, s)
    BY <1>4, <1>6 DEF BitSeq, NextBit
  <2>2. /\ call' \in [Ends -> Call] /\ line' \in [Ends -> {LOW, HIGH}]
        /\ call'[o] = call[o] /\ line'[o] = line[o]
        /\ call'[e].at = "send" /\ call'[e].timer = 2
        /\ call'[e].writing = call[e].writing /\ call'[e].byte = call[e].byte
        /\ call'[e].reads = call[e].reads
        /\ Len(call'[e].bits) = Len(s) - 1
        /\ \A i \in 1..(Len(s) - 1) : call'[e].bits[i] = s[i + 1]
        /\ line'[e] = s[1]
    BY <1>1, <1>3, <1>4, <1>6, <2>1, SendBitCall
  <2>3. TypeOK'
    BY <1>2, <1>3, <2>2 DEF TypeOK
  <2>4. CallOK(e)'
    BY <1>2, <1>3, <1>4, <2>2, Constants DEF CallOK, ToWrite, Sending, Receiving, Quiet
  <2>5. CallOK(o)'
    BY <1>1, <1>2, <2>2 DEF IInv, CallOK
  <2>6. ASSUME ~in_trouble' PROVE InStep(e, o)' /\ InStep(o, e)'
    <3>1. /\ call[o].at = "sample" /\ SampledSoFar(o, e) /\ SentSoFar(e)
          /\ Len(call[o].bits) = BITS - Len(s) /\ call[o].timer = 1
      BY <1>2, <1>5, <2>6
    <3> DEFINE n == BITS - Len(s)
    <3>2. \A i \in 1..Len(s) : s[i] = call[e].byte[n + i]
      BY <1>2, <3>1 DEF SentSoFar
    <3>3. BITS - (Len(s) - 1) = n + 1 /\ n \in Nat /\ 1 \in 1..Len(s)
      BY <1>4, <2>1, Constants
    <3>4. s[1] = call[e].byte[n + 1]
      BY <3>2, <3>3
    <3>5. ASSUME NEW i \in 1..(Len(s) - 1)
          PROVE  call'[e].bits[i] = call[e].byte[n + 1 + i]
      <4>1. i + 1 \in 1..Len(s) /\ n + (i + 1) = n + 1 + i
        BY <1>4, <3>3
      <4> QED
        BY <2>2, <3>2, <4>1
    <3>6. SentSoFar(e)'
      BY <2>2, <3>3, <3>4, <3>5 DEF SentSoFar
    <3>7. SampledSoFar(o, e)'
      BY <1>2, <1>4, <2>2, <3>1, Constants DEF SampledSoFar, Phase
    <3>8. InStep(o, e)'
      BY <2>2, <3>1, <3>6, <3>7 DEF InStep
    <3>9. InStep(e, o)'
      BY <2>2, <3>1 DEF InStep, SentSoFar, SampledSoFar, Phase
    <3> QED
      BY <3>8, <3>9
  <2> QED
    BY <2>3, <2>4, <2>5, <2>6, BothEnds DEF o
<1>7. CASE s = <<>>
  <2>1. "end" \in Places /\ TIMEOUT_CYCLES \in 0..(TIMEOUT_CYCLES + EndGap) /\ Len(s) = 0
    BY <1>7, Constants DEF Places
  <2>2. Goto(e, "end", TIMEOUT_CYCLES) /\ line' = line
    BY <1>7 DEF NextBit
  <2>3. /\ call' \in [Ends -> Call] /\ call'[o] = call[o]
        /\ call'[e].at = "end" /\ call'[e].timer = TIMEOUT_CYCLES
        /\ call'[e].writing = call[e].writing /\ call'[e].byte = call[e].byte
        /\ call'[e].reads = call[e].reads
    BY <1>1, <1>3, <2>1, <2>2, GotoCall
  <2>4. TypeOK'
    BY <1>2, <1>3, <2>2, <2>3 DEF TypeOK
  <2>5. CallOK(e)' /\ handed'[e] = {call[e].byte}
    BY <1>2, <1>3, <1>4, <2>2, <2>3 DEF CallOK, ToWrite, Sending, Receiving, Quiet
  <2>6. CallOK(o)'
    BY <1>1, <1>2, <2>2, <2>3 DEF IInv, CallOK
  <2>7. ASSUME ~in_trouble' PROVE InStep(e, o)' /\ InStep(o, e)'
    <3>1. /\ call[o].at = "sample" /\ SampledSoFar(o, e)
          /\ Len(call[o].bits) = BITS /\ call[o].timer = 1
      BY <1>2, <1>5, <2>1, <2>7, Constants
    <3>2. SampledSoFar(o, e)'
      BY <2>3, <3>1, Constants DEF SampledSoFar, Phase
    <3>3. InStep(o, e)'
      BY <2>3, <2>5, <3>1, <3>2 DEF InStep, SentSoFar
    <3>4. InStep(e, o)'
      BY <2>3, <3>1 DEF InStep, SentSoFar, SampledSoFar, Phase
    <3> QED
      BY <3>3, <3>4
  <2> QED
    BY <2>4, <2>5, <2>6, <2>7, BothEnds DEF o
<1> QED
  BY <1>6, <1>7

(* The receiver has released its line: it has sampled all of the byte.     *)
LEMMA EndBitStep ==
  ASSUME IInv, NEW e \in Ends, EndBit(e)
  PROVE  IInv'
<1> DEFINE o == Other(e)
<1>1. o \in Ends /\ o # e /\ Other(o) = e
  BY OtherEnd
<1>2. /\ call[e].at = "end" /\ line[o] = HIGH
      /\ line' = [line EXCEPT ![e] = HIGH] /\ Goto(e, "gap", EndGap)
      /\ Trouble(FALSE) /\ UNCHANGED <<result, buffer, handed>>
  BY DEF EndBit, Heard, Waiting, Target, Hears, Drive
<1> HIDE DEF o
<1>3. TypeOK /\ "gap" \in Places /\ EndGap \in 0..(TIMEOUT_CYCLES + EndGap)
  BY Constants DEF IInv, Places
<1>4. /\ call' \in [Ends -> Call] /\ call'[o] = call[o]
      /\ call'[e].at = "gap" /\ call'[e].timer = EndGap
      /\ call'[e].writing = call[e].writing /\ call'[e].byte = call[e].byte
      /\ call'[e].bits = call[e].bits /\ call'[e].reads = call[e].reads
  BY <1>1, <1>2, <1>3, GotoCall
<1>5. in_trouble' = in_trouble
  BY <1>2, <1>3, <1>4 DEF Trouble, MidByte, TypeOK
<1>6. TypeOK' /\ line'[e] = HIGH /\ line'[o] = line[o]
  BY <1>1, <1>2, <1>3, <1>4, <1>5, Constants DEF TypeOK
<1>7. CallOK(e)'
  BY <1>2, <1>4, <1>6 DEF IInv, CallOK, ToWrite, Sending, Receiving, Quiet
<1>8. CallOK(o)'
  BY <1>1, <1>2, <1>4, <1>6 DEF IInv, CallOK
<1>9. ASSUME ~in_trouble' PROVE InStep(e, o)' /\ InStep(o, e)'
  <2>1. InStep(e, o) /\ InStep(o, e)
    BY <1>1, <1>5, <1>9 DEF IInv, o
  <2>2. call[o].at # "sample"
    BY <1>1, <1>2, Constants DEF IInv, CallOK
  <2>3. InStep(e, o)'
    BY <1>2, <1>4, <1>6, <2>1, <2>2 DEF InStep, SentSoFar, SampledSoFar, Phase
  <2>4. InStep(o, e)'
    BY <1>2, <1>4, <1>6, <2>1, <2>2 DEF InStep, SentSoFar, SampledSoFar, Phase
  <2> QED
    BY <2>3, <2>4
<1> QED
  BY <1>6, <1>7, <1>8, <1>9, BothEnds DEF o

(* What Return leaves: an end in no call, with nothing to deliver.         *)
LEMMA ReturnCall ==
  ASSUME TypeOK, NEW e \in Ends, CallOK(e), NEW success \in BOOLEAN, Return(e, success)
  PROVE  /\ call' \in [Ends -> Call]
         /\ result' \in [Ends -> {"none", "pending", "sent", "failed"}]
         /\ handed' \in [Ends -> SUBSET Byte]
         /\ \A x \in Ends \ {e} : /\ call'[x] = call[x] /\ result'[x] = result[x]
                                  /\ handed'[x] = handed[x]
         /\ call'[e] = Idle /\ result'[e] # "pending" /\ handed'[e] = {}
<1>1. /\ call' = [call EXCEPT ![e] = Idle] /\ call \in [Ends -> Call]
      /\ result \in [Ends -> {"none", "pending", "sent", "failed"}]
      /\ handed \in [Ends -> SUBSET Byte]
  BY DEF Return, TypeOK
<1>2. /\ call' \in [Ends -> Call] /\ call'[e] = Idle
      /\ \A x \in Ends \ {e} : call'[x] = call[x]
  BY <1>1, IdleCall
<1>3. CASE call[e].writing
  <2>1. /\ handed' = [handed EXCEPT ![e] = {}]
        /\ \E r \in {"sent", "failed"} : result' = [result EXCEPT ![e] = r]
    BY <1>3 DEF Return
  <2> QED
    BY <1>1, <1>2, <2>1
<1>4. CASE ~call[e].writing
  BY <1>1, <1>2, <1>4 DEF Return, CallOK
<1> QED
  BY <1>2, <1>3, <1>4

(* An end that is in no call, and before it was not with the other one in  *)
(* the same byte.                                                          *)
LEMMA LeavesInStep ==
  ASSUME NEW e \in Ends, NEW o \in Ends, InStep(e, o), InStep(o, e),
         call[e].at \notin {"ack", "sample", "release"},
         call[o].at \notin {"sample", "release"}, call'[e].at = "idle",
         call'[o] = call[o], line'[o] = line[o], handed'[o] = handed[o]
  PROVE  InStep(e, o)' /\ InStep(o, e)'
<1>1. call[o].at # "send"
  BY DEF InStep
<1>2. InStep(e, o)'
  BY <1>1 DEF InStep, SentSoFar, SampledSoFar, Phase
<1>3. InStep(o, e)'
  BY <1>1 DEF InStep, SentSoFar, SampledSoFar, Phase
<1> QED
  BY <1>2, <1>3

(* Neither end is in the middle of a byte.                                 *)
LEMMA Between ==
  ASSUME NEW e \in Ends, NEW o \in Ends, ~MidByte(call'[e]), ~MidByte(call'[o])
  PROVE  InStep(e, o)' /\ InStep(o, e)'
BY DEF MidByte, InStep, SentSoFar, SampledSoFar, Phase

LEMMA SentStep ==
  ASSUME IInv, NEW e \in Ends, Sent(e)
  PROVE  IInv'
<1> DEFINE o == Other(e)
<1>1. o \in Ends /\ o # e /\ Other(o) = e /\ \A x \in Ends : x = e \/ x = o
  BY OtherEnd
<1> HIDE DEF o
<1>2. /\ call[e].at = "gap" /\ call[e].timer = 0 /\ Return(e, TRUE) /\ Trouble(FALSE)
      /\ UNCHANGED <<line, buffer>>
  BY DEF Sent, Elapsed
<1>3. TypeOK /\ CallOK(e) /\ CallOK(o)
  BY <1>1 DEF IInv
<1>4. /\ call' \in [Ends -> Call] /\ call'[e] = Idle /\ call'[o] = call[o]
      /\ result' \in [Ends -> {"none", "pending", "sent", "failed"}]
      /\ result'[e] # "pending" /\ result'[o] = result[o]
      /\ handed' \in [Ends -> SUBSET Byte] /\ handed'[e] = {} /\ handed'[o] = handed[o]
  BY <1>1, <1>2, <1>3, ReturnCall
<1>5. in_trouble' \in BOOLEAN /\ (~in_trouble' => ~in_trouble \/ ~MidByte(call[o]))
  BY <1>1, <1>2, <1>3, <1>4 DEF Trouble, TypeOK
<1>6. TypeOK'
  BY <1>2, <1>3, <1>4, <1>5 DEF TypeOK
<1>7. CallOK(e)'
  BY <1>2, <1>3, <1>4 DEF CallOK, ToWrite, Sending, Receiving, Quiet, Idle
<1>8. CallOK(o)'
  BY <1>2, <1>3, <1>4 DEF CallOK
<1>9. ASSUME ~in_trouble' PROVE InStep(e, o)' /\ InStep(o, e)'
  <2>1. CASE ~MidByte(call[o])
    BY <1>1, <1>4, <2>1, Between DEF MidByte, Idle
  <2>2. CASE ~in_trouble
    <3>1. InStep(e, o) /\ InStep(o, e)
      BY <1>1, <2>2 DEF IInv, o
    <3>2. call[o].at \notin {"sample", "release"}
      BY <1>2, <3>1, Constants DEF InStep, SampledSoFar, Phase
    <3>3. call'[e].at = "idle"
      BY <1>4 DEF Idle
    <3> QED
      BY <1>1, <1>2, <1>4, <3>1, <3>2, <3>3, LeavesInStep
  <2> QED
    BY <1>5, <1>9, <2>1, <2>2
<1> QED
  BY <1>6, <1>7, <1>8, <1>9, BothEnds DEF o

(* In step, only a Write that nobody answers gives up during a byte.       *)
LEMMA GiveUpStep ==
  ASSUME IInv, NEW e \in Ends, GiveUp(e)
  PROVE  IInv'
<1> DEFINE o == Other(e)
<1>1. o \in Ends /\ o # e /\ Other(o) = e /\ \A x \in Ends : x = e \/ x = o
  BY OtherEnd
<1>2. /\ Return(e, FALSE) /\ line' = [line EXCEPT ![e] = HIGH] /\ buffer' = buffer
      /\ Trouble(call[e].at = "ack" /\ MidByte(call[o]))
  BY DEF GiveUp, Drive
<1>3. call[e].at = "refuse"
      \/ (call[e].at \in {"ack", "await", "end", "release"} /\ call[e].timer = 0)
  BY DEF GiveUp, Waiting, Target, Elapsed
<1> HIDE DEF o
<1>4. TypeOK /\ CallOK(e) /\ CallOK(o)
  BY <1>1 DEF IInv
<1>5. /\ call' \in [Ends -> Call] /\ call'[e] = Idle /\ call'[o] = call[o]
      /\ result' \in [Ends -> {"none", "pending", "sent", "failed"}]
      /\ result'[e] # "pending" /\ result'[o] = result[o]
      /\ handed' \in [Ends -> SUBSET Byte] /\ handed'[e] = {} /\ handed'[o] = handed[o]
  BY <1>1, <1>2, <1>4, ReturnCall
<1>6. /\ in_trouble' \in BOOLEAN
      /\ ~in_trouble' => (~in_trouble /\ call[e].at # "ack") \/ ~MidByte(call[o])
  BY <1>1, <1>2, <1>4, <1>5 DEF Trouble, TypeOK
<1>7. TypeOK' /\ line'[e] = HIGH /\ line'[o] = line[o]
  BY <1>1, <1>2, <1>4, <1>5, <1>6, Constants DEF TypeOK
<1>8. CallOK(e)'
  BY <1>5, <1>7 DEF CallOK, ToWrite, Sending, Receiving, Quiet, Idle
<1>9. CallOK(o)'
  BY <1>4, <1>5, <1>7 DEF CallOK
<1>10. ASSUME ~in_trouble' PROVE InStep(e, o)' /\ InStep(o, e)'
  <2>1. CASE ~MidByte(call[o])
    BY <1>1, <1>5, <2>1, Between DEF MidByte, Idle
  <2>2. CASE ~in_trouble /\ call[e].at # "ack"
    <3>1. InStep(e, o) /\ InStep(o, e)
      BY <1>1, <2>2 DEF IInv, o
    <3>2. call[e].at # "release"
      BY <1>3, <3>1, Constants DEF InStep
    <3>3. call[o].at \notin {"sample", "release"}
      <4>1. call[e].at = "end" => call[e].timer = 0
        BY <1>3
      <4>2. call[o].at = "release" => call[e].at \in {"end", "gap"}
                                      /\ (call[e].at = "end" => call[e].timer > 0)
        BY <3>1, Constants DEF InStep
      <4>3. call[o].at = "sample" => call[e].at \in {"ack", "send", "end"}
                                     /\ (call[e].at = "end" => call[e].timer > 0)
        <5>1. call[o].at = "sample" =>
                 \/ call[e].at \in {"ack", "send"}
                 \/ /\ call[e].at = "end" /\ call[o].timer \in {0, 1}
                    /\ call[e].timer = TIMEOUT_CYCLES + call[o].timer - 1
          BY <3>1 DEF InStep, SampledSoFar, Phase
        <5> QED
          BY <5>1, Constants
      <4> QED
        BY <1>3, <2>2, <4>1, <4>2, <4>3
    <3>4. call[e].at \notin {"ack", "sample", "release"} /\ call'[e].at = "idle"
      BY <1>3, <1>5, <2>2, <3>2 DEF Idle
    <3> QED
      BY <1>1, <1>5, <1>7, <3>1, <3>3, <3>4, LeavesInStep
  <2> QED
    BY <1>6, <1>10, <2>1, <2>2
<1> QED
  BY <1>7, <1>8, <1>9, <1>10, BothEnds DEF o

(* The line is sampled while the sender holds it at the bit that is next.  *)
LEMMA SampleStep ==
  ASSUME IInv, NEW e \in Ends, Sample(e)
  PROVE  IInv'
<1> DEFINE o == Other(e)
           s == call[e].bits
<1>1. o \in Ends /\ o # e /\ Other(o) = e
  BY OtherEnd
<1> HIDE DEF o
<1>2. /\ call[e].at = "sample" /\ call[e].timer = 0
      /\ UNCHANGED <<result, buffer, handed, in_trouble>>
  BY DEF Sample, Elapsed
<1>3. TypeOK /\ CallOK(e) /\ call[e] \in Call /\ call[o] \in Call
  BY <1>1 DEF IInv, TypeOK
<1>4. s \in Seq({LOW, HIGH}) /\ Len(s) \in Nat /\ Len(s) <= BITS
  BY <1>3, Types DEF BitSeq
<1>5. ASSUME ~in_trouble
      PROVE  /\ InStep(e, o) /\ SampledSoFar(e, o) /\ SentSoFar(o)
             /\ \/ /\ call[o].at = "send" /\ Len(s) = BITS - Len(call[o].bits) - 1
                   /\ call[o].timer = 1
                \/ /\ call[o].at = "end" /\ Len(s) = BITS
                   /\ call[o].timer = TIMEOUT_CYCLES - 1
  <2>1. InStep(e, o) /\ SampledSoFar(e, o) /\ SentSoFar(o)
    BY <1>1, <1>5 DEF IInv, o, InStep
  <2>2. Phase(call[e], call[o])
    BY <1>2, <2>1 DEF SampledSoFar
  <2>3. CASE call[o].at = "send" /\ Len(s) = BITS - Len(call[o].bits) - 1
             /\ call[o].timer = call[e].timer + 1
    BY <1>2, <2>1, <2>3
  <2>4. CASE call[o].at = "end" /\ Len(s) = BITS
             /\ call[o].timer = TIMEOUT_CYCLES + call[e].timer - 1
    <3>1. call[o].timer = TIMEOUT_CYCLES - 1
      BY <1>2, <2>4, Constants
    <3> QED
      BY <2>1, <2>4, <3>1
  <2> QED
    BY <1>2, <2>2, <2>3, <2>4 DEF Phase
<1>6. CASE Len(s) < BITS
  <2> DEFINE c == [call[e] EXCEPT !.bits = Append(s, line[o]), !.timer = Clock]
  <2>1. call' = [call EXCEPT ![e] = c] /\ line' = line
    BY <1>6 DEF Sample, Hears, o
  <2>2. line[o] \in {LOW, HIGH}
    BY <1>1, <1>3 DEF TypeOK
  <2>3. Append(s, line[o]) \in Seq({LOW, HIGH}) /\ Len(Append(s, line[o])) = Len(s) + 1
    BY <1>4, <2>2
  <2>4. Append(s, line[o]) \in BitSeq /\ Clock \in 0..(TIMEOUT_CYCLES + EndGap)
    BY <1>4, <1>6, <2>3, Constants DEF BitSeq
  <2>5. c \in Call
    BY <1>3, <2>4, Types
  <2>6. /\ c.at = "sample" /\ c.timer = 2 /\ c.bits = Append(s, line[o])
        /\ c.writing = call[e].writing /\ c.byte = call[e].byte /\ c.reads = call[e].reads
    BY <1>2, <1>3, Types, Constants
  <2> HIDE DEF c
  <2>7. call'[e] = c /\ call'[o] = call[o]
    BY <1>1, <1>3, <2>1 DEF TypeOK
  <2>8. TypeOK'
    BY <1>2, <1>3, <2>1, <2>5 DEF TypeOK
  <2>9. CallOK(e)'
    BY <1>2, <1>3, <2>1, <2>6, <2>7, Constants DEF CallOK, ToWrite, Sending, Receiving, Quiet
  <2>10. CallOK(o)'
    BY <1>1, <1>2, <2>1, <2>7 DEF IInv, CallOK
  <2>11. ASSUME ~in_trouble' PROVE InStep(e, o)' /\ InStep(o, e)'
    <3> DEFINE t == Append(s, line[o])
    <3>1. /\ InStep(e, o) /\ SampledSoFar(e, o) /\ SentSoFar(o) /\ call[o].at = "send"
          /\ Len(s) = BITS - Len(call[o].bits) - 1 /\ call[o].timer = 1
      BY <1>2, <1>5, <1>6, <2>11
    <3>2. Len(call[o].bits) \in Nat
      BY <1>3, Types DEF BitSeq
    <3>3. Len(t) = Len(s) + 1 /\ Len(t) = BITS - Len(call[o].bits)
      BY <2>3, <3>1, <3>2, <1>4, Constants
    <3>4. line[o] = call[o].byte[Len(t)]
      BY <3>1, <3>3 DEF SentSoFar
    <3>5. ASSUME NEW i \in 1..Len(t) PROVE t[i] = call[o].byte[i]
      <4>1. CASE i = Len(t)
        BY <1>4, <2>2, <3>3, <3>4, <4>1
      <4>2. CASE i # Len(t)
        <5>1. i \in 1..Len(s)
          BY <1>4, <3>3, <4>2
        <5>2. t[i] = s[i]
          BY <1>4, <2>2, <5>1
        <5> QED
          BY <1>2, <3>1, <5>1, <5>2 DEF SampledSoFar, Phase
      <4> QED
        BY <4>1, <4>2
    <3> HIDE DEF t
    <3>6. call'[e].bits = t /\ call'[e].at = "sample" /\ call'[e].timer = 2
      BY <2>6, <2>7 DEF t
    <3>7. SampledSoFar(e, o)'
      BY <1>4, <1>6, <2>7, <3>1, <3>3, <3>5, <3>6, Constants DEF SampledSoFar, Phase
    <3>8. InStep(e, o)'
      BY <1>2, <2>1, <2>7, <3>1, <3>6, <3>7 DEF InStep, SentSoFar
    <3>9. InStep(o, e)'
      BY <2>7, <3>1, <3>6 DEF InStep, SentSoFar, SampledSoFar, Phase
    <3> QED
      BY <3>8, <3>9
  <2> QED
    BY <2>8, <2>9, <2>10, <2>11, BothEnds DEF o
<1>7. CASE Len(s) = BITS
  <2>1. line' = [line EXCEPT ![e] = HIGH] /\ Goto(e, "release", TIMEOUT_CYCLES)
    BY <1>4, <1>7, Constants DEF Sample, Drive
  <2>2. "release" \in Places /\ TIMEOUT_CYCLES \in 0..(TIMEOUT_CYCLES + EndGap)
    BY Constants DEF Places
  <2>3. /\ call' \in [Ends -> Call] /\ call'[o] = call[o]
        /\ call'[e].at = "release" /\ call'[e].timer = TIMEOUT_CYCLES
        /\ call'[e].writing = call[e].writing /\ call'[e].byte = call[e].byte
        /\ call'[e].bits = s /\ call'[e].reads = call[e].reads
    BY <1>1, <1>3, <2>1, <2>2, GotoCall
  <2>4. TypeOK' /\ line'[e] = HIGH /\ line'[o] = line[o]
    BY <1>1, <1>2, <1>3, <2>1, <2>3, Constants DEF TypeOK
  <2>5. CallOK(e)'
    BY <1>2, <1>3, <1>7, <2>3, <2>4 DEF CallOK, ToWrite, Sending, Receiving, Quiet
  <2>6. CallOK(o)'
    BY <1>1, <1>2, <2>3, <2>4 DEF IInv, CallOK
  <2>7. ASSUME ~in_trouble' PROVE InStep(e, o)' /\ InStep(o, e)'
    <3>1. Len(call[o].bits) \in Nat
      BY <1>3, Types DEF BitSeq
    <3>2. /\ InStep(e, o) /\ SampledSoFar(e, o)
          /\ call[o].at = "end" /\ call[o].timer = TIMEOUT_CYCLES - 1
      <4>1. ~in_trouble /\ Len(s) # BITS - Len(call[o].bits) - 1
        BY <1>2, <1>7, <2>7, <3>1, Constants
      <4> QED
        BY <4>1, <1>5
    <3>3. call[o].byte \in Byte
      BY <1>1, <3>2 DEF IInv, CallOK, Receiving
    <3>4. s = call[o].byte
      <4>1. call[o].byte \in Seq({LOW, HIGH}) /\ Len(call[o].byte) = Len(s)
        BY <1>7, <3>3, ByteBits
      <4>2. \A i \in 1..Len(s) : s[i] = call[o].byte[i]
        BY <1>2, <3>2 DEF SampledSoFar, Phase
      <4> QED
        BY <1>4, <4>1, <4>2
    <3>5. handed'[o] = {call[o].byte}
      BY <1>2, <3>2 DEF InStep
    <3>6. InStep(e, o)'
      BY <2>3, <3>2, <3>4, <3>5 DEF InStep, SentSoFar, SampledSoFar, Phase
    <3>7. InStep(o, e)'
      BY <2>3, <3>2 DEF InStep, SentSoFar, SampledSoFar, Phase
    <3> QED
      BY <3>6, <3>7
  <2> QED
    BY <2>4, <2>5, <2>6, <2>7, BothEnds DEF o
<1> QED
  BY <1>4, <1>6, <1>7, Constants

(* The byte is stored or dropped when its sender has released the line.    *)
LEMMA ReceiveStep ==
  ASSUME IInv, NEW e \in Ends, Receive(e)
  PROVE  IInv'
<1> DEFINE o == Other(e)
           s == call[e].bits
<1>1. o \in Ends /\ o # e /\ Other(o) = e /\ \A x \in Ends : x = e \/ x = o
  BY OtherEnd
<1>2. /\ call[e].at = "release" /\ Trouble(FALSE) /\ UNCHANGED <<line, result>>
      /\ handed' = IF in_trouble THEN handed ELSE [handed EXCEPT ![o] = {}]
  BY DEF Receive
<1> HIDE DEF o
<1>3. TypeOK /\ CallOK(e) /\ CallOK(o) /\ call[e] \in Call
  BY <1>1 DEF IInv, TypeOK
<1>4. s \in Byte
  BY <1>2, <1>3, Types, ByteBits DEF CallOK, BitSeq
<1>5. PICK place \in {"refuse", "poll", "take"} :
         /\ call'[e].at = place /\ call'[o] = call[o]
         /\ call'[e].writing = call[e].writing /\ call'[e].byte = call[e].byte
         /\ place = "poll" => call[e].writing
         /\ place = "take" => ~call[e].writing
         /\ call' \in [Ends -> Call]
         /\ buffer' \in [Ends -> Stored]
  <2>1. CASE BufferFull(e)
    <3>1. Goto(e, "refuse", 0) /\ buffer' = buffer
      BY <2>1 DEF Receive
    <3>2. "refuse" \in Places /\ 0 \in 0..(TIMEOUT_CYCLES + EndGap)
      BY Constants DEF Places
    <3>3. /\ call'[e].at = "refuse" /\ call'[o] = call[o] /\ call' \in [Ends -> Call]
          /\ call'[e].writing = call[e].writing /\ call'[e].byte = call[e].byte
      BY <1>1, <1>3, <3>1, <3>2, GotoCall
    <3>4. buffer' \in [Ends -> Stored]
      BY <1>3, <3>1, Types DEF TypeOK
    <3> QED
      BY <3>3, <3>4
  <2>2. CASE ~BufferFull(e)
    <3> DEFINE place == IF call[e].writing THEN "poll" ELSE "take"
               n == IF call[e].writing THEN call[e].reads + 1 ELSE call[e].reads
               c == [call[e] EXCEPT !.at = place, !.timer = 0, !.bits = <<>>, !.reads = n]
    <3>1. call' = [call EXCEPT ![e] = c] /\ buffer' = [buffer EXCEPT ![e] = Append(@, s)]
      BY <2>2 DEF Receive
    <3>2. call[e].writing \in BOOLEAN /\ call[e].reads \in 0..MAX_PRE_WRITE_READS
      BY <1>3, Types
    <3>3. call[e].writing => call[e].reads < MAX_PRE_WRITE_READS
      BY <1>2, <1>3 DEF CallOK, Receiving
    <3>4. n \in 0..MAX_PRE_WRITE_READS
      BY <3>2, <3>3, Constants
    <3>5. place \in Places /\ <<>> \in BitSeq /\ 0 \in 0..(TIMEOUT_CYCLES + EndGap)
      BY Constants DEF Places, BitSeq
    <3> HIDE DEF n, place
    <3>6. c \in Call
      BY <1>3, <3>4, <3>5, Types
    <3>7. c.at = place /\ c.writing = call[e].writing /\ c.byte = call[e].byte
      BY <1>3, Types
    <3> HIDE DEF c
    <3>8. call'[e] = c /\ call'[o] = call[o] /\ call' \in [Ends -> Call]
      BY <1>1, <1>3, <3>1, <3>6 DEF TypeOK
    <3>9. buffer[e] \in Seq(Byte) /\ Len(buffer[e]) <= COMMS_BUFFER_SIZE - 1
          /\ Len(buffer[e]) # COMMS_BUFFER_SIZE - 1 /\ Len(buffer[e]) \in Nat
      BY <1>3, <2>2, Types DEF TypeOK, Stored, BufferFull
    <3>10. Append(buffer[e], s) \in Seq(Byte) /\ Len(Append(buffer[e], s)) = Len(buffer[e]) + 1
      BY <1>4, <3>9
    <3>11. Append(buffer[e], s) \in Stored
      BY <3>9, <3>10, Constants DEF Stored
    <3>12. buffer' \in [Ends -> Stored]
      BY <1>3, <3>1, <3>11, Types DEF TypeOK
    <3>13. place \in {"poll", "take"} /\ (place = "poll" => call[e].writing)
           /\ (place = "take" => ~call[e].writing)
      BY <3>2 DEF place
    <3> QED
      BY <3>7, <3>8, <3>12, <3>13
  <2> QED
    BY <2>1, <2>2
<1>6. /\ in_trouble' \in BOOLEAN
      /\ ~in_trouble' => ~in_trouble \/ ~MidByte(call[o])
  BY <1>1, <1>2, <1>3, <1>5 DEF Trouble, TypeOK
<1>7. handed' \in [Ends -> SUBSET Byte] /\ handed'[e] = handed[e]
  BY <1>1, <1>2, <1>3 DEF TypeOK
<1>8. TypeOK'
  BY <1>2, <1>3, <1>5, <1>6, <1>7, Types DEF TypeOK
<1>9. CallOK(e)'
  BY <1>2, <1>3, <1>5, <1>7 DEF CallOK, ToWrite, Sending, Receiving, Quiet
<1>10. ASSUME ~in_trouble
       PROVE  /\ InStep(e, o) /\ InStep(o, e) /\ call[o].at \in {"end", "gap"}
              /\ handed'[o] = {} /\ (call[o].at = "end" => line[o] = HIGH)
  <2>1. InStep(e, o) /\ InStep(o, e)
    BY <1>1, <1>10 DEF IInv, o
  <2>2. call[o].at \in {"end", "gap"}
    BY <1>2, <2>1 DEF InStep
  <2>3. handed'[o] = {}
    BY <1>1, <1>2, <1>3, <1>10 DEF TypeOK
  <2>4. line[o] = HIGH
    BY DEF Receive, Heard, Waiting, Target, Hears, o
  <2> QED
    BY <2>1, <2>2, <2>3, <2>4
<1>11. CallOK(o)'
  <2>1. CASE in_trouble
    BY <1>2, <1>3, <1>5, <2>1 DEF CallOK
  <2>2. CASE ~in_trouble
    BY <1>2, <1>3, <1>5, <1>10, <2>2 DEF CallOK
  <2> QED
    BY <2>1, <2>2
<1>12. ASSUME ~in_trouble' PROVE InStep(e, o)' /\ InStep(o, e)'
  <2>1. CASE ~MidByte(call[o])
    BY <1>1, <1>5, <2>1, Between DEF MidByte
  <2>2. CASE ~in_trouble
    <3>1. InStep(e, o)'
      BY <1>2, <1>5, <1>10, <2>2 DEF InStep, SentSoFar, SampledSoFar
    <3>2. InStep(o, e)'
      BY <1>2, <1>5, <1>10, <2>2 DEF InStep, SentSoFar, SampledSoFar
    <3> QED
      BY <3>1, <3>2
  <2> QED
    BY <1>6, <1>12, <2>1, <2>2
<1> QED
  BY <1>8, <1>9, <1>11, <1>12, BothEnds DEF o

(* Time passes only while both ends wait or hold their lines, so they stay *)
(* as far apart as they are.                                               *)
LEMMA TickStep ==
  ASSUME IInv, Tick
  PROVE  IInv'
<1>1. /\ TypeOK /\ \A e \in Ends : CallOK(e) /\ call[e] \in Call /\ ~Due(e)
      /\ call' = [e \in Ends |-> [call[e] EXCEPT
                                     !.timer = IF @ > 0 THEN @ - 1 ELSE 0]]
      /\ UNCHANGED <<line, result, buffer, handed, in_trouble>>
  BY DEF Tick, IInv, TypeOK
<1>2. ASSUME NEW e \in Ends
      PROVE  /\ call'[e] \in Call
             /\ call'[e].at = call[e].at /\ call'[e].writing = call[e].writing
             /\ call'[e].byte = call[e].byte /\ call'[e].bits = call[e].bits
             /\ call'[e].reads = call[e].reads
             /\ call[e].timer \in Nat /\ call[e].timer <= TIMEOUT_CYCLES + EndGap
             /\ call'[e].timer = IF call[e].timer > 0 THEN call[e].timer - 1 ELSE 0
  <2> DEFINE t == IF call[e].timer > 0 THEN call[e].timer - 1 ELSE 0
  <2>1. call[e] \in Call /\ call[e].timer \in 0..(TIMEOUT_CYCLES + EndGap)
    BY <1>1, Types
  <2>2. t \in 0..(TIMEOUT_CYCLES + EndGap)
    BY <2>1, Constants
  <2>3. call'[e] = [call[e] EXCEPT !.timer = t]
    BY <1>1
  <2> HIDE DEF t
  <2>4. /\ call'[e] \in Call /\ call'[e].timer = t
        /\ call'[e].at = call[e].at /\ call'[e].writing = call[e].writing
        /\ call'[e].byte = call[e].byte /\ call'[e].bits = call[e].bits
        /\ call'[e].reads = call[e].reads
    BY <2>1, <2>2, <2>3, Types
  <2>5. call[e].timer \in Nat /\ call[e].timer <= TIMEOUT_CYCLES + EndGap
    BY <2>1, Constants
  <2> QED
    BY <2>4, <2>5 DEF t
<1>3. call' \in [Ends -> Call]
  BY <1>1, <1>2
<1>4. TypeOK'
  BY <1>1, <1>3 DEF TypeOK
<1>5. ASSUME NEW e \in Ends PROVE CallOK(e)'
  <2>1. call'[e].timer <= call[e].timer /\ call[e].timer \in Nat /\ call'[e].timer \in Nat
    BY <1>2
  <2>2. CallOK(e)
    BY <1>1
  <2> QED
    BY <1>1, <1>2, <2>1, <2>2, Constants DEF CallOK
<1>6. ASSUME ~in_trouble', NEW e \in Ends PROVE InStep(e, Other(e))'
  <2> DEFINE o == Other(e)
  <2>1. o \in Ends /\ o # e /\ Other(o) = e
    BY OtherEnd
  <2>2. InStep(e, o)
    BY <1>1, <1>6 DEF IInv
  <2> HIDE DEF o
  <2>3. /\ call'[o].at = call[o].at /\ call'[o].bits = call[o].bits
        /\ call'[o].byte = call[o].byte
        /\ call'[e].at = call[e].at /\ call'[e].bits = call[e].bits
        /\ call'[e].byte = call[e].byte
    BY <1>2, <2>1
  <2>4. /\ ~Due(e) /\ ~Due(o) /\ CallOK(e) /\ CallOK(o)
        /\ Hears(e) = line[o] /\ Hears(o) = line[e]
    BY <1>1, <2>1 DEF Hears, o
  <2>5. call[e].at # "release"
    <3>1. ASSUME call[e].at = "release" PROVE FALSE
      <4>1. call[o].at \in {"end", "gap"} /\ line[e] = HIGH
        BY <3>1, <2>2, <2>4 DEF InStep, CallOK, Quiet
      <4>2. CASE call[o].at = "end"
        BY <4>1, <4>2, <2>4 DEF Due, Heard, Waiting, Target
      <4>3. CASE call[o].at = "gap"
        <5>1. line[o] = HIGH
          BY <4>3, <2>4 DEF CallOK, Quiet
        <5> QED
          BY <3>1, <5>1, <2>4 DEF Due, Heard, Waiting, Target
      <4> QED
        BY <4>1, <4>2, <4>3
    <3> QED
      BY <3>1
  <2>6. SentSoFar(o)'
    <3>1. SentSoFar(o)
      BY <2>2 DEF InStep
    <3> QED
      BY <1>1, <2>3, <3>1 DEF SentSoFar
  <2>7. ASSUME call[e].at = "sample" PROVE Phase(call'[e], call'[o])
    <3>1. Phase(call[e], call[o])
      BY <2>2, <2>7 DEF InStep, SampledSoFar
    <3>2. call[o].at # "ack"
      BY <2>4, <2>7 DEF CallOK, Due, Heard, Waiting, Target
    <3>3. call[e].timer > 0 /\ (call[o].at = "send" => call[o].timer > 0)
      BY <1>2, <2>1, <2>4, <2>7 DEF Due, Elapsed
    <3>4. call'[e].timer = call[e].timer - 1 /\ call[e].timer \in Nat
      BY <1>2, <3>3
    <3>5. call[o].timer > 0 => call'[o].timer = call[o].timer - 1
      BY <1>2, <2>1
    <3>6. call[o].timer \in Nat
      BY <1>2, <2>1
    <3> DEFINE c == call[e]
               d == call[o]
    <3>7. CASE d.at = "send" /\ Len(c.bits) = BITS - Len(d.bits) - 1
               /\ d.timer = c.timer + 1 /\ c.timer \in {0, 1}
      <4>1. c.timer = 1 /\ d.timer = 2
        BY <3>3, <3>7
      <4> QED
        BY <2>3, <3>4, <3>5, <3>7, <4>1 DEF Phase
    <3>8. CASE d.at = "send" /\ Len(c.bits) = BITS - Len(d.bits)
               /\ d.timer = c.timer - 1 /\ c.timer \in {1, 2}
      <4>1. c.timer = 2 /\ d.timer = 1
        BY <3>3, <3>8
      <4> QED
        BY <2>3, <3>4, <3>5, <3>8, <4>1 DEF Phase
    <3>9. CASE d.at = "end" /\ Len(c.bits) = BITS
               /\ d.timer = TIMEOUT_CYCLES + c.timer - 1 /\ c.timer \in {0, 1}
      <4>1. c.timer = 1 /\ d.timer = TIMEOUT_CYCLES
        BY <3>3, <3>9, Constants
      <4> QED
        BY <2>3, <3>4, <3>5, <3>9, <4>1, Constants DEF Phase
    <3> QED
      BY <3>1, <3>2, <3>7, <3>8, <3>9 DEF Phase
  <2>8. SampledSoFar(e, o)'
    <3>1. SampledSoFar(e, o)
      BY <2>2 DEF InStep
    <3> QED
      BY <2>3, <2>7, <3>1 DEF SampledSoFar
  <2>9. InStep(e, o)'
    BY <1>1, <2>2, <2>3, <2>5, <2>6, <2>8 DEF InStep
  <2> QED
    BY <2>9 DEF o
<1> QED
  BY <1>4, <1>5, <1>6 DEF IInv

LEMMA InitInv ==
  ASSUME Init
  PROVE  IInv
<1>1. \A e \in Ends : call[e] = Idle /\ line[e] = HIGH /\ result[e] = "none" /\ handed[e] = {}
  BY DEF Init
<1>2. <<>> \in Stored
  BY Constants DEF Stored
<1>3. TypeOK
  <2>1. call \in [Ends -> Call] /\ line \in [Ends -> {LOW, HIGH}]
    BY IdleCall DEF Init
  <2>2. buffer \in [Ends -> Stored]
    BY <1>2 DEF Init
  <2>3. handed \in [Ends -> SUBSET Byte]
    BY DEF Init
  <2>4. result \in [Ends -> {"none", "pending", "sent", "failed"}] /\ in_trouble \in BOOLEAN
    BY DEF Init
  <2> QED
    BY <2>1, <2>2, <2>3, <2>4, Types DEF TypeOK
<1>4. \A e \in Ends : CallOK(e)
  BY <1>1 DEF CallOK, Idle, ToWrite, Sending, Receiving, Quiet
<1>5. \A e \in Ends : InStep(e, Other(e))
  BY <1>1, OtherEnd DEF InStep, SentSoFar, SampledSoFar, Phase, Idle
<1> QED
  BY <1>3, <1>4, <1>5 DEF IInv

LEMMA StepInv ==
  ASSUME IInv, [Next]_vars
  PROVE  IInv'
<1>1. ASSUME NEW e \in Ends, Proceed(e)
      PROVE  IInv'
  BY <1>1, PollStep, RequestStep, AcknowledgedStep, NextBitStep, EndBitStep, SentStep,
     AnswerStep, SampleStep, ReceiveStep, GiveUpStep, TakeStep DEF Proceed
<1>2. CASE UNCHANGED vars
  BY <1>2 DEF vars, IInv, TypeOK, CallOK, InStep, SentSoFar, SampledSoFar
<1> QED
  BY <1>1, <1>2, StartWriteStep, StartReadStep, TakeStep, TickStep DEF Next

LEMMA Invariance == Spec => []IInv
BY InitInv, StepInv, PTL DEF Spec

(* What each end is doing, what it drives its line to, what it has         *)
(* received and what it has to deliver are of their types: no timer runs   *)
(* below zero, no buffer holds more than it has room for, and a Write      *)
(* receives no more bytes before its own than it may.                      *)
THEOREM TypeCorrectness == Spec => []TypeOK
<1>1. IInv => TypeOK
  BY DEF IInv
<1> QED
  BY <1>1, Invariance, PTL

-----------------------------------------------------------------------------
(* The refinement: what each step is to ByteLink.                          *)

(* A step that leaves alone all that ByteLink speaks of, or ends trouble.  *)
LEMMA SilentOrOver ==
  ASSUME UNCHANGED <<handed, result, buffer>>, in_trouble' \in {FALSE, in_trouble}
  PROVE  [Link!Next]_(Link!vars)
<1>1. CASE in_trouble' = FALSE
  BY <1>1 DEF Link!Next, Link!Over
<1>2. CASE in_trouble' = in_trouble
  BY <1>2 DEF Link!vars
<1> QED
  BY <1>1, <1>2

LEMMA StartWriteWrites ==
  ASSUME IInv, NEW e \in Ends, NEW b \in Written, StartWrite(e, b)
  PROVE  [Link!Next]_(Link!vars)
<1>1. result[e] # "pending" /\ b \in Byte
  BY LinkAssumption DEF IInv, CallOK, StartWrite, ToWrite, Sending, Receiving
<1>2. Link!Write(e, b)
  BY <1>1 DEF StartWrite, Link!Write
<1> QED
  BY <1>1, <1>2 DEF Link!Next

(* When the other end asks as well, both have a byte to deliver.           *)
LEMMA AcknowledgedClashes ==
  ASSUME IInv, NEW e \in Ends, Acknowledged(e)
  PROVE  [Link!Next]_(Link!vars)
<1> DEFINE o == Other(e)
<1>1. o \in Ends /\ o # e /\ \A x \in Ends : x = e \/ x = o
  BY OtherEnd
<1>2. /\ call[e].at = "ack" /\ Hears(e) = LOW
      /\ call' = [call EXCEPT ![e].at = "send", ![e].timer = Clock,
                              ![e].bits = Tail(call[e].byte)]
      /\ UNCHANGED <<handed, result, buffer>> /\ Trouble(call[o].at # "sample")
  BY DEF Acknowledged, Heard, Target, SendBit
<1>3. call[e] \in Call /\ call \in [Ends -> Call] /\ in_trouble \in BOOLEAN
  BY DEF IInv, TypeOK
<1>4. MidByte(call'[e])
  BY <1>2, <1>3, Types DEF MidByte
<1>5. in_trouble' = (in_trouble \/ call[o].at # "sample")
  BY <1>2, <1>4 DEF Trouble
<1>6. CASE in_trouble \/ call[o].at = "sample"
  BY <1>2, <1>3, <1>5, <1>6, SilentOrOver
<1>7. CASE ~in_trouble /\ call[o].at # "sample"
  <2>1. call[o].at = "ack"
    BY <1>2, <1>7, AskedOrAnswered
  <2>2. handed[e] # {} /\ handed[o] # {}
    BY <1>1, <1>2, <2>1 DEF IInv, CallOK, Receiving
  <2>3. Link!Clash
    BY <1>1, <1>2, <1>5, <1>7, <2>2 DEF Link!Clash
  <2> QED
    BY <2>3 DEF Link!Next
<1> QED
  BY <1>6, <1>7

LEMMA EndBitSilent ==
  ASSUME IInv, NEW e \in Ends, EndBit(e)
  PROVE  [Link!Next]_(Link!vars)
BY SilentOrOver DEF EndBit, Trouble, IInv, TypeOK

(* Out of trouble, the other end has received the byte by then.            *)
LEMMA SentSucceeds ==
  ASSUME IInv, NEW e \in Ends, Sent(e)
  PROVE  [Link!Next]_(Link!vars)
<1> DEFINE o == Other(e)
<1>1. o \in Ends /\ Other(o) = e
  BY OtherEnd
<1>2. call[e].at = "gap" /\ call[e].timer = 0 /\ Return(e, TRUE) /\ Trouble(FALSE)
      /\ buffer' = buffer
  BY DEF Sent, Elapsed
<1>3. call[e].writing /\ result[e] = "pending"
  BY <1>2 DEF IInv, CallOK, Receiving
<1>4. handed[e] = {} \/ in_trouble
  BY <1>1, <1>2, Constants DEF IInv, InStep
<1>5. in_trouble' \in {FALSE, in_trouble}
  BY <1>2 DEF Trouble, IInv, TypeOK
<1>6. Link!Succeed(e)
  BY <1>2, <1>3, <1>4, <1>5 DEF Return, Link!Succeed, Link!Finish
<1> QED
  BY <1>6 DEF Link!Next

(* Out of trouble, what has been received is what the other end handed in. *)
LEMMA ReceiveDelivers ==
  ASSUME IInv, NEW e \in Ends, Receive(e)
  PROVE  [Link!Next]_(Link!vars)
<1> DEFINE o == Other(e)
           s == call[e].bits
<1>1. o \in Ends /\ o # e /\ Other(o) = e
  BY OtherEnd
<1>2. /\ call[e].at = "release" /\ Trouble(FALSE) /\ result' = result
      /\ handed' = IF in_trouble THEN handed ELSE [handed EXCEPT ![o] = {}]
      /\ BufferFull(e) => buffer' = buffer
      /\ ~BufferFull(e) => buffer' = [buffer EXCEPT ![e] = Append(@, s)]
  BY DEF Receive
<1>3. in_trouble \in BOOLEAN /\ in_trouble' \in {FALSE, in_trouble}
  BY <1>2 DEF Trouble, IInv, TypeOK
<1>4. buffer \in [Ends -> Stored] /\ Len(buffer[e]) \in Nat
      /\ Len(buffer[e]) <= COMMS_BUFFER_SIZE - 1
  BY Types DEF IInv, TypeOK, Stored
<1>5. BufferFull(e) <=> ~(Len(buffer[e]) < COMMS_BUFFER_SIZE - 1)
  BY <1>4, Constants DEF BufferFull
<1>6. CASE in_trouble /\ BufferFull(e)
  BY <1>2, <1>3, <1>6, SilentOrOver
<1>7. CASE in_trouble /\ ~BufferFull(e)
  <2>1. s \in Byte
    BY <1>2, Types, ByteBits DEF IInv, TypeOK, CallOK, BitSeq
  <2>2. Link!MakeUp(e, s)
    BY <1>2, <1>3, <1>5, <1>7 DEF Link!MakeUp
  <2> QED
    BY <2>1, <2>2 DEF Link!Next
<1>8. CASE ~in_trouble
  <2>1. s \in handed[o]
    BY <1>1, <1>2, <1>8 DEF IInv, InStep
  <2>2. buffer' = [buffer EXCEPT ![e] = IF Len(@) < COMMS_BUFFER_SIZE - 1
                                        THEN Append(@, s) ELSE @]
    BY <1>2, <1>4, <1>5
  <2>3. Link!Deliver(o, e)
    BY <1>2, <1>3, <1>8, <2>1, <2>2 DEF Link!Deliver
  <2> QED
    BY <1>1, <2>3 DEF Link!Next
<1> QED
  BY <1>6, <1>7, <1>8

LEMMA TakeReads ==
  ASSUME IInv, NEW e \in Ends, Take(e)
  PROVE  [Link!Next]_(Link!vars)
<1>1. Link!Read(e)
  BY DEF Take, Link!Read
<1> QED
  BY <1>1 DEF Link!Next

LEMMA GiveUpFails ==
  ASSUME IInv, NEW e \in Ends, GiveUp(e)
  PROVE  [Link!Next]_(Link!vars)
<1>1. /\ Return(e, FALSE) /\ buffer' = buffer
      /\ Trouble(call[e].at = "ack" /\ MidByte(call[Other(e)]))
      /\ in_trouble \in BOOLEAN /\ in_trouble' \in BOOLEAN
  BY DEF GiveUp, Trouble, IInv, TypeOK
<1>2. CASE call[e].writing
  <2>1. result[e] = "pending"
    BY <1>2 DEF IInv, CallOK
  <2>2. Link!Fail(e)
    BY <1>1, <1>2, <2>1 DEF Return, Link!Fail, Link!Finish
  <2> QED
    BY <2>2 DEF Link!Next
<1>3. CASE ~call[e].writing
  <2>1. call[e].at # "ack"
    BY <1>3 DEF IInv, CallOK, Receiving
  <2>2. UNCHANGED <<handed, result, buffer>> /\ in_trouble' \in {FALSE, in_trouble}
    BY <1>1, <1>3, <2>1 DEF Return, Trouble
  <2> QED
    BY <2>2, SilentOrOver
<1> QED
  BY <1>2, <1>3

LEMMA StepRefines ==
  ASSUME IInv, [Next]_vars
  PROVE  [Link!Next]_(Link!vars)
<1>1. in_trouble \in BOOLEAN
  BY DEF IInv, TypeOK
<1>2. ASSUME NEW e \in Ends, Poll(e) \/ Request(e) \/ NextBit(e) \/ StartRead(e)
                             \/ Answer(e) \/ Sample(e)
      PROVE  [Link!Next]_(Link!vars)
  BY <1>1, <1>2, SilentOrOver DEF Poll, Request, NextBit, StartRead, Answer, Sample
<1>3. ASSUME NEW e \in Ends, Proceed(e)
      PROVE  [Link!Next]_(Link!vars)
  BY <1>2, <1>3, AcknowledgedClashes, EndBitSilent, SentSucceeds, ReceiveDelivers,
     GiveUpFails, TakeReads DEF Proceed
<1>4. CASE Tick
  BY <1>1, <1>4, SilentOrOver DEF Tick
<1>5. CASE UNCHANGED vars
  BY <1>1, <1>5, SilentOrOver DEF vars
<1> QED
  BY <1>2, <1>3, <1>4, <1>5, StartWriteWrites, TakeReads DEF Next

(* The link keeps the promises of ByteLink: outside a clash and its        *)
(* aftermath, a byte that Write is given is stored by the other end once,  *)
(* as it is and in its place, or the Write fails, or the buffer is full.   *)
THEOREM Implementation == Spec => Implements
<1>1. Init => Link!Init
  BY DEF Init, Link!Init
<1>2. IInv /\ [Next]_vars => [Link!Next]_(Link!vars)
  BY StepRefines
<1> QED
  BY <1>1, <1>2, Invariance, PTL DEF Spec, Implements, Link!Spec

=============================================================================
