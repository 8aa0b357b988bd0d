------------------------------ MODULE TwoWire -------------------------------
(***************************************************************************)
(* The two-wire link of src/arduino/lib/comms.cpp (DIRECT_CONN) over the   *)
(* pins of src/arduino/lib/pins.h, at both of its ends.                    *)
(*                                                                         *)
(* Each end drives one line and hears the other.  Time passes in half      *)
(* clocks, and only while neither end has anything to do: the code between *)
(* two waits takes a few microseconds of a half clock of 50.  What the two *)
(* ends do at the same instant happens in any order.  The calls they are   *)
(* in are at one of these places:                                          *)
(*   Write:         poll, request, ack, send, end, gap                     *)
(*   ReadToBuffer:  await, sample, release, refuse                         *)
(*   Read:          take                                                   *)
(***************************************************************************)
EXTENDS Naturals, Sequences, FiniteSets

CONSTANTS
    Ends,                \* the two ends
    BITS,                \* the bits of a byte: 8
    Written,             \* the bytes the programs at the ends write: all of Byte
    TIMEOUT_CYCLES,      \* in half clocks: 10000
    COMMS_BUFFER_SIZE    \* 64, of which one is always empty

LOW == 0
HIGH == 1
Byte == [1..BITS -> {LOW, HIGH}]

ASSUME LinkAssumption ==
    /\ IsFiniteSet(Ends) /\ Cardinality(Ends) = 2
    /\ BITS \in Nat \ {0}
    /\ Written \subseteq Byte
    /\ COMMS_BUFFER_SIZE \in Nat \ {0}
    /\ TIMEOUT_CYCLES \in Nat /\ TIMEOUT_CYCLES > 2 * BITS + 1

VARIABLES
    line,          \* the level each end drives
    call,          \* the call each end is in
    result,        \* what came of the last Write of each end
    buffer,        \* the bytes received by each end and not read
    handed,        \* history: the byte a Write still has to deliver
    in_trouble     \* history: an end is in the middle of a byte nobody sent

vars == <<line, call, result, buffer, handed, in_trouble>>

HalfClock == 1
Clock == 2
NoGap == 0                                               \* mutant
EndGap == 5 * Clock
MAX_PRE_WRITE_READS == COMMS_BUFFER_SIZE

(* bits are those left to send or those sampled; reads counts the bytes    *)
(* that a Write has received before its own.                               *)
Call == [at : {"idle", "poll", "request", "ack", "send", "end", "gap",
               "await", "sample", "release", "refuse", "take"},
         writing : BOOLEAN,
         byte : Byte \cup {<<>>},
         bits : UNION {[1..n -> {LOW, HIGH}] : n \in 0..BITS},
         timer : 0..(TIMEOUT_CYCLES + EndGap),
         reads : 0..MAX_PRE_WRITE_READS]

Idle == [at |-> "idle", writing |-> FALSE, byte |-> <<>>, bits |-> <<>>,
         timer |-> 0, reads |-> 0]

Other(e) == CHOOSE o \in Ends : o # e

(* The input pin of an end is the output pin of the other.                 *)
Hears(e) == line[Other(e)]

(* The level that WaitTimeout is waiting for.                              *)
Target == [at \in {"ack", "await", "end", "release"} |->
              IF at \in {"ack", "await"} THEN LOW ELSE HIGH]

Waiting(e) == call[e].at \in DOMAIN Target

Heard(e) == Waiting(e) /\ Hears(e) = Target[call[e].at]

Elapsed(e) == call[e].timer = 0

BufferOverfull(e) == Len(buffer[e]) = COMMS_BUFFER_SIZE  \* mutant
BufferFull(e) == Len(buffer[e]) = COMMS_BUFFER_SIZE - 1

MidByte(c) == c.at \in {"send", "end", "gap", "sample", "release"}

Init ==
    /\ line = [e \in Ends |-> HIGH]
    /\ call = [e \in Ends |-> Idle]
    /\ result = [e \in Ends |-> "none"]
    /\ buffer = [e \in Ends |-> <<>>]
    /\ handed = [e \in Ends |-> {}]
    /\ in_trouble = FALSE

Drive(e, level) == line' = [line EXCEPT ![e] = level]

Goto(e, place, time) ==
    call' = [call EXCEPT ![e].at = place, ![e].timer = time]

(* History: a step may be the start of trouble, and any may be its end.    *)
Trouble(starts) ==
    in_trouble' = ((in_trouble \/ starts) /\ \E e \in Ends : MidByte(call'[e]))

(* Write returns, or ReadToBuffer returns to Read.                         *)
Return(e, success) ==
    /\ call' = [call EXCEPT ![e] = Idle]
    /\ IF call[e].writing
       THEN /\ result' = [result EXCEPT ![e] = IF success THEN "sent" ELSE "failed"]
            /\ handed' = [handed EXCEPT ![e] = {}]
       ELSE UNCHANGED <<result, handed>>

(* ------------------------------ Write ---------------------------------- *)

StartWrite(e, b) ==
    /\ call[e].at = "idle"
    /\ call' = [call EXCEPT ![e] = [Idle EXCEPT !.at = "poll", !.writing = TRUE,
                                                !.byte = b]]
    /\ result' = [result EXCEPT ![e] = "pending"]
    /\ handed' = [handed EXCEPT ![e] = {b}]
    /\ UNCHANGED <<line, buffer, in_trouble>>

(* The loop before the write: receive what the other end has begun.        *)
Poll(e) ==
    /\ call[e].at = "poll"
    /\ IF Hears(e) = HIGH THEN Goto(e, "request", 0)
       ELSE IF call[e].reads < MAX_PRE_WRITE_READS
       THEN Goto(e, "await", TIMEOUT_CYCLES)
       ELSE Goto(e, "refuse", 0)
    /\ UNCHANGED <<line, result, buffer, handed, in_trouble>>

Request(e) ==
    /\ call[e].at = "request"
    /\ Drive(e, LOW)
    /\ Goto(e, "ack", TIMEOUT_CYCLES)
    /\ UNCHANGED <<result, buffer, handed, in_trouble>>

SendBit(e, bits) ==
    /\ Drive(e, Head(bits))
    /\ call' = [call EXCEPT ![e].at = "send", ![e].timer = Clock,
                            ![e].bits = Tail(bits)]

(* The other end pulls its line low to answer, or to write itself.         *)
Acknowledged(e) ==
    /\ call[e].at = "ack" /\ Heard(e)
    /\ SendBit(e, call[e].byte)
    /\ Trouble(call[Other(e)].at # "sample")
    /\ UNCHANGED <<result, buffer, handed>>

NextBit(e) ==
    /\ call[e].at = "send" /\ Elapsed(e)
    /\ IF call[e].bits # <<>>
       THEN SendBit(e, call[e].bits)
       ELSE Goto(e, "end", TIMEOUT_CYCLES) /\ UNCHANGED line
    /\ UNCHANGED <<result, buffer, handed, in_trouble>>

EndBit(e) ==
    /\ call[e].at = "end" /\ Heard(e)
    /\ Drive(e, HIGH)
    /\ Goto(e, "gap", EndGap)
    /\ Trouble(FALSE)
    /\ UNCHANGED <<result, buffer, handed>>

Sent(e) ==
    /\ call[e].at = "gap" /\ Elapsed(e)
    /\ Return(e, TRUE)
    /\ Trouble(FALSE)
    /\ UNCHANGED <<line, buffer>>

(* --------------------- ReadToBuffer, Read ------------------------------ *)

StartRead(e) ==
    /\ call[e].at = "idle" /\ buffer[e] = <<>>
    /\ Goto(e, "await", TIMEOUT_CYCLES)
    /\ UNCHANGED <<line, result, buffer, handed, in_trouble>>

Answer(e) ==
    /\ call[e].at = "await" /\ Heard(e)
    /\ Drive(e, LOW)
    /\ call' = [call EXCEPT ![e].at = "sample", ![e].timer = HalfClock,
                            ![e].bits = <<>>]
    /\ UNCHANGED <<result, buffer, handed, in_trouble>>

Sample(e) ==
    /\ call[e].at = "sample" /\ Elapsed(e)
    /\ IF Len(call[e].bits) < BITS
       THEN /\ call' = [call EXCEPT ![e].bits = Append(@, Hears(e)),
                                    ![e].timer = Clock]
            /\ UNCHANGED line
       ELSE /\ Drive(e, HIGH)
            /\ Goto(e, "release", TIMEOUT_CYCLES)
    /\ UNCHANGED <<result, buffer, handed, in_trouble>>

(* The sender has released its line; the byte is stored or dropped.        *)
Receive(e) ==
    /\ call[e].at = "release" /\ Heard(e)
    /\ IF BufferFull(e)
       THEN Goto(e, "refuse", 0) /\ UNCHANGED buffer
       ELSE /\ buffer' = [buffer EXCEPT ![e] = Append(@, call[e].bits)]
            /\ call' = [call EXCEPT
                           ![e].at = IF call[e].writing THEN "poll" ELSE "take",
                           ![e].timer = 0, ![e].bits = <<>>,
                           ![e].reads = IF call[e].writing THEN @ + 1 ELSE @]
    /\ handed' = IF in_trouble THEN handed ELSE [handed EXCEPT ![Other(e)] = {}]
    /\ Trouble(FALSE)
    /\ UNCHANGED <<line, result>>

(* Read: the byte just received, or one that was in the buffer already.    *)
Take(e) ==
    /\ call[e].at \in {"idle", "take"} /\ buffer[e] # <<>>
    /\ buffer' = [buffer EXCEPT ![e] = Tail(@)]
    /\ call' = [call EXCEPT ![e] = Idle]
    /\ UNCHANGED <<line, result, handed, in_trouble>>

(* ---------------------- failures and time ------------------------------ *)

GiveUpButTryAgain(e) ==                                  \* mutant
    /\ (Waiting(e) /\ Elapsed(e)) \/ call[e].at = "refuse"
    /\ Drive(e, HIGH)
    /\ IF call[e].at = "ack" THEN Goto(e, "poll", 0) /\ UNCHANGED <<result, handed>>
       ELSE Return(e, FALSE)
    /\ Trouble(FALSE)
    /\ UNCHANGED buffer

(* A WaitTimeout expires, whether or not the level has come by now, or the *)
(* buffer was full.  The line of the end is idle again in every case.      *)
GiveUp(e) ==
    /\ (Waiting(e) /\ Elapsed(e)) \/ call[e].at = "refuse"
    /\ Drive(e, HIGH)
    /\ Return(e, FALSE)
    /\ Trouble(call[e].at = "ack" /\ MidByte(call[Other(e)]))
    /\ UNCHANGED buffer

(* Something an end does without more time passing.                        *)
Due(e) ==
    \/ call[e].at \in {"poll", "request", "take", "refuse"}
    \/ Heard(e)
    \/ call[e].at # "idle" /\ Elapsed(e)

Tick ==
    /\ \A e \in Ends : ~Due(e)
    /\ \E e \in Ends : ~Elapsed(e)
    /\ call' = [e \in Ends |-> [call[e] EXCEPT !.timer = IF @ > 0 THEN @ - 1 ELSE 0]]
    /\ UNCHANGED <<line, result, buffer, handed, in_trouble>>

(* What an end does of its own once it is in a call.                       *)
Proceed(e) ==
    \/ Poll(e) \/ Request(e) \/ Acknowledged(e) \/ NextBit(e) \/ EndBit(e) \/ Sent(e)
    \/ Answer(e) \/ Sample(e) \/ Receive(e) \/ GiveUp(e)
    \/ call[e].at = "take" /\ Take(e)

Next ==
    \/ \E e \in Ends, b \in Written : StartWrite(e, b)
    \/ \E e \in Ends : StartRead(e) \/ Take(e) \/ Proceed(e)
    \/ Tick

(* The processors run, and time passes.                                    *)
Spec == Init /\ [][Next]_vars /\ WF_vars(Tick) /\ \A e \in Ends : WF_vars(Proceed(e))

-----------------------------------------------------------------------------

TypeOK ==
    /\ line \in [Ends -> {LOW, HIGH}]
    /\ call \in [Ends -> Call]
    /\ result \in [Ends -> {"none", "pending", "sent", "failed"}]
    /\ buffer \in [Ends -> UNION {[1..n -> Byte] : n \in 0..(COMMS_BUFFER_SIZE - 1)}]
    /\ handed \in [Ends -> SUBSET Byte]
    /\ in_trouble \in BOOLEAN

(* The link keeps the promises of ByteLink: outside a clash and its        *)
(* aftermath no byte is lost, made up, altered or delivered twice, and a   *)
(* Write reports what became of its byte.                                  *)
Link == INSTANCE ByteLink WITH CAPACITY <- COMMS_BUFFER_SIZE - 1

Implements == Link!Spec

(* A call returns: no order of calls, timeouts and full buffers leaves an  *)
(* end waiting for a level for ever.                                       *)
CallsReturn == \A e \in Ends : call[e].at # "idle" ~> call[e].at = "idle"

=============================================================================
