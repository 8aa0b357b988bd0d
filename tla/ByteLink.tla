------------------------------ MODULE ByteLink ------------------------------
(***************************************************************************)
(* What two ends that share a Comms link may rely on, whatever the wires   *)
(* between them do: the abstract specification of src/arduino/lib/comms.h. *)
(*                                                                         *)
(* A byte given to Write reaches the buffer of the other end, once, intact *)
(* and after the bytes before it; or Write fails, and it does so once or   *)
(* not at all.  The exception is a full buffer: it drops the byte, and its *)
(* sender is told that it was sent.                                        *)
(*                                                                         *)
(* Nothing of this holds in trouble.  There are two ways into it, a clash  *)
(* (both ends write at once) and a Write that fails while the other end    *)
(* answers it, and it is over when neither end is in the middle of a byte. *)
(***************************************************************************)
EXTENDS Naturals, Sequences

CONSTANTS Ends, Byte, CAPACITY

VARIABLES
    handed,      \* for each end, the byte its Write still has to deliver, if any
    result,      \* for each end, what came of its last Write
    buffer,      \* for each end, the bytes it has received, oldest first
    in_trouble

vars == <<handed, result, buffer, in_trouble>>

Result == {"none", "pending", "sent", "failed"}

Init ==
    /\ handed = [e \in Ends |-> {}]
    /\ result = [e \in Ends |-> "none"]
    /\ buffer = [e \in Ends |-> <<>>]
    /\ in_trouble = FALSE

Write(e, b) ==
    /\ result[e] # "pending"
    /\ handed' = [handed EXCEPT ![e] = {b}]
    /\ result' = [result EXCEPT ![e] = "pending"]
    /\ UNCHANGED <<buffer, in_trouble>>

(* o receives the byte of e, or has no room for it.                        *)
Deliver(e, o) ==
    /\ ~in_trouble
    /\ \E b \in handed[e] :
          buffer' = [buffer EXCEPT ![o] =
                        IF Len(@) < CAPACITY THEN Append(@, b) ELSE @]
    /\ handed' = [handed EXCEPT ![e] = {}]
    /\ UNCHANGED <<result, in_trouble>>

Read(e) ==
    /\ buffer[e] # <<>>
    /\ buffer' = [buffer EXCEPT ![e] = Tail(@)]
    /\ UNCHANGED <<handed, result, in_trouble>>

Finish(e, outcome) ==
    /\ result[e] = "pending"
    /\ result' = [result EXCEPT ![e] = outcome]
    /\ handed' = [handed EXCEPT ![e] = {}]
    /\ UNCHANGED buffer

Succeed(e) ==
    /\ handed[e] = {} \/ in_trouble
    /\ Finish(e, "sent")
    /\ in_trouble' \in {FALSE, in_trouble}

(* Whether the byte was delivered is not known; the other end may be in    *)
(* the middle of receiving it.                                             *)
Fail(e) ==
    /\ Finish(e, "failed")
    /\ in_trouble' \in BOOLEAN

Clash ==
    /\ \A e \in Ends : handed[e] # {}
    /\ in_trouble' = TRUE
    /\ UNCHANGED <<handed, result, buffer>>

MakeUp(e, b) ==
    /\ in_trouble
    /\ Len(buffer[e]) < CAPACITY
    /\ buffer' = [buffer EXCEPT ![e] = Append(@, b)]
    /\ in_trouble' \in BOOLEAN
    /\ UNCHANGED <<handed, result>>

Over ==
    /\ in_trouble' = FALSE
    /\ UNCHANGED <<handed, result, buffer>>

Next ==
    \/ \E e \in Ends, b \in Byte : Write(e, b) \/ MakeUp(e, b)
    \/ \E e, o \in Ends : e # o /\ Deliver(e, o)
    \/ \E e \in Ends : Read(e) \/ Succeed(e) \/ Fail(e)
    \/ Clash
    \/ Over

Spec == Init /\ [][Next]_vars

=============================================================================
