---------------------------- MODULE DeviceProofs ----------------------------
(***************************************************************************)
(* What Device keeps, for every number of slots, every set of bytes the    *)
(* server may send and links that fail as well as links that do not.       *)
(***************************************************************************)
EXTENDS Device, WellFoundedInduction, TLAPS

(***************************************************************************)
(* The inductive invariant.  The id of a request has been looked up by the *)
(* time its argument is read; a reply is a RETURN and at most one value;   *)
(* and what the server is owed outlives no reset.                          *)
(***************************************************************************)
RequestOK ==
    pc = "read" =>
       /\ request.cmd \in Requests
       /\ Len(request.bytes) <= 3
       /\ Len(request.bytes) >= 2 => InUse(request.bytes) /\ TakesArgument(request.bytes)

WritesOK ==
    pc = "write" =>
       /\ task # "none"
       /\ task = "reset" => owed = 0
       /\ task = "reply" => \A i \in 2..Len(todo) : todo[i] # <<COMMAND_RETURN>>

IInv == TypeOK /\ RequestOK /\ WritesOK /\ AnswersOrResets

-----------------------------------------------------------------------------
(* Sequences.                                                              *)

(* Induction over the numbers: a set of numbers has a least one.           *)
LEMMA LeastNatural ==
  ASSUME NEW T \in SUBSET Nat, T # {}
  PROVE  \E n \in T : \A m \in T : n <= m
<1> DEFINE R == OpToRel(<, Nat)
<1>1. \A m, n \in Nat : m < n => <<m, n>> \in R
  BY DEF OpToRel
<1>2. IsWellFoundedOn(R, Nat)
  BY NatLessThanWellFounded
<1> HIDE DEF R
<1>3. PICK n \in T : \A m \in T : ~ (<<m, n>> \in R)
  BY <1>2, WFMin
<1>4. \A m \in T : ~ (m < n)
  BY <1>1, <1>3
<1> QED
  BY <1>4

(* Flattening sequences over S gives a sequence over S.                    *)
LEMMA FlattenType ==
  ASSUME NEW S, NEW seqs \in Seq(Seq(S))
  PROVE  FlattenSeq(seqs) \in Seq(S)
<1> DEFINE N == Len(seqs)
           Body(n, f) == [i \in 1..n |-> IF i = 1 THEN seqs[i] ELSE f[i - 1] \o seqs[i]]
           F == CHOOSE f : f = Body(N, f)
<1>1. N \in Nat /\ \A i \in 1..N : seqs[i] \in Seq(S)
  OBVIOUS
<1> HIDE DEF N
<1>2. \E f : f = Body(N, f)
  <2> DEFINE Bad == {n \in 0..N : ~ \E f : f = Body(n, f)}
  <2>3. \A n \in 0..N : n \in Bad \/ \E f : f = Body(n, f)
    OBVIOUS
  <2>4. \A n \in Bad : n \in 0..N /\ ~ \E f : f = Body(n, f)
    OBVIOUS
  <2> HIDE DEF Bad, Body
  <2>5. N \in 0..N /\ Bad \in SUBSET Nat
    BY <1>1, <2>4
  <2>1. CASE Bad = {}
    BY <2>1, <2>3, <2>5
  <2>2. CASE Bad # {}
    <3>1. PICK n \in Bad : \A m \in Bad : n <= m
      BY <2>2, <2>5, LeastNatural
    <3>2. n # 0
      <4>1. [i \in 1..0 |-> 0] = Body(0, [i \in 1..0 |-> 0])
        BY DEF Body
      <4> QED
        BY <2>4, <3>1, <4>1
    <3>3. n - 1 \in 0..N /\ n - 1 \notin Bad /\ n \in Nat
      BY <1>1, <2>4, <3>1, <3>2
    <3>4. PICK f : f = Body(n - 1, f)
      BY <2>3, <3>3
    <3> DEFINE g == [i \in 1..n |-> IF i = n THEN (IF n = 1 THEN seqs[n] ELSE f[n - 1] \o seqs[n]) ELSE f[i]]
    <3>5. g = Body(n, g)
      <4>1. ASSUME NEW i \in 1..n
            PROVE  g[i] = Body(n, g)[i]
        <5>1. CASE i = n
          <6>1. n # 1 => n - 1 \in 1..n /\ n - 1 # n
            BY <3>2, <3>3
          <6> QED
            BY <5>1, <6>1 DEF Body
        <5>2. CASE i # n
          <6>1. i \in 1..(n - 1) /\ (i # 1 => i - 1 \in 1..n /\ i - 1 # n)
            BY <3>3, <5>2
          <6>2. f[i] = IF i = 1 THEN seqs[i] ELSE f[i - 1] \o seqs[i]
            BY <3>4, <6>1 DEF Body
          <6> QED
            BY <5>2, <6>1, <6>2 DEF Body
        <5> QED
          BY <5>1, <5>2
      <4> HIDE DEF g
      <4>2. g = [i \in 1..n |-> g[i]]
        BY DEF g
      <4> QED
        BY <4>1, <4>2 DEF Body
    <3> QED
      BY <2>4, <3>1, <3>5
  <2> QED
    BY <2>1, <2>2
<1>3. F = Body(N, F)
  BY <1>2
<1> HIDE DEF F
<1>4. \A i \in 1..N : F[i] \in Seq(S)
  <2> DEFINE Bad == {i \in 1..N : F[i] \notin Seq(S)}
  <2>1. CASE Bad = {}
    BY <2>1
  <2>2. CASE Bad # {}
    <3>1. Bad \in SUBSET Nat
      BY <1>1
    <3>2. PICK n \in Bad : \A m \in Bad : n <= m
      BY <2>2, <3>1, LeastNatural
    <3>3. F[n] = IF n = 1 THEN seqs[n] ELSE F[n - 1] \o seqs[n]
      BY <1>3, <3>2
    <3>4. n # 1 => n - 1 \in 1..N /\ n - 1 \notin Bad
      BY <1>1, <3>2
    <3>5. n # 1 => F[n - 1] \in Seq(S)
      BY <3>4
    <3>6. seqs[n] \in Seq(S)
      BY <1>1, <3>2
    <3>7. \A p, q \in Seq(S) : p \o q \in Seq(S)
      OBVIOUS
    <3>8. F[n] \in Seq(S)
      BY <3>3, <3>5, <3>6, <3>7
    <3> QED
      BY <3>2, <3>8
  <2> QED
    BY <2>1, <2>2
<1>5. CASE N = 0
  <2>1. FlattenSeq(seqs) = seqs /\ seqs = <<>>
    BY <1>5 DEF FlattenSeq, N
  <2> QED
    BY <2>1
<1>6. CASE N # 0
  <2>1. FlattenSeq(seqs) = F[N]
    BY <1>6 DEF FlattenSeq, N, F
  <2> QED
    BY <1>1, <1>4, <1>6, <2>1
<1> QED
  BY <1>5, <1>6

-----------------------------------------------------------------------------
(* Bytes.                                                                  *)

LEMMA CommandBytes ==
  {COMMAND_RESET, COMMAND_PING, COMMAND_ADD_ACTION, COMMAND_ADD_EVENT,
   COMMAND_ADD_PROPERTY, COMMAND_RAISE_EVENT, COMMAND_RETURN, END_OF_RESET,
   TYPE_VOID, TYPE_INT} \subseteq Bytes
BY DEF COMMAND_RESET, COMMAND_PING, COMMAND_ADD_ACTION, COMMAND_ADD_EVENT,
       COMMAND_ADD_PROPERTY, COMMAND_RAISE_EVENT, COMMAND_RETURN, END_OF_RESET,
       TYPE_VOID, TYPE_INT, Bytes

LEMMA Counts ==
  NUM_ACTIONS \in Nat /\ NUM_EVENTS \in Nat /\ NUM_PROPERTIES \in Nat
BY CountAssumption

LEMMA OneByte ==
  ASSUME NEW b \in Bytes
  PROVE  <<b>> \in Seq(Bytes)
OBVIOUS

(* An int is two bytes on the wire, which are no command.                  *)
LEMMA IntBytes ==
  ASSUME NEW i \in Ints
  PROVE  i \in Seq(Bytes) /\ Len(i) = 2 /\ i # <<COMMAND_RETURN>>
<1>1. PICK lo \in Bytes, hi \in Bytes : i = <<lo, hi>>
  BY DEF Ints
<1>2. i \in Seq(Bytes) /\ Len(i) = 2
  BY <1>1
<1>3. Len(<<COMMAND_RETURN>>) = 1
  OBVIOUS
<1> QED
  BY <1>2, <1>3

LEMMA Encoded ==
  ASSUME NEW v \in Int
  PROVE  EncodeInteger(v) \in Ints
BY DEF EncodeInteger, Ints, Bytes

LEMMA StateIsInt ==
  GetState \in Int
<1>1. \A b \in Int : (IF b \in status THEN b ELSE 0) \in Int
  OBVIOUS
<1> QED
  BY <1>1 DEF GetState

LEMMA AddressBytes == Address \in Seq(Bytes)
BY DEF Address, Bytes

(* What a reset writes is bytes.                                           *)
LEMMA ResetType ==
  ASSUME NEW id \in Ints
  PROVE  ResetWrites(id) \in Seq(Seq(Bytes))
<1> DEFINE W == Seq(Bytes)
<1>1. \A s, t \in Seq(W) : s \o t \in Seq(W)
  OBVIOUS
<1>2. \A b \in Bytes : <<b>> \in W
  BY OneByte
<1>3. \A i \in Int : EncodeInteger(i) \in W
  BY Encoded, IntBytes
<1>4. id \in W /\ Address \in W
  BY IntBytes, AddressBytes
<1> HIDE DEF W
<1>5. [i \in 1..LENGTH_OF_RESET_COMMAND |-> <<COMMAND_RESET>>] \in Seq(W)
  <2>1. COMMAND_RESET \in Bytes
    BY DEF COMMAND_RESET, Bytes
  <2>2. <<COMMAND_RESET>> \in W
    BY <1>2, <2>1
  <2>3. LENGTH_OF_RESET_COMMAND \in Nat
    BY CountAssumption
  <2> QED
    BY <2>2, <2>3
<1>6. << <<END_OF_RESET>>, id, Address >> \in Seq(W)
  BY <1>2, <1>4, CommandBytes
<1>7. NUM_ACTIONS \in Nat /\ NUM_EVENTS \in Nat /\ NUM_PROPERTIES \in Nat
  BY Counts
<1>8. ASSUME NEW i \in Int
      PROVE  /\ RegisterAction(i) \in Seq(W)
             /\ RegisterEvent(i) \in Seq(W)
             /\ RegisterProperty(i) \in Seq(W)
  <2>1. <<>> \in Seq(W)
    OBVIOUS
  <2>2. \A c \in {COMMAND_ADD_ACTION, COMMAND_ADD_EVENT, COMMAND_ADD_PROPERTY,
                   TYPE_VOID, TYPE_INT} : <<c>> \in W
    BY <1>2, CommandBytes
  <2>3. EncodeInteger(i) \in W
    BY <1>3
  <2>4. RegisterAction(i) \in Seq(W)
    <3> DEFINE ret == <<IF actions[i] \in {"iv", "ii"} THEN TYPE_INT ELSE TYPE_VOID>>
               arg == <<IF actions[i] \in {"vi", "ii"} THEN TYPE_INT ELSE TYPE_VOID>>
    <3>1. ret \in W /\ arg \in W /\ <<COMMAND_ADD_ACTION>> \in W
      BY <2>2
    <3> HIDE DEF ret, arg
    <3>2. << <<COMMAND_ADD_ACTION>>, EncodeInteger(i), Address, ret, arg >> \in Seq(W)
      BY <1>4, <2>3, <3>1
    <3> QED
      BY <2>1, <3>2 DEF RegisterAction, ret, arg
  <2>5. RegisterEvent(i) \in Seq(W)
    <3>1. << <<COMMAND_ADD_EVENT>>, EncodeInteger(i), Address >> \in Seq(W)
      BY <1>4, <2>2, <2>3
    <3> QED
      BY <2>1, <3>1 DEF RegisterEvent
  <2>6. RegisterProperty(i) \in Seq(W)
    <3>1. << <<COMMAND_ADD_PROPERTY>>, EncodeInteger(i), Address, <<TYPE_INT>> >> \in Seq(W)
      BY <1>4, <2>2, <2>3
    <3> QED
      BY <2>1, <3>1 DEF RegisterProperty
  <2> QED
    BY <2>4, <2>5, <2>6
<1>9. [i \in 1..NUM_ACTIONS |-> RegisterAction(i - 1)] \in Seq(Seq(W))
  BY <1>7, <1>8
<1>10. [i \in 1..NUM_EVENTS |-> RegisterEvent(i - 1)] \in Seq(Seq(W))
  BY <1>7, <1>8
<1>11. [i \in 1..NUM_PROPERTIES |-> RegisterProperty(i - 1)] \in Seq(Seq(W))
  BY <1>7, <1>8
<1>12. /\ FlattenSeq([i \in 1..NUM_ACTIONS |-> RegisterAction(i - 1)]) \in Seq(W)
       /\ FlattenSeq([i \in 1..NUM_EVENTS |-> RegisterEvent(i - 1)]) \in Seq(W)
       /\ FlattenSeq([i \in 1..NUM_PROPERTIES |-> RegisterProperty(i - 1)]) \in Seq(W)
  BY <1>9, <1>10, <1>11, FlattenType
<1>13. ResetWrites(id) \in Seq(W)
  BY <1>1, <1>5, <1>6, <1>12 DEF ResetWrites
<1> QED
  BY <1>13 DEF W

-----------------------------------------------------------------------------
(* The status.                                                             *)

AllBits == {1, 4, 8, 16, 32}

LEMMA Faults ==
  /\ STATUS_RESETTING \subseteq AllBits
  /\ STATUS_MALFORMED_COMMAND \subseteq AllBits
  /\ STATUS_READ_FAIL \subseteq AllBits
  /\ STATUS_WRITE_FAIL \subseteq AllBits
  /\ STATUS_CONNECTED \subseteq AllBits
  /\ STATUS_RESETTING \subseteq STATUS_MALFORMED_COMMAND
  /\ STATUS_RESETTING \subseteq STATUS_READ_FAIL
  /\ STATUS_RESETTING \subseteq STATUS_WRITE_FAIL
BY DEF AllBits, STATUS_RESETTING, STATUS_MALFORMED_COMMAND, STATUS_READ_FAIL,
       STATUS_WRITE_FAIL, STATUS_IO_FAIL, STATUS_CONNECTED

(* A fault, or the server's COMMAND_RESET, asks for a reset.               *)
LEMMA FaultResets ==
  ASSUME TypeOK,
         NEW fault \in {STATUS_RESETTING, STATUS_MALFORMED_COMMAND, STATUS_READ_FAIL,
                        STATUS_WRITE_FAIL},
         ORState(fault)
  PROVE  status' \subseteq AllBits /\ STATUS_RESETTING \subseteq status'
<1>1. fault \subseteq AllBits /\ STATUS_RESETTING \subseteq fault
  BY Faults
<1>2. status' = status \cup fault /\ status \subseteq AllBits
  BY DEF ORState, TypeOK, AllBits
<1> QED
  BY <1>1, <1>2

(* The type invariant in two parts: what the sketch has registered, and    *)
(* what the program is doing.                                              *)
TablesOK ==
    /\ actions \in [ActionIds -> Callbacks \cup {FREE}]
    /\ events \subseteq EventIds
    /\ properties \in [PropertyIds -> {FREE, "callbacks", "variable"}]
    /\ value \in [PropertyIds -> Ints]

FlowOK ==
    /\ status \subseteq AllBits
    /\ connection_id \in Ints
    /\ pc \in {"sketch", "loop", "flush", "read", "write", "ping"}
    /\ task \in {"none", "event", "reply", "reset", "ping"}
    /\ request \in [cmd : Requests \cup {-1}, bytes : Seq(Bytes)]
    /\ todo \in Seq(Seq(Bytes))
    /\ ping_due \in BOOLEAN
    /\ rx \in Seq(Bytes)
    /\ out \in Seq(Bytes)
    /\ owed \in {0, 1}

LEMMA TypeParts ==
  /\ TypeOK <=> TablesOK /\ FlowOK
  /\ TypeOK' <=> TablesOK' /\ FlowOK'
BY DEF TypeOK, TablesOK, FlowOK, AllBits

(* A step to a place where nothing is read or written.                     *)
LEMMA StepsOn ==
  ASSUME IInv, pc' \notin {"read", "write"}, owed' = owed,
         STATUS_RESETTING \subseteq status' \/ (status' = status /\ ~AboutToAnswer)
  PROVE  RequestOK' /\ WritesOK' /\ AnswersOrResets'
<1>1. RequestOK' /\ WritesOK'
  BY DEF RequestOK, WritesOK
<1>2. ~AboutToAnswer'
  BY DEF AboutToAnswer
<1>3. owed = 1 => AboutToAnswer \/ STATUS_RESETTING \subseteq status
  BY DEF IInv, AnswersOrResets
<1>4. AnswersOrResets'
  BY <1>2, <1>3 DEF AnswersOrResets
<1> QED
  BY <1>1, <1>4

(* A step that begins to write what is no reply.                           *)
LEMMA StartsWriting ==
  ASSUME IInv, ~AboutToAnswer, pc' = "write", task' \in {"event", "ping"},
         owed' = owed, status' = status
  PROVE  RequestOK' /\ WritesOK' /\ AnswersOrResets'
<1>1. RequestOK' /\ WritesOK'
  BY DEF RequestOK, WritesOK
<1>2. ~AboutToAnswer'
  BY DEF AboutToAnswer
<1>3. owed = 1 => AboutToAnswer \/ STATUS_RESETTING \subseteq status
  BY DEF IInv, AnswersOrResets
<1>4. AnswersOrResets'
  BY <1>2, <1>3 DEF AnswersOrResets
<1> QED
  BY <1>1, <1>4

-----------------------------------------------------------------------------
(* The sketch.                                                             *)

LEMMA FirstFreeIsFree ==
  ASSUME NEW free \in SUBSET Nat, free # {}
  PROVE  FirstFree(free) \in free
<1>1. \E i \in free : \A j \in free : i <= j
  BY LeastNatural
<1> QED
  BY <1>1 DEF FirstFree

LEMMA SketchStep ==
  ASSUME IInv, Sketch
  PROVE  IInv'
<1>1. TypeOK /\ TablesOK /\ FlowOK /\ pc = "sketch" /\ ~AboutToAnswer
  BY TypeParts DEF IInv, Sketch, AddAction, RemoveAction, AddEvent, RemoveEvent, AddProperty,
         RaiseEvent, DoSHET, InSketch, AboutToAnswer
<1>2. ASSUME NEW c \in Callbacks, AddAction(c) PROVE IInv'
  <2>1. TypeOK'
    <3>1. TablesOK'
      BY <1>1, <1>2 DEF AddAction, InSketch, TablesOK
    <3>2. FlowOK'
      BY <1>1, <1>2 DEF AddAction, InSketch, Goto, FlowOK
    <3> QED
      BY <3>1, <3>2, TypeParts
  <2>2. RequestOK' /\ WritesOK' /\ AnswersOrResets'
    BY <1>1, <1>2, StepsOn DEF AddAction, InSketch, Goto
  <2> QED
    BY <2>1, <2>2 DEF IInv
<1>3. ASSUME NEW a \in ActionIds, RemoveAction(a) PROVE IInv'
  <2>1. TypeOK'
    <3>1. TablesOK'
      BY <1>1, <1>3 DEF RemoveAction, InSketch, TablesOK
    <3>2. FlowOK'
      BY <1>1, <1>3 DEF RemoveAction, InSketch, Goto, FlowOK
    <3> QED
      BY <3>1, <3>2, TypeParts
  <2>2. RequestOK' /\ WritesOK' /\ AnswersOrResets'
    BY <1>1, <1>3, StepsOn DEF RemoveAction, InSketch, Goto
  <2> QED
    BY <2>1, <2>2 DEF IInv
<1>4. ASSUME AddEvent PROVE IInv'
  <2> DEFINE free == EventIds \ events
  <2>1. free \in SUBSET Nat /\ free # {} /\ events' = events \cup {FirstFree(free)}
    BY <1>4, Counts DEF AddEvent, EventIds
  <2>2. FirstFree(free) \in EventIds
    BY <2>1, FirstFreeIsFree
  <2>3. events' \subseteq EventIds
    BY <1>1, <2>1, <2>2 DEF TypeOK
  <2>4. TypeOK'
    <3>1. TablesOK'
      BY <1>1, <1>4, <2>3 DEF AddEvent, InSketch, TablesOK
    <3>2. FlowOK'
      BY <1>1, <1>4 DEF AddEvent, InSketch, Goto, FlowOK
    <3> QED
      BY <3>1, <3>2, TypeParts
  <2>5. RequestOK' /\ WritesOK' /\ AnswersOrResets'
    BY <1>1, <1>4, StepsOn DEF AddEvent, InSketch, Goto
  <2> QED
    BY <2>4, <2>5 DEF IInv
<1>5. ASSUME NEW e \in EventIds, RemoveEvent(e) PROVE IInv'
  <2>1. TypeOK'
    <3>1. TablesOK'
      BY <1>1, <1>5 DEF RemoveEvent, InSketch, TablesOK
    <3>2. FlowOK'
      BY <1>1, <1>5 DEF RemoveEvent, InSketch, Goto, FlowOK
    <3> QED
      BY <3>1, <3>2, TypeParts
  <2>2. RequestOK' /\ WritesOK' /\ AnswersOrResets'
    BY <1>1, <1>5, StepsOn DEF RemoveEvent, InSketch, Goto
  <2> QED
    BY <2>1, <2>2 DEF IInv
<1>6. ASSUME NEW k \in {"callbacks", "variable"}, AddProperty(k) PROVE IInv'
  <2>1. TypeOK'
    <3>1. TablesOK'
      BY <1>1, <1>6 DEF AddProperty, InSketch, TablesOK
    <3>2. FlowOK'
      BY <1>1, <1>6 DEF AddProperty, InSketch, Goto, FlowOK
    <3> QED
      BY <3>1, <3>2, TypeParts
  <2>2. RequestOK' /\ WritesOK' /\ AnswersOrResets'
    BY <1>1, <1>6, StepsOn DEF AddProperty, InSketch, Goto
  <2> QED
    BY <2>1, <2>2 DEF IInv
<1>7. ASSUME NEW e \in EventIds, NEW v \in Seq(Seq(Bytes)), RaiseEvent(e, v) PROVE IInv'
  <2>1. CASE e \notin events
    <3>1. status' \subseteq AllBits /\ STATUS_RESETTING \subseteq status'
      BY <1>1, <1>7, <2>1, FaultResets DEF RaiseEvent
    <3>2. TypeOK'
      <4>1. TablesOK'
        BY <1>1, <1>7 DEF RaiseEvent, InSketch, tables, TablesOK
      <4>2. FlowOK'
        BY <1>1, <1>7, <2>1, <3>1 DEF RaiseEvent, InSketch, Goto, FlowOK
      <4> QED
        BY <4>1, <4>2, TypeParts
    <3>3. RequestOK' /\ WritesOK' /\ AnswersOrResets'
      BY <1>7, <2>1, <3>1, StepsOn DEF RaiseEvent, InSketch, Goto
    <3> QED
      BY <3>2, <3>3 DEF IInv
  <2>2. CASE e \in events
    <3> DEFINE W == Seq(Bytes)
    <3>1. e \in Int
      BY Counts DEF EventIds
    <3>2. <<COMMAND_RAISE_EVENT>> \in W /\ EncodeInteger(e) \in W
      BY <3>1, CommandBytes, OneByte, Encoded, IntBytes
    <3> HIDE DEF W
    <3>3. << <<COMMAND_RAISE_EVENT>>, EncodeInteger(e) >> \in Seq(W)
      BY <3>2
    <3>4. v \in Seq(W)
      BY DEF W
    <3>5. << <<COMMAND_RAISE_EVENT>>, EncodeInteger(e) >> \o v \in Seq(W)
      BY <3>3, <3>4
    <3>6. todo' \in Seq(Seq(Bytes))
      BY <1>7, <2>2, <3>5 DEF RaiseEvent, Send, W
    <3>7. TypeOK'
      <4>1. TablesOK'
        BY <1>1, <1>7 DEF RaiseEvent, InSketch, tables, TablesOK
      <4>2. FlowOK'
        BY <1>1, <1>7, <2>2, <3>6 DEF RaiseEvent, InSketch, Send, Goto, FlowOK
      <4> QED
        BY <4>1, <4>2, TypeParts
    <3>8. RequestOK' /\ WritesOK' /\ AnswersOrResets'
      BY <1>1, <1>7, <2>2, StartsWriting DEF RaiseEvent, InSketch, Send, Goto
    <3> QED
      BY <3>7, <3>8 DEF IInv
  <2> QED
    BY <2>1, <2>2
<1>8. << <<TYPE_VOID>> >> \in Seq(Seq(Bytes))
  BY CommandBytes, OneByte
<1>9. ASSUME NEW i \in EventValues PROVE << <<TYPE_INT>>, i >> \in Seq(Seq(Bytes))
  <2>1. i \in Ints
    BY IntAssumption
  <2>2. i \in Seq(Bytes) /\ <<TYPE_INT>> \in Seq(Bytes)
    BY <2>1, IntBytes, CommandBytes, OneByte
  <2> QED
    BY <2>2
<1>10. ASSUME DoSHET PROVE IInv'
  <2>1. TypeOK'
    <3>1. TablesOK'
      BY <1>1, <1>10 DEF DoSHET, InSketch, tables, TablesOK
    <3>2. FlowOK'
      BY <1>1, <1>10 DEF DoSHET, InSketch, Goto, FlowOK
    <3> QED
      BY <3>1, <3>2, TypeParts
  <2>2. RequestOK' /\ WritesOK' /\ AnswersOrResets'
    BY <1>1, <1>10, StepsOn DEF DoSHET, InSketch, Goto
  <2> QED
    BY <2>1, <2>2 DEF IInv
<1> QED
  BY <1>2, <1>3, <1>4, <1>5, <1>6, <1>7, <1>8, <1>9, <1>10 DEF Sketch

-----------------------------------------------------------------------------
(* The main loop.                                                          *)

LEMMA TablesStay ==
  ASSUME TablesOK, UNCHANGED tables, UNCHANGED value
  PROVE  TablesOK'
BY DEF TablesOK, tables

(* A byte is taken off the link.                                           *)
LEMMA ByteTaken ==
  ASSUME FlowOK, rx # <<>>, rx' = Tail(rx)
  PROVE  Head(rx) \in Bytes /\ rx' \in Seq(Bytes)
<1>1. rx \in Seq(Bytes)
  BY DEF FlowOK
<1> QED
  BY <1>1

(* A command is taken only while no reset is asked for, so nothing is owed.*)
LEMMA NothingOwed ==
  ASSUME IInv, pc = "loop", ~(STATUS_RESETTING \subseteq status)
  PROVE  owed = 0
<1>1. owed \in {0, 1} /\ ~AboutToAnswer
  BY DEF IInv, TypeOK, AboutToAnswer
<1> QED
  BY <1>1 DEF IInv, AnswersOrResets

(* A reply: a RETURN and at most one value.                                *)
IsReply(writes) ==
    /\ writes \in Seq(Seq(Bytes))
    /\ Len(writes) \in {1, 2}
    /\ writes[1] = <<COMMAND_RETURN>>
    /\ Len(writes) = 2 => writes[2] # <<COMMAND_RETURN>>

LEMMA Replies ==
  /\ IsReply(<< <<COMMAND_RETURN>> >> \o <<>>)
  /\ \A i \in Ints : /\ IsReply(<< <<COMMAND_RETURN>>, i >>)
                    /\ IsReply(<< <<COMMAND_RETURN>> >> \o <<i>>)
<1> DEFINE W == Seq(Bytes)
           r == <<COMMAND_RETURN>>
<1>1. r \in W /\ \A i \in Ints : i \in W /\ i # r
  BY CommandBytes, OneByte, IntBytes
<1> HIDE DEF W, r
<1>2. /\ <<r>> \o <<>> \in Seq(W) /\ Len(<<r>> \o <<>>) = 1 /\ (<<r>> \o <<>>)[1] = r
  BY <1>1
<1>3. ASSUME NEW i \in W
      PROVE  /\ <<r, i>> \in Seq(W) /\ Len(<<r, i>>) = 2 /\ <<r, i>>[1] = r /\ <<r, i>>[2] = i
             /\ <<r>> \o <<i>> \in Seq(W) /\ Len(<<r>> \o <<i>>) = 2
             /\ (<<r>> \o <<i>>)[1] = r /\ (<<r>> \o <<i>>)[2] = i
  BY <1>1
<1> QED
  BY <1>1, <1>2, <1>3 DEF IsReply, W, r

(* A request that is to be answered, is.                                   *)
LEMMA StartsReply ==
  ASSUME pc' = "write", task' = "reply", owed' = 1, IsReply(todo')
  PROVE  RequestOK' /\ WritesOK' /\ AnswersOrResets'
<1>1. RequestOK'
  BY DEF RequestOK
<1>2. ASSUME NEW i \in 2..Len(todo') PROVE todo'[i] # <<COMMAND_RETURN>>
  <2>1. Len(todo') = 2 /\ i = 2
    <3>1. PICK n \in {1, 2} : Len(todo') = n
      BY DEF IsReply
    <3>2. i \in 2..n
      BY <3>1
    <3> QED
      BY <3>1, <3>2
  <2> QED
    BY <2>1 DEF IsReply
<1>3. AnswersOrResets'
  BY DEF AnswersOrResets, AboutToAnswer, IsReply
<1>4. WritesOK'
  BY <1>2 DEF WritesOK
<1> QED
  BY <1>1, <1>3, <1>4

LEMMA LoopStep ==
  ASSUME IInv, StartReset \/ NothingAvailable \/ HandleRequests
  PROVE  IInv'
<1>1. TypeOK /\ TablesOK /\ FlowOK
  BY TypeParts DEF IInv
<1>2. ASSUME StartReset \/ NothingAvailable PROVE IInv'
  <2>1. FlowOK'
    <3>1. /\ pc' \in {"flush", "ping"} /\ out' = <<>>
          /\ UNCHANGED <<status, connection_id, task, request, todo, ping_due, rx, owed>>
      BY <1>2 DEF StartReset, NothingAvailable, InLibrary, Goto
    <3> QED
      BY <1>1, <3>1 DEF FlowOK
  <2>2. TablesOK'
    BY <1>1, <1>2, TablesStay DEF StartReset, NothingAvailable, InLibrary
  <2>3. ~AboutToAnswer
    BY <1>2 DEF StartReset, NothingAvailable, AboutToAnswer
  <2>4. RequestOK' /\ WritesOK' /\ AnswersOrResets'
    BY <1>2, <2>3, StepsOn DEF StartReset, NothingAvailable, Goto
  <2> QED
    BY <2>1, <2>2, <2>4, TypeParts DEF IInv
<1>3. ASSUME CommandTimeout PROVE IInv'
  <2>1. status' \subseteq AllBits /\ STATUS_RESETTING \subseteq status'
    BY <1>1, <1>3, FaultResets DEF CommandTimeout
  <2>2. FlowOK'
    BY <1>1, <1>3, <2>1 DEF CommandTimeout, InLibrary, Goto, FlowOK
  <2>3. TablesOK'
    BY <1>1, <1>3, TablesStay DEF CommandTimeout, InLibrary
  <2>4. RequestOK' /\ WritesOK' /\ AnswersOrResets'
    BY <1>3, <2>1, StepsOn DEF CommandTimeout, Goto
  <2> QED
    BY <2>2, <2>3, <2>4, TypeParts DEF IInv
<1>4. ASSUME OnRcvReset \/ \E c \in Bytes : OnRcvUnknown(c) PROVE IInv'
  <2>1. status' \subseteq AllBits /\ STATUS_RESETTING \subseteq status'
    BY <1>1, <1>4, FaultResets DEF OnRcvReset, OnRcvUnknown
  <2>2. rx' \in Seq(Bytes)
    BY <1>1, <1>4, ByteTaken DEF OnRcvReset, OnRcvUnknown, TakeCommand
  <2>3. FlowOK'
    <3>1. /\ pc' = "ping" /\ out' = <<>>
          /\ UNCHANGED <<connection_id, task, request, todo, ping_due, owed>>
      BY <1>4 DEF OnRcvReset, OnRcvUnknown, TakeCommand, InLibrary, Goto
    <3> QED
      BY <1>1, <2>1, <2>2, <3>1 DEF FlowOK
  <2>4. TablesOK'
    BY <1>1, <1>4, TablesStay DEF OnRcvReset, OnRcvUnknown, TakeCommand, InLibrary
  <2>5. RequestOK' /\ WritesOK' /\ AnswersOrResets'
    BY <1>4, <2>1, StepsOn DEF OnRcvReset, OnRcvUnknown, Goto
  <2> QED
    BY <2>3, <2>4, <2>5, TypeParts DEF IInv
<1>5. ASSUME OnRcvPing PROVE IInv'
  <2>1. owed = 0
    BY <1>5, NothingOwed DEF OnRcvPing, TakeCommand
  <2>2. EncodeInteger(GetState) \in Ints
    BY StateIsInt, Encoded
  <2>3. /\ pc' = "write" /\ task' = "reply" /\ owed' = 1 /\ status' = status
        /\ todo' = << <<COMMAND_RETURN>>, EncodeInteger(GetState) >>
    BY <1>5, <2>1 DEF OnRcvPing, Send, Goto
  <2>4. RequestOK' /\ WritesOK' /\ AnswersOrResets' /\ todo' \in Seq(Seq(Bytes))
    <3>1. IsReply(todo')
      BY <2>2, <2>3, Replies
    <3> QED
      BY <2>3, <3>1, StartsReply DEF IsReply
  <2>5. rx' \in Seq(Bytes)
    BY <1>1, <1>5, ByteTaken DEF OnRcvPing, TakeCommand
  <2>6. FlowOK'
    BY <1>1, <1>5, <2>3, <2>4, <2>5
       DEF OnRcvPing, TakeCommand, InLibrary, Send, Goto, FlowOK
  <2>7. TablesOK'
    BY <1>1, <1>5, TablesStay DEF OnRcvPing, TakeCommand, InLibrary
  <2> QED
    BY <2>4, <2>6, <2>7, TypeParts DEF IInv
<1>6. ASSUME NEW c \in Bytes, OnRcvRequest(c) PROVE IInv'
  <2>1. owed = 0
    BY <1>6, NothingOwed DEF OnRcvRequest, TakeCommand
  <2>2. /\ pc' = "read" /\ c \in Requests /\ request' = [cmd |-> c, bytes |-> <<>>]
        /\ request'.cmd = c /\ request'.bytes = <<>> /\ Len(request'.bytes) = 0
        /\ owed' = (IF c \in Answered THEN 1 ELSE 0) /\ status' = status
    BY <1>6, <2>1 DEF OnRcvRequest, Goto
  <2>3. rx' \in Seq(Bytes)
    BY <1>1, <1>6, ByteTaken DEF OnRcvRequest, TakeCommand
  <2>4. request' \in [cmd : Requests \cup {-1}, bytes : Seq(Bytes)]
    BY <2>2
  <2>5. FlowOK'
    BY <1>1, <1>6, <2>2, <2>3, <2>4
       DEF OnRcvRequest, TakeCommand, InLibrary, Goto, FlowOK
  <2>6. TablesOK'
    BY <1>1, <1>6, TablesStay DEF OnRcvRequest, TakeCommand, InLibrary
  <2>7. RequestOK' /\ WritesOK'
    BY <2>2 DEF RequestOK, WritesOK
  <2>8. AnswersOrResets'
    BY <2>2 DEF AnswersOrResets, AboutToAnswer
  <2> QED
    BY <2>5, <2>6, <2>7, <2>8, TypeParts DEF IInv
<1>7. rx # <<>> => Head(rx) \in Bytes
  BY <1>1 DEF FlowOK
<1> QED
  BY <1>2, <1>3, <1>4, <1>5, <1>6, <1>7 DEF HandleRequests

-----------------------------------------------------------------------------
(* Reading and serving a request.                                          *)

(* What the id of a request means does not change while it is read.        *)
LEMMA SameId ==
  ASSUME NEW bs \in Seq(Bytes), Len(bs) >= 2, NEW b \in Bytes
  PROVE  Id(Append(bs, b)) = Id(bs)
<1>1. Append(bs, b)[1] = bs[1] /\ Append(bs, b)[2] = bs[2]
  OBVIOUS
<1> QED
  BY <1>1 DEF Id

LEMMA ArgumentIsInt ==
  ASSUME NEW bs \in Seq(Bytes), NEW lo \in Bytes, NEW hi \in Bytes
  PROVE  ReadInto(bs, lo, hi) \in Ints
<1>1. (IF Len(bs) > 2 THEN bs[3] ELSE lo) \in Bytes
  OBVIOUS
<1>2. (IF Len(bs) > 3 THEN bs[4] ELSE hi) \in Bytes
  OBVIOUS
<1> QED
  BY <1>1, <1>2 DEF ReadInto, Ints

(* A request that names a slot in use is served: what is to be answered    *)
(* is, and a property is set to an int.                                    *)
LEMMA Served ==
  ASSUME IInv, pc = "read", NEW bs \in Seq(Bytes), InUse(bs), Serve(bs), owed' = owed,
         status' = status \/ STATUS_RESETTING \subseteq status',
         UNCHANGED tables
  PROVE  /\ RequestOK' /\ WritesOK' /\ AnswersOrResets' /\ TablesOK'
         /\ pc' \in {"write", "ping"} /\ task' \in {"reply", task}
         /\ todo' \in Seq(Seq(Bytes)) /\ out' = <<>>
         /\ request' \in [cmd : Requests \cup {-1}, bytes : Seq(Bytes)]
<1>1. TypeOK /\ TablesOK /\ FlowOK
  BY TypeParts DEF IInv
<1>2. request' \in [cmd : Requests \cup {-1}, bytes : Seq(Bytes)]
  BY DEF Serve, NoRequest
<1>3. ASSUME request.cmd \in Answered PROVE owed = 1
  BY <1>3 DEF IInv, AnswersOrResets, AboutToAnswer
<1>4. ASSUME CallAction(bs)
      PROVE  request.cmd \in Answered /\ IsReply(todo') /\ pc' = "write"
             /\ task' = "reply" /\ out' = <<>> /\ value' = value
  <2>1. request.cmd = COMMAND_CALL_ACTION /\ request.cmd \in Answered
    BY <1>4 DEF CallAction, Answered
  <2>2. Id(bs) \in ActionIds
    BY <2>1 DEF InUse
  <2>3. PICK lo \in Garbage, hi \in Garbage :
           Send("reply", << <<COMMAND_RETURN>> >> \o
                         (IF actions[Id(bs)] \in {"iv", "ii"}
                          THEN <<Result(Id(bs), ReadInto(bs, lo, hi))>> ELSE <<>>))
    BY <1>4 DEF CallAction
  <2>4. lo \in Bytes /\ hi \in Bytes
    BY ByteAssumption
  <2>5. Result(Id(bs), ReadInto(bs, lo, hi)) \in Ints
    BY <2>2, <2>4, ArgumentIsInt, IntAssumption
  <2>6. IsReply(todo')
    BY <2>3, <2>5, Replies DEF Send
  <2> QED
    BY <1>4, <2>1, <2>3, <2>6 DEF CallAction, Send, Goto
<1>5. ASSUME GetProperty(bs)
      PROVE  request.cmd \in Answered /\ IsReply(todo') /\ pc' = "write"
             /\ task' = "reply" /\ out' = <<>> /\ value' = value
  <2>1. request.cmd = COMMAND_GET_PROPERTY /\ request.cmd \in Answered
    BY <1>5 DEF GetProperty, Answered
  <2>2. Id(bs) \in PropertyIds
    BY <2>1 DEF InUse, COMMAND_GET_PROPERTY, COMMAND_CALL_ACTION
  <2>3. value[Id(bs)] \in Ints
    BY <1>1, <2>2 DEF TablesOK
  <2>4. todo' = << <<COMMAND_RETURN>>, value[Id(bs)] >>
    BY <1>5 DEF GetProperty, Send
  <2>5. IsReply(todo')
    BY <2>3, <2>4, Replies
  <2> QED
    BY <1>5, <2>1, <2>5 DEF GetProperty, Send, Goto
<1>6. CASE CallAction(bs) \/ GetProperty(bs)
  <2>1. /\ request.cmd \in Answered /\ IsReply(todo') /\ pc' = "write"
        /\ task' = "reply" /\ out' = <<>> /\ value' = value
    BY <1>4, <1>5, <1>6
  <2>2. RequestOK' /\ WritesOK' /\ AnswersOrResets'
    BY <1>3, <2>1, StartsReply
  <2>3. TablesOK'
    BY <1>1, <2>1, TablesStay
  <2> QED
    BY <1>2, <2>1, <2>2, <2>3 DEF IsReply
<1>7. CASE SetProperty(bs)
  <2>1. /\ pc' = "ping" /\ out' = <<>> /\ task' = task /\ todo' = todo
        /\ request.cmd \notin Answered
    BY <1>7 DEF SetProperty, Goto, Answered, COMMAND_SET_PROPERTY,
                COMMAND_GET_PROPERTY, COMMAND_CALL_ACTION
  <2>2. PICK i \in Ints : value' = [value EXCEPT ![Id(bs)] = i]
    <3>1. CASE properties[Id(bs)] = "callbacks"
      <4>1. PICK lo \in Garbage, hi \in Garbage :
               value' = [value EXCEPT ![Id(bs)] = ReadInto(bs, lo, hi)]
        BY <1>7, <3>1 DEF SetProperty
      <4>2. lo \in Bytes /\ hi \in Bytes
        BY ByteAssumption
      <4> QED
        BY <4>1, <4>2, ArgumentIsInt
    <3>2. CASE properties[Id(bs)] # "callbacks"
      <4>1. Id(bs) \in PropertyIds
        BY <1>7 DEF InUse, SetProperty, COMMAND_SET_PROPERTY, COMMAND_CALL_ACTION
      <4> DEFINE v == value[Id(bs)]
      <4>2. v[1] \in Bytes /\ v[2] \in Bytes
        BY <1>1, <4>1 DEF TablesOK, Ints
      <4>3. value' = [value EXCEPT ![Id(bs)] = ReadInto(bs, v[1], v[2])]
        BY <1>7, <3>2 DEF SetProperty
      <4> QED
        BY <4>2, <4>3, ArgumentIsInt
    <3> QED
      BY <3>1, <3>2
  <2>3. value' \in [PropertyIds -> Ints]
    BY <1>1, <2>2 DEF TablesOK
  <2>4. TablesOK'
    BY <1>1, <2>3 DEF TablesOK, tables
  <2>5. ~AboutToAnswer
    BY <2>1 DEF AboutToAnswer
  <2>6. RequestOK' /\ WritesOK' /\ AnswersOrResets'
    BY <2>1, <2>5, StepsOn
  <2> QED
    BY <1>1, <1>2, <2>1, <2>4, <2>6 DEF FlowOK
<1> QED
  BY <1>6, <1>7 DEF Serve

(* A byte of a request is read, or does not come.                          *)
LEMMA ReadStep ==
  ASSUME IInv, ReadByte \/ ReadTimeout
  PROVE  IInv'
<1>1. TypeOK /\ TablesOK /\ FlowOK
  BY TypeParts DEF IInv
<1>2. pc = "read" /\ UNCHANGED tables /\ UNCHANGED <<connection_id, ping_due, owed>>
  BY DEF ReadByte, ReadTimeout, Reading, InLibrary
<1> DEFINE rb == request.bytes
<1>3. /\ request.cmd \in Requests /\ rb \in Seq(Bytes) /\ Len(rb) \in Nat /\ Len(rb) <= 3
      /\ Len(rb) >= 2 => InUse(rb) /\ TakesArgument(rb)
  BY <1>1, <1>2 DEF FlowOK, IInv, RequestOK
<1> HIDE DEF rb
<1>4. ASSUME NEW bs \in Seq(Bytes), InUse(bs), Serve(bs), rx' \in Seq(Bytes),
             status' = status \/ ORState(STATUS_READ_FAIL)
      PROVE  IInv'
  <2>1. status' \subseteq AllBits /\ (status' = status \/ STATUS_RESETTING \subseteq status')
    BY <1>1, <1>4, FaultResets DEF FlowOK
  <2>2. /\ RequestOK' /\ WritesOK' /\ AnswersOrResets' /\ TablesOK'
        /\ pc' \in {"write", "ping"} /\ task' \in {"reply", task}
        /\ todo' \in Seq(Seq(Bytes)) /\ out' = <<>>
        /\ request' \in [cmd : Requests \cup {-1}, bytes : Seq(Bytes)]
    BY <1>2, <1>4, <2>1, Served
  <2>3. FlowOK'
    BY <1>1, <1>2, <1>4, <2>1, <2>2 DEF FlowOK
  <2> QED
    BY <2>2, <2>3, TypeParts DEF IInv
<1>5. ASSUME NEW fault \in {STATUS_MALFORMED_COMMAND, STATUS_READ_FAIL},
             Abandon(fault), rx' \in Seq(Bytes)
      PROVE  IInv'
  <2>1. status' \subseteq AllBits /\ STATUS_RESETTING \subseteq status'
    BY <1>1, <1>5, FaultResets DEF Abandon
  <2>2. request' \in [cmd : Requests \cup {-1}, bytes : Seq(Bytes)]
    BY <1>5 DEF Abandon, NoRequest
  <2>3. /\ pc' = "ping" /\ out' = <<>> /\ UNCHANGED <<value, task, todo>>
    BY <1>5 DEF Abandon, Goto
  <2>4. FlowOK'
    BY <1>1, <1>2, <1>5, <2>1, <2>2, <2>3 DEF FlowOK
  <2>5. TablesOK'
    BY <1>1, <1>2, <2>3, TablesStay
  <2>6. RequestOK' /\ WritesOK' /\ AnswersOrResets'
    BY <1>2, <2>1, <2>3, StepsOn
  <2> QED
    BY <2>4, <2>5, <2>6, TypeParts DEF IInv
<1>6. CASE ReadByte
  <2>1. PICK bs : bs = Append(rb, Head(rx))
    OBVIOUS
  <2>2. Head(rx) \in Bytes /\ rx' \in Seq(Bytes)
    BY <1>1, <1>6, ByteTaken DEF ReadByte
  <2>3. bs \in Seq(Bytes) /\ Len(bs) = Len(rb) + 1
    BY <1>3, <2>2, <2>1
  <2>4. Len(rb) >= 2 => Id(bs) = Id(rb)
    BY <1>3, <2>2, <2>1, SameId
  <2>5. Len(rb) >= 2 => InUse(bs) /\ TakesArgument(bs)
    BY <1>3, <2>4 DEF InUse, TakesArgument
  <2>6. ReadMore(bs) \/ RejectRequest(bs) \/ ServeRequest(bs)
    BY <1>6, <2>1 DEF ReadByte, rb
  <2>7. CASE ReadMore(bs)
    <3>1. /\ request' = [request EXCEPT !.bytes = bs] /\ pc' = "read" /\ out' = <<>>
          /\ UNCHANGED <<status, value, task, todo>>
          /\ Len(bs) \in {1, 3} \/ (Len(bs) = 2 /\ InUse(bs) /\ TakesArgument(bs))
      BY <2>7 DEF ReadMore, Goto
    <3>2. /\ request' \in [cmd : Requests \cup {-1}, bytes : Seq(Bytes)]
          /\ request'.bytes = bs /\ request'.cmd = request.cmd
      BY <1>1, <2>3, <3>1 DEF FlowOK
    <3>3. FlowOK'
      BY <1>1, <1>2, <2>2, <3>1, <3>2 DEF FlowOK
    <3>4. TablesOK'
      BY <1>1, <1>2, <3>1, TablesStay
    <3>5. Len(bs) <= 3 /\ (Len(bs) >= 2 => InUse(bs) /\ TakesArgument(bs))
      BY <1>3, <2>3, <2>5, <3>1
    <3>6. InUse(bs)' = InUse(bs) /\ TakesArgument(bs)' = TakesArgument(bs)
      BY <1>2, <3>2 DEF InUse, TakesArgument, tables
    <3>7. RequestOK' /\ WritesOK'
      BY <1>3, <3>1, <3>2, <3>5, <3>6 DEF RequestOK, WritesOK
    <3>8. AnswersOrResets'
      BY <1>2, <3>1, <3>2 DEF IInv, AnswersOrResets, AboutToAnswer
    <3> QED
      BY <3>3, <3>4, <3>7, <3>8, TypeParts DEF IInv
  <2>8. CASE RejectRequest(bs)
    BY <1>5, <2>2, <2>8 DEF RejectRequest
  <2>9. CASE ServeRequest(bs)
    <3>1. InUse(bs) /\ Serve(bs) /\ status' = status
      BY <1>3, <2>3, <2>5, <2>9 DEF ServeRequest
    <3> QED
      BY <1>4, <2>2, <2>3, <3>1
  <2> QED
    BY <2>6, <2>7, <2>8, <2>9
<1>7. CASE ReadTimeout
  <2>1. rx' \in Seq(Bytes)
    BY <1>1, <1>7 DEF ReadTimeout, FlowOK
  <2>2. CASE Len(rb) < 2
    BY <1>5, <1>7, <2>1, <2>2 DEF ReadTimeout, rb
  <2>3. CASE ~(Len(rb) < 2)
    <3>1. InUse(rb) /\ Serve(rb) /\ ORState(STATUS_READ_FAIL)
      BY <1>3, <1>7, <2>3 DEF ReadTimeout, rb
    <3> QED
      BY <1>3, <1>4, <2>1, <3>1
  <2> QED
    BY <2>2, <2>3
<1> QED
  BY <1>6, <1>7

-----------------------------------------------------------------------------
(* Resetting, writing and the ping.                                        *)

LEMMA FlushStep ==
  ASSUME IInv, FlushByte \/ FlushDone
  PROVE  IInv'
<1>1. TypeOK /\ TablesOK /\ FlowOK
  BY TypeParts DEF IInv
<1>2. CASE FlushByte
  <2>1. rx' \in Seq(Bytes)
    BY <1>1, <1>2, ByteTaken DEF FlushByte
  <2>2. /\ pc' = "flush" /\ out' = <<>> /\ ~AboutToAnswer
        /\ UNCHANGED <<status, value, connection_id, task, request, todo, ping_due, owed>>
    BY <1>2 DEF FlushByte, Goto, InLibrary, AboutToAnswer
  <2>3. FlowOK'
    BY <1>1, <2>1, <2>2 DEF FlowOK
  <2>4. TablesOK'
    BY <1>1, <1>2, TablesStay DEF FlushByte, InLibrary
  <2>5. RequestOK' /\ WritesOK' /\ AnswersOrResets'
    BY <2>2, StepsOn
  <2> QED
    BY <2>3, <2>4, <2>5, TypeParts DEF IInv
<1>3. CASE FlushDone
  <2>1. PICK id \in ConnectionIds : connection_id' = id /\ Send("reset", ResetWrites(id))
    BY <1>3 DEF FlushDone
  <2>2. id \in Ints
    BY IntAssumption
  <2>3. todo' \in Seq(Seq(Bytes))
    BY <2>1, <2>2, ResetType DEF Send
  <2>4. /\ pc' = "write" /\ task' = "reset" /\ out' = <<>> /\ owed' = 0
        /\ UNCHANGED <<status, value, request, ping_due, rx>>
    BY <1>3, <2>1 DEF FlushDone, Send, Goto
  <2>5. FlowOK'
    BY <1>1, <2>1, <2>2, <2>3, <2>4 DEF FlowOK
  <2>6. TablesOK'
    BY <1>1, <1>3, TablesStay DEF FlushDone
  <2>7. RequestOK' /\ WritesOK' /\ AnswersOrResets'
    BY <2>4 DEF RequestOK, WritesOK, AnswersOrResets, AboutToAnswer
  <2> QED
    BY <2>5, <2>6, <2>7, TypeParts DEF IInv
<1> QED
  BY <1>2, <1>3

(* What is left of a reply once its head is written holds no RETURN.       *)
LEMMA RestOfReply ==
  ASSUME TypeOK, WritesOK, pc = "write", todo # <<>>
  PROVE  /\ Tail(todo) \in Seq(Seq(Bytes)) /\ Head(todo) \in Seq(Bytes)
         /\ task = "reply" =>
               /\ \A i \in 1..Len(Tail(todo)) : Tail(todo)[i] # <<COMMAND_RETURN>>
               /\ Tail(todo) # <<>> => Tail(todo)[1] # <<COMMAND_RETURN>>
<1> DEFINE W == Seq(Bytes)
           r == <<COMMAND_RETURN>>
<1>1. todo \in Seq(W) /\ (task = "reply" => \A i \in 2..Len(todo) : todo[i] # r)
  BY DEF TypeOK, WritesOK
<1> HIDE DEF W, r
<1>2. Tail(todo) \in Seq(W) /\ Head(todo) \in W /\ Len(Tail(todo)) = Len(todo) - 1
  BY <1>1
<1>3. ASSUME task = "reply", NEW i \in 1..Len(Tail(todo)) PROVE Tail(todo)[i] # r
  <2>1. Tail(todo)[i] = todo[i + 1] /\ i + 1 \in 2..Len(todo)
    BY <1>1, <1>2
  <2> QED
    BY <1>1, <1>3, <2>1
<1>4. Tail(todo) # <<>> => 1 \in 1..Len(Tail(todo))
  BY <1>2
<1> QED
  BY <1>2, <1>3, <1>4 DEF W, r

LEMMA WriteStep ==
  ASSUME IInv, WriteNext \/ WriteTimeout \/ WriteDone
  PROVE  IInv'
<1>1. TypeOK /\ TablesOK /\ FlowOK
  BY TypeParts DEF IInv
<1>2. /\ pc = "write" /\ UNCHANGED tables
      /\ UNCHANGED <<connection_id, value, request, ping_due, rx>>
  BY DEF WriteNext, WriteTimeout, WriteDone, Writing, InLibrary
<1>3. TablesOK'
  BY <1>1, <1>2, TablesStay
<1>4. owed \in {0, 1} /\ task # "none" /\ (task = "reset" => owed = 0)
  BY <1>1, <1>2 DEF IInv, WritesOK, FlowOK
<1>5. CASE WriteNext
  <2>1. /\ todo # <<>> /\ out' = Head(todo) /\ todo' = Tail(todo)
        /\ UNCHANGED <<status, pc, task>>
        /\ owed' = IF Head(todo) = <<COMMAND_RETURN>> /\ task = "reply"
                   THEN owed - 1 ELSE owed
    BY <1>5 DEF WriteNext
  <2>2. /\ todo' \in Seq(Seq(Bytes)) /\ out' \in Seq(Bytes)
        /\ task = "reply" =>
              /\ \A i \in 1..Len(todo') : todo'[i] # <<COMMAND_RETURN>>
              /\ todo' # <<>> => todo'[1] # <<COMMAND_RETURN>>
    BY <1>1, <1>2, <2>1, RestOfReply DEF IInv
  <2>3. ~AboutToAnswer'
    BY <1>2, <2>1, <2>2 DEF AboutToAnswer
  <2>4. owed' = 0 \/ (owed' = 1 /\ STATUS_RESETTING \subseteq status)
    <3>1. CASE Head(todo) = <<COMMAND_RETURN>> /\ task = "reply"
      <4>1. AboutToAnswer
        BY <1>2, <2>1, <3>1 DEF AboutToAnswer
      <4>2. owed = 1
        BY <4>1 DEF IInv, AnswersOrResets
      <4> QED
        BY <2>1, <3>1, <4>2
    <3>2. CASE ~(Head(todo) = <<COMMAND_RETURN>> /\ task = "reply")
      <4>1. ~AboutToAnswer
        BY <1>2, <3>2 DEF AboutToAnswer
      <4> QED
        BY <1>4, <2>1, <3>2, <4>1 DEF IInv, AnswersOrResets
    <3> QED
      BY <3>1, <3>2
  <2>5. AnswersOrResets'
    BY <2>1, <2>3, <2>4 DEF AnswersOrResets
  <2>6. RequestOK'
    BY <1>2, <2>1 DEF RequestOK
  <2>7. WritesOK'
    <3>1. task' = "reset" => owed' = 0
      BY <1>4, <2>1
    <3>2. ASSUME task' = "reply", NEW i \in 2..Len(todo')
          PROVE  todo'[i] # <<COMMAND_RETURN>>
      <4>1. i \in 1..Len(todo')
        OBVIOUS
      <4> QED
        BY <2>1, <2>2, <3>2, <4>1
    <3> QED
      BY <1>4, <2>1, <3>1, <3>2 DEF WritesOK
  <2>8. FlowOK'
    <3>1. owed' \in {0, 1}
      BY <2>4
    <3> QED
      BY <1>1, <1>2, <2>1, <2>2, <3>1 DEF FlowOK
  <2> QED
    BY <1>3, <2>5, <2>6, <2>7, <2>8, TypeParts DEF IInv
<1>6. CASE WriteTimeout
  <2>1. /\ todo # <<>> /\ UNCHANGED <<pc, task, owed>> /\ ORState(STATUS_WRITE_FAIL)
        /\ todo' = IF task = "event" THEN <<>> ELSE Tail(todo)
    BY <1>6 DEF WriteTimeout
  <2>2. status' \subseteq AllBits /\ STATUS_RESETTING \subseteq status'
    BY <1>1, <2>1, FaultResets
  <2>3. /\ Tail(todo) \in Seq(Seq(Bytes)) /\ Head(todo) \in Seq(Bytes)
        /\ task = "reply" =>
              /\ \A i \in 1..Len(Tail(todo)) : Tail(todo)[i] # <<COMMAND_RETURN>>
              /\ Tail(todo) # <<>> => Tail(todo)[1] # <<COMMAND_RETURN>>
    BY <1>1, <1>2, <2>1, RestOfReply DEF IInv
  <2>4. out' \in Seq(Bytes)
    <3>1. PICK n \in 0 .. Len(Head(todo)) : out' = SubSeq(Head(todo), 1, n)
      BY <1>6 DEF WriteTimeout
    <3> QED
      BY <2>3, <3>1
  <2>5. todo' \in Seq(Seq(Bytes))
    BY <2>1, <2>3
  <2>6. FlowOK'
    BY <1>1, <1>2, <2>1, <2>2, <2>4, <2>5 DEF FlowOK
  <2>7. ~AboutToAnswer'
    BY <1>2, <2>1, <2>3 DEF AboutToAnswer
  <2>8. RequestOK' /\ AnswersOrResets'
    BY <1>2, <2>1, <2>2, <2>7 DEF RequestOK, AnswersOrResets
  <2>9. WritesOK'
    <3>1. ASSUME task' = "reply", NEW i \in 2..Len(todo')
          PROVE  todo'[i] # <<COMMAND_RETURN>>
      <4>1. i \in 1..Len(todo') /\ todo' = Tail(todo) /\ task = "reply"
        BY <2>1, <3>1
      <4> QED
        BY <2>3, <4>1
    <3> QED
      BY <1>4, <2>1, <3>1 DEF WritesOK
  <2> QED
    BY <1>3, <2>6, <2>8, <2>9, TypeParts DEF IInv
<1>7. CASE WriteDone
  <2>1. /\ todo = <<>> /\ task' = "none" /\ UNCHANGED <<todo, owed>> /\ out' = <<>>
        /\ IF task = "reset" THEN status' = STATUS_CONNECTED ELSE status' = status
    BY <1>7 DEF WriteDone, Goto, SetState
  <2>2. pc' \in {"sketch", "loop", "ping"}
    <3>1. task \in {"event", "reply", "reset", "ping"}
      BY <1>1, <1>4 DEF FlowOK
    <3>2. EndOfLoop \in {"sketch", "loop"}
      BY DEF EndOfLoop
    <3>3. pc' = CASE task = "event"              -> "sketch"
                  [] task \in {"reply", "reset"} -> "ping"
                  [] task = "ping"               -> EndOfLoop
      BY <1>7 DEF WriteDone, Goto
    <3> QED
      BY <3>1, <3>2, <3>3
  <2>3. status' \subseteq AllBits
    BY <1>1, <2>1, Faults DEF FlowOK
  <2>4. FlowOK'
    <3>1. out' \in Seq(Bytes)
      BY <2>1
    <3> QED
      BY <1>1, <1>2, <2>1, <2>2, <2>3, <3>1 DEF FlowOK
  <2>5. RequestOK' /\ WritesOK' /\ ~AboutToAnswer' /\ ~AboutToAnswer
    BY <2>1, <2>2, <1>2 DEF RequestOK, WritesOK, AboutToAnswer
  <2>6. owed' = 1 => STATUS_RESETTING \subseteq status'
    BY <1>4, <2>1, <2>5 DEF IInv, AnswersOrResets
  <2>7. AnswersOrResets'
    BY <2>5, <2>6 DEF AnswersOrResets
  <2> QED
    BY <1>3, <2>4, <2>5, <2>7, TypeParts DEF IInv
<1> QED
  BY <1>5, <1>6, <1>7

LEMMA PingStep ==
  ASSUME IInv, Ping \/ NoPing \/ PingFallsDue \/ ServerSends
  PROVE  IInv'
<1>1. TypeOK /\ TablesOK /\ FlowOK
  BY TypeParts DEF IInv
<1>2. CASE Ping
  <2>1. connection_id \in Seq(Bytes) /\ <<COMMAND_PING>> \in Seq(Bytes)
    BY <1>1, IntBytes, CommandBytes, OneByte DEF FlowOK
  <2>2. << <<COMMAND_PING>>, connection_id >> \in Seq(Seq(Bytes))
    <3> DEFINE W == Seq(Bytes)
    <3> HIDE DEF W
    <3>1. \A s, t \in W : <<s, t>> \in Seq(W)
      OBVIOUS
    <3> QED
      BY <2>1, <3>1 DEF W
  <2>3. /\ pc' = "write" /\ task' = "ping" /\ out' = <<>> /\ ping_due' = FALSE
        /\ todo' \in Seq(Seq(Bytes)) /\ ~AboutToAnswer
        /\ UNCHANGED <<status, value, connection_id, request, rx, owed>>
    BY <1>2, <2>2 DEF Ping, Send, Goto, InLibrary, AboutToAnswer
  <2>4. FlowOK'
    <3>1. out' \in Seq(Bytes)
      BY <2>3
    <3>2. ping_due' \in BOOLEAN
      BY <2>3
    <3> QED
      BY <1>1, <2>3, <3>1, <3>2 DEF FlowOK
  <2>5. TablesOK'
    BY <1>1, <1>2, TablesStay DEF Ping, InLibrary
  <2>6. RequestOK' /\ WritesOK' /\ AnswersOrResets'
    BY <2>3, StartsWriting
  <2> QED
    BY <2>4, <2>5, <2>6, TypeParts DEF IInv
<1>3. CASE NoPing
  <2>1. /\ pc' \in {"sketch", "loop"} /\ out' = <<>> /\ ~AboutToAnswer
        /\ UNCHANGED <<status, value, connection_id, task, request, todo, ping_due, rx, owed>>
    BY <1>3 DEF NoPing, Goto, EndOfLoop, InLibrary, AboutToAnswer
  <2>2. FlowOK'
    BY <1>1, <2>1 DEF FlowOK
  <2>3. TablesOK'
    BY <1>1, <1>3, TablesStay DEF NoPing, InLibrary
  <2>4. RequestOK' /\ WritesOK' /\ AnswersOrResets'
    BY <2>1, StepsOn
  <2> QED
    BY <2>2, <2>3, <2>4, TypeParts DEF IInv
<1>4. CASE PingFallsDue \/ ServerSends
  <2>1. /\ UNCHANGED tables /\ out' = <<>> /\ ping_due' \in BOOLEAN
        /\ UNCHANGED <<status, value, connection_id, pc, task, request, todo, owed>>
    <3>1. ping_due \in BOOLEAN
      BY <1>1 DEF FlowOK
    <3> QED
      BY <1>4, <3>1 DEF PingFallsDue, ServerSends, Arrives
  <2>2. rx' \in Seq(Bytes)
    <3>1. rx \in Seq(Bytes) /\ Input \subseteq Bytes
      BY <1>1, ByteAssumption DEF FlowOK
    <3>2. rx' = rx \/ \E b \in Input : rx' = Append(rx, b)
      BY <1>4 DEF PingFallsDue, ServerSends, Arrives
    <3> QED
      BY <3>1, <3>2
  <2>3. FlowOK'
    <3>1. out' \in Seq(Bytes)
      BY <2>1
    <3> QED
      BY <1>1, <2>1, <2>2, <3>1 DEF FlowOK
  <2>4. TablesOK'
    BY <1>1, <2>1, TablesStay
  <2>5. RequestOK' /\ WritesOK' /\ AnswersOrResets'
    BY <2>1 DEF IInv, RequestOK, WritesOK, AnswersOrResets, AboutToAnswer, tables,
                InUse, TakesArgument
  <2> QED
    BY <2>3, <2>4, <2>5, TypeParts DEF IInv
<1> QED
  BY <1>2, <1>3, <1>4

-----------------------------------------------------------------------------
(* The invariant.                                                          *)

LEMMA InitInv ==
  Init => IInv
<1> SUFFICES ASSUME Init PROVE IInv
  OBVIOUS
<1>1. TablesOK
  BY DEF Init, TablesOK, Ints, Bytes
<1>2. FlowOK
  <2>1. <<0, 0>> \in Ints
    BY DEF Ints, Bytes
  <2>2. NoRequest \in [cmd : Requests \cup {-1}, bytes : Seq(Bytes)]
    BY DEF NoRequest
  <2>3. <<>> \in Seq(Bytes) /\ <<>> \in Seq(Seq(Bytes))
    OBVIOUS
  <2>4. status \subseteq AllBits
    BY Faults DEF Init
  <2> QED
    BY <2>1, <2>2, <2>3, <2>4 DEF Init, FlowOK
<1>3. RequestOK /\ WritesOK /\ AnswersOrResets
  BY DEF Init, RequestOK, WritesOK, AnswersOrResets, AboutToAnswer
<1> QED
  BY <1>1, <1>2, <1>3, TypeParts DEF IInv

LEMMA StepInv ==
  IInv /\ [Next]_vars => IInv'
<1> SUFFICES ASSUME IInv, [Next]_vars PROVE IInv'
  OBVIOUS
<1>1. CASE Sketch
  BY <1>1, SketchStep
<1>2. CASE Library
  BY <1>2, LoopStep, ReadStep, FlushStep, WriteStep, PingStep DEF Library
<1>3. CASE PingFallsDue \/ ServerSends
  BY <1>3, PingStep
<1>4. CASE UNCHANGED vars
  <2>1. TypeOK' = TypeOK
    BY <1>4 DEF vars, TypeOK
  <2>2. RequestOK' = RequestOK /\ WritesOK' = WritesOK /\ AnswersOrResets' = AnswersOrResets
    BY <1>4 DEF vars, RequestOK, WritesOK, AnswersOrResets, AboutToAnswer, InUse,
                TakesArgument
  <2> QED
    BY <2>1, <2>2 DEF IInv
<1> QED
  BY <1>1, <1>2, <1>3, <1>4 DEF Next

LEMMA Invariance ==
  Spec => []IInv
<1> QED
  BY InitInv, StepInv, PTL DEF Spec

(* Every variable has its type.  The slots in use are slots there are, the *)
(* status is made of the bits SHETSource.h names, a property is always one *)
(* whole int, and never more than one request waits for an answer.         *)
THEOREM TypeCorrectness ==
  Spec => []TypeOK
<1>1. IInv => TypeOK
  BY DEF IInv
<1> QED
  BY <1>1, Invariance, PTL

(* The device answers every request it takes off the link, once, or is     *)
(* about to reset; and nothing but an answer writes a RETURN, for every    *)
(* choice of slots, callbacks and bytes, on a link that fails or one that  *)
(* does not.  On SHETSource_OnRcv.cpp, LocalAction::operator() and         *)
(* LocalProperty::Get.                                                     *)
THEOREM OneAnswerEach ==
  Spec => []AnswersOrResets
<1>1. IInv => AnswersOrResets
  BY DEF IInv
<1> QED
  BY <1>1, Invariance, PTL

-----------------------------------------------------------------------------
(* What a property is set to.                                              *)

LEMMA ServeSetsOne ==
  ASSUME IInv, pc = "read", NEW bs \in Seq(Bytes), InUse(bs), Serve(bs), Len(bs) = 4,
         NEW p \in PropertyIds, value'[p] # value[p]
  PROVE  value'[p] = <<bs[3], bs[4]>>
<1>1. SetProperty(bs)
  BY DEF Serve, CallAction, GetProperty
<1>2. value \in [PropertyIds -> Ints]
  BY DEF IInv, TypeOK
<1>3. \A lo, hi : ReadInto(bs, lo, hi) = <<bs[3], bs[4]>>
  BY DEF ReadInto
<1>4. value' = [value EXCEPT ![Id(bs)] = <<bs[3], bs[4]>>]
  <2>1. CASE properties[Id(bs)] = "callbacks"
    BY <1>1, <1>3, <2>1 DEF SetProperty
  <2>2. CASE properties[Id(bs)] # "callbacks"
    BY <1>1, <1>3, <2>2 DEF SetProperty
  <2> QED
    BY <2>1, <2>2
<1> QED
  BY <1>2, <1>4

LEMMA StepSetsWhatWasSent ==
  IInv /\ [Next]_vars =>
     \A p \in PropertyIds :
        value'[p] # value[p] => WasSent(p) \/ STATUS_RESETTING \subseteq status'
<1> SUFFICES ASSUME IInv, [Next]_vars, NEW p \in PropertyIds, value'[p] # value[p],
                    ~(STATUS_RESETTING \subseteq status')
             PROVE  WasSent(p)
  OBVIOUS
<1>1. TypeOK /\ FlowOK /\ RequestOK
  BY TypeParts DEF IInv
<1>2. ReadByte \/ ReadTimeout
  <2>1. ~Sketch
    BY DEF Sketch, AddAction, RemoveAction, AddEvent, RemoveEvent, AddProperty,
           RaiseEvent, DoSHET, InSketch
  <2>2. ~(StartReset \/ NothingAvailable \/ HandleRequests)
    BY DEF StartReset, NothingAvailable, HandleRequests, CommandTimeout, OnRcvReset,
           OnRcvPing, OnRcvRequest, OnRcvUnknown, TakeCommand
  <2>3. ~(FlushByte \/ FlushDone \/ WriteNext \/ WriteTimeout \/ WriteDone \/ Ping \/ NoPing)
    BY DEF FlushByte, FlushDone, WriteNext, WriteTimeout, WriteDone, Writing, Ping, NoPing
  <2>4. ~(PingFallsDue \/ ServerSends)
    BY DEF PingFallsDue, ServerSends, Arrives
  <2> QED
    BY <2>1, <2>2, <2>3, <2>4 DEF Next, Library, vars
<1>3. pc = "read"
  BY <1>2 DEF ReadByte, ReadTimeout, Reading
<1>4. ~ReadTimeout
  <2>1. ASSUME NEW fault \in {STATUS_RESETTING, STATUS_MALFORMED_COMMAND,
                              STATUS_READ_FAIL, STATUS_WRITE_FAIL},
               ORState(fault)
        PROVE  FALSE
    BY <1>1, <2>1, FaultResets
  <2> QED
    BY <2>1 DEF ReadTimeout, Abandon
<1>5. PICK bs : bs = Append(request.bytes, Head(rx))
  OBVIOUS
<1>6. /\ request.bytes \in Seq(Bytes) /\ Head(rx) \in Bytes /\ rx # <<>>
      /\ Len(request.bytes) <= 3
      /\ Len(request.bytes) >= 2 => InUse(request.bytes)
  BY <1>1, <1>2, <1>3, <1>4, ByteTaken DEF ReadByte, RequestOK, FlowOK
<1>7. ServeRequest(bs)
  <2>1. ~ReadMore(bs)
    BY DEF ReadMore
  <2>2. ~RejectRequest(bs)
    BY DEF RejectRequest, Abandon
  <2> QED
    BY <1>2, <1>4, <1>5, <2>1, <2>2 DEF ReadByte
<1>8. bs \in Seq(Bytes) /\ Len(bs) = Len(request.bytes) + 1
  BY <1>5, <1>6
<1>9. SetProperty(bs)
  BY <1>7 DEF ServeRequest, Serve, CallAction, GetProperty
<1>10. Len(bs) = 4
  BY <1>7, <1>9 DEF ServeRequest, SetProperty, TakesArgument
<1>11. PICK n \in Nat : n = Len(request.bytes)
  BY <1>6
<1>12. n + 1 = 4
  BY <1>8, <1>10, <1>11
<1>13. bs[3] = request.bytes[3] /\ bs[4] = Head(rx)
  BY <1>5, <1>6, <1>11, <1>12
<1>14. InUse(bs)
  <2>1. Len(request.bytes) >= 2
    BY <1>11, <1>12
  <2>2. Id(bs) = Id(request.bytes)
    BY <1>5, <1>6, <2>1, SameId
  <2> QED
    BY <1>6, <2>1, <2>2 DEF InUse
<1>15. value'[p] = <<bs[3], bs[4]>>
  BY <1>3, <1>7, <1>8, <1>10, <1>14, ServeSetsOne DEF ServeRequest
<1> QED
  BY <1>6, <1>13, <1>15 DEF WasSent

(* A property only takes a value that was sent, both bytes of it, unless   *)
(* the read of it failed and the device is about to reset.  On             *)
(* LocalProperty::Set, which does not look at what the read came to.       *)
THEOREM OnlySentValues ==
  Spec => UnsentValueResets
<1>1. IInv /\ [Next]_vars =>
         [\A p \in PropertyIds :
             value'[p] # value[p] => \/ WasSent(p)
                                    \/ STATUS_RESETTING \subseteq status']_vars
  BY StepSetsWhatWasSent
<1> QED
  BY <1>1, Invariance, PTL DEF Spec, UnsentValueResets

=============================================================================
