---------------------------- MODULE SessionProofs ----------------------------
(***************************************************************************)
(* That the router and a device agree on what is registered, for every set *)
(* of requests, however many bytes are on their way and wherever either    *)
(* end is when the device is switched off or its stream breaks.            *)
(*                                                                         *)
(* The argument follows the bytes.  Those on the way to the router are a   *)
(* walk through the stream of RouterStream, from the place the router is   *)
(* at to the place the device is at; those on the way to the device are a  *)
(* walk through the calls the router writes.  Each end that takes or       *)
(* writes a byte moves its end of the walk.                                *)
(***************************************************************************)
EXTENDS Session, SequenceTheorems, TLAPS

(* The Client of the session, with what is proved of it.                   *)
RP == INSTANCE RouterStream WITH
        Requests <- Askers, connection_id <- router_id, out <- router_out,
        Input <- LAMBDA s : Bytes

-----------------------------------------------------------------------------
(***************************************************************************)
(* Walks.                                                                  *)
(***************************************************************************)

(* The bytes of s lead from p to q, each along an edge of E.               *)
Walk(P, E, p, s, q) ==
    \E f \in [0 .. Len(s) -> P] :
        /\ f[0] = p
        /\ f[Len(s)] = q
        /\ \A i \in 1 .. Len(s) : <<f[i - 1], s[i], f[i]>> \in E

LEMMA WalkNowhere ==
  ASSUME NEW P, NEW E, NEW p \in P
  PROVE  Walk(P, E, p, <<>>, p)
<1> DEFINE f == [i \in 0 .. 0 |-> p]
<1>1. f \in [0 .. 0 -> P] /\ f[0] = p
  OBVIOUS
<1>2. Len(<<>>) = 0
  OBVIOUS
<1> HIDE DEF f
<1>3. QED
  BY <1>1, <1>2 DEF Walk

LEMMA WalkEmpty ==
  ASSUME NEW P, NEW E, NEW p, NEW q, Walk(P, E, p, <<>>, q)
  PROVE  p = q
<1>1. Len(<<>>) = 0
  OBVIOUS
<1>2. QED
  BY <1>1 DEF Walk

LEMMA WalkStep ==
  ASSUME NEW P, NEW E, NEW p \in P, NEW q \in P, NEW b, <<p, b, q>> \in E
  PROVE  Walk(P, E, p, <<b>>, q)
<1> DEFINE f == [i \in 0 .. 1 |-> IF i = 0 THEN p ELSE q]
<1>1. f \in [0 .. 1 -> P] /\ f[0] = p /\ f[1] = q
  OBVIOUS
<1>2. Len(<<b>>) = 1 /\ <<b>>[1] = b
  OBVIOUS
<1>3. \A i \in 1 .. 1 : i - 1 = 0 /\ i = 1
  OBVIOUS
<1> HIDE DEF f
<1>4. \A i \in 1 .. 1 : <<f[i - 1], <<b>>[i], f[i]>> \in E
  BY <1>1, <1>2, <1>3
<1>5. QED
  BY <1>1, <1>2, <1>4 DEF Walk

LEMMA WalkFrom ==
  ASSUME NEW S, NEW P, NEW E, NEW p, NEW q, NEW s \in Seq(S), Walk(P, E, p, s, q),
         NEW m \in 1 .. Len(s) + 1
  PROVE  \E r \in P : /\ Walk(P, E, r, SubSeq(s, m, Len(s)), q)
                      /\ m = 1 => r = p
                      /\ m = 2 => <<p, s[1], r>> \in E
<1>1. PICK n \in Nat : n = Len(s)
  BY LenProperties
<1>2. PICK f \in [0 .. n -> P] :
        /\ f[0] = p /\ f[n] = q
        /\ \A i \in 1 .. n : <<f[i - 1], s[i], f[i]>> \in E
  BY <1>1 DEF Walk
<1>3. PICK k \in 0 .. n : k = m - 1
  BY <1>1
<1> DEFINE t == SubSeq(s, m, Len(s))
           g == [i \in 0 .. n - k |-> f[k + i]]
<1>4. Len(t) = n - k /\ \A i \in 1 .. n - k : t[i] = s[k + i]
  <2>1. m \in 1 .. n + 1
    BY <1>1
  <2>2. \A i \in m .. n : i \in 1 .. n
    BY <2>1
  <2>3. SubSeq(s, m, n) = [i \in 1 .. (1 + n - m) |-> s[i + m - 1]]
    BY <1>1, <2>1
  <2>4. 1 + n - m = n - k /\ \A i \in 1 .. n - k : i + m - 1 = k + i
    BY <1>3, <2>1
  <2>5. SubSeq(s, m, n) = [i \in 1 .. n - k |-> s[k + i]]
    BY <2>3, <2>4
  <2>6. n - k \in Nat
    BY <1>3
  <2>7. Len(SubSeq(s, m, n)) = n - k
    BY <2>5, <2>6
  <2>8. QED
    BY <1>1, <2>5, <2>7
<1>5. /\ g \in [0 .. n - k -> P] /\ g[0] = f[k] /\ g[n - k] = f[n]
      /\ \A i \in 1 .. n - k : g[i] = f[k + i] /\ g[i - 1] = f[(k + i) - 1]
  <2>1. \A i \in 0 .. n - k : k + i \in 0 .. n
    OBVIOUS
  <2>2. \A i \in 1 .. n - k : i - 1 \in 0 .. n - k /\ k + (i - 1) = (k + i) - 1
    OBVIOUS
  <2>3. k + (n - k) = n /\ k + 0 = k /\ n - k \in 0 .. n - k /\ 0 \in 0 .. n - k
    OBVIOUS
  <2>4. QED
    BY <2>1, <2>2, <2>3
<1>6. \A i \in 1 .. n - k : k + i \in 1 .. n
  OBVIOUS
<1> HIDE DEF g, t
<1>7. \A i \in 1 .. n - k : <<g[i - 1], t[i], g[i]>> \in E
  BY <1>2, <1>4, <1>5, <1>6
<1>8. Walk(P, E, f[k], t, q)
  BY <1>2, <1>4, <1>5, <1>7 DEF Walk
<1>9. f[k] \in P
  BY <1>2, <1>3
<1>10. m = 1 => f[k] = p
  BY <1>2, <1>3
<1>11. m = 2 => <<p, s[1], f[k]>> \in E
  <2>1. m = 2 => k = 1 /\ 1 \in 1 .. n /\ 1 - 1 = 0
    BY <1>3
  <2>2. QED
    BY <1>2, <2>1
<1>12. QED
  BY <1>8, <1>9, <1>10, <1>11 DEF t

LEMMA WalkOn ==
  ASSUME NEW S, NEW P, NEW E, NEW p, NEW q, NEW s \in Seq(S), s # <<>>, Walk(P, E, p, s, q)
  PROVE  \E r \in P : <<p, Head(s), r>> \in E /\ Walk(P, E, r, Tail(s), q)
<1>1. PICK n \in Nat : n = Len(s)
  BY LenProperties
<1>2. n # 0
  BY <1>1, EmptySeq
<1>3. 2 \in 1 .. n + 1
  BY <1>2
<1>4. PICK r \in P : Walk(P, E, r, SubSeq(s, 2, Len(s)), q) /\ <<p, s[1], r>> \in E
  BY <1>1, <1>3, WalkFrom
<1>5. Tail(s) = SubSeq(s, 2, Len(s)) /\ Head(s) = s[1]
  BY <1>1, <1>2
<1>6. QED
  BY <1>4, <1>5

LEMMA WalkJoin ==
  ASSUME NEW S, NEW P, NEW E, NEW p, NEW q, NEW r, NEW s \in Seq(S), NEW t \in Seq(S),
         Walk(P, E, p, s, q), Walk(P, E, q, t, r)
  PROVE  Walk(P, E, p, s \o t, r)
<1>1. PICK n \in Nat, m \in Nat : n = Len(s) /\ m = Len(t)
  BY LenProperties
<1>2. PICK f \in [0 .. n -> P] :
        /\ f[0] = p /\ f[n] = q
        /\ \A i \in 1 .. n : <<f[i - 1], s[i], f[i]>> \in E
  BY <1>1 DEF Walk
<1>3. PICK g \in [0 .. m -> P] :
        /\ g[0] = q /\ g[m] = r
        /\ \A i \in 1 .. m : <<g[i - 1], t[i], g[i]>> \in E
  BY <1>1 DEF Walk
<1> DEFINE h == [i \in 0 .. n + m |-> IF i <= n THEN f[i] ELSE g[i - n]]
<1>4. /\ Len(s \o t) = n + m
      /\ \A i \in 1 .. n : (s \o t)[i] = s[i]
      /\ \A i \in 1 .. m : (s \o t)[n + i] = t[i]
  BY <1>1
<1>5. h \in [0 .. n + m -> P]
  <2>1. \A i \in 0 .. n + m : (i <= n => i \in 0 .. n) /\ (~(i <= n) => i - n \in 0 .. m)
    OBVIOUS
  <2>2. QED
    BY <2>1
<1>6. /\ \A i \in 0 .. n : h[i] = f[i]
      /\ \A i \in 0 .. m : h[n + i] = g[i]
  <2>1. \A i \in 0 .. n : i \in 0 .. n + m /\ i <= n
    OBVIOUS
  <2>2. \A i \in 0 .. m : /\ n + i \in 0 .. n + m
                          /\ n + i <= n <=> i = 0
                          /\ (n + i) - n = i
    OBVIOUS
  <2>3. \A i \in 0 .. n : h[i] = f[i]
    BY <2>1
  <2>4. ASSUME NEW i \in 0 .. m
        PROVE  h[n + i] = g[i]
    <3>1. CASE i = 0
      <4>1. n + i = n /\ n \in 0 .. n
        BY <3>1
      <4>2. h[n] = f[n]
        BY <2>3, <4>1
      <4>3. QED
        BY <1>2, <1>3, <3>1, <4>1, <4>2, Zenon
    <3>2. CASE i # 0
      BY <2>2, <3>2
    <3>3. QED
      BY <3>1, <3>2
  <2>5. QED
    BY <2>3, <2>4
<1> HIDE DEF h
<1>7. h[0] = p /\ h[n + m] = r
  <2>1. 0 \in 0 .. n /\ m \in 0 .. m
    OBVIOUS
  <2>2. QED
    BY <1>2, <1>3, <1>6, <2>1
<1>8. ASSUME NEW i \in 1 .. n + m
      PROVE  <<h[i - 1], (s \o t)[i], h[i]>> \in E
  <2>1. CASE i <= n
    <3>1. i \in 1 .. n /\ i \in 0 .. n /\ i - 1 \in 0 .. n
      BY <2>1
    <3>2. QED
      BY <1>2, <1>4, <1>6, <3>1
  <2>2. CASE ~(i <= n)
    <3>1. PICK j \in 1 .. m : i = n + j
      <4>1. i - n \in 1 .. m /\ i = n + (i - n)
        BY <2>2
      <4>2. QED
        BY <4>1
    <3>2. j \in 0 .. m /\ j - 1 \in 0 .. m /\ i - 1 = n + (j - 1)
      BY <3>1
    <3>3. QED
      BY <1>3, <1>4, <1>6, <3>1, <3>2
  <2>3. QED
    BY <2>1, <2>2
<1>9. QED
  BY <1>4, <1>5, <1>7, <1>8 DEF Walk

LEMMA WalkCut ==
  ASSUME NEW S, NEW P, NEW E, NEW p, NEW q, NEW s \in Seq(S), s # <<>>, Walk(P, E, p, s, q),
         NEW z \in P, \A x, b, y : <<x, b, y>> \in E => <<x, b, z>> \in E
  PROVE  Walk(P, E, p, s, z)
<1>1. PICK n \in Nat : n = Len(s)
  BY LenProperties
<1>2. n # 0
  BY <1>1, EmptySeq
<1>3. PICK f \in [0 .. n -> P] :
        /\ f[0] = p /\ f[n] = q
        /\ \A i \in 1 .. n : <<f[i - 1], s[i], f[i]>> \in E
  BY <1>1 DEF Walk
<1> DEFINE g == [i \in 0 .. n |-> IF i = n THEN z ELSE f[i]]
<1>4. /\ g \in [0 .. n -> P] /\ g[0] = p /\ g[n] = z
      /\ \A i \in 1 .. n : g[i - 1] = f[i - 1] /\ (g[i] = f[i] \/ g[i] = z)
  <2>1. 0 \in 0 .. n /\ n \in 0 .. n /\ \A i \in 1 .. n : i - 1 \in 0 .. n /\ i - 1 # n
    OBVIOUS
  <2>2. QED
    BY <1>2, <1>3, <2>1
<1> HIDE DEF g
<1>5. \A i \in 1 .. n : <<g[i - 1], s[i], g[i]>> \in E
  BY <1>3, <1>4
<1>6. QED
  BY <1>1, <1>4, <1>5 DEF Walk

-----------------------------------------------------------------------------
(***************************************************************************)
(* The Client of the session and that of the proofs are one: two instances *)
(* of RouterClient with the same parameters.                               *)
(***************************************************************************)
LEMMA RouterAssumptions ==
  /\ RP!ValuesAssumption /\ RP!TimeoutAssumption /\ RP!CooloffAssumption
  /\ RP!Bytes = Bytes
BY SessionAssumption DEF RP!ValuesAssumption, RP!TimeoutAssumption, RP!CooloffAssumption,
   RP!Bytes, Bytes

LEMMA SameConstants ==
  /\ R!COMMAND_RESET = RP!COMMAND_RESET
  /\ R!END_OF_RESET = RP!END_OF_RESET
  /\ R!COMMAND_PING = RP!COMMAND_PING
  /\ R!COMMAND_ADD_ACTION = RP!COMMAND_ADD_ACTION
  /\ R!COMMAND_ADD_EVENT = RP!COMMAND_ADD_EVENT
  /\ R!COMMAND_ADD_PROPERTY = RP!COMMAND_ADD_PROPERTY
  /\ R!COMMAND_REMOVE_ACTION = RP!COMMAND_REMOVE_ACTION
  /\ R!COMMAND_REMOVE_EVENT = RP!COMMAND_REMOVE_EVENT
  /\ R!COMMAND_REMOVE_PROPERTY = RP!COMMAND_REMOVE_PROPERTY
  /\ R!COMMAND_RAISE_EVENT = RP!COMMAND_RAISE_EVENT
  /\ R!COMMAND_CALL_ACTION = RP!COMMAND_CALL_ACTION
  /\ R!COMMAND_RETURN = RP!COMMAND_RETURN
  /\ R!NoCommand = RP!NoCommand
  /\ R!NoTimer = RP!NoTimer
  /\ R!SLASH = RP!SLASH
  /\ R!AddCommands = RP!AddCommands
  /\ R!RemoveCommands = RP!RemoveCommands
  /\ R!ArgumentCommands = RP!ArgumentCommands
  /\ R!TypeOfCode = RP!TypeOfCode
  /\ R!Idle = RP!Idle
  /\ R!Silent = RP!Silent
BY DEF R!COMMAND_RESET, RP!COMMAND_RESET, R!END_OF_RESET, RP!END_OF_RESET,
    R!COMMAND_PING, RP!COMMAND_PING, R!COMMAND_ADD_ACTION, RP!COMMAND_ADD_ACTION,
    R!COMMAND_ADD_EVENT, RP!COMMAND_ADD_EVENT, R!COMMAND_ADD_PROPERTY,
    RP!COMMAND_ADD_PROPERTY, R!COMMAND_REMOVE_ACTION, RP!COMMAND_REMOVE_ACTION,
    R!COMMAND_REMOVE_EVENT, RP!COMMAND_REMOVE_EVENT, R!COMMAND_REMOVE_PROPERTY,
    RP!COMMAND_REMOVE_PROPERTY, R!COMMAND_RAISE_EVENT, RP!COMMAND_RAISE_EVENT,
    R!COMMAND_CALL_ACTION, RP!COMMAND_CALL_ACTION, R!COMMAND_RETURN, RP!COMMAND_RETURN,
    R!NoCommand, RP!NoCommand, R!NoTimer, RP!NoTimer, R!SLASH, RP!SLASH, R!AddCommands,
    RP!AddCommands, R!RemoveCommands, RP!RemoveCommands, R!ArgumentCommands,
    RP!ArgumentCommands, R!TypeOfCode, RP!TypeOfCode, R!Idle, RP!Idle, R!Silent,
    RP!Silent

LEMMA SameData ==
  /\ \A c, ds : R!Reading(c, ds) = RP!Reading(c, ds)
  /\ \A bs : R!Wrote(bs) = RP!Wrote(bs)
  /\ \A e, v : R!Raised(e, v) = RP!Raised(e, v)
  /\ \A lo, hi : R!DecodeInteger(lo, hi) = RP!DecodeInteger(lo, hi)
  /\ \A v : R!EncodeInteger(v) = RP!EncodeInteger(v)
  /\ \A c : R!Signature(c) = RP!Signature(c)
  /\ R!Queued = RP!Queued
BY SameConstants DEF R!Reading, RP!Reading, R!Wrote, RP!Wrote, R!Raised, RP!Raised,
    R!DecodeInteger, RP!DecodeInteger, R!EncodeInteger, RP!EncodeInteger, R!Signature,
    RP!Signature, R!Queued, RP!Queued, R!Range, RP!Range, R!COMMAND_RESET,
    RP!COMMAND_RESET, R!COMMAND_ADD_ACTION, RP!COMMAND_ADD_ACTION, R!COMMAND_ADD_EVENT,
    RP!COMMAND_ADD_EVENT, R!COMMAND_ADD_PROPERTY, RP!COMMAND_ADD_PROPERTY,
    R!COMMAND_RAISE_EVENT, RP!COMMAND_RAISE_EVENT, R!COMMAND_RETURN, RP!COMMAND_RETURN

LEMMA SameField ==
  /\ R!Field = RP!Field
  /\ R!SubFsm = RP!SubFsm
  /\ R!RemovedKind = RP!RemovedKind
  /\ \A b : /\ R!EndsField(b) = RP!EndsField(b)
            /\ R!FieldValue(b) = RP!FieldValue(b)
            /\ R!Args(b) = RP!Args(b)
            /\ R!EndsArguments(b) <=> RP!EndsArguments(b)
            /\ R!BadField(b) <=> RP!BadField(b)
            /\ R!LastField(b) <=> RP!LastField(b)
<1>1. R!Field = RP!Field
  BY SameData DEF R!Field, RP!Field
<1>2. R!SubFsm = RP!SubFsm
  BY <1>1, SameConstants DEF R!SubFsm, RP!SubFsm
<1>3. R!RemovedKind = RP!RemovedKind
  BY SameConstants DEF R!RemovedKind, RP!RemovedKind
<1>4. ASSUME NEW b
      PROVE  /\ R!EndsField(b) = RP!EndsField(b)
             /\ R!FieldValue(b) = RP!FieldValue(b)
             /\ R!Args(b) = RP!Args(b)
             /\ R!EndsArguments(b) <=> RP!EndsArguments(b)
             /\ R!BadField(b) <=> RP!BadField(b)
             /\ R!LastField(b) <=> RP!LastField(b)
  <2>1. R!EndsField(b) = RP!EndsField(b)
    BY <1>2 DEF R!EndsField, RP!EndsField
  <2>2. R!FieldValue(b) = RP!FieldValue(b)
    BY <1>2, SameData DEF R!FieldValue, RP!FieldValue
  <2>3. R!Args(b) = RP!Args(b)
    BY <2>2 DEF R!Args, RP!Args
  <2>4. R!EndsArguments(b) <=> RP!EndsArguments(b)
    BY <2>3, SameConstants, SameData DEF R!EndsArguments, RP!EndsArguments
  <2>5. R!BadField(b) <=> RP!BadField(b)
    BY <1>1, <1>2, SameConstants DEF R!BadField, RP!BadField, R!Known, RP!Known
  <2>6. QED
    BY <2>1, <2>2, <2>3, <2>4, <2>5 DEF R!LastField, RP!LastField
<1>5. QED
  BY <1>1, <1>2, <1>3, <1>4
LEMMA SameEffects ==
  /\ R!OnDisconnect <=> RP!OnDisconnect
  /\ R!DeviceReset <=> RP!DeviceReset
  /\ R!ResetInactivityTimer <=> RP!ResetInactivityTimer
  /\ R!LinkUnchanged <=> RP!LinkUnchanged
  /\ R!Quiet <=> RP!Quiet
  /\ R!OnMalformedCommand <=> RP!OnMalformedCommand
  /\ \A d, v : R!Answer(d, v) <=> RP!Answer(d, v)
<1>1. R!OnDisconnect <=> RP!OnDisconnect
  BY SameConstants, SameData DEF R!OnDisconnect, RP!OnDisconnect
<1>2. R!DeviceReset <=> RP!DeviceReset
  BY SameConstants, SameData DEF R!DeviceReset, RP!DeviceReset
<1>3. R!ResetInactivityTimer <=> RP!ResetInactivityTimer
  BY SameConstants DEF R!ResetInactivityTimer, RP!ResetInactivityTimer
<1>4. R!LinkUnchanged <=> RP!LinkUnchanged
  BY <1>3 DEF R!LinkUnchanged, RP!LinkUnchanged
<1>5. R!Quiet <=> RP!Quiet
  BY SameConstants DEF R!Quiet, RP!Quiet
<1>6. R!OnMalformedCommand <=> RP!OnMalformedCommand
  BY <1>1, <1>2, <1>4, SameConstants DEF R!OnMalformedCommand, RP!OnMalformedCommand
<1>7. \A d, v : R!Answer(d, v) <=> RP!Answer(d, v)
  BY DEF R!Answer, RP!Answer
<1>8. QED
  BY <1>1, <1>2, <1>3, <1>4, <1>5, <1>6, <1>7

LEMMA SameCommand ==
  ASSUME NEW b
  PROVE  /\ R!ProcessCommand(b) <=> RP!ProcessCommand(b)
         /\ R!ProcessReturn(b) <=> RP!ProcessReturn(b)
<1>1. R!CommandFromStranger(b) <=> RP!CommandFromStranger(b)
  BY SameConstants, SameEffects DEF R!CommandFromStranger, RP!CommandFromStranger
<1>2. R!ProcessReset(b) <=> RP!ProcessReset(b)
  BY SameConstants, SameData, SameEffects DEF R!ProcessReset, RP!ProcessReset
<1>3. \A d : R!ServeReturn(b, d) <=> RP!ServeReturn(b, d)
  BY SameConstants, SameData, SameEffects DEF R!ServeReturn, RP!ServeReturn
<1>4. R!ProcessReturn(b) <=> RP!ProcessReturn(b)
  BY <1>3, SameConstants, SameEffects DEF R!ProcessReturn, RP!ProcessReturn
<1>5. R!ProcessArguments(b) <=> RP!ProcessArguments(b)
  BY SameConstants, SameData, SameEffects DEF R!ProcessArguments, RP!ProcessArguments
<1>6. R!UnknownCommand(b) <=> RP!UnknownCommand(b)
  BY SameConstants, SameEffects DEF R!UnknownCommand, RP!UnknownCommand
<1>7. QED
  BY <1>1, <1>2, <1>4, <1>5, <1>6 DEF R!ProcessCommand, RP!ProcessCommand

LEMMA SameFinish ==
  ASSUME NEW b
  PROVE  R!FinishCommand(b) <=> RP!FinishCommand(b)
<1>1. R!Connect(b) <=> RP!Connect(b)
  BY SameConstants, SameField, SameEffects DEF R!Connect, RP!Connect
<1>2. R!FinishReturn(b) <=> RP!FinishReturn(b)
  BY SameConstants, SameField, SameEffects DEF R!FinishReturn, RP!FinishReturn
<1>3. R!FinishPing(b) <=> RP!FinishPing(b)
  BY SameConstants, SameField, SameEffects DEF R!FinishPing, RP!FinishPing
<1>4. R!FinishAdd(b) <=> RP!FinishAdd(b)
  <2>1. R!NewObject(R!Args(b)) = RP!NewObject(RP!Args(b))
    BY SameConstants, SameField DEF R!NewObject, RP!NewObject
  <2>2. R!PathFails(R!Args(b)[2]) <=> RP!PathFails(RP!Args(b)[2])
    BY SameConstants, SameField DEF R!PathFails, RP!PathFails
  <2>3. QED
    BY <2>1, <2>2, SameConstants, SameEffects DEF R!FinishAdd, RP!FinishAdd
<1>5. R!FinishRemove(b) <=> RP!FinishRemove(b)
  BY SameConstants, SameField, SameEffects
    DEF R!FinishRemove, RP!FinishRemove, R!Known, RP!Known
<1>6. R!FinishRaise(b) <=> RP!FinishRaise(b)
  BY SameConstants, SameData, SameField, SameEffects DEF R!FinishRaise, RP!FinishRaise
<1>7. QED
  BY <1>1, <1>2, <1>3, <1>4, <1>5, <1>6, SameField DEF R!FinishCommand, RP!FinishCommand

LEMMA SameBytes ==
  ASSUME NEW b
  PROVE  /\ R!DataReceived(b) <=> RP!DataReceived(b)
         /\ R!RejectField(b) <=> RP!RejectField(b)
<1>1. R!ReadPart(b) <=> RP!ReadPart(b)
  BY SameField, SameEffects DEF R!ReadPart, RP!ReadPart
<1>2. R!AbsorbReset(b) <=> RP!AbsorbReset(b)
  BY SameConstants, SameField, SameEffects DEF R!AbsorbReset, RP!AbsorbReset
<1>3. R!RejectField(b) <=> RP!RejectField(b)
  BY SameField, SameEffects DEF R!RejectField, RP!RejectField
<1>4. R!NextField(b) <=> RP!NextField(b)
  BY SameConstants, SameField, SameEffects DEF R!NextField, RP!NextField
<1>5. R!ProcessField(b) <=> RP!ProcessField(b)
  BY <1>1, <1>2, <1>3, <1>4, SameConstants, SameFinish DEF R!ProcessField, RP!ProcessField
<1>6. QED
  BY <1>3, <1>5, SameCommand DEF R!DataReceived, RP!DataReceived

LEMMA SameCallbacks ==
  /\ R!MakeConnection <=> RP!MakeConnection
  /\ R!ConnectionLost <=> RP!ConnectionLost
  /\ R!InactivityTimeout <=> RP!InactivityTimeout
  /\ R!Tick <=> RP!Tick
  /\ \A k : R!Callable(k) = RP!Callable(k)
  /\ \A o, r, v : R!OnAction(o, r, v) <=> RP!OnAction(o, r, v)
  /\ \A t : R!ValuesFor(t) = RP!ValuesFor(t)
  /\ R!Init <=> RP!Init
<1>1. R!MakeConnection <=> RP!MakeConnection
  BY SameEffects DEF R!MakeConnection, RP!MakeConnection
<1>2. R!ConnectionLost <=> RP!ConnectionLost
  BY SameConstants, SameEffects DEF R!ConnectionLost, RP!ConnectionLost
<1>3. R!InactivityTimeout <=> RP!InactivityTimeout
  BY SameConstants, SameEffects DEF R!InactivityTimeout, RP!InactivityTimeout
<1>4. R!Tick <=> RP!Tick
  BY SameConstants DEF R!Tick, RP!Tick
<1>5. \A k : R!Callable(k) = RP!Callable(k)
  BY DEF R!Callable, RP!Callable
<1>6. ASSUME NEW o, NEW r, NEW v
      PROVE  R!OnAction(o, r, v) <=> RP!OnAction(o, r, v)
  <2>1. R!Encode(o.arg, v) = RP!Encode(o.arg, v)
    BY SameData DEF R!Encode, RP!Encode
  <2>2. QED
    BY <2>1, SameConstants, SameData DEF R!OnAction, RP!OnAction, R!Ask, RP!Ask
<1>7. \A t : R!ValuesFor(t) = RP!ValuesFor(t)
  BY SameConstants DEF R!ValuesFor, RP!ValuesFor
<1>8. R!Init <=> RP!Init
  BY SameConstants DEF R!Init, RP!Init
<1>9. QED
  BY <1>1, <1>2, <1>3, <1>4, <1>5, <1>6, <1>7, <1>8

-----------------------------------------------------------------------------
(***************************************************************************)
(* The bytes on their way.                                                 *)
(***************************************************************************)

(* A byte of the device's stream, after which the device may have been     *)
(* switched off, and begins with the zeros again.                          *)
Places == RP!Places

Sent == {t \in Places \X Bytes \X Places :
            \/ RP!Sends(t[1], t[2], t[3])
            \/ t[3] = RP!Zeros(0) /\ \E r \in Places : RP!Sends(t[1], t[2], r)}

(* A write of the device.                                                  *)
Writes == {t \in Places \X Seq(Bytes) \X Places : Walk(Places, Sent, t[1], t[2], t[3])}

(* The calls of the router, each with an argument or without, and zeros,   *)
(* with which it asks for a reset.                                         *)
Between == <<"between", 0>>
IdLow   == <<"id low", 0>>
IdHigh  == <<"id high", 0>>
ArgLow  == <<"argument low", 0>>
Stages  == {Between, IdLow, IdHigh, ArgLow} \cup ({"argument high"} \X Bytes)

Calls(r, b, s) ==
    \/ r = Between /\ b = COMMAND_RESET /\ s = Between
    \/ r = Between /\ b = COMMAND_CALL_ACTION /\ s = IdLow
    \/ r = IdLow /\ b = 0 /\ s = IdHigh
    \/ r = IdHigh /\ b = 0 /\ s \in {ArgLow, Between}
    \/ r = ArgLow /\ s = <<"argument high", b>>
    \/ /\ r[1] = "argument high" /\ s = Between
       /\ ~RP!LooksLikeReset(r[2], b)

Called == {t \in Stages \X Bytes \X Stages : Calls(t[1], t[2], t[3])}

-----------------------------------------------------------------------------
(***************************************************************************)
(* The inductive invariant.                                                *)
(***************************************************************************)
Live == tcp => transport = "open"

MustReset == D!STATUS_RESETTING \subseteq status

(* It has not begun the reset it must do.                                  *)
Begins == MustReset /\ pc \in {"sketch", "loop", "flush"}

(* Where in its stream the device is.                                      *)
DeviceAt(q) ==
    IF pc = "write"
    THEN /\ todo \in Seq(Seq(Bytes))
         /\ Walk(Places, Writes, q, todo, RP!Start("command"))
    ELSE q = IF Begins THEN RP!Zeros(0) ELSE RP!Start("command")

UpAgrees ==
    /\ up \in Seq(Bytes)
    /\ \E p, q \in Places : /\ RP!RouterAt(p)
                            /\ Walk(Places, Sent, p, up, q)
                            /\ DeviceAt(q)

(* What the device has read of a call.  After a call without an argument   *)
(* it goes on to read the bytes of the next.                               *)
HasRead(bs) == request = [cmd |-> COMMAND_CALL_ACTION, bytes |-> bs]

ReadingAt(r) ==
    \/ HasRead(<<>>) /\ r = IdLow
    \/ HasRead(<<0>>) /\ r = IdHigh
    \/ HasRead(<<0, 0>>) /\ r \in {ArgLow, Between}
    \/ \E x \in Bytes : /\ HasRead(<<0, 0, x>>)
                       /\ \/ r = <<"argument high", x>>
                          \/ x = COMMAND_RESET /\ r = Between
                          \/ x = COMMAND_CALL_ACTION /\ r = IdLow

(* Before a reset it discards what there is.                               *)
Discards == MustReset /\ ~(pc = "write" /\ task = "reset")

Reads(r) ==
    IF pc = "read" THEN ReadingAt(r)
    ELSE Discards \/ r \in {Between, IdLow, IdHigh}

DownAgrees ==
    /\ rx \in Seq(Bytes)
    /\ \E r \in Stages : Walk(Stages, Called, r, rx, Between) /\ Reads(r)

DeviceOK ==
    /\ actions \in [{0} -> {D!FREE, "ii"}]
    /\ pc # "sketch" => actions[0] = "ii"
    /\ pc = "flush" => MustReset
    /\ pc = "write" => task \in {"reset", "ping", "reply"}
    /\ device_id \in ConnectionIds \cup {<<0, 0>>}

SInv ==
    /\ RP!IInv /\ RP!Unstarted /\ leaked = {}
    /\ DeviceOK
    /\ Live => RP!Tame /\ UpAgrees /\ DownAgrees

(* No int of the device or of SHET has the bytes of a reset and its end,   *)
(* the device is not on the two-wire link, where reads and writes fail,    *)
(* and a reset has the zeros a Client needs.                               *)
NoResetInside ==
    /\ <<COMMAND_RESET, END_OF_RESET>> \notin ConnectionIds
    /\ \A v \in Values : EncodeInteger(v) # <<COMMAND_RESET, END_OF_RESET>>
    /\ ~DIRECT_CONN
    /\ RESET_LENGTH >= 10

-----------------------------------------------------------------------------
(***************************************************************************)
(* Steps along the walks.                                                  *)
(***************************************************************************)
LEMMA StageNames ==
  /\ Between[1] = "between" /\ IdLow[1] = "id low" /\ IdHigh[1] = "id high"
  /\ ArgLow[1] = "argument low"
BY DEF Between, IdLow, IdHigh, ArgLow

LEMMA SentEdge ==
  ASSUME NEW p \in Places, NEW b \in Bytes, NEW q \in Places, RP!Sends(p, b, q)
  PROVE  <<p, b, q>> \in Sent
BY DEF Sent

LEMMA SentCut ==
  ASSUME NEW p, NEW b, NEW q, <<p, b, q>> \in Sent, RP!Zeros(0) \in Places
  PROVE  <<p, b, RP!Zeros(0)>> \in Sent
<1>1. <<p, b, q>> \in Places \X Bytes \X Places
  BY DEF Sent
<1>2. p \in Places /\ b \in Bytes /\ q \in Places
  BY <1>1
<1>3. RP!Sends(p, b, q) \/ (q = RP!Zeros(0) /\ \E r \in Places : RP!Sends(p, b, r))
  BY DEF Sent
<1>4. \E r \in Places : RP!Sends(p, b, r)
  BY <1>2, <1>3
<1>5. QED
  BY <1>2, <1>4 DEF Sent

LEMMA SentFacts ==
  ASSUME NEW p, NEW b, NEW q, <<p, b, q>> \in Sent
  PROVE  /\ b \in Bytes
         /\ \/ RP!Sends(p, b, q)
            \/ q = RP!Zeros(0) /\ \E r \in Places : RP!Sends(p, b, r)
<1>1. <<p, b, q>> \in Places \X Bytes \X Places
  BY DEF Sent
<1>2. QED
  BY <1>1 DEF Sent

LEMMA PlaceFacts ==
  /\ \A k \in 0 .. RESET_LENGTH : RP!Zeros(k) \in Places
  /\ \A s \in RP!Starts : RP!Start(s) \in Places
  /\ \A s \in RP!Middles, b \in Bytes : <<s, b>> \in Places
BY RouterAssumptions DEF Places, RP!Places, RP!Zeros, RP!Start

LEMMA NoZerosPlace == RP!Zeros(0) \in Places
<1>1. 0 \in 0 .. RESET_LENGTH
  BY SessionAssumption
<1>2. QED
  BY <1>1, PlaceFacts

LEMMA OneWrite ==
  ASSUME NEW p \in Places, NEW w \in Seq(Bytes), NEW q \in Places,
         Walk(Places, Sent, p, w, q)
  PROVE  Walk(Places, Writes, p, <<w>>, q)
<1>1. <<p, w, q>> \in Writes
  BY DEF Writes
<1>2. QED
  BY <1>1, WalkStep

(* A write of one byte, and one of two.                                    *)
LEMMA ByteWrite ==
  ASSUME NEW p \in Places, NEW b \in Bytes, NEW q \in Places, RP!Sends(p, b, q)
  PROVE  Walk(Places, Writes, p, <<<<b>>>>, q)
<1>1. Walk(Places, Sent, p, <<b>>, q)
  BY SentEdge, WalkStep
<1>2. <<b>> \in Seq(Bytes)
  OBVIOUS
<1>3. QED
  BY <1>1, <1>2, OneWrite

LEMMA JoinOnes ==
  ASSUME NEW a, NEW b
  PROVE  <<a>> \o <<b>> = <<a, b>>
<1>1. <<a>> \in Seq({a, b}) /\ <<b>> \in Seq({a, b}) /\ <<a, b>> \in Seq({a, b})
  OBVIOUS
<1>2. <<a>> \o <<b>> \in Seq({a, b})
  BY <1>1
<1>3. Len(<<a>> \o <<b>>) = 2 /\ Len(<<a, b>>) = 2
  BY <1>1
<1>4. \A i \in 1 .. 2 : (<<a>> \o <<b>>)[i] = <<a, b>>[i]
  <2>1. (<<a>> \o <<b>>)[1] = a /\ (<<a>> \o <<b>>)[1 + 1] = b
    BY <1>1
  <2>2. QED
    BY <2>1
<1>5. QED
  BY <1>1, <1>2, <1>3, <1>4, SeqEqual

LEMMA AddToTwo ==
  ASSUME NEW a, NEW b, NEW c
  PROVE  <<a, b>> \o <<c>> = <<a, b, c>>
<1>1. <<a, b>> \in Seq({a, b, c}) /\ <<c>> \in Seq({a, b, c})
  OBVIOUS
<1>2. <<a, b, c>> \in Seq({a, b, c})
  OBVIOUS
<1>3. <<a, b>> \o <<c>> \in Seq({a, b, c})
  BY <1>1
<1>4. Len(<<a, b>> \o <<c>>) = 3 /\ Len(<<a, b, c>>) = 3
  BY <1>1
<1>5. \A i \in 1 .. 3 : (<<a, b>> \o <<c>>)[i] = <<a, b, c>>[i]
  <2>1. \A i \in 1 .. 2 : (<<a, b>> \o <<c>>)[i] = <<a, b>>[i]
    BY <1>1
  <2>2. (<<a, b>> \o <<c>>)[2 + 1] = c
    BY <1>1
  <2>3. QED
    BY <2>1, <2>2
<1>6. QED
  BY <1>2, <1>3, <1>4, <1>5, SeqEqual

LEMMA AddToThree ==
  ASSUME NEW a, NEW b, NEW c, NEW d
  PROVE  <<a, b, c>> \o <<d>> = <<a, b, c, d>>
<1>1. <<a, b, c>> \in Seq({a, b, c, d}) /\ <<d>> \in Seq({a, b, c, d})
  OBVIOUS
<1>2. <<a, b, c, d>> \in Seq({a, b, c, d})
  OBVIOUS
<1>3. <<a, b, c>> \o <<d>> \in Seq({a, b, c, d})
  BY <1>1
<1>4. Len(<<a, b, c>> \o <<d>>) = 4 /\ Len(<<a, b, c, d>>) = 4
  BY <1>1
<1>5. \A i \in 1 .. 4 : (<<a, b, c>> \o <<d>>)[i] = <<a, b, c, d>>[i]
  <2>1. \A i \in 1 .. 3 : (<<a, b, c>> \o <<d>>)[i] = <<a, b, c>>[i]
    BY <1>1
  <2>2. (<<a, b, c>> \o <<d>>)[3 + 1] = d
    BY <1>1
  <2>3. QED
    BY <2>1, <2>2
<1>6. QED
  BY <1>2, <1>3, <1>4, <1>5, SeqEqual

LEMMA AddToFour ==
  ASSUME NEW a, NEW b, NEW c, NEW d, NEW e
  PROVE  <<a, b, c, d>> \o <<e>> = <<a, b, c, d, e>>
<1>1. <<a, b, c, d>> \in Seq({a, b, c, d, e}) /\ <<e>> \in Seq({a, b, c, d, e})
  OBVIOUS
<1>2. <<a, b, c, d, e>> \in Seq({a, b, c, d, e})
  OBVIOUS
<1>3. <<a, b, c, d>> \o <<e>> \in Seq({a, b, c, d, e})
  BY <1>1
<1>4. Len(<<a, b, c, d>> \o <<e>>) = 5 /\ Len(<<a, b, c, d, e>>) = 5
  BY <1>1
<1>5. \A i \in 1 .. 5 : (<<a, b, c, d>> \o <<e>>)[i] = <<a, b, c, d, e>>[i]
  <2>1. \A i \in 1 .. 4 : (<<a, b, c, d>> \o <<e>>)[i] = <<a, b, c, d>>[i]
    BY <1>1
  <2>2. (<<a, b, c, d>> \o <<e>>)[4 + 1] = e
    BY <1>1
  <2>3. QED
    BY <2>1, <2>2
<1>6. QED
  BY <1>2, <1>3, <1>4, <1>5, SeqEqual

LEMMA TwoBytes ==
  ASSUME NEW S, NEW P, NEW E, NEW p \in P, NEW q \in P, NEW r \in P,
         NEW a \in S, NEW b \in S, <<p, a, q>> \in E, <<q, b, r>> \in E
  PROVE  Walk(P, E, p, <<a, b>>, r)
<1>1. Walk(P, E, p, <<a>>, q) /\ Walk(P, E, q, <<b>>, r)
  BY WalkStep
<1>2. <<a>> \in Seq(S) /\ <<b>> \in Seq(S)
  OBVIOUS
<1>3. Walk(P, E, p, <<a>> \o <<b>>, r)
  BY <1>1, <1>2, WalkJoin
<1>4. <<a>> \o <<b>> = <<a, b>>
  BY JoinOnes
<1>5. QED
  BY <1>3, <1>4

LEMMA IntWrite ==
  ASSUME NEW p \in Places, NEW i \in Bytes \X Bytes, NEW q \in Places, NEW r \in Places,
         RP!Sends(p, i[1], q), RP!Sends(q, i[2], r)
  PROVE  Walk(Places, Writes, p, <<i>>, r)
<1>1. PICK x \in Bytes, y \in Bytes : i = <<x, y>>
  OBVIOUS
<1>2. <<p, x, q>> \in Sent /\ <<q, y, r>> \in Sent
  BY <1>1, SentEdge
<1>3. Walk(Places, Sent, p, i, r)
  BY <1>1, <1>2, TwoBytes
<1>4. i \in Seq(Bytes)
  BY <1>1
<1>5. QED
  BY <1>3, <1>4, OneWrite

-----------------------------------------------------------------------------
(***************************************************************************)
(* The writes of a reset.                                                  *)
(***************************************************************************)
LEMMA FlattenNone ==
  ASSUME NEW seqs, Len(seqs) = 0
  PROVE  D!FlattenSeq(seqs) = seqs
BY DEF D!FlattenSeq

LEMMA FlattenOne ==
  ASSUME NEW seqs, Len(seqs) = 1
  PROVE  D!FlattenSeq(seqs) = seqs[1]
<1> DEFINE Body(n, f) == [i \in 1 .. n |-> IF i = 1 THEN seqs[i] ELSE f[i - 1] \o seqs[i]]
           F == CHOOSE f : f = Body(Len(seqs), f)
           g == [i \in 1 .. 1 |-> seqs[1]]
<1>1. g = Body(Len(seqs), g)
  <2>1. \A i \in 1 .. 1 : i = 1
    OBVIOUS
  <2>2. Body(1, g) = [i \in 1 .. 1 |-> seqs[1]]
    BY <2>1
  <2>3. QED
    BY <2>2
<1> HIDE DEF g
<1>2. F = Body(Len(seqs), F)
  BY <1>1
<1>3. F[1] = seqs[1]
  <2>1. F = [i \in 1 .. 1 |-> IF i = 1 THEN seqs[i] ELSE F[i - 1] \o seqs[i]]
    BY <1>2
  <2> HIDE DEF F
  <2>2. 1 \in 1 .. 1
    OBVIOUS
  <2>3. QED
    BY <2>1, <2>2
<1>4. D!FlattenSeq(seqs) = F[1]
  BY DEF D!FlattenSeq
<1>5. QED
  BY <1>3, <1>4

LEMMA ResetZeros ==
  LET zeros == [i \in 1 .. RESET_LENGTH |-> <<COMMAND_RESET>>]
  IN  /\ zeros \in Seq(Seq(Bytes))
      /\ Walk(Places, Writes, RP!Zeros(0), zeros, RP!Zeros(RESET_LENGTH))
<1> DEFINE zeros == [i \in 1 .. RESET_LENGTH |-> <<COMMAND_RESET>>]
           f == [k \in 0 .. RESET_LENGTH |-> RP!Zeros(k)]
<1>1. PICK l \in Nat : l = RESET_LENGTH
  BY SessionAssumption
<1>2. COMMAND_RESET \in Bytes /\ <<COMMAND_RESET>> \in Seq(Bytes)
  BY DEF COMMAND_RESET, Bytes
<1>3. zeros \in Seq(Seq(Bytes)) /\ Len(zeros) = l /\ \A i \in 1 .. l : zeros[i] = <<COMMAND_RESET>>
  BY <1>1, <1>2
<1>4. f \in [0 .. l -> Places] /\ \A k \in 0 .. l : f[k] = RP!Zeros(k)
  BY <1>1, PlaceFacts
<1>5. 0 \in 0 .. l /\ l \in 0 .. l
  BY <1>1
<1> HIDE DEF zeros, f
<1>6. ASSUME NEW i \in 1 .. l
      PROVE  <<f[i - 1], zeros[i], f[i]>> \in Writes
  <2>1. PICK k \in 0 .. l : k = i - 1
    BY <1>1
  <2>2. k # l /\ i = k + 1 /\ i \in 0 .. l
    BY <1>1, <2>1
  <2>3. RP!Sends(RP!Zeros(k), COMMAND_RESET, RP!Zeros(k + 1))
    BY <1>1, <2>2, SameConstants DEF RP!Sends, RP!COMMAND_RESET, COMMAND_RESET
  <2>4. RP!Zeros(k) \in Places /\ RP!Zeros(k + 1) \in Places
    BY <1>1, <2>2, PlaceFacts
  <2>5. <<RP!Zeros(k), COMMAND_RESET, RP!Zeros(k + 1)>> \in Sent
    BY <1>2, <2>3, <2>4, SentEdge
  <2>6. Walk(Places, Sent, RP!Zeros(k), <<COMMAND_RESET>>, RP!Zeros(k + 1))
    BY <2>4, <2>5, WalkStep
  <2>7. <<RP!Zeros(k), <<COMMAND_RESET>>, RP!Zeros(k + 1)>> \in Writes
    BY <1>2, <2>4, <2>6 DEF Writes
  <2>8. f[i - 1] = RP!Zeros(k) /\ f[i] = RP!Zeros(k + 1)
    BY <1>4, <2>1, <2>2
  <2>9. QED
    BY <1>3, <2>7, <2>8
<1>7. Walk(Places, Writes, RP!Zeros(0), zeros, RP!Zeros(RESET_LENGTH))
  BY <1>1, <1>3, <1>4, <1>5, <1>6 DEF Walk
<1>8. QED
  BY <1>3, <1>7 DEF zeros

LEMMA JoinWrites ==
  ASSUME NEW p, NEW q, NEW r, NEW s \in Seq(Seq(Bytes)), NEW w \in Seq(Bytes),
         Walk(Places, Writes, p, s, q), Walk(Places, Writes, q, <<w>>, r)
  PROVE  s \o <<w>> \in Seq(Seq(Bytes)) /\ Walk(Places, Writes, p, s \o <<w>>, r)
<1>1. <<w>> \in Seq(Seq(Bytes))
  OBVIOUS
<1>2. s \o <<w>> \in Seq(Seq(Bytes))
  BY <1>1
<1>3. QED
  BY <1>1, <1>2, WalkJoin

(* The end of the zeros, the id and the name of the device.                *)
LEMMA IdWrites ==
  ASSUME NoResetInside, NEW id \in ConnectionIds
  PROVE  LET ws == << <<END_OF_RESET>>, id, <<97, 0>> >>
         IN  /\ ws \in Seq(Seq(Bytes))
             /\ Walk(Places, Writes, RP!Zeros(RESET_LENGTH), ws, RP!Start("add"))
<1>1. PICK x \in Bytes, y \in Bytes : id = <<x, y>>
  BY SessionAssumption
<1>2. ~RP!LooksLikeReset(x, y)
  BY <1>1 DEF NoResetInside, RP!LooksLikeReset, COMMAND_RESET, END_OF_RESET,
    RP!COMMAND_RESET, RP!END_OF_RESET
<1>3. /\ RP!Zeros(RESET_LENGTH) \in Places /\ RP!Start("id") \in Places
      /\ RP!Start("name") \in Places /\ RP!Start("name2") \in Places
      /\ RP!Start("add") \in Places /\ <<"id2", x>> \in Places
  <2>1. RESET_LENGTH \in 0 .. RESET_LENGTH
    BY SessionAssumption
  <2>2. QED
    BY <2>1, PlaceFacts DEF RP!Starts, RP!Middles
<1>4. END_OF_RESET \in Bytes /\ 97 \in Bytes /\ 0 \in Bytes
  BY DEF END_OF_RESET, Bytes
<1>5. Walk(Places, Writes, RP!Zeros(RESET_LENGTH), <<<<END_OF_RESET>>>>, RP!Start("id"))
  <2>1. RP!Sends(RP!Zeros(RESET_LENGTH), END_OF_RESET, RP!Start("id"))
    BY DEF RP!Sends, RP!END_OF_RESET, END_OF_RESET
  <2>2. QED
    BY <1>3, <1>4, <2>1, ByteWrite
<1>6. Walk(Places, Writes, RP!Start("id"), <<id>>, RP!Start("name"))
  <2>1. RP!Sends(RP!Start("id"), x, <<"id2", x>>)
    BY DEF RP!Sends
  <2>2. RP!Sends(<<"id2", x>>, y, RP!Start("name"))
    BY <1>2 DEF RP!Sends
  <2>3. id \in Bytes \X Bytes /\ id[1] = x /\ id[2] = y
    BY <1>1
  <2>4. QED
    BY <1>3, <2>1, <2>2, <2>3, IntWrite
<1>7. Walk(Places, Writes, RP!Start("name"), <<<<97, 0>>>>, RP!Start("add"))
  <2>1. RP!Sends(RP!Start("name"), 97, RP!Start("name2"))
    BY DEF RP!Sends
  <2>2. RP!Sends(RP!Start("name2"), 0, RP!Start("add"))
    BY DEF RP!Sends
  <2>3. <<97, 0>> \in Bytes \X Bytes /\ <<97, 0>>[1] = 97 /\ <<97, 0>>[2] = 0
    BY <1>4
  <2>4. QED
    BY <1>3, <2>1, <2>2, <2>3, IntWrite
<1>8. <<END_OF_RESET>> \in Seq(Bytes) /\ id \in Seq(Bytes) /\ <<97, 0>> \in Seq(Bytes)
  BY <1>1, <1>4
<1>9. <<<<END_OF_RESET>>>> \in Seq(Seq(Bytes))
  BY <1>8
<1>10. <<<<END_OF_RESET>>>> \o <<id>> = <<<<END_OF_RESET>>, id>>
  BY JoinOnes
<1>11. /\ <<<<END_OF_RESET>>, id>> \in Seq(Seq(Bytes))
       /\ Walk(Places, Writes, RP!Zeros(RESET_LENGTH), <<<<END_OF_RESET>>, id>>, RP!Start("name"))
  <2> DEFINE a == <<<<END_OF_RESET>>>>
  <2>1. a \in Seq(Seq(Bytes)) /\ Walk(Places, Writes, RP!Zeros(RESET_LENGTH), a, RP!Start("id"))
    BY <1>5, <1>9
  <2>2. a \o <<id>> = <<<<END_OF_RESET>>, id>>
    BY <1>10
  <2> HIDE DEF a
  <2>3. /\ a \o <<id>> \in Seq(Seq(Bytes))
        /\ Walk(Places, Writes, RP!Zeros(RESET_LENGTH), a \o <<id>>, RP!Start("name"))
    BY <1>6, <1>8, <2>1, JoinWrites
  <2>4. QED
    BY <2>2, <2>3
<1>12. <<<<END_OF_RESET>>, id>> \o <<<<97, 0>>>> = << <<END_OF_RESET>>, id, <<97, 0>> >>
  BY AddToTwo
<1>13. QED
  <2> DEFINE a == <<<<END_OF_RESET>>, id>>
             n == <<97, 0>>
  <2>1. a \in Seq(Seq(Bytes)) /\ Walk(Places, Writes, RP!Zeros(RESET_LENGTH), a, RP!Start("name"))
    BY <1>11
  <2>2. n \in Seq(Bytes) /\ Walk(Places, Writes, RP!Start("name"), <<n>>, RP!Start("add"))
    BY <1>7, <1>8
  <2>3. a \o <<n>> = << <<END_OF_RESET>>, id, <<97, 0>> >>
    BY <1>12
  <2> HIDE DEF a, n
  <2>4. /\ a \o <<n>> \in Seq(Seq(Bytes))
        /\ Walk(Places, Writes, RP!Zeros(RESET_LENGTH), a \o <<n>>, RP!Start("add"))
    BY <2>1, <2>2, JoinWrites
  <2>5. QED
    BY <2>3, <2>4

(* The announcement of the action.                                         *)
LEMMA AddWrites ==
  LET ws == << <<COMMAND_ADD_ACTION>>, <<0, 0>>, <<97, 0>>, <<1>>, <<1>> >>
  IN  /\ ws \in Seq(Seq(Bytes))
      /\ Walk(Places, Writes, RP!Start("add"), ws, RP!Start("command"))
<1>1. /\ RP!Start("add") \in Places /\ RP!Start("slot") \in Places
      /\ RP!Start("slot2") \in Places /\ RP!Start("path") \in Places
      /\ RP!Start("path2") \in Places /\ RP!Start("returns") \in Places
      /\ RP!Start("takes") \in Places /\ RP!Start("command") \in Places
  BY PlaceFacts DEF RP!Starts
<1>2. 0 \in Bytes /\ 1 \in Bytes /\ 97 \in Bytes /\ COMMAND_ADD_ACTION \in Bytes
  BY DEF Bytes, COMMAND_ADD_ACTION
<1> DEFINE z == <<0, 0>>
           n == <<97, 0>>
           o == <<1>>
           c == <<COMMAND_ADD_ACTION>>
<1>3. z \in Seq(Bytes) /\ n \in Seq(Bytes) /\ o \in Seq(Bytes) /\ c \in Seq(Bytes)
  BY <1>2
<1>4. Walk(Places, Writes, RP!Start("add"), <<c>>, RP!Start("slot"))
  <2>1. RP!Sends(RP!Start("add"), COMMAND_ADD_ACTION, RP!Start("slot"))
    BY DEF RP!Sends, RP!COMMAND_ADD_ACTION, COMMAND_ADD_ACTION
  <2>2. QED
    BY <1>1, <1>2, <2>1, ByteWrite
<1>5. Walk(Places, Writes, RP!Start("slot"), <<z>>, RP!Start("path"))
  <2>1. RP!Sends(RP!Start("slot"), 0, RP!Start("slot2"))
    BY DEF RP!Sends
  <2>2. RP!Sends(RP!Start("slot2"), 0, RP!Start("path"))
    BY DEF RP!Sends
  <2>3. z \in Bytes \X Bytes /\ z[1] = 0 /\ z[2] = 0
    BY <1>2
  <2>4. QED
    BY <1>1, <2>1, <2>2, <2>3, IntWrite
<1>6. Walk(Places, Writes, RP!Start("path"), <<n>>, RP!Start("returns"))
  <2>1. RP!Sends(RP!Start("path"), 97, RP!Start("path2"))
    BY DEF RP!Sends
  <2>2. RP!Sends(RP!Start("path2"), 0, RP!Start("returns"))
    BY DEF RP!Sends
  <2>3. n \in Bytes \X Bytes /\ n[1] = 97 /\ n[2] = 0
    BY <1>2
  <2>4. QED
    BY <1>1, <2>1, <2>2, <2>3, IntWrite
<1>7. Walk(Places, Writes, RP!Start("returns"), <<o>>, RP!Start("takes"))
  <2>1. RP!Sends(RP!Start("returns"), 1, RP!Start("takes"))
    BY DEF RP!Sends
  <2>2. QED
    BY <1>1, <1>2, <2>1, ByteWrite
<1>8. Walk(Places, Writes, RP!Start("takes"), <<o>>, RP!Start("command"))
  <2>1. RP!Sends(RP!Start("takes"), 1, RP!Start("command"))
    BY DEF RP!Sends
  <2>2. QED
    BY <1>1, <1>2, <2>1, ByteWrite
<1> HIDE DEF z, n, o, c
<1> DEFINE w1 == <<c>>
           w2 == <<c, z>>
           w3 == <<c, z, n>>
           w4 == <<c, z, n, o>>
           w5 == <<c, z, n, o, o>>
<1>9. w1 \o <<z>> = w2 /\ w2 \o <<n>> = w3 /\ w3 \o <<o>> = w4 /\ w4 \o <<o>> = w5
  BY JoinOnes, AddToTwo, AddToThree, AddToFour
<1>10. w1 \in Seq(Seq(Bytes)) /\ Walk(Places, Writes, RP!Start("add"), w1, RP!Start("slot"))
  BY <1>3, <1>4
<1> HIDE DEF w1, w2, w3, w4, w5
<1>11. w2 \in Seq(Seq(Bytes)) /\ Walk(Places, Writes, RP!Start("add"), w2, RP!Start("path"))
  BY <1>3, <1>5, <1>9, <1>10, JoinWrites
<1>12. w3 \in Seq(Seq(Bytes)) /\ Walk(Places, Writes, RP!Start("add"), w3, RP!Start("returns"))
  BY <1>3, <1>6, <1>9, <1>11, JoinWrites
<1>13. w4 \in Seq(Seq(Bytes)) /\ Walk(Places, Writes, RP!Start("add"), w4, RP!Start("takes"))
  BY <1>3, <1>7, <1>9, <1>12, JoinWrites
<1>14. w5 \in Seq(Seq(Bytes)) /\ Walk(Places, Writes, RP!Start("add"), w5, RP!Start("command"))
  BY <1>3, <1>8, <1>9, <1>13, JoinWrites
<1>15. QED
  BY <1>14 DEF w5, c, z, n, o

(* All of InitialiseWithServer.                                            *)
LEMMA ResetWritten ==
  ASSUME NoResetInside, NEW id \in ConnectionIds, actions[0] = "ii"
  PROVE  /\ D!ResetWrites(id) \in Seq(Seq(Bytes))
         /\ Walk(Places, Writes, RP!Zeros(0), D!ResetWrites(id), RP!Start("command"))
<1> DEFINE zeros == [i \in 1 .. RESET_LENGTH |-> <<COMMAND_RESET>>]
           ids == << <<END_OF_RESET>>, id, <<97, 0>> >>
           add == << <<COMMAND_ADD_ACTION>>, <<0, 0>>, <<97, 0>>, <<1>>, <<1>> >>
<1>1. zeros \in Seq(Seq(Bytes)) /\ Walk(Places, Writes, RP!Zeros(0), zeros, RP!Zeros(RESET_LENGTH))
  BY ResetZeros
<1>2. ids \in Seq(Seq(Bytes)) /\ Walk(Places, Writes, RP!Zeros(RESET_LENGTH), ids, RP!Start("add"))
  BY IdWrites
<1>3. add \in Seq(Seq(Bytes)) /\ Walk(Places, Writes, RP!Start("add"), add, RP!Start("command"))
  BY AddWrites
<1>4. D!RegisterAction(0) = add
  <2>1. D!EncodeInteger(0) = <<0, 0>>
    <3>1. 0 % 256 = 0 /\ (0 \div 256) % 256 = 0
      OBVIOUS
    <3>2. QED
      BY <3>1 DEF D!EncodeInteger
  <2>2. QED
    BY <2>1 DEF D!RegisterAction, D!FREE, D!Address, D!TYPE_INT, D!COMMAND_ADD_ACTION,
       COMMAND_ADD_ACTION
<1> HIDE DEF add
<1>5. D!FlattenSeq([i \in 1 .. 1 |-> D!RegisterAction(i - 1)]) = add
  <2> DEFINE s == [i \in 1 .. 1 |-> D!RegisterAction(i - 1)]
  <2>1. Len(s) = 1 /\ s[1] = D!RegisterAction(1 - 1) /\ 1 - 1 = 0
    OBVIOUS
  <2> HIDE DEF s
  <2>2. D!FlattenSeq(s) = s[1]
    BY <2>1, FlattenOne
  <2>3. QED
    BY <1>4, <2>1, <2>2 DEF s
<1>7. /\ D!FlattenSeq([i \in 1 .. 0 |-> D!RegisterEvent(i - 1)]) = <<>>
      /\ D!FlattenSeq([i \in 1 .. 0 |-> D!RegisterProperty(i - 1)]) = <<>>
  <2>1. /\ [i \in 1 .. 0 |-> D!RegisterEvent(i - 1)] = <<>>
        /\ [i \in 1 .. 0 |-> D!RegisterProperty(i - 1)] = <<>>
        /\ Len(<<>>) = 0
    OBVIOUS
  <2>2. QED
    BY <2>1, FlattenNone
<1>8. D!ResetWrites(id) = ((zeros \o ids) \o add) \o <<>> \o <<>>
  BY <1>5, <1>7 DEF D!ResetWrites, D!COMMAND_RESET, COMMAND_RESET, D!END_OF_RESET,
     END_OF_RESET, D!Address
<1> HIDE DEF zeros, ids
<1>9. \A s \in Seq(Seq(Bytes)) : s \o <<>> = s
  OBVIOUS
<1>10. zeros \o ids \in Seq(Seq(Bytes)) /\ (zeros \o ids) \o add \in Seq(Seq(Bytes))
  BY <1>1, <1>2, <1>3
<1>11. D!ResetWrites(id) = (zeros \o ids) \o add
  BY <1>8, <1>9, <1>10
<1>12. Walk(Places, Writes, RP!Zeros(0), zeros \o ids, RP!Start("add"))
  BY <1>1, <1>2, WalkJoin
<1>13. Walk(Places, Writes, RP!Zeros(0), (zeros \o ids) \o add, RP!Start("command"))
  BY <1>3, <1>10, <1>12, WalkJoin
<1>14. QED
  BY <1>10, <1>11, <1>13

-----------------------------------------------------------------------------
(***************************************************************************)
(* The device's end of its stream.                                         *)
(***************************************************************************)
LEMMA ResetIsLong == NoResetInside => RP!LongReset
BY SessionAssumption DEF NoResetInside, RP!LongReset, RP!LENGTH_OF_RESET_COMMAND

LEMMA RouterStill ==
  ASSUME UNCHANGED router, NEW p, RP!RouterAt(p)
  PROVE  RP!RouterAt(p)'
<1>1. UNCHANGED <<transport, connected, state, registry, deferred_returns>>
  BY DEF router
<1>2. p[1] # "zeros" => RP!IntegersAwaited'
  BY <1>1 DEF RP!RouterAt, RP!IntegersAwaited
<1>3. QED
  BY <1>1, <1>2, RouterAssumptions, RP!StillAt

(* The device goes on, and writes, or writes nothing.                      *)
LEMMA UpGrows ==
  ASSUME UpAgrees, UNCHANGED router, device_out' \in Seq(Bytes), up' = up \o device_out',
         \A q \in Places : DeviceAt(q) =>
            \E z \in Places : Walk(Places, Sent, q, device_out', z) /\ DeviceAt(z)'
  PROVE  UpAgrees'
<1>1. PICK p \in Places, q \in Places : /\ RP!RouterAt(p)
                                        /\ Walk(Places, Sent, p, up, q)
                                        /\ DeviceAt(q)
  BY DEF UpAgrees
<1>2. PICK z \in Places : Walk(Places, Sent, q, device_out', z) /\ DeviceAt(z)'
  BY <1>1
<1>3. up \in Seq(Bytes) /\ up' \in Seq(Bytes)
  BY DEF UpAgrees
<1>4. RP!RouterAt(p)'
  BY <1>1, RouterStill
<1>5. Walk(Places, Sent, p, up \o device_out', z)
  BY <1>1, <1>2, <1>3, WalkJoin
<1>6. Walk(Places, Sent, p, up', z)
  BY <1>5
<1>7. QED
  BY <1>2, <1>3, <1>4, <1>6 DEF UpAgrees

(* It begins with the zeros, wherever it was.                              *)
LEMMA UpRestarts ==
  ASSUME NoResetInside, RP!IInv, RP!Unstarted, UpAgrees, UNCHANGED <<router, up>>,
         DeviceAt(RP!Zeros(0))'
  PROVE  UpAgrees'
<1>1. PICK p \in Places, q \in Places : /\ RP!RouterAt(p)
                                        /\ Walk(Places, Sent, p, up, q)
  BY DEF UpAgrees
<1>2. up \in Seq(Bytes)
  BY DEF UpAgrees
<1>3. CASE up = <<>>
  <2>1. RP!RouterAt(RP!Zeros(0))
    <3>1. transport # "none" \/ state = RP!Idle
      BY DEF RP!Unstarted
    <3>2. QED
      BY <3>1, RouterAssumptions, ResetIsLong, RP!AtZeros
  <2>2. RP!RouterAt(RP!Zeros(0))'
    BY <2>1, RouterStill
  <2>3. Walk(Places, Sent, RP!Zeros(0), <<>>, RP!Zeros(0))
    BY NoZerosPlace, WalkNowhere
  <2>4. QED
    BY <1>2, <1>3, <2>2, <2>3, NoZerosPlace DEF UpAgrees
<1>4. CASE up # <<>>
  <2>1. Walk(Places, Sent, p, up, RP!Zeros(0))
    <3>1. \A x, b, y : <<x, b, y>> \in Sent => <<x, b, RP!Zeros(0)>> \in Sent
      BY SentCut, NoZerosPlace
    <3>2. QED
      BY <1>1, <1>2, <1>4, <3>1, NoZerosPlace, WalkCut
  <2>2. RP!RouterAt(p)'
    BY <1>1, RouterStill
  <2>3. QED
    BY <1>2, <2>1, <2>2, NoZerosPlace DEF UpAgrees
<1>5. QED
  BY <1>3, <1>4

-----------------------------------------------------------------------------
(***************************************************************************)
(* What the device reads.                                                  *)
(***************************************************************************)
StartsAnswer(x, y) ==
    /\ pc' = "write" /\ task' = "reply"
    /\ todo' = << <<COMMAND_RETURN>>, <<x, y>> >>
    /\ device_out' = <<>>

(* The id is read and means the action; its argument is read.              *)
LEMMA IdIsZero ==
  ASSUME NEW bs, bs[1] = 0, bs[2] = 0
  PROVE  D!Id(bs) = 0
<1>1. D!DecodeInteger(0, 0) = 0
  BY DEF D!DecodeInteger
<1>2. D!Id(bs) = D!DecodeInteger(bs[1], bs[2])
  BY DEF D!Id
<1>3. D!DecodeInteger(bs[1], bs[2]) = D!DecodeInteger(0, 0)
  BY Zenon
<1>4. QED
  BY <1>1, <1>2, <1>3

LEMMA ReadOn ==
  ASSUME DeviceOK, pc = "read", NEW old, HasRead(old), NEW b, rx # <<>>, b = Head(rx),
         D!ReadByte, NEW bs, bs = Append(old, b),
         \/ Len(bs) = 1
         \/ Len(bs) = 2 /\ bs[1] = 0 /\ bs[2] = 0
         \/ Len(bs) = 3
  PROVE  HasRead(bs)' /\ pc' = "read" /\ device_out' = <<>> /\ UNCHANGED status
<1>1. request.cmd = COMMAND_CALL_ACTION /\ request.bytes = old
  BY DEF HasRead
<1>2. D!ReadMore(bs) \/ D!RejectRequest(bs) \/ D!ServeRequest(bs)
  BY <1>1 DEF D!ReadByte
<1>3. Len(bs) # 4
  OBVIOUS
<1>4. Len(bs) = 2 => D!InUse(bs) /\ D!TakesArgument(bs)
  <2>1. CASE Len(bs) = 2
    <3>0. bs[1] = 0 /\ bs[2] = 0
      BY <2>1
    <3>1. D!Id(bs) = 0
      BY <3>0, IdIsZero, Zenon
    <3>2. 0 \in D!ActionIds
      BY DEF D!ActionIds
    <3>3. D!COMMAND_CALL_ACTION = COMMAND_CALL_ACTION
      BY DEF D!COMMAND_CALL_ACTION, COMMAND_CALL_ACTION
    <3>4. actions[0] = "ii"
      BY DEF DeviceOK
    <3>5. QED
      BY <1>1, <3>1, <3>2, <3>3, <3>4 DEF D!InUse, D!TakesArgument, D!FREE
  <2>2. QED
    BY <2>1
<1>5. D!ReadMore(bs)
  BY <1>2, <1>3, <1>4 DEF D!RejectRequest, D!ServeRequest
<1>6. request' = [cmd |-> COMMAND_CALL_ACTION, bytes |-> bs]
  BY <1>5 DEF D!ReadMore, HasRead
<1>7. QED
  BY <1>5, <1>6 DEF D!ReadMore, D!Goto, HasRead

LEMMA ServesCall ==
  ASSUME DeviceOK, pc = "read", request.cmd = COMMAND_CALL_ACTION, NEW bs, bs[1] = 0, bs[2] = 0,
         D!Serve(bs), NEW x, NEW y, D!ReadInto(bs, 0, 0) = <<x, y>>
  PROVE  StartsAnswer(x, y)
<1>1. D!Id(bs) = 0
  BY IdIsZero
<1>2. D!COMMAND_CALL_ACTION = 10 /\ D!COMMAND_SET_PROPERTY = 11 /\ D!COMMAND_GET_PROPERTY = 12
      /\ COMMAND_CALL_ACTION = 10 /\ D!COMMAND_RETURN = COMMAND_RETURN
  BY DEF D!COMMAND_CALL_ACTION, COMMAND_CALL_ACTION, D!COMMAND_SET_PROPERTY,
     D!COMMAND_GET_PROPERTY, D!COMMAND_RETURN, COMMAND_RETURN
<1>3. D!CallAction(bs)
  BY <1>2 DEF D!Serve, D!SetProperty, D!GetProperty
<1>4. actions[0] = "ii"
  BY DEF DeviceOK
<1>5. D!Send("reply", << <<D!COMMAND_RETURN>> >> \o <<D!ReadInto(bs, 0, 0)>>)
  BY <1>1, <1>3, <1>4 DEF D!CallAction
<1>6. << <<COMMAND_RETURN>> >> \o <<D!ReadInto(bs, 0, 0)>> = << <<COMMAND_RETURN>>, <<x, y>> >>
  BY JoinOnes
<1>7. QED
  BY <1>2, <1>5, <1>6 DEF StartsAnswer, D!Send, D!Goto

(* What a byte of a call does to a device that is reading one: it goes on  *)
(* reading, or has all and answers, with an int that is no reset.          *)
LEMMA ReadByteStep ==
  ASSUME DeviceOK, pc = "read", NEW r, ReadingAt(r), rx # <<>>, NEW b \in Bytes,
         b = Head(rx), NEW s, Calls(r, b, s), D!ReadByte
  PROVE  /\ device_out' = <<>> /\ UNCHANGED status
         /\ \/ pc' = "read" /\ ReadingAt(s)'
            \/ /\ \E x, y \in Bytes : ~RP!LooksLikeReset(x, y) /\ StartsAnswer(x, y)
               /\ s \in {Between, IdLow, IdHigh}
<1>0. COMMAND_RESET = 0 /\ COMMAND_CALL_ACTION = 10
  BY DEF COMMAND_RESET, COMMAND_CALL_ACTION
<1>1. CASE HasRead(<<>>) /\ r = IdLow
  <2>1. b = 0 /\ s = IdHigh
    BY <1>1 DEF Calls, Between, IdLow, IdHigh, ArgLow
  <2>2. Append(<<>>, b) = <<0>> /\ Len(<<0>>) = 1
    BY <2>1, RouterAssumptions, RP!AppendToNone
  <2>3. HasRead(<<0>>)' /\ pc' = "read" /\ device_out' = <<>> /\ UNCHANGED status
    BY <1>1, <2>2, ReadOn
  <2>4. QED
    BY <2>1, <2>3 DEF ReadingAt, IdHigh
<1>2. CASE HasRead(<<0>>) /\ r = IdHigh
  <2>1. b = 0 /\ s \in {ArgLow, Between}
    BY <1>2 DEF Calls, Between, IdLow, IdHigh, ArgLow
  <2>2. Append(<<0>>, b) = <<0, 0>>
    BY <2>1, RouterAssumptions, RP!AppendToOne
  <2>3. Len(<<0, 0>>) = 2 /\ <<0, 0>>[1] = 0 /\ <<0, 0>>[2] = 0
    OBVIOUS
  <2>4. HasRead(<<0, 0>>)' /\ pc' = "read" /\ device_out' = <<>> /\ UNCHANGED status
    BY <1>2, <2>2, <2>3, ReadOn
  <2>5. QED
    BY <2>1, <2>4 DEF ReadingAt
<1>3. CASE HasRead(<<0, 0>>) /\ r \in {ArgLow, Between}
  <2>1. Append(<<0, 0>>, b) = <<0, 0, b>> /\ Len(<<0, 0, b>>) = 3
    BY RouterAssumptions, RP!AppendToTwo
  <2>2. HasRead(<<0, 0, b>>)' /\ pc' = "read" /\ device_out' = <<>> /\ UNCHANGED status
    BY <1>3, <2>1, ReadOn
  <2>3. \/ s = <<"argument high", b>>
        \/ b = COMMAND_RESET /\ s = Between
        \/ b = COMMAND_CALL_ACTION /\ s = IdLow
    <3>1. r[1] # "argument high" /\ r # IdLow /\ r # IdHigh
      BY <1>3, StageNames
    <3>2. QED
      BY <1>3, <3>1 DEF Calls
  <2>4. QED
    BY <2>2, <2>3 DEF ReadingAt
<1>4. CASE \E x \in Bytes : /\ HasRead(<<0, 0, x>>)
                            /\ \/ r = <<"argument high", x>>
                               \/ x = COMMAND_RESET /\ r = Between
                               \/ x = COMMAND_CALL_ACTION /\ r = IdLow
  <2>1. PICK x \in Bytes : /\ HasRead(<<0, 0, x>>)
                           /\ \/ r = <<"argument high", x>>
                              \/ x = COMMAND_RESET /\ r = Between
                              \/ x = COMMAND_CALL_ACTION /\ r = IdLow
    BY <1>4
  <2>2. ~RP!LooksLikeReset(x, b) /\ s \in {Between, IdLow, IdHigh}
    <3>1. CASE r = <<"argument high", x>>
      <4>1. r[1] = "argument high" /\ r[2] = x /\ r \notin {Between, IdLow, IdHigh, ArgLow}
        BY <3>1 DEF Between, IdLow, IdHigh, ArgLow
      <4>2. QED
        BY <4>1 DEF Calls
    <3>2. CASE x = COMMAND_RESET /\ r = Between
      <4>1. (b = 0 \/ b = 10) /\ s \in {Between, IdLow}
        BY <1>0, <3>2 DEF Calls, Between, IdLow, IdHigh, ArgLow
      <4>2. b # 255
        BY <4>1
      <4>3. QED
        BY <4>1, <4>2 DEF RP!LooksLikeReset, RP!END_OF_RESET
    <3>3. CASE x = COMMAND_CALL_ACTION /\ r = IdLow
      <4>1. s = IdHigh
        BY <3>3 DEF Calls, Between, IdLow, IdHigh, ArgLow
      <4>2. x # 0
        BY <1>0, <3>3
      <4>3. QED
        BY <4>1, <4>2 DEF RP!LooksLikeReset, RP!COMMAND_RESET
    <3>4. QED
      BY <2>1, <3>1, <3>2, <3>3
  <2>3. request.cmd = COMMAND_CALL_ACTION /\ request.bytes = <<0, 0, x>>
    BY <2>1 DEF HasRead
  <2>4. Append(<<0, 0, x>>, b) = <<0, 0, x, b>>
    BY RouterAssumptions, RP!AppendToThree
  <2> DEFINE bs == <<0, 0, x, b>>
  <2>5. Len(bs) = 4 /\ bs[1] = 0 /\ bs[2] = 0 /\ bs[3] = x /\ bs[4] = b
    OBVIOUS
  <2> HIDE DEF bs
  <2>6. D!ReadMore(bs) \/ D!RejectRequest(bs) \/ D!ServeRequest(bs)
    BY <2>3, <2>4 DEF D!ReadByte, bs
  <2>7. D!Serve(bs) /\ UNCHANGED status
    BY <2>5, <2>6 DEF D!ReadMore, D!RejectRequest, D!ServeRequest
  <2>8. D!ReadInto(bs, 0, 0) = <<x, b>>
    BY <2>5 DEF D!ReadInto
  <2>9. StartsAnswer(x, b)
    BY <2>3, <2>5, <2>7, <2>8, ServesCall
  <2>10. QED
    BY <2>2, <2>7, <2>9 DEF StartsAnswer
<1>5. QED
  BY <1>1, <1>2, <1>3, <1>4 DEF ReadingAt

(* A call without an argument, and nothing after it.                       *)
LEMMA ReadTimeoutStep ==
  ASSUME DeviceOK, pc = "read", ReadingAt(Between), D!ReadTimeout
  PROVE  /\ StartsAnswer(0, 0) /\ MustReset'
         /\ ~RP!LooksLikeReset(0, 0)
<1>1. PICK bs : /\ HasRead(bs) /\ Len(bs) >= 2 /\ bs[1] = 0 /\ bs[2] = 0
                /\ D!ReadInto(bs, 0, 0) = <<0, 0>>
  <2>1. Between # IdLow /\ Between # IdHigh /\ \A x : Between # <<"argument high", x>>
    BY DEF Between, IdLow, IdHigh
  <2>2. CASE HasRead(<<0, 0>>)
    <3> DEFINE bs == <<0, 0>>
    <3>1. Len(bs) = 2 /\ bs[1] = 0 /\ bs[2] = 0
      OBVIOUS
    <3> HIDE DEF bs
    <3>2. D!ReadInto(bs, 0, 0) = <<0, 0>>
      BY <3>1 DEF D!ReadInto
    <3>3. HasRead(bs)
      BY <2>2 DEF bs
    <3>4. QED
      BY <3>1, <3>2, <3>3
  <2>3. CASE HasRead(<<0, 0, 0>>)
    <3> DEFINE bs == <<0, 0, 0>>
    <3>1. Len(bs) = 3 /\ bs[1] = 0 /\ bs[2] = 0 /\ bs[3] = 0
      OBVIOUS
    <3> HIDE DEF bs
    <3>2. D!ReadInto(bs, 0, 0) = <<0, 0>>
      BY <3>1 DEF D!ReadInto
    <3>3. HasRead(bs)
      BY <2>3 DEF bs
    <3>4. QED
      BY <3>1, <3>2, <3>3
  <2>4. QED
    BY <2>1, <2>2, <2>3 DEF ReadingAt, COMMAND_RESET
<1>2. request.cmd = COMMAND_CALL_ACTION /\ request.bytes = bs
  BY <1>1 DEF HasRead
<1>3. D!Serve(bs) /\ D!ORState(D!STATUS_READ_FAIL)
  BY <1>1, <1>2 DEF D!ReadTimeout
<1>4. StartsAnswer(0, 0)
  BY <1>1, <1>2, <1>3, ServesCall
<1>5. MustReset'
  BY <1>3 DEF MustReset, D!ORState, D!STATUS_READ_FAIL, D!STATUS_IO_FAIL,
     D!STATUS_RESETTING
<1>6. ~RP!LooksLikeReset(0, 0)
  BY DEF RP!LooksLikeReset, RP!END_OF_RESET
<1>7. QED
  BY <1>4, <1>5, <1>6

-----------------------------------------------------------------------------
(***************************************************************************)
(* What the device writes.                                                 *)
(***************************************************************************)

(* A command with an int after it: an answer, or a ping.                   *)
LEMMA CommandWritten ==
  ASSUME NEW c \in Bytes, NEW q \in Places, NEW m, NEW x \in Bytes, NEW y \in Bytes,
         RP!Sends(RP!Start("command"), c, q), RP!Sends(q, x, <<m, x>>), m \in RP!Middles,
         RP!Sends(<<m, x>>, y, RP!Start("command"))
  PROVE  LET ws == << <<c>>, <<x, y>> >>
         IN  /\ ws \in Seq(Seq(Bytes))
             /\ Walk(Places, Writes, RP!Start("command"), ws, RP!Start("command"))
<1>1. RP!Start("command") \in Places /\ <<m, x>> \in Places
  BY PlaceFacts DEF RP!Starts
<1> DEFINE i == <<x, y>>
           w == <<<<c>>>>
<1>2. i \in Bytes \X Bytes /\ i[1] = x /\ i[2] = y /\ i \in Seq(Bytes)
  OBVIOUS
<1>3. w \in Seq(Seq(Bytes)) /\ Walk(Places, Writes, RP!Start("command"), w, q)
  BY <1>1, ByteWrite
<1>4. w \o <<i>> = << <<c>>, <<x, y>> >>
  BY JoinOnes
<1> HIDE DEF i, w
<1>5. Walk(Places, Writes, q, <<i>>, RP!Start("command"))
  BY <1>1, <1>2, IntWrite
<1>6. /\ w \o <<i>> \in Seq(Seq(Bytes))
      /\ Walk(Places, Writes, RP!Start("command"), w \o <<i>>, RP!Start("command"))
  BY <1>2, <1>3, <1>5, JoinWrites
<1>7. QED
  BY <1>4, <1>6

(* The commands that begin them, and the places after those.               *)
LEMMA AnswerPlaces ==
  /\ COMMAND_RETURN \in Bytes /\ COMMAND_PING \in Bytes
  /\ RP!Start("answer") \in Places /\ RP!Start("ping") \in Places
  /\ "answer2" \in RP!Middles /\ "ping2" \in RP!Middles
<1>1. COMMAND_RETURN \in Bytes /\ COMMAND_PING \in Bytes
  BY DEF COMMAND_RETURN, COMMAND_PING, Bytes
<1>2. RP!Start("answer") \in Places /\ RP!Start("ping") \in Places
  BY PlaceFacts DEF RP!Starts
<1>3. "answer2" \in RP!Middles /\ "ping2" \in RP!Middles
  BY DEF RP!Middles
<1> QED
  BY <1>1, <1>2, <1>3

LEMMA AnswerWritten ==
  ASSUME NEW x \in Bytes, NEW y \in Bytes, ~RP!LooksLikeReset(x, y)
  PROVE  LET ws == << <<COMMAND_RETURN>>, <<x, y>> >>
         IN  /\ ws \in Seq(Seq(Bytes))
             /\ Walk(Places, Writes, RP!Start("command"), ws, RP!Start("command"))
<1>1. COMMAND_RETURN \in Bytes /\ RP!Start("answer") \in Places /\ "answer2" \in RP!Middles
  BY AnswerPlaces
<1>2. RP!Sends(RP!Start("command"), COMMAND_RETURN, RP!Start("answer"))
  BY DEF RP!Sends, RP!COMMAND_RETURN, COMMAND_RETURN
<1>3. RP!Sends(RP!Start("answer"), x, <<"answer2", x>>)
  BY DEF RP!Sends
<1>4. RP!Sends(<<"answer2", x>>, y, RP!Start("command"))
  BY DEF RP!Sends
<1>5. QED
  BY <1>1, <1>2, <1>3, <1>4, CommandWritten

LEMMA PingWritten ==
  ASSUME NEW x \in Bytes, NEW y \in Bytes, ~RP!LooksLikeReset(x, y)
  PROVE  LET ws == << <<COMMAND_PING>>, <<x, y>> >>
         IN  /\ ws \in Seq(Seq(Bytes))
             /\ Walk(Places, Writes, RP!Start("command"), ws, RP!Start("command"))
<1>1. COMMAND_PING \in Bytes /\ RP!Start("ping") \in Places /\ "ping2" \in RP!Middles
  BY AnswerPlaces
<1>2. RP!Sends(RP!Start("command"), COMMAND_PING, RP!Start("ping"))
  BY DEF RP!Sends, RP!COMMAND_PING, COMMAND_PING
<1>3. RP!Sends(RP!Start("ping"), x, <<"ping2", x>>)
  BY DEF RP!Sends
<1>4. RP!Sends(<<"ping2", x>>, y, RP!Start("command"))
  BY DEF RP!Sends
<1>5. QED
  BY <1>1, <1>2, <1>3, <1>4, CommandWritten

(* The id of the device is no reset.                                       *)
LEMMA IdBytes ==
  ASSUME NoResetInside, DeviceOK
  PROVE  \E x, y \in Bytes : device_id = <<x, y>> /\ ~RP!LooksLikeReset(x, y)
<1>1. CASE device_id \in ConnectionIds
  <2>1. PICK x \in Bytes, y \in Bytes : device_id = <<x, y>>
    BY <1>1, SessionAssumption
  <2>2. QED
    BY <1>1, <2>1 DEF NoResetInside, RP!LooksLikeReset, COMMAND_RESET, END_OF_RESET,
      RP!COMMAND_RESET, RP!END_OF_RESET
<1>2. CASE device_id = <<0, 0>>
  <2>1. 0 \in Bytes /\ ~RP!LooksLikeReset(0, 0)
    BY DEF Bytes, RP!LooksLikeReset, RP!END_OF_RESET
  <2>2. QED
    BY <1>2, <2>1
<1>3. QED
  BY <1>1, <1>2 DEF DeviceOK

-----------------------------------------------------------------------------
(***************************************************************************)
(* The steps of the library, and the bytes on their way to the router.     *)
(***************************************************************************)
LEMMA UpQuiet ==
  ASSUME UpAgrees, UNCHANGED router, device_out' = <<>>, up' = up \o device_out',
         \A q \in Places : DeviceAt(q) => DeviceAt(q)'
  PROVE  UpAgrees'
<1>1. \A q \in Places : DeviceAt(q) => Walk(Places, Sent, q, device_out', q) /\ DeviceAt(q)'
  BY WalkNowhere
<1>2. device_out' \in Seq(Bytes)
  OBVIOUS
<1>3. QED
  BY <1>1, <1>2, UpGrows

(* It starts writing: what it writes leads back to the start of a command. *)
LEMMA UpStarts ==
  ASSUME UpAgrees, UNCHANGED router, device_out' = <<>>, up' = up \o device_out',
         pc # "write", NEW p, \A q : DeviceAt(q) => q = p, pc' = "write",
         todo' \in Seq(Seq(Bytes)), Walk(Places, Writes, p, todo', RP!Start("command"))
  PROVE  UpAgrees'
<1>1. ASSUME NEW q \in Places, DeviceAt(q)
      PROVE  DeviceAt(q)'
  <2>1. Walk(Places, Writes, q, todo', RP!Start("command"))
    BY <1>1
  <2>2. QED
    BY <2>1 DEF DeviceAt
<1>2. QED
  BY <1>1, UpQuiet

LEMMA UpWriteNext ==
  ASSUME UpAgrees, UNCHANGED router, up' = up \o device_out', D!WriteNext
  PROVE  UpAgrees'
<1>1. /\ pc = "write" /\ pc' = "write" /\ todo # <<>>
      /\ device_out' = Head(todo) /\ todo' = Tail(todo)
  BY DEF D!WriteNext, D!Writing
<1>2. ASSUME NEW q \in Places, DeviceAt(q)
      PROVE  /\ device_out' \in Seq(Bytes)
             /\ \E z \in Places : Walk(Places, Sent, q, device_out', z) /\ DeviceAt(z)'
  <2>1. todo \in Seq(Seq(Bytes)) /\ Walk(Places, Writes, q, todo, RP!Start("command"))
    BY <1>1, <1>2 DEF DeviceAt
  <2>2. PICK z \in Places : /\ <<q, Head(todo), z>> \in Writes
                            /\ Walk(Places, Writes, z, Tail(todo), RP!Start("command"))
    BY <1>1, <2>1, WalkOn
  <2>3. Head(todo) \in Seq(Bytes) /\ Tail(todo) \in Seq(Seq(Bytes))
    BY <1>1, <2>1
  <2>4. Walk(Places, Sent, q, Head(todo), z)
    BY <2>2 DEF Writes
  <2>5. Walk(Places, Writes, z, todo', RP!Start("command")) /\ todo' \in Seq(Seq(Bytes))
    BY <1>1, <2>2, <2>3
  <2>6. DeviceAt(z)'
    BY <1>1, <2>5 DEF DeviceAt
  <2>7. QED
    BY <1>1, <2>3, <2>4, <2>6
<1>3. device_out' \in Seq(Bytes)
  BY <1>2 DEF UpAgrees
<1>4. QED
  BY <1>2, <1>3, UpGrows

LEMMA UpElsewhere ==
  ASSUME UpAgrees, UNCHANGED router, device_out' = <<>>, up' = up \o device_out',
         pc # "write", pc' # "write", Begins' <=> Begins
  PROVE  UpAgrees'
<1>1. \A q \in Places : DeviceAt(q) => DeviceAt(q)'
  BY DEF DeviceAt
<1>2. QED
  BY <1>1, UpQuiet

(* It must reset, and nothing keeps it from that any more.                 *)
LEMMA UpBegins ==
  ASSUME NoResetInside, RP!IInv, RP!Unstarted, UpAgrees, UNCHANGED router,
         device_out' = <<>>, up' = up \o device_out', pc' # "write", Begins'
  PROVE  UpAgrees'
<1>1. up' = up
  BY DEF UpAgrees
<1>2. DeviceAt(RP!Zeros(0))'
  BY DEF DeviceAt
<1>3. QED
  BY <1>1, <1>2, UpRestarts

-----------------------------------------------------------------------------
(***************************************************************************)
(* The steps of the library, and the bytes on their way to the device.     *)
(***************************************************************************)
LEMMA CallsByte ==
  ASSUME NEW r \in {Between, IdLow, IdHigh}, NEW b, NEW s, Calls(r, b, s)
  PROVE  b = COMMAND_RESET \/ (b = COMMAND_CALL_ACTION /\ s = IdLow)
<1>1. r[1] # "argument high" /\ r # ArgLow
  BY StageNames
<1>2. QED
  BY <1>1 DEF Calls, COMMAND_RESET

LEMMA DownStill ==
  ASSUME DownAgrees, UNCHANGED rx, \A r \in Stages : Reads(r) => Reads(r)'
  PROVE  DownAgrees'
BY DEF DownAgrees

LEMMA DownEmpty ==
  ASSUME DownAgrees, rx = <<>>
  PROVE  Reads(Between)
<1>1. PICK r \in Stages : Walk(Stages, Called, r, rx, Between) /\ Reads(r)
  BY DEF DownAgrees
<1>2. r = Between
  BY <1>1, WalkEmpty
<1>3. QED
  BY <1>1, <1>2

LEMMA DownTakes ==
  ASSUME DownAgrees, rx # <<>>, rx' = Tail(rx),
         \A r, s \in Stages : Reads(r) /\ Calls(r, Head(rx), s) => Reads(s)'
  PROVE  DownAgrees'
<1>1. PICK r \in Stages : Walk(Stages, Called, r, rx, Between) /\ Reads(r)
  BY DEF DownAgrees
<1>2. rx \in Seq(Bytes) /\ rx' \in Seq(Bytes)
  BY DEF DownAgrees
<1>3. PICK s \in Stages : /\ <<r, Head(rx), s>> \in Called
                          /\ Walk(Stages, Called, s, Tail(rx), Between)
  BY <1>1, <1>2, WalkOn
<1>4. Calls(r, Head(rx), s)
  BY <1>3 DEF Called
<1>5. Reads(s)'
  BY <1>1, <1>4
<1>6. Walk(Stages, Called, s, rx', Between)
  BY <1>3
<1>7. QED
  BY <1>2, <1>5, <1>6 DEF DownAgrees

LEMMA DownElsewhere ==
  ASSUME DownAgrees, UNCHANGED rx, pc # "read", pc' # "read", Discards => Discards'
  PROVE  DownAgrees'
<1>1. \A r \in Stages : Reads(r) => Reads(r)'
  BY DEF Reads
<1>2. QED
  BY <1>1, DownStill

(* The next byte, and where it leads.                                      *)
LEMMA DownNext ==
  ASSUME DownAgrees, rx # <<>>
  PROVE  /\ Head(rx) \in Bytes
         /\ \E r, s \in Stages : /\ Reads(r) /\ Calls(r, Head(rx), s)
                                 /\ Walk(Stages, Called, s, Tail(rx), Between)
<1>1. PICK r \in Stages : Walk(Stages, Called, r, rx, Between) /\ Reads(r)
  BY DEF DownAgrees
<1>2. rx \in Seq(Bytes)
  BY DEF DownAgrees
<1>3. PICK s \in Stages : /\ <<r, Head(rx), s>> \in Called
                          /\ Walk(Stages, Called, s, Tail(rx), Between)
  BY <1>1, <1>2, WalkOn
<1>4. Calls(r, Head(rx), s) /\ Head(rx) \in Bytes
  BY <1>2, <1>3 DEF Called
<1>5. QED
  BY <1>1, <1>3, <1>4

-----------------------------------------------------------------------------
(***************************************************************************)
(* The steps of the library.                                               *)
(***************************************************************************)
Agree == /\ RP!IInv /\ RP!Unstarted
         /\ DeviceOK /\ UpAgrees /\ DownAgrees

(* The router does nothing meanwhile, and is there to be written to.       *)
Meanwhile == UNCHANGED router /\ up' = up \o device_out'

LEMMA StartResetAgrees ==
  ASSUME Agree, Meanwhile, D!StartReset
  PROVE  UpAgrees' /\ DownAgrees'
<1>1. /\ pc = "loop" /\ MustReset /\ pc' = "flush" /\ device_out' = <<>>
      /\ UNCHANGED <<status, rx>>
  BY DEF D!StartReset, D!Goto, MustReset
<1>2. MustReset'
  BY <1>1 DEF MustReset
<1>3. Begins /\ Begins' /\ Discards'
  BY <1>1, <1>2 DEF Begins, Discards
<1>4. QED
  BY <1>1, <1>3, UpElsewhere, DownElsewhere DEF Agree, Meanwhile

LEMMA NothingAvailableAgrees ==
  ASSUME Agree, Meanwhile, D!NothingAvailable
  PROVE  UpAgrees' /\ DownAgrees'
<1>1. /\ pc = "loop" /\ ~MustReset /\ pc' = "ping" /\ device_out' = <<>>
      /\ UNCHANGED <<status, rx>>
  BY DEF D!NothingAvailable, D!Goto, MustReset
<1>2. ~Begins /\ ~Begins' /\ ~Discards
  BY <1>1 DEF Begins, Discards
<1>3. QED
  BY <1>1, <1>2, UpElsewhere, DownElsewhere DEF Agree, Meanwhile

(* A command is a reset or a call.                                         *)
LEMMA HandleRequestsAgrees ==
  ASSUME NoResetInside, Agree, Meanwhile, D!HandleRequests
  PROVE  UpAgrees' /\ DownAgrees'
<1>1. /\ pc = "loop" /\ ~MustReset /\ rx # <<>> /\ rx' = Tail(rx)
      /\ D!OnRcvReset \/ D!OnRcvPing \/ D!OnRcvRequest(Head(rx)) \/ D!OnRcvUnknown(Head(rx))
  BY DEF D!HandleRequests, D!CommandTimeout, NoResetInside, D!OnRcvReset, D!OnRcvPing,
     D!OnRcvRequest, D!OnRcvUnknown, D!TakeCommand, MustReset
<1>2. ASSUME NEW r \in Stages, NEW s \in Stages, Reads(r), Calls(r, Head(rx), s)
      PROVE  Head(rx) = COMMAND_RESET \/ (Head(rx) = COMMAND_CALL_ACTION /\ s = IdLow)
  <2>1. r \in {Between, IdLow, IdHigh}
    BY <1>1, <1>2 DEF Reads, Discards
  <2>2. QED
    BY <1>2, <2>1, CallsByte
<1>3. Head(rx) = COMMAND_RESET \/ Head(rx) = COMMAND_CALL_ACTION
  BY <1>1, <1>2, DownNext DEF Agree
<1>4. /\ D!COMMAND_RESET = 0 /\ D!COMMAND_PING = 2 /\ D!COMMAND_CALL_ACTION = 10
      /\ COMMAND_RESET = 0 /\ COMMAND_CALL_ACTION = 10
  BY DEF D!COMMAND_RESET, D!COMMAND_PING, D!COMMAND_CALL_ACTION, COMMAND_RESET,
    COMMAND_CALL_ACTION
<1>5. ~Begins
  BY <1>1 DEF Begins
<1>6. CASE Head(rx) = COMMAND_RESET
  <2>1. D!OnRcvReset
    BY <1>1, <1>4, <1>6 DEF D!OnRcvPing, D!TakeCommand, D!OnRcvRequest, D!OnRcvUnknown,
       D!Requests, D!COMMAND_SET_PROPERTY, D!COMMAND_GET_PROPERTY
  <2>2. pc' = "ping" /\ device_out' = <<>> /\ MustReset'
    BY <2>1 DEF D!OnRcvReset, D!Goto, D!ORState, MustReset
  <2>3. ~Begins'
    BY <2>2 DEF Begins
  <2>4. \A r \in Stages : Reads(r)'
    BY <2>2 DEF Reads, Discards
  <2>5. QED
    BY <1>1, <1>5, <2>2, <2>3, <2>4, UpElsewhere, DownTakes DEF Agree, Meanwhile
<1>7. CASE Head(rx) = COMMAND_CALL_ACTION
  <2>1. D!OnRcvRequest(Head(rx))
    BY <1>1, <1>4, <1>7 DEF D!OnRcvReset, D!OnRcvPing, D!TakeCommand, D!OnRcvUnknown,
       D!Requests
  <2>2. pc' = "read" /\ device_out' = <<>> /\ HasRead(<<>>)'
    BY <1>7, <2>1 DEF D!OnRcvRequest, D!Goto, HasRead
  <2>3. ~Begins'
    BY <2>2 DEF Begins
  <2>4. ASSUME NEW r \in Stages, NEW s \in Stages, Reads(r), Calls(r, Head(rx), s)
        PROVE  Reads(s)'
    <3>1. s = IdLow
      BY <1>2, <1>4, <1>7, <2>4
    <3>2. QED
      BY <2>2, <3>1 DEF Reads, ReadingAt
  <2>5. QED
    BY <1>1, <1>5, <2>2, <2>3, <2>4, UpElsewhere, DownTakes DEF Agree, Meanwhile
<1>8. QED
  BY <1>3, <1>6, <1>7

LEMMA AnswerAgrees ==
  ASSUME UpAgrees, Meanwhile, pc # "write", ~Begins, NEW x \in Bytes, NEW y \in Bytes,
         ~RP!LooksLikeReset(x, y), StartsAnswer(x, y)
  PROVE  UpAgrees'
<1>1. /\ device_out' = <<>> /\ pc' = "write"
      /\ todo' = << <<COMMAND_RETURN>>, <<x, y>> >>
  BY DEF StartsAnswer
<1>2. /\ todo' \in Seq(Seq(Bytes))
      /\ Walk(Places, Writes, RP!Start("command"), todo', RP!Start("command"))
  BY <1>1, AnswerWritten
<1>3. \A q : DeviceAt(q) => q = RP!Start("command")
  BY DEF DeviceAt
<1>4. QED
  BY <1>1, <1>2, <1>3, UpStarts DEF Meanwhile

LEMMA ReadByteAgrees ==
  ASSUME NoResetInside, Agree, Meanwhile, D!ReadByte
  PROVE  UpAgrees' /\ DownAgrees'
<1>1. pc = "read" /\ rx # <<>> /\ rx' = Tail(rx) /\ ~Begins
  BY DEF D!ReadByte, D!Reading, Begins
<1>2. PICK r \in Stages, s \in Stages :
        /\ Reads(r) /\ Calls(r, Head(rx), s)
        /\ Walk(Stages, Called, s, Tail(rx), Between)
  BY <1>1, DownNext DEF Agree
<1>3. Head(rx) \in Bytes
  BY <1>1, DownNext DEF Agree
<1>4. /\ device_out' = <<>> /\ UNCHANGED status
      /\ \/ pc' = "read" /\ ReadingAt(s)'
         \/ /\ \E x, y \in Bytes : ~RP!LooksLikeReset(x, y) /\ StartsAnswer(x, y)
            /\ s \in {Between, IdLow, IdHigh}
  BY <1>1, <1>2, <1>3, ReadByteStep DEF Agree, Reads
<1>5. Reads(s)'
  BY <1>4 DEF Reads, StartsAnswer
<1>6. DownAgrees'
  <2>1. rx' \in Seq(Bytes)
    BY <1>1 DEF Agree, DownAgrees
  <2>2. Walk(Stages, Called, s, rx', Between)
    BY <1>1, <1>2
  <2>3. QED
    BY <1>5, <2>1, <2>2 DEF DownAgrees
<1>7. CASE pc' = "read"
  <2>1. ~Begins'
    BY <1>7 DEF Begins
  <2>2. QED
    BY <1>1, <1>4, <1>6, <1>7, <2>1, UpElsewhere DEF Agree, Meanwhile
<1>8. CASE pc' # "read"
  <2>1. PICK x \in Bytes, y \in Bytes : ~RP!LooksLikeReset(x, y) /\ StartsAnswer(x, y)
    BY <1>4, <1>8
  <2>2. QED
    BY <1>1, <1>6, <2>1, AnswerAgrees DEF Agree
<1>9. QED
  BY <1>7, <1>8

LEMMA ReadTimeoutAgrees ==
  ASSUME Agree, Meanwhile, D!ReadTimeout
  PROVE  UpAgrees' /\ DownAgrees'
<1>1. pc = "read" /\ rx = <<>> /\ rx' = rx /\ ~Begins
  BY DEF D!ReadTimeout, D!Reading, Begins
<1>2. Reads(Between)
  BY <1>1, DownEmpty DEF Agree
<1>3. /\ StartsAnswer(0, 0) /\ MustReset'
      /\ ~RP!LooksLikeReset(0, 0)
  BY <1>1, <1>2, ReadTimeoutStep DEF Agree, Reads
<1>4. 0 \in Bytes
  BY DEF Bytes
<1>5. UpAgrees'
  BY <1>1, <1>3, <1>4, AnswerAgrees DEF Agree
<1>6. \A r \in Stages : Reads(r)'
  BY <1>3 DEF Reads, Discards, StartsAnswer
<1>7. QED
  BY <1>1, <1>5, <1>6, DownStill DEF Agree

LEMMA FlushByteAgrees ==
  ASSUME Agree, Meanwhile, D!FlushByte
  PROVE  UpAgrees' /\ DownAgrees'
<1>1. /\ pc = "flush" /\ pc' = "flush" /\ device_out' = <<>> /\ UNCHANGED status
      /\ rx # <<>> /\ rx' = Tail(rx)
  BY DEF D!FlushByte, D!Goto
<1>2. MustReset /\ MustReset'
  BY <1>1 DEF Agree, DeviceOK, MustReset
<1>3. Begins /\ Begins' /\ Discards'
  BY <1>1, <1>2 DEF Begins, Discards
<1>4. \A r \in Stages : Reads(r)'
  BY <1>1, <1>3 DEF Reads
<1>5. QED
  BY <1>1, <1>3, <1>4, UpElsewhere, DownTakes DEF Agree, Meanwhile

LEMMA FlushDoneAgrees ==
  ASSUME NoResetInside, Agree, Meanwhile, D!FlushDone
  PROVE  UpAgrees' /\ DownAgrees'
<1>1. PICK id \in ConnectionIds : D!Send("reset", D!ResetWrites(id))
  BY DEF D!FlushDone
<1>2. /\ pc = "flush" /\ pc' = "write" /\ task' = "reset" /\ todo' = D!ResetWrites(id)
      /\ device_out' = <<>> /\ rx = <<>> /\ rx' = rx
  BY <1>1 DEF D!FlushDone, D!Send, D!Goto
<1>3. MustReset /\ actions[0] = "ii"
  BY <1>2 DEF Agree, DeviceOK
<1>4. /\ todo' \in Seq(Seq(Bytes))
      /\ Walk(Places, Writes, RP!Zeros(0), todo', RP!Start("command"))
  BY <1>2, <1>3, ResetWritten
<1>5. \A q : DeviceAt(q) => q = RP!Zeros(0)
  BY <1>2, <1>3 DEF DeviceAt, Begins
<1>6. UpAgrees'
  BY <1>2, <1>4, <1>5, UpStarts DEF Agree, Meanwhile
<1>7. Reads(Between)'
  BY <1>2 DEF Reads
<1>8. DownAgrees'
  <2>1. Between \in Stages
    BY DEF Stages
  <2>2. Walk(Stages, Called, Between, <<>>, Between)
    BY <2>1, WalkNowhere
  <2>3. rx' \in Seq(Bytes) /\ rx' = <<>>
    BY <1>2
  <2>4. Walk(Stages, Called, Between, rx', Between)
    BY <2>2, <2>3
  <2>5. QED
    BY <1>7, <2>1, <2>3, <2>4 DEF DownAgrees
<1>9. QED
  BY <1>6, <1>8

LEMMA WriteNextAgrees ==
  ASSUME Agree, Meanwhile, D!WriteNext
  PROVE  UpAgrees' /\ DownAgrees'
<1>1. pc = "write" /\ UNCHANGED <<pc, task, status, rx>>
  BY DEF D!WriteNext, D!Writing
<1>2. Discards => Discards'
  BY <1>1 DEF Discards, MustReset
<1>3. QED
  BY <1>1, <1>2, UpWriteNext, DownElsewhere DEF Agree, Meanwhile

(* All is written.  A device that must reset begins after a ping.          *)
LEMMA WriteDoneAgrees ==
  ASSUME NoResetInside, Agree, Meanwhile, D!WriteDone
  PROVE  UpAgrees' /\ DownAgrees'
<1>1. pc = "write" /\ todo = <<>> /\ device_out' = <<>> /\ UNCHANGED rx
  BY DEF D!WriteDone, D!Writing, D!Goto
<1>2. task \in {"reset", "ping", "reply"}
  BY <1>1 DEF Agree, DeviceOK
<1>3. /\ task = "reset" => pc' = "ping" /\ status' = {}
      /\ task = "reply" => pc' = "ping" /\ UNCHANGED status
      /\ task = "ping" => /\ pc' = IF MustReset THEN "loop" ELSE "sketch"
                          /\ UNCHANGED status
  BY DEF D!WriteDone, D!Goto, D!EndOfLoop, MustReset, D!SetState, D!STATUS_CONNECTED
<1>4. pc' # "write" /\ pc' # "read"
  BY <1>2, <1>3
<1>5. \A q \in Places : DeviceAt(q) => q = RP!Start("command")
  BY <1>1, WalkEmpty DEF DeviceAt
<1>6. task = "ping" /\ MustReset => Begins'
  BY <1>3 DEF Begins, MustReset
<1>7. ~(task = "ping" /\ MustReset) => ~Begins'
  BY <1>2, <1>3 DEF Begins, MustReset
<1>8. UpAgrees'
  <2>1. CASE Begins'
    BY <1>1, <1>4, <2>1, UpBegins DEF Agree, Meanwhile
  <2>2. CASE ~Begins'
    <3>1. \A q \in Places : DeviceAt(q) => DeviceAt(q)'
      BY <1>4, <1>5, <2>2 DEF DeviceAt
    <3>2. QED
      BY <1>1, <3>1, UpQuiet DEF Agree, Meanwhile
  <2>3. QED
    BY <2>1, <2>2
<1>9. Discards => Discards'
  BY <1>1, <1>2, <1>3, <1>4 DEF Discards, MustReset
<1>10. DownAgrees'
  BY <1>1, <1>4, <1>9, DownElsewhere DEF Agree
<1>11. QED
  BY <1>8, <1>10

LEMMA PingAgrees ==
  ASSUME NoResetInside, Agree, Meanwhile, D!Ping
  PROVE  UpAgrees' /\ DownAgrees'
<1>1. /\ pc = "ping" /\ pc' = "write" /\ task' = "ping" /\ device_out' = <<>>
      /\ todo' = << <<COMMAND_PING>>, device_id>> /\ UNCHANGED <<status, rx>>
  BY DEF D!Ping, D!Send, D!Goto, D!COMMAND_PING, COMMAND_PING
<1>2. PICK x \in Bytes, y \in Bytes : device_id = <<x, y>> /\ ~RP!LooksLikeReset(x, y)
  BY IdBytes DEF Agree
<1>3. todo' = << <<COMMAND_PING>>, <<x, y>> >>
  BY <1>1, <1>2
<1>4. /\ todo' \in Seq(Seq(Bytes))
      /\ Walk(Places, Writes, RP!Start("command"), todo', RP!Start("command"))
  BY <1>2, <1>3, PingWritten
<1>5. \A q : DeviceAt(q) => q = RP!Start("command")
  BY <1>1 DEF DeviceAt, Begins
<1>6. UpAgrees'
  BY <1>1, <1>4, <1>5, UpStarts DEF Agree, Meanwhile
<1>7. Discards => Discards'
  BY <1>1 DEF Discards, MustReset
<1>8. DownAgrees'
  BY <1>1, <1>7, DownElsewhere DEF Agree
<1>9. QED
  BY <1>6, <1>8

LEMMA NoPingAgrees ==
  ASSUME NoResetInside, Agree, Meanwhile, D!NoPing
  PROVE  UpAgrees' /\ DownAgrees'
<1>1. /\ pc = "ping" /\ pc' = (IF MustReset THEN "loop" ELSE "sketch")
      /\ device_out' = <<>> /\ UNCHANGED <<status, rx>>
  BY DEF D!NoPing, D!Goto, D!EndOfLoop, MustReset
<1>2. pc' # "write" /\ pc' # "read" /\ (MustReset' <=> MustReset)
  BY <1>1 DEF MustReset
<1>3. ~Begins /\ (Begins' <=> MustReset)
  BY <1>1, <1>2 DEF Begins
<1>4. UpAgrees'
  <2>1. CASE MustReset
    BY <1>1, <1>2, <1>3, <2>1, UpBegins DEF Agree, Meanwhile
  <2>2. CASE ~MustReset
    BY <1>1, <1>2, <1>3, <2>2, UpElsewhere DEF Agree, Meanwhile
  <2>3. QED
    BY <2>1, <2>2
<1>5. Discards => Discards'
  BY <1>1, <1>2 DEF Discards
<1>6. DownAgrees'
  BY <1>1, <1>2, <1>5, DownElsewhere DEF Agree
<1>7. QED
  BY <1>4, <1>6

LEMMA LibraryAgrees ==
  ASSUME NoResetInside, Agree, Meanwhile, D!Library
  PROVE  UpAgrees' /\ DownAgrees'
<1>1. ~D!WriteTimeout
  BY DEF D!WriteTimeout, NoResetInside
<1>2. QED
  BY <1>1, StartResetAgrees, NothingAvailableAgrees, HandleRequestsAgrees, ReadByteAgrees,
     ReadTimeoutAgrees, FlushByteAgrees, FlushDoneAgrees, WriteNextAgrees, WriteDoneAgrees,
     PingAgrees, NoPingAgrees DEF D!Library

(* The tables and the program, whoever is at the other end.                *)
LEMMA DeviceStays ==
  ASSUME DeviceOK, pc # "sketch", UNCHANGED <<actions, device_id>>,
         pc' = "flush" => MustReset', pc' = "write" => task' \in {"reset", "ping", "reply"}
  PROVE  DeviceOK'
BY DEF DeviceOK

LEMMA ReadOK ==
  ASSUME DeviceOK, D!ReadByte \/ D!ReadTimeout
  PROVE  DeviceOK'
<1>1. pc = "read" /\ UNCHANGED <<actions, device_id>>
  BY DEF D!ReadByte, D!ReadTimeout, D!Reading, D!InLibrary, D!tables
<1>2. \/ \E bs : D!ReadMore(bs) \/ D!RejectRequest(bs) \/ D!ServeRequest(bs)
      \/ D!Abandon(D!STATUS_READ_FAIL)
      \/ D!Serve(request.bytes)
  BY DEF D!ReadByte, D!ReadTimeout
<1>3. pc' \in {"read", "ping"} \/ (pc' = "write" /\ task' = "reply")
  BY <1>2 DEF D!ReadMore, D!RejectRequest, D!ServeRequest, D!Serve, D!Abandon, D!CallAction,
     D!SetProperty, D!GetProperty, D!Send, D!Goto
<1>4. QED
  BY <1>1, <1>3, DeviceStays

LEMMA LibraryOK ==
  ASSUME NoResetInside, DeviceOK, D!Library
  PROVE  DeviceOK'
<1>1. CASE D!StartReset \/ D!NothingAvailable
  <2>1. /\ pc = "loop" /\ UNCHANGED <<actions, device_id, status>>
        /\ (pc' = "flush" /\ MustReset) \/ pc' = "ping"
    BY <1>1 DEF D!StartReset, D!NothingAvailable, D!InLibrary, D!tables, D!Goto, MustReset
  <2>2. QED
    BY <2>1, DeviceStays DEF MustReset
<1>2. CASE D!HandleRequests
  <2>1. /\ pc = "loop" /\ UNCHANGED <<actions, device_id>>
        /\ pc' \in {"ping", "read"} \/ (pc' = "write" /\ task' = "reply")
    BY <1>2 DEF D!HandleRequests, D!CommandTimeout, D!OnRcvReset, D!OnRcvPing,
       D!OnRcvRequest, D!OnRcvUnknown, D!TakeCommand, D!InLibrary, D!tables, D!Send, D!Goto
  <2>2. QED
    BY <2>1, DeviceStays
<1>3. CASE D!ReadByte \/ D!ReadTimeout
  BY <1>3, ReadOK
<1>4. CASE D!FlushByte
  <2>1. pc = "flush" /\ pc' = "flush" /\ UNCHANGED <<actions, device_id, status>>
    BY <1>4 DEF D!FlushByte, D!InLibrary, D!tables, D!Goto
  <2>2. MustReset
    BY <2>1 DEF DeviceOK
  <2>3. QED
    BY <2>1, <2>2, DeviceStays DEF MustReset
<1>5. CASE D!FlushDone
  <2>1. /\ pc = "flush" /\ pc' = "write" /\ task' = "reset" /\ UNCHANGED actions
        /\ device_id' \in ConnectionIds
    BY <1>5 DEF D!FlushDone, D!tables, D!Send, D!Goto
  <2>2. QED
    BY <2>1 DEF DeviceOK
<1>6. CASE D!WriteNext
  <2>1. pc = "write" /\ UNCHANGED <<actions, device_id, pc, task>>
    BY <1>6 DEF D!WriteNext, D!Writing, D!InLibrary, D!tables
  <2>2. task' \in {"reset", "ping", "reply"}
    BY <2>1 DEF DeviceOK
  <2>3. QED
    BY <2>1, <2>2, DeviceStays
<1>7. CASE D!WriteTimeout
  BY <1>7 DEF D!WriteTimeout, NoResetInside
<1>8. CASE D!WriteDone
  <2>1. pc = "write" /\ UNCHANGED <<actions, device_id>>
    BY <1>8 DEF D!WriteDone, D!Writing, D!InLibrary, D!tables
  <2>2. task \in {"reset", "ping", "reply"}
    BY <2>1 DEF DeviceOK
  <2>3. pc' \in {"ping", "loop", "sketch"}
    BY <1>8, <2>2 DEF D!WriteDone, D!Goto, D!EndOfLoop
  <2>4. QED
    BY <2>1, <2>3, DeviceStays
<1>9. CASE D!Ping \/ D!NoPing
  <2>1. /\ pc = "ping" /\ UNCHANGED <<actions, device_id>>
        /\ pc' \in {"loop", "sketch"} \/ (pc' = "write" /\ task' = "ping")
    BY <1>9 DEF D!Ping, D!NoPing, D!InLibrary, D!tables, D!Send, D!Goto, D!EndOfLoop
  <2>2. QED
    BY <2>1, DeviceStays
<1>10. QED
  BY <1>1, <1>2, <1>3, <1>4, <1>5, <1>6, <1>7, <1>8, <1>9 DEF D!Library

-----------------------------------------------------------------------------
(***************************************************************************)
(* The steps of the device.                                                *)
(***************************************************************************)
LEMMA RouterUntouched ==
  ASSUME RP!IInv, RP!Unstarted, leaked = {}, UNCHANGED router, router_out' = R!Silent
  PROVE  /\ RP!IInv' /\ RP!Unstarted' /\ leaked' = {}
         /\ RP!Tame => RP!Tame'
<1>1. /\ UNCHANGED <<transport, connected, router_id, base_path, state, registry, leaked,
                     deferred_returns, call, inactivity_timer, since_reset>>
      /\ router_out' = RP!Silent
  BY SameConstants DEF router
<1>2. RP!IInv'
  BY <1>1, RouterAssumptions, RP!OthersInv
<1>3. RP!Unstarted'
  BY <1>1 DEF RP!Unstarted, RP!Idle, RP!NoCommand
<1>4. RP!Tame => RP!Tame'
  BY <1>1, RouterAssumptions, RP!StillTame
<1>5. QED
  BY <1>1, <1>2, <1>3, <1>4

(* A step of the device, by what it does if there is a router to hear it.  *)
WritesUp ==
    /\ up' = IF tcp /\ transport # "open" THEN <<>> ELSE up \o device_out'
    /\ router_out' = R!Silent
    /\ UNCHANGED <<router, tcp>>

LEMMA DeviceStepInv ==
  ASSUME SInv, WritesUp, DeviceOK',
         Agree /\ Meanwhile => UpAgrees' /\ DownAgrees'
  PROVE  SInv'
<1>1. UNCHANGED <<router, tcp, transport>> /\ router_out' = R!Silent
  BY DEF WritesUp, router
<1>2. Live' => Live
  BY <1>1 DEF Live
<1>3. Live => Meanwhile
  BY <1>1 DEF WritesUp, Live, Meanwhile
<1>4. /\ RP!IInv' /\ RP!Unstarted' /\ leaked' = {}
      /\ RP!Tame => RP!Tame'
  BY <1>1, RouterUntouched DEF SInv
<1>5. QED
  BY <1>2, <1>3, <1>4 DEF SInv, Agree

LEMMA DeviceRunsInv ==
  ASSUME NoResetInside, SInv, DeviceRuns
  PROVE  SInv'
<1>1. WritesUp /\ D!Library
  BY DEF DeviceRuns, DeviceStep, WritesUp
<1>2. DeviceOK'
  BY <1>1, LibraryOK DEF SInv
<1>3. Agree /\ Meanwhile => UpAgrees' /\ DownAgrees'
  BY <1>1, LibraryAgrees
<1>4. QED
  BY <1>1, <1>2, <1>3, DeviceStepInv

LEMMA SketchAgrees ==
  ASSUME Agree, Meanwhile, UNCHANGED <<status, rx>>, device_out' = <<>>,
         pc = "sketch", pc' \in {"sketch", "loop"}
  PROVE  UpAgrees' /\ DownAgrees'
<1>1. Begins' <=> Begins
  BY DEF Begins, MustReset
<1>2. Discards => Discards'
  BY DEF Discards, MustReset
<1>3. QED
  BY <1>1, <1>2, UpElsewhere, DownElsewhere DEF Agree, Meanwhile

LEMMA SetupInv ==
  ASSUME SInv, Setup
  PROVE  SInv'
<1>1. WritesUp /\ D!AddAction("ii")
  BY DEF Setup, DeviceStep, WritesUp
<1>2. /\ pc = "sketch" /\ pc' = "sketch" /\ device_out' = <<>>
      /\ UNCHANGED <<status, rx, device_id>>
  BY <1>1 DEF D!AddAction, D!InSketch, D!Goto
<1>3. actions' \in [{0} -> {D!FREE, "ii"}]
  BY <1>1 DEF D!AddAction, SInv, DeviceOK
<1>4. DeviceOK'
  BY <1>2, <1>3 DEF SInv, DeviceOK, D!FREE
<1>5. Agree /\ Meanwhile => UpAgrees' /\ DownAgrees'
  BY <1>2, SketchAgrees
<1>6. QED
  BY <1>1, <1>4, <1>5, DeviceStepInv

LEMMA DoSHETInv ==
  ASSUME SInv, DoSHET
  PROVE  SInv'
<1>1. WritesUp /\ D!DoSHET /\ actions[0] # D!FREE
  BY DEF DoSHET, DeviceStep, WritesUp
<1>2. /\ pc = "sketch" /\ pc' = "loop" /\ device_out' = <<>>
      /\ UNCHANGED <<status, rx, actions, device_id>>
  BY <1>1 DEF D!DoSHET, D!InSketch, D!Goto, D!tables
<1>3. actions[0] = "ii"
  BY <1>1 DEF SInv, DeviceOK
<1>4. DeviceOK'
  BY <1>2, <1>3 DEF SInv, DeviceOK, D!FREE
<1>5. Agree /\ Meanwhile => UpAgrees' /\ DownAgrees'
  BY <1>2, SketchAgrees
<1>6. QED
  BY <1>1, <1>4, <1>5, DeviceStepInv

LEMMA NothingOnItsWay ==
  ASSUME rx' = <<>>, pc' = "sketch", MustReset'
  PROVE  DownAgrees'
<1>1. Between \in Stages
  BY DEF Stages
<1>2. Walk(Stages, Called, Between, <<>>, Between)
  BY <1>1, WalkNowhere
<1>3. Reads(Between)'
  BY DEF Reads, Discards
<1>4. rx' \in Seq(Bytes)
  OBVIOUS
<1>5. Walk(Stages, Called, Between, rx', Between)
  BY <1>2
<1>6. QED
  BY <1>1, <1>3, <1>4, <1>5 DEF DownAgrees

(* A new stream, and a new Client at the far end of it.                    *)
LEMMA EnsureConnectedInv ==
  ASSUME NoResetInside, SInv, EnsureConnected
  PROVE  SInv'
<1>1. /\ transport' = "open" /\ connected' = TRUE /\ inactivity_timer' = INACTIVITY_TIMEOUT
      /\ router_id' = {} /\ base_path' = {} /\ state' = RP!Idle /\ registry' = {}
      /\ deferred_returns' = <<>> /\ since_reset' = RESET_COOLOFF_DELAY + 1
      /\ router_out' = RP!Silent /\ UNCHANGED <<leaked, call>>
  BY SameConstants DEF EnsureConnected
<1>2. RP!IInv' /\ RP!Tame' /\ RP!RouterAt(RP!Zeros(0))'
  BY <1>1, RouterAssumptions, ResetIsLong, RP!NewClient DEF SInv
<1>3. RP!Unstarted'
  BY <1>1 DEF RP!Unstarted
<1>4. /\ pc = "sketch" /\ pc' = "sketch" /\ status' = {1} /\ up' = <<>> /\ rx' = <<>>
      /\ UNCHANGED <<actions, device_id, task>>
  BY DEF EnsureConnected, D!STATUS_RESETTING
<1>5. DeviceOK'
  BY <1>4 DEF SInv, DeviceOK
<1>6. MustReset' /\ Begins'
  BY <1>4 DEF MustReset, Begins, D!STATUS_RESETTING
<1>7. UpAgrees'
  <2>1. DeviceAt(RP!Zeros(0))'
    BY <1>4, <1>6 DEF DeviceAt
  <2>2. Walk(Places, Sent, RP!Zeros(0), <<>>, RP!Zeros(0))
    BY NoZerosPlace, WalkNowhere
  <2>3. QED
    BY <1>2, <1>4, <2>1, <2>2, NoZerosPlace DEF UpAgrees
<1>8. DownAgrees'
  BY <1>4, <1>6, NothingOnItsWay
<1>9. QED
  BY <1>1, <1>2, <1>3, <1>5, <1>7, <1>8 DEF SInv

(* Switched off, and on: it begins with the zeros.                         *)
LEMMA DeviceRestartsInv ==
  ASSUME NoResetInside, SInv, DeviceRestarts
  PROVE  SInv'
<1>1. /\ router_out' = R!Silent /\ UNCHANGED <<router, tcp, transport, up>>
      /\ pc' = "sketch" /\ status' = {1} /\ rx' = <<>>
      /\ actions' = [a \in {0} |-> D!FREE] /\ device_id' = <<0, 0>>
  <2>1. D!ActionIds = {0}
    BY DEF D!ActionIds
  <2>2. QED
    BY <2>1 DEF DeviceRestarts, D!STATUS_RESETTING, router
<1>2. /\ RP!IInv' /\ RP!Unstarted' /\ leaked' = {}
      /\ RP!Tame => RP!Tame'
  BY <1>1, RouterUntouched DEF SInv
<1>3. DeviceOK'
  BY <1>1 DEF DeviceOK, D!FREE
<1>4. MustReset' /\ Begins'
  BY <1>1 DEF MustReset, Begins, D!STATUS_RESETTING
<1>5. DeviceAt(RP!Zeros(0))'
  BY <1>1, <1>4 DEF DeviceAt
<1>6. UpAgrees => UpAgrees'
  BY <1>1, <1>5, UpRestarts DEF SInv
<1>7. DownAgrees'
  BY <1>1, <1>4, NothingOnItsWay
<1>8. Live' => Live
  BY <1>1 DEF Live
<1>9. QED
  BY <1>2, <1>3, <1>6, <1>7, <1>8 DEF SInv

-----------------------------------------------------------------------------
(***************************************************************************)
(* The steps of the router.                                                *)
(***************************************************************************)
LEMMA DeviceUntouched ==
  ASSUME UNCHANGED device
  PROVE  /\ DeviceOK => DeviceOK'
         /\ \A q : DeviceAt(q) => DeviceAt(q)'
         /\ \A r : Reads(r) => Reads(r)'
<1>1. UNCHANGED <<status, actions, device_id, pc, task, request, todo>>
  BY DEF device
<1>2. (MustReset' <=> MustReset) /\ (Begins' <=> Begins) /\ (Discards' <=> Discards)
  BY <1>1 DEF MustReset, Begins, Discards
<1>3. DeviceOK => DeviceOK'
  BY <1>1, <1>2 DEF DeviceOK
<1>4. \A q : DeviceAt(q) => DeviceAt(q)'
  BY <1>1, <1>2 DEF DeviceAt
<1>5. \A r : Reads(r) => Reads(r)'
  BY <1>1, <1>2 DEF Reads, ReadingAt, HasRead
<1>6. QED
  BY <1>3, <1>4, <1>5

LEMMA UpStays ==
  ASSUME UpAgrees, UNCHANGED <<device, up>>, \A p : RP!RouterAt(p) => RP!RouterAt(p)'
  PROVE  UpAgrees'
<1>1. PICK p \in Places, q \in Places : /\ RP!RouterAt(p)
                                        /\ Walk(Places, Sent, p, up, q)
                                        /\ DeviceAt(q)
  BY DEF UpAgrees
<1>2. RP!RouterAt(p)' /\ DeviceAt(q)'
  BY <1>1, DeviceUntouched
<1>3. QED
  BY <1>1, <1>2 DEF UpAgrees

LEMMA DownGrows ==
  ASSUME DownAgrees, UNCHANGED device, NEW ws \in Seq(Bytes), rx' = rx \o ws,
         Walk(Stages, Called, Between, ws, Between)
  PROVE  DownAgrees'
<1>1. PICK r \in Stages : Walk(Stages, Called, r, rx, Between) /\ Reads(r)
  BY DEF DownAgrees
<1>2. rx \in Seq(Bytes) /\ rx' \in Seq(Bytes)
  BY DEF DownAgrees
<1>3. Walk(Stages, Called, r, rx \o ws, Between)
  BY <1>1, <1>2, WalkJoin
<1>4. Walk(Stages, Called, r, rx', Between)
  BY <1>3
<1>5. Reads(r)'
  BY <1>1, DeviceUntouched
<1>6. QED
  BY <1>2, <1>4, <1>5 DEF DownAgrees

(* It writes nothing, or asks for a reset.                                 *)
LEMMA DownAfterReset ==
  ASSUME DownAgrees, UNCHANGED device, rx' = rx \o router_out'.bytes,
         router_out'.bytes \in {<<>>, <<COMMAND_RESET>>}
  PROVE  DownAgrees'
<1>1. Between \in Stages /\ COMMAND_RESET \in Bytes
  BY DEF Stages, COMMAND_RESET, Bytes
<1>2. <<>> \in Seq(Bytes) /\ Walk(Stages, Called, Between, <<>>, Between)
  BY <1>1, WalkNowhere
<1>3. <<COMMAND_RESET>> \in Seq(Bytes) /\ Walk(Stages, Called, Between, <<COMMAND_RESET>>, Between)
  <2>1. <<Between, COMMAND_RESET, Between>> \in Called
    BY <1>1 DEF Called, Calls
  <2>2. QED
    BY <1>1, <2>1, WalkStep
<1>4. CASE router_out'.bytes = <<>>
  <2>1. rx' = rx \o <<>>
    BY <1>4
  <2>2. QED
    BY <1>2, <2>1, DownGrows
<1>5. CASE router_out'.bytes = <<COMMAND_RESET>>
  <2>1. rx' = rx \o <<COMMAND_RESET>>
    BY <1>5
  <2>2. QED
    BY <1>3, <2>1, DownGrows
<1>6. QED
  BY <1>4, <1>5

(* Who was there before is there after a step of the router, and a byte.   *)
RouterMoves ==
    /\ rx' = rx \o router_out'.bytes
    /\ UNCHANGED <<device, tcp>>

LEMMA RouterQuiet ==
  ASSUME SInv, RouterMoves, UNCHANGED up, router_out' = RP!Silent,
         RP!IInv', RP!Unstarted', leaked' = {}, Live' => Live,
         Live => RP!Tame' /\ \A p : RP!RouterAt(p) => RP!RouterAt(p)'
  PROVE  SInv'
<1>1. DeviceOK'
  BY DeviceUntouched DEF SInv, RouterMoves
<1>2. Live /\ UpAgrees => UpAgrees'
  BY UpStays DEF RouterMoves
<1>3. router_out'.bytes = <<>>
  BY DEF RP!Silent
<1>4. DownAgrees => DownAgrees'
  BY <1>3, DownAfterReset DEF RouterMoves
<1>5. QED
  BY <1>1, <1>2, <1>4 DEF SInv

LEMMA MakeConnectionStep ==
  ASSUME NoResetInside, SInv, MakeConnection
  PROVE  SInv'
<1>1. RP!MakeConnection /\ RouterMoves /\ UNCHANGED up /\ ~tcp
  BY SameCallbacks DEF MakeConnection, RouterStep, RouterMoves
<1>2. Live
  BY <1>1 DEF Live
<1>3. RP!IInv' /\ RP!Tame' /\ \A p : RP!RouterAt(p) => RP!RouterAt(p)'
  BY <1>1, <1>2, RouterAssumptions, ResetIsLong, RP!MakeConnectionInv, RP!MakeConnectionAt
    DEF SInv
<1>4. RP!Unstarted' /\ leaked' = {} /\ router_out' = RP!Silent
  BY <1>1 DEF RP!MakeConnection, RP!Quiet, RP!Unstarted, SInv
<1>5. QED
  BY <1>1, <1>2, <1>3, <1>4, RouterQuiet

LEMMA InactivityTimeoutStep ==
  ASSUME NoResetInside, SInv, InactivityTimeout
  PROVE  SInv'
<1>1. RP!InactivityTimeout /\ RouterMoves /\ UNCHANGED up
  BY SameCallbacks DEF InactivityTimeout, RouterStep, RouterMoves
<1>2. transport' = transport /\ leaked' = {} /\ router_out' = RP!Silent /\ state' = RP!Idle
  BY <1>1 DEF RP!InactivityTimeout, RP!OnDisconnect, RP!Quiet, SInv
<1>3. Live' => Live
  BY <1>1, <1>2 DEF Live, RouterMoves
<1>4. RP!IInv' /\ RP!Unstarted'
  BY <1>1, <1>2, RouterAssumptions, RP!InactivityTimeoutInv DEF SInv, RP!Unstarted, RP!Idle,
    RP!NoCommand
<1>5. Live => RP!Tame' /\ \A p : RP!RouterAt(p)'
  BY <1>1, RouterAssumptions, RP!InactivityTimeoutAt DEF SInv
<1>6. QED
  BY <1>1, <1>2, <1>3, <1>4, <1>5, RouterQuiet

LEMMA TickStep ==
  ASSUME NoResetInside, SInv, Tick
  PROVE  SInv'
<1>1. RP!Tick /\ RouterMoves /\ UNCHANGED up
  BY SameCallbacks DEF Tick, RouterStep, RouterMoves
<1>2. /\ UNCHANGED <<transport, state>> /\ leaked' = {} /\ router_out' = RP!Silent
  BY <1>1 DEF RP!Tick, SInv
<1>3. Live' => Live
  BY <1>1, <1>2 DEF Live, RouterMoves
<1>4. RP!IInv' /\ RP!Unstarted'
  BY <1>1, <1>2, RouterAssumptions, RP!TickInv DEF SInv, RP!Unstarted, RP!Idle,
    RP!NoCommand
<1>5. Live => RP!Tame' /\ \A p : RP!RouterAt(p) => RP!RouterAt(p)'
  BY <1>1, RouterAssumptions, RP!TickAt DEF SInv
<1>6. QED
  BY <1>1, <1>2, <1>3, <1>4, <1>5, RouterQuiet

(* Nothing is said of a stream that broke.                                 *)
LEMMA ConnectionBreaksStep ==
  ASSUME SInv, ConnectionBreaks
  PROVE  SInv'
<1>1. RP!ConnectionLost /\ tcp /\ UNCHANGED <<device, tcp>>
  BY SameCallbacks DEF ConnectionBreaks
<1>2. transport' = "lost" /\ leaked' = {}
  BY <1>1 DEF RP!ConnectionLost, RP!OnDisconnect, SInv
<1>3. ~Live'
  BY <1>1, <1>2 DEF Live
<1>4. RP!IInv' /\ RP!Unstarted'
  BY <1>1, <1>2, RouterAssumptions, RP!ConnectionLostInv DEF SInv, RP!Unstarted
<1>5. DeviceOK'
  BY <1>1, DeviceUntouched DEF SInv
<1>6. QED
  BY <1>2, <1>3, <1>4, <1>5 DEF SInv

(* The bytes of a call, which may be without an argument.                  *)
LEMMA CallWalk ==
  ASSUME NoResetInside, NEW v, NEW arg, arg # "Void" => v \in Values
  PROVE  LET ws == <<RP!COMMAND_CALL_ACTION>> \o <<0, 0>>
                      \o (IF arg = "Void" THEN <<>> ELSE RP!EncodeInteger(v))
         IN  ws \in Seq(Bytes) /\ Walk(Stages, Called, Between, ws, Between)
<1>1. /\ Between \in Stages /\ IdLow \in Stages /\ IdHigh \in Stages /\ ArgLow \in Stages
      /\ \A x \in Bytes : <<"argument high", x>> \in Stages
  BY DEF Stages
<1>2. 0 \in Bytes /\ RP!COMMAND_CALL_ACTION \in Bytes
  BY DEF Bytes, RP!COMMAND_CALL_ACTION
<1> DEFINE c == <<RP!COMMAND_CALL_ACTION>>
           z == <<0, 0>>
<1>3. c \in Seq(Bytes) /\ z \in Seq(Bytes) /\ c \o z \in Seq(Bytes)
  BY <1>2
<1>4. Walk(Stages, Called, Between, c, IdLow)
  <2>1. <<Between, RP!COMMAND_CALL_ACTION, IdLow>> \in Called
    BY <1>1, <1>2 DEF Called, Calls, RP!COMMAND_CALL_ACTION, COMMAND_CALL_ACTION
  <2>2. QED
    BY <1>1, <2>1, WalkStep
<1>5. <<IdLow, 0, IdHigh>> \in Called
  BY <1>1, <1>2 DEF Called, Calls
<1>6. <<IdHigh, 0, ArgLow>> \in Called /\ <<IdHigh, 0, Between>> \in Called
  BY <1>1, <1>2 DEF Called, Calls
<1>7. Walk(Stages, Called, IdLow, z, ArgLow) /\ Walk(Stages, Called, IdLow, z, Between)
  BY <1>1, <1>2, <1>5, <1>6, TwoBytes
<1> HIDE DEF c, z
<1>8. Walk(Stages, Called, Between, c \o z, ArgLow) /\ Walk(Stages, Called, Between, c \o z, Between)
  BY <1>3, <1>4, <1>7, WalkJoin
<1>9. CASE arg = "Void"
  <2>1. (c \o z) \o <<>> = c \o z
    BY <1>3
  <2>2. QED
    BY <1>3, <1>8, <1>9, <2>1 DEF c, z
<1>10. CASE arg # "Void"
  <2>1. PICK x \in Bytes, y \in Bytes : RP!EncodeInteger(v) = <<x, y>> /\ EncodeInteger(v) = <<x, y>>
    <3>1. v \in Int
      BY <1>10, SessionAssumption
    <3>2. v % 256 \in Bytes /\ (v \div 256) % 256 \in Bytes
      BY <3>1 DEF Bytes
    <3>3. QED
      BY <3>2 DEF RP!EncodeInteger, EncodeInteger
  <2>2. ~RP!LooksLikeReset(x, y)
    BY <1>10, <2>1 DEF NoResetInside, RP!LooksLikeReset, COMMAND_RESET, END_OF_RESET,
      RP!COMMAND_RESET, RP!END_OF_RESET
  <2> DEFINE a == <<"argument high", x>>
             i == <<x, y>>
  <2>3. a \in Stages /\ i \in Seq(Bytes)
    <3>1. a \in Stages
      BY <1>1
    <3>2. i \in Seq(Bytes)
      OBVIOUS
    <3>3. QED
      BY <3>1, <3>2
  <2>9. a[1] = "argument high" /\ a[2] = x
    OBVIOUS
  <2> HIDE DEF a
  <2>4. <<ArgLow, x, a>> \in Called
    BY <1>1, <2>3 DEF Called, Calls, a
  <2>5. <<a, y, Between>> \in Called
    BY <1>1, <2>2, <2>3, <2>9 DEF Called, Calls
  <2>6. Walk(Stages, Called, ArgLow, i, Between)
    BY <1>1, <2>3, <2>4, <2>5, TwoBytes
  <2> DEFINE cz == c \o z
  <2>7. cz \in Seq(Bytes) /\ Walk(Stages, Called, Between, cz, ArgLow)
    BY <1>3, <1>8
  <2> HIDE DEF i, cz
  <2>8. Walk(Stages, Called, Between, cz \o i, Between)
    BY <2>3, <2>6, <2>7, WalkJoin
  <2>10. cz \o i \in Seq(Bytes)
    BY <2>3, <2>7
  <2>11. QED
    BY <1>10, <2>1, <2>8, <2>10 DEF c, z, i, cz
<1>11. QED
  BY <1>9, <1>10

(* SHET may call what is registered, over a connection there is.           *)
LEMMA Reachable ==
  ASSUME SInv, RP!Callable("action") # {}
  PROVE  Live
<1>1. registry # {}
  BY DEF RP!Callable, SInv
<1>2. RP!LinkOK
  BY RouterAssumptions, RP!InvParts DEF SInv
<1>3. transport = "open"
  BY <1>1, <1>2 DEF RP!LinkOK
<1>4. QED
  BY <1>3 DEF Live

LEMMA ShetCallsStep ==
  ASSUME NoResetInside, SInv, ShetCalls
  PROVE  SInv'
<1>1. PICK o \in RP!Callable("action"), r \in Askers : \E v \in RP!ValuesFor(o.arg) :
          RP!OnAction(o, r, v) /\ RouterMoves
  BY SameCallbacks DEF ShetCalls, RouterStep, RouterMoves
<1>2. PICK v \in RP!ValuesFor(o.arg) : RP!OnAction(o, r, v) /\ RouterMoves
  BY <1>1
<1>3. UNCHANGED <<up, device, tcp>>
  BY <1>2 DEF ShetCalls, RouterMoves
<1>4. Live
  BY Reachable
<1>5. RP!Tame
  BY <1>4 DEF SInv
<1>6. RP!IInv'
  <2>1. RP!ShetCalls
    BY <1>2 DEF RP!ShetCalls
  <2>2. QED
    BY <2>1, RouterAssumptions, RP!ShetCallsInv DEF SInv
<1>7. UNCHANGED <<transport, state, leaked>>
  BY <1>2 DEF RP!OnAction, RP!Ask
<1>8. RP!Unstarted' /\ leaked' = {}
  BY <1>7 DEF SInv, RP!Unstarted, RP!Idle, RP!NoCommand
<1>9. RP!Tame' /\ \A p : RP!RouterAt(p) => RP!RouterAt(p)'
  BY <1>2, <1>5, RouterAssumptions, RP!CallAt DEF SInv
<1>10. DeviceOK' /\ UpAgrees'
  BY <1>3, <1>4, <1>9, DeviceUntouched, UpStays DEF SInv
<1> DEFINE ws == <<RP!COMMAND_CALL_ACTION>> \o <<0, 0>>
                    \o (IF o.arg = "Void" THEN <<>> ELSE RP!EncodeInteger(v))
<1>11. router_out'.bytes = ws
  BY <1>2, <1>5, RouterAssumptions, RP!CallWrites
<1>12. o.arg # "Void" => v \in Values
  <2>1. o.arg \in {"Void", "Integer"}
    BY <1>5 DEF RP!Tame, RP!Callable, RP!Objects
  <2>2. QED
    BY <2>1 DEF RP!ValuesFor
<1>13. ws \in Seq(Bytes) /\ Walk(Stages, Called, Between, ws, Between)
  BY <1>12, CallWalk
<1> HIDE DEF ws
<1>14. DownAgrees'
  <2>1. rx' = rx \o ws
    BY <1>2, <1>11 DEF RouterMoves
  <2>2. QED
    BY <1>3, <1>4, <1>13, <2>1, DownGrows DEF SInv
<1>15. QED
  BY <1>6, <1>8, <1>9, <1>10, <1>14 DEF SInv

(* The byte may be the last the device sent before it was switched off.    *)
LEMMA RouterFollows ==
  ASSUME RP!IInv, RP!Tame, RP!LongReset, NEW b \in Bytes, RP!DataReceived(b),
         NEW p, RP!RouterAt(p), NEW q, <<p, b, q>> \in Sent
  PROVE  RP!Tame' /\ RP!RouterAt(q)'
<1>1. \/ RP!Sends(p, b, q)
      \/ q = RP!Zeros(0) /\ \E r \in Places : RP!Sends(p, b, r)
  BY SentFacts
<1>2. CASE RP!Sends(p, b, q)
  BY <1>2, RouterAssumptions, RP!StreamFollowed
<1>3. CASE q = RP!Zeros(0) /\ \E r \in Places : RP!Sends(p, b, r)
  <2>1. PICK r \in Places : RP!Sends(p, b, r)
    BY <1>3
  <2>2. RP!Tame'
    BY <2>1, RouterAssumptions, RP!StreamFollowed
  <2>3. RP!IInv'
    BY RouterAssumptions, RP!DataInv
  <2>4. transport' # "none"
    BY DEF RP!DataReceived
  <2>5. RP!RouterAt(RP!Zeros(0))'
    BY <2>3, <2>4, RouterAssumptions, RP!NextAtZeros
  <2>6. QED
    BY <1>3, <2>2, <2>5
<1>4. QED
  BY <1>1, <1>2, <1>3

(* What an exception loses is the beginning of what is on its way.         *)
LEMMA ChunkLost ==
  ASSUME UpAgrees, up # <<>>, NEW n \in 2 .. Len(up) + 1, up' = SubSeq(up, n, Len(up)),
         UNCHANGED device, \A p : RP!RouterAt(p)'
  PROVE  UpAgrees'
<1>1. up \in Seq(Bytes)
  BY DEF UpAgrees
<1>2. PICK p \in Places, q \in Places : Walk(Places, Sent, p, up, q) /\ DeviceAt(q)
  BY DEF UpAgrees
<1>3. PICK r \in Places : Walk(Places, Sent, r, SubSeq(up, n, Len(up)), q)
  <2>1. n \in 1 .. Len(up) + 1
    BY <1>1
  <2>2. QED
    BY <1>1, <1>2, <2>1, WalkFrom
<1>4. up' \in Seq(Bytes)
  BY <1>1
<1>5. DeviceAt(q)'
  BY <1>2, DeviceUntouched
<1>6. Walk(Places, Sent, r, up', q)
  BY <1>3
<1>7. QED
  BY <1>4, <1>5, <1>6 DEF UpAgrees

LEMMA RouterReceivesStep ==
  ASSUME NoResetInside, SInv, RouterReceives
  PROVE  SInv'
<1> DEFINE b == Head(up)
<1>1. up # <<>> /\ RP!DataReceived(b) /\ RouterMoves
  BY SameBytes DEF RouterReceives, RouterStep, RouterMoves
<1>2. transport = "open" /\ transport' = "open"
  BY <1>1 DEF RP!DataReceived
<1>3. Live
  BY <1>2 DEF Live
<1>4. RP!IInv /\ RP!Tame /\ RP!LongReset /\ UpAgrees /\ up \in Seq(Bytes)
  BY <1>3, ResetIsLong DEF SInv, UpAgrees
<1>5. b \in Bytes
  BY <1>1, <1>4
<1>6. PICK p \in Places, q \in Places : /\ RP!RouterAt(p)
                                        /\ Walk(Places, Sent, p, up, q)
                                        /\ DeviceAt(q)
  BY <1>4 DEF UpAgrees
<1>7. PICK r \in Places : <<p, b, r>> \in Sent /\ Walk(Places, Sent, r, Tail(up), q)
  BY <1>1, <1>4, <1>6, WalkOn
<1> HIDE DEF b
<1>8. RP!IInv'
  BY <1>1, <1>4, <1>5, RouterAssumptions, RP!DataInv
<1>9. RP!Tame' /\ RP!RouterAt(r)'
  BY <1>1, <1>4, <1>5, <1>6, <1>7, RouterFollows
<1>10. RP!Unstarted' /\ leaked' = {}
  BY <1>2, <1>9 DEF RP!Unstarted, RP!Tame
<1>11. UNCHANGED device /\ DeviceOK'
  BY <1>1, DeviceUntouched DEF SInv, RouterMoves
<1>12. UpAgrees'
  <2>1. CASE Raises(b)
    <3>1. RP!OnMalformedCommand
      BY <2>1, SameBytes, SameCommand
        DEF Raises, RP!ProcessReturn, RP!RejectField
    <3>2. \A x : RP!RouterAt(x)'
      BY <1>1, <1>4, <1>5, <3>1, RouterAssumptions, RP!RaisesDeaf
    <3>3. PICK n \in 2 .. Len(up) + 1 : up' = SubSeq(up, n, Len(up))
      BY <2>1 DEF RouterReceives, b
    <3>4. QED
      BY <1>1, <1>4, <1>11, <3>2, <3>3, ChunkLost
  <2>2. CASE ~Raises(b)
    <3>1. up' = Tail(up)
      BY <2>2 DEF RouterReceives, b
    <3>2. up' \in Seq(Bytes)
      BY <1>1, <1>4, <3>1
    <3>3. Walk(Places, Sent, r, up', q)
      BY <1>7, <3>1
    <3>4. DeviceAt(q)'
      BY <1>6, <1>11, DeviceUntouched
    <3>5. QED
      BY <1>9, <3>2, <3>3, <3>4 DEF UpAgrees
  <2>3. QED
    BY <2>1, <2>2
<1>13. router_out'.bytes \in {<<>>, <<COMMAND_RESET>>}
  <2>1. router_out'.bytes \in {<<>>, <<RP!COMMAND_RESET>>}
    BY <1>1, <1>5, RouterAssumptions, RP!DataWrites
  <2>2. QED
    BY <2>1 DEF RP!COMMAND_RESET, COMMAND_RESET
<1>14. DownAgrees'
  BY <1>1, <1>3, <1>13, DownAfterReset DEF SInv, RouterMoves
<1>15. QED
  BY <1>8, <1>9, <1>10, <1>11, <1>12, <1>14 DEF SInv

-----------------------------------------------------------------------------
(***************************************************************************)
(* The theorem.                                                            *)
(***************************************************************************)
LEMMA SessionInit ==
  ASSUME NoResetInside, Init
  PROVE  SInv
<1>1. RP!Init /\ D!Init /\ up = <<>>
  BY SameCallbacks DEF Init
<1>2. RP!IInv
  BY <1>1, RouterAssumptions, RP!InitInv
<1>3. transport = "none" /\ state = RP!Idle /\ leaked = {} /\ RP!Unstarted
  BY <1>1 DEF RP!Init, RP!Unstarted
<1>4. RP!Tame
  BY <1>1 DEF RP!Init, RP!Tame, RP!Idle, RP!NoCommand, RP!COMMAND_ADD_ACTION
<1>5. RP!RouterAt(RP!Zeros(0))
  BY <1>2, <1>3, ResetIsLong, RouterAssumptions, RP!AtZeros
<1>6. /\ status = {1} /\ pc = "sketch" /\ rx = <<>> /\ device_id = <<0, 0>>
      /\ actions = [a \in {0} |-> D!FREE]
  <2>1. D!ActionIds = {0}
    BY DEF D!ActionIds
  <2>2. QED
    BY <1>1, <2>1 DEF D!Init, D!STATUS_RESETTING
<1>7. DeviceOK
  BY <1>6 DEF DeviceOK, D!FREE
<1>8. MustReset /\ Begins
  BY <1>6 DEF MustReset, Begins, D!STATUS_RESETTING
<1>9. UpAgrees
  <2>1. DeviceAt(RP!Zeros(0))
    BY <1>6, <1>8 DEF DeviceAt
  <2>2. Walk(Places, Sent, RP!Zeros(0), <<>>, RP!Zeros(0))
    BY NoZerosPlace, WalkNowhere
  <2>3. QED
    BY <1>1, <1>5, <2>1, <2>2, NoZerosPlace DEF UpAgrees
<1>10. DownAgrees
  <2>1. Between \in Stages
    BY DEF Stages
  <2>2. Walk(Stages, Called, Between, <<>>, Between)
    BY <2>1, WalkNowhere
  <2>3. Reads(Between)
    BY <1>6 DEF Reads
  <2>4. QED
    BY <1>6, <2>1, <2>2, <2>3 DEF DownAgrees
<1>11. QED
  BY <1>2, <1>3, <1>4, <1>7, <1>9, <1>10 DEF SInv

LEMMA SessionStutters ==
  ASSUME SInv, UNCHANGED vars
  PROVE  SInv'
<1>1. /\ UNCHANGED <<transport, connected, router_id, base_path, state, registry, leaked,
                     deferred_returns, call, inactivity_timer, since_reset>>
      /\ UNCHANGED <<router, router_out, device, rx, tcp, up>>
  BY DEF vars, router
<1>2. RP!IInv'
  BY <1>1, RouterAssumptions, RP!StutterInv DEF SInv, RP!vars
<1>3. RP!Unstarted' /\ leaked' = {}
  BY <1>1 DEF RP!Unstarted, SInv, RP!Idle, RP!NoCommand
<1>4. RP!Tame => RP!Tame'
  BY <1>1, RouterAssumptions, RP!StillTame
<1>5. UpAgrees => UpAgrees'
  BY <1>1, RouterStill, UpStays DEF router
<1>6. DownAgrees => DownAgrees'
  BY <1>1, DeviceUntouched DEF DownAgrees
<1>7. Live' => Live
  BY <1>1 DEF Live
<1>8. QED
  BY <1>1, <1>2, <1>3, <1>4, <1>5, <1>6, <1>7, DeviceUntouched DEF SInv

LEMMA SessionStep ==
  ASSUME NoResetInside, SInv, [Next]_vars
  PROVE  SInv'
<1>1. CASE RouterReceives
  BY <1>1, RouterReceivesStep
<1>2. CASE ShetCalls
  BY <1>2, ShetCallsStep
<1>3. CASE MakeConnection
  BY <1>3, MakeConnectionStep
<1>4. CASE InactivityTimeout
  BY <1>4, InactivityTimeoutStep
<1>5. CASE ConnectionBreaks
  BY <1>5, ConnectionBreaksStep
<1>6. CASE Setup
  BY <1>6, SetupInv
<1>7. CASE DoSHET
  BY <1>7, DoSHETInv
<1>8. CASE EnsureConnected
  BY <1>8, EnsureConnectedInv
<1>9. CASE DeviceRuns
  BY <1>9, DeviceRunsInv
<1>10. CASE DeviceRestarts
  BY <1>10, DeviceRestartsInv
<1>11. CASE Tick
  BY <1>11, TickStep
<1>12. CASE UNCHANGED vars
  BY <1>12, SessionStutters
<1>13. QED
  BY <1>1, <1>2, <1>3, <1>4, <1>5, <1>6, <1>7, <1>8, <1>9, <1>10, <1>11, <1>12 DEF Next

(* With nothing on its way both ends are at one place, and a device that   *)
(* has reset is at the start of a command.                                 *)
LEMMA SessionSettled ==
  ASSUME SInv, Settled, connected, status = D!STATUS_CONNECTED
  PROVE  state = R!Idle /\ registry = RP!Announced
<1>1. transport = "open"
  BY RouterAssumptions, RP!InvParts DEF SInv, RP!LinkOK
<1>2. Live
  BY <1>1 DEF Live
<1>3. PICK p \in Places, q \in Places : /\ RP!RouterAt(p)
                                        /\ Walk(Places, Sent, p, up, q)
                                        /\ DeviceAt(q)
  BY <1>2 DEF SInv, UpAgrees
<1>4. up = <<>> /\ pc = "sketch"
  BY DEF Settled
<1>5. p = q
  <2>1. Walk(Places, Sent, p, <<>>, q)
    BY <1>3, <1>4
  <2>2. QED
    BY <2>1, WalkEmpty
<1>6. ~Begins
  BY DEF Begins, MustReset, D!STATUS_CONNECTED, D!STATUS_RESETTING
<1>7. q = RP!Start("command")
  BY <1>3, <1>4, <1>6 DEF DeviceAt
<1>8. RP!RouterAt(RP!Start("command"))
  BY <1>3, <1>5, <1>7
<1>9. QED
  BY <1>8, RouterAssumptions, RP!AtCommand, SameConstants

LEMMA SessionAgrees ==
  ASSUME SInv
  PROVE  RegistrationsAgree
<1>1. SUFFICES ASSUME Settled, connected, SameIds, status = D!STATUS_CONNECTED
               PROVE  state = R!Idle /\ Linked
  BY DEF SInv, RegistrationsAgree
<1>2. state = R!Idle /\ registry = RP!Announced
  BY <1>1, SessionSettled
<1>3. D!ActionIds = {0}
  BY DEF D!ActionIds
<1>4. registry = {[kind |-> "action", id |-> a, arg |-> "Integer", ret |-> "Integer"] :
                      a \in D!ActionIds}
  BY <1>2, <1>3 DEF RP!Announced
<1>5. QED
  BY <1>1, <1>2, <1>4 DEF Linked

LEMMA SessionInv ==
  ASSUME NoResetInside
  PROVE  Spec => []SInv
<1>1. Init => SInv
  BY SessionInit
<1>2. SInv /\ [Next]_vars => SInv'
  BY SessionStep
<1>3. QED
  BY <1>1, <1>2, PTL DEF Spec

(* Whatever SHET asks for and whatever breaks: once nothing is on its way  *)
(* and the device has reset, a router that is connected under the device's *)
(* id has exactly what the device announced, once, and is at the start of  *)
(* a command.  It is about InitialiseWithServer, and the handlers of       *)
(* COMMAND_RESET and COMMAND_ADD_ACTION in clientfsm.py.                   *)
THEOREM RegistrationAgreement ==
  ASSUME NoResetInside
  PROVE  Spec => []RegistrationsAgree
<1>1. SInv => RegistrationsAgree
  BY SessionAgrees
<1>2. QED
  BY <1>1, SessionInv, PTL

(* Without ints that read as a reset the ids are not needed for it: what a *)
(* connected router has registered is right even before a ping has told it *)
(* that the connection is another one.                                     *)
THEOREM AgreementBeforeIds ==
  ASSUME NoResetInside
  PROVE  Spec => [](Settled /\ connected /\ status = D!STATUS_CONNECTED
                        => state = R!Idle /\ registry = RP!Announced)
<1>1. SInv => (Settled /\ connected /\ status = D!STATUS_CONNECTED
                 => state = R!Idle /\ registry = RP!Announced)
  BY SessionSettled
<1>2. QED
  BY <1>1, SessionInv, PTL

=============================================================================
