--------------------------- MODULE GatewayFrames ---------------------------
(***************************************************************************)
(* The frames of Gateway stay whole, whatever bytes of them are lost, as   *)
(* long as few enough are lost in a row: the theorem behind WholeFrames.   *)
(***************************************************************************)
EXTENDS GatewayProofs

(***************************************************************************)
(* The inductive invariant.  A line holds whole frames but for the first,  *)
(* of which the beginning may be gone.                                     *)
(***************************************************************************)
Follows(s) ==
    \A i \in 1..Len(s) :
       /\ s[i].kind = "address" =>
             /\ i + 2 <= Len(s)
             /\ s[i + 1].kind = "first"
             /\ s[i + 2].kind = "second" /\ s[i + 2].of.address = s[i].value
       /\ s[i].kind = "first" =>
             /\ i + 1 <= Len(s)
             /\ s[i + 1].kind = "second" /\ s[i + 1].of.byte[1] = s[i].value
       /\ s[i].kind = "second" =>
             /\ s[i].of.byte[2] = s[i].value
             /\ i + 1 <= Len(s) => s[i + 1].kind = "address"

(* What is on a line when the last byte to arrive was the address a, and n *)
(* bytes after it are lost; or the first nibble x after the address a.     *)
AfterAddress(s, n, a) ==
    /\ n = 0 => /\ Len(s) >= 2 /\ s[1].kind = "first" /\ s[2].kind = "second"
                /\ s[2].of.address = a /\ s[2].of.byte[1] = s[1].value
    /\ n = 1 => Len(s) >= 1 /\ s[1].kind = "second"
    /\ n = 2 => (s # <<>> => s[1].kind = "address")

AfterFirst(s, n, a, x) ==
    /\ n = 0 => /\ Len(s) >= 1 /\ s[1].kind = "second"
                /\ s[1].of.address = a /\ s[1].of.byte[1] = x
    /\ n = 1 => (s # <<>> => s[1].kind = "address")
    /\ n = 2 => Len(s) >= 1 /\ s[1].kind = "first"

ReaderInStep ==
    /\ reader.state = "read_first_nibble" =>
          AfterAddress(up, lost_up, reader.address)
    /\ reader.state = "read_second_nibble" =>
          AfterFirst(up, lost_up, reader.address, reader.nibble)

(* The bytes s that have arrived, before the line d with n bytes lost.     *)
PortInStep(s, d, n) ==
    /\ \A i \in 1..(Len(s) - 2) :
          s[i].kind = "address" /\ s[i + 1].kind = "first" /\ s[i + 2].kind = "second"
             => Completes(s[i + 2], s[i].value, <<s[i + 1].value, s[i + 2].value>>)
    /\ Len(s) >= 1 /\ s[Len(s)].kind = "address" => AfterAddress(d, n, s[Len(s)].value)
    /\ Len(s) >= 2 /\ s[Len(s) - 1].kind = "address" /\ s[Len(s)].kind = "first"
          => AfterFirst(d, n, s[Len(s) - 1].value, s[Len(s)].value)

(* What RouteDataFromServer has read of a frame, and what it will read.    *)
WriteInStep ==
    /\ at # Server(2) /\ at # Writing => write.byte = <<>>
    /\ at = Server(1) /\ serial_in[1].kind = "first" /\ serial_in[2].kind = "second"
          => Completes(serial_in[2], write.to, <<serial_in[1].value, serial_in[2].value>>)
    /\ at = Server(2) => write.byte = <<write.byte[1]>>
    /\ at = Server(2) /\ serial_in[1].kind = "second"
          => Completes(serial_in[1], write.to, <<write.byte[1], serial_in[1].value>>)

FInv == Follows(up) /\ Follows(down) /\ ReaderInStep
        /\ PortInStep(serial_in, down, lost_down) /\ WriteInStep

Assumed == MAX_LOST_UP <= 1 /\ MAX_LOST_DOWN <= 2

-----------------------------------------------------------------------------
(* The lines.                                                              *)

LEMMA FrameBytes ==
  ASSUME NEW a \in Addresses, NEW b \in AllBytes, NEW from \in Addresses
  PROVE  LET f == Frame(a, b, from)
         IN  /\ Len(f) = 3
             /\ f[1].kind = "address" /\ f[1].value = a
             /\ f[2].kind = "first" /\ f[2].value = b[1]
             /\ f[3].kind = "second" /\ f[3].value = b[2]
             /\ f[3].of.address = a /\ f[3].of.byte = b
BY DEF Frame

LEMMA TailFollows ==
  ASSUME NEW s \in Seq(SerialBytes), s # <<>>, Follows(s)
  PROVE  Follows(Tail(s))
<1>1. /\ Len(s) \in Nat /\ Len(Tail(s)) = Len(s) - 1
      /\ \A i \in 1..(Len(s) - 1) : Tail(s)[i] = s[i + 1]
  OBVIOUS
<1> DEFINE t == Tail(s)
<1> HIDE DEF t
<1>2. Len(t) = Len(s) - 1 /\ \A i \in 1..Len(t) : i + 1 \in 1..Len(s) /\ t[i] = s[i + 1]
  BY <1>1 DEF t
<1>3. Follows(t)
  <2> SUFFICES ASSUME NEW i \in 1..Len(t)
               PROVE  /\ t[i].kind = "address" =>
                            /\ i + 2 <= Len(t)
                            /\ t[i + 1].kind = "first"
                            /\ t[i + 2].kind = "second"
                            /\ t[i + 2].of.address = t[i].value
                      /\ t[i].kind = "first" =>
                            /\ i + 1 <= Len(t)
                            /\ t[i + 1].kind = "second"
                            /\ t[i + 1].of.byte[1] = t[i].value
                      /\ t[i].kind = "second" =>
                            /\ t[i].of.byte[2] = t[i].value
                            /\ i + 1 <= Len(t) => t[i + 1].kind = "address"
    BY DEF Follows
  <2>1. i + 1 \in 1..Len(s) /\ t[i] = s[i + 1]
    BY <1>2
  <2>2. i + 1 <= Len(t) => t[i + 1] = s[(i + 1) + 1]
    BY <1>1, <1>2
  <2>3. i + 2 <= Len(t) => t[i + 2] = s[(i + 1) + 2]
    BY <1>1, <1>2
  <2>4. CASE s[i + 1].kind = "address"
    <3>1. /\ (i + 1) + 2 <= Len(s)
          /\ s[(i + 1) + 1].kind = "first"
          /\ s[(i + 1) + 2].kind = "second"
          /\ s[(i + 1) + 2].of.address = s[i + 1].value
      BY <2>1, <2>4 DEF Follows
    <3>2. i + 2 <= Len(t) /\ i + 1 <= Len(t)
      BY <1>1, <1>2, <3>1
    <3>3. QED
      BY <2>1, <2>2, <2>3, <2>4, <3>1, <3>2
  <2>5. CASE s[i + 1].kind = "first"
    <3>1. /\ (i + 1) + 1 <= Len(s)
          /\ s[(i + 1) + 1].kind = "second"
          /\ s[(i + 1) + 1].of.byte[1] = s[i + 1].value
      BY <2>1, <2>5 DEF Follows
    <3>2. i + 1 <= Len(t)
      BY <1>1, <1>2, <3>1
    <3>3. QED
      BY <2>1, <2>2, <2>5, <3>1, <3>2
  <2>6. CASE s[i + 1].kind = "second"
    <3>1. /\ s[i + 1].of.byte[2] = s[i + 1].value
          /\ (i + 1) + 1 <= Len(s) => s[(i + 1) + 1].kind = "address"
      BY <2>1, <2>6 DEF Follows
    <3>2. i + 1 <= Len(t) => (i + 1) + 1 <= Len(s)
      BY <1>1, <1>2
    <3>3. QED
      BY <2>1, <2>2, <2>6, <3>1, <3>2
  <2>7. QED
    BY <2>1, <2>4, <2>5, <2>6
<1>4. QED
  BY <1>3 DEF t

(* Frames are written behind whole frames.                                 *)
LEMMA JoinedFollows ==
  ASSUME NEW s \in Seq(SerialBytes), Follows(s),
         NEW a \in Addresses, NEW b \in AllBytes, NEW from \in Addresses
  PROVE  Follows(s \o Frame(a, b, from))
<1> DEFINE f == Frame(a, b, from)
           t == s \o f
           n == Len(s)
<1>1. f \in Seq(SerialBytes) /\ Len(f) = 3
  BY FrameType, FrameBytes
<1>2. /\ f[1].kind = "address" /\ f[1].value = a
      /\ f[2].kind = "first" /\ f[2].value = b[1]
      /\ f[3].kind = "second" /\ f[3].value = b[2]
      /\ f[3].of.address = a /\ f[3].of.byte = b
  BY FrameBytes
<1> HIDE DEF f
<1>3. /\ n \in Nat /\ Len(t) = n + 3
      /\ \A i \in 1..n : t[i] = s[i]
      /\ t[n + 1] = f[1] /\ t[n + 2] = f[2] /\ t[n + 3] = f[3]
  <2>1. \A p, q \in Seq(SerialBytes) :
          /\ Len(p) \in Nat /\ Len(p \o q) = Len(p) + Len(q)
          /\ \A i \in 1..Len(p) : (p \o q)[i] = p[i]
          /\ \A i \in 1..Len(q) : (p \o q)[Len(p) + i] = q[i]
    OBVIOUS
  <2>2. 1 \in 1..Len(f) /\ 2 \in 1..Len(f) /\ 3 \in 1..Len(f)
    BY <1>1
  <2>3. QED
    BY <1>1, <2>1, <2>2
<1> HIDE DEF t, n
<1>4. n = Len(s)
  BY DEF n
<1>5. Follows(t)
  <2> SUFFICES ASSUME NEW i \in 1..Len(t)
               PROVE  /\ t[i].kind = "address" =>
                            /\ i + 2 <= Len(t)
                            /\ t[i + 1].kind = "first"
                            /\ t[i + 2].kind = "second"
                            /\ t[i + 2].of.address = t[i].value
                      /\ t[i].kind = "first" =>
                            /\ i + 1 <= Len(t)
                            /\ t[i + 1].kind = "second"
                            /\ t[i + 1].of.byte[1] = t[i].value
                      /\ t[i].kind = "second" =>
                            /\ t[i].of.byte[2] = t[i].value
                            /\ i + 1 <= Len(t) => t[i + 1].kind = "address"
    BY DEF Follows
  <2>1. CASE i \in 1..n
    <3>1. t[i] = s[i]
      BY <1>3, <2>1
    <3>2. \A k \in {1, 2} : i + k <= n => t[i + k] = s[i + k]
      BY <1>3, <2>1
    <3>3. CASE s[i].kind = "address"
      <4>1. i + 2 <= n /\ s[i + 1].kind = "first" /\ s[i + 2].kind = "second"
            /\ s[i + 2].of.address = s[i].value
        BY <1>4, <2>1, <3>3 DEF Follows
      <4>2. i + 2 <= Len(t) /\ i + 1 <= n
        BY <1>3, <2>1, <4>1
      <4>3. QED
        BY <3>1, <3>2, <3>3, <4>1, <4>2
    <3>4. CASE s[i].kind = "first"
      <4>1. i + 1 <= n /\ s[i + 1].kind = "second" /\ s[i + 1].of.byte[1] = s[i].value
        BY <1>4, <2>1, <3>4 DEF Follows
      <4>2. i + 1 <= Len(t)
        BY <1>3, <2>1, <4>1
      <4>3. QED
        BY <3>1, <3>2, <3>4, <4>1, <4>2
    <3>5. CASE s[i].kind = "second"
      <4>1. s[i].of.byte[2] = s[i].value /\ (i + 1 <= n => s[i + 1].kind = "address")
        BY <1>4, <2>1, <3>5 DEF Follows
      <4>2. i + 1 <= n \/ i + 1 = n + 1
        BY <1>3, <2>1
      <4>3. t[i + 1].kind = "address"
        BY <1>2, <1>3, <3>2, <4>1, <4>2
      <4>4. QED
        BY <3>1, <3>5, <4>1, <4>3
    <3>6. QED
      BY <3>1, <3>3, <3>4, <3>5
  <2>2. CASE i = n + 1
    <3>1. i + 2 <= Len(t) /\ t[i] = f[1] /\ t[i + 1] = f[2] /\ t[i + 2] = f[3]
      BY <1>3, <2>2
    <3>2. QED
      BY <1>2, <3>1
  <2>3. CASE i = n + 2
    <3>1. i + 1 <= Len(t) /\ t[i] = f[2] /\ t[i + 1] = f[3]
      BY <1>3, <2>3
    <3>2. QED
      BY <1>2, <3>1
  <2>4. CASE i = n + 3
    <3>1. ~(i + 1 <= Len(t)) /\ t[i] = f[3]
      BY <1>3, <2>4
    <3>2. QED
      BY <1>2, <3>1
  <2>5. QED
    BY <1>3, <2>1, <2>2, <2>3, <2>4
<1>6. QED
  BY <1>5 DEF t, f

(* What follows the byte at the head of a line.                            *)
LEMMA HeadFollowed ==
  ASSUME NEW s \in Seq(SerialBytes), s # <<>>, Follows(s)
  PROVE  /\ Head(s) = s[1] /\ Head(s) \in SerialBytes
         /\ Tail(s) \in Seq(SerialBytes) /\ Len(Tail(s)) = Len(s) - 1 /\ Len(s) \in Nat
         /\ Head(s).kind = "address" =>
               /\ Len(s) >= 3 /\ s[2].kind = "first" /\ s[3].kind = "second"
               /\ s[3].of.address = s[1].value /\ s[3].of.byte[1] = s[2].value
               /\ Tail(s)[1] = s[2] /\ Tail(s)[2] = s[3]
         /\ Head(s).kind = "first" =>
               /\ Len(s) >= 2 /\ s[2].kind = "second"
               /\ s[2].of.byte[1] = s[1].value
               /\ Tail(s)[1] = s[2]
         /\ Head(s).kind = "second" =>
               /\ s[1].of.byte[2] = s[1].value
               /\ Tail(s) # <<>> => Tail(s)[1].kind = "address"
<1>1. /\ Head(s) = s[1] /\ Head(s) \in SerialBytes
      /\ Tail(s) \in Seq(SerialBytes) /\ Len(s) \in Nat /\ Len(s) >= 1
      /\ Len(Tail(s)) = Len(s) - 1
      /\ \A i \in 1..(Len(s) - 1) : Tail(s)[i] = s[i + 1]
  OBVIOUS
<1>2. CASE s[1].kind = "address"
  <2>1. 1 + 2 <= Len(s) /\ s[1 + 1].kind = "first" /\ s[1 + 2].kind = "second"
        /\ s[1 + 2].of.address = s[1].value
    BY <1>1, <1>2 DEF Follows
  <2>2. Len(s) >= 3 /\ 2 \in 1..Len(s)
    BY <1>1, <2>1
  <2>3. s[2 + 1].of.byte[1] = s[2].value
    BY <2>1, <2>2 DEF Follows
  <2>4. Tail(s)[1] = s[2] /\ Tail(s)[2] = s[3]
    BY <1>1, <2>2
  <2>5. QED
    BY <1>1, <1>2, <2>1, <2>2, <2>3, <2>4
<1>3. CASE s[1].kind = "first"
  <2>1. 1 + 1 <= Len(s) /\ s[1 + 1].kind = "second" /\ s[1 + 1].of.byte[1] = s[1].value
    BY <1>1, <1>3 DEF Follows
  <2>2. Len(s) >= 2 /\ Tail(s)[1] = s[2]
    BY <1>1, <2>1
  <2>3. QED
    BY <1>1, <1>3, <2>1, <2>2
<1>4. CASE s[1].kind = "second"
  <2>1. s[1].of.byte[2] = s[1].value /\ (1 + 1 <= Len(s) => s[1 + 1].kind = "address")
    BY <1>1, <1>4 DEF Follows
  <2>2. Tail(s) # <<>> => Len(s) >= 2 /\ Tail(s)[1] = s[2]
    BY <1>1
  <2>3. QED
    BY <1>1, <1>4, <2>1, <2>2
<1>5. QED
  BY <1>1, <1>2, <1>3, <1>4, SerialByteFields DEF Kinds

(* Losing one more byte, or writing one more frame, keeps a line in step   *)
(* with the one that reads it.                                             *)
LEMMA AfterLoss ==
  ASSUME NEW s \in Seq(SerialBytes), s # <<>>, Follows(s),
         NEW n \in 0..1, NEW a, NEW x
  PROVE  /\ AfterAddress(s, n, a) => AfterAddress(Tail(s), n + 1, a)
         /\ AfterFirst(s, n, a, x) => AfterFirst(Tail(s), n + 1, a, x)
<1> DEFINE t == Tail(s)
<1>1. /\ Len(t) = Len(s) - 1 /\ Len(s) \in Nat /\ t \in Seq(SerialBytes)
      /\ s[1].kind = "first" => Len(s) >= 2 /\ t[1] = s[2] /\ s[2].kind = "second"
      /\ s[1].kind = "second" /\ t # <<>> => t[1].kind = "address"
      /\ s[1].kind = "address" => Len(s) >= 3 /\ t[1] = s[2] /\ s[2].kind = "first"
  BY HeadFollowed
<1> HIDE DEF t
<1>2. CASE n = 0
  <2>1. n + 1 = 1
    BY <1>2
  <2>2. AfterAddress(s, 0, a) => Len(t) >= 1 /\ t[1].kind = "second"
    BY <1>1 DEF AfterAddress
  <2>3. AfterFirst(s, 0, a, x) => (t # <<>> => t[1].kind = "address")
    BY <1>1 DEF AfterFirst
  <2>4. QED
    BY <1>2, <2>1, <2>2, <2>3 DEF AfterAddress, AfterFirst, t
<1>3. CASE n = 1
  <2>1. n + 1 = 2
    BY <1>3
  <2>2. AfterAddress(s, 1, a) => (t # <<>> => t[1].kind = "address")
    BY <1>1 DEF AfterAddress
  <2>3. AfterFirst(s, 1, a, x) => Len(t) >= 1 /\ t[1].kind = "first"
    BY <1>1 DEF AfterFirst
  <2>4. QED
    BY <1>3, <2>1, <2>2, <2>3 DEF AfterAddress, AfterFirst, t
<1>4. QED
  BY <1>2, <1>3

LEMMA AfterWrite ==
  ASSUME NEW s \in Seq(SerialBytes), NEW n \in 0..2, NEW a, NEW x,
         NEW c \in Addresses, NEW b \in AllBytes, NEW from \in Addresses
  PROVE  LET t == s \o Frame(c, b, from)
         IN  /\ AfterAddress(s, n, a) => AfterAddress(t, n, a)
             /\ AfterFirst(s, n, a, x) => AfterFirst(t, n, a, x)
<1> DEFINE f == Frame(c, b, from)
           t == s \o f
<1>1. f \in Seq(SerialBytes) /\ Len(f) = 3 /\ f[1].kind = "address"
  BY FrameType, FrameBytes
<1> HIDE DEF f
<1>2. /\ Len(s) \in Nat /\ Len(t) = Len(s) + 3
      /\ Len(s) >= 1 => t[1] = s[1]
      /\ Len(s) >= 2 => t[2] = s[2]
      /\ s = <<>> => t[1].kind = "address"
      /\ s # <<>> => Len(s) >= 1
  <2>1. \A p, q \in Seq(SerialBytes) :
          /\ Len(p) \in Nat /\ Len(p \o q) = Len(p) + Len(q)
          /\ \A i \in 1..Len(p) : (p \o q)[i] = p[i]
          /\ \A i \in 1..Len(q) : (p \o q)[Len(p) + i] = q[i]
    OBVIOUS
  <2>2. Len(s) >= 1 => t[1] = s[1]
    BY <1>1, <2>1
  <2>3. Len(s) >= 2 => t[2] = s[2]
    BY <1>1, <2>1
  <2>4. s = <<>> => t[1].kind = "address"
    <3>1. s = <<>> => Len(s) + 1 = 1
      OBVIOUS
    <3>2. 1 \in 1..Len(f)
      BY <1>1
    <3>3. t[Len(s) + 1] = f[1]
      BY <1>1, <2>1, <3>2
    <3>4. QED
      BY <1>1, <3>1, <3>3
  <2>5. Len(s) \in Nat /\ Len(t) = Len(s) + 3
    <3>1. Len(s) \in Nat
      OBVIOUS
    <3>2. Len(t) = Len(s) + Len(f)
      BY <1>1, <2>1
    <3>3. QED
      BY <1>1, <3>1, <3>2
  <2>6. s # <<>> => Len(s) >= 1
    OBVIOUS
  <2>7. QED
    BY <2>2, <2>3, <2>4, <2>5, <2>6
<1> HIDE DEF t
<1>3. AfterAddress(s, n, a) => AfterAddress(t, n, a)
  BY <1>2 DEF AfterAddress
<1>4. AfterFirst(s, n, a, x) => AfterFirst(t, n, a, x)
  BY <1>2 DEF AfterFirst
<1>5. QED
  BY <1>3, <1>4 DEF t, f

(* A line is in step with one that has just read the byte at its head.     *)
LEMMA AfterHead ==
  ASSUME NEW s \in Seq(SerialBytes), s # <<>>, Follows(s)
  PROVE  /\ Head(s).kind = "address" => AfterAddress(Tail(s), 0, Head(s).value)
         /\ \A n \in 0..2, a \in Addresses :
               Head(s).kind = "first" /\ AfterAddress(s, n, a)
                  => AfterFirst(Tail(s), 0, a, Head(s).value)
<1> DEFINE t == Tail(s)
<1>1. /\ Len(t) = Len(s) - 1 /\ Len(s) \in Nat /\ Head(s) = s[1]
      /\ s[1].kind = "address" =>
            /\ Len(s) >= 3 /\ s[2].kind = "first" /\ s[3].kind = "second"
            /\ s[3].of.address = s[1].value /\ s[3].of.byte[1] = s[2].value
            /\ t[1] = s[2] /\ t[2] = s[3]
      /\ s[1].kind = "first" =>
            /\ Len(s) >= 2 /\ s[2].kind = "second"
            /\ s[2].of.byte[1] = s[1].value
            /\ t[1] = s[2]
  BY HeadFollowed
<1> HIDE DEF t
<1>2. s[1].kind = "address" => AfterAddress(t, 0, s[1].value)
  BY <1>1 DEF AfterAddress
<1>3. ASSUME NEW n \in 0..2, NEW a \in Addresses, s[1].kind = "first",
             AfterAddress(s, n, a)
      PROVE  AfterFirst(t, 0, a, s[1].value)
  <2>1. n = 0
    BY <1>3 DEF AfterAddress
  <2>2. s[2].of.address = a
    BY <1>3, <2>1 DEF AfterAddress
  <2>3. QED
    BY <1>1, <1>3, <2>2 DEF AfterFirst
<1>4. QED
  BY <1>1, <1>2, <1>3 DEF t

(* The second nibble of the frame that was begun completes it, unless the  *)
(* bytes lost before it are two.                                           *)
LEMMA AfterFirstCompletes ==
  ASSUME NEW s \in Seq(SerialBytes), s # <<>>, Follows(s),
         NEW n \in 0..2, NEW a, NEW x, AfterFirst(s, n, a, x), Head(s).kind = "second"
  PROVE  Completes(Head(s), a, <<x, Head(s).value>>)
<1> DEFINE b == Head(s)
<1>1. b = s[1] /\ b \in SerialBytes /\ b.kind = "second" /\ b.of.byte[2] = b.value
  BY HeadFollowed
<1>2. n = 0
  BY <1>1 DEF AfterFirst
<1>3. b.of.address = a /\ b.of.byte[1] = x
  BY <1>1, <1>2 DEF AfterFirst
<1>4. b.of.byte \in AllBytes
  BY <1>1 DEF SerialBytes
<1>5. b.of.byte = <<b.of.byte[1], b.of.byte[2]>>
  BY <1>4 DEF AllBytes
<1>6. QED
  BY <1>1, <1>3, <1>5 DEF Completes

-----------------------------------------------------------------------------
(* The serial port of the gateway.                                         *)

LEMMA PortReads ==
  ASSUME NEW s \in Seq(SerialBytes), s # <<>>, NEW d, NEW n, PortInStep(s, d, n)
  PROVE  PortInStep(Tail(s), d, n)
<1> DEFINE t == Tail(s)
<1>1. /\ Len(s) \in Nat /\ Len(s) >= 1 /\ Len(t) = Len(s) - 1
      /\ \A i \in 1..(Len(s) - 1) : t[i] = s[i + 1]
  OBVIOUS
<1> HIDE DEF t
<1>2. ASSUME NEW i \in 1..(Len(t) - 2),
             t[i].kind = "address", t[i + 1].kind = "first", t[i + 2].kind = "second"
      PROVE  Completes(t[i + 2], t[i].value, <<t[i + 1].value, t[i + 2].value>>)
  <2>1. i + 1 \in 1..(Len(s) - 2)
    BY <1>1, <1>2
  <2>2. t[i] = s[i + 1] /\ t[i + 1] = s[(i + 1) + 1] /\ t[i + 2] = s[(i + 1) + 2]
    BY <1>1, <1>2
  <2>3. QED
    BY <1>2, <2>1, <2>2 DEF PortInStep
<1>3. Len(t) >= 1 => t[Len(t)] = s[Len(s)]
  BY <1>1
<1>4. Len(t) >= 2 => t[Len(t) - 1] = s[Len(s) - 1]
  BY <1>1
<1>5. Len(t) >= 1 /\ t[Len(t)].kind = "address" => AfterAddress(d, n, t[Len(t)].value)
  BY <1>1, <1>3 DEF PortInStep
<1>6. Len(t) >= 2 /\ t[Len(t) - 1].kind = "address" /\ t[Len(t)].kind = "first"
        => AfterFirst(d, n, t[Len(t) - 1].value, t[Len(t)].value)
  BY <1>1, <1>3, <1>4 DEF PortInStep
<1>7. PortInStep(t, d, n)
  BY <1>2, <1>5, <1>6 DEF PortInStep
<1>8. QED
  BY <1>7 DEF t

LEMMA PortReceives ==
  ASSUME NEW s \in Seq(SerialBytes), NEW d \in Seq(SerialBytes), d # <<>>, Follows(d),
         NEW n \in 0..2, PortInStep(s, d, n)
  PROVE  PortInStep(Append(s, Head(d)), Tail(d), 0)
<1> DEFINE b == Head(d)
           r == Tail(d)
           t == Append(s, b)
           m == Len(s)
<1>1. b \in SerialBytes
  BY HeadFollowed
<1>2. /\ m \in Nat /\ Len(t) = m + 1 /\ t[m + 1] = b
      /\ \A i \in 1..m : t[i] = s[i]
  BY <1>1
<1>3. b.kind = "address" => AfterAddress(r, 0, b.value)
  BY AfterHead
<1>4. \A a \in Addresses : b.kind = "first" /\ AfterAddress(d, n, a)
                               => AfterFirst(r, 0, a, b.value)
  BY AfterHead
<1>5. \A a, x : b.kind = "second" /\ AfterFirst(d, n, a, x)
                   => Completes(b, a, <<x, b.value>>)
  BY AfterFirstCompletes
<1>6. \A i \in 1..m : s[i] \in SerialBytes
  OBVIOUS
<1> HIDE DEF b, r, t
<1>7. ASSUME NEW i \in 1..(Len(t) - 2),
             t[i].kind = "address", t[i + 1].kind = "first", t[i + 2].kind = "second"
      PROVE  Completes(t[i + 2], t[i].value, <<t[i + 1].value, t[i + 2].value>>)
  <2>1. i \in 1..m /\ i + 1 \in 1..m /\ (i + 2 \in 1..m \/ i + 1 = m)
    BY <1>2, <1>7
  <2>2. t[i] = s[i] /\ t[i + 1] = s[i + 1]
    BY <1>2, <2>1
  <2>3. CASE i + 2 \in 1..m
    <3>1. t[i + 2] = s[i + 2] /\ i \in 1..(m - 2)
      BY <1>2, <2>1, <2>3
    <3>2. QED
      BY <1>7, <2>2, <3>1 DEF PortInStep
  <2>4. CASE i + 1 = m
    <3>1. m >= 2 /\ i = m - 1 /\ i + 2 = m + 1
      BY <1>2, <2>1, <2>4
    <3>2. t[i + 2] = b
      BY <1>2, <3>1
    <3>3. s[m - 1].kind = "address" /\ s[m].kind = "first"
      BY <1>7, <2>2, <2>4, <3>1
    <3>4. AfterFirst(d, n, s[m - 1].value, s[m].value)
      BY <3>1, <3>3 DEF PortInStep
    <3>5. Completes(b, s[m - 1].value, <<s[m].value, b.value>>)
      BY <1>5, <1>7, <3>2, <3>4
    <3>6. QED
      BY <2>2, <2>4, <3>1, <3>2, <3>5
  <2>5. QED
    BY <2>1, <2>3, <2>4
<1>8. t[Len(t)] = b
  BY <1>2
<1>9. ASSUME Len(t) >= 2, t[Len(t) - 1].kind = "address", b.kind = "first"
      PROVE  AfterFirst(r, 0, t[Len(t) - 1].value, b.value)
  <2>1. m >= 1 /\ t[Len(t) - 1] = s[m] /\ m \in 1..m
    BY <1>2, <1>9
  <2>2. AfterAddress(d, n, s[m].value)
    BY <1>9, <2>1 DEF PortInStep
  <2>3. s[m].value \in Addresses
    BY <1>6, <1>9, <2>1, SerialByteFields
  <2>4. QED
    BY <1>4, <1>9, <2>1, <2>2, <2>3
<1>10. PortInStep(t, r, 0)
  BY <1>3, <1>7, <1>8, <1>9 DEF PortInStep
<1>11. QED
  BY <1>10 DEF t, r, b

-----------------------------------------------------------------------------
(* The steps.                                                              *)

LEMMA Lost ==
  ASSUME IInv, Assumed
  PROVE  /\ lost_up \in 0..1 /\ lost_down \in 0..2
         /\ lost_up < MAX_LOST_UP => lost_up = 0
         /\ lost_down < MAX_LOST_DOWN => lost_down \in 0..1
BY Numbers DEF IInv, TypeOK, Assumed

LEMMA Lines ==
  ASSUME IInv
  PROVE  /\ up \in Seq(SerialBytes) /\ down \in Seq(SerialBytes)
         /\ serial_in \in Seq(SerialBytes)
         /\ at = Server(1) => Len(serial_in) >= 2
         /\ at = Server(2) => Len(serial_in) >= 1
BY DEF IInv, TypeOK, RestOfFrame

LEMMA InitialFrames == Init => FInv
<1> SUFFICES ASSUME Init PROVE FInv
  OBVIOUS
<1>1. up = <<>> /\ down = <<>> /\ serial_in = <<>>
  BY DEF Init
<1>2. Follows(up) /\ Follows(down)
  BY <1>1 DEF Follows
<1>3. ReaderInStep
  BY DEF Init, Start, ReaderInStep
<1>4. PortInStep(serial_in, down, lost_down)
  BY <1>1 DEF PortInStep
<1>5. WriteInStep
  BY Places DEF Init, NoWrite, WriteInStep
<1>6. QED
  BY <1>2, <1>3, <1>4, <1>5 DEF FInv

(* A round of polling: one more frame at the end of the line, at most.     *)
LEMMA PollsKeepFrames ==
  ASSUME IInv, Assumed, FInv, NEW c \in Addresses,
         NothingFrom(c) \/ PollBuffer(c) \/ PollLine(c) \/ PollFails(c)
  PROVE  FInv'
<1>1. /\ at = c /\ at' = c + 1
      /\ UNCHANGED <<write, serial_in, down, reader, lost_up, lost_down>>
  BY DEF NothingFrom, PollBuffer, PollLine, PollFails, NextChannel, router
<1>2. \/ UNCHANGED up
      \/ \E b \in AllBytes, from \in Addresses : up' = up \o Frame(c, b, from)
  <2>1. CASE PollBuffer(c)
    <3>1. buffer # <<>> /\ up' = up \o Frame(c, Head(buffer).byte, Head(buffer).from)
      BY <2>1 DEF PollBuffer
    <3>2. buffer \in Seq(Buffered)
      BY DEF IInv, TypeOK, Buffered
    <3>3. Head(buffer) \in Buffered
      BY <3>1, <3>2
    <3>4. QED
      BY <3>1, <3>3 DEF Buffered
  <2>2. CASE PollLine(c)
    BY <2>2 DEF PollLine, IInv, TypeOK
  <2>3. CASE NothingFrom(c) \/ PollFails(c)
    BY <2>3 DEF NothingFrom, PollFails
  <2>4. QED
    BY <2>1, <2>2, <2>3
<1>3. Follows(up')
  BY <1>2, Lines, JoinedFollows DEF FInv
<1>4. ReaderInStep'
  <2>1. CASE UNCHANGED up
    BY <1>1, <2>1 DEF FInv, ReaderInStep
  <2>2. CASE \E b \in AllBytes, from \in Addresses : up' = up \o Frame(c, b, from)
    <3>1. lost_up \in 0..2
      BY Lost
    <3>2. \A a, x : /\ AfterAddress(up, lost_up, a) => AfterAddress(up', lost_up, a)
                    /\ AfterFirst(up, lost_up, a, x) => AfterFirst(up', lost_up, a, x)
      BY <2>2, <3>1, Lines, AfterWrite
    <3>3. QED
      BY <1>1, <3>2 DEF FInv, ReaderInStep
  <2>3. QED
    BY <1>2, <2>1, <2>2
<1>5. WriteInStep'
  <2>1. at # Server(2) /\ at # Writing
    BY <1>1, Numbers DEF Addresses, Server, Writing
  <2>2. write.byte = <<>>
    BY <2>1 DEF FInv, WriteInStep
  <2>3. at' # Server(1) /\ at' # Server(2)
    BY <1>1, Places
  <2>4. QED
    BY <1>1, <2>2, <2>3 DEF WriteInStep
<1>6. QED
  BY <1>1, <1>3, <1>4, <1>5 DEF FInv

LEMMA ReadSerialKeepsFrames ==
  ASSUME IInv, FInv, NEW n \in 0..2, ReadSerial(n)
  PROVE  FInv'
<1> DEFINE b == Head(serial_in)
           s == serial_in
<1>1. /\ at = Server(n)
      /\ n = 0 => Len(s) >= 3
      /\ serial_in' = Tail(s)
      /\ UNCHANGED <<down, up, reader, lost_up, lost_down>>
  BY DEF ReadSerial, router
<1>2. s # <<>> /\ Len(s) >= 3 - n
  <2>1. s \in Seq(SerialBytes) /\ Len(s) \in Nat
    BY Lines
  <2>2. Len(s) >= 3 - n
    <3>1. CASE n = 0
      BY <1>1, <2>1, <3>1
    <3>2. CASE n = 1
      BY <1>1, <2>1, <3>2, Lines
    <3>3. CASE n = 2
      BY <1>1, <2>1, <3>3, Lines
    <3>4. QED
      BY <3>1, <3>2, <3>3
  <2>3. QED
    BY <2>1, <2>2
<1>3. Follows(up') /\ Follows(down') /\ ReaderInStep'
  BY <1>1 DEF FInv, ReaderInStep
<1>4. PortInStep(serial_in', down', lost_down')
  BY <1>1, <1>2, Lines, PortReads DEF FInv
<1>5. WriteInStep'
  <2>1. CASE ~Expected(n, b)
    <3>1. at' = 0 /\ write' = NoWrite
      BY <2>1 DEF ReadSerial
    <3>2. QED
      BY <3>1, Places DEF NoWrite, WriteInStep
  <2>2. /\ Len(s) \in Nat /\ b = s[1]
        /\ \A i \in 1..(Len(s) - 1) : serial_in'[i] = s[i + 1]
    BY <1>1, <1>2, Lines
  <2>3. CASE Expected(n, b) /\ n = 0
    <3>1. at' = at + 1 /\ write' = [write EXCEPT !.to = b.value]
      BY <2>3 DEF ReadSerial
    <3>2. at' = Server(1) /\ at' # Server(2) /\ at' # Writing
      BY <1>1, <2>3, <3>1, Places
    <3>3. at # Server(2) /\ at # Writing
      BY <1>1, <2>3, Places
    <3>4. write \in Writes
      BY DEF IInv, TypeOK, Writes
    <3>5. write'.to = b.value /\ write'.byte = <<>>
      BY <3>1, <3>3, <3>4 DEF FInv, WriteInStep, Writes
    <3>6. 1 \in 1..(Len(s) - 2) /\ s[1].kind = "address"
      BY <1>1, <2>2, <2>3 DEF Expected
    <3>7. s[1 + 1].kind = "first" /\ s[1 + 2].kind = "second"
            => Completes(s[1 + 2], s[1].value, <<s[1 + 1].value, s[1 + 2].value>>)
      BY <3>6 DEF FInv, PortInStep
    <3>8. serial_in'[1] = s[2] /\ serial_in'[2] = s[3]
      BY <2>2, <3>6
    <3>9. serial_in'[1].kind = "first" /\ serial_in'[2].kind = "second"
            => Completes(serial_in'[2], write'.to, <<serial_in'[1].value, serial_in'[2].value>>)
      BY <2>2, <3>5, <3>7, <3>8
    <3>10. QED
      BY <3>2, <3>5, <3>9 DEF WriteInStep
  <2>4. CASE Expected(n, b) /\ n = 1
    <3>1. at' = at + 1 /\ write' = [write EXCEPT !.byte = Append(write.byte, b.value)]
      BY <2>4 DEF ReadSerial
    <3>2. at' = Server(2) /\ at' # Server(1) /\ at' # Writing /\ at = Server(1)
      BY <1>1, <2>4, <3>1, Places
    <3>3. write \in Writes /\ write.byte = <<>>
      BY <3>2, Places DEF IInv, TypeOK, Writes, FInv, WriteInStep
    <3>4. write'.to = write.to /\ write'.byte = <<b.value>>
      BY <3>1, <3>3 DEF Writes
    <3>5. b.kind = "first"
      BY <2>4 DEF Expected
    <3>6. s[2].kind = "second" => Completes(s[2], write.to, <<s[1].value, s[2].value>>)
      BY <2>2, <3>2, <3>5 DEF FInv, WriteInStep
    <3>7. serial_in'[1] = s[2]
      BY <1>2, <2>2, <2>4
    <3>8. serial_in'[1].kind = "second"
            => Completes(serial_in'[1], write'.to, <<write'.byte[1], serial_in'[1].value>>)
      BY <2>2, <3>4, <3>6, <3>7
    <3>9. write'.byte = <<write'.byte[1]>>
      BY <3>4
    <3>10. QED
      BY <3>2, <3>8, <3>9 DEF WriteInStep
  <2>5. CASE Expected(n, b) /\ n = 2
    <3>1. at' = at + 1
      BY <2>5 DEF ReadSerial
    <3>2. at' = Writing /\ at' # Server(1) /\ at' # Server(2)
      BY <1>1, <2>5, <3>1, Places
    <3>3. QED
      BY <3>2 DEF WriteInStep
  <2>6. QED
    BY <2>1, <2>3, <2>4, <2>5
<1>6. QED
  BY <1>3, <1>4, <1>5 DEF FInv

(* The end of a round, and the reads before a write.                       *)
LEMMA RoundEndKeepsFrames ==
  ASSUME IInv, FInv, NothingFromServer \/ WriteEnds \/ PreWriteRead
  PROVE  FInv'
<1>1. UNCHANGED <<serial_in, down, up, reader, lost_up, lost_down>>
  BY DEF NothingFromServer, WriteEnds, PreWriteRead, router
<1>2. WriteInStep'
  <2>1. CASE NothingFromServer
    <3>1. at = Server(0) /\ at' = 0 /\ write' = write
      BY <2>1 DEF NothingFromServer
    <3>2. at # Server(2) /\ at # Writing
      BY <3>1, Places
    <3>3. QED
      BY <3>1, <3>2, Places DEF FInv, WriteInStep
  <2>2. CASE at' = 0 /\ write' = NoWrite
    BY <2>2, Places DEF WriteInStep, NoWrite
  <2>3. CASE at' = at /\ at = Writing
    <3>1. at' # Server(1) /\ at' # Server(2) /\ at' = Writing
      BY <2>3, Places
    <3>2. QED
      BY <3>1 DEF WriteInStep
  <2>4. QED
    BY <2>1, <2>2, <2>3 DEF WriteEnds, PreWriteRead
<1>3. QED
  BY <1>1, <1>2 DEF FInv, ReaderInStep

LEMMA ArrivalKeepsFrames ==
  ASSUME IInv, Assumed, FInv, Arrives
  PROVE  FInv'
<1>1. /\ down # <<>> /\ down' = Tail(down)
      /\ UNCHANGED <<at, write, up, reader, lost_up>>
  BY DEF Arrives, gateway, router
<1>2. Follows(down') /\ Follows(up') /\ ReaderInStep'
  BY <1>1, Lines, TailFollows DEF FInv, ReaderInStep
<1>3. CASE Len(serial_in) < SERIAL_BUFFER_SIZE
  <2>1. serial_in' = Append(serial_in, Head(down)) /\ lost_down' = 0
    BY <1>3 DEF Arrives
  <2>2. PortInStep(serial_in', down', lost_down')
    BY <1>1, <2>1, Lines, Lost, PortReceives DEF FInv
  <2>3. /\ Len(serial_in) >= 1 => serial_in'[1] = serial_in[1]
        /\ Len(serial_in) >= 2 => serial_in'[2] = serial_in[2]
    <3>1. Head(down) \in SerialBytes
      BY <1>1, Lines, HeadFollowed DEF FInv
    <3>2. QED
      BY <2>1, <3>1, Lines
  <2>4. WriteInStep'
    <3>1. at = Server(1) => serial_in'[1] = serial_in[1] /\ serial_in'[2] = serial_in[2]
      <4>1. Len(serial_in) \in Nat
        BY Lines
      <4>2. QED
        BY <2>3, <4>1, Lines
    <3>2. at = Server(2) => serial_in'[1] = serial_in[1]
      BY <2>3, Lines
    <3>3. QED
      BY <1>1, <3>1, <3>2 DEF FInv, WriteInStep
  <2>5. QED
    BY <1>2, <2>2, <2>4 DEF FInv
<1>4. CASE ~(Len(serial_in) < SERIAL_BUFFER_SIZE)
  <2>1. lost_down \in 0..1 /\ lost_down' = lost_down + 1 /\ serial_in' = serial_in
    BY <1>4, Lost DEF Arrives
  <2>2. \A a, x : /\ AfterAddress(down, lost_down, a) => AfterAddress(down', lost_down', a)
                  /\ AfterFirst(down, lost_down, a, x) => AfterFirst(down', lost_down', a, x)
    BY <1>1, <2>1, Lines, AfterLoss DEF FInv
  <2>3. PortInStep(serial_in', down', lost_down')
    BY <2>1, <2>2 DEF FInv, PortInStep
  <2>4. WriteInStep'
    BY <1>1, <2>1 DEF FInv, WriteInStep
  <2>5. QED
    BY <1>2, <2>3, <2>4 DEF FInv
<1>5. QED
  BY <1>3, <1>4

LEMMA LossKeepsFrames ==
  ASSUME IInv, Assumed, FInv, Lose
  PROVE  FInv'
<1>1. /\ up # <<>> /\ up' = Tail(up) /\ lost_up < MAX_LOST_UP /\ lost_up' = lost_up + 1
      /\ UNCHANGED <<at, write, serial_in, down, reader, lost_down>>
  BY DEF Lose, gateway, router
<1>2. lost_up = 0
  BY <1>1, Lost
<1>3. \A a, x : /\ AfterAddress(up, lost_up, a) => AfterAddress(up', lost_up', a)
                /\ AfterFirst(up, lost_up, a, x) => AfterFirst(up', lost_up', a, x)
  BY <1>1, <1>2, Lines, AfterLoss DEF FInv
<1>4. Follows(up')
  BY <1>1, Lines, TailFollows DEF FInv
<1>5. ReaderInStep'
  BY <1>1, <1>3 DEF FInv, ReaderInStep
<1>6. QED
  BY <1>1, <1>4, <1>5 DEF FInv, WriteInStep

LEMMA RouterReadsKeepsFrames ==
  ASSUME IInv, Assumed, FInv, RouterReads
  PROVE  FInv'
<1> DEFINE b == Head(up)
<1>1. /\ up # <<>> /\ up' = Tail(up) /\ reader' = Feed(reader, b) /\ lost_up' = 0
      /\ UNCHANGED <<at, write, serial_in, down, lost_down>>
  BY DEF RouterReads, gateway
<1>2. Follows(up')
  BY <1>1, Lines, TailFollows DEF FInv
<1>3. ReaderInStep'
  <2>1. reader \in Readers /\ reader.address \in Addresses
    BY DEF IInv, TypeOK, Readers, States
  <2>2. CASE Accepts(reader, b) /\ reader.state = "read_address"
    <3>1. reader' = [Start EXCEPT !.state = "read_first_nibble", !.address = b.value]
      BY <1>1, <2>2 DEF Feed
    <3>2. reader'.state = "read_first_nibble" /\ reader'.address = b.value
      BY <3>1 DEF Start
    <3>3. b.kind = "address"
      BY <2>2 DEF Accepts
    <3>4. AfterAddress(up', 0, b.value)
      BY <1>1, <3>3, Lines, AfterHead DEF FInv
    <3>5. QED
      BY <1>1, <3>2, <3>4 DEF ReaderInStep
  <2>3. CASE Accepts(reader, b) /\ reader.state = "read_first_nibble"
    <3>1. reader' = [reader EXCEPT !.state = "read_second_nibble", !.nibble = b.value]
      BY <1>1, <2>3 DEF Feed
    <3>2. /\ reader'.state = "read_second_nibble" /\ reader'.address = reader.address
          /\ reader'.nibble = b.value
      BY <2>1, <3>1 DEF Readers
    <3>3. b.kind = "first"
      BY <2>3 DEF Accepts
    <3>4. AfterAddress(up, lost_up, reader.address) /\ lost_up \in 0..2
      BY <2>3, Lost DEF FInv, ReaderInStep
    <3>5. AfterFirst(up', 0, reader.address, b.value)
      BY <1>1, <2>1, <3>3, <3>4, Lines, AfterHead DEF FInv
    <3>6. QED
      BY <1>1, <3>2, <3>5 DEF ReaderInStep
  <2>4. CASE ~Accepts(reader, b) \/ reader.state = "read_second_nibble"
    <3>1. reader' = Start
      BY <1>1, <2>4 DEF Feed
    <3>2. QED
      BY <3>1 DEF Start, ReaderInStep
  <2>5. QED
    BY <2>1, <2>2, <2>3, <2>4 DEF Readers, States
<1>4. QED
  BY <1>1, <1>2, <1>3 DEF FInv, WriteInStep

LEMMA RouterWritesKeepsFrames ==
  ASSUME IInv, Assumed, FInv, NEW c \in Addresses, NEW b \in ServerBytes, RouterWrites(c, b)
  PROVE  FInv'
<1>1. /\ down' = down \o Frame(c, b, c)
      /\ UNCHANGED <<at, write, serial_in, up, reader, lost_up, lost_down>>
  BY DEF RouterWrites, gateway, router
<1>2. b \in AllBytes
  BY BytesHaveTypes
<1>3. Follows(down')
  BY <1>1, <1>2, Lines, JoinedFollows DEF FInv
<1>4. \A a, x : /\ AfterAddress(down, lost_down, a) => AfterAddress(down', lost_down, a)
                /\ AfterFirst(down, lost_down, a, x) => AfterFirst(down', lost_down, a, x)
  BY <1>1, <1>2, Lines, Lost, AfterWrite
<1>5. PortInStep(serial_in', down', lost_down')
  BY <1>1, <1>4 DEF FInv, PortInStep
<1>6. QED
  BY <1>1, <1>3, <1>5 DEF FInv, ReaderInStep, WriteInStep

LEMMA StepKeepsFrames ==
  ASSUME IInv, Assumed, FInv, [Next]_vars
  PROVE  FInv'
<1>1. CASE UNCHANGED vars
  BY <1>1 DEF FInv, ReaderInStep, WriteInStep, vars, gateway, router
<1>2. CASE \E c \in Addresses : DeviceGivesUp(c) \/ \E b \in DeviceBytes : DeviceWrites(c, b)
  <2>1. UNCHANGED <<at, write, serial_in, down, up, reader, lost_up, lost_down>>
    BY <1>2 DEF DeviceGivesUp, DeviceWrites, gateway, router
  <2>2. QED
    BY <2>1 DEF FInv, ReaderInStep, WriteInStep
<1>3. CASE Loop
  <2>1. CASE \E c \in Addresses : NothingFrom(c) \/ PollBuffer(c) \/ PollLine(c) \/ PollFails(c)
    BY <2>1, PollsKeepFrames
  <2>2. CASE \E n \in 0..2 : ReadSerial(n)
    BY <2>2, ReadSerialKeepsFrames
  <2>3. CASE NothingFromServer \/ WriteEnds \/ PreWriteRead
    BY <2>3, RoundEndKeepsFrames
  <2>4. QED
    BY <1>3, <2>1, <2>2, <2>3 DEF Loop
<1>4. CASE Arrives
  BY <1>4, ArrivalKeepsFrames
<1>5. CASE Lose
  BY <1>5, LossKeepsFrames
<1>6. CASE RouterReads
  BY <1>6, RouterReadsKeepsFrames
<1>7. CASE \E c \in Addresses, b \in ServerBytes : RouterWrites(c, b)
  BY <1>7, RouterWritesKeepsFrames
<1>8. QED
  BY <1>1, <1>2, <1>3, <1>4, <1>5, <1>6, <1>7 DEF Next

-----------------------------------------------------------------------------
LEMMA FramesInvariance ==
  ASSUME Assumed
  PROVE  Spec => [](IInv /\ FInv)
<1>1. Init => FInv
  BY InitialFrames
<1>2. IInv /\ FInv /\ [Next]_vars => FInv'
  BY StepKeepsFrames
<1>3. QED
  BY <1>1, <1>2, Invariance, PTL DEF Spec

LEMMA AppendToOne ==
  ASSUME NEW S, NEW x \in S, NEW y \in S
  PROVE  Append(<<x>>, y) = <<x, y>>
<1>1. Append(<<x>>, y) \in Seq(S) /\ <<x, y>> \in Seq(S)
  OBVIOUS
<1>2. Len(Append(<<x>>, y)) = 2 /\ Len(<<x, y>>) = 2
  OBVIOUS
<1>3. Append(<<x>>, y)[1] = x /\ Append(<<x>>, y)[2] = y
  OBVIOUS
<1>4. \A i \in 1..2 : Append(<<x>>, y)[i] = <<x, y>>[i]
  BY <1>3
<1>5. QED
  BY <1>1, <1>2, <1>4, SeqEqual

LEMMA WholeByInvariant ==
  ASSUME IInv, Assumed, FInv
  PROVE  WholeFrames
<1>1. ASSUME up # <<>>, NEW d \in Received(reader, Head(up))
      PROVE  Completes(Head(up), d.address, d.byte)
  <2>1. /\ reader.state = "read_second_nibble" /\ Head(up).kind \in {"first", "second"}
        /\ d = [address |-> reader.address, byte |-> <<reader.nibble, Head(up).value>>]
    BY <1>1 DEF Received, Accepts
  <2>2. AfterFirst(up, lost_up, reader.address, reader.nibble) /\ lost_up \in 0..1
    BY <2>1, Lost DEF FInv, ReaderInStep
  <2>3. Head(up) = up[1]
    BY <1>1, Lines
  <2>4. Head(up).kind = "second"
    BY <1>1, <2>1, <2>2, <2>3 DEF AfterFirst
  <2>5. QED
    BY <1>1, <2>1, <2>2, <2>4, Lines, AfterFirstCompletes DEF FInv
<1>2. ASSUME at = Server(2), Expected(2, Head(serial_in))
      PROVE  Completes(Head(serial_in), write.to, Append(write.byte, Head(serial_in).value))
  <2>1. Head(serial_in) = serial_in[1]
    <3>1. serial_in # <<>>
      BY <1>2, Lines
    <3>2. QED
      BY <3>1, Lines
  <2>2. serial_in[1].kind = "second"
    BY <1>2, <2>1 DEF Expected
  <2>3. /\ write.byte = <<write.byte[1]>>
        /\ Completes(serial_in[1], write.to, <<write.byte[1], serial_in[1].value>>)
    BY <1>2, <2>2 DEF FInv, WriteInStep
  <2>4. Append(write.byte, serial_in[1].value) = <<write.byte[1], serial_in[1].value>>
    <3>1. serial_in[1] \in SerialBytes
      BY <1>2, Lines
    <3>2. serial_in[1].value \in Nibbles
      BY <2>2, <3>1, SerialByteFields
    <3>3. write.byte \in Seq(Nibbles) /\ Len(<<write.byte[1]>>) = 1
      BY DEF IInv, TypeOK
    <3>4. write.byte[1] \in Nibbles
      <4>1. Len(write.byte) = 1
        BY <2>3, <3>3
      <4>2. QED
        BY <3>3, <4>1
    <3>5. QED
      BY <2>3, <3>2, <3>4, AppendToOne
  <2>5. QED
    BY <2>1, <2>3, <2>4
<1>3. QED
  BY <1>1, <1>2 DEF WholeFrames

(* A frame that loses bytes never lends its nibbles or its address to      *)
(* another, as long as the line to the router loses no two bytes in a row  *)
(* and the gateway's serial port no three.  On the readers of gatewayio.py *)
(* and of RouteDataFromServer.                                             *)
THEOREM FramesStayWhole ==
  ASSUME MAX_LOST_UP <= 1, MAX_LOST_DOWN <= 2
  PROVE  Spec => []WholeFrames
<1>1. Assumed
  BY DEF Assumed
<1>2. IInv /\ FInv => WholeFrames
  BY <1>1, WholeByInvariant
<1>3. QED
  BY <1>1, <1>2, FramesInvariance, PTL

=============================================================================
