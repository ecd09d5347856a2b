---------------------------- MODULE G722_proofs ----------------------------
(***************************************************************************)
(* The G.722 codec, for any signal, any number of codes in flight and any  *)
(* number of lost codes.                                                   *)
(***************************************************************************)
EXTENDS G722, SeqLemmas

-----------------------------------------------------------------------------
(* Packing keeps the codes: each way of moving bits (Pack, Unpack, Lose)   *)
(* preserves Conserved and the bounds of the two buffers, and what Unpack  *)
(* takes is the oldest code in flight.                                     *)
Bit == {0, 1}

PackOK ==
  /\ bits \in Rates
  /\ packed \in BOOLEAN
  /\ inb \in Seq(Bit) /\ wire \in Seq(Bit) /\ out \in Seq(Bit)
  /\ flight \in Seq(Code)
  /\ Len(inb) < 8 /\ Len(out) < 8
  /\ Len(wire) % 8 = 0
  /\ Conserved

(* The place of bit k in codes of b bits. *)
LEMMA Place ==
  ASSUME NEW b \in Rates, NEW n \in Nat, NEW k \in 1..(b * n)
  PROVE  /\ ((k - 1) \div b) + 1 \in 1..n
         /\ ((k - 1) % b) + 1 \in 1..b
         /\ k = b * ((k - 1) \div b) + ((k - 1) % b) + 1
<1>1. CASE b = 6
  BY <1>1
<1>2. CASE b = 7
  BY <1>2
<1>3. CASE b = 8
  BY <1>3
<1>. QED
  BY <1>1, <1>2, <1>3 DEF Rates

LEMMA PlaceLast ==
  ASSUME NEW b \in Rates, NEW n \in Nat, NEW k \in (b * n + 1)..(b * n + b)
  PROVE  /\ ((k - 1) \div b) + 1 = n + 1
         /\ ((k - 1) % b) + 1 = k - b * n
<1>1. CASE b = 6
  BY <1>1
<1>2. CASE b = 7
  BY <1>2
<1>3. CASE b = 8
  BY <1>3
<1>. QED
  BY <1>1, <1>2, <1>3 DEF Rates

LEMMA PlaceNext ==
  ASSUME NEW b \in Rates, NEW k \in Nat \ {0}
  PROVE  /\ ((b + k) - 1) \div b = ((k - 1) \div b) + 1
         /\ ((b + k) - 1) % b = (k - 1) % b
         /\ (k - 1) \div b \in Nat
<1>1. CASE b = 6
  BY <1>1
<1>2. CASE b = 7
  BY <1>2
<1>3. CASE b = 8
  BY <1>3
<1>. QED
  BY <1>1, <1>2, <1>3 DEF Rates

LEMMA CodeIsSeq ==
  ASSUME NEW c \in Code, bits \in Rates
  PROVE  c \in Seq(Bit) /\ Len(c) = bits
BY DEF Code, Rates, Bit

LEMMA StreamIsRow == Stream = Row(inb, wire, out)
BY DEF Stream, Row

-----------------------------------------------------------------------------
(* What Pack and Unpack do to the three queues of bits. *)
LEMMA PackStream ==
  ASSUME PackOK, packed, NEW c \in Code, Pack(c)
  PROVE  /\ wire' \in Seq(Bit) /\ out' \in Seq(Bit)
         /\ Len(out') < 8 /\ Len(wire') % 8 = 0
         /\ Stream' = Stream \o c
<1>1. bits \in 0..8 /\ bits \in Rates
  BY DEF PackOK, Rates
<1>2. inb \in Seq(Bit) /\ wire \in Seq(Bit) /\ out \in Seq(Bit)
  BY DEF PackOK
<1>3. Len(out) < 8 /\ Len(wire) % 8 = 0
  BY DEF PackOK
<1>4. Len(out) \in Nat /\ Len(wire) \in Nat
  BY <1>2, LenProperties
<1>5. c \in Seq(Bit) /\ Len(c) = bits
  BY <1>1, CodeIsSeq
<1>6. out \o c \in Seq(Bit) /\ Len(out \o c) = Len(out) + Len(c)
  BY <1>2, <1>5, ConcatProperties
<1>7. Row(inb, wire, out \o c) = Stream \o c
  <2>1. RowEndsWith(inb, wire, out, c)
    BY <1>2, <1>5, RowEnd
  <2>. QED
    BY <2>1, StreamIsRow DEF RowEndsWith
<1>8. PICK o : o = out \o c
  OBVIOUS
<1>9. o \in Seq(Bit) /\ Len(o) = Len(out) + bits
  BY <1>5, <1>6, <1>8
<1>10. Stream' = Row(inb, wire', out')
  BY DEF Stream, Row, Pack
<1>11. CASE Len(o) >= 8
  <2>1. wire' = wire \o SubSeq(o, 1, 8) /\ out' = SubSeq(o, 9, Len(o))
    BY <1>8, <1>11 DEF Pack
  <2>2. 8 \in 0..Len(o)
    BY <1>1, <1>4, <1>9, <1>11
  <2>3. PICK f, t : f = SubSeq(o, 1, 8) /\ t = SubSeq(o, 9, Len(o))
    OBVIOUS
  <2>4. CutAt(Bit, o, 8, f, t)
    <3>1. CutAt(Bit, o, 8, SubSeq(o, 1, 8), SubSeq(o, 8 + 1, Len(o)))
      BY <1>9, <2>2, Cut
    <3>2. 8 + 1 = 9
      OBVIOUS
    <3>. QED
      BY <3>1, <3>2, <2>3
  <2>5. MovedOut(Bit, inb, wire, o, 8, f, t)
    BY <1>2, <1>9, <2>4, MoveOut
  <2>6. wire \o f \in Seq(Bit) /\ Len(wire \o f) = Len(wire) + 8
    BY <2>5 DEF MovedOut
  <2>7. Row(inb, wire \o f, t) = Row(inb, wire, o)
    BY <2>5 DEF MovedOut
  <2>8. Stream' = Stream \o c
    BY <2>1, <2>3, <2>7, <1>7, <1>8, <1>10
  <2>9. t \in Seq(Bit) /\ Len(t) = Len(o) - 8
    BY <2>4 DEF CutAt
  <2>10. (Len(wire) + 8) % 8 = 0 /\ Len(o) - 8 < 8
    BY <1>1, <1>3, <1>4, <1>9
  <2>11. wire' = wire \o f /\ out' = t
    BY <2>1, <2>3
  <2>. QED
    BY <2>6, <2>8, <2>9, <2>10, <2>11
<1>12. CASE ~(Len(o) >= 8)
  <2>1. wire' = wire /\ out' = o
    BY <1>8, <1>12 DEF Pack
  <2>2. Len(o) < 8
    BY <1>1, <1>4, <1>9, <1>12
  <2>. QED
    BY <2>1, <2>2, <1>2, <1>3, <1>7, <1>8, <1>9, <1>10
<1>. QED
  BY <1>11, <1>12

LEMMA UnpackStream ==
  ASSUME PackOK, packed, Unpack
  PROVE  /\ inb' \in Seq(Bit) /\ wire' \in Seq(Bit)
         /\ Len(inb') < 8 /\ Len(wire') % 8 = 0
         /\ bits <= Len(Stream) /\ Len(Stream') = Len(Stream) - bits
         /\ NextCode \in Seq(Bit) /\ Len(NextCode) = bits
         /\ \A k \in 1..bits : NextCode[k] = Stream[k]
         /\ \A k \in 1..Len(Stream') : Stream'[k] = Stream[bits + k]
<1>1. bits \in 6..8
  BY DEF PackOK, Rates
<1>2. inb \in Seq(Bit) /\ wire \in Seq(Bit) /\ out \in Seq(Bit)
  BY DEF PackOK
<1>3. Len(inb) < 8 /\ Len(wire) % 8 = 0
  BY DEF PackOK
<1>4. Len(inb) \in Nat /\ Len(wire) \in Nat
  BY <1>2, LenProperties
<1>5. Len(wire) >= 8
  <2>1. Len(wire) \in Nat \ {0}
    BY <1>2, EmptySeq DEF Unpack
  <2>. QED
    BY <2>1, <1>3
<1>6. PICK u, t : u = Unread /\ t = wire'
  OBVIOUS
<1>7. /\ u \in Seq(Bit) /\ t \in Seq(Bit)
      /\ Len(u) \in bits..(bits + 7) /\ Len(t) % 8 = 0
      /\ Row(u, t, out) = Stream
  <2>1. CASE Len(inb) < bits
    <3>1. u = inb \o SubSeq(wire, 1, 8) /\ t = SubSeq(wire, 9, Len(wire))
      BY <2>1, <1>6 DEF Unread, Reads, Unpack
    <3>2. 8 \in 0..Len(wire)
      BY <1>4, <1>5
    <3>3. PICK f : f = SubSeq(wire, 1, 8)
      OBVIOUS
    <3>4. CutAt(Bit, wire, 8, f, t)
      <4>1. CutAt(Bit, wire, 8, SubSeq(wire, 1, 8), SubSeq(wire, 8 + 1, Len(wire)))
        BY <1>2, <3>2, Cut
      <4>2. 8 + 1 = 9
        OBVIOUS
      <4>. QED
        BY <4>1, <4>2, <3>1, <3>3
    <3>5. TakenIn(Bit, inb, wire, out, 8, f, t)
      BY <1>2, <3>4, TakeIn
    <3>6. inb \o f \in Seq(Bit) /\ Len(inb \o f) = Len(inb) + 8
      BY <3>5 DEF TakenIn
    <3>7. Row(inb \o f, t, out) = Row(inb, wire, out)
      BY <3>5 DEF TakenIn
    <3>8. t \in Seq(Bit) /\ Len(t) = Len(wire) - 8
      BY <3>4 DEF CutAt
    <3>9. Len(inb) + 8 \in bits..(bits + 7) /\ (Len(wire) - 8) % 8 = 0
      BY <1>1, <1>3, <1>4, <1>5, <2>1
    <3>10. u = inb \o f
      BY <3>1, <3>3
    <3>. QED
      BY <3>6, <3>7, <3>8, <3>9, <3>10, StreamIsRow
  <2>2. CASE ~(Len(inb) < bits)
    <3>1. u = inb /\ t = wire
      BY <2>2, <1>6 DEF Unread, Reads, Unpack
    <3>2. Len(inb) \in bits..(bits + 7)
      BY <1>1, <1>3, <1>4, <2>2
    <3>. QED
      BY <3>1, <3>2, <1>2, <1>3, StreamIsRow
  <2>. QED
    BY <2>1, <2>2
<1>8. PICK f, v : f = SubSeq(u, 1, bits) /\ v = SubSeq(u, bits + 1, Len(u))
  OBVIOUS
<1>9. NextCode = f /\ inb' = v /\ out' = out
  BY <1>6, <1>8 DEF Unpack, NextCode
<1>10. CutAt(Bit, u, bits, f, v)
  <2>1. bits \in 0..Len(u)
    BY <1>1, <1>7
  <2>. QED
    BY <2>1, <1>7, <1>8, Cut
<1>11. /\ v \in Seq(Bit) /\ Len(v) = Len(u) - bits
       /\ f \in Seq(Bit) /\ Len(f) = bits
       /\ \A k \in 1..bits : f[k] = u[k]
  BY <1>10 DEF CutAt
<1>12. Dropped1(u, t, out, bits, v)
  <2>1. bits \in 0..Len(u)
    BY <1>1, <1>7
  <2>2. u \in Seq(Bit) /\ t \in Seq(Bit)
    BY <1>7
  <2>. QED
    BY <2>1, <2>2, <1>2, <1>10, DropFirst
<1>13. Stream' = Row(v, t, out)
  BY <1>6, <1>9 DEF Stream, Row
<1>14. Stream = Row(u, t, out)
  BY <1>7
<1>15. /\ bits <= Len(Stream) /\ Len(Stream') = Len(Stream) - bits
       /\ \A k \in 1..bits : Stream[k] = u[k]
       /\ \A k \in 1..Len(Stream') : Stream'[k] = Stream[bits + k]
  BY <1>12, <1>13, <1>14 DEF Dropped1
<1>16. Len(v) < 8
  BY <1>1, <1>7, <1>11
<1>. QED
  BY <1>6, <1>7, <1>9, <1>11, <1>15, <1>16

-----------------------------------------------------------------------------
LEMMA StreamIsSeq ==
  ASSUME PackOK
  PROVE  Stream \in Seq(Bit) /\ Len(Stream) = Len(inb) + Len(wire) + Len(out)
<1>1. inb \in Seq(Bit) /\ wire \in Seq(Bit) /\ out \in Seq(Bit)
  BY DEF PackOK
<1>2. RowOf(Bit, inb, wire, out, Row(inb, wire, out))
  BY <1>1, RowProperties
<1>. QED
  BY <1>2, StreamIsRow DEF RowOf

(* Packed, a new code extends the stream and the codes in flight alike. *)
LEMMA PackPacked ==
  ASSUME PackOK, packed, NEW c \in Code, Pack(c)
  PROVE  PackOK'
<1>1. /\ bits \in Rates /\ packed \in BOOLEAN /\ inb \in Seq(Bit) /\ Len(inb) < 8
      /\ flight \in Seq(Code)
  BY DEF PackOK
<1>2. /\ Len(Stream) = bits * Len(flight)
      /\ \A k \in 1..Len(Stream) : Stream[k] = FlightBit(k)
  BY DEF PackOK, Conserved
<1>3. /\ wire' \in Seq(Bit) /\ out' \in Seq(Bit) /\ Len(out') < 8 /\ Len(wire') % 8 = 0
      /\ Stream' = Stream \o c
  BY PackStream
<1>4. bits' = bits /\ packed' = packed /\ inb' = inb /\ flight' = Append(flight, c)
  BY DEF Pack
<1>5. /\ flight' \in Seq(Code) /\ Len(flight') = Len(flight) + 1
      /\ \A n \in 1..Len(flight) : flight'[n] = flight[n]
      /\ flight'[Len(flight) + 1] = c
  BY <1>1, <1>4, AppendProperties
<1>6. c \in Seq(Bit) /\ Len(c) = bits
  BY <1>1, CodeIsSeq
<1>7. Len(Stream) \in Nat /\ Len(flight) \in Nat
  BY <1>1, StreamIsSeq, LenProperties
<1>8. PICK st : st = Stream
  OBVIOUS
<1>9. /\ Len(st \o c) = Len(st) + bits
      /\ \A k \in 1..(Len(st) + bits) : (st \o c)[k] = IF k <= Len(st) THEN st[k] ELSE c[k - Len(st)]
  <2>1. st \in Seq(Bit)
    BY <1>8, StreamIsSeq
  <2>. QED
    BY <2>1, <1>6, ConcatProperties
<1>10. Len(Stream') = bits * Len(flight')
  <2>1. Len(Stream') = Len(Stream) + bits
    BY <1>3, <1>8, <1>9
  <2>2. bits * (Len(flight) + 1) = bits * Len(flight) + bits
    BY <1>1, <1>7 DEF Rates
  <2>. QED
    BY <2>1, <2>2, <1>2, <1>5
<1>11. ASSUME NEW k \in 1..Len(Stream')
       PROVE  Stream'[k] = flight'[((k - 1) \div bits) + 1][((k - 1) % bits) + 1]
  <2>1. k \in 1..(Len(Stream) + bits)
    BY <1>3, <1>8, <1>9
  <2>2. Stream'[k] = IF k <= Len(Stream) THEN Stream[k] ELSE c[k - Len(Stream)]
    BY <2>1, <1>3, <1>8, <1>9
  <2>3. CASE k <= Len(Stream)
    <3>1. k \in 1..(bits * Len(flight)) /\ k \in 1..Len(Stream)
      BY <2>1, <2>3, <1>2
    <3>2. ((k - 1) \div bits) + 1 \in 1..Len(flight)
      BY <3>1, <1>1, <1>7, Place
    <3>. QED
      BY <3>1, <3>2, <2>2, <2>3, <1>2, <1>5 DEF FlightBit
  <2>4. CASE ~(k <= Len(Stream))
    <3>1. k \in (bits * Len(flight) + 1)..(bits * Len(flight) + bits)
      BY <2>1, <2>4, <1>2, <1>7
    <3>2. /\ ((k - 1) \div bits) + 1 = Len(flight) + 1
          /\ ((k - 1) % bits) + 1 = k - bits * Len(flight)
      BY <3>1, <1>1, <1>7, PlaceLast
    <3>. QED
      BY <3>2, <2>2, <2>4, <1>2, <1>5
  <2>. QED
    BY <2>3, <2>4
<1>12. Conserved'
  BY <1>4, <1>10, <1>11 DEF Conserved, FlightBit
<1>13. flight' \in Seq(Code')
  BY <1>4, <1>5 DEF Code
<1>. QED
  BY <1>1, <1>3, <1>4, <1>12, <1>13 DEF PackOK

(* Packed, what Unpack takes off the stream is the oldest code in flight. *)
LEMMA UnpackPacked ==
  ASSUME PackOK, packed, Unpack
  PROVE  PackOK' /\ flight # <<>> /\ NextCode = flight[1]
<1>1. /\ bits \in Rates /\ packed \in BOOLEAN /\ out \in Seq(Bit) /\ Len(out) < 8
      /\ flight \in Seq(Code)
  BY DEF PackOK
<1>2. /\ Len(Stream) = bits * Len(flight)
      /\ \A k \in 1..Len(Stream) : Stream[k] = FlightBit(k)
  BY DEF PackOK, Conserved
<1>3. bits' = bits /\ packed' = packed /\ out' = out /\ flight' = Tail(flight)
  BY DEF Unpack
<1>4. /\ inb' \in Seq(Bit) /\ wire' \in Seq(Bit) /\ Len(inb') < 8 /\ Len(wire') % 8 = 0
      /\ bits <= Len(Stream) /\ Len(Stream') = Len(Stream) - bits
      /\ NextCode \in Seq(Bit) /\ Len(NextCode) = bits
      /\ \A k \in 1..bits : NextCode[k] = Stream[k]
      /\ \A k \in 1..Len(Stream') : Stream'[k] = Stream[bits + k]
  BY UnpackStream
<1>5. Len(flight) \in Nat /\ Len(Stream) \in Nat
  BY <1>1, StreamIsSeq, LenProperties
<1>6. flight # <<>> /\ Len(flight) >= 1
  <2>1. ASSUME Len(flight) = 0 PROVE FALSE
    <3>1. bits * 0 = 0 /\ ~(bits <= 0)
      BY <1>1 DEF Rates
    <3>. QED
      BY <3>1, <2>1, <1>2, <1>4
  <2>2. Len(flight) >= 1
    BY <2>1, <1>5
  <2>. QED
    BY <2>1, <2>2, EmptySeq
<1>7. /\ flight' \in Seq(Code) /\ Len(flight') = Len(flight) - 1
      /\ \A n \in 1..(Len(flight) - 1) : flight'[n] = flight[n + 1]
  BY <1>1, <1>3, <1>6, HeadTailProperties
<1>8. Len(Stream') = bits * Len(flight')
  <2>1. bits * (Len(flight) - 1) = bits * Len(flight) - bits
    BY <1>1, <1>5 DEF Rates
  <2>. QED
    BY <2>1, <1>2, <1>4, <1>7
<1>9. ASSUME NEW k \in 1..Len(Stream')
      PROVE  Stream'[k] = flight'[((k - 1) \div bits) + 1][((k - 1) % bits) + 1]
  <2>1. k \in 1..(bits * (Len(flight) - 1)) /\ Len(flight) - 1 \in Nat /\ k \in Nat \ {0}
    BY <1>5, <1>6, <1>7, <1>8
  <2>2. bits + k \in 1..Len(Stream)
    BY <2>1, <1>1, <1>4, <1>5 DEF Rates
  <2>3. Stream'[k] = FlightBit(bits + k)
    BY <2>2, <1>2, <1>4
  <2>4. ((k - 1) \div bits) + 1 \in 1..(Len(flight) - 1)
    BY <2>1, <1>1, Place
  <2>5. /\ (((bits + k) - 1) \div bits) = ((k - 1) \div bits) + 1
        /\ ((bits + k) - 1) % bits = (k - 1) % bits
    BY <2>1, <1>1, PlaceNext
  <2>6. flight'[((k - 1) \div bits) + 1] = flight[(((k - 1) \div bits) + 1) + 1]
    BY <2>4, <1>7
  <2>. QED
    BY <2>3, <2>5, <2>6 DEF FlightBit
<1>10. Conserved'
  BY <1>3, <1>8, <1>9 DEF Conserved, FlightBit
<1>11. flight' \in Seq(Code')
  BY <1>3, <1>7 DEF Code
<1>12. PackOK'
  BY <1>1, <1>3, <1>4, <1>10, <1>11 DEF PackOK
<1>13. \A k \in 1..bits : NextCode[k] = flight[1][k]
  <2>1. \A k \in 1..bits : (k - 1) \div bits = 0 /\ ((k - 1) % bits) + 1 = k
    BY <1>1 DEF Rates
  <2>2. \A k \in 1..bits : k \in 1..Len(Stream)
    BY <1>1, <1>4, <1>5 DEF Rates
  <2>3. ASSUME NEW k \in 1..bits PROVE Stream[k] = flight[1][k]
    <3>1. Stream[k] = flight[((k - 1) \div bits) + 1][((k - 1) % bits) + 1]
      BY <2>2, <1>2 DEF FlightBit
    <3>2. ((k - 1) \div bits) + 1 = 1 /\ ((k - 1) % bits) + 1 = k
      BY <2>1
    <3>. QED
      BY <3>1, <3>2
  <2>4. \A k \in 1..bits : NextCode[k] = Stream[k]
    BY <1>4
  <2>. QED
    BY <2>3, <2>4
<1>14. NextCode = flight[1]
  <2>1. flight[1] \in Code
    BY <1>1, <1>5, <1>6, ElementOfSeq
  <2>2. flight[1] \in Seq(Bit) /\ Len(flight[1]) = bits
    BY <2>1, <1>1, CodeIsSeq
  <2>. QED
    BY <2>2, <1>4, <1>13, SeqEqual
<1>. QED
  BY <1>6, <1>12, <1>14

-----------------------------------------------------------------------------
LEMMA FunctionIsSeq ==
  ASSUME NEW S, NEW n \in Nat, NEW f \in [1..n -> S]
  PROVE  f \in Seq(S) /\ Len(f) = n
OBVIOUS

LEMMA PaddedIsSeq ==
  ASSUME bits \in Rates, NEW c \in Code
  PROVE  Padded(bits, c) \in Seq(Bit) /\ Len(Padded(bits, c)) = 8 /\ \A k \in 1..bits : Padded(bits, c)[k] = c[k]
<1>1. \A i \in 1..8 : (IF i <= bits THEN c[i] ELSE 0) \in Bit
  BY DEF Code, Rates, Bit
<1>2. Padded(bits, c) \in [1..8 -> Bit]
  BY <1>1 DEF Padded
<1>3. Padded(bits, c) \in Seq(Bit) /\ Len(Padded(bits, c)) = 8
  BY <1>2, FunctionIsSeq
<1>4. \A k \in 1..bits : k \in 1..8 /\ k <= bits
  BY DEF Rates
<1>5. \A k \in 1..bits : Padded(bits, c)[k] = c[k]
  BY <1>4 DEF Padded
<1>. QED
  BY <1>3, <1>5

(* One code, one byte. *)
LEMMA PackUnpacked ==
  ASSUME PackOK, ~packed, NEW c \in Code, Pack(c)
  PROVE  PackOK'
<1>1. /\ bits \in Rates /\ packed \in BOOLEAN /\ inb \in Seq(Bit) /\ Len(inb) < 8
      /\ out \in Seq(Bit) /\ Len(out) < 8 /\ wire \in Seq(Bit) /\ flight \in Seq(Code)
      /\ inb = <<>> /\ out = <<>> /\ Len(wire) = 8 * Len(flight)
      /\ \A n \in 1..Len(flight) : \A i \in 1..8 : wire[8 * (n - 1) + i] = Padded(bits, flight[n])[i]
  BY DEF PackOK, Conserved
<1>2. /\ bits' = bits /\ packed' = packed /\ inb' = inb /\ out' = out
      /\ flight' = Append(flight, c) /\ wire' = wire \o Padded(bits, c)
  BY DEF Pack
<1>3. /\ flight' \in Seq(Code) /\ Len(flight') = Len(flight) + 1
      /\ \A n \in 1..Len(flight) : flight'[n] = flight[n]
      /\ flight'[Len(flight) + 1] = c
  BY <1>1, <1>2, AppendProperties
<1>4. PICK p : p = Padded(bits, c)
  OBVIOUS
<1>5. p \in Seq(Bit) /\ Len(p) = 8
  BY <1>1, <1>4, PaddedIsSeq
<1>6. /\ wire \o p \in Seq(Bit) /\ Len(wire \o p) = Len(wire) + 8
      /\ \A k \in 1..(Len(wire) + 8) : (wire \o p)[k] = IF k <= Len(wire) THEN wire[k] ELSE p[k - Len(wire)]
  <2>1. wire \in Seq(Bit)
    BY <1>1
  <2>2. /\ wire \o p \in Seq(Bit) /\ Len(wire \o p) = Len(wire) + Len(p)
        /\ \A k \in 1..(Len(wire) + Len(p)) :
             (wire \o p)[k] = IF k <= Len(wire) THEN wire[k] ELSE p[k - Len(wire)]
    BY <2>1, <1>5, ConcatProperties
  <2>. QED
    BY <2>2, <1>5
<1>7. Len(flight) \in Nat /\ Len(wire) \in Nat
  BY <1>1, LenProperties
<1>8. wire' = wire \o p
  BY <1>2, <1>4
<1>9. Len(wire') = 8 * Len(flight') /\ Len(wire') % 8 = 0
  <2>1. Len(wire') = Len(wire) + 8 /\ Len(wire) = 8 * Len(flight)
    BY <1>1, <1>6, <1>8
  <2>2. 8 * Len(flight) + 8 = 8 * (Len(flight) + 1) /\ (8 * Len(flight) + 8) % 8 = 0
    BY <1>7
  <2>. QED
    BY <2>1, <2>2, <1>3
<1>10. ASSUME NEW n \in 1..Len(flight'), NEW i \in 1..8
       PROVE  wire'[8 * (n - 1) + i] = Padded(bits', flight'[n])[i]
  <2>1. 8 * (n - 1) + i \in 1..(Len(wire) + 8)
    BY <1>1, <1>3, <1>7
  <2>2. CASE n <= Len(flight)
    <3>1. n \in 1..Len(flight) /\ 8 * (n - 1) + i <= Len(wire)
      BY <2>2, <1>1, <1>3, <1>7
    <3>2. wire'[8 * (n - 1) + i] = wire[8 * (n - 1) + i]
      BY <3>1, <2>1, <1>6, <1>8
    <3>. QED
      BY <3>1, <3>2, <1>1, <1>2, <1>3
  <2>3. CASE n = Len(flight) + 1
    <3>1. ~(8 * (n - 1) + i <= Len(wire)) /\ (8 * (n - 1) + i) - Len(wire) = i
      BY <2>3, <1>1, <1>7
    <3>2. wire'[8 * (n - 1) + i] = p[i]
      BY <3>1, <2>1, <1>6, <1>8
    <3>. QED
      BY <3>2, <2>3, <1>2, <1>3, <1>4
  <2>. QED
    BY <2>2, <2>3, <1>3, <1>7
<1>11. Conserved'
  <2>1. ~packed' /\ inb' = <<>> /\ out' = <<>>
    BY <1>1, <1>2
  <2>. QED
    BY <2>1, <1>9, <1>10 DEF Conserved
<1>12. flight' \in Seq(Code')
  BY <1>2, <1>3 DEF Code
<1>. QED
  BY <1>1, <1>2, <1>6, <1>8, <1>9, <1>11, <1>12 DEF PackOK

(* Taking the first byte off, to decode it or because it is lost. *)
LEMMA ByteGone ==
  ASSUME PackOK, ~packed, wire # <<>>,
         wire' = SubSeq(wire, 9, Len(wire)), flight' = Tail(flight),
         UNCHANGED <<bits, packed, inb, out>>
  PROVE  /\ PackOK' /\ flight # <<>>
         /\ SubSeq(wire, 1, 8) \in Seq(Bit) /\ Len(SubSeq(wire, 1, 8)) = 8
         /\ \A i \in 1..8 : SubSeq(wire, 1, 8)[i] = Padded(bits, flight[1])[i]
<1>1. /\ bits \in Rates /\ packed \in BOOLEAN /\ inb \in Seq(Bit) /\ Len(inb) < 8
      /\ out \in Seq(Bit) /\ Len(out) < 8 /\ wire \in Seq(Bit) /\ flight \in Seq(Code)
      /\ inb = <<>> /\ out = <<>> /\ Len(wire) = 8 * Len(flight)
      /\ \A n \in 1..Len(flight) : \A i \in 1..8 : wire[8 * (n - 1) + i] = Padded(bits, flight[n])[i]
  BY DEF PackOK, Conserved
<1>2. Len(flight) \in Nat /\ Len(wire) \in Nat /\ Len(wire) # 0
  BY <1>1, EmptySeq, LenProperties
<1>3. flight # <<>> /\ Len(flight) >= 1
  BY <1>1, <1>2, EmptySeq
<1>4. /\ flight' \in Seq(Code) /\ Len(flight') = Len(flight) - 1
      /\ \A n \in 1..(Len(flight) - 1) : flight'[n] = flight[n + 1]
  BY <1>1, <1>3, HeadTailProperties
<1>5. CutAt(Bit, wire, 8, SubSeq(wire, 1, 8), SubSeq(wire, 9, Len(wire)))
  <2>1. 8 \in 0..Len(wire) /\ 8 + 1 = 9
    BY <1>1, <1>2, <1>3
  <2>2. CutAt(Bit, wire, 8, SubSeq(wire, 1, 8), SubSeq(wire, 8 + 1, Len(wire)))
    BY <2>1, <1>1, Cut
  <2>. QED
    BY <2>1, <2>2
<1>6. /\ SubSeq(wire, 1, 8) \in Seq(Bit) /\ Len(SubSeq(wire, 1, 8)) = 8
      /\ wire' \in Seq(Bit) /\ Len(wire') = Len(wire) - 8
      /\ \A i \in 1..8 : SubSeq(wire, 1, 8)[i] = wire[i]
  BY <1>5 DEF CutAt
<1>7. \A i \in 1..8 : wire[i] = Padded(bits, flight[1])[i]
  <2>1. 1 \in 1..Len(flight) /\ \A i \in 1..8 : 8 * (1 - 1) + i = i
    BY <1>2, <1>3
  <2>. QED
    BY <2>1, <1>1
<1>8. Len(wire') = 8 * Len(flight') /\ Len(wire') % 8 = 0
  <2>1. Len(wire') = Len(wire) - 8 /\ Len(wire) = 8 * Len(flight)
    BY <1>1, <1>6
  <2>2. 8 * Len(flight) - 8 = 8 * (Len(flight) - 1) /\ (8 * Len(flight) - 8) % 8 = 0
    BY <1>2
  <2>. QED
    BY <2>1, <2>2, <1>4
<1>9. ASSUME NEW n \in 1..Len(flight'), NEW i \in 1..8
      PROVE  wire'[8 * (n - 1) + i] = Padded(bits', flight'[n])[i]
  <2>1. n \in 1..(Len(flight) - 1) /\ n + 1 \in 1..Len(flight)
    BY <1>2, <1>4
  <2>2. /\ 9 \in 1..(Len(wire) + 1) /\ Len(wire) \in (9 - 1)..Len(wire)
        /\ 8 * (n - 1) + i \in 1..(Len(wire) - 9 + 1)
        /\ 9 + (8 * (n - 1) + i) - 1 = 8 * ((n + 1) - 1) + i
    BY <2>1, <1>1, <1>2
  <2>3. \A k \in 1..(Len(wire) - 9 + 1) : SubSeq(wire, 9, Len(wire))[k] = wire[9 + k - 1]
    BY <2>2, <1>1, SubSeqIn
  <2>4. wire'[8 * (n - 1) + i] = wire[8 * ((n + 1) - 1) + i]
    BY <2>2, <2>3
  <2>. QED
    BY <2>1, <2>4, <1>1, <1>4
<1>10. Conserved'
  <2>1. ~packed' /\ inb' = <<>> /\ out' = <<>>
    BY <1>1
  <2>. QED
    BY <2>1, <1>8, <1>9 DEF Conserved
<1>11. flight' \in Seq(Code')
  BY <1>4 DEF Code
<1>. QED
  BY <1>1, <1>3, <1>6, <1>7, <1>8, <1>10, <1>11 DEF PackOK

LEMMA UnpackUnpacked ==
  ASSUME PackOK, ~packed, Unpack
  PROVE  PackOK' /\ flight # <<>> /\ NextCode = flight[1]
<1>1. /\ PackOK' /\ flight # <<>>
      /\ SubSeq(wire, 1, 8) \in Seq(Bit) /\ Len(SubSeq(wire, 1, 8)) = 8
      /\ \A i \in 1..8 : SubSeq(wire, 1, 8)[i] = Padded(bits, flight[1])[i]
  BY ByteGone DEF Unpack, Reads
<1>2. bits \in Rates /\ flight \in Seq(Code) /\ inb = <<>>
  BY DEF PackOK, Conserved
<1>3. PICK f \in Seq(Bit) : f = SubSeq(wire, 1, 8) /\ Len(f) = 8
  BY <1>1
<1>4. NextCode = SubSeq(f, 1, bits)
  <2>1. <<>> \o f = f
    BY <1>3, ConcatEmptySeq
  <2>. QED
    BY <2>1, <1>2, <1>3 DEF NextCode, Unread, Reads
<1>5. flight[1] \in Code
  <2>1. Len(flight) \in Nat \ {0}
    BY <1>1, <1>2, EmptySeq
  <2>. QED
    BY <2>1, <1>2, ElementOfSeq
<1>6. flight[1] \in Seq(Bit) /\ Len(flight[1]) = bits
  BY <1>2, <1>5, CodeIsSeq
<1>7. CutAt(Bit, f, bits, SubSeq(f, 1, bits), SubSeq(f, bits + 1, Len(f)))
  <2>1. bits \in 0..Len(f)
    BY <1>2, <1>3 DEF Rates
  <2>. QED
    BY <2>1, Cut
<1>8. NextCode \in Seq(Bit) /\ Len(NextCode) = bits /\ \A k \in 1..bits : NextCode[k] = f[k]
  BY <1>4, <1>7 DEF CutAt
<1>9. \A k \in 1..bits : f[k] = flight[1][k]
  <2>1. \A k \in 1..bits : k \in 1..8
    BY <1>2 DEF Rates
  <2>2. \A k \in 1..bits : Padded(bits, flight[1])[k] = flight[1][k]
    BY <1>2, <1>5, PaddedIsSeq
  <2>. QED
    BY <2>1, <2>2, <1>1, <1>3
<1>10. NextCode = flight[1]
  <2>1. \A k \in 1..Len(NextCode) : NextCode[k] = flight[1][k]
    BY <1>8, <1>9
  <2>. QED
    BY <2>1, <1>6, <1>8, SeqEqual
<1>. QED
  BY <1>1, <1>10

-----------------------------------------------------------------------------
(* The three steps together. *)
LEMMA PackStep ==
  ASSUME PackOK, NEW c \in Code, Pack(c)
  PROVE  PackOK'
BY PackPacked, PackUnpacked

LEMMA UnpackStep ==
  ASSUME PackOK, Unpack
  PROVE  PackOK' /\ flight # <<>> /\ NextCode = flight[1]
BY UnpackPacked, UnpackUnpacked

LEMMA LoseStep ==
  ASSUME PackOK, Lose
  PROVE  PackOK' /\ flight # <<>>
BY ByteGone DEF Lose

LEMMA PackStart ==
  ASSUME PackInit
  PROVE  PackOK
<1>1. bits \in Rates /\ packed \in BOOLEAN
  BY DEF PackInit
<1>2. inb = <<>> /\ wire = <<>> /\ out = <<>> /\ flight = <<>>
  BY DEF PackInit
<1>3. <<>> \in Seq(Bit) /\ <<>> \in Seq(Code) /\ Len(<<>>) = 0 /\ Len(<<>>) % 8 = 0
  BY EmptySeq
<1>4. PICK e \in Seq(Bit) : e = <<>>
  BY <1>3
<1>5. Stream = e
  <2>1. e \o e = e
    BY <1>4, ConcatEmptySeq
  <2>. QED
    BY <2>1, <1>2, <1>4 DEF Stream
<1>6. bits * 0 = 0
  BY <1>1 DEF Rates
<1>7. Conserved
  BY <1>2, <1>3, <1>4, <1>5, <1>6 DEF Conserved
<1>. QED
  BY <1>1, <1>2, <1>3, <1>7 DEF PackOK

(* Seven bits in each buffer at most, which is less than three codes. *)
LEMMA LagBound ==
  ASSUME PackOK
  PROVE  Lag
<1>1. SUFFICES ASSUME wire = <<>> PROVE Len(flight) <= 2
  BY DEF Lag
<1>2. /\ bits \in Rates /\ inb \in Seq(Bit) /\ out \in Seq(Bit) /\ flight \in Seq(Code)
      /\ Len(inb) < 8 /\ Len(out) < 8
  BY DEF PackOK
<1>3. Len(wire) = 0
  BY <1>1
<1>4. Len(inb) \in Nat /\ Len(out) \in Nat /\ Len(flight) \in Nat
  BY <1>2, LenProperties
<1>5. CASE packed
  <2>1. Len(Stream) <= 14
    BY <1>2, <1>3, <1>4, StreamIsSeq
  <2>2. bits * Len(flight) <= 14
    BY <2>1, <1>5 DEF PackOK, Conserved
  <2>. QED
    BY <2>2, <1>2, <1>4 DEF Rates
<1>6. CASE ~packed
  <2>1. Len(wire) = 8 * Len(flight)
    BY <1>6 DEF PackOK, Conserved
  <2>. QED
    BY <2>1, <1>3, <1>4
<1>. QED
  BY <1>5, <1>6

-----------------------------------------------------------------------------
(* Ranges.                                                                 *)
LEMMA ClampRange ==
  ASSUME NEW x \in Int, NEW lo \in Int, NEW hi \in Int, lo <= hi
  PROVE  Clamp(x, lo, hi) \in Within(lo, hi)
BY DEF Clamp, Within

LEMMA SaturateRange ==
  ASSUME NEW x \in Int
  PROVE  Saturate(x) \in Int16s
BY ClampRange DEF Saturate, Int16s

LEMMA MinIn ==
  ASSUME NEW S, S \subseteq Nat, S # {}
  PROVE  Min(S) \in S
<1>1. PICK i \in S : \A j \in Nat : j < i => j \notin S
  BY Least
<1>2. ASSUME NEW j \in S PROVE i <= j
  <2>1. i \in Nat /\ j \in Nat
    OBVIOUS
  <2>2. ~(j < i)
    BY <1>1, <2>1
  <2>. QED
    BY <2>1, <2>2
<1>. QED
  BY <1>2, Zenon DEF Min

LEMMA Interval30 ==
  ASSUME NEW mag, NEW det
  PROVE  Interval(mag, det) \in 1..30
<1>1. PICK above : above = {30} \cup {i \in 1..29 : mag < (Q6[i + 1] * det) \div 4096}
  OBVIOUS
<1>2. above \subseteq 1..30 /\ above \subseteq Nat /\ above # {}
  BY <1>1
<1>3. Min(above) \in above
  BY <1>2, MinIn
<1>. QED
  BY <1>1, <1>2, <1>3 DEF Interval

LEMMA QuantLowRange ==
  ASSUME NEW e, NEW det
  PROVE  QuantLow(e, det) \in 0..63
<1>1. PICK i \in 1..30 : i = Interval(Magnitude(e), det)
  BY Interval30
<1>2. QuantLow(e, det) = IF e >= 0 THEN 62 - i ELSE IF i <= 2 THEN 64 - i ELSE 34 - i
  BY <1>1 DEF QuantLow
<1>3. 62 - i \in 0..63 /\ (i <= 2 => 64 - i \in 0..63) /\ 34 - i \in 0..63
  OBVIOUS
<1>. QED
  BY <1>2, <1>3

LEMMA QuantHighRange ==
  ASSUME NEW e, NEW det
  PROVE  QuantHigh(e, det) \in 0..3
BY DEF QuantHigh

-----------------------------------------------------------------------------
(* What the encoder puts into a code, the decoder gets out of it.          *)
LEMMA BitValue ==
  ASSUME NEW v \in Nat, v < 256
  PROVE  \A i \in 1..8 : BitOf(v, i) \in {0, 1}
<1>1. \A n \in Int : n % 2 \in {0, 1}
  OBVIOUS
<1>2. /\ v \div 2 \in Int /\ v \div 4 \in Int /\ v \div 8 \in Int /\ v \div 16 \in Int
      /\ v \div 32 \in Int /\ v \div 64 \in Int /\ v \div 128 \in Int
  OBVIOUS
<1>3. ASSUME NEW i \in 1..8 PROVE BitOf(v, i) \in {0, 1}
  BY <1>1, <1>2 DEF BitOf
<1>. QED
  BY <1>3

LEMMA BitSum ==
  ASSUME NEW v \in Nat, v < 256
  PROVE  BitOf(v, 1) + 2 * BitOf(v, 2) + 4 * BitOf(v, 3) + 8 * BitOf(v, 4) + 16 * BitOf(v, 5)
         + 32 * BitOf(v, 6) + 64 * BitOf(v, 7) + 128 * BitOf(v, 8) = v
<1>1. PICK b1 \in Int : b1 = BitOf(v, 1) /\ b1 + 2 * (v \div 2) = v
  BY DEF BitOf
<1>2. PICK b2 \in Int : b2 = BitOf(v, 2) /\ b2 + 2 * (v \div 4) = v \div 2
  BY DEF BitOf
<1>3. PICK b3 \in Int : b3 = BitOf(v, 3) /\ b3 + 2 * (v \div 8) = v \div 4
  BY DEF BitOf
<1>4. PICK b4 \in Int : b4 = BitOf(v, 4) /\ b4 + 2 * (v \div 16) = v \div 8
  BY DEF BitOf
<1>5. PICK b5 \in Int : b5 = BitOf(v, 5) /\ b5 + 2 * (v \div 32) = v \div 16
  <2>1. BitOf(v, 5) = (v \div 16) % 2
    BY DEF BitOf
  <2>2. (v \div 16) % 2 \in Int /\ ((v \div 16) % 2) + 2 * (v \div 32) = v \div 16
    OBVIOUS
  <2>. QED
    BY <2>1, <2>2
<1>6. PICK b6 \in Int : b6 = BitOf(v, 6) /\ b6 + 2 * (v \div 64) = v \div 32
  <2>1. BitOf(v, 6) = (v \div 32) % 2
    BY DEF BitOf
  <2>2. (v \div 32) % 2 \in Int /\ ((v \div 32) % 2) + 2 * (v \div 64) = v \div 32
    OBVIOUS
  <2>. QED
    BY <2>1, <2>2
<1>7. PICK b7 \in Int : b7 = BitOf(v, 7) /\ b7 + 2 * (v \div 128) = v \div 64
  BY DEF BitOf
<1>8. PICK b8 \in Int : b8 = BitOf(v, 8) /\ b8 = v \div 128
  BY DEF BitOf
<1>9. b1 + 2 * b2 + 4 * b3 + 8 * b4 + 16 * b5 + 32 * b6 + 64 * b7 + 128 * b8 = v
  BY <1>1, <1>2, <1>3, <1>4, <1>5, <1>6, <1>7, <1>8
<1>. QED
  BY <1>1, <1>2, <1>3, <1>4, <1>5, <1>6, <1>7, <1>8, <1>9

LEMMA BitsBack ==
  ASSUME bits \in Rates, NEW v \in Nat, v < 256 \div Dropped
  PROVE  ToBits(v) \in Code /\ FromBits(ToBits(v)) = v
<1>0. v < 256
  BY DEF Dropped, Rates
<1>1. ToBits(v) \in Code
  <2>1. \A i \in 1..bits : i \in 1..8
    BY DEF Rates
  <2>. QED
    BY <1>0, <2>1, BitValue DEF ToBits, Code
<1>2. \A i \in 1..8 : Padded(bits, ToBits(v))[i] = BitOf(v, i)
  <2>1. ASSUME NEW i \in 1..8, i <= bits PROVE Padded(bits, ToBits(v))[i] = BitOf(v, i)
    BY <2>1 DEF Padded, ToBits, Rates
  <2>2. ASSUME NEW i \in 1..8, ~(i <= bits) PROVE Padded(bits, ToBits(v))[i] = BitOf(v, i)
    <3>1. Padded(bits, ToBits(v))[i] = 0
      BY <2>2 DEF Padded
    <3>2. CASE bits = 6
      <4>1. v < 64 /\ i \in 7..8
        BY <3>2, <2>2 DEF Dropped
      <4>. QED
        BY <4>1, <3>1 DEF BitOf
    <3>3. CASE bits = 7
      <4>1. v < 128 /\ i = 8
        BY <3>3, <2>2 DEF Dropped
      <4>. QED
        BY <4>1, <3>1 DEF BitOf
    <3>4. CASE bits = 8
      BY <3>4, <2>2
    <3>. QED
      BY <3>2, <3>3, <3>4 DEF Rates
  <2>. QED
    BY <2>1, <2>2
<1>3. FromBits(ToBits(v)) = v
  <2>1. PICK p : p = Padded(bits, ToBits(v))
    OBVIOUS
  <2>2. /\ p[1] = BitOf(v, 1) /\ p[2] = BitOf(v, 2) /\ p[3] = BitOf(v, 3) /\ p[4] = BitOf(v, 4)
        /\ p[5] = BitOf(v, 5) /\ p[6] = BitOf(v, 6) /\ p[7] = BitOf(v, 7) /\ p[8] = BitOf(v, 8)
    BY <2>1, <1>2
  <2>4. p[1] + 2 * p[2] + 4 * p[3] + 8 * p[4] + 16 * p[5] + 32 * p[6] + 64 * p[7] + 128 * p[8] = v
    BY <1>0, <2>2, BitSum
  <2>. QED
    BY <2>1, <2>4, Zenon DEF FromBits
<1>. QED
  BY <1>1, <1>3

LEMMA IndexBack ==
  ASSUME bits \in Rates, NEW ihigh \in 0..3, NEW ilow \in 0..63,
         NEW v, v = (64 * ihigh + ilow) \div Dropped
  PROVE  /\ v \in Nat /\ v < 256 \div Dropped
         /\ RilOf(v) = ilow \div 4 /\ RilOf(v) \in 0..15
         /\ IhighOf(v) = ihigh
<1>1. CASE bits = 8
  BY <1>1 DEF Dropped, RilOf, IndexOf, IhighOf
<1>2. CASE bits = 7
  <2>1. v = 32 * ihigh + ilow \div 2
    BY <1>2 DEF Dropped
  <2>2. /\ v \in Nat /\ v < 128 /\ v % 32 = ilow \div 2 /\ (v \div 32) % 4 = ihigh
        /\ (ilow \div 2) \div 2 = ilow \div 4
    BY <2>1
  <2>. QED
    BY <2>2, <1>2 DEF Dropped, RilOf, IndexOf, IhighOf
<1>3. CASE bits = 6
  BY <1>3 DEF Dropped, RilOf, IndexOf, IhighOf
<1>. QED
  BY <1>1, <1>2, <1>3 DEF Rates

-----------------------------------------------------------------------------
(* The bands.                                                              *)
LEMMA Int16sInt ==
  ASSUME NEW x \in Int16s
  PROVE  x \in Int
BY DEF Int16s, Within

LEMMA WithinInt ==
  ASSUME NEW lo, NEW hi, NEW x \in Within(lo, hi)
  PROVE  x \in Int /\ lo <= x /\ x <= hi
BY DEF Within

(* A product with a fraction is no larger than the other factor. *)
LEMMA ScaledRange ==
  ASSUME NEW det \in Int, 0 <= det, det <= 32768, NEW q \in Int16s
  PROVE  Scaled(det, q) \in Int16s
<1>1. q \in Int /\ -32768 <= q /\ q <= 32767
  BY DEF Int16s, Within
<1>2. det * q \in Int /\ 32768 * q \in Int
  BY <1>1
<1>3. CASE 0 <= q
  <2>1. 0 <= det * q
    BY <1>1, <1>3
  <2>2. 0 <= (32768 - det) * q
    BY <1>1, <1>3
  <2>3. det * q <= 32768 * q
    BY <2>2, <1>1, <1>2
  <2>4. 0 <= (det * q) \div 32768 /\ (det * q) \div 32768 <= q
    BY <2>1, <2>3, <1>1, <1>2
  <2>. QED
    BY <2>4, <1>1, <1>2 DEF Scaled, Int16s, Within
<1>4. CASE q < 0
  <2>1. det * q <= 0
    BY <1>1, <1>4
  <2>2. (32768 - det) * q <= 0
    BY <1>1, <1>4
  <2>3. 32768 * q <= det * q
    BY <2>2, <1>1, <1>2
  <2>4. q <= (det * q) \div 32768 /\ (det * q) \div 32768 <= 0
    BY <2>1, <2>3, <1>1, <1>2
  <2>. QED
    BY <2>4, <1>1, <1>2 DEF Scaled, Int16s, Within
<1>. QED
  BY <1>1, <1>3, <1>4

LEMMA Pole2Range ==
  ASSUME NEW b, b.a[1] \in Int, b.a[2] \in Int, NEW p0
  PROVE  Pole2(b, p0) \in Within(-12288, 12288)
<1>1. PICK w : w = IF SameSign(p0, b.p[1]) THEN -Saturate(4 * b.a[1]) ELSE Saturate(4 * b.a[1])
  OBVIOUS
<1>2. PICK l \in Int : l = IF SameSign(p0, b.p[2]) THEN 128 ELSE -128
  OBVIOUS
<1>3. w \in Int
  <2>1. Saturate(4 * b.a[1]) \in Int
    BY SaturateRange, Int16sInt
  <2>. QED
    BY <2>1, <1>1
<1>4. PICK c \in Int : c = Clamp(w, -32768, 32767)
  <2>1. Clamp(w, -32768, 32767) \in Int
    BY <1>3 DEF Clamp
  <2>. QED
    BY <2>1
<1>5. PICK x \in Int : x = c \div 128 + l + (b.a[2] * 32512) \div 32768
  OBVIOUS
<1>6. Pole2(b, p0) = Clamp(x, -12288, 12288)
  BY <1>1, <1>2, <1>4, <1>5 DEF Pole2
<1>. QED
  BY <1>6, ClampRange

LEMMA Pole1Range ==
  ASSUME NEW b, b.a[1] \in Int, NEW p0, NEW a2 \in Within(-12288, 12288)
  PROVE  Pole1(b, p0, a2) \in Within(a2 - 15360, 15360 - a2)
<1>1. a2 \in Int /\ -12288 <= a2 /\ a2 <= 12288
  BY DEF Within
<1>2. Saturate(15360 - a2) = 15360 - a2
  BY <1>1 DEF Saturate, Clamp
<1>3. PICK w \in Int : w = IF SameSign(p0, b.p[1]) THEN 192 ELSE -192
  OBVIOUS
<1>4. PICK x \in Int : x = Saturate(w + (b.a[1] * 32640) \div 32768)
  <2>1. w + (b.a[1] * 32640) \div 32768 \in Int
    OBVIOUS
  <2>. QED
    BY <2>1, SaturateRange, Int16sInt
<1>5. PICK m \in Int : m = 15360 - a2
  BY <1>1
<1>6. Pole1(b, p0, a2) = Clamp(x, -m, m)
  BY <1>2, <1>3, <1>4, <1>5 DEF Pole1
<1>7. -m \in Int /\ -m <= m /\ -m = a2 - 15360
  BY <1>1, <1>5
<1>. QED
  BY <1>5, <1>6, <1>7, ClampRange

LEMMA ZeroRange ==
  ASSUME NEW b, NEW d, \A i \in 1..6 : b.b[i] \in Int
  PROVE  Zero(b, d) \in [1..6 -> Int16s]
<1>1. ASSUME NEW i \in 1..6
      PROVE  Saturate((IF d = 0 THEN 0 ELSE IF SameSign(b.d[i], d) THEN 128 ELSE -128)
                      + (b.b[i] * 32640) \div 32768) \in Int16s
  <2>1. PICK w \in Int : w = IF d = 0 THEN 0 ELSE IF SameSign(b.d[i], d) THEN 128 ELSE -128
    OBVIOUS
  <2>2. w + (b.b[i] * 32640) \div 32768 \in Int
    OBVIOUS
  <2>. QED
    BY <2>1, <2>2, SaturateRange
<1>. QED
  BY <1>1 DEF Zero

LEMMA SeqIsFunction ==
  ASSUME NEW S, NEW q \in Seq(S), NEW n \in Nat, Len(q) = n
  PROVE  q \in [1..n -> S]
BY LenProperties

LEMMA SaturateInt ==
  ASSUME NEW x \in Int
  PROVE  Saturate(x) \in Int /\ Saturate(x) \in Int16s
BY SaturateRange, Int16sInt

(* A filter's history: the first taps move up to make room. *)
LEMMA DelayLine ==
  ASSUME NEW d \in Int16s, NEW q \in [1..6 -> Int16s]
  PROVE  Delay(q, d) \in [1..6 -> Int16s]
<1>1. q \in Seq(Int16s) /\ Len(q) = 6
  BY FunctionIsSeq
<1>2. SubSeq(q, 1, 5) \in Seq(Int16s) /\ Len(SubSeq(q, 1, 5)) = 5
  <2>1. CutAt(Int16s, q, 5, SubSeq(q, 1, 5), SubSeq(q, 5 + 1, Len(q)))
    <3>1. 5 \in 0..Len(q)
      BY <1>1
    <3>. QED
      BY <3>1, <1>1, Cut
  <2>. QED
    BY <2>1 DEF CutAt
<1>3. <<d>> \in Seq(Int16s) /\ Len(<<d>>) = 1
  OBVIOUS
<1>4. <<d>> \o SubSeq(q, 1, 5) \in Seq(Int16s) /\ Len(<<d>> \o SubSeq(q, 1, 5)) = 6
  BY <1>2, <1>3, ConcatProperties
<1>. QED
  BY <1>4, SeqIsFunction DEF Delay

LEMMA PartialProduct ==
  ASSUME NEW x \in Int, NEW y \in Int
  PROVE  (x * Saturate(2 * y)) \div 32768 \in Int
<1>1. PICK z \in Int : z = Saturate(2 * y)
  BY SaturateInt
<1>. QED
  BY <1>1

LEMMA FilterPoleRange ==
  ASSUME NEW a1 \in Int, NEW a2 \in Int, NEW r0 \in Int, NEW r1 \in Int
  PROVE  FilterPole(a1, a2, r0, r1) \in Int16s
<1>1. (a1 * Saturate(2 * r0)) \div 32768 \in Int /\ (a2 * Saturate(2 * r1)) \div 32768 \in Int
  BY PartialProduct
<1>2. (a1 * Saturate(2 * r0)) \div 32768 + (a2 * Saturate(2 * r1)) \div 32768 \in Int
  BY <1>1
<1>. QED
  BY <1>2, SaturateRange DEF FilterPole

LEMMA FilterZeroRange ==
  ASSUME NEW b, NEW d, \A i \in 1..6 : b[i] \in Int /\ d[i] \in Int
  PROVE  FilterZero(b, d) \in Int16s
<1>1. \A i \in 1..6 : (b[i] * Saturate(2 * d[i])) \div 32768 \in Int
  BY PartialProduct
<1>2. Sum6([i \in 1..6 |-> (b[i] * Saturate(2 * d[i])) \div 32768]) \in Int
  BY <1>1 DEF Sum6
<1>. QED
  BY <1>2, SaturateRange DEF FilterZero

LEMMA Block4Range ==
  ASSUME NEW m, NEW b \in Band(m), NEW d \in Int16s,
         NEW nb \in Within(0, m), NEW det \in Within(8, 16384)
  PROVE  Block4(b, nb, det, d) \in Band(m) /\ Stable(Block4(b, nb, det, d))
<1>1. /\ b.s \in Int16s /\ b.sz \in Int16s /\ b.r[1] \in Int16s /\ b.p[1] \in Int16s
      /\ b.a[1] \in Int /\ b.a[2] \in Int
      /\ b.d \in [1..6 -> Int16s]
      /\ \A i \in 1..6 : b.b[i] \in Int16s
  BY DEF Band
<1>2. d \in Int /\ b.s \in Int /\ b.sz \in Int /\ b.r[1] \in Int /\ \A i \in 1..6 : b.b[i] \in Int
  BY <1>1, Int16sInt
<1>3. PICK r0 : r0 = Saturate(b.s + d) /\ r0 \in Int /\ r0 \in Int16s
  BY <1>2, SaturateInt
<1>4. PICK p0 : p0 = Saturate(b.sz + d) /\ p0 \in Int16s
  BY <1>2, SaturateInt
<1>5. PICK a2 : a2 = Pole2(b, p0) /\ a2 \in Within(-12288, 12288) /\ a2 \in Int
  BY <1>1, Pole2Range, WithinInt
<1>6. PICK a1 : a1 = Pole1(b, p0, a2) /\ a1 \in Within(a2 - 15360, 15360 - a2) /\ a1 \in Int
  <2>1. Pole1(b, p0, a2) \in Within(a2 - 15360, 15360 - a2)
    BY <1>1, <1>5, Pole1Range
  <2>. QED
    BY <2>1, WithinInt
<1>7. PICK ds \in [1..6 -> Int16s] : ds = Delay(b.d, d)
  BY <1>1, DelayLine
<1>8. PICK bs \in [1..6 -> Int16s] : bs = Zero(b, d)
  BY <1>2, ZeroRange
<1>9. PICK sp \in Int16s : sp = FilterPole(a1, a2, r0, b.r[1])
  <2>1. a1 \in Int /\ a2 \in Int /\ r0 \in Int /\ b.r[1] \in Int
    BY <1>2, <1>3, <1>5, <1>6
  <2>2. FilterPole(a1, a2, r0, b.r[1]) \in Int16s
    BY <2>1, FilterPoleRange
  <2>. QED
    BY <2>2
<1>10. \A i \in 1..6 : bs[i] \in Int /\ ds[i] \in Int
  BY Int16sInt
<1>11. PICK sz \in Int16s : sz = FilterZero(bs, ds)
  BY <1>10, FilterZeroRange
<1>12. PICK s \in Int16s : s = Saturate(sp + sz)
  <2>1. sp + sz \in Int
    BY Int16sInt
  <2>. QED
    BY <2>1, SaturateRange
<1>13. Block4(b, nb, det, d) = [s |-> s, sz |-> sz, r |-> <<r0, b.r[1]>>, p |-> <<p0, b.p[1]>>,
                       a |-> <<a1, a2>>, d |-> ds, b |-> bs, nb |-> nb, det |-> det]
  BY <1>3, <1>4, <1>5, <1>6, <1>7, <1>8, <1>9, <1>11, <1>12 DEF Block4
<1>14. /\ <<r0, b.r[1]>> \in [1..2 -> Int16s] /\ <<p0, b.p[1]>> \in [1..2 -> Int16s]
       /\ <<a1, a2>> \in [1..2 -> Int]
  BY <1>1, <1>3, <1>4, <1>5, <1>6
<1>15. Block4(b, nb, det, d) \in Band(m)
  BY <1>1, <1>7, <1>8, <1>13, <1>14 DEF Band
<1>16. Block4(b, nb, det, d).a[1] = a1 /\ Block4(b, nb, det, d).a[2] = a2
  BY <1>13
<1>. QED
  BY <1>5, <1>6, <1>15, <1>16 DEF Stable

-----------------------------------------------------------------------------
(* The scale factors.                                                      *)
LEMMA IlbRange ==
  ASSUME NEW i \in 0..31
  PROVE  Ilb[i + 1] \in Int /\ 2048 <= Ilb[i + 1] /\ Ilb[i + 1] <= 4008
BY DEF Ilb

LEMMA ShiftedRange ==
  ASSUME NEW v \in Int, 2048 <= v, v <= 4008, NEW n \in 0..10
  PROVE  Shifted(v, n) \in Int /\ 2 <= Shifted(v, n) /\ Shifted(v, n) <= 4008
<1>1. Shifted(v, n) = v \div Power[n + 1]
  BY DEF Shifted
<1>2. Power[n + 1] \in {1, 2, 4, 8, 16, 32, 64, 128, 256, 512, 1024}
  BY DEF Power
<1>3. PICK p \in {1, 2, 4, 8, 16, 32, 64, 128, 256, 512, 1024} : p = Power[n + 1]
  BY <1>2
<1>4. v \div p \in Int /\ 2 <= v \div p /\ v \div p <= 4008
  OBVIOUS
<1>. QED
  BY <1>1, <1>3, <1>4

LEMMA ScaleRange ==
  ASSUME NEW top \in {8, 10}, NEW nb \in Within(0, 2048 * (top + 1))
  PROVE  Scale(nb, top) \in Within(8, 16384)
<1>1. nb \in Nat /\ nb <= 2048 * (top + 1)
  BY DEF Within
<1>2. PICK i \in 0..31 : i = (nb \div 64) % 32
  BY <1>1
<1>3. PICK v \in Int : v = Ilb[i + 1] /\ 2048 <= v /\ v <= 4008
  BY IlbRange
<1>4. PICK n \in Nat : n = nb \div 2048
  BY <1>1
<1>5. Scale(nb, top) = 4 * Shifted(v, top - n)
  BY <1>2, <1>3, <1>4 DEF Scale
<1>6. CASE n <= top
  <2>1. top - n \in 0..10
    BY <1>6
  <2>2. PICK x \in Int : x = Shifted(v, top - n) /\ 2 <= x /\ x <= 4008
    BY <1>3, <2>1, ShiftedRange
  <2>. QED
    BY <2>2, <1>5 DEF Within
<1>7. CASE ~(n <= top)
  <2>1. nb = 2048 * (top + 1) /\ n = top + 1
    BY <1>1, <1>4, <1>7
  <2>2. i = 0
    BY <2>1, <1>2
  <2>3. v = 2048
    BY <2>2, <1>3 DEF Ilb
  <2>4. Shifted(v, top - n) = 4096
    <3>1. top - n = -1
      BY <2>1
    <3>2. Shifted(v, -1) = v * Power[2]
      BY DEF Shifted
    <3>. QED
      BY <3>1, <3>2, <2>3 DEF Power
  <2>. QED
    BY <2>4, <1>5 DEF Within
<1>. QED
  BY <1>6, <1>7

LEMMA LogScaleRange ==
  ASSUME NEW nb \in Int, NEW w \in Int, NEW max \in Nat
  PROVE  LogScale(nb, w, max) \in Within(0, max)
<1>1. (nb * 127) \div 128 + w \in Int
  OBVIOUS
<1>. QED
  BY <1>1, ClampRange DEF LogScale

LEMMA WlInt ==
  ASSUME NEW ril \in 0..15
  PROVE  Wl[Rl42[ril + 1] + 1] \in Int
<1>1. Rl42[ril + 1] \in 0..7
  BY DEF Rl42
<1>. QED
  BY <1>1 DEF Wl

LEMMA Qm4Range ==
  ASSUME NEW i \in 0..15
  PROVE  Qm4(i) \in Int16s
<1>1. ASSUME NEW k \in 1..7 PROVE Upper4[k] \in Int /\ 1200 <= Upper4[k] /\ Upper4[k] <= 20456
  BY DEF Upper4
<1>2. CASE i \in {0, 15}
  BY <1>2 DEF Qm4, Int16s, Within
<1>3. CASE i \in 1..7
  BY <1>1, <1>3 DEF Qm4, Int16s, Within
<1>4. CASE i \in 8..14
  <2>1. i - 7 \in 1..7
    BY <1>4
  <2>. QED
    BY <1>1, <1>4, <2>1 DEF Qm4, Int16s, Within
<1>. QED
  BY <1>2, <1>3, <1>4

LEMMA Qm2Range ==
  ASSUME NEW i \in 0..3
  PROVE  Qm2[i + 1] \in Int16s /\ WhRh2[i + 1] \in Int
BY DEF Qm2, WhRh2, Int16s, Within

(* Whatever index arrives, a band that is in order stays so. *)
LEMMA AdaptLowRange ==
  ASSUME NEW b \in Band(MaxNbLow), NEW ril \in 0..15
  PROVE  AdaptLow(b, ril) \in Band(MaxNbLow) /\ Stable(AdaptLow(b, ril))
<1>1. b.nb \in Int /\ b.det \in Int /\ 8 <= b.det /\ b.det <= 16384
  BY DEF Band, Within
<1>2. PICK nb : nb = LogScale(b.nb, Wl[Rl42[ril + 1] + 1], MaxNbLow) /\ nb \in Within(0, MaxNbLow)
  <2>1. PICK w \in Int : w = Wl[Rl42[ril + 1] + 1]
    BY WlInt
  <2>2. MaxNbLow \in Nat
    BY DEF MaxNbLow
  <2>3. LogScale(b.nb, w, MaxNbLow) \in Within(0, MaxNbLow)
    BY <1>1, <2>2, LogScaleRange
  <2>. QED
    BY <2>1, <2>3
<1>3. Scale(nb, 8) \in Within(8, 16384)
  <2>1. 2048 * (8 + 1) = MaxNbLow
    BY DEF MaxNbLow
  <2>. QED
    BY <1>2, <2>1, ScaleRange
<1>4. Scaled(b.det, Qm4(ril)) \in Int16s
  BY <1>1, Qm4Range, ScaledRange
<1>5. AdaptLow(b, ril) = Block4(b, nb, Scale(nb, 8), Scaled(b.det, Qm4(ril)))
  BY <1>2 DEF AdaptLow
<1>. QED
  BY <1>2, <1>3, <1>4, <1>5, Block4Range

LEMMA AdaptHighRange ==
  ASSUME NEW b \in Band(MaxNbHigh), NEW ihigh \in 0..3
  PROVE  AdaptHigh(b, ihigh) \in Band(MaxNbHigh) /\ Stable(AdaptHigh(b, ihigh))
<1>1. b.nb \in Int /\ b.det \in Int /\ 8 <= b.det /\ b.det <= 16384
  BY DEF Band, Within
<1>2. PICK nb : nb = LogScale(b.nb, WhRh2[ihigh + 1], MaxNbHigh) /\ nb \in Within(0, MaxNbHigh)
  <2>1. PICK w \in Int : w = WhRh2[ihigh + 1]
    BY Qm2Range
  <2>2. MaxNbHigh \in Nat
    BY DEF MaxNbHigh
  <2>3. LogScale(b.nb, w, MaxNbHigh) \in Within(0, MaxNbHigh)
    BY <1>1, <2>2, LogScaleRange
  <2>. QED
    BY <2>1, <2>3
<1>3. Scale(nb, 10) \in Within(8, 16384)
  <2>1. 2048 * (10 + 1) = MaxNbHigh
    BY DEF MaxNbHigh
  <2>. QED
    BY <1>2, <2>1, ScaleRange
<1>4. Scaled(b.det, Qm2[ihigh + 1]) \in Int16s
  BY <1>1, Qm2Range, ScaledRange
<1>5. AdaptHigh(b, ihigh) = Block4(b, nb, Scale(nb, 10), Scaled(b.det, Qm2[ihigh + 1]))
  BY <1>2 DEF AdaptHigh
<1>. QED
  BY <1>2, <1>3, <1>4, <1>5, Block4Range

-----------------------------------------------------------------------------
(* What one turn of either loop does.                                      *)
LEMMA CodeValue ==
  ASSUME bits \in Rates, NEW c \in Code
  PROVE  FromBits(c) \in Nat /\ RilOf(FromBits(c)) \in 0..15 /\ IhighOf(FromBits(c)) \in 0..3
<1>1. PICK p : p = Padded(bits, c)
  OBVIOUS
<1>2. \A i \in 1..8 : p[i] \in {0, 1}
  <2>1. ASSUME NEW i \in 1..8 PROVE Padded(bits, c)[i] \in {0, 1}
    BY DEF Padded, Code, Rates
  <2>. QED
    BY <2>1, <1>1
<1>3. PICK v \in Nat : v = FromBits(c)
  <2>1. p[1] + 2 * p[2] + 4 * p[3] + 8 * p[4] + 16 * p[5] + 32 * p[6] + 64 * p[7] + 128 * p[8] \in Nat
    BY <1>2
  <2>. QED
    BY <1>1, <2>1 DEF FromBits
<1>4. CASE bits = 8
  BY <1>3, <1>4 DEF Dropped, RilOf, IndexOf, IhighOf
<1>5. CASE bits = 7
  BY <1>3, <1>5 DEF Dropped, RilOf, IndexOf, IhighOf
<1>6. CASE bits = 6
  BY <1>3, <1>6 DEF Dropped, RilOf, IndexOf, IhighOf
<1>. QED
  BY <1>4, <1>5, <1>6 DEF Rates

(* Two samples into a filter: the others move up by two. *)
ShiftedIn(S, x, a, b, y) ==
  y \in [1..24 -> S] /\ (\A j \in 1..22 : y[j] = x[j + 2]) /\ y[23] = a /\ y[24] = b

LEMMA ShiftInIs ==
  ASSUME NEW S, NEW x \in [1..24 -> S], NEW a \in S, NEW b \in S
  PROVE  ShiftedIn(S, x, a, b, ShiftIn(x, a, b))
<1>1. x \in Seq(S) /\ Len(x) = 24
  BY FunctionIsSeq
<1>2. PICK r : r = SubSeq(x, 3, 24)
  OBVIOUS
<1>3. r \in Seq(S) /\ Len(r) = 22 /\ \A j \in 1..22 : r[j] = x[j + 2]
  <2>1. 2 \in 0..Len(x)
    BY <1>1
  <2>2. CutAt(S, x, 2, SubSeq(x, 1, 2), SubSeq(x, 2 + 1, Len(x)))
    BY <1>1, <2>1, Cut
  <2>3. 2 + 1 = 3 /\ Len(x) - 2 = 22
    BY <1>1
  <2>. QED
    BY <2>2, <2>3, <1>1, <1>2 DEF CutAt
<1>4. PICK c : c = <<a, b>>
  OBVIOUS
<1>5. c \in Seq(S) /\ Len(c) = 2 /\ c[1] = a /\ c[2] = b
  BY <1>4
<1>6. PICK y : y = r \o c /\ y = ShiftIn(x, a, b)
  BY <1>2, <1>4 DEF ShiftIn
<1>7. r \in Seq(S) /\ c \in Seq(S)
  BY <1>3, <1>5
<1>8. /\ r \o c \in Seq(S) /\ Len(r \o c) = Len(r) + Len(c)
      /\ \A j \in 1..(Len(r) + Len(c)) :
           (r \o c)[j] = IF j <= Len(r) THEN r[j] ELSE c[j - Len(r)]
  BY <1>7, ConcatProperties
<1>9. /\ y \in Seq(S) /\ Len(y) = 24
      /\ \A j \in 1..24 : y[j] = IF j <= 22 THEN r[j] ELSE c[j - 22]
  <2>1. Len(r) = 22 /\ Len(c) = 2 /\ 22 + 2 = 24
    BY <1>3, <1>5
  <2>. QED
    BY <2>1, <1>6, <1>8
<1>10. y \in [1..24 -> S]
  BY <1>9, SeqIsFunction
<1>11. (\A j \in 1..22 : y[j] = r[j]) /\ y[23] = c[1] /\ y[24] = c[2]
  BY <1>9
<1>. QED
  BY <1>3, <1>5, <1>6, <1>10, <1>11 DEF ShiftedIn

LEMMA ShiftInRange ==
  ASSUME NEW x \in [1..24 -> Int16s], NEW u \in Int16s, NEW v \in Int16s
  PROVE  ShiftIn(x, u, v) \in [1..24 -> Int16s]
BY ShiftInIs DEF ShiftedIn

LEMMA UpperRange ==
  /\ \A i \in 1..14 : Upper5[i] \in Int /\ 880 <= Upper5[i] /\ Upper5[i] <= 23352
  /\ \A i \in 1..28 : Upper6[i] \in Int /\ 728 <= Upper6[i] /\ Upper6[i] <= 24808
BY DEF Upper5, Upper6

LEMMA Qm5Range ==
  ASSUME NEW i \in 0..31
  PROVE  Qm5(i) \in Int16s
<1>1. CASE i < 2
  BY <1>1 DEF Qm5, Int16s, Within
<1>2. CASE 2 <= i /\ i < 16
  <2>1. i - 1 \in 1..14
    BY <1>2
  <2>. QED
    BY <2>1, <1>2, UpperRange DEF Qm5, Int16s, Within
<1>3. CASE 16 <= i /\ i < 30
  <2>1. i - 15 \in 1..14
    BY <1>3
  <2>. QED
    BY <2>1, <1>3, UpperRange DEF Qm5, Int16s, Within
<1>4. CASE 30 <= i
  BY <1>4 DEF Qm5, Int16s, Within
<1>. QED
  BY <1>1, <1>2, <1>3, <1>4

LEMMA Qm6Range ==
  ASSUME NEW i \in 0..63
  PROVE  Qm6(i) \in Int16s
<1>1. CASE i < 4
  BY <1>1 DEF Qm6, Int16s, Within
<1>2. CASE 4 <= i /\ i < 32
  <2>1. i - 3 \in 1..28
    BY <1>2
  <2>. QED
    BY <2>1, <1>2, UpperRange DEF Qm6, Int16s, Within
<1>3. CASE 32 <= i /\ i < 60
  <2>1. i - 31 \in 1..28
    BY <1>3
  <2>. QED
    BY <2>1, <1>3, UpperRange DEF Qm6, Int16s, Within
<1>4. CASE i \in 60..63
  BY <1>4 DEF Qm6, Int16s, Within
<1>. QED
  BY <1>1, <1>2, <1>3, <1>4

LEMMA LevelRange ==
  ASSUME bits \in Rates, NEW v \in Nat
  PROVE  Level(bits, IndexOf(v)) \in Int16s
<1>1. CASE bits = 8
  <2>1. IndexOf(v) \in 0..63
    BY <1>1 DEF IndexOf, Dropped
  <2>. QED
    BY <2>1, <1>1, Qm6Range DEF Level
<1>2. CASE bits = 7
  <2>1. IndexOf(v) \in 0..31
    BY <1>2 DEF IndexOf, Dropped
  <2>. QED
    BY <2>1, <1>2, Qm5Range DEF Level
<1>3. CASE bits = 6
  <2>1. IndexOf(v) \in 0..15
    BY <1>3 DEF IndexOf, Dropped
  <2>. QED
    BY <2>1, <1>3, Qm4Range DEF Level
<1>. QED
  BY <1>1, <1>2, <1>3 DEF Rates

(* What the decoder puts into its filter fits into 16 bits. *)
LEMMA LimitRange ==
  ASSUME NEW r \in Int, NEW q \in Int
  PROVE  Limit(r) + Limit(q) \in Int16s /\ Limit(r) - Limit(q) \in Int16s
<1>1. PICK x \in Int : x = Limit(r) /\ -16384 <= x /\ x <= 16383
  BY DEF Limit, Clamp
<1>2. PICK y \in Int : y = Limit(q) /\ -16384 <= y /\ y <= 16383
  BY DEF Limit, Clamp
<1>. QED
  BY <1>1, <1>2 DEF Int16s, Within

-----------------------------------------------------------------------------
(* The inductive invariant.  The encoder's bands at each code in flight    *)
(* follow from those at the code before it, as the decoder's will.         *)
BandPair == [low : Band(MaxNbLow), high : Band(MaxNbHigh)]

Follows(t, code, u) ==
  /\ u.low = AdaptLow(t.low, RilOf(code))
  /\ ~encEightK => u.high = AdaptHigh(t.high, IhighOf(code))

Chain ==
  /\ track \in Seq(BandPair)
  /\ Len(track) = Len(flight) + 1
  /\ track[Len(track)] = Bands(enc)
  /\ \A n \in 1..Len(flight) : Follows(track[n], FromBits(flight[n]), track[n + 1])

SidesOK ==
  /\ encEightK \in BOOLEAN /\ decEightK \in BOOLEAN
  /\ enc \in Side /\ Stable(enc.low) /\ Stable(enc.high)
  /\ dec \in Side /\ Stable(dec.low) /\ Stable(dec.high)
  /\ lost \in Nat

IInv == PackOK /\ SidesOK /\ Chain /\ InStep

LEMMA EncodeTurn ==
  ASSUME IInv, NEW s \in Signals, Encode(s)
  PROVE  \E ilow \in 0..63, ihigh \in 0..3 :
           /\ enc' \in Side /\ Stable(enc'.low) /\ Stable(enc'.high)
           /\ enc'.low = AdaptLow(enc.low, ilow \div 4)
           /\ ~encEightK => enc'.high = AdaptHigh(enc.high, ihigh)
           /\ Pack(ToBits((64 * ihigh + ilow) \div Dropped))
<1>. DEFINE x     == IF encEightK THEN enc.x ELSE ShiftIn(enc.x, s[1], s[2])
            xlow  == IF encEightK THEN s[1] \div 2 ELSE SplitLow(x)
            xhigh == IF encEightK THEN 0 ELSE SplitHigh(x)
            ilow  == LowIndex(xlow, enc.low)
            ihigh == IF encEightK THEN 3 ELSE HighIndex(xhigh, enc.high)
            high  == IF encEightK THEN enc.high ELSE AdaptHigh(enc.high, ihigh)
<1>1. /\ enc' = [x |-> x, low |-> AdaptLow(enc.low, ilow \div 4), high |-> high]
      /\ Pack(ToBits((64 * ihigh + ilow) \div Dropped))
  BY DEF Encode
<1>2. ilow \in 0..63 /\ ihigh \in 0..3
  BY QuantLowRange, QuantHighRange DEF LowIndex, HighIndex
<1>3. x \in [1..24 -> Int16s]
  <2>1. enc.x \in [1..24 -> Int16s]
    BY DEF IInv, SidesOK, Side
  <2>2. s[1] \in Int16s /\ s[2] \in Int16s
    BY SignalsAssumption
  <2>. QED
    BY <2>1, <2>2, ShiftInRange
<1>4. enc.low \in Band(MaxNbLow) /\ enc.high \in Band(MaxNbHigh) /\ Stable(enc.high)
  BY DEF IInv, SidesOK, Side
<1>5. AdaptLow(enc.low, ilow \div 4) \in Band(MaxNbLow) /\ Stable(AdaptLow(enc.low, ilow \div 4))
  <2>1. ilow \div 4 \in 0..15
    BY <1>2
  <2>. QED
    BY <2>1, <1>4, AdaptLowRange
<1>6. high \in Band(MaxNbHigh) /\ Stable(high)
  BY <1>2, <1>4, AdaptHighRange
<1>. HIDE DEF x, xlow, xhigh, ilow, ihigh
<1>7. enc' \in Side
  BY <1>1, <1>3, <1>5, <1>6 DEF Side
<1>8. enc'.low = AdaptLow(enc.low, ilow \div 4) /\ enc'.high = high
  BY <1>1
<1>9. Stable(enc'.low) /\ Stable(enc'.high)
  BY <1>5, <1>6, <1>8
<1>. QED
  BY <1>1, <1>2, <1>7, <1>8, <1>9

LEMMA DecodeTurn ==
  ASSUME IInv, Decode
  PROVE  /\ flight # <<>>
         /\ PackOK'
         /\ dec' \in Side /\ Stable(dec'.low) /\ Stable(dec'.high)
         /\ dec'.low = AdaptLow(dec.low, RilOf(FromBits(flight[1])))
         /\ ~decEightK => dec'.high = AdaptHigh(dec.high, IhighOf(FromBits(flight[1])))
<1>1. flight # <<>> /\ PackOK' /\ NextCode = flight[1]
  BY UnpackStep DEF IInv, Decode
<1>2. bits \in Rates /\ flight[1] \in Code
  <2>1. bits \in Rates /\ flight \in Seq(Code)
    BY DEF IInv, PackOK
  <2>2. Len(flight) \in Nat \ {0}
    BY <2>1, <1>1, EmptySeq
  <2>. QED
    BY <2>1, <2>2, ElementOfSeq
<1>3. PICK code \in Nat : code = FromBits(flight[1]) /\ RilOf(code) \in 0..15 /\ IhighOf(code) \in 0..3
  BY <1>2, CodeValue
<1>4. /\ dec \in Side /\ Stable(dec.high)
      /\ dec.x \in [1..24 -> Int16s] /\ dec.low \in Band(MaxNbLow) /\ dec.high \in Band(MaxNbHigh)
  BY DEF IInv, SidesOK, Side
<1>5. PICK low : low = AdaptLow(dec.low, RilOf(code)) /\ low \in Band(MaxNbLow) /\ Stable(low)
  BY <1>3, <1>4, AdaptLowRange
<1>6. PICK high : high = AdaptHigh(dec.high, IhighOf(code)) /\ high \in Band(MaxNbHigh) /\ Stable(high)
  BY <1>3, <1>4, AdaptHighRange
<1>7. CASE decEightK
  <2>1. dec' = [dec EXCEPT !.low = low]
    BY <1>1, <1>3, <1>5, <1>7 DEF Decode
  <2>2. dec' \in Side /\ dec'.low = low /\ dec'.high = dec.high
    BY <2>1, <1>4, <1>5 DEF Side
  <2>. QED
    BY <2>2, <1>1, <1>3, <1>4, <1>5, <1>7
<1>8. CASE ~decEightK
  <2>. DEFINE rlow  == Limit(dec.low.s + Scaled(dec.low.det, Level(bits, IndexOf(code))))
              rhigh == Limit(dec.high.s + Scaled(dec.high.det, Qm2[IhighOf(code) + 1]))
              x     == ShiftIn(dec.x, rlow + rhigh, rlow - rhigh)
  <2>1. dec' = [x |-> x, low |-> low, high |-> high]
    BY <1>1, <1>3, <1>5, <1>6, <1>8 DEF Decode
  <2>2. rlow + rhigh \in Int16s /\ rlow - rhigh \in Int16s
    <3>1. /\ dec.low.s \in Int /\ dec.high.s \in Int
          /\ dec.low.det \in Int /\ 0 <= dec.low.det /\ dec.low.det <= 32768
          /\ dec.high.det \in Int /\ 0 <= dec.high.det /\ dec.high.det <= 32768
      BY <1>4 DEF Band, Within, Int16s
    <3>2. /\ Scaled(dec.low.det, Level(bits, IndexOf(code))) \in Int
          /\ Scaled(dec.high.det, Qm2[IhighOf(code) + 1]) \in Int
      BY <1>2, <1>3, <3>1, LevelRange, Qm2Range, ScaledRange, Int16sInt
    <3>3. /\ dec.low.s + Scaled(dec.low.det, Level(bits, IndexOf(code))) \in Int
          /\ dec.high.s + Scaled(dec.high.det, Qm2[IhighOf(code) + 1]) \in Int
      BY <3>1, <3>2
    <3>. QED
      BY <3>3, LimitRange
  <2>3. x \in [1..24 -> Int16s]
    BY <2>2, <1>4, ShiftInRange
  <2>. HIDE DEF x
  <2>4. dec' \in Side /\ dec'.low = low /\ dec'.high = high
    BY <2>1, <2>3, <1>5, <1>6 DEF Side
  <2>. QED
    BY <2>4, <1>1, <1>3, <1>5, <1>6
<1>. QED
  BY <1>7, <1>8

-----------------------------------------------------------------------------
(* Each action preserves the invariant.                                    *)
LEMMA BandsPair ==
  ASSUME NEW side \in Side
  PROVE  Bands(side) \in BandPair /\ Bands(side).low = side.low /\ Bands(side).high = side.high
BY DEF Side, Bands, BandPair

LEMMA StartOK ==
  Start \in Side /\ Stable(Start.low) /\ Stable(Start.high)
<1>1. 0 \in Int16s /\ 0 \in Within(0, MaxNbLow) /\ 0 \in Within(0, MaxNbHigh)
      /\ 32 \in Within(8, 16384) /\ 8 \in Within(8, 16384)
  BY DEF Int16s, Within, MaxNbLow, MaxNbHigh
<1>2. Zeros \in [1..6 -> Int16s] /\ <<0, 0>> \in [1..2 -> Int16s] /\ <<0, 0>> \in [1..2 -> Int]
  BY <1>1 DEF Zeros
<1>3. Silence24 \in [1..24 -> Int16s]
  BY <1>1 DEF Silence24
<1>4. Silent(32) \in Band(MaxNbLow) /\ Silent(8) \in Band(MaxNbHigh)
  BY <1>1, <1>2 DEF Silent, Band
<1>5. Start \in Side
  BY <1>3, <1>4 DEF Start, Side
<1>6. Start.low.a = <<0, 0>> /\ Start.high.a = <<0, 0>>
  BY DEF Start, Silent
<1>7. Stable(Start.low) /\ Stable(Start.high)
  BY <1>6 DEF Stable, Within
<1>. QED
  BY <1>5, <1>7

LEMMA InitIInv == Init => IInv
<1>. SUFFICES ASSUME Init PROVE IInv
  OBVIOUS
<1>1. PackOK
  BY PackStart DEF Init
<1>2. SidesOK
  BY StartOK DEF Init, SidesOK
<1>3. Chain
  <2>1. track = <<Bands(Start)>> /\ flight = <<>> /\ enc = Start
    BY DEF Init, PackInit
  <2>2. PICK t \in BandPair : t = Bands(Start)
    BY StartOK, BandsPair
  <2>3. track \in Seq(BandPair) /\ Len(track) = 1 /\ track[1] = t
    BY <2>1, <2>2
  <2>4. Len(flight) = 0
    BY <2>1
  <2>. QED
    BY <2>1, <2>2, <2>3, <2>4 DEF Chain
<1>4. InStep
  <2>1. track[1] = Bands(Start) /\ dec = Start
    BY DEF Init
  <2>. QED
    BY <2>1, StartOK, BandsPair DEF InStep
<1>. QED
  BY <1>1, <1>2, <1>3, <1>4 DEF IInv

(* What holds between the codes and the bands at them after a step that    *)
(* leaves the rate and eight_k alone.                                      *)
LEMMA LinksKept ==
  ASSUME bits' = bits, encEightK' = encEightK,
         \A n \in 1..Len(flight') : Follows(track'[n], FromBits(flight'[n]), track'[n + 1])
  PROVE  \A n \in 1..Len(flight') : (Follows(track[n], FromBits(flight[n]), track[n + 1]))'
<1>. SUFFICES ASSUME NEW n \in 1..Len(flight')
              PROVE  (Follows(track[n], FromBits(flight[n]), track[n + 1]))'
  OBVIOUS
<1>1. Follows(track'[n], FromBits(flight'[n]), track'[n + 1])
  OBVIOUS
<1>2. Dropped' = Dropped
  BY DEF Dropped
<1>3. PICK code : code = FromBits(flight'[n]) /\ Follows(track'[n], code, track'[n + 1])
  BY <1>1
<1>4. FromBits(flight[n])' = code
  BY <1>3 DEF FromBits
<1>5. RilOf(FromBits(flight[n]))' = RilOf(code)
  BY <1>2, <1>4 DEF RilOf, IndexOf
<1>6. IhighOf(FromBits(flight[n]))' = IhighOf(code)
  BY <1>2, <1>4 DEF IhighOf
<1>. QED
  BY <1>3, <1>4, <1>5, <1>6 DEF Follows

LEMMA EncodeIInv ==
  ASSUME IInv, NEW s \in Signals, Encode(s)
  PROVE  IInv'
<1>1. PICK ilow \in 0..63, ihigh \in 0..3 :
        /\ enc' \in Side /\ Stable(enc'.low) /\ Stable(enc'.high)
        /\ enc'.low = AdaptLow(enc.low, ilow \div 4)
        /\ ~encEightK => enc'.high = AdaptHigh(enc.high, ihigh)
        /\ Pack(ToBits((64 * ihigh + ilow) \div Dropped))
  BY EncodeTurn
<1>2. UNCHANGED <<encEightK, decEightK, dec, lost, bits>>
  BY <1>1 DEF Encode, sideVars, Pack
<1>3. PICK v : v = (64 * ihigh + ilow) \div Dropped
  OBVIOUS
<1>4. bits \in Rates
  BY DEF IInv, PackOK
<1>5. /\ v \in Nat /\ v < 256 \div Dropped
      /\ RilOf(v) = ilow \div 4 /\ IhighOf(v) = ihigh
  BY <1>3, <1>4, IndexBack
<1>6. PICK c \in Code : c = ToBits(v) /\ FromBits(c) = v
  BY <1>4, <1>5, BitsBack
<1>7. Pack(c)
  BY <1>1, <1>3, <1>6
<1>8. PackOK'
  BY <1>7, PackStep DEF IInv
<1>9. SidesOK'
  BY <1>1, <1>2 DEF IInv, SidesOK
<1>10. /\ track \in Seq(BandPair) /\ Len(track) = Len(flight) + 1
       /\ track[Len(track)] = Bands(enc)
       /\ \A n \in 1..Len(flight) : Follows(track[n], FromBits(flight[n]), track[n + 1])
       /\ flight \in Seq(Code)
  BY DEF IInv, Chain, PackOK
<1>11. Len(flight) \in Nat /\ Len(track) \in Nat
  BY <1>10, LenProperties
<1>12. PICK t \in BandPair : t = Bands(enc') /\ t.low = enc'.low /\ t.high = enc'.high
  BY <1>1, BandsPair
<1>13. track' = Append(track, t)
  <2>1. track' = Append(track, Bands(enc'))
    BY DEF Encode
  <2>. QED
    BY <2>1, <1>12
<1>14. /\ track' \in Seq(BandPair) /\ Len(track') = Len(track) + 1
       /\ \A i \in 1..Len(track) : track'[i] = track[i]
       /\ track'[Len(track) + 1] = t
  BY <1>10, <1>13, AppendProperties
<1>15. /\ Len(flight') = Len(flight) + 1
       /\ \A i \in 1..Len(flight) : flight'[i] = flight[i]
       /\ flight'[Len(flight) + 1] = c
  <2>1. flight' = Append(flight, c)
    BY <1>7 DEF Pack
  <2>. QED
    BY <2>1, <1>10, AppendProperties
<1>16. Follows(Bands(enc), v, t)
  BY <1>1, <1>5, <1>12 DEF Follows, Bands
<1>17. ASSUME NEW n \in 1..Len(flight')
       PROVE  Follows(track'[n], FromBits(flight'[n]), track'[n + 1])
  <2>1. CASE n <= Len(flight)
    <3>1. n \in 1..Len(flight) /\ n \in 1..Len(track) /\ n + 1 \in 1..Len(track)
      BY <2>1, <1>10, <1>11, <1>15
    <3>. QED
      BY <3>1, <1>10, <1>14, <1>15
  <2>2. CASE n = Len(flight) + 1
    <3>1. n = Len(track) /\ n \in 1..Len(track) /\ n + 1 = Len(track) + 1
      BY <2>2, <1>10, <1>11
    <3>. QED
      BY <3>1, <2>2, <1>6, <1>10, <1>14, <1>15, <1>16
  <2>. QED
    BY <2>1, <2>2, <1>11, <1>15
<1>18. Chain'
  <2>1. \A n \in 1..Len(flight') : (Follows(track[n], FromBits(flight[n]), track[n + 1]))'
    BY <1>2, <1>17, LinksKept
  <2>2. Len(track') = Len(flight') + 1 /\ track'[Len(track')] = Bands(enc')
    BY <1>10, <1>11, <1>12, <1>14, <1>15
  <2>. QED
    BY <2>1, <2>2, <1>14 DEF Chain
<1>19. InStep'
  <2>1. track'[1] = track[1]
    BY <1>10, <1>11, <1>14
  <2>. QED
    BY <2>1, <1>2 DEF IInv, InStep
<1>. QED
  BY <1>8, <1>9, <1>18, <1>19 DEF IInv

(* The chain loses its first link, to the decoder or on the way. *)
LEMMA ChainTail ==
  ASSUME IInv, flight # <<>>, flight' = Tail(flight), track' = Tail(track),
         UNCHANGED <<bits, encEightK, enc>>
  PROVE  /\ Chain'
         /\ track'[1] = track[2]
         /\ Follows(track[1], FromBits(flight[1]), track[2])
         /\ track[1] \in BandPair /\ Len(flight') < Len(flight)
<1>1. /\ track \in Seq(BandPair) /\ Len(track) = Len(flight) + 1
      /\ track[Len(track)] = Bands(enc)
      /\ \A n \in 1..Len(flight) : Follows(track[n], FromBits(flight[n]), track[n + 1])
      /\ flight \in Seq(Code)
  BY DEF IInv, Chain, PackOK
<1>2. Len(flight) \in Nat \ {0}
  BY <1>1, EmptySeq
<1>3. /\ Len(flight') = Len(flight) - 1
      /\ \A n \in 1..(Len(flight) - 1) : flight'[n] = flight[n + 1]
  BY <1>1, HeadTailProperties
<1>4. track # <<>>
  BY <1>1, <1>2
<1>5. /\ track' \in Seq(BandPair) /\ Len(track') = Len(track) - 1
      /\ \A n \in 1..(Len(track) - 1) : track'[n] = track[n + 1]
  BY <1>1, <1>4, HeadTailProperties
<1>6. track'[1] = track[2] /\ track[1] \in BandPair
  <2>1. 1 \in 1..(Len(track) - 1) /\ 1 \in 1..Len(track) /\ 1 + 1 = 2
    BY <1>1, <1>2
  <2>. QED
    BY <2>1, <1>1, <1>5, ElementOfSeq
<1>7. Follows(track[1], FromBits(flight[1]), track[2])
  <2>1. 1 \in 1..Len(flight) /\ 1 + 1 = 2
    BY <1>2
  <2>. QED
    BY <2>1, <1>1
<1>8. ASSUME NEW n \in 1..Len(flight')
      PROVE  Follows(track'[n], FromBits(flight'[n]), track'[n + 1])
  <2>1. /\ n \in 1..(Len(flight) - 1) /\ n + 1 \in 1..Len(flight)
        /\ n \in 1..(Len(track) - 1) /\ n + 1 \in 1..(Len(track) - 1)
    BY <1>1, <1>2, <1>3
  <2>. QED
    BY <2>1, <1>1, <1>3, <1>5
<1>9. \A n \in 1..Len(flight') : (Follows(track[n], FromBits(flight[n]), track[n + 1]))'
  BY <1>8, LinksKept
<1>10. Len(track') = Len(flight') + 1 /\ track'[Len(track')] = Bands(enc')
  <2>1. Len(track') \in 1..(Len(track) - 1) /\ Len(track') + 1 = Len(track)
    BY <1>1, <1>2, <1>5
  <2>. QED
    BY <2>1, <1>1, <1>3, <1>5
<1>11. Chain'
  BY <1>5, <1>9, <1>10 DEF Chain
<1>12. Len(flight') < Len(flight)
  BY <1>2, <1>3
<1>. QED
  BY <1>6, <1>7, <1>11, <1>12

LEMMA DecodeIInv ==
  ASSUME IInv, Decode
  PROVE  IInv'
<1>1. /\ flight # <<>> /\ PackOK'
      /\ dec' \in Side /\ Stable(dec'.low) /\ Stable(dec'.high)
      /\ dec'.low = AdaptLow(dec.low, RilOf(FromBits(flight[1])))
      /\ ~decEightK => dec'.high = AdaptHigh(dec.high, IhighOf(FromBits(flight[1])))
  BY DecodeTurn
<1>2. /\ flight' = Tail(flight) /\ track' = Tail(track)
      /\ UNCHANGED <<bits, encEightK, decEightK, enc, lost>>
  BY DEF Decode, Unpack, sideVars
<1>3. /\ Chain' /\ track'[1] = track[2]
      /\ Follows(track[1], FromBits(flight[1]), track[2])
  BY <1>1, <1>2, ChainTail
<1>4. SidesOK'
  BY <1>1, <1>2 DEF IInv, SidesOK
<1>5. InStep'
  <2>1. SUFFICES ASSUME lost' = 0
                 PROVE  /\ dec'.low = track'[1].low
                        /\ ~encEightK' /\ ~decEightK' => dec'.high = track'[1].high
    BY DEF InStep
  <2>2. /\ dec.low = track[1].low
        /\ ~encEightK /\ ~decEightK => dec.high = track[1].high
    BY <2>1, <1>2 DEF IInv, InStep
  <2>. QED
    BY <2>2, <1>1, <1>2, <1>3 DEF Follows
<1>. QED
  BY <1>1, <1>3, <1>4, <1>5 DEF IInv

LEMMA LoseIInv ==
  ASSUME IInv, LoseCode
  PROVE  IInv'
<1>1. /\ flight' = Tail(flight) /\ track' = Tail(track) /\ lost' = lost + 1
      /\ UNCHANGED <<bits, encEightK, decEightK, enc, dec>>
  BY DEF LoseCode, Lose, sideVars
<1>2. PackOK' /\ flight # <<>>
  BY LoseStep DEF IInv, LoseCode
<1>3. Chain'
  BY <1>1, <1>2, ChainTail
<1>4. lost \in Nat
  BY DEF IInv, SidesOK
<1>5. lost' \in Nat /\ lost' # 0
  BY <1>1, <1>4
<1>6. SidesOK' /\ InStep'
  BY <1>1, <1>5 DEF IInv, SidesOK, InStep
<1>. QED
  BY <1>2, <1>3, <1>6 DEF IInv

LEMMA NextIInv == IInv /\ [Next]_vars => IInv'
<1>. SUFFICES ASSUME IInv, [Next]_vars PROVE IInv'
  OBVIOUS
<1>1. CASE \E s \in Signals : Encode(s)
  BY <1>1, EncodeIInv
<1>2. CASE Decode
  BY <1>2, DecodeIInv
<1>3. CASE LoseCode
  BY <1>3, LoseIInv
<1>4. CASE UNCHANGED vars
  <2>1. UNCHANGED <<bits, packed, out, wire, inb, flight, encEightK, decEightK, enc, dec, track, lost>>
    BY <1>4 DEF vars, packVars, sideVars
  <2>2. PackOK'
    BY <2>1 DEF IInv, PackOK, Code, Conserved, FlightBit, Stream
  <2>3. SidesOK' /\ InStep'
    BY <2>1 DEF IInv, SidesOK, InStep
  <2>4. \A n \in 1..Len(flight') : (Follows(track[n], FromBits(flight[n]), track[n + 1]))'
    BY <2>1, LinksKept DEF IInv, Chain
  <2>5. Chain'
    BY <2>1, <2>4 DEF IInv, Chain
  <2>. QED
    BY <2>2, <2>3, <2>5 DEF IInv
<1>. QED
  BY <1>1, <1>2, <1>3, <1>4 DEF Next

(* The codec's inductive invariant.                                        *)
THEOREM Invariance == Spec => []IInv
BY InitIInv, NextIInv, PTL DEF Spec

(* What either side keeps fits into 16 bits and its predictor is stable,   *)
(* whatever is encoded (g722_encode's and g722_decode's block4, LOGSCL and *)
(* SCALEL).                                                                *)
THEOREM TypesAreRight == Spec => []TypeOK
<1>1. IInv => TypeOK
  BY DEF IInv, PackOK, SidesOK, Chain, TypeOK
<1>. QED
  BY <1>1, Invariance, PTL

(* Packed or not, the bytes carry the codes (the ends of the loops of      *)
(* g722_encode and g722_decode).                                           *)
THEOREM CodesAreConserved == Spec => []Conserved
<1>1. IInv => Conserved
  BY DEF IInv, PackOK
<1>. QED
  BY <1>1, Invariance, PTL

(* At most two codes stay behind when all bytes are decoded. *)
THEOREM LagIsBounded == Spec => []Lag
<1>1. IInv => Lag
  BY LagBound DEF IInv
<1>. QED
  BY <1>1, Invariance, PTL

(* The decoder's adaptation repeats the encoder's, at every rate. *)
THEOREM DecoderFollows == Spec => []InStep
<1>1. IInv => InStep
  BY DEF IInv
<1>. QED
  BY <1>1, Invariance, PTL

-----------------------------------------------------------------------------
(* The scale factors after a loss.  The leak brings two logarithms closer  *)
(* when they are 128 or more apart, and neither the leak, nor the same     *)
(* step added to both, nor the limits take them further apart.             *)
LEMMA LeakGap ==
  ASSUME NEW x \in Int, NEW y \in Int, x <= y
  PROVE  /\ (x * 127) \div 128 <= (y * 127) \div 128
         /\ (y * 127) \div 128 - (x * 127) \div 128 <= y - x
         /\ y - x >= 128 => (y * 127) \div 128 - (x * 127) \div 128 < y - x
<1>1. PICK p \in Int : p = (x * 127) \div 128 /\ 128 * p <= 127 * x /\ 127 * x < 128 * p + 128
  OBVIOUS
<1>2. PICK q \in Int : q = (y * 127) \div 128 /\ 128 * q <= 127 * y /\ 127 * y < 128 * q + 128
  OBVIOUS
<1>3. p <= q /\ q - p <= y - x /\ (y - x >= 128 => q - p < y - x)
  BY <1>1, <1>2
<1>. QED
  BY <1>1, <1>2, <1>3

LEMMA ClampGap ==
  ASSUME NEW x \in Int, NEW y \in Int, x <= y, NEW max \in Nat
  PROVE  /\ Clamp(x, 0, max) \in Int /\ Clamp(y, 0, max) \in Int
         /\ Clamp(x, 0, max) <= Clamp(y, 0, max)
         /\ Clamp(y, 0, max) - Clamp(x, 0, max) <= y - x
BY DEF Clamp

LEMMA LogScaleGap ==
  ASSUME NEW x \in Int, NEW y \in Int, NEW w \in Int, NEW max \in Nat
  PROVE  /\ LogScale(x, w, max) \in Int /\ LogScale(y, w, max) \in Int
         /\ Abs(LogScale(x, w, max) - LogScale(y, w, max)) <= Abs(x - y)
         /\ Abs(x - y) >= 128 => Abs(LogScale(x, w, max) - LogScale(y, w, max)) < Abs(x - y)
<1>1. PICK p \in Int : p = (x * 127) \div 128
  OBVIOUS
<1>2. PICK q \in Int : q = (y * 127) \div 128
  OBVIOUS
<1>3. PICK u : u = LogScale(x, w, max) /\ u = Clamp(p + w, 0, max)
  BY <1>1 DEF LogScale
<1>4. PICK v : v = LogScale(y, w, max) /\ v = Clamp(q + w, 0, max)
  BY <1>2 DEF LogScale
<1>5. p + w \in Int /\ q + w \in Int
  OBVIOUS
<1>6. CASE x <= y
  <2>1. p <= q /\ q - p <= y - x /\ (y - x >= 128 => q - p < y - x)
    BY <1>1, <1>2, <1>6, LeakGap
  <2>2. p + w <= q + w
    BY <2>1
  <2>3. u \in Int /\ v \in Int /\ u <= v /\ v - u <= (q + w) - (p + w)
    BY <2>2, <1>3, <1>4, <1>5, ClampGap
  <2>4. Abs(u - v) = v - u /\ Abs(x - y) = y - x
    BY <2>3, <1>6 DEF Abs
  <2>. QED
    BY <2>1, <2>3, <2>4, <1>3, <1>4
<1>7. CASE y <= x
  <2>1. q <= p /\ p - q <= x - y /\ (x - y >= 128 => p - q < x - y)
    BY <1>1, <1>2, <1>7, LeakGap
  <2>2. q + w <= p + w
    BY <2>1
  <2>3. u \in Int /\ v \in Int /\ v <= u /\ u - v <= (p + w) - (q + w)
    BY <2>2, <1>3, <1>4, <1>5, ClampGap
  <2>4. Abs(u - v) = u - v /\ Abs(x - y) = x - y
    BY <2>3, <1>7 DEF Abs
  <2>. QED
    BY <2>1, <2>3, <2>4, <1>3, <1>4
<1>. QED
  BY <1>6, <1>7

Approach ==
  Len(flight') < Len(flight) /\ lost' = lost
  => \A band \in IF encEightK \/ decEightK THEN {"low"} ELSE {"low", "high"} :
       Gap(band)' <= Gap(band) /\ (Gap(band) >= 128 => Gap(band)' < Gap(band))

LEMMA DecodeApproach ==
  ASSUME IInv, Decode
  PROVE  Approach
<1>1. /\ flight # <<>>
      /\ dec'.low = AdaptLow(dec.low, RilOf(FromBits(flight[1])))
      /\ ~decEightK => dec'.high = AdaptHigh(dec.high, IhighOf(FromBits(flight[1])))
  BY DecodeTurn
<1>2. /\ flight' = Tail(flight) /\ track' = Tail(track)
      /\ UNCHANGED <<bits, encEightK, decEightK, enc, lost>>
  BY DEF Decode, Unpack, sideVars
<1>3. /\ track'[1] = track[2]
      /\ Follows(track[1], FromBits(flight[1]), track[2])
      /\ track[1] \in BandPair
  BY <1>1, <1>2, ChainTail
<1>4. bits \in Rates /\ flight[1] \in Code
  <2>1. bits \in Rates /\ flight \in Seq(Code)
    BY DEF IInv, PackOK
  <2>2. Len(flight) \in Nat \ {0}
    BY <2>1, <1>1, EmptySeq
  <2>. QED
    BY <2>1, <2>2, ElementOfSeq
<1>5. PICK code : code = FromBits(flight[1]) /\ RilOf(code) \in 0..15 /\ IhighOf(code) \in 0..3
  BY <1>4, CodeValue
<1>6. /\ dec.low.nb \in Int /\ dec.high.nb \in Int
      /\ track[1].low.nb \in Int /\ track[1].high.nb \in Int
  BY <1>3 DEF IInv, SidesOK, Side, BandPair, Band, Within
<1>7. PICK w \in Int : w = Wl[Rl42[RilOf(code) + 1] + 1]
  BY <1>5, WlInt
<1>8. PICK h \in Int : h = WhRh2[IhighOf(code) + 1]
  BY <1>5, Qm2Range
<1>9. /\ dec'.low.nb = LogScale(dec.low.nb, w, MaxNbLow)
      /\ track'[1].low.nb = LogScale(track[1].low.nb, w, MaxNbLow)
  BY <1>1, <1>3, <1>5, <1>7 DEF Follows, AdaptLow, Block4
<1>10. ASSUME ~encEightK, ~decEightK
       PROVE  /\ dec'.high.nb = LogScale(dec.high.nb, h, MaxNbHigh)
              /\ track'[1].high.nb = LogScale(track[1].high.nb, h, MaxNbHigh)
  BY <1>1, <1>3, <1>5, <1>8, <1>10 DEF Follows, AdaptHigh, Block4
<1>11. /\ Abs(dec'.low.nb - track'[1].low.nb) <= Abs(dec.low.nb - track[1].low.nb)
       /\ Abs(dec.low.nb - track[1].low.nb) >= 128
          => Abs(dec'.low.nb - track'[1].low.nb) < Abs(dec.low.nb - track[1].low.nb)
  <2>1. MaxNbLow \in Nat
    BY DEF MaxNbLow
  <2>. QED
    BY <2>1, <1>6, <1>7, <1>9, LogScaleGap
<1>12. ASSUME ~encEightK, ~decEightK
       PROVE  /\ Abs(dec'.high.nb - track'[1].high.nb) <= Abs(dec.high.nb - track[1].high.nb)
              /\ Abs(dec.high.nb - track[1].high.nb) >= 128
                 => Abs(dec'.high.nb - track'[1].high.nb) < Abs(dec.high.nb - track[1].high.nb)
  <2>1. MaxNbHigh \in Nat
    BY DEF MaxNbHigh
  <2>. QED
    BY <2>1, <1>6, <1>8, <1>10, <1>12, LogScaleGap
<1>. QED
  BY <1>11, <1>12 DEF Approach, Gap

(* After a lost code the two scale factors only come closer. *)
THEOREM ScalesComeCloser == Spec => ScalesApproach
<1>1. IInv /\ [Next]_vars => [Approach]_vars
  <2>. SUFFICES ASSUME IInv, Next PROVE Approach
    OBVIOUS
  <2>1. flight \in Seq(Code) /\ Len(flight) \in Nat /\ lost \in Nat
    BY DEF IInv, PackOK, SidesOK
  <2>2. CASE \E s \in Signals : Encode(s)
    <3>1. \E c : flight' = Append(flight, c)
      BY <2>2 DEF Encode, Pack
    <3>2. Len(flight') = Len(flight) + 1
      BY <3>1, <2>1
    <3>. QED
      BY <3>2, <2>1 DEF Approach
  <2>3. CASE Decode
    BY <2>3, DecodeApproach
  <2>4. CASE LoseCode
    BY <2>1, <2>4 DEF LoseCode, Approach
  <2>. QED
    BY <2>2, <2>3, <2>4 DEF Next
<1>. QED
  BY <1>1, Invariance, PTL DEF Spec, ScalesApproach, Approach

-----------------------------------------------------------------------------
(* The two filters one after the other.  Each output of the receive filter *)
(* is a sum, weighted with the coefficients, of sums of the transmit       *)
(* filter, weighted with the same coefficients: over the last 23 samples u *)
(* of one parity, the coefficients' correlation with themselves, which is  *)
(* 2^24 at the middle one and next to nothing elsewhere.                   *)
Taps(a1, a2, a3, a4, a5, a6, a7, a8, a9, a10, a11, a12) ==
  3 * a1 - 11 * a2 + 12 * a3 + 32 * a4 - 210 * a5 + 951 * a6 + 3876 * a7 - 805 * a8 + 362 * a9
    - 156 * a10 + 53 * a11 - 11 * a12

(* What the twelve samples from u[k] on make with the coefficients in      *)
(* order, and reversed.                                                    *)
Rise(u, k) == Taps(u[k], u[k + 1], u[k + 2], u[k + 3], u[k + 4], u[k + 5],
                   u[k + 6], u[k + 7], u[k + 8], u[k + 9], u[k + 10], u[k + 11])
Fall(u, k) == Taps(u[k + 11], u[k + 10], u[k + 9], u[k + 8], u[k + 7], u[k + 6],
                   u[k + 5], u[k + 4], u[k + 3], u[k + 2], u[k + 1], u[k])

(* Samples no larger than p. *)
Sound(u, p) == \A j \in 1..23 : u[j] \in Int /\ -p <= u[j] /\ u[j] <= p

(* The correlation's weights off the middle, and the middle one's distance *)
(* from 2^24, add up to 40532.                                             *)
LEMMA Convolved ==
  ASSUME NEW p \in Nat, NEW u \in [1..23 -> Int], Sound(u, p),
         NEW sum, \/ sum = Taps(Rise(u, 12), Rise(u, 11), Rise(u, 10), Rise(u, 9), Rise(u, 8),
                                Rise(u, 7), Rise(u, 6), Rise(u, 5), Rise(u, 4), Rise(u, 3),
                                Rise(u, 2), Rise(u, 1))
                  \/ sum = Taps(Fall(u, 1), Fall(u, 2), Fall(u, 3), Fall(u, 4), Fall(u, 5),
                                Fall(u, 6), Fall(u, 7), Fall(u, 8), Fall(u, 9), Fall(u, 10),
                                Fall(u, 11), Fall(u, 12))
  PROVE  /\ sum \in Int
         /\ sum - 16777216 * u[12] <= 40532 * p /\ 16777216 * u[12] - sum <= 40532 * p
<1>1. /\ u[1] \in Int /\ u[2] \in Int /\ u[3] \in Int /\ u[4] \in Int /\ u[5] \in Int
      /\ u[6] \in Int /\ u[7] \in Int /\ u[8] \in Int /\ u[9] \in Int /\ u[10] \in Int
      /\ u[11] \in Int /\ u[12] \in Int /\ u[13] \in Int /\ u[14] \in Int /\ u[15] \in Int
      /\ u[16] \in Int /\ u[17] \in Int /\ u[18] \in Int /\ u[19] \in Int /\ u[20] \in Int
      /\ u[21] \in Int /\ u[22] \in Int /\ u[23] \in Int
  OBVIOUS
<1>2. PICK x1 \in Int, x2 \in Int, x3 \in Int, x4 \in Int, x5 \in Int, x6 \in Int, x7 \in Int,
           x8 \in Int, x9 \in Int, x10 \in Int, x11 \in Int, x12 \in Int, x13 \in Int,
           x14 \in Int, x15 \in Int, x16 \in Int, x17 \in Int, x18 \in Int, x19 \in Int,
           x20 \in Int, x21 \in Int, x22 \in Int, x23 \in Int :
        /\ x1 = u[1] /\ x2 = u[2] /\ x3 = u[3] /\ x4 = u[4] /\ x5 = u[5] /\ x6 = u[6] /\ x7 = u[7]
        /\ x8 = u[8] /\ x9 = u[9] /\ x10 = u[10] /\ x11 = u[11] /\ x12 = u[12] /\ x13 = u[13]
        /\ x14 = u[14] /\ x15 = u[15] /\ x16 = u[16] /\ x17 = u[17] /\ x18 = u[18] /\ x19 = u[19]
        /\ x20 = u[20] /\ x21 = u[21] /\ x22 = u[22] /\ x23 = u[23]
  BY <1>1
<1>3. \/ sum = Taps(Taps(x12, x13, x14, x15, x16, x17, x18, x19, x20, x21, x22, x23),
                    Taps(x11, x12, x13, x14, x15, x16, x17, x18, x19, x20, x21, x22),
                    Taps(x10, x11, x12, x13, x14, x15, x16, x17, x18, x19, x20, x21),
                    Taps(x9, x10, x11, x12, x13, x14, x15, x16, x17, x18, x19, x20),
                    Taps(x8, x9, x10, x11, x12, x13, x14, x15, x16, x17, x18, x19),
                    Taps(x7, x8, x9, x10, x11, x12, x13, x14, x15, x16, x17, x18),
                    Taps(x6, x7, x8, x9, x10, x11, x12, x13, x14, x15, x16, x17),
                    Taps(x5, x6, x7, x8, x9, x10, x11, x12, x13, x14, x15, x16),
                    Taps(x4, x5, x6, x7, x8, x9, x10, x11, x12, x13, x14, x15),
                    Taps(x3, x4, x5, x6, x7, x8, x9, x10, x11, x12, x13, x14),
                    Taps(x2, x3, x4, x5, x6, x7, x8, x9, x10, x11, x12, x13),
                    Taps(x1, x2, x3, x4, x5, x6, x7, x8, x9, x10, x11, x12))
      \/ sum = Taps(Taps(x12, x11, x10, x9, x8, x7, x6, x5, x4, x3, x2, x1),
                    Taps(x13, x12, x11, x10, x9, x8, x7, x6, x5, x4, x3, x2),
                    Taps(x14, x13, x12, x11, x10, x9, x8, x7, x6, x5, x4, x3),
                    Taps(x15, x14, x13, x12, x11, x10, x9, x8, x7, x6, x5, x4),
                    Taps(x16, x15, x14, x13, x12, x11, x10, x9, x8, x7, x6, x5),
                    Taps(x17, x16, x15, x14, x13, x12, x11, x10, x9, x8, x7, x6),
                    Taps(x18, x17, x16, x15, x14, x13, x12, x11, x10, x9, x8, x7),
                    Taps(x19, x18, x17, x16, x15, x14, x13, x12, x11, x10, x9, x8),
                    Taps(x20, x19, x18, x17, x16, x15, x14, x13, x12, x11, x10, x9),
                    Taps(x21, x20, x19, x18, x17, x16, x15, x14, x13, x12, x11, x10),
                    Taps(x22, x21, x20, x19, x18, x17, x16, x15, x14, x13, x12, x11),
                    Taps(x23, x22, x21, x20, x19, x18, x17, x16, x15, x14, x13, x12))
  BY <1>2 DEF Rise, Fall
<1>4. sum = 16779510 * x12 + 2952 * (x11 + x13) - 2325 * (x10 + x14) - 141 * (x9 + x15)
            - 432 * (x8 + x16) + 2668 * (x7 + x17) - 1756 * (x6 + x18) - 4263 * (x5 + x19)
            + 3086 * (x4 + x20) - 1183 * (x3 + x21) + 280 * (x2 + x22) - 33 * (x1 + x23)
  BY <1>3 DEF Taps
<1>5. \A j \in 1..23 : -p <= u[j] /\ u[j] <= p
  BY DEF Sound
<1>6. /\ -p <= x1 /\ x1 <= p /\ -p <= x2 /\ x2 <= p /\ -p <= x3 /\ x3 <= p /\ -p <= x4 /\ x4 <= p
      /\ -p <= x5 /\ x5 <= p /\ -p <= x6 /\ x6 <= p /\ -p <= x7 /\ x7 <= p /\ -p <= x8 /\ x8 <= p
      /\ -p <= x9 /\ x9 <= p /\ -p <= x10 /\ x10 <= p /\ -p <= x11 /\ x11 <= p
      /\ -p <= x12 /\ x12 <= p /\ -p <= x13 /\ x13 <= p /\ -p <= x14 /\ x14 <= p
      /\ -p <= x15 /\ x15 <= p /\ -p <= x16 /\ x16 <= p /\ -p <= x17 /\ x17 <= p
      /\ -p <= x18 /\ x18 <= p /\ -p <= x19 /\ x19 <= p /\ -p <= x20 /\ x20 <= p
      /\ -p <= x21 /\ x21 <= p /\ -p <= x22 /\ x22 <= p /\ -p <= x23 /\ x23 <= p
  BY <1>2, <1>5
<1>7. sum \in Int /\ sum - 16777216 * x12 <= 40532 * p /\ 16777216 * x12 - sum <= 40532 * p
  BY <1>4, <1>6
<1>. QED
  BY <1>2, <1>7

LEMMA CoeffsAre ==
  /\ Coeffs[1] = 3 /\ Coeffs[2] = -11 /\ Coeffs[3] = 12 /\ Coeffs[4] = 32
  /\ Coeffs[5] = -210 /\ Coeffs[6] = 951 /\ Coeffs[7] = 3876 /\ Coeffs[8] = -805
  /\ Coeffs[9] = 362 /\ Coeffs[10] = -156 /\ Coeffs[11] = 53 /\ Coeffs[12] = -11
BY DEF Coeffs

(* The filters of the code, as those sums. *)
LEMMA EvenTapsAre ==
  ASSUME NEW x \in [1..24 -> Int]
  PROVE  EvenTaps(x) = Taps(x[1], x[3], x[5], x[7], x[9], x[11],
                            x[13], x[15], x[17], x[19], x[21], x[23])
<1>1. PICK g : g = [i \in 1..12 |-> x[2 * i - 1] * Coeffs[i]]
  OBVIOUS
<1>2. /\ g[1] = x[1] * 3 /\ g[2] = x[3] * (-11) /\ g[3] = x[5] * 12 /\ g[4] = x[7] * 32
      /\ g[5] = x[9] * (-210) /\ g[6] = x[11] * 951 /\ g[7] = x[13] * 3876
      /\ g[8] = x[15] * (-805) /\ g[9] = x[17] * 362 /\ g[10] = x[19] * (-156)
      /\ g[11] = x[21] * 53 /\ g[12] = x[23] * (-11)
  BY <1>1, CoeffsAre
<1>3. EvenTaps(x) = g[1] + g[2] + g[3] + g[4] + g[5] + g[6]
                    + g[7] + g[8] + g[9] + g[10] + g[11] + g[12]
  BY <1>1 DEF Sum12, Sum6, EvenTaps
<1>. QED
  BY <1>2, <1>3 DEF Taps

LEMMA OddTapsAre ==
  ASSUME NEW x \in [1..24 -> Int]
  PROVE  OddTaps(x) = Taps(x[24], x[22], x[20], x[18], x[16], x[14],
                           x[12], x[10], x[8], x[6], x[4], x[2])
<1>1. PICK g : g = [i \in 1..12 |-> x[2 * i] * Coeffs[13 - i]]
  OBVIOUS
<1>2. /\ g[12] = x[24] * 3 /\ g[11] = x[22] * (-11) /\ g[10] = x[20] * 12 /\ g[9] = x[18] * 32
      /\ g[8] = x[16] * (-210) /\ g[7] = x[14] * 951 /\ g[6] = x[12] * 3876
      /\ g[5] = x[10] * (-805) /\ g[4] = x[8] * 362 /\ g[3] = x[6] * (-156)
      /\ g[2] = x[4] * 53 /\ g[1] = x[2] * (-11)
  BY <1>1, CoeffsAre
<1>3. OddTaps(x) = g[1] + g[2] + g[3] + g[4] + g[5] + g[6]
                   + g[7] + g[8] + g[9] + g[10] + g[11] + g[12]
  BY <1>1 DEF Sum12, Sum6, OddTaps
<1>. QED
  BY <1>2, <1>3 DEF Taps

(* Bands that are joined as they are: a filter's sum is halved and rounded *)
(* on the way.                                                             *)
Both(o, e)  == (o + e) \div 16384 + (o - e) \div 16384
Other(o, e) == (o + e) \div 16384 - (o - e) \div 16384

(* a, in units of 2^14, is twice b but for lo to hi. *)
Twice(a, b, lo, hi) == lo <= 16384 * a - 2 * b /\ 16384 * a - 2 * b <= hi

LEMMA BothAndOther ==
  ASSUME NEW o \in Int, NEW e \in Int
  PROVE  /\ Twice(Both(o, e), o, -32766, 0)
         /\ Twice(Other(o, e), e, -16383, 16383)
<1>1. PICK a \in Int : a = (o + e) \div 16384 /\ 16384 * a <= o + e /\ o + e <= 16384 * a + 16383
  OBVIOUS
<1>2. PICK b \in Int : b = (o - e) \div 16384 /\ 16384 * b <= o - e /\ o - e <= 16384 * b + 16383
  OBVIOUS
<1>3. /\ -32766 <= 16384 * (a + b) - 2 * o /\ 16384 * (a + b) - 2 * o <= 0
      /\ -16383 <= 16384 * (a - b) - 2 * e /\ 16384 * (a - b) - 2 * e <= 16383
  BY <1>1, <1>2
<1>. QED
  BY <1>1, <1>2, <1>3 DEF Both, Other, Twice

TapsOf(f) == Taps(f[1], f[2], f[3], f[4], f[5], f[6], f[7], f[8], f[9], f[10], f[11], f[12])

(* Twelve values that are twice twelve others, each as nearly as that; the *)
(* positive coefficients add up to 5289, the negative ones to -1193.       *)
Off(a, b, lo, hi) ==
  \A k \in 1..12 : Twice(a[k], b[k], lo, hi)

SumsOff(a, b, lo, hi) ==
  /\ TapsOf(a) \in Int /\ TapsOf(b) \in Int
  /\ Twice(TapsOf(a), TapsOf(b), 5289 * lo - 1193 * hi, 5289 * hi - 1193 * lo)

LEMMA TapsOff ==
  ASSUME NEW lo \in Int, NEW hi \in Int, NEW a \in [1..12 -> Int], NEW b \in [1..12 -> Int]
  PROVE  Off(a, b, lo, hi) => SumsOff(a, b, lo, hi)
<1>1. PICK a1 \in Int, a2 \in Int, a3 \in Int, a4 \in Int, a5 \in Int, a6 \in Int,
           a7 \in Int, a8 \in Int, a9 \in Int, a10 \in Int, a11 \in Int, a12 \in Int :
        /\ a1 = a[1] /\ a2 = a[2] /\ a3 = a[3] /\ a4 = a[4] /\ a5 = a[5] /\ a6 = a[6]
        /\ a7 = a[7] /\ a8 = a[8] /\ a9 = a[9] /\ a10 = a[10] /\ a11 = a[11] /\ a12 = a[12]
  <2>1. /\ a[1] \in Int /\ a[2] \in Int /\ a[3] \in Int /\ a[4] \in Int
        /\ a[5] \in Int /\ a[6] \in Int /\ a[7] \in Int /\ a[8] \in Int
        /\ a[9] \in Int /\ a[10] \in Int /\ a[11] \in Int /\ a[12] \in Int
    OBVIOUS
  <2>. QED
    BY <2>1
<1>2. PICK b1 \in Int, b2 \in Int, b3 \in Int, b4 \in Int, b5 \in Int, b6 \in Int,
           b7 \in Int, b8 \in Int, b9 \in Int, b10 \in Int, b11 \in Int, b12 \in Int :
        /\ b1 = b[1] /\ b2 = b[2] /\ b3 = b[3] /\ b4 = b[4] /\ b5 = b[5] /\ b6 = b[6]
        /\ b7 = b[7] /\ b8 = b[8] /\ b9 = b[9] /\ b10 = b[10] /\ b11 = b[11] /\ b12 = b[12]
  <2>1. /\ b[1] \in Int /\ b[2] \in Int /\ b[3] \in Int /\ b[4] \in Int
        /\ b[5] \in Int /\ b[6] \in Int /\ b[7] \in Int /\ b[8] \in Int
        /\ b[9] \in Int /\ b[10] \in Int /\ b[11] \in Int /\ b[12] \in Int
    OBVIOUS
  <2>. QED
    BY <2>1
<1>3. ASSUME Off(a, b, lo, hi)
      PROVE  /\ lo <= 16384 * a1 - 2 * b1 /\ 16384 * a1 - 2 * b1 <= hi
             /\ lo <= 16384 * a2 - 2 * b2 /\ 16384 * a2 - 2 * b2 <= hi
             /\ lo <= 16384 * a3 - 2 * b3 /\ 16384 * a3 - 2 * b3 <= hi
             /\ lo <= 16384 * a4 - 2 * b4 /\ 16384 * a4 - 2 * b4 <= hi
             /\ lo <= 16384 * a5 - 2 * b5 /\ 16384 * a5 - 2 * b5 <= hi
             /\ lo <= 16384 * a6 - 2 * b6 /\ 16384 * a6 - 2 * b6 <= hi
             /\ lo <= 16384 * a7 - 2 * b7 /\ 16384 * a7 - 2 * b7 <= hi
             /\ lo <= 16384 * a8 - 2 * b8 /\ 16384 * a8 - 2 * b8 <= hi
             /\ lo <= 16384 * a9 - 2 * b9 /\ 16384 * a9 - 2 * b9 <= hi
             /\ lo <= 16384 * a10 - 2 * b10 /\ 16384 * a10 - 2 * b10 <= hi
             /\ lo <= 16384 * a11 - 2 * b11 /\ 16384 * a11 - 2 * b11 <= hi
             /\ lo <= 16384 * a12 - 2 * b12 /\ 16384 * a12 - 2 * b12 <= hi
  BY <1>1, <1>2, <1>3 DEF Off, Twice
<1>4. /\ TapsOf(a) = Taps(a1, a2, a3, a4, a5, a6, a7, a8, a9, a10, a11, a12)
      /\ TapsOf(b) = Taps(b1, b2, b3, b4, b5, b6, b7, b8, b9, b10, b11, b12)
  BY <1>1, <1>2 DEF TapsOf
<1>. QED
  BY <1>3, <1>4 DEF Taps, Twice, SumsOff

(* What that leaves of the 2^24 after the receive filter's division. *)
LEMMA NearEnough ==
  ASSUME NEW p \in Nat, NEW a \in Int, NEW b \in Int, NEW x \in Int,
         b - 16777216 * x <= 40532 * p, 16777216 * x - b <= 40532 * p,
         -173300000 <= 16384 * a - 2 * b, 16384 * a - 2 * b <= 106200000
  PROVE  Abs(a \div 2048 - x) <= 8 + p \div 256
<1>1. PICK n \in Int : n = a \div 2048 /\ 2048 * n <= a /\ a <= 2048 * n + 2047
  OBVIOUS
<1>2. PICK m \in Int : m = p \div 256 /\ p <= 256 * m + 255 /\ m >= 0
  OBVIOUS
<1>3. n - x <= 8 + m /\ x - n <= 8 + m
  BY <1>1, <1>2
<1>. QED
  BY <1>1, <1>2, <1>3 DEF Abs

(* The last 23 pairs u and v: a filter x of the encoder has the last       *)
(* twelve, and each pair of bands in the other filter is what those twelve *)
(* that end with a pair made.                                              *)
Heard(x, h, t, u, v, p) ==
  /\ Sound(u, p) /\ Sound(v, p)
  /\ \A j \in 1..12 : /\ x[2 * j - 1] = u[11 + j] /\ x[2 * j] = v[11 + j]
                      /\ h[j] = <<u[11 + j], v[11 + j]>>
  /\ \A k \in 1..12 : /\ t[2 * k - 1] = Both(Fall(v, k), Rise(u, k))
                      /\ t[2 * k] = Other(Fall(v, k), Rise(u, k))

LEMMA SumsInt ==
  ASSUME NEW u \in [1..23 -> Int], NEW k \in 1..12
  PROVE  Rise(u, k) \in Int /\ Fall(u, k) \in Int
<1>1. \A i \in 0..11 : u[k + i] \in Int
  OBVIOUS
<1>2. /\ u[k] \in Int /\ u[k + 1] \in Int /\ u[k + 2] \in Int /\ u[k + 3] \in Int
      /\ u[k + 4] \in Int /\ u[k + 5] \in Int /\ u[k + 6] \in Int /\ u[k + 7] \in Int
      /\ u[k + 8] \in Int /\ u[k + 9] \in Int /\ u[k + 10] \in Int /\ u[k + 11] \in Int
  OBVIOUS
<1>. QED
  BY <1>2 DEF Rise, Fall, Taps

LEMMA BandsInt ==
  ASSUME NEW u \in [1..23 -> Int], NEW v \in [1..23 -> Int], NEW k \in 1..12
  PROVE  Both(Fall(v, k), Rise(u, k)) \in Int /\ Other(Fall(v, k), Rise(u, k)) \in Int
<1>1. PICK o \in Int, e \in Int : o = Fall(v, k) /\ e = Rise(u, k)
  BY SumsInt
<1>2. (o + e) \div 16384 \in Int /\ (o - e) \div 16384 \in Int
  OBVIOUS
<1>3. Both(o, e) \in Int /\ Other(o, e) \in Int
  BY <1>2 DEF Both, Other
<1>. QED
  BY <1>1, <1>3

(* The receive filter gives back the pair of eleven pairs ago. *)
LEMMA JoinedBack ==
  ASSUME NEW x, NEW h, NEW t \in [1..24 -> Int],
         NEW u \in [1..23 -> Int], NEW v \in [1..23 -> Int], NEW p \in Nat,
         Heard(x, h, t, u, v, p)
  PROVE  \A i \in 1..2 : Abs(Joined(t)[i] - h[1][i]) <= 8 + p \div 256
<1>1. Sound(u, p) /\ Sound(v, p) /\ h[1] = <<u[12], v[12]>>
  BY DEF Heard
<1>2. \A k \in 1..12 :
        /\ t[2 * k - 1] = Both(Fall(v, k), Rise(u, k))
        /\ t[2 * k] = Other(Fall(v, k), Rise(u, k))
  BY DEF Heard
<1>3. Abs(OddTaps(t) \div 2048 - u[12]) <= 8 + p \div 256
  <2>1. PICK a \in [1..12 -> Int] : a = [k \in 1..12 |-> t[26 - 2 * k]]
    <3>1. \A k \in 1..12 : 26 - 2 * k \in 1..24
      OBVIOUS
    <3>2. \A k \in 1..12 : t[26 - 2 * k] \in Int
      BY <3>1
    <3>. QED
      BY <3>2
  <2>2. PICK b \in [1..12 -> Int] : b = [k \in 1..12 |-> Rise(u, 13 - k)]
    <3>1. \A k \in 1..12 : Rise(u, 13 - k) \in Int
      BY SumsInt
    <3>. QED
      BY <3>1
  <2>3. TapsOf(a) = OddTaps(t)
    BY <2>1, OddTapsAre DEF TapsOf
  <2>4. TapsOf(b) = Taps(Rise(u, 12), Rise(u, 11), Rise(u, 10), Rise(u, 9), Rise(u, 8), Rise(u, 7),
                         Rise(u, 6), Rise(u, 5), Rise(u, 4), Rise(u, 3), Rise(u, 2), Rise(u, 1))
    BY <2>2 DEF TapsOf
  <2>5. /\ TapsOf(b) - 16777216 * u[12] <= 40532 * p
        /\ 16777216 * u[12] - TapsOf(b) <= 40532 * p
    BY <2>4, <1>1, Convolved
  <2>6. ASSUME NEW k \in 1..12
        PROVE  Twice(a[k], b[k], -16383, 16383)
    <3>1. PICK j \in 1..12 : j = 13 - k /\ 2 * j = 26 - 2 * k
      OBVIOUS
    <3>2. a[k] = Other(Fall(v, j), Rise(u, j)) /\ b[k] = Rise(u, j)
      BY <3>1, <2>1, <2>2, <1>2
    <3>3. PICK o \in Int, e \in Int : o = Fall(v, j) /\ e = Rise(u, j)
      BY SumsInt
    <3>4. Twice(Other(o, e), e, -16383, 16383)
      BY BothAndOther
    <3>5. a[k] = Other(o, e) /\ b[k] = e
      BY <3>2, <3>3
    <3>. QED
      BY <3>4, <3>5
  <2>7. /\ TapsOf(a) \in Int /\ TapsOf(b) \in Int
        /\ -173300000 <= 16384 * TapsOf(a) - 2 * TapsOf(b)
        /\ 16384 * TapsOf(a) - 2 * TapsOf(b) <= 106200000
    <3>1. PICK lo \in Int, hi \in Int : lo = -16383 /\ hi = 16383
      OBVIOUS
    <3>2. Off(a, b, lo, hi)
      <4>1. \A k \in 1..12 : Twice(a[k], b[k], lo, hi)
        BY <3>1, <2>6
      <4>. QED
        BY <4>1 DEF Off
    <3>3. SumsOff(a, b, lo, hi)
      BY <3>2, TapsOff
    <3>. QED
      BY <3>1, <3>3 DEF SumsOff, Twice
  <2>. QED
    BY <2>3, <2>5, <2>7, NearEnough
<1>4. Abs(EvenTaps(t) \div 2048 - v[12]) <= 8 + p \div 256
  <2>1. PICK a \in [1..12 -> Int] : a = [k \in 1..12 |-> t[2 * k - 1]]
    <3>1. \A k \in 1..12 : 2 * k - 1 \in 1..24
      OBVIOUS
    <3>2. \A k \in 1..12 : t[2 * k - 1] \in Int
      BY <3>1
    <3>. QED
      BY <3>2
  <2>2. PICK b \in [1..12 -> Int] : b = [k \in 1..12 |-> Fall(v, k)]
    <3>1. \A k \in 1..12 : Fall(v, k) \in Int
      BY SumsInt
    <3>. QED
      BY <3>1
  <2>3. TapsOf(a) = EvenTaps(t)
    BY <2>1, EvenTapsAre DEF TapsOf
  <2>4. TapsOf(b) = Taps(Fall(v, 1), Fall(v, 2), Fall(v, 3), Fall(v, 4), Fall(v, 5), Fall(v, 6),
                         Fall(v, 7), Fall(v, 8), Fall(v, 9), Fall(v, 10), Fall(v, 11), Fall(v, 12))
    BY <2>2 DEF TapsOf
  <2>5. /\ TapsOf(b) - 16777216 * v[12] <= 40532 * p
        /\ 16777216 * v[12] - TapsOf(b) <= 40532 * p
    BY <2>4, <1>1, Convolved
  <2>6. ASSUME NEW k \in 1..12
        PROVE  Twice(a[k], b[k], -32766, 0)
    <3>2. a[k] = Both(Fall(v, k), Rise(u, k)) /\ b[k] = Fall(v, k)
      BY <2>1, <2>2, <1>2
    <3>3. PICK o \in Int, e \in Int : o = Fall(v, k) /\ e = Rise(u, k)
      BY SumsInt
    <3>4. Twice(Both(o, e), o, -32766, 0)
      BY BothAndOther
    <3>5. a[k] = Both(o, e) /\ b[k] = o
      BY <3>2, <3>3
    <3>. QED
      BY <3>4, <3>5
  <2>7. /\ TapsOf(a) \in Int /\ TapsOf(b) \in Int
        /\ -173300000 <= 16384 * TapsOf(a) - 2 * TapsOf(b)
        /\ 16384 * TapsOf(a) - 2 * TapsOf(b) <= 106200000
    <3>1. PICK lo \in Int, hi \in Int : lo = -32766 /\ hi = 0
      OBVIOUS
    <3>2. Off(a, b, lo, hi)
      <4>1. \A k \in 1..12 : Twice(a[k], b[k], lo, hi)
        BY <3>1, <2>6
      <4>. QED
        BY <4>1 DEF Off
    <3>3. SumsOff(a, b, lo, hi)
      BY <3>2, TapsOff
    <3>. QED
      BY <3>1, <3>3 DEF SumsOff, Twice
  <2>. QED
    BY <2>3, <2>5, <2>7, NearEnough
<1>5. Joined(t)[1] = OddTaps(t) \div 2048 /\ Joined(t)[2] = EvenTaps(t) \div 2048
  BY DEF Joined
<1>. QED
  BY <1>1, <1>3, <1>4, <1>5

(* One pair more in the list of the last twelve. *)
MovedOn(S, h, s, g) ==
  g \in [1..12 -> S] /\ (\A j \in 1..11 : g[j] = h[j + 1]) /\ g[12] = s

LEMMA MoveOn ==
  ASSUME NEW S, NEW h \in [1..12 -> S], NEW s \in S
  PROVE  MovedOn(S, h, s, Append(Tail(h), s))
<1>1. h \in Seq(S) /\ Len(h) = 12
  BY FunctionIsSeq
<1>2. PICK r : r = Tail(h)
  OBVIOUS
<1>3. r \in Seq(S) /\ Len(r) = 11 /\ \A j \in 1..11 : r[j] = h[j + 1]
  <2>1. h # <<>>
    <3>1. Len(h) # 0
      BY <1>1
    <3>. QED
      BY <3>1, EmptySeq
  <2>2. /\ Tail(h) \in Seq(S) /\ Len(Tail(h)) = Len(h) - 1
        /\ \A j \in 1..Len(Tail(h)) : Tail(h)[j] = h[j + 1]
    BY <2>1, <1>1, HeadTailProperties
  <2>3. Len(h) - 1 = 11
    BY <1>1
  <2>. QED
    BY <2>2, <2>3, <1>2
<1>4. /\ Append(r, s) \in Seq(S) /\ Len(Append(r, s)) = 12
      /\ \A j \in 1..11 : Append(r, s)[j] = r[j]
      /\ Append(r, s)[12] = s
  <2>1. r \in Seq(S)
    BY <1>3
  <2>2. /\ Append(r, s) \in Seq(S) /\ Len(Append(r, s)) = Len(r) + 1
        /\ \A j \in 1..Len(r) : Append(r, s)[j] = r[j]
        /\ Append(r, s)[Len(r) + 1] = s
    BY <2>1, AppendProperties
  <2>3. Len(r) = 11 /\ Len(r) + 1 = 12
    BY <1>3
  <2>. QED
    BY <2>2, <2>3
<1>. QED
  BY <1>2, <1>3, <1>4, SeqIsFunction DEF MovedOn

(* One pair more, and the bands that the twelve which end with it make. *)
Next23(u, a) == [j \in 1..23 |-> IF j = 23 THEN a ELSE u[j + 1]]

LEMMA SumsMove ==
  ASSUME NEW u \in [1..23 -> Int], NEW a \in Int
  PROVE  /\ Next23(u, a) \in [1..23 -> Int]
         /\ \A k \in 1..11 : /\ Rise(Next23(u, a), k) = Rise(u, k + 1)
                             /\ Fall(Next23(u, a), k) = Fall(u, k + 1)
<1>1. PICK w : w = Next23(u, a)
  OBVIOUS
<1>2. w \in [1..23 -> Int]
  BY <1>1 DEF Next23
<1>3. \A j \in 1..22 : w[j] = u[j + 1]
  BY <1>1 DEF Next23
<1>4. ASSUME NEW k \in 1..11
      PROVE  Rise(w, k) = Rise(u, k + 1) /\ Fall(w, k) = Fall(u, k + 1)
  <2>1. PICK n \in 2..12 : n = k + 1
    OBVIOUS
  <2>2. /\ w[k] = u[n] /\ w[k + 1] = u[n + 1] /\ w[k + 2] = u[n + 2] /\ w[k + 3] = u[n + 3]
        /\ w[k + 4] = u[n + 4] /\ w[k + 5] = u[n + 5] /\ w[k + 6] = u[n + 6]
        /\ w[k + 7] = u[n + 7] /\ w[k + 8] = u[n + 8] /\ w[k + 9] = u[n + 9]
        /\ w[k + 10] = u[n + 10] /\ w[k + 11] = u[n + 11]
    BY <2>1, <1>3
  <2>3. Rise(w, k) = Rise(u, n)
    BY <2>2 DEF Rise
  <2>4. Fall(w, k) = Fall(u, n)
    BY <2>2 DEF Fall
  <2>. QED
    BY <2>1, <2>3, <2>4
<1>. QED
  BY <1>1, <1>2, <1>4

LEMMA SoundMore ==
  ASSUME NEW u \in [1..23 -> Int], NEW a \in Int, NEW p \in Nat, NEW q \in Nat,
         Sound(u, p), p <= q, -q <= a, a <= q
  PROVE  Sound(Next23(u, a), q)
BY DEF Sound, Next23

LEMMA HeardMore ==
  ASSUME NEW x \in [1..24 -> Int], NEW S, NEW h \in [1..12 -> S], NEW t \in [1..24 -> Int],
         NEW u \in [1..23 -> Int], NEW v \in [1..23 -> Int], NEW p \in Nat, NEW q \in Nat,
         Heard(x, h, t, u, v, p), p <= q,
         NEW a \in Int, NEW b \in Int, -q <= a, a <= q, -q <= b, b <= q, <<a, b>> \in S,
         NEW y, y = ShiftIn(x, a, b),
         NEW lo, NEW hi, lo = SplitLow(y), hi = SplitHigh(y)
  PROVE  /\ ShiftIn(t, lo + hi, lo - hi) \in [1..24 -> Int]
         /\ Heard(y, Append(Tail(h), <<a, b>>), ShiftIn(t, lo + hi, lo - hi),
                  Next23(u, a), Next23(v, b), q)
<1>1. PICK m, n : m = Next23(u, a) /\ n = Next23(v, b)
  OBVIOUS
<1>2. m \in [1..23 -> Int] /\ n \in [1..23 -> Int]
  BY <1>1, SumsMove
<1>3. Sound(m, q) /\ Sound(n, q)
  BY <1>1, SoundMore DEF Heard
<1>4. /\ \A j \in 1..22 : m[j] = u[j + 1] /\ n[j] = v[j + 1]
      /\ m[23] = a /\ n[23] = b
  BY <1>1 DEF Next23
<1>5. /\ y \in [1..24 -> Int] /\ \A j \in 1..22 : y[j] = x[j + 2]
      /\ y[23] = a /\ y[24] = b
  <2>1. ShiftedIn(Int, x, a, b, y)
    BY ShiftInIs
  <2>. QED
    BY <2>1 DEF ShiftedIn
<1>6. \A j \in 1..12 : /\ x[2 * j - 1] = u[11 + j] /\ x[2 * j] = v[11 + j]
                       /\ h[j] = <<u[11 + j], v[11 + j]>>
  BY DEF Heard
<1>7. ASSUME NEW j \in 1..12
      PROVE  y[2 * j - 1] = m[11 + j] /\ y[2 * j] = n[11 + j]
  <2>1. CASE j = 12
    BY <2>1, <1>4, <1>5
  <2>2. CASE j \in 1..11
    <3>1. PICK i \in 1..12 : i = j + 1
      BY <2>2
    <3>2. y[2 * j - 1] = x[2 * i - 1] /\ y[2 * j] = x[2 * i]
      <4>1. 2 * j - 1 \in 1..22 /\ 2 * j \in 1..22 /\ 2 * j - 1 + 2 = 2 * i - 1 /\ 2 * j + 2 = 2 * i
        BY <2>2, <3>1
      <4>. QED
        BY <4>1, <1>5
    <3>3. m[11 + j] = u[11 + i] /\ n[11 + j] = v[11 + i]
      <4>1. 11 + j \in 1..22 /\ 11 + j + 1 = 11 + i
        BY <2>2, <3>1
      <4>. QED
        BY <4>1, <1>4
    <3>. QED
      BY <3>2, <3>3, <1>6
  <2>. QED
    BY <2>1, <2>2
<1>8. PICK g : g = Append(Tail(h), <<a, b>>)
  OBVIOUS
<1>9. (\A j \in 1..11 : g[j] = h[j + 1]) /\ g[12] = <<a, b>>
  <2>1. MovedOn(S, h, <<a, b>>, g)
    BY <1>8, MoveOn
  <2>. QED
    BY <2>1 DEF MovedOn
<1>10. ASSUME NEW j \in 1..12
       PROVE  g[j] = <<m[11 + j], n[11 + j]>>
  <2>1. CASE j = 12
    BY <2>1, <1>4, <1>9
  <2>2. CASE j \in 1..11
    <3>1. PICK i \in 1..12 : i = j + 1
      BY <2>2
    <3>2. g[j] = <<u[11 + i], v[11 + i]>>
      BY <2>2, <3>1, <1>6, <1>9
    <3>3. m[11 + j] = u[11 + i] /\ n[11 + j] = v[11 + i]
      <4>1. 11 + j \in 1..22 /\ 11 + j + 1 = 11 + i
        BY <2>2, <3>1
      <4>. QED
        BY <4>1, <1>4
    <3>. QED
      BY <3>2, <3>3
  <2>. QED
    BY <2>1, <2>2
<1>11. EvenTaps(y) = Rise(m, 12)
  <2>1. /\ y[1] = m[12] /\ y[3] = m[13] /\ y[5] = m[14] /\ y[7] = m[15] /\ y[9] = m[16]
        /\ y[11] = m[17] /\ y[13] = m[18] /\ y[15] = m[19] /\ y[17] = m[20] /\ y[19] = m[21]
        /\ y[21] = m[22] /\ y[23] = m[23]
    BY <1>7
  <2>2. EvenTaps(y) = Taps(y[1], y[3], y[5], y[7], y[9], y[11], y[13], y[15], y[17], y[19], y[21], y[23])
    BY <1>5, EvenTapsAre
  <2>3. Rise(m, 12) = Taps(m[12], m[13], m[14], m[15], m[16], m[17], m[18], m[19], m[20], m[21], m[22], m[23])
    BY DEF Rise
  <2>. QED
    BY <2>1, <2>2, <2>3
<1>12. OddTaps(y) = Fall(n, 12)
  <2>1. /\ y[2] = n[12] /\ y[4] = n[13] /\ y[6] = n[14] /\ y[8] = n[15] /\ y[10] = n[16]
        /\ y[12] = n[17] /\ y[14] = n[18] /\ y[16] = n[19] /\ y[18] = n[20] /\ y[20] = n[21]
        /\ y[22] = n[22] /\ y[24] = n[23]
    BY <1>7
  <2>2. OddTaps(y) = Taps(y[24], y[22], y[20], y[18], y[16], y[14], y[12], y[10], y[8], y[6], y[4], y[2])
    BY <1>5, OddTapsAre
  <2>3. Fall(n, 12) = Taps(n[23], n[22], n[21], n[20], n[19], n[18], n[17], n[16], n[15], n[14], n[13], n[12])
    BY DEF Fall
  <2>. QED
    BY <2>1, <2>2, <2>3
<1>13. lo + hi = Both(Fall(n, 12), Rise(m, 12)) /\ lo - hi = Other(Fall(n, 12), Rise(m, 12))
  BY <1>11, <1>12 DEF SplitLow, SplitHigh, Both, Other
<1>14. lo + hi \in Int /\ lo - hi \in Int
  <2>1. 12 \in 1..12
    OBVIOUS
  <2>. QED
    BY <2>1, <1>2, <1>13, BandsInt
<1>15. PICK z : z = ShiftIn(t, lo + hi, lo - hi)
  OBVIOUS
<1>16. /\ z \in [1..24 -> Int] /\ \A j \in 1..22 : z[j] = t[j + 2]
       /\ z[23] = lo + hi /\ z[24] = lo - hi
  <2>1. ShiftedIn(Int, t, lo + hi, lo - hi, z)
    BY <1>14, <1>15, ShiftInIs
  <2>. QED
    BY <2>1 DEF ShiftedIn
<1>17. \A k \in 1..12 : /\ t[2 * k - 1] = Both(Fall(v, k), Rise(u, k))
                        /\ t[2 * k] = Other(Fall(v, k), Rise(u, k))
  BY DEF Heard
<1>18. ASSUME NEW k \in 1..12
       PROVE  /\ z[2 * k - 1] = Both(Fall(n, k), Rise(m, k))
              /\ z[2 * k] = Other(Fall(n, k), Rise(m, k))
  <2>1. CASE k = 12
    BY <2>1, <1>13, <1>16
  <2>2. CASE k \in 1..11
    <3>1. PICK i \in 1..12 : i = k + 1
      BY <2>2
    <3>2. z[2 * k - 1] = t[2 * i - 1] /\ z[2 * k] = t[2 * i]
      <4>1. 2 * k - 1 \in 1..22 /\ 2 * k \in 1..22 /\ 2 * k - 1 + 2 = 2 * i - 1 /\ 2 * k + 2 = 2 * i
        BY <2>2, <3>1
      <4>. QED
        BY <4>1, <1>16
    <3>3. Rise(m, k) = Rise(u, i) /\ Fall(n, k) = Fall(v, i)
      BY <2>2, <3>1, <1>1, SumsMove
    <3>. QED
      BY <3>2, <3>3, <1>17
  <2>. QED
    BY <2>1, <2>2
<1>19. Heard(y, g, z, m, n, q)
  BY <1>3, <1>7, <1>10, <1>18 DEF Heard
<1>. QED
  BY <1>1, <1>8, <1>15, <1>16, <1>19

(* There are 23 pairs that explain the three filters' contents.  The model *)
(* keeps the last twelve only; the older ones are in the bands they made.  *)
HistoryIs ==
  /\ straight \in [1..24 -> Int] /\ past \in [1..12 -> Int16s \X Int16s] /\ peak \in Nat
  /\ \E u, v \in [1..23 -> Int] : Heard(enc.x, past, straight, u, v, peak)

HistoryOK == ~encEightK => HistoryIs

LEMMA SilenceHeard ==
  ASSUME Init
  PROVE  HistoryOK
<1>1. PICK u \in [1..23 -> Int] : u = [j \in 1..23 |-> 0]
  <2>1. [j \in 1..23 |-> 0] \in [1..23 -> Int]
    OBVIOUS
  <2>. QED
    BY <2>1
<1>2. ASSUME NEW k \in 1..12
      PROVE  Rise(u, k) = 0 /\ Fall(u, k) = 0
  <2>1. /\ u[k] = 0 /\ u[k + 1] = 0 /\ u[k + 2] = 0 /\ u[k + 3] = 0 /\ u[k + 4] = 0
        /\ u[k + 5] = 0 /\ u[k + 6] = 0 /\ u[k + 7] = 0 /\ u[k + 8] = 0 /\ u[k + 9] = 0
        /\ u[k + 10] = 0 /\ u[k + 11] = 0
    BY <1>1
  <2>. QED
    BY <2>1 DEF Rise, Fall, Taps
<1>3. Both(0, 0) = 0 /\ Other(0, 0) = 0
  BY DEF Both, Other
<1>4. /\ straight \in [1..24 -> Int] /\ past \in [1..12 -> Int16s \X Int16s] /\ peak = 0
      /\ \A j \in 1..24 : straight[j] = 0 /\ enc.x[j] = 0
      /\ \A j \in 1..12 : past[j] = <<0, 0>>
  <2>1. 0 \in Int16s
    BY DEF Int16s, Within
  <2>2. enc.x = Silence24
    BY DEF Init, Start
  <2>. QED
    BY <2>1, <2>2 DEF Init, Silence24
<1>5. Sound(u, 0)
  BY <1>1 DEF Sound
<1>6. ASSUME NEW j \in 1..12
      PROVE  /\ enc.x[2 * j - 1] = u[11 + j] /\ enc.x[2 * j] = u[11 + j]
             /\ past[j] = <<u[11 + j], u[11 + j]>>
  BY <1>1, <1>4
<1>7. ASSUME NEW k \in 1..12
      PROVE  /\ straight[2 * k - 1] = Both(Fall(u, k), Rise(u, k))
             /\ straight[2 * k] = Other(Fall(u, k), Rise(u, k))
  BY <1>2, <1>3, <1>4
<1>8. Heard(enc.x, past, straight, u, u, peak)
  BY <1>4, <1>5, <1>6, <1>7 DEF Heard
<1>. QED
  BY <1>4, <1>8 DEF HistoryOK, HistoryIs

LEMMA EncodeHeard ==
  ASSUME IInv, HistoryOK, NEW s \in Signals, Encode(s)
  PROVE  HistoryOK'
<1>. SUFFICES ASSUME ~encEightK PROVE HistoryIs'
  BY DEF HistoryOK, Encode, sideVars
<1>1. PICK u \in [1..23 -> Int], v \in [1..23 -> Int] :
        Heard(enc.x, past, straight, u, v, peak)
  BY DEF HistoryOK, HistoryIs
<1>2. straight \in [1..24 -> Int] /\ past \in [1..12 -> Int16s \X Int16s] /\ peak \in Nat
  BY DEF HistoryOK, HistoryIs
<1>3. PICK x \in [1..24 -> Int] : x = enc.x
  <2>1. enc.x \in [1..24 -> Int16s]
    BY DEF IInv, SidesOK, Side
  <2>. QED
    BY <2>1, Int16sInt
<1>4. PICK a \in Int16s, b \in Int16s : s = <<a, b>> /\ s[1] = a /\ s[2] = b
  BY SignalsAssumption
<1>5. a \in Int /\ b \in Int /\ <<a, b>> \in Int16s \X Int16s
  BY <1>4, Int16sInt
<1>6. PICK q \in Nat : /\ q = Larger(peak, Larger(Abs(a), Abs(b)))
                       /\ peak <= q /\ -q <= a /\ a <= q /\ -q <= b /\ b <= q
  BY <1>2, <1>5 DEF Larger, Abs
<1>7. PICK y : y = ShiftIn(x, a, b)
  OBVIOUS
<1>8. PICK lo, hi : lo = SplitLow(y) /\ hi = SplitHigh(y)
  OBVIOUS
<1>9. /\ enc'.x = y
      /\ past' = Append(Tail(past), <<a, b>>) /\ peak' = q
      /\ straight' = ShiftIn(straight, lo + hi, lo - hi)
  BY <1>3, <1>4, <1>6, <1>7, <1>8 DEF Encode, Hear
<1>10. /\ ShiftIn(straight, lo + hi, lo - hi) \in [1..24 -> Int]
       /\ Heard(y, Append(Tail(past), <<a, b>>), ShiftIn(straight, lo + hi, lo - hi),
                Next23(u, a), Next23(v, b), q)
  <2>1. PICK S : S = Int16s \X Int16s
    OBVIOUS
  <2>2. past \in [1..12 -> S] /\ <<a, b>> \in S
    BY <2>1, <1>2, <1>5
  <2>3. Heard(x, past, straight, u, v, peak)
    BY <1>1, <1>3
  <2>. QED
    BY <2>2, <2>3, <1>2, <1>5, <1>6, <1>7, <1>8, HeardMore
<1>11. Next23(u, a) \in [1..23 -> Int] /\ Next23(v, b) \in [1..23 -> Int]
  BY <1>5, SumsMove
<1>12. past' \in [1..12 -> Int16s \X Int16s]
  <2>1. MovedOn(Int16s \X Int16s, past, <<a, b>>, past')
    BY <1>2, <1>5, <1>9, MoveOn
  <2>. QED
    BY <2>1 DEF MovedOn
<1>. QED
  BY <1>6, <1>9, <1>10, <1>11, <1>12 DEF HistoryIs

(* The receive filter undoes the transmit filter (g722_encode's and        *)
(* g722_decode's loops over qmf_coeffs), for every signal.                 *)
THEOREM BandsComeTogether == Spec => []BandsJoin
<1>1. Init => HistoryOK
  BY SilenceHeard
<1>2. IInv /\ HistoryOK /\ [Next]_vars => HistoryOK'
  <2>. SUFFICES ASSUME IInv, HistoryOK, [Next]_vars PROVE HistoryOK'
    OBVIOUS
  <2>1. CASE \E s \in Signals : Encode(s)
    BY <2>1, EncodeHeard
  <2>2. ASSUME UNCHANGED <<encEightK, enc, past, straight, peak>> PROVE HistoryOK'
    BY <2>2 DEF HistoryOK, HistoryIs
  <2>3. CASE Decode
    BY <2>2, <2>3 DEF Decode, sideVars, inputVars
  <2>4. CASE LoseCode
    BY <2>2, <2>4 DEF LoseCode, sideVars, inputVars
  <2>5. CASE UNCHANGED vars
    BY <2>2, <2>5 DEF vars, sideVars, inputVars
  <2>. QED
    BY <2>1, <2>3, <2>4, <2>5 DEF Next
<1>3. HistoryOK => BandsJoin
  <2>. SUFFICES ASSUME HistoryOK, ~encEightK
                PROVE  \A i \in 1..2 : Abs(Joined(straight)[i] - past[1][i]) <= 8 + peak \div 256
    BY DEF BandsJoin
  <2>1. PICK u \in [1..23 -> Int], v \in [1..23 -> Int] :
          Heard(enc.x, past, straight, u, v, peak)
    BY DEF HistoryOK, HistoryIs
  <2>2. straight \in [1..24 -> Int] /\ peak \in Nat
    BY DEF HistoryOK, HistoryIs
  <2>. QED
    BY <2>1, <2>2, JoinedBack
<1>. QED
  BY <1>1, <1>2, <1>3, Invariance, PTL DEF Spec
=============================================================================
