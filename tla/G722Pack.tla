------------------------------ MODULE G722Pack ------------------------------
(***************************************************************************)
(* How G.722 codes travel (the ends of the loops of g722_encode and of     *)
(* g722_decode): a byte each, or, below 64 kbit/s and with G722_PACKED,    *)
(* bit after bit through out_buffer, the bytes and in_buffer.  Buffers and *)
(* bytes are sequences of bits here, the least significant first.          *)
(*                                                                         *)
(* A step is one turn of a loop: a call is some turns of its side, and the *)
(* two sides share nothing but the bytes.                                  *)
(***************************************************************************)
EXTENDS Integers, Sequences

VARIABLES
  bits,    \* bits_per_sample of both sides
  packed,  \* packed of both sides
  out,     \* the encoder's out_buffer, out_bits long
  wire,    \* the bytes that the decoder has not read
  inb,     \* the decoder's in_buffer, in_bits long
  flight   \* the codes encoded and not yet decoded

packVars == <<bits, packed, out, wire, inb, flight>>

Rates == {6, 7, 8}

Code == [1..bits -> {0, 1}]

PackInit ==
  /\ bits   \in Rates
  /\ packed \in IF bits = 8 THEN {FALSE} ELSE BOOLEAN
  /\ out = <<>> /\ wire = <<>> /\ inb = <<>> /\ flight = <<>>

-----------------------------------------------------------------------------
Padded(b, c) == [i \in 1..8 |-> IF i <= b THEN c[i] ELSE 0]

(* Mutant: what is left of a code after a full byte is forgotten. *)
PackForgets(c) ==
  /\ flight' = Append(flight, c)
  /\ IF packed
       THEN LET o == out \o c
            IN  IF Len(o) >= 8
                  THEN wire' = wire \o SubSeq(o, 1, 8) /\ out' = <<>>
                  ELSE out' = o /\ UNCHANGED wire
       ELSE wire' = wire \o Padded(bits, c) /\ UNCHANGED out
  /\ UNCHANGED <<bits, packed, inb>>

(* Mutant: a byte goes out only when there is more than a byte. *)
PackLate(c) ==
  /\ flight' = Append(flight, c)
  /\ IF packed
       THEN LET o == out \o c
            IN  IF Len(o) > 8 + bits
                  THEN wire' = wire \o SubSeq(o, 1, 8) /\ out' = SubSeq(o, 9, Len(o))
                  ELSE out' = o /\ UNCHANGED wire
       ELSE wire' = wire \o Padded(bits, c) /\ UNCHANGED out
  /\ UNCHANGED <<bits, packed, inb>>

Pack(c) ==
  /\ flight' = Append(flight, c)
  /\ IF packed
       THEN LET o == out \o c
            IN  IF Len(o) >= 8
                  THEN wire' = wire \o SubSeq(o, 1, 8) /\ out' = SubSeq(o, 9, Len(o))
                  ELSE out' = o /\ UNCHANGED wire
       ELSE wire' = wire \o Padded(bits, c) /\ UNCHANGED out
  /\ UNCHANGED <<bits, packed, inb>>

(* A byte is read when there is no whole code in in_buffer. *)
Reads == ~packed \/ Len(inb) < bits

Unread == IF Reads THEN inb \o SubSeq(wire, 1, 8) ELSE inb

NextCode == SubSeq(Unread, 1, bits)

(* The loop goes round while a byte is left, not while a code is. *)
Unpack ==
  /\ wire # <<>>
  /\ wire'   = IF Reads THEN SubSeq(wire, 9, Len(wire)) ELSE wire
  /\ inb'    = IF packed THEN SubSeq(Unread, bits + 1, Len(Unread)) ELSE inb
  /\ flight' = Tail(flight)
  /\ UNCHANGED <<bits, packed, out>>

(* A byte that carries one code is lost, alone or with those around it.    *)
(* (The loss of packed bytes is not modelled: nothing in baresip packs.)   *)
Lose ==
  /\ ~packed
  /\ wire # <<>>
  /\ wire'   = SubSeq(wire, 9, Len(wire))
  /\ flight' = Tail(flight)
  /\ UNCHANGED <<bits, packed, out, inb>>

-----------------------------------------------------------------------------
(* The bits of the codes in flight, in order. *)
FlightBit(k) == flight[((k - 1) \div bits) + 1][((k - 1) % bits) + 1]

Stream == inb \o wire \o out

(* No bit is lost, doubled or moved between the two buffers and the bytes: *)
(* what is in them are the codes in flight, the oldest first, so that the  *)
(* next code the decoder takes is the oldest one it has not decoded.       *)
Conserved ==
  IF packed
    THEN /\ Len(Stream) = bits * Len(flight)
         /\ \A k \in 1..Len(Stream) : Stream[k] = FlightBit(k)
    ELSE /\ inb = <<>> /\ out = <<>>
         /\ Len(wire) = 8 * Len(flight)
         /\ \A n \in 1..Len(flight) : \A i \in 1..8 : wire[8 * (n - 1) + i] = Padded(bits, flight[n])[i]

(* When all bytes are read, the codes that neither side has let go are at  *)
(* most two: one that waits in out_buffer for a byte to fill, and a whole  *)
(* one in in_buffer, which the decoder takes only with the next byte.      *)
Lag == wire = <<>> => Len(flight) <= 2

=============================================================================
