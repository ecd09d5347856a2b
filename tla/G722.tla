-------------------------------- MODULE G722 --------------------------------
(***************************************************************************)
(* The G.722 codec as baresip uses it on a call (g722/): one side's        *)
(* encoder, the codes on their way and the other side's decoder, which has *)
(* to repeat the encoder's adaptation from the codes alone, whatever the   *)
(* rate each code is cut down to and whether either side leaves the high   *)
(* band out (G722_SAMPLE_RATE_8000).                                       *)
(*                                                                         *)
(* Not here: itu_test_mode, which nothing sets.                            *)
(***************************************************************************)
EXTENDS G722Band, G722Pack

CONSTANTS
  Signals,    \* pairs of samples
  MaxSamples, \* bound: pairs encoded
  MaxTurns,   \* bound: changes of the signal
  MaxFlight,  \* bound: codes in flight
  MaxLost     \* bound: codes lost

ASSUME SignalsAssumption == Signals \subseteq (Int16s \X Int16s)
ASSUME BoundsAssumption == {MaxSamples, MaxTurns, MaxFlight, MaxLost} \subseteq Nat

VARIABLES
  encEightK, decEightK,  \* eight_k of the encoder and of the decoder
  enc, dec,              \* their filter histories and bands
  amp,                   \* the samples decoded last
  track,                 \* the encoder's bands: at the last code decoded and
                         \* at each code in flight
  lost,                  \* codes lost
  signal, turns, samples,\* the signal's last pair, its changes, its length
  peak,                  \* the largest magnitude encoded
  past,                  \* the last twelve pairs encoded
  straight               \* a receive filter fed with the encoder's two bands

sideVars == <<encEightK, decEightK>>
inputVars == <<signal, turns, samples, peak, past, straight>>
vars == <<packVars, sideVars, enc, dec, amp, track, lost, inputVars>>

Bands(side) == [low |-> side.low, high |-> side.high]

Start == [x |-> Silence24, low |-> Silent(32), high |-> Silent(8)]

Init ==
  /\ PackInit
  /\ encEightK \in BOOLEAN
  /\ decEightK \in BOOLEAN
  /\ enc = Start
  /\ dec = Start
  /\ amp = <<0, 0>>
  /\ track = <<Bands(Start)>>
  /\ lost = 0
  /\ signal = <<0, 0>> /\ turns = 0 /\ samples = 0 /\ peak = 0
  /\ past = [i \in 1..12 |-> <<0, 0>>]
  /\ straight = Silence24

-----------------------------------------------------------------------------
(* The bits of the low band's index that the rate has no room for. *)
Dropped == CASE bits = 8 -> 1 [] bits = 7 -> 2 [] bits = 6 -> 4

BitOf(v, i) == CASE i = 1 -> v % 2         [] i = 2 -> (v \div 2) % 2   [] i = 3 -> (v \div 4) % 2
                 [] i = 4 -> (v \div 8) % 2  [] i = 5 -> (v \div 16) % 2  [] i = 6 -> (v \div 32) % 2
                 [] i = 7 -> (v \div 64) % 2 [] i = 8 -> (v \div 128) % 2

ToBits(v) == [i \in 1..bits |-> BitOf(v, i)]

FromBits(c) == LET p == Padded(bits, c)
               IN  p[1] + 2 * p[2] + 4 * p[3] + 8 * p[4] + 16 * p[5] + 32 * p[6] + 64 * p[7] + 128 * p[8]

LowIndex(x, band)  == QuantLow(Saturate(x - band.s), band.det)
HighIndex(x, band) == QuantHigh(Saturate(x - band.s), band.det)

Abs(x) == IF x < 0 THEN -x ELSE x
Larger(x, y) == IF x < y THEN y ELSE x

(* The signal, and what becomes of it if its bands are joined again. *)
Hear(s, xlow, xhigh) ==
  /\ samples < MaxSamples
  /\ s = signal \/ turns < MaxTurns
  /\ turns'    = IF s = signal THEN turns ELSE turns + 1
  /\ samples'  = samples + 1
  /\ signal'   = s
  /\ peak'     = Larger(peak, Larger(Abs(s[1]), Abs(s[2])))
  /\ past'     = Append(Tail(past), s)
  /\ straight' = ShiftIn(straight, xlow + xhigh, xlow - xhigh)

(* A turn of g722_encode's loop: one sample of 8 kHz, or two of 16 kHz. *)
Encode(s) ==
  /\ Len(flight) < MaxFlight
  /\ LET x     == IF encEightK THEN enc.x ELSE ShiftIn(enc.x, s[1], s[2])
         xlow  == IF encEightK THEN s[1] \div 2 ELSE SplitLow(x)
         xhigh == IF encEightK THEN 0 ELSE SplitHigh(x)
         ilow  == LowIndex(xlow, enc.low)
         ihigh == IF encEightK THEN 3 ELSE HighIndex(xhigh, enc.high)
         side  == [x    |-> x,
                   low  |-> AdaptLow(enc.low, ilow \div 4),
                   high |-> IF encEightK THEN enc.high ELSE AdaptHigh(enc.high, ihigh)]
     IN  /\ enc' = side
         /\ track' = Append(track, Bands(side))
         /\ Pack(ToBits((64 * ihigh + ilow) \div Dropped))
         /\ Hear(s, xlow, xhigh)
  /\ UNCHANGED <<sideVars, dec, amp, lost>>

(* What a code says of the two bands. *)
IndexOf(code)  == code % (64 \div Dropped)
IhighOf(code)  == (code \div (64 \div Dropped)) % 4

(* Mutant: the index is not brought to 4 bits at 56 kbit/s. *)
RilOfWrong(code) == IF bits = 8 THEN IndexOf(code) \div 4 ELSE IndexOf(code) % 16

RilOf(code) == IndexOf(code) \div (4 \div Dropped)

(* A turn of g722_decode's loop. *)
Decode ==
  /\ Unpack
  /\ LET code  == FromBits(NextCode)
         rlow  == Limit(dec.low.s + Scaled(dec.low.det, Level(bits, IndexOf(code))))
         rhigh == Limit(dec.high.s + Scaled(dec.high.det, Qm2[IhighOf(code) + 1]))
         x     == ShiftIn(dec.x, rlow + rhigh, rlow - rhigh)
         low   == AdaptLow(dec.low, RilOf(code))
     IN  IF decEightK
           THEN /\ dec' = [dec EXCEPT !.low = low]
                /\ amp' = <<Int16(2 * rlow)>>
           ELSE /\ dec' = [x |-> x, low |-> low, high |-> AdaptHigh(dec.high, IhighOf(code))]
                /\ amp' = [i \in 1..2 |-> Int16(Joined(x)[i])]
  /\ track' = Tail(track)
  /\ UNCHANGED <<sideVars, enc, lost, inputVars>>

(* A code does not arrive, or is not sent: where g722_encode gives up, the *)
(* frame being too long for the packet (EOVERFLOW), its state stays ahead. *)
LoseCode ==
  /\ lost < MaxLost
  /\ Lose
  /\ lost' = lost + 1
  /\ track' = Tail(track)
  /\ UNCHANGED <<sideVars, enc, dec, amp, inputVars>>

Next ==
  \/ \E s \in Signals : Encode(s)
  \/ Decode
  \/ LoseCode

Spec == Init /\ [][Next]_vars

-----------------------------------------------------------------------------
Band(maxNb) ==
  [s : Int16s, sz : Int16s, r : [1..2 -> Int16s], p : [1..2 -> Int16s], a : [1..2 -> Int],
   d : [1..6 -> Int16s], b : [1..6 -> Int16s], nb : Within(0, maxNb), det : Within(8, 16384)]

Side == [x : [1..24 -> Int16s], low : Band(MaxNbLow), high : Band(MaxNbHigh)]

(* The poles of the predictor stay inside the unit circle. *)
Stable(b) ==
  /\ b.a[2] \in Within(-12288, 12288)
  /\ b.a[1] \in Within(b.a[2] - 15360, 15360 - b.a[2])

(* What g722_encode.c and g722_decode.c keep in an int has 16 bits, so     *)
(* that no product or sum of theirs leaves 32, and the two poles stay in   *)
(* the region where the predictor is stable, whatever is encoded or lost.  *)
TypeOK ==
  /\ bits \in Rates /\ packed \in BOOLEAN /\ encEightK \in BOOLEAN /\ decEightK \in BOOLEAN
  /\ enc \in Side /\ Stable(enc.low) /\ Stable(enc.high)
  /\ dec \in Side /\ Stable(dec.low) /\ Stable(dec.high)
  /\ Len(track) = Len(flight) + 1

(* As long as no code is lost, the decoder is where the encoder was when   *)
(* it made the code decoded last: at every rate, packed or not, though the *)
(* decoder may see two bits less of the index than the encoder has, and in *)
(* the low band even if one side leaves out the high one.                  *)
InStep ==
  lost = 0 => /\ dec.low = track[1].low
              /\ ~encEightK /\ ~decEightK => dec.high = track[1].high

Gap(band) == Abs(dec[band].nb - track[1][band].nb)

(* After a loss the two sides' scale factors, whose logarithm leaks 1/128  *)
(* a code, never drift further apart, and approach as long as they are 128 *)
(* or more apart.                                                          *)
ScalesApproach ==
  [][Len(flight') < Len(flight) /\ lost' = lost
     => \A band \in IF encEightK \/ decEightK THEN {"low"} ELSE {"low", "high"} :
          Gap(band)' <= Gap(band) /\ (Gap(band) >= 128 => Gap(band)' < Gap(band))]_vars

(* The receive filter undoes the transmit filter: bands that are joined as *)
(* they are give the signal of eleven pairs ago, but for rounding.         *)
BandsJoin ==
  ~encEightK => \A i \in 1..2 : Abs(Joined(straight)[i] - past[1][i]) <= 8 + peak \div 256

(* A signal of half the range or less comes back without wrapping around   *)
(* where the decoder cuts its output to 16 bits: for the signals of the    *)
(* run.  There are sequences of codes, and nothing here excludes signals,  *)
(* for which the filter's output does not fit.                             *)
NoWrap ==
  lost = 0 /\ peak <= 16384 /\ ~decEightK => \A i \in 1..2 : amp[i] = Joined(dec.x)[i]

=============================================================================
