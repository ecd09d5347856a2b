------------------------------ MODULE G722Band ------------------------------
(***************************************************************************)
(* The arithmetic of the G.722 codec (g722/): the quantisers, the adaptive *)
(* predictor of a band (block4) and the two filters that split and join    *)
(* the bands, as operators.  g722_encode.c and g722_decode.c each have     *)
(* their own copies of the tables and of what both sides compute; they do  *)
(* the same, and are one operator here.                                    *)
(*                                                                         *)
(* x >> n, an arithmetic shift, is x \div 2^n.  No value leaves 32 bits    *)
(* (the ranges that G722 states as an invariant say why), so that          *)
(* unbounded integers do.  Arrays are sequences here: a table's entry i is *)
(* at i + 1, a filter's tap i at i + 1.                                    *)
(***************************************************************************)
EXTENDS Integers, Sequences, FiniteSetsExt

Clamp(x, lo, hi) == IF x < lo THEN lo ELSE IF x > hi THEN hi ELSE x

Saturate(x) == Clamp(x, -32768, 32767)

Int16(x) == ((x + 32768) % 65536) - 32768   \* the cast, which wraps around

Within(lo, hi) == {x \in Int : lo <= x /\ x <= hi}

Int16s == Within(-32768, 32767)

Sum6(f)  == f[1] + f[2] + f[3] + f[4] + f[5] + f[6]
Sum12(f) == Sum6(f) + f[7] + f[8] + f[9] + f[10] + f[11] + f[12]

-----------------------------------------------------------------------------
(* The state of one band; r, p, a, d and b lack their element 0, which is  *)
(* scratch, as are ap, bp, sg and sp.                                      *)
Zeros == <<0, 0, 0, 0, 0, 0>>

Silent(det) == [s |-> 0, sz |-> 0, r |-> <<0, 0>>, p |-> <<0, 0>>, a |-> <<0, 0>>,
                d |-> Zeros, b |-> Zeros, nb |-> 0, det |-> det]

SameSign(x, y) == (x < 0) <=> (y < 0)

(* UPPOL2, UPPOL1, UPZERO: the new coefficients of the predictor. *)
Pole2(b, p0) ==
  LET w == IF SameSign(p0, b.p[1]) THEN -Saturate(4 * b.a[1]) ELSE Saturate(4 * b.a[1])
      l == IF SameSign(p0, b.p[2]) THEN 128 ELSE -128
  IN  Clamp(Clamp(w, -32768, 32767) \div 128 + l + (b.a[2] * 32512) \div 32768, -12288, 12288)

Pole1(b, p0, a2) ==
  LET w == IF SameSign(p0, b.p[1]) THEN 192 ELSE -192
      m == Saturate(15360 - a2)
  IN  Clamp(Saturate(w + (b.a[1] * 32640) \div 32768), -m, m)

Zero(b, d) ==
  LET w(i) == IF d = 0 THEN 0 ELSE IF SameSign(b.d[i], d) THEN 128 ELSE -128
  IN  [i \in 1..6 |-> Saturate(w(i) + (b.b[i] * 32640) \div 32768)]

(* DELAYA *)
Delay(q, d) == <<d>> \o SubSeq(q, 1, 5)

(* FILTEP, FILTEZ: what the predictor's two filters make of their taps. *)
FilterPole(a1, a2, r0, r1) ==
  Saturate((a1 * Saturate(2 * r0)) \div 32768 + (a2 * Saturate(2 * r1)) \div 32768)

FilterZero(b, d) == Saturate(Sum6([i \in 1..6 |-> (b[i] * Saturate(2 * d[i])) \div 32768]))

(* RECONS, PARREC, the updates, DELAYA, the filters and PREDIC, in a band  *)
(* whose scale factor the caller has set.                                  *)
Block4(b, nb, det, d) ==
  LET r0 == Saturate(b.s + d)
      p0 == Saturate(b.sz + d)
      a2 == Pole2(b, p0)
      a1 == Pole1(b, p0, a2)
      ds == Delay(b.d, d)
      bs == Zero(b, d)
      sz == FilterZero(bs, ds)
  IN  [s |-> Saturate(FilterPole(a1, a2, r0, b.r[1]) + sz), sz |-> sz,
       r |-> <<r0, b.r[1]>>, p |-> <<p0, b.p[1]>>,
       a |-> <<a1, a2>>, d |-> ds, b |-> bs, nb |-> nb, det |-> det]

-----------------------------------------------------------------------------
(* Quantisers.  The index of the low band has 6 bits, of which the encoder *)
(* and, at every rate, the decoder adapt to the upper 4 only.              *)
Q6 == <<0, 35, 72, 110, 150, 190, 233, 276, 323, 370, 422, 473, 530, 587, 650, 714, 786, 858,
        940, 1023, 1121, 1219, 1339, 1458, 1612, 1765, 1980, 2195, 2557, 2919>>

Magnitude(e) == IF e >= 0 THEN e ELSE -(e + 1)

(* The first of the intervals 1..29 that holds the magnitude, or 30. *)
Interval(mag, det) == Min({30} \cup {i \in 1..29 : mag < (Q6[i + 1] * det) \div 4096})

(* iln and ilp *)
QuantLow(e, det) == LET i == Interval(Magnitude(e), det)
                    IN  IF e >= 0 THEN 62 - i ELSE IF i <= 2 THEN 64 - i ELSE 34 - i

(* ihn and ihp *)
QuantHigh(e, det) == LET outer == Magnitude(e) >= (564 * det) \div 4096
                     IN  IF e >= 0 THEN IF outer THEN 2 ELSE 3 ELSE IF outer THEN 0 ELSE 1

Upper4 == <<20456, 12896, 8968, 6288, 4240, 2584, 1200>>
Upper5 == <<23352, 17560, 14120, 11664, 9752, 8184, 6864, 5712, 4696, 3784, 2960, 2208, 1520, 880>>
Upper6 == <<24808, 21904, 19008, 16704, 14984, 13512, 12280, 11192, 10232, 9360, 8576, 7856, 7192,
            6576, 6000, 5456, 4944, 4464, 4008, 3576, 3168, 2776, 2400, 2032, 1688, 1360, 1040, 728>>

Qm2 == <<-7408, -1616, 7408, 1616>>
Qm4(i) == IF i \in {0, 15} THEN 0 ELSE IF i < 8 THEN -Upper4[i] ELSE Upper4[i - 7]
Qm5(i) == IF i < 2 THEN -280 ELSE IF i < 16 THEN -Upper5[i - 1] ELSE IF i < 30 THEN Upper5[i - 15]
          ELSE IF i = 30 THEN 280 ELSE -280
Qm6(i) == IF i < 4 THEN -136 ELSE IF i < 32 THEN -Upper6[i - 3] ELSE IF i < 60 THEN Upper6[i - 31]
          ELSE <<432, 136, -432, -136>>[i - 59]

(* What the decoder takes for the signal: at each rate a table of its own. *)
Level(rate, index) == CASE rate = 8 -> Qm6(index) [] rate = 7 -> Qm5(index) [] rate = 6 -> Qm4(index)

Scaled(det, q) == (det * q) \div 32768

Limit(r) == Clamp(r, -16384, 16383)

-----------------------------------------------------------------------------
(* Adaptation of a band's scale factor (LOGSCL, SCALEL, LOGSCH, SCALEH).   *)
Wl  == <<-60, -30, 58, 172, 334, 538, 1198, 3042>>
Rl42 == <<0, 7, 6, 5, 4, 3, 2, 1, 7, 6, 5, 4, 3, 2, 1, 0>>
WhRh2 == <<798, -214, 798, -214>>   \* wh[rh2[ihigh]]

Ilb == <<2048, 2093, 2139, 2186, 2233, 2282, 2332, 2383, 2435, 2489, 2543, 2599, 2656, 2714, 2774,
         2834, 2896, 2960, 3025, 3091, 3158, 3228, 3298, 3371, 3444, 3520, 3597, 3676, 3756, 3838,
         3922, 4008>>

MaxNbLow  == 18432
MaxNbHigh == 22528

(* Mutant: the logarithm of the scale does not leak. *)
LogScaleKept(nb, w, max) == Clamp(nb + w, 0, max)

(* Mutant: both bands have the limit of the high one. *)
LogScaleOneLimit(nb, w, max) == Clamp((nb * 127) \div 128 + w, 0, MaxNbHigh)

LogScale(nb, w, max) == Clamp((nb * 127) \div 128 + w, 0, max)

Power == <<1, 2, 4, 8, 16, 32, 64, 128, 256, 512, 1024>>

Shifted(v, n) == IF n < 0 THEN v * Power[1 - n] ELSE v \div Power[n + 1]

Scale(nb, top) == 4 * Shifted(Ilb[((nb \div 64) % 32) + 1], top - nb \div 2048)

(* From an index to the band's next state, the same on both sides. *)
AdaptLow(b, ril) ==
  LET nb == LogScale(b.nb, Wl[Rl42[ril + 1] + 1], MaxNbLow)
  IN  Block4(b, nb, Scale(nb, 8), Scaled(b.det, Qm4(ril)))

AdaptHigh(b, ihigh) ==
  LET nb == LogScale(b.nb, WhRh2[ihigh + 1], MaxNbHigh)
  IN  Block4(b, nb, Scale(nb, 10), Scaled(b.det, Qm2[ihigh + 1]))

-----------------------------------------------------------------------------
(* The transmit and the receive quadrature mirror filter over the last 24  *)
(* samples: the taps of even index and those of odd index, reversed.       *)
Coeffs == <<3, -11, 12, 32, -210, 951, 3876, -805, 362, -156, 53, -11>>

Silence24 == [i \in 1..24 |-> 0]

ShiftIn(x, u, v) == SubSeq(x, 3, 24) \o <<u, v>>

EvenTaps(x) == Sum12([i \in 1..12 |-> x[2 * i - 1] * Coeffs[i]])
(* Mutant: the odd taps are not reversed. *)
OddTapsForward(x) == Sum12([i \in 1..12 |-> x[2 * i] * Coeffs[i]])

OddTaps(x)  == Sum12([i \in 1..12 |-> x[2 * i] * Coeffs[13 - i]])

SplitLow(x)  == (OddTaps(x) + EvenTaps(x)) \div 16384
SplitHigh(x) == (OddTaps(x) - EvenTaps(x)) \div 16384

(* Mutant: the output is twice as loud as the input. *)
JoinedTwice(x) == <<OddTaps(x) \div 1024, EvenTaps(x) \div 1024>>

(* The two samples before they are cut to 16 bits. *)
Joined(x) == <<OddTaps(x) \div 2048, EvenTaps(x) \div 2048>>

=============================================================================
