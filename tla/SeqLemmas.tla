----------------------------- MODULE SeqLemmas -----------------------------
(***************************************************************************)
(* Facts about queues kept as sequences that the proofs about the hub, the *)
(* control connection and the packing of G.722 codes share, and about      *)
(* recursive functions on the natural numbers.                             *)
(***************************************************************************)
EXTENDS Integers, SequenceTheorems, WellFoundedInduction, TLAPS

LEMMA HeadThenTail ==
  ASSUME NEW S, NEW s \in Seq(S), s # <<>>
  PROVE  <<Head(s)>> \o Tail(s) = s
<1>1. Len(s) \in Nat \ {0} /\ Head(s) = s[1]
  BY EmptySeq
<1>2. SubSeq(s, 1, Len(s)) = <<s[1]>> \o SubSeq(s, 2, Len(s))
  BY <1>1, SubSeqRecursiveFirst
<1>3. SubSeq(s, 1, Len(s)) = s /\ SubSeq(s, 2, Len(s)) = Tail(s)
  BY SubSeqFull, TailIsSubSeq
<1>. QED
  BY <1>1, <1>2, <1>3

(* Moving the first message of a queue to the end of the sequence before   *)
(* it changes nothing of the two together.                                 *)
LEMMA MoveHead ==
  ASSUME NEW S, NEW b \in Seq(S), NEW s \in Seq(S), s # <<>>
  PROVE  Append(b, Head(s)) \o Tail(s) = b \o s
<1>1. Head(s) \in S /\ Tail(s) \in Seq(S) /\ <<Head(s)>> \in Seq(S)
  BY HeadTailProperties
<1>2. Append(b, Head(s)) = b \o <<Head(s)>>
  BY <1>1, AppendIsConcat
<1>3. (b \o <<Head(s)>>) \o Tail(s) = b \o (<<Head(s)>> \o Tail(s))
  BY <1>1, ConcatAssociative
<1>. QED
  BY <1>2, <1>3, HeadThenTail

LEMMA AppendEnd ==
  ASSUME NEW S, NEW b \in Seq(S), NEW s \in Seq(S), NEW e \in S
  PROVE  b \o Append(s, e) = Append(b \o s, e)
<1>1. <<e>> \in Seq(S) /\ b \o s \in Seq(S)
  BY ConcatProperties
<1>2. Append(s, e) = s \o <<e>> /\ Append(b \o s, e) = (b \o s) \o <<e>>
  BY <1>1, AppendIsConcat
<1>. QED
  BY <1>1, <1>2, ConcatAssociative

LEMMA SubSeqOfAppend ==
  ASSUME NEW S, NEW s \in Seq(S), NEW e \in S,
         NEW i \in Nat \ {0}, NEW j \in Nat, j <= Len(s)
  PROVE  SubSeq(Append(s, e), i, j) = SubSeq(s, i, j)
<1>1. CASE j < i
  BY <1>1, SubSeqEmpty
<1>2. CASE i <= j
  <2>1. i \in 1..Len(s) /\ j \in 1..Len(s) /\ <<e>> \in Seq(S)
    BY <1>2, LenProperties
  <2>2. SubSeq(s \o <<e>>, i, j) = SubSeq(s, i, j)
    BY <2>1, SubSeqOfConcat1
  <2>. QED
    BY <2>2, AppendIsConcat
<1>. QED
  BY <1>1, <1>2

LEMMA SubSeqExtend ==
  ASSUME NEW S, NEW s \in Seq(S), NEW i \in Nat \ {0}, NEW j \in Nat,
         i <= j + 1, j + 1 <= Len(s)
  PROVE  SubSeq(s, i, j + 1) = Append(SubSeq(s, i, j), s[j + 1])
<1>1. i \in 1..Len(s) /\ j + 1 \in i..Len(s) /\ (j + 1) - 1 = j /\ Len(s) \in Nat
  BY LenProperties
<1>2. SubSeq(s, i, j + 1) = SubSeq(s, i, j) \o <<s[j + 1]>>
  BY <1>1, SubSeqRecursiveSecond
<1>3. s[j + 1] \in S /\ \A k \in i..j : s[k] \in S
  BY <1>1, ElementOfSeq
<1>4. SubSeq(s, i, j) \in Seq(S)
  BY <1>3, SubSeqProperties
<1>. QED
  BY <1>2, <1>3, <1>4, AppendIsConcat

LEMMA SubSeqIn ==
  ASSUME NEW S, NEW s \in Seq(S), NEW m \in 1..(Len(s) + 1), NEW n \in (m - 1)..Len(s)
  PROVE  /\ SubSeq(s, m, n) \in Seq(S)
         /\ Len(SubSeq(s, m, n)) = n - m + 1
         /\ \A i \in 1..(n - m + 1) : SubSeq(s, m, n)[i] = s[m + i - 1]
<1>1. Len(s) \in Nat /\ m \in Int /\ n \in Int
  BY LenProperties
<1>2. \A i \in m..n : s[i] \in S
  BY <1>1, ElementOfSeq
<1>. QED
  BY <1>1, <1>2, SubSeqProperties

LEMMA SplitAt ==
  ASSUME NEW S, NEW s \in Seq(S), NEW n \in 0..Len(s)
  PROVE  SubSeq(s, 1, n) \o SubSeq(s, n + 1, Len(s)) = s
<1>1. Len(s) \in Nat
  BY LenProperties
<1>2. 1 \in 1..(Len(s) + 1) /\ n \in (1 - 1)..Len(s) /\ Len(s) \in n..Len(s)
  BY <1>1
<1>3. SubSeq(s, 1, n) \o SubSeq(s, n + 1, Len(s)) = SubSeq(s, 1, Len(s))
  BY <1>2, ConcatAdjacentSubSeq
<1>. QED
  BY <1>3, SubSeqFull

(* A sequence cut after its first n elements. *)
CutAt(S, s, n, f, t) ==
  /\ f \in Seq(S) /\ f = SubSeq(s, 1, n) /\ Len(f) = n
  /\ t \in Seq(S) /\ t = SubSeq(s, n + 1, Len(s)) /\ Len(t) = Len(s) - n
  /\ f \o t = s
  /\ \A k \in 1..n : f[k] = s[k]

LEMMA Cut ==
  ASSUME NEW S, NEW s \in Seq(S), NEW n \in 0..Len(s)
  PROVE  CutAt(S, s, n, SubSeq(s, 1, n), SubSeq(s, n + 1, Len(s)))
<1>1. Len(s) \in Nat /\ n \in Nat
  BY LenProperties
<1>2. /\ SubSeq(s, 1, n) \in Seq(S) /\ Len(SubSeq(s, 1, n)) = n
      /\ \A k \in 1..n : SubSeq(s, 1, n)[k] = s[k]
  <2>1. 1 \in 1..(Len(s) + 1) /\ n \in (1 - 1)..Len(s) /\ n - 1 + 1 = n
    BY <1>1
  <2>2. \A k \in 1..n : 1 + k - 1 = k
    BY <1>1
  <2>3. /\ SubSeq(s, 1, n) \in Seq(S) /\ Len(SubSeq(s, 1, n)) = n - 1 + 1
        /\ \A k \in 1..(n - 1 + 1) : SubSeq(s, 1, n)[k] = s[1 + k - 1]
    BY <2>1, SubSeqIn
  <2>. QED
    BY <2>1, <2>2, <2>3
<1>3. /\ SubSeq(s, n + 1, Len(s)) \in Seq(S)
      /\ Len(SubSeq(s, n + 1, Len(s))) = Len(s) - n
  <2>1. /\ n + 1 \in 1..(Len(s) + 1) /\ Len(s) \in ((n + 1) - 1)..Len(s)
        /\ Len(s) - (n + 1) + 1 = Len(s) - n
    BY <1>1
  <2>. QED
    BY <2>1, SubSeqIn
<1>4. SubSeq(s, 1, n) \o SubSeq(s, n + 1, Len(s)) = s
  BY SplitAt
<1>. QED
  BY <1>2, <1>3, <1>4 DEF CutAt

-----------------------------------------------------------------------------
(* Three queues in a row, and elements that move from one to the next.     *)
Row(i, w, o) == (i \o w) \o o

RowOf(S, i, w, o, r) ==
  /\ r \in Seq(S)
  /\ Len(r) = Len(i) + Len(w) + Len(o)
  /\ \A k \in 1..Len(i) : r[k] = i[k]

LEMMA RowProperties ==
  ASSUME NEW S, NEW i \in Seq(S), NEW w \in Seq(S), NEW o \in Seq(S)
  PROVE  RowOf(S, i, w, o, Row(i, w, o))
<1>1. PICK iw \in Seq(S) : /\ iw = i \o w
                           /\ Len(iw) = Len(i) + Len(w)
                           /\ \A k \in 1..Len(i) : iw[k] = i[k]
  <2>1. /\ i \o w \in Seq(S) /\ Len(i \o w) = Len(i) + Len(w)
        /\ \A k \in 1..(Len(i) + Len(w)) :
             (i \o w)[k] = IF k <= Len(i) THEN i[k] ELSE w[k - Len(i)]
    BY ConcatProperties
  <2>2. Len(i) \in Nat /\ Len(w) \in Nat
    BY LenProperties
  <2>3. \A k \in 1..Len(i) : k \in 1..(Len(i) + Len(w)) /\ k <= Len(i)
    BY <2>2
  <2>. QED
    BY <2>1, <2>3
<1>2. Len(i) \in Nat /\ Len(w) \in Nat /\ Len(o) \in Nat
  BY LenProperties
<1>3. /\ iw \o o \in Seq(S) /\ Len(iw \o o) = Len(iw) + Len(o)
      /\ \A k \in 1..(Len(iw) + Len(o)) :
           (iw \o o)[k] = IF k <= Len(iw) THEN iw[k] ELSE o[k - Len(iw)]
  BY <1>1, ConcatProperties
<1>4. \A k \in 1..Len(i) : k \in 1..(Len(iw) + Len(o)) /\ k <= Len(iw)
  BY <1>1, <1>2
<1>. QED
  BY <1>1, <1>3, <1>4 DEF Row, RowOf

RowEndsWith(i, w, o, c) == Row(i, w, o \o c) = Row(i, w, o) \o c

LEMMA RowEnd ==
  ASSUME NEW S, NEW i \in Seq(S), NEW w \in Seq(S), NEW o \in Seq(S), NEW c \in Seq(S)
  PROVE  RowEndsWith(i, w, o, c)
<1>1. PICK iw \in Seq(S) : iw = i \o w
  BY ConcatProperties
<1>2. (iw \o o) \o c = iw \o (o \o c)
  BY <1>1, ConcatAssociative
<1>. QED
  BY <1>1, <1>2 DEF Row, RowEndsWith

LEMMA RowLeft ==
  ASSUME NEW S, NEW i \in Seq(S), NEW w \in Seq(S), NEW f \in Seq(S), NEW t \in Seq(S)
  PROVE  Row(i, w \o f, t) = Row(i, w, f \o t)
<1>1. PICK iw \in Seq(S) : iw = i \o w
  BY ConcatProperties
<1>2. i \o (w \o f) = iw \o f
  BY <1>1, ConcatAssociative
<1>3. (iw \o f) \o t = iw \o (f \o t)
  BY <1>1, ConcatAssociative
<1>. QED
  BY <1>1, <1>2, <1>3 DEF Row

LEMMA RowMid ==
  ASSUME NEW S, NEW i \in Seq(S), NEW f \in Seq(S), NEW t \in Seq(S), NEW o \in Seq(S)
  PROVE  Row(i \o f, t, o) = Row(i, f \o t, o)
<1>1. (i \o f) \o t = i \o (f \o t)
  BY ConcatAssociative
<1>. QED
  BY <1>1 DEF Row

RowStartsWith(f, t, w, o) == Row(f \o t, w, o) = f \o Row(t, w, o)

LEMMA RowFront ==
  ASSUME NEW S, NEW f \in Seq(S), NEW t \in Seq(S), NEW w \in Seq(S), NEW o \in Seq(S)
  PROVE  RowStartsWith(f, t, w, o)
<1>1. PICK tw \in Seq(S) : tw = t \o w
  BY ConcatProperties
<1>2. (f \o t) \o w = f \o tw
  BY <1>1, ConcatAssociative
<1>3. (f \o tw) \o o = f \o (tw \o o)
  BY ConcatAssociative
<1>. QED
  BY <1>1, <1>2, <1>3 DEF Row, RowStartsWith

(* The row without the first n elements of the first queue. *)
LEMMA RowDrop ==
  ASSUME NEW S, NEW i \in Seq(S), NEW w \in Seq(S), NEW o \in Seq(S), NEW n \in 0..Len(i),
         NEW k \in 1..(Len(Row(i, w, o)) - n)
  PROVE  Row(SubSeq(i, n + 1, Len(i)), w, o)[k] = Row(i, w, o)[n + k]
<1>1. Len(i) \in Nat /\ n \in Nat
  BY LenProperties
<1>2. SubSeq(i, 1, n) \in Seq(S) /\ Len(SubSeq(i, 1, n)) = n
  <2>1. 1 \in 1..(Len(i) + 1) /\ n \in (1 - 1)..Len(i) /\ n - 1 + 1 = n
    BY <1>1
  <2>. QED
    BY <2>1, SubSeqIn
<1>3. SubSeq(i, n + 1, Len(i)) \in Seq(S)
  <2>1. n + 1 \in 1..(Len(i) + 1) /\ Len(i) \in ((n + 1) - 1)..Len(i)
    BY <1>1
  <2>. QED
    BY <2>1, SubSeqIn
<1>4. PICK f \in Seq(S), t \in Seq(S) : f = SubSeq(i, 1, n) /\ t = SubSeq(i, n + 1, Len(i))
  BY <1>2, <1>3
<1>5. f \o t = i
  BY <1>4, SplitAt
<1>6. Row(i, w, o) = f \o Row(t, w, o)
  <2>1. Row(i, w, o) = Row(f \o t, w, o)
    BY <1>5
  <2>2. Row(f \o t, w, o) = f \o Row(t, w, o)
    <3>1. RowStartsWith(f, t, w, o)
      BY <1>4, RowFront
    <3>. QED
      BY <3>1 DEF RowStartsWith
  <2>. QED
    BY <2>1, <2>2
<1>7. PICK r \in Seq(S) : r = Row(t, w, o)
  <2>1. RowOf(S, t, w, o, Row(t, w, o))
    BY <1>4, RowProperties
  <2>. QED
    BY <2>1 DEF RowOf
<1>8. /\ Len(f \o r) = n + Len(r) /\ Len(r) \in Nat
      /\ \A j \in 1..(n + Len(r)) : (f \o r)[j] = IF j <= n THEN f[j] ELSE r[j - n]
  <2>1. Len(f) = n
    BY <1>2, <1>4
  <2>2. f \in Seq(S) /\ r \in Seq(S)
    BY <1>4, <1>7
  <2>3. /\ Len(f \o r) = Len(f) + Len(r)
        /\ \A j \in 1..(Len(f) + Len(r)) : (f \o r)[j] = IF j <= Len(f) THEN f[j] ELSE r[j - Len(f)]
    BY <2>2, ConcatProperties
  <2>4. Len(r) \in Nat
    BY <2>2, LenProperties
  <2>. QED
    BY <2>1, <2>3, <2>4
<1>9. Len(Row(i, w, o)) = n + Len(r)
  BY <1>6, <1>7, <1>8
<1>10. n + k \in 1..(n + Len(r)) /\ ~(n + k <= n) /\ (n + k) - n = k
  BY <1>1, <1>8, <1>9
<1>11. (f \o r)[n + k] = r[k]
  BY <1>8, <1>10
<1>. QED
  BY <1>4, <1>6, <1>7, <1>11

(* The first n elements of the last queue become the end of the middle one. *)
MovedOut(S, i, w, o, n, f, t) ==
  /\ w \o f \in Seq(S)
  /\ Len(w \o f) = Len(w) + n
  /\ Row(i, w \o f, t) = Row(i, w, o)

LEMMA MoveOut ==
  ASSUME NEW S, NEW i \in Seq(S), NEW w \in Seq(S), NEW o \in Seq(S), NEW n, NEW f, NEW t,
         CutAt(S, o, n, f, t)
  PROVE  MovedOut(S, i, w, o, n, f, t)
<1>1. f \in Seq(S) /\ t \in Seq(S) /\ Len(f) = n /\ f \o t = o
  BY DEF CutAt
<1>2. f \in Seq(S) /\ t \in Seq(S)
  BY <1>1
<1>3. Row(i, w \o f, t) = Row(i, w, f \o t)
  BY <1>2, RowLeft
<1>4. w \o f \in Seq(S) /\ Len(w \o f) = Len(w) + Len(f)
  BY <1>2, ConcatProperties
<1>. QED
  BY <1>1, <1>3, <1>4 DEF MovedOut

(* The first n elements of the middle queue become the end of the first. *)
TakenIn(S, i, w, o, n, f, t) ==
  /\ i \o f \in Seq(S)
  /\ Len(i \o f) = Len(i) + n
  /\ Row(i \o f, t, o) = Row(i, w, o)

LEMMA TakeIn ==
  ASSUME NEW S, NEW i \in Seq(S), NEW w \in Seq(S), NEW o \in Seq(S), NEW n, NEW f, NEW t,
         CutAt(S, w, n, f, t)
  PROVE  TakenIn(S, i, w, o, n, f, t)
<1>1. f \in Seq(S) /\ t \in Seq(S) /\ Len(f) = n /\ f \o t = w
  BY DEF CutAt
<1>2. f \in Seq(S) /\ t \in Seq(S)
  BY <1>1
<1>3. Row(i \o f, t, o) = Row(i, f \o t, o)
  BY <1>2, RowMid
<1>4. i \o f \in Seq(S) /\ Len(i \o f) = Len(i) + Len(f)
  BY <1>2, ConcatProperties
<1>. QED
  BY <1>1, <1>3, <1>4 DEF TakenIn

(* The first n elements of the first queue are gone. *)
Dropped1(i, w, o, n, t) ==
  /\ Len(Row(t, w, o)) = Len(Row(i, w, o)) - n
  /\ n <= Len(Row(i, w, o))
  /\ Len(Row(i, w, o)) \in Nat
  /\ \A k \in 1..n : Row(i, w, o)[k] = i[k]
  /\ \A k \in 1..Len(Row(t, w, o)) : Row(t, w, o)[k] = Row(i, w, o)[n + k]

LEMMA DropFirst ==
  ASSUME NEW S, NEW i \in Seq(S), NEW w \in Seq(S), NEW o \in Seq(S), NEW n \in 0..Len(i),
         NEW f, NEW t, CutAt(S, i, n, f, t)
  PROVE  Dropped1(i, w, o, n, t)
<1>1. t \in Seq(S) /\ t = SubSeq(i, n + 1, Len(i)) /\ Len(t) = Len(i) - n
  BY DEF CutAt
<1>2. t \in Seq(S)
  BY <1>1
<1>3. Len(i) \in Nat /\ Len(w) \in Nat /\ Len(o) \in Nat
  BY LenProperties
<1>4. /\ Len(Row(i, w, o)) = Len(i) + Len(w) + Len(o)
      /\ \A k \in 1..Len(i) : Row(i, w, o)[k] = i[k]
  <2>1. RowOf(S, i, w, o, Row(i, w, o))
    BY RowProperties
  <2>. QED
    BY <2>1 DEF RowOf
<1>5. Len(Row(t, w, o)) = Len(t) + Len(w) + Len(o)
  <2>1. RowOf(S, t, w, o, Row(t, w, o))
    BY <1>2, RowProperties
  <2>. QED
    BY <2>1 DEF RowOf
<1>6. /\ Len(Row(t, w, o)) = Len(Row(i, w, o)) - n
      /\ n <= Len(Row(i, w, o)) /\ Len(Row(i, w, o)) \in Nat
  <2>1. Len(t) = Len(i) - n /\ n \in Nat /\ n <= Len(i)
    BY <1>1, <1>3
  <2>2. Len(Row(i, w, o)) = Len(i) + Len(w) + Len(o)
    BY <1>4
  <2>. QED
    BY <2>1, <2>2, <1>3, <1>5
<1>7. \A k \in 1..n : k \in 1..Len(i)
  BY <1>3
<1>8. ASSUME NEW k \in 1..(Len(Row(i, w, o)) - n)
      PROVE  Row(SubSeq(i, n + 1, Len(i)), w, o)[k] = Row(i, w, o)[n + k]
  BY RowDrop
<1>. QED
  BY <1>1, <1>4, <1>6, <1>7, <1>8 DEF Dropped1

(* What starts a part of a sequence is a part of it too. *)
FoundAt(s, i, u) == i + Len(u) <= Len(s) /\ u = SubSeq(s, i + 1, i + Len(u))

LEMMA StartOfSubSeq ==
  ASSUME NEW S, NEW s \in Seq(S), NEW i \in Nat, NEW u \in Seq(S), NEW v \in Seq(S),
         FoundAt(s, i, u \o v)
  PROVE  FoundAt(s, i, u)
<1>1. PICK n \in Nat, k \in Nat : n = Len(u \o v) /\ k = Len(u) /\ k <= n
  BY ConcatProperties, LenProperties
<1>2. Len(s) \in Nat /\ i + n <= Len(s)
  BY <1>1, LenProperties DEF FoundAt
<1>3. i + 1 \in 1..(Len(s) + 1) /\ i + n \in ((i + 1) - 1)..Len(s) /\ (i + n) - (i + 1) + 1 = n
  BY <1>1, <1>2
<1>4. i + k \in ((i + 1) - 1)..Len(s) /\ (i + k) - (i + 1) + 1 = k
  BY <1>1, <1>2
<1>5. \A j \in 1..n : SubSeq(s, i + 1, i + n)[j] = s[(i + 1) + j - 1]
  BY <1>3, SubSeqIn
<1>6. /\ SubSeq(s, i + 1, i + k) \in Seq(S) /\ Len(SubSeq(s, i + 1, i + k)) = k
      /\ \A j \in 1..k : SubSeq(s, i + 1, i + k)[j] = s[(i + 1) + j - 1]
  BY <1>3, <1>4, SubSeqIn
<1>7. u \o v = SubSeq(s, i + 1, i + n)
  BY <1>1 DEF FoundAt
<1>8. ASSUME NEW j \in 1..k
      PROVE  u[j] = SubSeq(s, i + 1, i + k)[j]
  <2>1. j \in 1..n /\ j \in 1..(Len(u) + Len(v)) /\ j <= Len(u)
    BY <1>1, ConcatProperties
  <2>2. (u \o v)[j] = u[j]
    BY <2>1, ConcatProperties
  <2>. QED
    BY <1>5, <1>6, <1>7, <2>1, <2>2
<1>9. u = SubSeq(s, i + 1, i + k)
  BY <1>1, <1>6, <1>8, SeqEqual
<1>. QED
  BY <1>1, <1>2, <1>9 DEF FoundAt

-----------------------------------------------------------------------------
(* Induction without a predicate as a parameter: the numbers for which     *)
(* something does not hold have a least one.                               *)
LEMMA NatOrder == IsWellFoundedOn({p \in Nat \X Nat : p[1] < p[2]}, Nat)
BY NatLessThanWellFounded, Zenon DEF OpToRel

LEMMA Least ==
  ASSUME NEW T, T \subseteq Nat, T # {}
  PROVE  \E n \in T : \A m \in Nat : m < n => m \notin T
<1>1. PICK n \in T : \A m \in T : ~(<<m, n>> \in {p \in Nat \X Nat : p[1] < p[2]})
  BY NatOrder, WFMin, Zenon
<1>2. ASSUME NEW m \in Nat, m < n
      PROVE  m \notin T
  BY <1>1, <1>2
<1>. QED
  BY <1>2

(* g solves the equation f[m] = G[m][f] for the m below n. *)
Solves(g, G, n) == \A m \in Nat : m < n => g[m] = G[m][g]

Solution(g, G) == \A n \in Nat : g[n] = G[n][g]

(* G[n][f] looks at f below n only. *)
LooksBack(G, S) ==
  \A n \in Nat : \A f, g \in [Nat -> S] :
    (\A m \in Nat : m < n => f[m] = g[m]) => G[n][f] = G[n][g]

LEMMA SolutionsAgree ==
  ASSUME NEW S, NEW G, LooksBack(G, S), NEW n \in Nat,
         NEW f \in [Nat -> S], NEW g \in [Nat -> S], Solves(f, G, n), Solves(g, G, n)
  PROVE  \A m \in Nat : m < n => f[m] = g[m]
<1>. DEFINE T == {m \in Nat : m < n /\ f[m] # g[m]}
<1>1. SUFFICES ASSUME T # {} PROVE FALSE
  OBVIOUS
<1>2. PICK m \in T : \A k \in Nat : k < m => k \notin T
  BY <1>1, Least
<1>3. \A k \in Nat : k < m => f[k] = g[k]
  BY <1>2
<1>4. G[m][f] = G[m][g]
  BY <1>3 DEF LooksBack
<1>. QED
  BY <1>4 DEF Solves

LEMMA PartialSolution ==
  ASSUME NEW S, NEW G, S # {}, G \in [Nat -> [[Nat -> S] -> S]], LooksBack(G, S)
  PROVE  \A n \in Nat : \E g \in [Nat -> S] : Solves(g, G, n)
<1>. DEFINE T == {n \in Nat : ~ \E g \in [Nat -> S] : Solves(g, G, n)}
<1>1. SUFFICES ASSUME T # {} PROVE FALSE
  OBVIOUS
<1>2. PICK n \in T : \A k \in Nat : k < n => k \notin T
  BY <1>1, Least
<1>3. CASE n = 0
  <2>0. PICK a : a \in S
    OBVIOUS
  <2>1. [k \in Nat |-> a] \in [Nat -> S] /\ Solves([k \in Nat |-> a], G, 0)
    BY <2>0 DEF Solves
  <2>. QED
    BY <1>2, <1>3, <2>1
<1>4. CASE n # 0
  <2>1. PICK p \in Nat : n = p + 1
    BY <1>4
  <2>2. PICK g \in [Nat -> S] : Solves(g, G, p)
    BY <1>2, <2>1
  <2>. DEFINE h == [g EXCEPT ![p] = G[p][g]]
  <2>. HIDE DEF T
  <2>3. G[p][g] \in S
    OBVIOUS
  <2>4. /\ h \in [Nat -> S] /\ h[p] = G[p][g]
        /\ \A m \in Nat : m < p => h[m] = g[m]
    BY <2>3
  <2>. HIDE DEF h
  <2>5. ASSUME NEW m \in Nat, m < n
        PROVE  h[m] = G[m][h]
    <3>1. \A k \in Nat : k < m => h[k] = g[k]
      BY <2>1, <2>4, <2>5
    <3>2. G[m][h] = G[m][g]
      BY <2>4, <3>1 DEF LooksBack
    <3>3. CASE m < p
      BY <2>2, <2>4, <3>2, <3>3 DEF Solves
    <3>4. CASE m = p
      BY <2>4, <3>2, <3>4
    <3>. QED
      BY <2>1, <2>5, <3>3, <3>4
  <2>. QED
    BY <1>2, <2>4, <2>5 DEF Solves, T
<1>. QED
  BY <1>3, <1>4

(* A definition by recursion on the natural numbers defines a function. *)
LEMMA Recursion ==
  ASSUME NEW S, NEW G, S # {}, G \in [Nat -> [[Nat -> S] -> S]], LooksBack(G, S)
  PROVE  \E f \in [Nat -> S] : Solution(f, G)
<1>. DEFINE c(n) == CHOOSE g \in [Nat -> S] : Solves(g, G, n)
            f == [n \in Nat |-> c(n + 1)[n]]
<1>1. \A n \in Nat : c(n) \in [Nat -> S] /\ Solves(c(n), G, n)
  BY PartialSolution
<1>. HIDE DEF c
<1>2. f \in [Nat -> S] /\ \A n \in Nat : f[n] = c(n + 1)[n]
  BY <1>1
<1>. HIDE DEF f
<1>3. ASSUME NEW n \in Nat
      PROVE  f[n] = G[n][f]
  <2>1. c(n + 1) \in [Nat -> S] /\ Solves(c(n + 1), G, n + 1)
    BY <1>1
  <2>2. ASSUME NEW m \in Nat, m < n
        PROVE  f[m] = c(n + 1)[m]
    <3>1. c(m + 1) \in [Nat -> S] /\ Solves(c(m + 1), G, m + 1)
      BY <1>1
    <3>2. Solves(c(n + 1), G, m + 1)
      BY <2>1, <2>2 DEF Solves
    <3>3. m + 1 \in Nat /\ m < m + 1
      OBVIOUS
    <3>4. c(m + 1)[m] = c(n + 1)[m]
      BY <2>1, <3>1, <3>2, <3>3, SolutionsAgree
    <3>. QED
      BY <1>2, <3>4
  <2>3. G[n][f] = G[n][c(n + 1)]
    BY <1>2, <2>1, <2>2 DEF LooksBack
  <2>4. c(n + 1)[n] = G[n][c(n + 1)]
    BY <2>1 DEF Solves
  <2>. QED
    BY <1>2, <2>3, <2>4
<1>. QED
  BY <1>2, <1>3 DEF Solution
=============================================================================
