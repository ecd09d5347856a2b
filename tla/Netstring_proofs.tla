-------------------------- MODULE Netstring_proofs --------------------------
(***************************************************************************)
(* The netstring reader, for any input, cut into any segments, and for any *)
(* list of payloads that encode may be given.                              *)
(***************************************************************************)
EXTENDS Netstring, SeqLemmas

-----------------------------------------------------------------------------
(* What a header is worth: the function by which Worth is defined exists,  *)
(* and satisfies the equation.                                             *)
WorthFrom(h, n) ==
  [f \in [Nat -> Int] |->
     IF n = 0 THEN 0 ELSE IF n > Len(h) THEN f[n - 1] ELSE AddDigit(f[n - 1], h[n])]

LEMMA Remainder ==
  ASSUME NEW m \in Nat \ {0}
  PROVE  /\ \A a \in Int : a % m \in 0..(m - 1)
         /\ \A a \in Nat : a < m => a % m = a
<1>1. ASSUME NEW a \in Int
      PROVE  a % m \in 0..(m - 1)
  OBVIOUS
<1>2. ASSUME NEW a \in Nat, a < m
      PROVE  a % m = a
  BY <1>2
<1>. QED
  BY <1>1, <1>2

LEMMA WrapIs ==
  /\ \A n \in Int : Wrap(n) \in Int
  /\ \A n \in Nat : n < Limit => Wrap(n) = n
<1>1. PICK m \in Nat \ {0} : m = 2 * Limit
  BY LimitAssumption
<1>2. ASSUME NEW n \in Int
      PROVE  Wrap(n) \in Int
  <2>1. n + Limit \in Int
    BY LimitAssumption
  <2>2. (n + Limit) % m \in 0..(m - 1)
    BY <2>1, Remainder
  <2>. QED
    BY <1>1, <2>2, LimitAssumption DEF Wrap
<1>3. ASSUME NEW n \in Nat, n < Limit
      PROVE  Wrap(n) = n
  <2>1. n + Limit \in Nat /\ n + Limit < m
    BY <1>1, <1>3, LimitAssumption
  <2>2. (n + Limit) % m = n + Limit
    BY <2>1, Remainder
  <2>. QED
    BY <1>1, <2>2, LimitAssumption DEF Wrap
<1>. QED
  BY <1>2, <1>3

LEMMA AddDigitType ==
  ASSUME NEW l \in Int, NEW b \in Bytes
  PROVE  AddDigit(l, b) \in Int
<1>1. l * 10 + b \in Int
  BY DEF Bytes, Other
<1>2. Wrap(l * 10 + b) \in Int
  BY <1>1, WrapIs
<1>. QED
  BY <1>2 DEF AddDigit

LEMMA WorthDef ==
  ASSUME NEW h \in Seq(Bytes)
  PROVE  /\ Worth(h)[0] = 0
         /\ \A i \in 1..Len(h) : Worth(h)[i] = AddDigit(Worth(h)[i - 1], h[i])
         /\ \A i \in 0..Len(h) : Worth(h)[i] \in Int
<1>. DEFINE G == [n \in Nat |-> WorthFrom(h, n)]
<1>1. Len(h) \in Nat /\ \A i \in 1..Len(h) : h[i] \in Bytes
  BY LenProperties, ElementOfSeq
<1>2. ASSUME NEW n \in Nat, NEW f \in [Nat -> Int]
      PROVE  /\ n = 0 => G[n][f] = 0
             /\ n > Len(h) /\ n # 0 => G[n][f] = f[n - 1]
             /\ n \in 1..Len(h) => G[n][f] = AddDigit(f[n - 1], h[n])
             /\ n # 0 => n - 1 \in Nat /\ n - 1 < n /\ f[n - 1] \in Int
  <2>1. G[n][f] = IF n = 0 THEN 0 ELSE IF n > Len(h) THEN f[n - 1] ELSE AddDigit(f[n - 1], h[n])
    BY DEF WorthFrom
  <2>. HIDE DEF G
  <2>2. n \in 1..Len(h) => n # 0 /\ ~(n > Len(h))
    BY <1>1
  <2>3. n # 0 => n - 1 \in Nat /\ n - 1 < n
    OBVIOUS
  <2>4. n # 0 => f[n - 1] \in Int
    BY <2>3
  <2>. QED
    BY <2>1, <2>2, <2>3, <2>4
<1>. DEFINE Cases(n) == n = 0 \/ (n > Len(h) /\ n # 0) \/ n \in 1..Len(h)
<1>3. \A n \in Nat : Cases(n)
  BY <1>1
<1>4. G \in [Nat -> [[Nat -> Int] -> Int]]
  <2>1. ASSUME NEW n \in Nat, NEW f \in [Nat -> Int]
        PROVE  G[n][f] \in Int
    <3>. HIDE DEF G
    <3>1. CASE n = 0
      BY <1>2, <3>1
    <3>2. CASE n > Len(h) /\ n # 0
      BY <1>2, <3>2
    <3>3. CASE n \in 1..Len(h)
      <4>1. n # 0 /\ h[n] \in Bytes
        BY <1>1, <3>3
      <4>2. AddDigit(f[n - 1], h[n]) \in Int
        BY <1>2, <4>1, AddDigitType
      <4>. QED
        BY <1>2, <3>3, <4>2
    <3>. QED
      BY <1>3, <3>1, <3>2, <3>3
  <2>2. \A n \in Nat : G[n] \in [[Nat -> Int] -> Int]
    BY <2>1 DEF WorthFrom
  <2>. QED
    BY <2>2
<1>. HIDE DEF G
<1>5. LooksBack(G, Int)
  <2>1. ASSUME NEW n \in Nat, NEW f \in [Nat -> Int], NEW g \in [Nat -> Int],
               \A m \in Nat : m < n => f[m] = g[m]
        PROVE  G[n][f] = G[n][g]
    <3>1. n # 0 => f[n - 1] = g[n - 1]
      BY <1>2, <2>1
    <3>2. CASE n = 0
      BY <1>2, <3>2
    <3>3. CASE n > Len(h) /\ n # 0
      BY <1>2, <3>1, <3>3
    <3>4. CASE n \in 1..Len(h)
      <4>1. n # 0
        BY <3>4
      <4>2. G[n][f] = AddDigit(f[n - 1], h[n]) /\ G[n][g] = AddDigit(g[n - 1], h[n])
        BY <1>2, <3>4
      <4>. QED
        BY <3>1, <4>1, <4>2
    <3>. QED
      BY <1>3, <3>2, <3>3, <3>4
  <2>. QED
    BY <2>1 DEF LooksBack
<1>6. PICK f \in [Nat -> Int] : Solution(f, G)
  <2>1. 0 \in Int
    OBVIOUS
  <2>2. Int # {}
    BY <2>1, Zenon
  <2>. QED
    BY <1>4, <1>5, <2>2, Recursion
<1>7. /\ f[0] = 0
      /\ \A i \in 1..Len(h) : f[i] = AddDigit(f[i - 1], h[i])
  <2>1. 0 \in Nat /\ \A i \in 1..Len(h) : i \in Nat
    BY <1>1
  <2>. QED
    BY <1>2, <1>6, <2>1 DEF Solution
<1>. DEFINE IsWorth(v) == v = [i \in 0..Len(h) |-> IF i = 0 THEN 0 ELSE AddDigit(v[i - 1], h[i])]
<1>8. \E v : IsWorth(v)
  <2>1. PICK v : v = [i \in 0..Len(h) |-> f[i]]
    OBVIOUS
  <2>2. ASSUME NEW i \in 0..Len(h)
        PROVE  f[i] = IF i = 0 THEN 0 ELSE AddDigit(v[i - 1], h[i])
    <3>1. CASE i = 0
      BY <1>7, <3>1
    <3>2. CASE i # 0
      <4>1. i \in 1..Len(h) /\ i - 1 \in 0..Len(h)
        BY <1>1, <3>2
      <4>2. v[i - 1] = f[i - 1]
        BY <2>1, <4>1
      <4>. QED
        BY <1>7, <3>2, <4>1, <4>2
    <3>. QED
      BY <3>1, <3>2
  <2>3. IsWorth(v)
    BY <2>1, <2>2, Zenon
  <2>. QED
    BY <2>3, Zenon
<1>9. PICK w : w = Worth(h) /\ IsWorth(w)
  <2>1. Worth(h) = CHOOSE v : IsWorth(v)
    BY DEF Worth
  <2>. QED
    BY <1>8, <2>1, Zenon
<1>10. /\ w[0] = 0
       /\ \A i \in 1..Len(h) : w[i] = AddDigit(w[i - 1], h[i])
  <2>1. w = [i \in 0..Len(h) |-> IF i = 0 THEN 0 ELSE AddDigit(w[i - 1], h[i])]
    BY <1>9, Zenon
  <2>2. \A i \in 1..Len(h) : i \in 0..Len(h) /\ i # 0
    BY <1>1
  <2>3. 0 \in 0..Len(h)
    BY <1>1
  <2>. QED
    BY <2>1, <2>2, <2>3
<1>. HIDE DEF IsWorth
<1>11. \A i \in 0..Len(h) : w[i] = f[i]
  <2>. DEFINE T == {i \in 0..Len(h) : w[i] # f[i]}
  <2>1. SUFFICES ASSUME T # {} PROVE FALSE
    OBVIOUS
  <2>2. T \subseteq Nat
    BY <1>1
  <2>3. PICK n \in T : \A m \in Nat : m < n => m \notin T
    <3>. HIDE DEF T
    <3>. QED
      BY <2>1, <2>2, Least
  <2>4. n # 0
    BY <1>7, <1>10
  <2>5. n \in 1..Len(h) /\ n - 1 \in Nat /\ n - 1 < n /\ n - 1 \in 0..Len(h)
    BY <1>1, <2>4
  <2>6. w[n - 1] = f[n - 1]
    BY <2>3, <2>5
  <2>. QED
    BY <1>7, <1>10, <2>5, <2>6
<1>12. \A i \in 0..Len(h) : w[i] \in Int
  <2>1. \A i \in 0..Len(h) : i \in Nat
    BY <1>1
  <2>. QED
    BY <1>11, <2>1
<1>. QED
  BY <1>9, <1>10, <1>12

LEMMA ValueType ==
  ASSUME NEW h \in Seq(Bytes)
  PROVE  Value(h) \in Int
<1>1. Len(h) \in 0..Len(h)
  BY LenProperties
<1>. QED
  BY <1>1, WorthDef DEF Value

LEMMA ValueEmpty == Value(<<>>) = 0
<1>1. <<>> \in Seq(Bytes) /\ Len(<<>>) = 0
  BY EmptySeq
<1>2. Worth(<<>>)[0] = 0
  BY <1>1, WorthDef, Zenon
<1>. QED
  BY <1>1, <1>2, Zenon DEF Value

LEMMA ValueAppend ==
  ASSUME NEW h \in Seq(Bytes), NEW b \in Bytes
  PROVE  Value(Append(h, b)) = AddDigit(Value(h), b)
<1>1. PICK k \in Seq(Bytes) : k = Append(h, b)
  BY AppendProperties
<1>2. /\ Len(k) = Len(h) + 1 /\ Len(h) \in Nat
      /\ \A i \in 1..Len(h) : k[i] = h[i]
      /\ k[Len(h) + 1] = b
  BY <1>1, AppendProperties, LenProperties
<1>3. PICK v, w : v = Worth(h) /\ w = Worth(k)
  OBVIOUS
<1>4. /\ v[0] = 0 /\ \A i \in 1..Len(h) : v[i] = AddDigit(v[i - 1], h[i])
      /\ w[0] = 0 /\ \A i \in 1..Len(k) : w[i] = AddDigit(w[i - 1], k[i])
  BY <1>3, WorthDef
<1>5. \A i \in 0..Len(h) : v[i] = w[i]
  <2>. DEFINE T == {i \in 0..Len(h) : v[i] # w[i]}
  <2>1. SUFFICES ASSUME T # {} PROVE FALSE
    OBVIOUS
  <2>2. T \subseteq Nat
    BY <1>2
  <2>3. PICK n \in T : \A m \in Nat : m < n => m \notin T
    <3>. HIDE DEF T
    <3>. QED
      BY <2>1, <2>2, Least
  <2>4. n # 0
    BY <1>4
  <2>5. /\ n \in 1..Len(h) /\ n \in 1..Len(k)
        /\ n - 1 \in Nat /\ n - 1 < n /\ n - 1 \in 0..Len(h)
    BY <1>2, <2>4
  <2>6. v[n - 1] = w[n - 1] /\ k[n] = h[n]
    BY <1>2, <2>3, <2>5
  <2>. QED
    BY <1>4, <2>5, <2>6
<1>6. Len(k) \in 1..Len(k) /\ Len(k) - 1 = Len(h) /\ Len(h) \in 0..Len(h) /\ k[Len(k)] = b
  BY <1>2
<1>7. w[Len(k)] = AddDigit(w[Len(k) - 1], k[Len(k)])
  BY <1>4, <1>6
<1>8. w[Len(k)] = AddDigit(v[Len(h)], b)
  BY <1>5, <1>6, <1>7
<1>. QED
  BY <1>1, <1>3, <1>8, Zenon DEF Value

-----------------------------------------------------------------------------
(* The decimal digits of a number that an int can hold are worth it. *)
ItoaFrom(n) ==
  [f \in [Nat -> Seq(Digits)] |-> IF n < 10 THEN <<n>> ELSE Append(f[n \div 10], n % 10)]

LEMMA DivMod ==
  ASSUME NEW n \in Nat
  PROVE  /\ n \div 10 \in Nat /\ n % 10 \in Digits /\ (n \div 10) * 10 + (n % 10) = n
         /\ n >= 10 => n \div 10 < n
         /\ n < 10 => n \in Digits
BY DEF Digits

IsItoaAt(g, n) == /\ n < 10 => g[n] = <<n>>
                  /\ ~(n < 10) => g[n] = Append(g[n \div 10], n % 10)

LEMMA ItoaDef ==
  \E g \in [Nat -> Seq(Digits)] : g = Itoa /\ \A n \in Nat : IsItoaAt(g, n)
<1>. DEFINE S == Seq(Digits)
            G == [n \in Nat |-> ItoaFrom(n)]
<1>1. ASSUME NEW n \in Nat, NEW f \in [Nat -> S]
      PROVE  /\ n < 10 => G[n][f] = <<n>>
             /\ ~(n < 10) => G[n][f] = Append(f[n \div 10], n % 10) /\ f[n \div 10] \in S
             /\ G[n][f] \in S
  <2>1. G[n][f] = IF n < 10 THEN <<n>> ELSE Append(f[n \div 10], n % 10)
    BY DEF ItoaFrom
  <2>2. n < 10 => <<n>> \in S
    BY DivMod
  <2>3. f[n \div 10] \in S
    BY DivMod
  <2>4. Append(f[n \div 10], n % 10) \in S
    BY <2>3, DivMod, AppendProperties
  <2>. HIDE DEF G, S
  <2>. QED
    BY <2>1, <2>2, <2>3, <2>4
<1>2. G \in [Nat -> [[Nat -> S] -> S]]
  <2>1. \A n \in Nat : G[n] \in [[Nat -> S] -> S]
    BY <1>1 DEF ItoaFrom
  <2>. QED
    BY <2>1
<1>3. S # {}
  BY EmptySeq
<1>. HIDE DEF G, S
<1>4. LooksBack(G, S)
  <2>1. ASSUME NEW n \in Nat, NEW f \in [Nat -> S], NEW g \in [Nat -> S],
               \A m \in Nat : m < n => f[m] = g[m]
        PROVE  G[n][f] = G[n][g]
    <3>1. CASE n < 10
      BY <1>1, <3>1
    <3>2. CASE ~(n < 10)
      <4>1. n \div 10 \in Nat /\ n \div 10 < n
        BY <3>2, DivMod
      <4>2. f[n \div 10] = g[n \div 10]
        BY <2>1, <4>1
      <4>. QED
        BY <1>1, <3>2, <4>2
    <3>. QED
      BY <3>1, <3>2
  <2>. QED
    BY <2>1 DEF LooksBack
<1>5. PICK f \in [Nat -> S] : Solution(f, G)
  BY <1>2, <1>3, <1>4, Recursion
<1>. DEFINE IsItoa(g) == g = [n \in Nat |-> IF n < 10 THEN <<n>> ELSE Append(g[n \div 10], n % 10)]
<1>6. IsItoa(f)
  <2>1. \A n \in Nat : f[n] = IF n < 10 THEN <<n>> ELSE Append(f[n \div 10], n % 10)
    BY <1>1, <1>5 DEF Solution
  <2>. QED
    BY <2>1
<1>7. IsItoa(Itoa)
  <2>1. Itoa = CHOOSE g : IsItoa(g)
    BY DEF Itoa
  <2>. QED
    BY <1>6, <2>1, Zenon
<1>8. \A n \in Nat : /\ n < 10 => Itoa[n] = <<n>>
                     /\ ~(n < 10) => Itoa[n] = Append(Itoa[n \div 10], n % 10)
  <2>1. PICK g : g = Itoa /\ IsItoa(g)
    BY <1>7, Zenon
  <2>2. \A n \in Nat : g[n] = IF n < 10 THEN <<n>> ELSE Append(g[n \div 10], n % 10)
    BY <2>1
  <2>. HIDE DEF IsItoa
  <2>. QED
    BY <2>1, <2>2
<1>9. \A n \in Nat : Itoa[n] \in S
  <2>. DEFINE T == {n \in Nat : Itoa[n] \notin S}
  <2>1. SUFFICES ASSUME T # {} PROVE FALSE
    OBVIOUS
  <2>2. T \subseteq Nat
    OBVIOUS
  <2>3. PICK n \in T : \A m \in Nat : m < n => m \notin T
    <3>. HIDE DEF T
    <3>. QED
      BY <2>1, <2>2, Least
  <2>4. CASE n < 10
    <3>1. <<n>> \in S
      BY <2>4, DivMod DEF S
    <3>2. n \in Nat /\ Itoa[n] \notin S
      OBVIOUS
    <3>3. Itoa[n] = <<n>>
      BY <1>8, <2>4, <3>2, Zenon
    <3>. QED
      BY <3>1, <3>2, <3>3, Zenon
  <2>5. CASE ~(n < 10)
    <3>1. n \div 10 \in Nat /\ n \div 10 < n /\ n % 10 \in Digits
      BY <2>5, DivMod
    <3>2. Itoa[n \div 10] \in S
      BY <2>3, <3>1
    <3>3. Append(Itoa[n \div 10], n % 10) \in S
      BY <3>1, <3>2, AppendProperties DEF S
    <3>. QED
      BY <1>8, <2>5, <3>3
  <2>. QED
    BY <2>4, <2>5
<1>10. Itoa \in [Nat -> S]
  <2>1. PICK g : g = Itoa /\ IsItoa(g) /\ \A n \in Nat : g[n] \in S
    BY <1>7, <1>9, Zenon
  <2>2. g = [n \in Nat |-> g[n]]
    BY <2>1
  <2>3. g \in [Nat -> S]
    BY <2>1, <2>2
  <2>. QED
    BY <2>1, <2>3
<1>11. PICK g : g = Itoa
  OBVIOUS
<1>12. g \in [Nat -> S]
  BY <1>10, <1>11
<1>13. \A n \in Nat : IsItoaAt(g, n)
  BY <1>8, <1>11 DEF IsItoaAt
<1>. QED
  BY <1>11, <1>12, <1>13, Zenon DEF S

LEMMA ItoaDigits ==
  ASSUME NEW n \in Nat
  PROVE  /\ Itoa[n] \in Seq(Bytes) /\ Len(Itoa[n]) \in Nat
         /\ \A i \in 1..Len(Itoa[n]) : Itoa[n][i] \in Digits
<1>1. Itoa[n] \in Seq(Digits)
  BY ItoaDef
<1>2. Digits \subseteq Bytes
  BY DEF Digits, Bytes, Other
<1>3. Itoa[n] \in Seq(Bytes)
  BY <1>1, <1>2, SeqMonotonic
<1>4. \A i \in 1..Len(Itoa[n]) : Itoa[n][i] \in Digits
  BY <1>1, ElementOfSeq
<1>. QED
  BY <1>1, <1>3, <1>4, LenProperties

(* encode and readNetstring agree on lengths: the digits that strconv.Itoa  *)
(* writes for any int are worth that int to the loop that reads them.      *)
THEOREM ItoaValue == \A n \in Nat : n < Limit => Value(Itoa[n]) = n
<1>. DEFINE T == {n \in Nat : n < Limit /\ Value(Itoa[n]) # n}
<1>1. SUFFICES ASSUME T # {} PROVE FALSE
  OBVIOUS
<1>2. T \subseteq Nat
  OBVIOUS
<1>3. PICK n \in T : \A m \in Nat : m < n => m \notin T
  <2>. HIDE DEF T
  <2>. QED
    BY <1>1, <1>2, Least
<1>4. n \in Nat /\ n < Limit /\ Digits \subseteq Bytes /\ \A d \in Digits : d \in Nat /\ d # Comma
  BY DEF Digits, Bytes, Other, Comma
<1>5. CASE n < 10
  <2>1. <<>> \in Seq(Bytes) /\ n \in Bytes /\ n # Comma
    BY <1>4, <1>5, DivMod, EmptySeq
  <2>2. Append(<<>>, n) = <<n>>
    OBVIOUS
  <2>3. Value(Append(<<>>, n)) = AddDigit(Value(<<>>), n)
    BY <2>1, ValueAppend
  <2>4. AddDigit(0, n) = n
    <3>1. 0 * 10 + n = n
      BY <1>4
    <3>. QED
      BY <1>4, <2>1, <3>1, WrapIs, Zenon DEF AddDigit
  <2>5. Value(<<n>>) = n
    BY <2>2, <2>3, <2>4, ValueEmpty, Zenon
  <2>6. Itoa[n] = <<n>>
    <3>1. PICK g \in [Nat -> Seq(Digits)] : g = Itoa /\ \A m \in Nat : IsItoaAt(g, m)
      BY ItoaDef
    <3>2. IsItoaAt(g, n)
      BY <1>4, <3>1
    <3>. QED
      BY <1>5, <3>1, <3>2 DEF IsItoaAt
  <2>7. Value(Itoa[n]) # n
    BY <1>3
  <2>. QED
    BY <2>5, <2>6, <2>7, Zenon
<1>6. CASE ~(n < 10)
  <2>1. PICK q \in Nat, r \in Digits : q = n \div 10 /\ r = n % 10 /\ q * 10 + r = n /\ q < n
    BY <1>4, <1>6, DivMod
  <2>2. Itoa[n] = Append(Itoa[q], r) /\ Itoa[q] \in Seq(Bytes)
    <3>1. PICK g \in [Nat -> Seq(Digits)] : g = Itoa /\ \A m \in Nat : IsItoaAt(g, m)
      BY ItoaDef
    <3>2. IsItoaAt(g, n)
      BY <1>4, <3>1
    <3>3. g[n] = Append(g[q], r)
      BY <1>6, <2>1, <3>2 DEF IsItoaAt
    <3>. QED
      BY <3>1, <3>3, ItoaDigits
  <2>3. Value(Itoa[q]) = q
    <3>1. q < Limit
      BY <1>4, <2>1, LimitAssumption
    <3>. QED
      BY <1>3, <2>1, <3>1
  <2>4. Value(Append(Itoa[q], r)) = AddDigit(q, r)
    BY <1>4, <2>2, <2>3, ValueAppend
  <2>5. AddDigit(q, r) = n
    BY <1>4, <2>1, WrapIs DEF AddDigit
  <2>. QED
    BY <2>1, <2>2, <2>4, <2>5
<1>. QED
  BY <1>5, <1>6

-----------------------------------------------------------------------------
(* The reader, on any input.  What it has read is a header as long as it   *)
(* is at a payload or behind one, and between two frames it is where the   *)
(* next begins: but for the byte it may have stepped back at the end, when *)
(* no header is left to be found.                                          *)
HeaderIs(inp, a, c, l) ==
  /\ a < c /\ c <= Len(inp)
  /\ inp[c] = Colon
  /\ IsLength(SubSeq(inp, a + 1, c - 1))
  /\ Value(SubSeq(inp, a + 1, c - 1)) = l

Begin == After(Len(ret))

SteppedBack == eof /\ Len(ret) > 0 /\ avail = ret[Len(ret)].to /\ pos = avail - 1

HeaderRead ==
  err = "none" =>
    /\ phase = "length"  => pos = Begin \/ SteppedBack
    /\ phase = "payload" => HeaderIs(input, Begin, pos, length)
    /\ phase = "delim"   => length <= pos /\ HeaderIs(input, Begin, pos - length, length)

IInv == TypeOK /\ Tiled /\ HeaderRead

LEMMA HeaderType ==
  ASSUME NEW inp \in Seq(Bytes), NEW a \in Nat, NEW c \in Nat, c <= Len(inp) + 1
  PROVE  SubSeq(inp, a + 1, c - 1) \in Seq(Bytes)
<1>1. a + 1 \in Int /\ c - 1 \in Int /\ \A i \in (a + 1)..(c - 1) : i \in 1..Len(inp)
  BY LenProperties
<1>2. \A i \in (a + 1)..(c - 1) : inp[i] \in Bytes
  BY <1>1, ElementOfSeq
<1>. QED
  BY <1>1, <1>2, SubSeqProperties

LEMMA NoHeader ==
  ASSUME NEW inp, NEW a \in Nat
  PROVE  ~IsLength(SubSeq(inp, a + 1, a))
<1>1. SubSeq(inp, a + 1, a) = <<>>
  BY SubSeqEmpty
<1>2. ~IsLength(<<>>)
  BY ValueEmpty DEF IsLength
<1>. QED
  BY <1>1, <1>2, Zenon

(* The colon that ReadBytes stops at is the first. *)
LEMMA FirstColon ==
  ASSUME TypeOK, Colons # {}
  PROVE  \E c \in Colons : /\ c = CHOOSE i \in Colons : \A j \in Colons : i <= j
                           /\ \A j \in Colons : c <= j
<1>1. Colons \subseteq Nat
  BY DEF TypeOK, Colons
<1>2. PICK c \in Colons : \A m \in Nat : m < c => m \notin Colons
  BY <1>1, Least, Zenon
<1>3. \A j \in Colons : c <= j
  BY <1>1, <1>2
<1>. QED
  BY <1>2, <1>3, Zenon

LEMMA LengthRead ==
  ASSUME TypeOK, ReadLength
  PROVE  \/ \E c \in Colons, h \in Seq(Bytes) :
              /\ \A j \in Colons : c <= j
              /\ h = SubSeq(input, pos + 1, c - 1)
              /\ pos' = c
              /\ \/ /\ IsLength(h) /\ length' = Value(h) /\ phase' = "payload"
                    /\ UNCHANGED <<ret, err>>
                 \/ ~IsLength(h) /\ Fail("wrong")
         \/ Colons = {} /\ eof /\ pos' = avail /\ Fail("eof")
<1>1. CASE Colons # {}
  <2>1. PICK c \in Colons : /\ c = CHOOSE i \in Colons : \A j \in Colons : i <= j
                            /\ \A j \in Colons : c <= j
    BY <1>1, FirstColon
  <2>2. PICK h : h = SubSeq(input, pos + 1, c - 1)
    OBVIOUS
  <2>3. h \in Seq(Bytes)
    <3>1. c \in Nat /\ c <= Len(input) + 1 /\ pos \in Nat /\ input \in Seq(Bytes)
      BY LenProperties DEF TypeOK, Colons
    <3>. QED
      BY <2>2, <3>1, HeaderType
  <2>4. /\ pos' = c
        /\ IF IsLength(h)
             THEN length' = Value(h) /\ phase' = "payload" /\ UNCHANGED <<ret, err>>
             ELSE Fail("wrong")
    BY <1>1, <2>1, <2>2, Zenon DEF ReadLength
  <2>. QED
    BY <2>1, <2>2, <2>3, <2>4, Zenon
<1>2. CASE Colons = {}
  BY <1>2, Zenon DEF ReadLength
<1>. QED
  BY <1>1, <1>2

(* Where the frames begin does not change when a payload is returned. *)
LEMMA AfterKept ==
  ASSUME TypeOK, input' = input,
         ret' = ret \/ \E r \in [from : 0..Len(input), to : 0..Len(input)] : ret' = Append(ret, r)
  PROVE  \A i \in 0..Len(ret) : After(i)' = After(i)
<1>1. Len(ret) \in Nat /\ \A i \in 1..Len(ret) : ret'[i] = ret[i]
  <2>. DEFINE R == [from : 0..Len(input), to : 0..Len(input)]
  <2>1. ret \in Seq(R)
    BY DEF TypeOK
  <2>2. ret' = ret \/ \E r \in R : ret' = Append(ret, r)
    OBVIOUS
  <2>. HIDE DEF R
  <2>3. CASE ret' = ret
    BY <2>1, <2>3, LenProperties
  <2>4. ASSUME NEW r \in R, ret' = Append(ret, r)
        PROVE  Len(ret) \in Nat /\ \A i \in 1..Len(ret) : ret'[i] = ret[i]
    BY <2>1, <2>4, AppendProperties, LenProperties
  <2>. QED
    BY <2>2, <2>3, <2>4
<1>2. TAKE i \in 0..Len(ret)
<1>3. i # 0 => ret'[i] = ret[i]
  BY <1>1
<1>. QED
  BY <1>3 DEF After

LEMMA Quiet ==
  ASSUME IInv, UNCHANGED <<input, batch, pos, phase, length, ret, err>>,
         avail' \in avail..Len(input), eof' \in BOOLEAN, eof => eof' /\ avail' = avail
  PROVE  IInv'
<1>1. TypeOK'
  BY DEF IInv, TypeOK
<1>2. \A i \in 0..Len(ret) : After(i)' = After(i)
  BY AfterKept DEF IInv
<1>3. Tiled'
  BY DEF IInv, Tiled, After
<1>4. HeaderRead'
  <2>1. Begin' = Begin
    BY DEF Begin, After
  <2>2. SteppedBack => SteppedBack'
    BY DEF SteppedBack
  <2>. QED
    BY <2>1, <2>2 DEF IInv, HeaderRead
<1>. QED
  BY <1>1, <1>3, <1>4 DEF IInv

LEMMA LengthKeeps ==
  ASSUME IInv, err = "none", ReadLength, UNCHANGED <<input, batch, avail, eof>>,
         phase = "length"
  PROVE  IInv'
<1>1. /\ input \in Seq(Bytes) /\ Len(input) \in Nat /\ avail \in 0..Len(input)
      /\ pos \in 0..avail /\ (pos = Begin \/ SteppedBack)
  BY LenProperties DEF IInv, TypeOK, HeaderRead
<1>2. CASE Colons = {} /\ eof /\ pos' = avail /\ Fail("eof")
  <2>1. TypeOK'
    BY <1>1, <1>2 DEF IInv, TypeOK, Fail
  <2>2. Tiled'
    BY <1>2 DEF IInv, Tiled, After, Fail
  <2>3. HeaderRead'
    BY <1>2 DEF HeaderRead, Fail
  <2>. QED
    BY <2>1, <2>2, <2>3 DEF IInv
<1>3. ASSUME NEW c \in Colons, NEW h \in Seq(Bytes),
             h = SubSeq(input, pos + 1, c - 1), pos' = c,
             \/ /\ IsLength(h) /\ length' = Value(h) /\ phase' = "payload"
                /\ UNCHANGED <<ret, err>>
             \/ ~IsLength(h) /\ Fail("wrong")
      PROVE  IInv'
  <2>1. c \in (pos + 1)..avail /\ input[c] = Colon
    BY DEF Colons
  <2>2. IsLength(h) => Value(h) \in Nat
    BY ValueType DEF IsLength
  <2>3. ret' = ret
    BY <1>3, Zenon DEF Fail
  <2>4. TypeOK'
    BY <1>1, <1>3, <2>1, <2>2 DEF IInv, TypeOK, Fail
  <2>5. Tiled'
    BY <2>3 DEF IInv, Tiled, After
  <2>6. Begin' = Begin
    BY <2>3 DEF Begin, After
  <2>7. HeaderRead'
    <3>1. CASE ~IsLength(h) /\ Fail("wrong")
      BY <3>1 DEF HeaderRead, Fail
    <3>2. CASE /\ IsLength(h) /\ length' = Value(h) /\ phase' = "payload"
               /\ UNCHANGED <<ret, err>>
      <4>1. CASE pos = Begin
        <5>1. HeaderIs(input, Begin, c, Value(h))
          BY <1>1, <1>3, <2>1, <3>2, <4>1 DEF HeaderIs
        <5>. QED
          BY <1>3, <2>6, <3>2, <5>1 DEF HeaderRead
      <4>2. CASE SteppedBack
        <5>1. c = pos + 1 /\ c - 1 = pos /\ pos \in Nat
          BY <1>1, <2>1, <4>2 DEF SteppedBack
        <5>2. ~IsLength(h)
          BY <1>3, <5>1, NoHeader
        <5>. QED
          BY <3>2, <5>2
      <4>. QED
        BY <1>1, <4>1, <4>2
    <3>. QED
      BY <1>3, <3>1, <3>2
  <2>. QED
    BY <2>4, <2>5, <2>7 DEF IInv
<1>. QED
  <2>1. TypeOK
    BY DEF IInv
  <2>. QED
    BY <1>2, <1>3, <2>1, LengthRead

LEMMA PayloadKeeps ==
  ASSUME IInv, err = "none", ReadPayload, UNCHANGED <<input, batch, avail, eof>>
  PROVE  IInv'
<1>1. /\ Len(input) \in Nat /\ avail \in 0..Len(input) /\ pos \in 0..avail
      /\ length \in Nat /\ ret' = ret /\ phase = "payload"
      /\ HeaderIs(input, Begin, pos, length)
  BY LenProperties DEF IInv, TypeOK, HeaderRead, ReadPayload, Fail
<1>2. Begin' = Begin /\ Tiled'
  BY <1>1 DEF IInv, Tiled, Begin, After
<1>3. CASE avail - pos >= length /\ pos' = pos + length /\ phase' = "delim"
           /\ UNCHANGED <<length, ret, err>>
  <2>1. TypeOK'
    BY <1>1, <1>3 DEF IInv, TypeOK
  <2>2. pos' - length' = pos /\ length' <= pos'
    BY <1>1, <1>3
  <2>3. HeaderRead'
    BY <1>1, <1>2, <1>3, <2>2 DEF HeaderRead
  <2>. QED
    BY <1>2, <2>1, <2>3 DEF IInv
<1>4. CASE pos' = avail /\ Fail(IF avail = pos THEN "eof" ELSE "unexpected")
  <2>1. err' \in {"eof", "unexpected"} /\ phase' = phase /\ length' = length
    BY <1>4 DEF Fail
  <2>2. TypeOK'
    BY <1>1, <1>4, <2>1 DEF IInv, TypeOK
  <2>3. HeaderRead'
    BY <2>1 DEF HeaderRead
  <2>. QED
    BY <1>2, <2>2, <2>3 DEF IInv
<1>. QED
  BY <1>3, <1>4 DEF ReadPayload

LEMMA DelimKeeps ==
  ASSUME IInv, err = "none", ReadDelim, UNCHANGED <<input, batch, avail, eof>>
  PROVE  IInv'
<1>. DEFINE R == [from : 0..Len(input), to : 0..Len(input)]
            r == [from |-> pos - length, to |-> pos]
<1>1. /\ Len(input) \in Nat /\ avail \in 0..Len(input) /\ pos \in 0..avail
      /\ length \in Nat /\ length <= pos /\ HeaderIs(input, Begin, pos - length, length)
      /\ ret' = Append(ret, r) /\ phase' = "length" /\ length' = length /\ err' = err
      /\ ret \in Seq(R)
  BY LenProperties DEF IInv, TypeOK, HeaderRead, ReadDelim, ReturnPayload
<1>2. r \in R /\ r.from = pos - length /\ r.to = pos
  BY <1>1
<1>3. \/ avail > pos /\ pos' = IF input[pos + 1] = Comma THEN pos + 1 ELSE pos
      \/ avail = pos /\ eof /\ pos' = pos - 1
  BY DEF ReadDelim
<1>4. \A i \in 0..Len(ret) : After(i)' = After(i)
  <2>1. ret' = ret \/ \E x \in R : ret' = Append(ret, x)
    BY <1>1, <1>2
  <2>. QED
    BY <2>1, AfterKept DEF IInv
<1>. HIDE DEF R, r
<1>5. /\ ret' \in Seq(R) /\ Len(ret') = Len(ret) + 1 /\ Len(ret) \in Nat
      /\ \A i \in 1..Len(ret) : ret'[i] = ret[i]
      /\ ret'[Len(ret')] = r
  BY <1>1, <1>2, AppendProperties, LenProperties
<1>6. pos > 0
  <2>1. Len(ret) # 0 => ret[Len(ret)] \in R
    BY <1>1, <1>5, ElementOfSeq
  <2>2. Len(ret) # 0 => ret[Len(ret)].to \in Nat
    BY <2>1 DEF R
  <2>3. Begin \in Nat
    BY <1>5, <2>2 DEF Begin, After
  <2>. QED
    BY <1>1, <2>3 DEF HeaderIs
<1>7. TypeOK'
  <2>1. pos' \in 0..avail
    BY <1>1, <1>3, <1>6
  <2>2. ret' \in Seq([from : 0..Len(input), to : 0..Len(input)])
    BY <1>5 DEF R
  <2>. QED
    BY <1>1, <2>1, <2>2 DEF IInv, TypeOK
<1>8. Tiled'
  <2>. DEFINE Tile(i) == /\ After(i - 1) < ret[i].from
                         /\ input[ret[i].from] = Colon
                         /\ IsLength(SubSeq(input, After(i - 1) + 1, ret[i].from - 1))
                         /\ Value(SubSeq(input, After(i - 1) + 1, ret[i].from - 1))
                              = ret[i].to - ret[i].from
  <2>1. \A i \in 1..Len(ret) : Tile(i)
    BY <1>1, LenProperties DEF IInv, Tiled
  <2>2. ASSUME NEW i \in 1..Len(ret')
        PROVE  Tile(i)'
    <3>1. i - 1 \in 0..Len(ret) /\ After(i - 1)' = After(i - 1)
      BY <1>4, <1>5
    <3>2. CASE i <= Len(ret)
      <4>1. i \in 1..Len(ret) /\ ret'[i] = ret[i]
        BY <1>5, <3>2
      <4>. QED
        BY <2>1, <3>1, <4>1
    <3>3. CASE i = Len(ret')
      <4>1. i - 1 = Len(ret) /\ ret'[i] = r /\ pos - (pos - length) = length
        BY <1>1, <1>5, <3>3
      <4>. QED
        BY <1>1, <1>2, <3>1, <4>1 DEF HeaderIs, Begin
    <3>. QED
      BY <1>5, <3>2, <3>3
  <2>3. DOMAIN ret' = 1..Len(ret')
    BY <1>5, LenProperties
  <2>. QED
    BY <2>2, <2>3 DEF Tiled
<1>9. HeaderRead'
  <2>1. Begin' = IF pos < Len(input) /\ input[pos + 1] = Comma THEN pos + 1 ELSE pos
    BY <1>2, <1>5 DEF Begin, After
  <2>2. CASE avail > pos
    <3>1. pos' = Begin'
      BY <1>1, <1>3, <2>1, <2>2
    <3>. QED
      BY <1>1, <3>1 DEF HeaderRead
  <2>3. CASE avail = pos
    <3>1. eof' /\ pos' = pos - 1 /\ Len(ret') > 0 /\ avail' = ret'[Len(ret')].to
      BY <1>1, <1>2, <1>3, <1>5, <2>3
    <3>2. SteppedBack'
      BY <2>3, <3>1 DEF SteppedBack
    <3>. QED
      BY <1>1, <3>2 DEF HeaderRead
  <2>. QED
    BY <1>1, <2>2, <2>3
<1>. QED
  BY <1>7, <1>8, <1>9 DEF IInv

-----------------------------------------------------------------------------
(* The payloads that encode has joined are found where they were put. *)
FlattenFrom(s, S, n) ==
  [f \in [Nat -> Seq(S)] |->
     IF n = 0 \/ n > Len(s) THEN <<>> ELSE f[n - 1] \o s[n]]

Joins(F, s) == /\ F[0] = <<>>
               /\ \A i \in 1..Len(s) : F[i] = F[i - 1] \o s[i]

LEMMA JoinsExists ==
  ASSUME NEW S, NEW s \in Seq(Seq(S))
  PROVE  \E F \in [Nat -> Seq(S)] : Joins(F, s)
<1>. DEFINE Q == Seq(S)
            G == [n \in Nat |-> FlattenFrom(s, S, n)]
<1>1. Len(s) \in Nat /\ \A i \in 1..Len(s) : s[i] \in Q
  BY LenProperties, ElementOfSeq
<1>0. \A k \in Nat, n \in Nat :
        n \in 1..k => n - 1 \in Nat /\ n - 1 < n /\ ~(n = 0 \/ n > k)
  OBVIOUS
<1>2. ASSUME NEW n \in Nat, NEW f \in [Nat -> Q]
      PROVE  /\ (n = 0 \/ n > Len(s)) => G[n][f] = <<>>
             /\ n \in 1..Len(s) => /\ G[n][f] = f[n - 1] \o s[n]
                                   /\ n - 1 \in Nat /\ n - 1 < n /\ f[n - 1] \in Q
             /\ G[n][f] \in Q
  <2>1. G[n][f] = IF n = 0 \/ n > Len(s) THEN <<>> ELSE f[n - 1] \o s[n]
    BY DEF FlattenFrom
  <2>2. <<>> \in Q
    BY EmptySeq
  <2>3. n \in 1..Len(s) => n - 1 \in Nat /\ n - 1 < n /\ ~(n = 0 \/ n > Len(s))
    BY <1>1, <1>0, Zenon
  <2>4. n \in 1..Len(s) => f[n - 1] \in Q
    BY <2>3
  <2>5. n \in 1..Len(s) => f[n - 1] \o s[n] \in Q
    BY <1>1, <2>4, ConcatProperties
  <2>6. n = 0 \/ n > Len(s) \/ n \in 1..Len(s)
    BY <1>1
  <2>. HIDE DEF G, Q
  <2>. QED
    BY <2>1, <2>2, <2>3, <2>4, <2>5, <2>6
<1>3. G \in [Nat -> [[Nat -> Q] -> Q]]
  <2>1. \A n \in Nat : G[n] \in [[Nat -> Q] -> Q]
    BY <1>2 DEF FlattenFrom
  <2>. QED
    BY <2>1
<1>4. Q # {}
  BY EmptySeq
<1>. HIDE DEF G, Q
<1>5. LooksBack(G, Q)
  <2>1. ASSUME NEW n \in Nat, NEW f \in [Nat -> Q], NEW g \in [Nat -> Q],
               \A m \in Nat : m < n => f[m] = g[m]
        PROVE  G[n][f] = G[n][g]
    <3>1. CASE n = 0 \/ n > Len(s)
      BY <1>2, <3>1
    <3>2. CASE n \in 1..Len(s)
      <4>1. n - 1 \in Nat /\ n - 1 < n
        BY <1>2, <3>2
      <4>2. f[n - 1] = g[n - 1]
        BY <2>1, <4>1
      <4>3. G[n][f] = f[n - 1] \o s[n] /\ G[n][g] = g[n - 1] \o s[n]
        BY <1>2, <3>2, Zenon
      <4>. QED
        BY <4>2, <4>3, Zenon
    <3>. QED
      BY <1>1, <3>1, <3>2
  <2>. QED
    BY <2>1 DEF LooksBack
<1>6. PICK f \in [Nat -> Q] : Solution(f, G)
  BY <1>3, <1>4, <1>5, Recursion
<1>7. Joins(f, s)
  <2>1. f[0] = <<>>
    BY <1>2, <1>6 DEF Solution
  <2>2. \A i \in 1..Len(s) : i \in Nat
    BY <1>1
  <2>3. \A i \in 1..Len(s) : f[i] = f[i - 1] \o s[i]
    BY <1>2, <1>6, <2>2 DEF Solution
  <2>. QED
    BY <2>1, <2>3 DEF Joins
<1>. QED
  BY <1>6, <1>7, Zenon DEF Q

LEMMA Flattened ==
  ASSUME NEW S, NEW s \in Seq(Seq(S))
  PROVE  \E F \in [Nat -> Seq(S)] : Joins(F, s) /\ F[Len(s)] = FlattenSeq(s)
<1>1. PICK F \in [Nat -> Seq(S)] : Joins(F, s)
  BY JoinsExists
<1>2. Len(s) \in Nat /\ \A i \in 1..Len(s) : s[i] \in Seq(S)
  BY LenProperties, ElementOfSeq
<1>3. CASE Len(s) = 0
  <2>1. s = <<>>
    BY <1>3, EmptySeq
  <2>2. FlattenSeq(s) = s
    BY <1>3, Zenon DEF FlattenSeq
  <2>. QED
    BY <1>1, <1>3, <2>1, <2>2 DEF Joins
<1>4. CASE Len(s) # 0
  <2>. DEFINE IsFlat(g) == g = [i \in 1..Len(s) |-> IF i = 1 THEN s[i] ELSE g[i - 1] \o s[i]]
  <2>1. F[1] = s[1]
    <3>1. 1 \in 1..Len(s) /\ 1 - 1 = 0
      BY <1>2, <1>4
    <3>2. s[1] \in Seq(S) /\ F[0] = <<>> /\ F[1] = F[0] \o s[1]
      BY <1>1, <1>2, <3>1 DEF Joins
    <3>. QED
      BY <3>2, ConcatEmptySeq
  <2>2. \E g : IsFlat(g)
    <3>1. PICK g : g = [i \in 1..Len(s) |-> F[i]]
      OBVIOUS
    <3>2. ASSUME NEW i \in 1..Len(s)
          PROVE  F[i] = IF i = 1 THEN s[i] ELSE g[i - 1] \o s[i]
      <4>1. CASE i = 1
        BY <2>1, <4>1
      <4>2. CASE i # 1
        <5>1. i - 1 \in 1..Len(s)
          BY <1>2, <4>2
        <5>2. g[i - 1] = F[i - 1]
          BY <3>1, <5>1
        <5>. QED
          BY <1>1, <4>2, <5>2 DEF Joins
      <4>. QED
        BY <4>1, <4>2
    <3>3. IsFlat(g)
      BY <3>1, <3>2, Zenon
    <3>. QED
      BY <3>3, Zenon
  <2>3. PICK g : IsFlat(g) /\ FlattenSeq(s) = g[Len(s)]
    <3>1. FlattenSeq(s) = (CHOOSE g : IsFlat(g))[Len(s)]
      BY <1>4, Zenon DEF FlattenSeq
    <3>. QED
      BY <2>2, <3>1, Zenon
  <2>4. \A i \in 1..Len(s) : g[i] = IF i = 1 THEN s[i] ELSE g[i - 1] \o s[i]
    <3>1. g = [i \in 1..Len(s) |-> IF i = 1 THEN s[i] ELSE g[i - 1] \o s[i]]
      BY <2>3, Zenon
    <3>. QED
      BY <3>1
  <2>. HIDE DEF IsFlat
  <2>5. \A i \in 1..Len(s) : g[i] = F[i]
    <3>. DEFINE T == {i \in 1..Len(s) : g[i] # F[i]}
    <3>1. SUFFICES ASSUME T # {} PROVE FALSE
      OBVIOUS
    <3>2. T \subseteq Nat
      BY <1>2
    <3>3. PICK n \in T : \A m \in Nat : m < n => m \notin T
      <4>. HIDE DEF T
      <4>. QED
        BY <3>1, <3>2, Least
    <3>4. n # 1
      BY <2>1, <2>4
    <3>5. n \in 1..Len(s) /\ n - 1 \in Nat /\ n - 1 < n /\ n - 1 \in 1..Len(s)
      BY <1>2, <3>4
    <3>6. g[n - 1] = F[n - 1]
      BY <3>3, <3>5
    <3>7. g[n] = F[n - 1] \o s[n]
      BY <2>4, <3>4, <3>5, <3>6
    <3>. QED
      BY <1>1, <3>5, <3>7 DEF Joins
  <2>6. Len(s) \in 1..Len(s)
    BY <1>2, <1>4
  <2>. QED
    BY <1>1, <2>3, <2>5, <2>6
<1>. QED
  BY <1>3, <1>4

(* Part i of the joined sequence reaches from the end of part i - 1 to at[i]. *)
PartAt(out, p, b, q) == p <= q /\ q <= Len(out) /\ SubSeq(out, p + 1, q) = b

LEMMA PartOfConcat ==
  ASSUME NEW S, NEW u \in Seq(S), NEW v \in Seq(S), NEW b \in Seq(S),
         NEW p \in Nat, NEW q \in Nat, PartAt(u, p, b, q)
  PROVE  PartAt(u \o v, p, b, q)
<1>1. /\ Len(u) \in Nat /\ Len(v) \in Nat /\ Len(u \o v) = Len(u) + Len(v)
      /\ p <= q /\ q <= Len(u) /\ SubSeq(u, p + 1, q) = b
  BY ConcatProperties, LenProperties DEF PartAt
<1>2. CASE p = q
  <2>1. SubSeq(u, p + 1, q) = <<>> /\ SubSeq(u \o v, p + 1, q) = <<>>
    <3>1. p + 1 \in Int /\ q \in Int /\ q < p + 1
      BY <1>2
    <3>. QED
      BY <3>1, SubSeqEmpty
  <2>. QED
    BY <1>1, <2>1 DEF PartAt
<1>3. CASE p < q
  <2>1. p + 1 \in 1..Len(u) /\ q \in 1..Len(u)
    BY <1>1, <1>3
  <2>2. SubSeq(u \o v, p + 1, q) = SubSeq(u, p + 1, q)
    BY <2>1, SubSeqOfConcat1
  <2>. QED
    BY <1>1, <2>2 DEF PartAt
<1>. QED
  BY <1>1, <1>2, <1>3

LEMMA LastPart ==
  ASSUME NEW S, NEW u \in Seq(S), NEW v \in Seq(S)
  PROVE  PartAt(u \o v, Len(u), v, Len(u \o v))
<1>1. Len(u) \in Nat /\ Len(v) \in Nat /\ Len(u \o v) = Len(u) + Len(v)
  BY ConcatProperties, LenProperties
<1>2. CASE v = <<>>
  <2>1. Len(u \o v) \in Int /\ Len(u) + 1 \in Int /\ Len(u \o v) < Len(u) + 1
    BY <1>1, <1>2
  <2>2. SubSeq(u \o v, Len(u) + 1, Len(u \o v)) = <<>>
    BY <2>1, SubSeqEmpty
  <2>. QED
    BY <1>1, <1>2, <2>2 DEF PartAt
<1>3. CASE v # <<>>
  <2>1. Len(v) > 0
    BY <1>1, <1>3, EmptySeq
  <2>2. /\ Len(u) + 1 \in (Len(u) + 1)..(Len(u) + Len(v))
        /\ Len(u) + Len(v) \in (Len(u) + 1)..(Len(u) + Len(v))
        /\ (Len(u) + 1) - Len(u) = 1 /\ (Len(u) + Len(v)) - Len(u) = Len(v)
    BY <1>1, <2>1
  <2>3. SubSeq(u \o v, Len(u) + 1, Len(u) + Len(v))
          = SubSeq(v, (Len(u) + 1) - Len(u), (Len(u) + Len(v)) - Len(u))
    BY <2>2, SubSeqOfConcat2
  <2>4. SubSeq(u \o v, Len(u) + 1, Len(u) + Len(v)) = v
    BY <2>2, <2>3, SubSeqFull
  <2>. QED
    BY <1>1, <2>4 DEF PartAt
<1>. QED
  BY <1>2, <1>3

LEMMA Parts ==
  ASSUME NEW S, NEW s \in Seq(Seq(S))
  PROVE  \E out \in Seq(S), at \in [Nat -> Nat] :
           /\ out = FlattenSeq(s)
           /\ at[0] = 0 /\ at[Len(s)] = Len(out)
           /\ \A i \in 1..Len(s) : PartAt(out, at[i - 1], s[i], at[i])
<1>1. PICK F \in [Nat -> Seq(S)] : Joins(F, s) /\ F[Len(s)] = FlattenSeq(s)
  BY Flattened
<1>2. Len(s) \in Nat /\ \A i \in 1..Len(s) : s[i] \in Seq(S)
  BY LenProperties, ElementOfSeq
<1>3. \A i \in Nat : F[i] \in Seq(S) /\ Len(F[i]) \in Nat
  BY LenProperties
<1>4. PICK at \in [Nat -> Nat] : \A i \in Nat : at[i] = Len(F[i])
  <2>1. [i \in Nat |-> Len(F[i])] \in [Nat -> Nat]
    BY <1>3
  <2>. QED
    BY <2>1
<1>. DEFINE Good(k) == \A i \in 1..k : PartAt(F[k], at[i - 1], s[i], at[i])
<1>5. \A k \in 0..Len(s) : Good(k)
  <2>. DEFINE T == {k \in 0..Len(s) : ~Good(k)}
  <2>1. SUFFICES ASSUME T # {} PROVE FALSE
    OBVIOUS
  <2>2. T \subseteq Nat
    BY <1>2
  <2>3. PICK k \in T : \A m \in Nat : m < k => m \notin T
    <3>. HIDE DEF T
    <3>. QED
      BY <2>1, <2>2, Least
  <2>4. k \in 0..Len(s) /\ ~Good(k)
    OBVIOUS
  <2>5. Good(0)
    OBVIOUS
  <2>6. k \in 1..Len(s) /\ k \in Nat /\ k - 1 \in Nat /\ k - 1 < k /\ k - 1 \in 0..Len(s)
    <3>. HIDE DEF Good, T
    <3>1. k # 0
      BY <2>4, <2>5
    <3>. QED
      BY <1>2, <2>4, <3>1
  <2>7. Good(k - 1)
    <3>. HIDE DEF Good
    <3>. QED
      BY <2>3, <2>6
  <2>8. PICK u, v : u = F[k - 1] /\ v = s[k]
    OBVIOUS
  <2>9. u \in Seq(S) /\ v \in Seq(S) /\ F[k] = u \o v /\ at[k - 1] = Len(u) /\ at[k] = Len(u \o v)
    <3>1. F[k] = u \o v
      BY <1>1, <2>6, <2>8, Zenon DEF Joins
    <3>2. u \in Seq(S) /\ v \in Seq(S)
      BY <1>2, <1>3, <2>6, <2>8
    <3>3. at[k - 1] = Len(u) /\ at[k] = Len(F[k])
      BY <1>4, <2>6, <2>8
    <3>. QED
      BY <3>1, <3>2, <3>3, Zenon
  <2>10. ASSUME NEW i \in 1..k
         PROVE  PartAt(F[k], at[i - 1], s[i], at[i])
    <3>1. CASE i = k
      <4>1. PartAt(u \o v, Len(u), v, Len(u \o v))
        BY <2>9, LastPart
      <4>. QED
        BY <2>8, <2>9, <3>1, <4>1, Zenon
    <3>2. CASE i # k
      <4>1. i \in 1..(k - 1) /\ i \in Nat /\ i - 1 \in Nat /\ i \in 1..Len(s)
        BY <2>6, <3>2
      <4>2. PartAt(u, at[i - 1], s[i], at[i])
        BY <2>7, <2>8, <4>1
      <4>3. at[i - 1] \in Nat /\ at[i] \in Nat /\ s[i] \in Seq(S)
        BY <1>2, <4>1
      <4>4. PartAt(u \o v, at[i - 1], s[i], at[i])
        BY <2>9, <4>2, <4>3, PartOfConcat
      <4>. QED
        BY <2>9, <4>4, Zenon
    <3>. QED
      BY <3>1, <3>2
  <2>. QED
    BY <2>4, <2>10
<1>6. Len(s) \in 0..Len(s) /\ Len(s) \in Nat
  BY <1>2
<1>7. Good(Len(s))
  <2>. HIDE DEF Good
  <2>. QED
    BY <1>5, <1>6
<1>8. at[0] = 0
  <2>1. F[0] = <<>>
    BY <1>1 DEF Joins
  <2>2. Len(F[0]) = 0
    BY <2>1, EmptySeq
  <2>. QED
    BY <1>4, <2>2
<1>9. PICK out : out = F[Len(s)]
  OBVIOUS
<1>10. out \in Seq(S) /\ out = FlattenSeq(s) /\ at[Len(s)] = Len(out)
  BY <1>1, <1>3, <1>4, <1>6, <1>9
<1>. QED
  BY <1>7, <1>8, <1>9, <1>10

LEMMA Singleton ==
  ASSUME NEW S, NEW e \in S
  PROVE  <<e>> \in Seq(S) /\ Len(<<e>>) = 1 /\ <<e>>[1] = e
OBVIOUS

LEMMA Joined ==
  ASSUME NEW S, NEW s \in Seq(S), NEW t \in Seq(S), NEW u, u = s \o t
  PROVE  /\ u \in Seq(S) /\ Len(u) = Len(s) + Len(t)
         /\ \A i \in 1..Len(s) : u[i] = s[i]
         /\ \A i \in 1..Len(t) : u[Len(s) + i] = t[i]
<1>1. /\ Len(s) \in Nat /\ Len(t) \in Nat
      /\ u \in Seq(S) /\ Len(u) = Len(s) + Len(t)
  BY ConcatProperties, LenProperties
<1>2. \A i \in 1..(Len(s) + Len(t)) : u[i] = IF i <= Len(s) THEN s[i] ELSE t[i - Len(s)]
  BY ConcatProperties
<1>3. \A i \in 1..Len(s) : u[i] = s[i]
  BY <1>1, <1>2
<1>4. ASSUME NEW i \in 1..Len(t)
      PROVE  u[Len(s) + i] = t[i]
  <2>1. Len(s) + i \in 1..(Len(s) + Len(t)) /\ ~(Len(s) + i <= Len(s)) /\ (Len(s) + i) - Len(s) = i
    BY <1>1
  <2>. QED
    BY <1>2, <2>1
<1>. QED
  BY <1>1, <1>3, <1>4

LEMMA Written ==
  ASSUME NEW b \in Seq(Bytes)
  PROVE  \E w \in Seq(Bytes), t \in Seq(Bytes) :
           /\ w = WriteNetstring(b) /\ t = Itoa[Len(b)]
           /\ Len(w) = Len(t) + Len(b) + 2
           /\ \A i \in 1..Len(t) : w[i] = t[i]
           /\ w[Len(t) + 1] = Colon
           /\ \A i \in 1..Len(b) : w[Len(t) + 1 + i] = b[i]
           /\ w[Len(w)] = Comma
<1>1. PICK t : t = Itoa[Len(b)]
  OBVIOUS
<1>2. t \in Seq(Bytes) /\ Len(t) \in Nat /\ Len(b) \in Nat
  BY <1>1, ItoaDigits, LenProperties
<1>3. PICK x, y : x = <<Colon>> /\ y = <<Comma>>
  OBVIOUS
<1>4. /\ x \in Seq(Bytes) /\ Len(x) = 1 /\ x[1] = Colon
      /\ y \in Seq(Bytes) /\ Len(y) = 1 /\ y[1] = Comma
  <2>1. Colon \in Bytes /\ Comma \in Bytes
    BY DEF Colon, Comma, Bytes, Other
  <2>. QED
    BY <1>3, <2>1, Singleton
<1>5. PICK u : u = t \o x
  OBVIOUS
<1>6. /\ u \in Seq(Bytes) /\ Len(u) = Len(t) + 1
      /\ \A i \in 1..Len(t) : u[i] = t[i]
      /\ u[Len(t) + 1] = Colon
  <2>1. /\ u \in Seq(Bytes) /\ Len(u) = Len(t) + Len(x)
        /\ \A i \in 1..Len(t) : u[i] = t[i]
        /\ \A i \in 1..Len(x) : u[Len(t) + i] = x[i]
    <3>1. t \in Seq(Bytes) /\ x \in Seq(Bytes)
      BY <1>2, <1>4
    <3>. QED
      BY <1>5, <3>1, Joined
  <2>. QED
    BY <1>4, <2>1
<1>7. PICK v : v = u \o b
  OBVIOUS
<1>8. /\ v \in Seq(Bytes) /\ Len(v) = Len(t) + 1 + Len(b)
      /\ \A i \in 1..(Len(t) + 1) : v[i] = u[i]
      /\ \A i \in 1..Len(b) : v[Len(t) + 1 + i] = b[i]
  <2>1. u \in Seq(Bytes)
    BY <1>6
  <2>2. /\ v \in Seq(Bytes) /\ Len(v) = Len(u) + Len(b)
        /\ \A i \in 1..Len(u) : v[i] = u[i]
        /\ \A i \in 1..Len(b) : v[Len(u) + i] = b[i]
    BY <1>7, <2>1, Joined
  <2>. QED
    BY <1>6, <2>2
<1>9. PICK w : w = v \o y
  OBVIOUS
<1>10. /\ w \in Seq(Bytes) /\ Len(w) = Len(t) + Len(b) + 2
       /\ \A i \in 1..(Len(t) + 1 + Len(b)) : w[i] = v[i]
       /\ w[Len(t) + Len(b) + 2] = Comma
  <2>1. /\ w \in Seq(Bytes) /\ Len(w) = Len(v) + Len(y)
        /\ \A i \in 1..Len(v) : w[i] = v[i]
        /\ \A i \in 1..Len(y) : w[Len(v) + i] = y[i]
    <3>1. v \in Seq(Bytes) /\ y \in Seq(Bytes)
      BY <1>4, <1>8
    <3>. QED
      BY <1>9, <3>1, Joined
  <2>2. 1 \in 1..Len(y) /\ Len(v) = Len(t) + 1 + Len(b) /\ Len(v) + 1 = Len(t) + Len(b) + 2
    BY <1>2, <1>4, <1>8
  <2>. QED
    BY <1>2, <1>4, <2>1, <2>2
<1>11. /\ \A i \in 1..Len(t) : w[i] = t[i]
       /\ w[Len(t) + 1] = Colon
       /\ \A i \in 1..Len(b) : w[Len(t) + 1 + i] = b[i]
  BY <1>2, <1>6, <1>8, <1>10
<1>12. w = WriteNetstring(b)
  BY <1>1, <1>3, <1>5, <1>7, <1>9, Zenon DEF WriteNetstring
<1>. QED
  BY <1>1, <1>2, <1>10, <1>11, <1>12

(* The frame of b in out, from p on: its colon is at c, its comma at q. *)
FrameAt(out, p, b, c, q) ==
  /\ p < c /\ q = c + Len(b) + 1 /\ q <= Len(out)
  /\ \A i \in (p + 1)..(c - 1) : out[i] # Colon
  /\ out[c] = Colon /\ out[q] = Comma
  /\ IsLength(SubSeq(out, p + 1, c - 1)) <=> b # <<>>
  /\ Value(SubSeq(out, p + 1, c - 1)) = Len(b)
  /\ SubSeq(out, c + 1, q - 1) = b

LEMMA SubSeqIs ==
  ASSUME NEW S, NEW s \in Seq(S), NEW t \in Seq(S), NEW p \in Nat,
         p + Len(t) <= Len(s), \A i \in 1..Len(t) : s[p + i] = t[i]
  PROVE  SubSeq(s, p + 1, p + Len(t)) = t
<1>1. Len(s) \in Nat /\ Len(t) \in Nat
  BY LenProperties
<1>2. p + 1 \in Int /\ p + Len(t) \in Int /\ \A i \in (p + 1)..(p + Len(t)) : i \in 1..Len(s)
  BY <1>1
<1>3. \A i \in (p + 1)..(p + Len(t)) : s[i] \in S
  BY <1>2, ElementOfSeq
<1>4. PICK r : r = SubSeq(s, p + 1, p + Len(t))
  OBVIOUS
<1>5. /\ r \in Seq(S)
      /\ Len(r) = IF p + 1 <= p + Len(t) THEN (p + Len(t)) - (p + 1) + 1 ELSE 0
      /\ \A i \in 1..((p + Len(t)) - (p + 1) + 1) : r[i] = s[(p + 1) + i - 1]
  BY <1>2, <1>3, <1>4, SubSeqProperties
<1>6. Len(r) = Len(t)
  BY <1>1, <1>5
<1>7. ASSUME NEW i \in 1..Len(r)
      PROVE  r[i] = t[i]
  <2>1. i \in 1..((p + Len(t)) - (p + 1) + 1) /\ (p + 1) + i - 1 = p + i /\ i \in 1..Len(t)
    BY <1>1, <1>6
  <2>. QED
    BY <1>5, <2>1
<1>. QED
  BY <1>4, <1>5, <1>6, <1>7, SeqEqual

LEMMA FrameFound ==
  ASSUME NEW out \in Seq(Bytes), NEW b \in Seq(Bytes), NEW p \in Nat, NEW q \in Nat,
         Len(b) < Limit, PartAt(out, p, WriteNetstring(b), q)
  PROVE  \E c \in Nat : FrameAt(out, p, b, c, q)
<1>1. PICK w \in Seq(Bytes), t \in Seq(Bytes) :
        /\ w = WriteNetstring(b) /\ t = Itoa[Len(b)]
        /\ Len(w) = Len(t) + Len(b) + 2
        /\ \A i \in 1..Len(t) : w[i] = t[i]
        /\ w[Len(t) + 1] = Colon
        /\ \A i \in 1..Len(b) : w[Len(t) + 1 + i] = b[i]
        /\ w[Len(w)] = Comma
  BY Written
<1>2. /\ Len(out) \in Nat /\ Len(b) \in Nat /\ Len(t) \in Nat
      /\ p <= q /\ q <= Len(out) /\ SubSeq(out, p + 1, q) = w
  BY <1>1, LenProperties DEF PartAt
<1>3. /\ Len(w) = IF p + 1 <= q THEN q - (p + 1) + 1 ELSE 0
      /\ \A i \in 1..(q - (p + 1) + 1) : w[i] = out[(p + 1) + i - 1]
  <2>1. p + 1 \in Int /\ q \in Int /\ \A i \in (p + 1)..q : i \in 1..Len(out)
    BY <1>2
  <2>2. \A i \in (p + 1)..q : out[i] \in Bytes
    BY <2>1, ElementOfSeq
  <2>3. PICK r : r = SubSeq(out, p + 1, q)
    OBVIOUS
  <2>4. /\ Len(r) = IF p + 1 <= q THEN q - (p + 1) + 1 ELSE 0
        /\ \A i \in 1..(q - (p + 1) + 1) : r[i] = out[(p + 1) + i - 1]
    BY <2>1, <2>2, <2>3, SubSeqProperties
  <2>. QED
    BY <1>2, <2>3, <2>4, Zenon
<1>4. q = p + Len(w) /\ q = p + Len(t) + Len(b) + 2
  <2>1. Len(w) = Len(t) + Len(b) + 2 /\ Len(w) # 0
    BY <1>1, <1>2
  <2>2. Len(w) = IF p + 1 <= q THEN q - (p + 1) + 1 ELSE 0
    BY <1>3
  <2>3. q = p + Len(w)
    <3>1. \A x \in Nat, y \in Nat, l \in Nat :
            (l = (IF x + 1 <= y THEN y - (x + 1) + 1 ELSE 0) /\ l # 0) => y = x + l
      OBVIOUS
    <3>2. Len(w) \in Nat
      BY LenProperties
    <3>. QED
      BY <2>1, <2>2, <3>1, <3>2, Zenon
  <2>. QED
    BY <1>2, <2>1, <2>3
<1>5. \A i \in 1..Len(w) : out[p + i] = w[i]
  <2>1. ASSUME NEW i \in 1..Len(w)
        PROVE  out[p + i] = w[i]
    <3>1. i \in 1..(q - (p + 1) + 1) /\ (p + 1) + i - 1 = p + i
      BY <1>1, <1>2, <1>4
    <3>. QED
      BY <1>3, <3>1
  <2>. QED
    BY <2>1
<1>6. PICK c \in Nat : c = p + Len(t) + 1
  BY <1>2
<1>7. p < c /\ q = c + Len(b) + 1 /\ c + Len(b) = q - 1 /\ c - 1 = p + Len(t)
  BY <1>2, <1>4, <1>6
<1>8. \A i \in 1..Len(t) : out[p + i] = t[i]
  <2>1. \A i \in 1..Len(t) : i \in 1..Len(w)
    BY <1>1, <1>2
  <2>. QED
    BY <1>1, <1>5, <2>1
<1>9. out[c] = Colon /\ out[q] = Comma
  <2>1. /\ Len(t) + 1 \in 1..Len(w) /\ p + (Len(t) + 1) = c
        /\ Len(w) \in 1..Len(w) /\ p + Len(w) = q
    BY <1>1, <1>2, <1>4, <1>6
  <2>. QED
    BY <1>1, <1>5, <2>1
<1>10. \A i \in 1..Len(b) : out[c + i] = b[i]
  <2>1. ASSUME NEW i \in 1..Len(b)
        PROVE  out[c + i] = b[i]
    <3>1. Len(t) + 1 + i \in 1..Len(w) /\ p + (Len(t) + 1 + i) = c + i
      <4>1. PICK l \in Nat, m \in Nat : l = Len(t) /\ m = Len(b)
        BY <1>2
      <4>2. Len(w) = l + m + 2 /\ c = p + l + 1 /\ i \in 1..m
        BY <4>1, <1>1, <1>6
      <4>3. l + 1 + i \in 1..(l + m + 2) /\ p + (l + 1 + i) = (p + l + 1) + i
        BY <4>2
      <4>. QED
        BY <4>1, <4>2, <4>3
    <3>. QED
      BY <1>1, <1>5, <3>1
  <2>. QED
    BY <2>1
<1>11. SubSeq(out, c + 1, q - 1) = b
  <2>1. c + Len(b) <= Len(out)
    BY <1>2, <1>7
  <2>2. SubSeq(out, c + 1, c + Len(b)) = b
    BY <1>10, <2>1, SubSeqIs
  <2>. QED
    BY <1>7, <2>2, Zenon
<1>12. SubSeq(out, p + 1, c - 1) = t
  <2>1. p + Len(t) <= Len(out)
    BY <1>2, <1>4
  <2>2. SubSeq(out, p + 1, p + Len(t)) = t
    BY <1>8, <2>1, SubSeqIs
  <2>. QED
    BY <1>7, <2>2, Zenon
<1>13. \A i \in 1..Len(t) : t[i] \in Digits
  BY <1>1, <1>2, ItoaDigits
<1>14. Value(t) = Len(b)
  BY <1>1, <1>2, ItoaValue
<1>15. IsLength(t) <=> b # <<>>
  <2>1. DOMAIN t = 1..Len(t)
    BY LenProperties
  <2>2. \A i \in DOMAIN t : t[i] \in Digits \cup {Comma}
    BY <1>13, <2>1
  <2>3. Len(b) > 0 <=> b # <<>>
    BY <1>2, EmptySeq
  <2>. QED
    BY <1>14, <2>2, <2>3 DEF IsLength
<1>16. \A i \in (p + 1)..(c - 1) : out[i] # Colon
  <2>1. ASSUME NEW i \in (p + 1)..(c - 1)
        PROVE  out[i] # Colon
    <3>1. PICK j \in 1..Len(t) : i = p + j
      <4>1. i - p \in 1..Len(t) /\ i = p + (i - p)
        BY <1>2, <1>7
      <4>. QED
        BY <4>1
    <3>2. PICK d \in Digits : d = out[i]
      BY <1>8, <1>13, <3>1
    <3>3. d # Colon
      BY DEF Digits, Colon
    <3>. QED
      BY <3>2, <3>3
  <2>. QED
    BY <2>1
<1>. QED
  BY <1>2, <1>7, <1>9, <1>11, <1>12, <1>14, <1>15, <1>16, Zenon DEF FrameAt

(* The frames of the payloads in: frame i ends at at[i]. *)
IsLayout(in, out, at) ==
  /\ at[0] = 0 /\ at[Len(in)] = Len(out)
  /\ \A i \in 1..Len(in) : \E c \in Nat : FrameAt(out, at[i - 1], in[i], c, at[i])

LEMMA FunctionIsSeq ==
  ASSUME NEW S, NEW n \in Nat, NEW s \in [1..n -> S]
  PROVE  s \in Seq(S) /\ Len(s) = n
OBVIOUS

LEMMA Layout ==
  ASSUME NEW in \in Seq(Seq(Bytes)), \A i \in 1..Len(in) : Len(in[i]) < Limit
  PROVE  \E out \in Seq(Bytes), at \in [Nat -> Nat] : out = Encode(in) /\ IsLayout(in, out, at)
<1>1. Len(in) \in Nat /\ DOMAIN in = 1..Len(in) /\ \A i \in 1..Len(in) : in[i] \in Seq(Bytes)
  BY LenProperties, ElementOfSeq
<1>2. PICK s : s = [i \in DOMAIN in |-> WriteNetstring(in[i])]
  OBVIOUS
<1>3. \A i \in 1..Len(in) : s[i] = WriteNetstring(in[i]) /\ s[i] \in Seq(Bytes)
  <2>1. ASSUME NEW i \in 1..Len(in)
        PROVE  s[i] = WriteNetstring(in[i]) /\ s[i] \in Seq(Bytes)
    <3>1. s[i] = WriteNetstring(in[i])
      BY <1>1, <1>2
    <3>2. WriteNetstring(in[i]) \in Seq(Bytes)
      BY <1>1, Written
    <3>. QED
      BY <3>1, <3>2, Zenon
  <2>. QED
    BY <2>1
<1>4. s \in Seq(Seq(Bytes)) /\ Len(s) = Len(in)
  <2>. DEFINE Q == Seq(Bytes)
  <2>1. s = [i \in 1..Len(in) |-> s[i]]
    BY <1>1, <1>2
  <2>2. \A i \in 1..Len(in) : s[i] \in Q
    BY <1>3
  <2>. HIDE DEF Q
  <2>3. s \in [1..Len(in) -> Q]
    BY <2>1, <2>2
  <2>4. s \in Seq(Q) /\ Len(s) = Len(in)
    BY <1>1, <2>3, FunctionIsSeq
  <2>. QED
    BY <2>4, Zenon DEF Q
<1>5. PICK out \in Seq(Bytes), at \in [Nat -> Nat] :
        /\ out = FlattenSeq(s)
        /\ at[0] = 0 /\ at[Len(s)] = Len(out)
        /\ \A i \in 1..Len(s) : PartAt(out, at[i - 1], s[i], at[i])
  BY <1>4, Parts
<1>6. out = Encode(in)
  BY <1>2, <1>5, Zenon DEF Encode
<1>7. ASSUME NEW i \in 1..Len(in)
      PROVE  \E c \in Nat : FrameAt(out, at[i - 1], in[i], c, at[i])
  <2>1. PartAt(out, at[i - 1], WriteNetstring(in[i]), at[i])
    BY <1>3, <1>4, <1>5, Zenon
  <2>2. at[i - 1] \in Nat /\ at[i] \in Nat
    <3>1. i - 1 \in Nat /\ i \in Nat
      BY <1>1
    <3>. QED
      BY <3>1
  <2>3. in[i] \in Seq(Bytes) /\ Len(in[i]) < Limit
    BY <1>1
  <2>. QED
    BY <2>1, <2>2, <2>3, FrameFound
<1>. QED
  BY <1>4, <1>5, <1>6, <1>7 DEF IsLayout

-----------------------------------------------------------------------------
LEMMA InitTypes ==
  ASSUME Init
  PROVE  input \in Seq(Bytes) /\ batch \in Seq(Seq(Bytes))
<1>1. CASE input \in Streams /\ batch = <<>>
  BY <1>1, InputAssumption, EmptySeq
<1>2. CASE batch \in Batches /\ input = Encode(batch)
  <2>1. batch \in Seq(Seq(Bytes))
    BY <1>2, InputAssumption
  <2>2. \A i \in 1..Len(batch) : Len(batch[i]) < Limit
    BY <1>2, <2>1, LimitAssumption, LenProperties
  <2>3. PICK out \in Seq(Bytes) : out = Encode(batch)
    BY <2>1, <2>2, Layout
  <2>. QED
    BY <1>2, <2>1, <2>3
<1>. QED
  BY <1>1, <1>2 DEF Init

LEMMA InitKeeps ==
  ASSUME Init
  PROVE  IInv
<1>1. /\ input \in Seq(Bytes) /\ batch \in Seq(Seq(Bytes)) /\ Len(input) \in Nat
      /\ avail = 0 /\ eof = FALSE /\ pos = 0 /\ phase = "length" /\ length = 0
      /\ ret = <<>> /\ err = "none"
  BY InitTypes, LenProperties DEF Init
<1>2. TypeOK
  <2>1. ret \in Seq([from : 0..Len(input), to : 0..Len(input)])
    BY <1>1, EmptySeq
  <2>2. avail \in 0..Len(input) /\ pos \in 0..avail /\ length \in Nat
    BY <1>1
  <2>3. /\ eof \in BOOLEAN /\ phase \in {"length", "payload", "delim"}
        /\ err \in {"none", "eof", "unexpected", "wrong"}
    BY <1>1
  <2>. QED
    BY <1>1, <2>1, <2>2, <2>3, Zenon DEF TypeOK
<1>3. Tiled
  BY <1>1 DEF Tiled
<1>4. HeaderRead
  BY <1>1 DEF HeaderRead, Begin, After
<1>. QED
  BY <1>2, <1>3, <1>4 DEF IInv

LEMMA StepKeeps ==
  ASSUME IInv, [Next]_vars
  PROVE  IInv'
<1>1. avail \in 0..Len(input) /\ Len(input) \in Nat /\ eof \in BOOLEAN
  BY LenProperties DEF IInv, TypeOK
<1>2. CASE Arrive
  <2>1. avail' \in avail..Len(input) /\ eof' \in BOOLEAN /\ ~eof
    BY <1>1, <1>2 DEF Arrive
  <2>. QED
    BY <1>2, <2>1, Quiet DEF Arrive
<1>3. CASE PeerCloses
  <2>1. avail' \in avail..Len(input) /\ eof' = TRUE /\ ~eof
    BY <1>1, <1>3 DEF PeerCloses
  <2>. QED
    BY <1>3, <2>1, Quiet DEF PeerCloses
<1>4. CASE Read
  BY <1>4, LengthKeeps, PayloadKeeps, DelimKeeps DEF Read, ReadLength
<1>5. CASE UNCHANGED vars
  <2>1. avail' \in avail..Len(input) /\ eof' = eof /\ eof \in BOOLEAN
    BY <1>1, <1>5 DEF IInv, TypeOK, vars
  <2>. QED
    BY <1>5, <2>1, Quiet DEF vars
<1>6. CASE Ended
  BY <1>5, <1>6 DEF Ended
<1>. QED
  BY <1>2, <1>3, <1>4, <1>5, <1>6 DEF Next

(* The invariant that is inductive. *)
THEOREM Inductive == Spec => []IInv
<1>. QED
  BY InitKeeps, StepKeeps, PTL DEF Spec

(* Every position that netstring.go keeps stays within the     *)
(* input, whatever the bytes.                                              *)
THEOREM TypeCorrect == Spec => []TypeOK
<1>1. IInv => TypeOK
  BY DEF IInv
<1>. QED
  BY <1>1, Inductive, PTL

(* Whatever the bytes and however they arrive: the payloads that           *)
(* readNetstring returns lie side by side, each behind its length.         *)
THEOREM PayloadsTile == Spec => []Tiled
<1>1. IInv => Tiled
  BY DEF IInv
<1>. QED
  BY <1>1, Inductive, PTL

-----------------------------------------------------------------------------
(* The reader, when what is sent are the payloads of batch: what it has    *)
(* returned, where it is, and why it has ended.                            *)
ReturnedFrom(at) ==
  /\ Len(ret) <= Len(batch)
  /\ \A i \in 1..Len(ret) : /\ batch[i] # <<>>
                            /\ ret[i].to = at[i] - 1
                            /\ ret[i].from + Len(batch[i]) = ret[i].to

BetweenFrames(at) ==
  \/ pos = at[Len(ret)]
  \/ eof /\ Len(ret) > 0 /\ avail = at[Len(ret)] - 1 /\ pos = avail - 1

InFrame(at) ==
  /\ Len(ret) < Len(batch) /\ batch[Len(ret) + 1] # <<>>
  /\ length = Len(batch[Len(ret) + 1])
  /\ pos + (IF phase = "payload" THEN length ELSE 0) = at[Len(ret) + 1] - 1

EmptyNext == Len(ret) < Len(batch) /\ batch[Len(ret) + 1] = <<>>
CutOff    == eof /\ avail < Len(input)

EndedWhere ==
  /\ err = "wrong"      => EmptyNext \/ CutOff
  /\ err = "eof"        => eof /\ (Len(ret) = Len(batch) \/ avail < Len(input))
  /\ err = "unexpected" => CutOff

BatchAt(at) ==
  /\ ReturnedFrom(at)
  /\ (err = "none" /\ phase = "length") => BetweenFrames(at)
  /\ (err = "none" /\ phase # "length") => InFrame(at)
  /\ EndedWhere

BatchInv ==
  batch # <<>> => \E at \in [Nat -> Nat] : IsLayout(batch, input, at) /\ BatchAt(at)

LEMMA BatchTypes ==
  ASSUME TypeOK
  PROVE  /\ input \in Seq(Bytes) /\ Len(input) \in Nat
         /\ Len(batch) \in Nat /\ Len(ret) \in Nat
         /\ \A i \in 1..Len(batch) : batch[i] \in Seq(Bytes) /\ Len(batch[i]) \in Nat
         /\ avail \in 0..Len(input) /\ pos \in 0..avail /\ length \in Nat
<1>1. \A i \in 1..Len(batch) : batch[i] \in Seq(Bytes)
  BY ElementOfSeq DEF TypeOK
<1>2. \A i \in 1..Len(batch) : Len(batch[i]) \in Nat
  BY <1>1, LenProperties
<1>. QED
  BY <1>1, <1>2, LenProperties DEF TypeOK

(* The next frame: its colon is the first one behind p. *)
LEMMA NextFrame ==
  ASSUME TypeOK, NEW at \in [Nat -> Nat], IsLayout(batch, input, at),
         NEW m \in Nat, m < Len(batch)
  PROVE  \E c \in Nat, q \in Nat, b \in Seq(Bytes) :
           /\ q = at[m + 1] /\ b = batch[m + 1]
           /\ FrameAt(input, at[m], b, c, q)
<1>1. m + 1 \in 1..Len(batch) /\ (m + 1) - 1 = m /\ m + 1 \in Nat
  BY BatchTypes
<1>2. PICK c \in Nat : FrameAt(input, at[(m + 1) - 1], batch[m + 1], c, at[m + 1])
  BY <1>1 DEF IsLayout
<1>3. at[m + 1] \in Nat /\ batch[m + 1] \in Seq(Bytes)
  BY <1>1, BatchTypes
<1>. QED
  BY <1>1, <1>2, <1>3

LEMMA EndOfFrame ==
  ASSUME TypeOK, NEW at \in [Nat -> Nat], IsLayout(batch, input, at),
         NEW m \in Nat, m <= Len(batch)
  PROVE  at[m] \in Nat /\ at[m] <= Len(input)
<1>1. CASE m = 0
  BY <1>1, BatchTypes DEF IsLayout
<1>2. CASE m # 0
  <2>1. m - 1 \in Nat /\ m - 1 < Len(batch) /\ (m - 1) + 1 = m
    BY <1>2, BatchTypes
  <2>2. PICK c \in Nat, q \in Nat, b \in Seq(Bytes) :
          q = at[(m - 1) + 1] /\ FrameAt(input, at[m - 1], b, c, q)
    BY <2>1, NextFrame
  <2>. QED
    BY <2>1, <2>2 DEF FrameAt
<1>. QED
  BY <1>1, <1>2

LEMMA QuietBatch ==
  ASSUME NEW at \in [Nat -> Nat], BatchAt(at), TypeOK,
         UNCHANGED <<input, batch, pos, phase, length, ret, err>>,
         eof => eof' /\ avail' = avail
  PROVE  BatchAt(at)'
<1>1. ReturnedFrom(at)'
  BY DEF BatchAt, ReturnedFrom
<1>2. BetweenFrames(at) => BetweenFrames(at)'
  BY DEF BetweenFrames
<1>3. InFrame(at) => InFrame(at)'
  BY DEF InFrame
<1>4. EndedWhere'
  <2>1. (EmptyNext => EmptyNext') /\ (CutOff => CutOff')
    BY DEF EmptyNext, CutOff
  <2>. QED
    BY <2>1 DEF BatchAt, EndedWhere, CutOff
<1>. QED
  BY <1>1, <1>2, <1>3, <1>4 DEF BatchAt

(* Facts about positions. *)
LEMMA OnlyOne ==
  \A p \in Nat, a \in Nat : \A c \in (p + 1)..a : p = a - 1 => c = a /\ c - 1 = p
OBVIOUS

LEMMA NotBefore ==
  \A p \in Nat, a \in Nat, d \in Nat : \A c \in (p + 1)..a :
    /\ ~(d <= c) => c \in (p + 1)..(d - 1)
    /\ (p < d /\ d <= c) => d \in (p + 1)..a
    /\ (d <= c /\ c <= d) => c = d
OBVIOUS

LEMMA Beyond ==
  \A p \in Nat, a \in Nat, c \in Nat, n \in Nat, l \in Nat, q \in Nat :
    (p < c /\ c \notin (p + 1)..a /\ q = c + l + 1 /\ q <= n) => a < n
OBVIOUS

LEMMA LengthInBatch ==
  ASSUME NEW at \in [Nat -> Nat], IsLayout(batch, input, at), BatchAt(at), TypeOK,
         err = "none", phase = "length", ReadLength, UNCHANGED <<input, batch, avail, eof>>
  PROVE  BatchAt(at)'
<1>1. PICK m \in Nat : m = Len(ret)
  BY BatchTypes
<1>0. /\ Len(input) \in Nat /\ Len(batch) \in Nat
      /\ avail \in Nat /\ avail <= Len(input) /\ pos \in Nat /\ pos <= avail
  BY BatchTypes
<1>2. /\ m <= Len(batch) /\ at[m] \in Nat /\ at[m] <= Len(input)
      /\ \/ pos = at[m]
         \/ eof /\ m > 0 /\ avail = at[m] - 1 /\ pos = avail - 1
  BY <1>1, EndOfFrame DEF BatchAt, ReturnedFrom, BetweenFrames
<1>3. ret' = ret
  BY DEF ReadLength, Fail
<1>4. ReturnedFrom(at)'
  BY <1>3 DEF BatchAt, ReturnedFrom
<1>5. CASE Colons = {} /\ eof /\ pos' = avail /\ Fail("eof")
  <2>1. m = Len(batch) \/ avail < Len(input)
    <3>1. CASE avail = at[m] - 1
      BY <1>0, <1>2, <3>1
    <3>2. SUFFICES ASSUME pos = at[m], m # Len(batch) PROVE avail < Len(input)
      BY <1>2, <3>1, Zenon
    <3>3. m < Len(batch)
      BY <1>0, <1>2, <3>2
    <3>4. PICK c \in Nat, q \in Nat, b \in Seq(Bytes) : FrameAt(input, at[m], b, c, q)
      BY <3>3, NextFrame
    <3>5. /\ input[c] = Colon /\ pos < c /\ q = c + Len(b) + 1 /\ q <= Len(input)
          /\ Len(b) \in Nat
      BY <3>2, <3>4, LenProperties, Zenon DEF FrameAt
    <3>6. c \notin (pos + 1)..avail
      BY <1>5, <3>5 DEF Colons
    <3>. QED
      BY <1>0, <3>5, <3>6, Beyond, Zenon
  <2>2. err' = "eof" /\ eof' = eof /\ avail' = avail /\ input' = input /\ batch' = batch
    BY <1>5 DEF Fail
  <2>3. EndedWhere'
    BY <1>1, <1>3, <1>5, <2>1, <2>2 DEF EndedWhere
  <2>. QED
    BY <1>4, <2>2, <2>3 DEF BatchAt
<1>6. ASSUME NEW c \in Colons, NEW h \in Seq(Bytes),
             \A j \in Colons : c <= j,
             h = SubSeq(input, pos + 1, c - 1), pos' = c,
             \/ /\ IsLength(h) /\ length' = Value(h) /\ phase' = "payload"
                /\ UNCHANGED <<ret, err>>
             \/ ~IsLength(h) /\ Fail("wrong")
      PROVE  BatchAt(at)'
  <2>1. /\ c \in (pos + 1)..avail /\ input[c] = Colon
        /\ pos \in Nat /\ avail \in Nat /\ avail <= Len(input) /\ Len(input) \in Nat
    BY BatchTypes DEF Colons
  <2>2. CASE pos = at[m]
    <3>1. m < Len(batch)
      <4>1. SUFFICES ASSUME m = Len(batch) PROVE FALSE
        BY <1>2, BatchTypes
      <4>2. pos = Len(input)
        BY <2>2, <4>1 DEF IsLayout
      <4>. QED
        BY <2>1, <4>2
    <3>2. PICK d \in Nat, q \in Nat, b \in Seq(Bytes) :
            q = at[m + 1] /\ b = batch[m + 1] /\ FrameAt(input, at[m], b, d, q)
      BY <3>1, NextFrame
    <3>3. /\ pos < d /\ q = d + Len(b) + 1 /\ Len(b) \in Nat
          /\ \A i \in (pos + 1)..(d - 1) : input[i] # Colon
          /\ input[d] = Colon
      BY <2>2, <3>2, LenProperties DEF FrameAt
    <3>4. c = d
      <4>1. d <= c
        BY <2>1, <3>3, NotBefore, Zenon
      <4>2. d \in Colons
        <5>1. d \in (pos + 1)..avail
          BY <2>1, <3>3, <4>1, NotBefore, Zenon
        <5>. QED
          BY <3>3, <5>1 DEF Colons
      <4>3. c <= d
        BY <1>6, <4>2, Zenon
      <4>. QED
        BY <2>1, <4>1, <4>3, NotBefore, Zenon
    <3>5. (IsLength(h) <=> b # <<>>) /\ Value(h) = Len(b)
      BY <1>6, <2>2, <3>2, <3>4, Zenon DEF FrameAt
    <3>6. CASE /\ IsLength(h) /\ length' = Value(h) /\ phase' = "payload"
               /\ UNCHANGED <<ret, err>>
      <4>1. /\ Len(ret') < Len(batch') /\ batch'[Len(ret') + 1] # <<>>
            /\ length' = Len(batch'[Len(ret') + 1])
        BY <1>1, <3>1, <3>2, <3>5, <3>6
      <4>2. pos' + length' = at[Len(ret') + 1] - 1
        <5>1. pos' = d /\ length' = Len(b) /\ at[Len(ret') + 1] = q
          BY <1>1, <1>6, <3>2, <3>4, <3>5, <3>6
        <5>2. d + Len(b) = q - 1
          BY <3>3
        <5>. QED
          BY <5>1, <5>2, Zenon
      <4>3. InFrame(at)'
        BY <3>6, <4>1, <4>2 DEF InFrame
      <4>4. EndedWhere'
        BY <3>6 DEF EndedWhere
      <4>. QED
        BY <1>4, <3>6, <4>3, <4>4 DEF BatchAt
    <3>7. CASE ~IsLength(h) /\ Fail("wrong")
      <4>1. EmptyNext'
        BY <1>1, <1>3, <3>1, <3>2, <3>5, <3>7 DEF EmptyNext
      <4>2. err' = "wrong"
        BY <3>7 DEF Fail
      <4>. QED
        BY <1>4, <4>1, <4>2 DEF BatchAt, EndedWhere
    <3>. QED
      BY <1>6, <3>6, <3>7
  <2>3. CASE eof /\ m > 0 /\ avail = at[m] - 1 /\ pos = avail - 1
    <3>1. c - 1 = pos /\ avail < Len(input)
      <4>1. avail < Len(input)
        BY <1>2, <2>1, <2>3
      <4>2. c = avail /\ c - 1 = pos
        BY <2>1, <2>3, OnlyOne, Zenon
      <4>. QED
        BY <4>1, <4>2
    <3>2. ~IsLength(h)
      BY <1>6, <2>1, <3>1, NoHeader
    <3>3. err' = "wrong" /\ CutOff'
      BY <1>6, <2>3, <3>1, <3>2 DEF Fail, CutOff
    <3>. QED
      BY <1>4, <3>3 DEF BatchAt, EndedWhere
  <2>. QED
    BY <1>2, <2>2, <2>3
<1>. QED
  BY <1>5, <1>6, LengthRead

LEMMA CutShort ==
  \A p \in Nat, a \in Nat, l \in Nat, q \in Nat, n \in Nat :
    (p <= a /\ a - p < l /\ p + l = q - 1 /\ q <= n) => a < n
OBVIOUS

LEMMA PayloadInBatch ==
  ASSUME NEW at \in [Nat -> Nat], IsLayout(batch, input, at), BatchAt(at), TypeOK,
         err = "none", ReadPayload, UNCHANGED <<input, batch, avail, eof>>
  PROVE  BatchAt(at)'
<1>1. PICK m \in Nat : m = Len(ret)
  BY BatchTypes
<1>2. /\ Len(input) \in Nat /\ avail \in Nat /\ pos \in Nat /\ pos <= avail /\ length \in Nat
      /\ Len(batch) \in Nat
  BY BatchTypes
<1>3. phase = "payload" /\ ret' = ret
  BY DEF ReadPayload, Fail
<1>4. /\ m < Len(batch) /\ batch[m + 1] # <<>>
      /\ length = Len(batch[m + 1]) /\ pos + length = at[m + 1] - 1
  BY <1>1, <1>3 DEF BatchAt, InFrame
<1>5. at[m + 1] \in Nat /\ at[m + 1] <= Len(input)
  <2>1. m + 1 \in Nat /\ m + 1 <= Len(batch)
    BY <1>2, <1>4
  <2>. QED
    BY <2>1, EndOfFrame
<1>6. ReturnedFrom(at)'
  BY <1>3 DEF BatchAt, ReturnedFrom
<1>7. CASE avail - pos >= length /\ pos' = pos + length /\ phase' = "delim"
           /\ UNCHANGED <<length, ret, err>>
  <2>1. pos' + 0 = pos + length
    BY <1>2, <1>7
  <2>2. InFrame(at)'
    BY <1>1, <1>4, <1>7, <2>1 DEF InFrame
  <2>3. EndedWhere' /\ phase' # "length" /\ err' = "none"
    BY <1>7 DEF EndedWhere
  <2>. QED
    BY <1>6, <2>2, <2>3 DEF BatchAt
<1>8. CASE avail - pos < length /\ eof /\ Fail(IF avail = pos THEN "eof" ELSE "unexpected")
  <2>1. avail < Len(input)
    BY <1>2, <1>4, <1>5, <1>8, CutShort, Zenon
  <2>2. CutOff' /\ eof' /\ avail' < Len(input')
    BY <1>8, <2>1 DEF CutOff
  <2>3. err' \in {"eof", "unexpected"}
    BY <1>8 DEF Fail
  <2>. QED
    BY <1>6, <2>2, <2>3 DEF BatchAt, EndedWhere
<1>. QED
  BY <1>7, <1>8 DEF ReadPayload

LEMMA NextOf ==
  \A m \in Nat, n \in Nat :
    m < n => /\ m + 1 <= n /\ m + 1 \in 1..n
             /\ \A i \in 1..(m + 1) : i \in 1..m \/ i = m + 1
OBVIOUS

LEMMA DelimInBatch ==
  ASSUME NEW at \in [Nat -> Nat], IsLayout(batch, input, at), BatchAt(at), TypeOK,
         err = "none", ReadDelim, UNCHANGED <<input, batch, avail, eof>>
  PROVE  BatchAt(at)'
<1>. DEFINE r == [from |-> pos - length, to |-> pos]
<1>1. PICK m \in Nat : m = Len(ret)
  BY BatchTypes
<1>2. /\ Len(input) \in Nat /\ avail \in Nat /\ pos \in Nat /\ pos <= avail /\ length \in Nat
      /\ Len(batch) \in Nat
  BY BatchTypes
<1>3. /\ phase = "delim" /\ phase' = "length" /\ err' = "none" /\ ret' = Append(ret, r)
      /\ \/ avail > pos /\ pos' = IF input[pos + 1] = Comma THEN pos + 1 ELSE pos
         \/ avail = pos /\ eof /\ pos' = pos - 1
  BY DEF ReadDelim, ReturnPayload
<1>4. /\ m < Len(batch) /\ batch[m + 1] # <<>>
      /\ length = Len(batch[m + 1]) /\ pos + 0 = at[m + 1] - 1
  BY <1>1, <1>3 DEF BatchAt, InFrame
<1>5. PICK q \in Nat : q = at[m + 1] /\ q <= Len(input) /\ input[q] = Comma
  <2>1. PICK c \in Nat, q \in Nat, b \in Seq(Bytes) :
          /\ q = at[m + 1] /\ b = batch[m + 1]
          /\ FrameAt(input, at[m], b, c, q)
    BY <1>4, NextFrame
  <2>2. q <= Len(input) /\ input[q] = Comma
    BY <2>1 DEF FrameAt
  <2>. QED
    BY <2>1, <2>2
<1>6. pos = q - 1 /\ pos + 1 = q
  BY <1>2, <1>4, <1>5
<1>7. r.to = pos /\ r.from + length = pos
  BY <1>2
<1>. HIDE DEF r
<1>8. Len(ret') = m + 1 /\ ret'[m + 1] = r /\ \A i \in 1..m : ret'[i] = ret[i]
  <2>. DEFINE R == [from : 0..Len(input), to : 0..Len(input)] \cup {r}
  <2>1. ret \in Seq([from : 0..Len(input), to : 0..Len(input)])
    BY DEF TypeOK
  <2>2. [from : 0..Len(input), to : 0..Len(input)] \subseteq R /\ r \in R
    OBVIOUS
  <2>. HIDE DEF R
  <2>3. ret \in Seq(R)
    BY <2>1, <2>2, SeqMonotonic
  <2>. QED
    BY <1>1, <1>3, <2>2, <2>3, AppendProperties
<1>9. ReturnedFrom(at)'
  <2>1. /\ m + 1 <= Len(batch)
        /\ \A i \in 1..(m + 1) : i \in 1..m \/ i = m + 1
    BY <1>2, <1>4, NextOf, Zenon
  <2>2. ASSUME NEW i \in 1..(m + 1)
        PROVE  /\ batch[i] # <<>>
               /\ ret'[i].to = at[i] - 1
               /\ ret'[i].from + Len(batch[i]) = ret'[i].to
    <3>1. CASE i \in 1..m
      BY <1>1, <1>8, <3>1 DEF BatchAt, ReturnedFrom
    <3>2. CASE i = m + 1
      BY <1>4, <1>5, <1>6, <1>7, <1>8, <3>2, Zenon
    <3>. QED
      BY <2>1, <3>1, <3>2
  <2>. QED
    BY <1>8, <2>1, <2>2 DEF ReturnedFrom
<1>10. BetweenFrames(at)'
  <2>1. CASE avail > pos /\ pos' = IF input[pos + 1] = Comma THEN pos + 1 ELSE pos
    <3>1. pos' = at[Len(ret')]
      BY <1>5, <1>6, <1>8, <2>1, Zenon
    <3>. QED
      BY <3>1 DEF BetweenFrames
  <2>2. CASE avail = pos /\ eof /\ pos' = pos - 1
    <3>1. m + 1 > 0
      OBVIOUS
    <3>2. eof' /\ Len(ret') > 0 /\ avail' = at[Len(ret')] - 1 /\ pos' = avail' - 1
      BY <1>5, <1>6, <1>8, <2>2, <3>1, Zenon
    <3>. QED
      BY <3>2 DEF BetweenFrames
  <2>. QED
    BY <1>3, <2>1, <2>2
<1>. QED
  BY <1>3, <1>9, <1>10 DEF BatchAt, EndedWhere

LEMMA InitBatch ==
  ASSUME Init
  PROVE  BatchInv
<1>1. SUFFICES ASSUME batch # <<>>
               PROVE  \E at \in [Nat -> Nat] : IsLayout(batch, input, at) /\ BatchAt(at)
  BY DEF BatchInv
<1>2. batch \in Seq(Seq(Bytes)) /\ input = Encode(batch)
  BY <1>1, InitTypes DEF Init
<1>3. PICK at \in [Nat -> Nat] : IsLayout(batch, input, at)
  <2>1. \A i \in 1..Len(batch) : Len(batch[i]) < Limit
    BY <1>1, <1>2, LimitAssumption, LenProperties DEF Init
  <2>. QED
    BY <1>2, <2>1, Layout
<1>4. /\ ret = <<>> /\ Len(ret) = 0 /\ Len(batch) \in Nat
      /\ pos = 0 /\ phase = "length" /\ err = "none"
  BY <1>2, EmptySeq, LenProperties DEF Init
<1>5. ReturnedFrom(at)
  BY <1>4 DEF ReturnedFrom
<1>6. BetweenFrames(at)
  BY <1>3, <1>4 DEF BetweenFrames, IsLayout
<1>7. BatchAt(at)
  BY <1>4, <1>5, <1>6 DEF BatchAt, EndedWhere
<1>. QED
  BY <1>3, <1>7

LEMMA StepBatch ==
  ASSUME TypeOK, BatchInv, [Next]_vars
  PROVE  BatchInv'
<1>1. input' = input /\ batch' = batch
  BY DEF Next, Arrive, PeerCloses, Read, Ended, vars
<1>2. SUFFICES ASSUME batch # <<>>
               PROVE  \E at \in [Nat -> Nat] : IsLayout(batch, input, at) /\ BatchAt(at)'
  BY <1>1 DEF BatchInv
<1>3. PICK at \in [Nat -> Nat] : IsLayout(batch, input, at) /\ BatchAt(at)
  BY <1>2 DEF BatchInv
<1>4. CASE Arrive
  BY <1>3, <1>4, QuietBatch DEF Arrive
<1>5. CASE PeerCloses
  BY <1>3, <1>5, QuietBatch DEF PeerCloses
<1>6. CASE Read
  BY <1>3, <1>6, LengthInBatch, PayloadInBatch, DelimInBatch DEF Read, ReadLength
<1>7. CASE UNCHANGED vars
  BY <1>3, <1>7, QuietBatch DEF vars
<1>8. CASE Ended
  BY <1>7, <1>8 DEF Ended
<1>. QED
  BY <1>4, <1>5, <1>6, <1>7, <1>8 DEF Next

(* The same for the payloads that encode was given.                        *)
THEOREM BatchInductive == Spec => [](TypeOK /\ BatchInv)
<1>1. Init => TypeOK /\ BatchInv
  BY InitKeeps, InitBatch DEF IInv
<1>2. TypeOK /\ BatchInv /\ IInv /\ [Next]_vars => (TypeOK /\ BatchInv)'
  BY StepKeeps, StepBatch DEF IInv
<1>. QED
  BY <1>1, <1>2, Inductive, PTL DEF Spec

LEMMA StartOfPayload ==
  \A n \in Nat, c \in Nat, l \in Nat, q \in Nat :
    \A f \in 0..n : (f + l = q - 1 /\ q = c + l + 1) => f = c
OBVIOUS

LEMMA ReturnedIs ==
  ASSUME TypeOK, NEW at \in [Nat -> Nat], IsLayout(batch, input, at), ReturnedFrom(at)
  PROVE  /\ Returned \in Seq(Seq(Bytes)) /\ Len(Returned) = Len(ret) /\ Len(ret) <= Len(batch)
         /\ \A i \in 1..Len(ret) : Returned[i] = batch[i] /\ batch[i] # <<>>
<1>1. PICK n \in Nat : n = Len(ret)
  BY BatchTypes
<1>2. /\ DOMAIN ret = 1..n /\ n <= Len(batch) /\ Len(batch) \in Nat
      /\ \A i \in 1..n : i \in 1..Len(batch)
  BY <1>1, LenProperties, BatchTypes DEF TypeOK, ReturnedFrom
<1>3. ASSUME NEW i \in 1..n
      PROVE  SubSeq(input, ret[i].from + 1, ret[i].to) = batch[i]
  <2>1. PICK c \in Nat : FrameAt(input, at[i - 1], batch[i], c, at[i])
    BY <1>2 DEF IsLayout
  <2>2. /\ at[i] = c + Len(batch[i]) + 1 /\ Len(batch[i]) \in Nat
        /\ SubSeq(input, c + 1, at[i] - 1) = batch[i]
    BY <1>2, <2>1, BatchTypes DEF FrameAt
  <2>3. ret[i].to = at[i] - 1 /\ ret[i].from + Len(batch[i]) = ret[i].to
    BY <1>1 DEF ReturnedFrom
  <2>4. ret[i].from \in 0..Len(input)
    <3>. DEFINE R == [from : 0..Len(input), to : 0..Len(input)]
    <3>1. ret \in Seq(R)
      BY DEF TypeOK
    <3>2. ret[i] \in R
      <4>. HIDE DEF R
      <4>. QED
        BY <1>1, <3>1, ElementOfSeq
    <3>. QED
      BY <3>2
  <2>5. ret[i].from = c
    <3>1. at[i] \in Nat /\ Len(input) \in Nat
      <4>1. i \in Nat
        BY <1>1
      <4>. QED
        BY <4>1, BatchTypes
    <3>2. ret[i].from + Len(batch[i]) = at[i] - 1
      BY <2>3
    <3>. QED
      BY <2>2, <2>4, <3>1, <3>2, StartOfPayload, Zenon
  <2>. QED
    BY <2>2, <2>3, <2>5, Zenon
<1>4. PICK s : s = Returned
  OBVIOUS
<1>5. s = [i \in 1..n |-> SubSeq(input, ret[i].from + 1, ret[i].to)]
  BY <1>2, <1>4, Zenon DEF Returned
<1>6. \A i \in 1..n : s[i] = batch[i]
  BY <1>3, <1>5
<1>7. s \in Seq(Seq(Bytes)) /\ Len(s) = n
  <2>. DEFINE Q == Seq(Bytes)
  <2>1. \A i \in 1..n : s[i] \in Q
    BY <1>2, <1>6, BatchTypes
  <2>. HIDE DEF Q
  <2>2. s = [i \in 1..n |-> s[i]]
    BY <1>5
  <2>3. s \in [1..n -> Q]
    BY <2>1, <2>2
  <2>4. s \in Seq(Q) /\ Len(s) = n
    BY <2>3, FunctionIsSeq
  <2>. QED
    BY <2>4, Zenon DEF Q
<1>8. \A i \in 1..n : batch[i] # <<>>
  BY <1>1 DEF ReturnedFrom
<1>. QED
  BY <1>1, <1>2, <1>4, <1>6, <1>7, <1>8, Zenon

(* Whatever payloads are sent, however their bytes arrive and wherever the *)
(* connection ends: what readNetstring returns is a prefix of them.        *)
THEOREM NothingMadeUp == Spec => []OnlyWhatWasSent
<1>1. TypeOK /\ BatchInv => OnlyWhatWasSent
  <2>1. SUFFICES ASSUME TypeOK, BatchInv, batch # <<>>
                 PROVE  IsPrefix(Returned, batch)
    BY DEF OnlyWhatWasSent
  <2>2. PICK at \in [Nat -> Nat] : IsLayout(batch, input, at) /\ ReturnedFrom(at)
    BY <2>1 DEF BatchInv, BatchAt
  <2>3. PICK s : s = Returned
    OBVIOUS
  <2>4. /\ s \in Seq(Seq(Bytes)) /\ Len(s) <= Len(batch)
        /\ \A i \in 1..Len(s) : s[i] = batch[i]
    BY <2>1, <2>2, <2>3, ReturnedIs
  <2>5. batch \in Seq(Seq(Bytes)) /\ Len(batch) \in Nat /\ Len(s) \in Nat
    BY <2>1, <2>4, LenProperties DEF TypeOK
  <2>6. SubSeq(s, 1, Len(s)) = s
    BY <2>4, SubSeqFull
  <2>7. SubSeq(batch, 0 + 1, 0 + Len(s)) = s
    <3>1. 0 + Len(s) <= Len(batch) /\ \A i \in 1..Len(s) : 0 + i = i
      BY <2>4, <2>5
    <3>2. \A i \in 1..Len(s) : batch[0 + i] = s[i]
      BY <2>4, <3>1
    <3>. QED
      BY <2>4, <2>5, <3>1, <3>2, SubSeqIs
  <2>8. 0 + 1 = 1 /\ 0 + Len(s) = Len(s)
    BY <2>5
  <2>. QED
    BY <2>3, <2>4, <2>6, <2>7, <2>8, Zenon DEF IsPrefix
<1>. QED
  BY <1>1, BatchInductive, PTL

(* Once all of it has arrived they have all been returned, unless one of   *)
(* them is empty: there it stops.                                          *)
THEOREM NothingLost == Spec => []AllThatWasSent
<1>1. TypeOK /\ BatchInv => AllThatWasSent
  <2>1. SUFFICES ASSUME TypeOK, BatchInv, batch # <<>>, err # "none", avail = Len(input)
                 PROVE  IF \E i \in DOMAIN batch : batch[i] = <<>>
                          THEN err = "wrong" /\ batch[Len(ret) + 1] = <<>>
                          ELSE Returned = batch
    BY DEF AllThatWasSent
  <2>2. PICK at \in [Nat -> Nat] : IsLayout(batch, input, at) /\ ReturnedFrom(at) /\ EndedWhere
    BY <2>1 DEF BatchInv, BatchAt
  <2>3. /\ batch \in Seq(Seq(Bytes)) /\ DOMAIN batch = 1..Len(batch)
        /\ Len(batch) \in Nat /\ Len(ret) \in Nat /\ Len(input) \in Nat
    BY <2>1, LenProperties, BatchTypes DEF TypeOK
  <2>4. ~CutOff
    BY <2>1, <2>3 DEF CutOff
  <2>5. (err = "wrong" /\ EmptyNext) \/ Len(ret) = Len(batch)
    <3>1. err \in {"eof", "unexpected", "wrong"} /\ ~(avail < Len(input))
      BY <2>1, <2>3 DEF TypeOK
    <3>. QED
      BY <2>2, <2>4, <3>1 DEF EndedWhere
  <2>6. PICK s : s = Returned
    OBVIOUS
  <2>7. /\ s \in Seq(Seq(Bytes)) /\ Len(s) = Len(ret)
        /\ \A i \in 1..Len(ret) : s[i] = batch[i] /\ batch[i] # <<>>
    BY <2>1, <2>2, <2>6, ReturnedIs
  <2>8. CASE err = "wrong" /\ EmptyNext
    <3>1. Len(ret) + 1 \in DOMAIN batch /\ batch[Len(ret) + 1] = <<>>
      BY <2>3, <2>8, NextOf, Zenon DEF EmptyNext
    <3>. QED
      BY <2>8, <3>1, Zenon
  <2>9. CASE Len(ret) = Len(batch)
    <3>1. ~ \E i \in DOMAIN batch : batch[i] = <<>>
      BY <2>3, <2>7, <2>9
    <3>2. s = batch
      BY <2>3, <2>7, <2>9, SeqEqual
    <3>. QED
      BY <2>6, <3>1, <3>2, Zenon
  <2>. QED
    BY <2>5, <2>8, <2>9
<1>. QED
  BY <1>1, BatchInductive, PTL
=============================================================================
