--------------------------- MODULE Images_proofs ----------------------------
(***************************************************************************)
(* The pictures: the GLZ dictionary, the display task that fills it, and   *)
(* the QUIC, LZ and GLZ decoders, for every number, size and content of    *)
(* the images, every table, field width, budget and damage.                *)
(*                                                                         *)
(* QUIC's codes.  A window begins with the codeword that is at the front   *)
(* of the stream (PeekShows), so its leading zeros tell the symbol's code  *)
(* from the escape, and the rest of the codeword the symbol                *)
(* (GolombComesBack); a run is ones, a zero and the rest (RunLayout).      *)
(* Words are read as the bits that were put in them (Holds), one by one,   *)
(* each by its weight (BitOf).                                             *)
(*                                                                         *)
(* QUIC.  Where a coder is (Placed) depends on nothing that it codes; what *)
(* adapts (Loose) is in range whatever symbol is read, so both hold of a   *)
(* decoder that reads garbage.  Without damage the encoder is one symbol   *)
(* ahead of the decoder or none, and the bits between them are that        *)
(* symbol's (Ahead): the decoder can but follow.                           *)
(*                                                                         *)
(* GLZ.  The dictionary's account is exact in the middle of an insertion   *)
(* too (Accounted), so each round of the eviction loop drops the oldest    *)
(* image and what is dropped was beyond the budget (LeftOf); images are    *)
(* numbered in the order they come, so what is beyond the budget once      *)
(* stays so (ChainHolds).                                                  *)
(*                                                                         *)
(* LZ and GLZ decoders.  A token is read as the length and distance it was *)
(* written for (MatchLayout, GlzMatchLayout) wherever it is cut off: what  *)
(* has come of it (Beginning) either lacks the end of a field, or says     *)
(* them.  So a decoder is where the encoder is, or one token behind        *)
(* (LzSent, GlzSent), and what it says of the token is what is wrong with  *)
(* it (Verdict).                                                           *)
(***************************************************************************)
EXTENDS QuicTrial, QuicCodec, DisplayImages, LzDecoder, GlzDecoder, FiniteSetTheorems,
        SequenceTheorems, WellFoundedInduction, TLAPS

-----------------------------------------------------------------------------
(***************************************************************************)
(* Numbers.                                                                *)
(***************************************************************************)

\* The remainder is the only one there is.
LEMMA Remainder ==
    ASSUME NEW b \in Nat \ {0}, NEW q \in Int, NEW r \in 0 .. b - 1, NEW a \in Int,
           a = b * q + r
    PROVE  a % b = r
  <1>1. a \div b \in Int /\ a % b \in 0 .. b - 1 /\ a = b * (a \div b) + (a % b)
    OBVIOUS
  <1> DEFINE p == a \div b
             s == a % b
  <1>2. p \in Int /\ s \in 0 .. b - 1 /\ a = b * p + s
    BY <1>1
  <1> SUFFICES s = r
    OBVIOUS
  <1> HIDE DEF p, s
  <1>3. b * (p - q) = r - s
    BY <1>2
  <1>4. CASE p - q >= 1
    <2>1. b * (p - q) >= b
      BY <1>2, <1>4
    <2> QED BY <1>2, <1>3, <2>1
  <1>5. CASE p - q <= -1
    <2>1. b * (p - q) <= -b
      BY <1>2, <1>5
    <2> QED BY <1>2, <1>3, <2>1
  <1>6. CASE p = q
    BY <1>2, <1>6
  <1> QED BY <1>2, <1>4, <1>5, <1>6

\* A difference added to what it was taken from.
LEMMA AddBack ==
    ASSUME NEW b \in Nat \ {0}, NEW v \in 0 .. b - 1, NEW p \in 0 .. b - 1
    PROVE  (v - p) % b \in 0 .. b - 1 /\ (((v - p) % b) + p) % b = v
  <1>1. CASE v >= p
    <2>1. v - p = b * 0 + (v - p) /\ v - p \in 0 .. b - 1 /\ v - p \in Int
      BY <1>1
    <2>2. (v - p) % b = v - p
      BY <2>1, Remainder
    <2>3. (v - p) + p = b * 0 + v /\ (v - p) + p \in Int
      OBVIOUS
    <2>4. ((v - p) + p) % b = v
      BY <2>3, Remainder
    <2> QED BY <2>1, <2>2, <2>4
  <1>2. CASE v < p
    <2>1. v - p = b * (-1) + (v - p + b) /\ v - p + b \in 0 .. b - 1 /\ v - p \in Int
      BY <1>2
    <2>2. (v - p) % b = v - p + b
      BY <2>1, Remainder
    <2>3. (v - p + b) + p = b * 1 + v /\ (v - p + b) + p \in Int
      OBVIOUS
    <2>4. ((v - p + b) + p) % b = v
      BY <2>3, Remainder
    <2> QED BY <2>1, <2>2, <2>4
  <1> QED BY <1>1, <1>2

\* There is a least among numbers.
LEMMA LeastNumber ==
    ASSUME NEW T, T \subseteq Nat, T # {}
    PROVE  \E x \in T : \A y \in T : x <= y
  <1>1. ASSUME NEW x \in Nat, NEW y \in Nat, x < y
        PROVE  <<x, y>> \in OpToRel(<, Nat)
    BY <1>1 DEF OpToRel
  <1>2. PICK x \in T : \A y \in T : ~ (<<y, x>> \in OpToRel(<, Nat))
    BY WFMin, NatLessThanWellFounded
  <1>3. ASSUME NEW y \in T, y < x PROVE FALSE
    BY <1>1, <1>2, <1>3
  <1> QED BY <1>3

\* The quotient, too, is the only one there is.
LEMMA Quotient ==
    ASSUME NEW b \in Nat \ {0}, NEW q \in Int, NEW r \in 0 .. b - 1, NEW a \in Int,
           a = b * q + r
    PROVE  a \div b = q
  <1>1. a \div b \in Int /\ a = b * (a \div b) + (a % b)
    OBVIOUS
  <1>2. a % b = r
    BY Remainder
  <1> DEFINE p == a \div b
  <1>3. p \in Int /\ b * (p - q) = 0
    BY <1>1, <1>2
  <1> SUFFICES p = q
    OBVIOUS
  <1> HIDE DEF p
  <1>4. CASE p - q >= 1
    <2>1. b * (p - q) >= b
      BY <1>3, <1>4
    <2> QED BY <1>3, <2>1
  <1>5. CASE p - q <= -1
    <2>1. b * (p - q) <= -b
      BY <1>3, <1>5
    <2> QED BY <1>3, <2>1
  <1> QED BY <1>3, <1>4, <1>5

\* A number is its quotient and its remainder.
LEMMA Parts ==
    ASSUME NEW b \in Nat \ {0}, NEW a \in Nat
    PROVE  a \div b \in Nat /\ a % b \in 0 .. b - 1 /\ a = (a \div b) * b + (a % b)
  OBVIOUS

\* Dividing twice.
LEMMA DivideTwice ==
    ASSUME NEW a \in Nat \ {0}, NEW b \in Nat \ {0}, NEW v \in Nat
    PROVE  a * b \in Nat \ {0} /\ (v \div a) \div b = v \div (a * b)
  <1>1. a * b \in Nat \ {0}
    OBVIOUS
  <1> DEFINE q == v \div (a * b)
             r == v % (a * b)
             s == r \div a
             t == r % a
  <1>2. q \in Nat /\ r \in 0 .. a * b - 1 /\ v = q * (a * b) + r
    BY <1>1, Parts
  <1> HIDE DEF q, r
  <1>3. r \in Nat /\ s \in Nat /\ t \in 0 .. a - 1 /\ r = s * a + t
    <2>1. r \in Nat
      BY <1>1, <1>2
    <2> QED BY <2>1, Parts
  <1> HIDE DEF s, t
  <1>4. s < b
    <2> SUFFICES ASSUME s >= b PROVE FALSE
      BY <1>3
    <2>1. s * a >= b * a
      BY <1>3
    <2> QED BY <1>2, <1>3, <2>1
  <1>5. v \div a = b * q + s
    <2>1. v = a * (b * q + s) + t
      BY <1>2, <1>3
    <2>2. b * q + s \in Int /\ v \in Int
      BY <1>2, <1>3
    <2> QED BY <1>3, <2>1, <2>2, Quotient
  <1>6. (b * q + s) \div b = q
    <2>1. q \in Int /\ s \in 0 .. b - 1 /\ b * q + s \in Int
      BY <1>2, <1>3, <1>4
    <2> QED BY <2>1, Quotient
  <1> QED BY <1>1, <1>5, <1>6 DEF q

\* A quotient that is below a bound.
LEMMA QuotientBelow ==
    ASSUME NEW a \in Nat \ {0}, NEW b \in Nat, NEW v \in Nat, v < a * b
    PROVE  v \div a < b
  <1>1. v \div a \in Nat /\ v % a \in 0 .. a - 1 /\ v = (v \div a) * a + (v % a)
    BY Parts
  <1> SUFFICES ASSUME v \div a >= b PROVE FALSE
    BY <1>1
  <1> DEFINE q == v \div a
             r == v % a
  <1>2. q \in Nat /\ r \in Nat /\ v = q * a + r /\ q >= b
    BY <1>1
  <1> HIDE DEF q, r
  <1>3. q * a >= b * a
    BY <1>2
  <1> QED BY <1>2, <1>3

\* What is below a number leaves nothing but itself when divided by it.
LEMMA BelowModulus ==
    ASSUME NEW b \in Nat \ {0}, NEW v \in 0 .. b - 1
    PROVE  v % b = v /\ v \div b = 0
  <1>1. 0 \in Int /\ v \in Int /\ v = b * 0 + v
    OBVIOUS
  <1> QED BY <1>1, Remainder, Quotient

-----------------------------------------------------------------------------
(***************************************************************************)
(* Powers of two, as many as a set has subsets.                            *)
(***************************************************************************)

\* The subsets of 1 .. n are 2^n.
LEMMA PowerCounts ==
    ASSUME NEW n \in Nat
    PROVE  /\ IsFiniteSet(SUBSET (1 .. n)) /\ Cardinality(SUBSET (1 .. n)) = 2^n
           /\ 2^n \in Nat
  <1>1. IsFiniteSet(1 .. n) /\ Cardinality(1 .. n) = n
    BY FS_Interval
  <1>2. IsFiniteSet(SUBSET (1 .. n)) /\ Cardinality(SUBSET (1 .. n)) = 2^Cardinality(1 .. n)
    BY <1>1, FS_SUBSET
  <1>3. Cardinality(SUBSET (1 .. n)) \in Nat
    BY <1>2, FS_CardinalityType
  <1> QED BY <1>1, <1>2, <1>3

\* Each further element doubles the subsets.
LEMMA PowerDoubles ==
    ASSUME NEW n \in Nat
    PROVE  2^(n + 1) = 2 * 2^n
  <1> DEFINE S == SUBSET (1 .. n)
             T == {A \cup {n + 1} : A \in S}
             f == [A \in S |-> A \cup {n + 1}]
  <1>1. SUBSET (1 .. n + 1) = S \cup T
    <2>1. ASSUME NEW A \in SUBSET (1 .. n + 1) PROVE A \in S \cup T
      <3>1. A \ {n + 1} \in S
        OBVIOUS
      <3>2. n + 1 \in A => A = (A \ {n + 1}) \cup {n + 1}
        OBVIOUS
      <3>3. n + 1 \notin A => A \in S
        OBVIOUS
      <3> QED BY <3>1, <3>2, <3>3
    <2>2. ASSUME NEW A \in S \cup T PROVE A \in SUBSET (1 .. n + 1)
      OBVIOUS
    <2> QED BY <2>1, <2>2
  <1>2. S \cap T = {}
    OBVIOUS
  <1>3. IsFiniteSet(S) /\ Cardinality(S) = 2^n /\ 2^n \in Nat
    BY PowerCounts
  <1>4. ExistsBijection(S, T)
    <2>1. f \in Bijection(S, T)
      <3>1. f \in [S -> T]
        OBVIOUS
      <3>2. \A A, B \in S : f[A] = f[B] => A = B
        <4> SUFFICES ASSUME NEW A \in S, NEW B \in S, A \cup {n + 1} = B \cup {n + 1}
                     PROVE  A = B
          OBVIOUS
        <4>1. n + 1 \notin A /\ n + 1 \notin B
          OBVIOUS
        <4> QED BY <4>1
      <3>3. \A t \in T : \E A \in S : f[A] = t
        OBVIOUS
      <3> QED BY <3>1, <3>2, <3>3 DEF Bijection, Injection, Surjection, IsInjective
    <2> QED BY <2>1 DEF ExistsBijection
  <1>5. IsFiniteSet(T) /\ Cardinality(T) = 2^n
    BY <1>3, <1>4, FS_Bijection
  <1>6. Cardinality(S \cup T) = 2^n + 2^n - 0
    <2>1. Cardinality(S \cup T) = Cardinality(S) + Cardinality(T) - Cardinality(S \cap T)
      BY <1>3, <1>5, FS_Union
    <2>2. Cardinality({}) = 0
      BY FS_EmptySet
    <2> QED BY <1>2, <1>3, <1>5, <2>1, <2>2
  <1>7. Cardinality(SUBSET (1 .. n + 1)) = 2^(n + 1)
    <2>1. n + 1 \in Nat
      OBVIOUS
    <2> QED BY <2>1, PowerCounts
  <1> DEFINE p == 2^n
  <1>8. p \in Nat /\ 2^(n + 1) = p + p - 0
    BY <1>1, <1>3, <1>6, <1>7
  <1> HIDE DEF p
  <1>9. 2^(n + 1) = 2 * p
    BY <1>8
  <1> QED BY <1>9 DEF p

\* No power of two is zero, and the next is the double.
LEMMA PowerFacts ==
    /\ 2^0 = 1
    /\ \A n \in Nat : 2^n \in Nat \ {0} /\ 2^(n + 1) = 2 * 2^n
  <1> DEFINE Zero == {n \in Nat : 2^n = 0}
  <1>1. 2^0 = 1
    OBVIOUS
  <1>2. Zero = {}
    <2> SUFFICES ASSUME Zero # {} PROVE FALSE
      OBVIOUS
    <2>1. PICK n \in Zero : \A m \in Zero : n <= m
      BY LeastNumber
    <2>2. n \in Nat /\ 2^n = 0
      OBVIOUS
    <2>3. n # 0
      <3> SUFFICES ASSUME n = 0 PROVE FALSE
        OBVIOUS
      <3>1. 2^n = 1
        BY <1>1, Zenon
      <3> QED BY <2>2, <3>1
    <2> DEFINE m == n - 1
    <2>4. m \in Nat /\ n = m + 1 /\ m \notin Zero
      BY <2>1, <2>2, <2>3
    <2> HIDE DEF m
    <2>5. 2^m \in Nat /\ 2^n = 2 * 2^m
      BY <2>4, PowerCounts, PowerDoubles
    <2> DEFINE p == 2^m
    <2>6. p \in Nat /\ p # 0 /\ 2 * p = 0
      BY <2>2, <2>4, <2>5
    <2> HIDE DEF p
    <2> QED BY <2>6
  <1>3. ASSUME NEW n \in Nat PROVE 2^n \in Nat \ {0} /\ 2^(n + 1) = 2 * 2^n
    BY <1>2, PowerCounts, PowerDoubles
  <1> QED BY <1>1, <1>3


\* A sum of exponents is a product of powers.
LEMMA PowerAdds ==
    ASSUME NEW m \in Nat, NEW n \in Nat
    PROVE  2^(m + n) = 2^m * 2^n
  <1> DEFINE P(k) == 2^k
             Wrong == {k \in Nat : P(m + k) # P(m) * P(k)}
  <1>1. P(0) = 1 /\ \A k \in Nat : P(k) \in Nat \ {0} /\ P(k + 1) = 2 * P(k)
    BY PowerFacts
  <1> HIDE DEF P
  <1>2. Wrong = {}
    <2> SUFFICES ASSUME Wrong # {} PROVE FALSE
      OBVIOUS
    <2>1. PICK k \in Wrong : \A j \in Wrong : k <= j
      BY LeastNumber
    <2>2. k \in Nat /\ P(m + k) # P(m) * P(k)
      OBVIOUS
    <2>3. k # 0
      <3>1. m + 0 = m /\ P(m) \in Nat
        BY <1>1
      <3>2. P(m + 0) = P(m) * P(0)
        BY <1>1, <3>1
      <3> QED BY <2>2, <3>2
    <2> DEFINE j == k - 1
    <2>4. j \in Nat /\ k = j + 1 /\ j \notin Wrong
      BY <2>1, <2>2, <2>3
    <2>5. P(m + j) = P(m) * P(j)
      BY <2>4
    <2> HIDE DEF j
    <2>6. m + k = (m + j) + 1 /\ m + j \in Nat
      BY <2>4
    <2>7. P(m + k) = 2 * P(m + j) /\ P(k) = 2 * P(j)
      BY <1>1, <2>4, <2>6
    <2>8. P(m) \in Nat /\ P(j) \in Nat
      BY <1>1, <2>4
    <2> QED BY <2>2, <2>5, <2>7, <2>8
  <1>3. n \notin Wrong
    BY <1>2
  <1>4. P(m + n) = P(m) * P(n)
    BY <1>3
  <1> QED BY <1>4 DEF P

\* The larger exponent has the larger power, a multiple of the smaller one.
LEMMA PowerGrows ==
    ASSUME NEW m \in Nat, NEW n \in Nat, m <= n
    PROVE  2^m <= 2^n /\ 2^n = 2^m * 2^(n - m) /\ (m < n => 2 * 2^m <= 2^n)
  <1> DEFINE P(k) == 2^k
             d == n - m
  <1>1. d \in Nat /\ m + d = n
    OBVIOUS
  <1>2. \A k \in Nat : P(k) \in Nat \ {0} /\ P(k + 1) = 2 * P(k)
    BY PowerFacts
  <1>3. P(m + d) = P(m) * P(d)
    BY <1>1, PowerAdds
  <1>4. m < n => d # 0
    OBVIOUS
  <1> HIDE DEF P, d
  <1>5. P(m) \in Nat \ {0} /\ P(d) \in Nat \ {0}
    BY <1>1, <1>2
  <1>6. P(m) <= P(m) * P(d)
    BY <1>5
  <1>7. d # 0 => 2 * P(m) <= P(m) * P(d)
    <2> SUFFICES ASSUME d # 0 PROVE 2 * P(m) <= P(m) * P(d)
      OBVIOUS
    <2>1. d - 1 \in Nat /\ d = (d - 1) + 1
      BY <1>1
    <2>2. P(d) = 2 * P(d - 1) /\ P(d - 1) \in Nat \ {0}
      BY <1>2, <2>1
    <2>3. P(d) >= 2
      BY <2>2
    <2> QED BY <1>5, <2>3
  <1>8. P(n) = P(m) * P(d) /\ P(m) <= P(n) /\ (m < n => 2 * P(m) <= P(n))
    BY <1>1, <1>3, <1>4, <1>6, <1>7
  <1> QED BY <1>8 DEF P, d

-----------------------------------------------------------------------------
(***************************************************************************)
(* Numbers that are read from addends, one after the other.                *)
(***************************************************************************)

\* The recursion has one solution.
LEMMA Accumulates ==
    ASSUME NEW factor \in Nat, NEW n \in Nat, NEW addends, \A k \in 1 .. n : addends[k] \in Nat
    PROVE  /\ Accumulate(factor, addends, 0) = 0
           /\ \A k \in 0 .. n : Accumulate(factor, addends, k) \in Nat
           /\ \A k \in 1 .. n : Accumulate(factor, addends, k)
                                  = factor * Accumulate(factor, addends, k - 1) + addends[k]
  <1> DEFINE Step(x, k) == factor * x + addends[k]
             Solves(g, m) == g = [k \in 0 .. m |-> IF k = 0 THEN 0 ELSE Step(g[k - 1], k)]
  <1>1. \A x \in Nat, k \in 1 .. n : Step(x, k) \in Nat
    OBVIOUS
  <1>2. \A m \in 0 .. n : Accumulate(factor, addends, m) = (CHOOSE g : Solves(g, m))[m]
    BY DEF Accumulate
  <1>3. \A x, k : Step(x, k) = factor * x + addends[k]
    OBVIOUS
  <1> HIDE DEF Step
  <1>4. ASSUME NEW m \in 0 .. n, NEW p \in 0 .. m, NEW g, NEW h, Solves(g, m), Solves(h, p)
        PROVE  \A k \in 0 .. p : g[k] = h[k]
    <2> DEFINE Wrong == {k \in 0 .. p : g[k] # h[k]}
    <2> SUFFICES ASSUME Wrong # {} PROVE FALSE
      OBVIOUS
    <2>1. PICK k \in Wrong : \A j \in Wrong : k <= j
      <3>1. Wrong \subseteq Nat
        OBVIOUS
      <3> QED BY <3>1, LeastNumber
    <2>2. k \in 0 .. p /\ g[k] # h[k] /\ k \in 0 .. m
      OBVIOUS
    <2>3. g[k] = (IF k = 0 THEN 0 ELSE Step(g[k - 1], k))
      BY <1>4, <2>2
    <2>4. h[k] = (IF k = 0 THEN 0 ELSE Step(h[k - 1], k))
      BY <1>4, <2>2
    <2>5. k # 0
      BY <2>2, <2>3, <2>4
    <2>6. k - 1 \in 0 .. p /\ k - 1 \notin Wrong
      BY <2>1, <2>2, <2>5
    <2>7. g[k - 1] = h[k - 1]
      BY <2>6
    <2> QED BY <2>2, <2>3, <2>4, <2>7
  <1>5. ASSUME NEW m \in 0 .. n PROVE \E g : Solves(g, m) /\ \A k \in 0 .. m : g[k] \in Nat
    <2> DEFINE Found(k) == \E g : Solves(g, k) /\ \A i \in 0 .. k : g[i] \in Nat
               Wrong == {k \in 0 .. n : ~Found(k)}
    <2> SUFFICES ASSUME Wrong # {} PROVE FALSE
      OBVIOUS
    <2>1. PICK k \in Wrong : \A j \in Wrong : k <= j
      <3>1. Wrong \subseteq Nat
        OBVIOUS
      <3> QED BY <3>1, LeastNumber
    <2>2. k \in 0 .. n /\ ~Found(k)
      OBVIOUS
    <2>3. CASE k = 0
      <3> DEFINE g == [i \in 0 .. 0 |-> 0]
      <3>1. \A i \in 0 .. 0 : i = 0
        OBVIOUS
      <3>2. Solves(g, 0) /\ \A i \in 0 .. 0 : g[i] \in Nat
        BY <3>1
      <3> QED BY <2>2, <2>3, <3>2
    <2>4. CASE k # 0
      <3> DEFINE p == k - 1
      <3>1. p \in 0 .. n /\ p \notin Wrong /\ k = p + 1
        BY <2>1, <2>2, <2>4
      <3>2. Found(p)
        BY <3>1
      <3>3. PICK h : Solves(h, p) /\ \A i \in 0 .. p : h[i] \in Nat
        BY <3>2
      <3> HIDE DEF p
      <3> DEFINE g == [i \in 0 .. k |-> IF i = k THEN Step(h[p], k) ELSE h[i]]
      <3>4. g[k] = Step(h[p], k) /\ \A i \in 0 .. p : g[i] = h[i] /\ i # k
        BY <2>2, <3>1
      <3>5. ASSUME NEW i \in 0 .. k
            PROVE  g[i] = (IF i = 0 THEN 0 ELSE Step(g[i - 1], i)) /\ g[i] \in Nat
        <4>1. CASE i = k
          <5>1. k # 0 /\ k - 1 = p /\ p \in 0 .. p /\ k \in 1 .. n
            BY <2>2, <2>4, <3>1
          <5>2. g[p] = h[p] /\ h[p] \in Nat
            BY <3>3, <3>4, <5>1
          <5> HIDE DEF g
          <5>3. Step(h[p], k) \in Nat
            BY <1>1, <5>1, <5>2
          <5> QED BY <3>4, <4>1, <5>1, <5>2, <5>3
        <4>2. CASE i # k
          <5>1. i \in 0 .. p
            BY <2>2, <3>1, <4>2
          <5>2. h[i] = (IF i = 0 THEN 0 ELSE Step(h[i - 1], i)) /\ h[i] \in Nat
            BY <3>3, <5>1
          <5>3. i # 0 => i - 1 \in 0 .. p
            BY <5>1, <3>1
          <5>4. g[i] = h[i] /\ (i # 0 => g[i - 1] = h[i - 1])
            BY <3>4, <5>1, <5>3
          <5> HIDE DEF g
          <5> QED BY <5>2, <5>4
        <4> QED BY <4>1, <4>2
      <3>6. g = [i \in 0 .. k |-> g[i]]
        OBVIOUS
      <3> HIDE DEF g
      <3>7. Solves(g, k)
        BY <3>5, <3>6
      <3> QED BY <2>2, <3>5, <3>7
    <2> QED BY <2>3, <2>4
  <1>6. ASSUME NEW m \in 0 .. n
        PROVE  Solves(CHOOSE g : Solves(g, m), m)
    BY <1>5
  <1> DEFINE sum(m) == CHOOSE g : Solves(g, m)
  <1>7. \A m \in 0 .. n : Solves(sum(m), m) /\ Accumulate(factor, addends, m) = sum(m)[m]
    BY <1>2, <1>6
  <1> HIDE DEF sum, Solves
  <1>8. ASSUME NEW m \in 0 .. n PROVE sum(m)[m] \in Nat
    <2>1. PICK g : Solves(g, m) /\ \A k \in 0 .. m : g[k] \in Nat
      BY <1>5
    <2>2. m \in 0 .. m
      OBVIOUS
    <2>3. sum(m)[m] = g[m]
      BY <1>4, <1>7, <2>1, <2>2
    <2> QED BY <2>1, <2>2, <2>3
  <1>9. sum(0)[0] = 0
    <2>1. Solves(sum(0), 0) /\ 0 \in 0 .. 0
      BY <1>7
    <2> QED BY <2>1 DEF Solves
  <1>10. ASSUME NEW m \in 1 .. n PROVE sum(m)[m] = Step(sum(m - 1)[m - 1], m)
    <2>1. m \in 0 .. n /\ m - 1 \in 0 .. n /\ m - 1 \in 0 .. m /\ m - 1 \in 0 .. m - 1 /\ m # 0 /\ m \in 0 .. m
      OBVIOUS
    <2>2. Solves(sum(m), m) /\ Solves(sum(m - 1), m - 1)
      BY <1>7, <2>1
    <2>3. sum(m)[m - 1] = sum(m - 1)[m - 1]
      BY <1>4, <2>1, <2>2
    <2>4. sum(m)[m] = Step(sum(m)[m - 1], m)
      BY <2>1, <2>2 DEF Solves
    <2> QED BY <2>3, <2>4
  <1>11. Accumulate(factor, addends, 0) = 0
    <2>1. 0 \in 0 .. n
      OBVIOUS
    <2> QED BY <1>7, <1>9, <2>1
  <1>12. ASSUME NEW k \in 1 .. n
         PROVE  Accumulate(factor, addends, k)
                  = factor * Accumulate(factor, addends, k - 1) + addends[k]
    <2>1. k \in 0 .. n /\ k - 1 \in 0 .. n
      OBVIOUS
    <2> QED BY <1>3, <1>7, <1>10, <2>1
  <1> QED BY <1>7, <1>8, <1>11, <1>12

-----------------------------------------------------------------------------
(***************************************************************************)
(* Words and their bits.                                                   *)
(***************************************************************************)
\* A bit of a stream.
Bit == {0, 1}

\* The first bits of a number are the number without its last ones.
LEMMA LeadingBits ==
    ASSUME NEW n \in Nat, NEW b, \A k \in 1 .. n : b[k] \in Bit
    PROVE  /\ \A k \in 0 .. n : Accumulate(2, b, k) \in 0 .. 2^k - 1
           /\ \A j \in 0 .. n : \A k \in j .. n :
                Accumulate(2, b, k) \div 2^(k - j) = Accumulate(2, b, j)
  <1> DEFINE A(k) == Accumulate(2, b, k)
             P(k) == 2^k
  <1>1. /\ A(0) = 0 /\ \A k \in 0 .. n : A(k) \in Nat
        /\ \A k \in 1 .. n : A(k) = 2 * A(k - 1) + b[k]
    BY Accumulates DEF Bit
  <1>2. P(0) = 1 /\ \A k \in Nat : P(k) \in Nat \ {0} /\ P(k + 1) = 2 * P(k)
    BY PowerFacts
  <1> HIDE DEF A, P
  <1>3. ASSUME NEW k \in 0 .. n PROVE A(k) \in 0 .. P(k) - 1
    <2> DEFINE Wrong == {j \in 0 .. n : A(j) \notin 0 .. P(j) - 1}
    <2> SUFFICES ASSUME Wrong # {} PROVE FALSE
      OBVIOUS
    <2>1. PICK j \in Wrong : \A i \in Wrong : j <= i
      <3>1. Wrong \subseteq Nat
        OBVIOUS
      <3> QED BY <3>1, LeastNumber
    <2>2. j \in 0 .. n /\ A(j) \notin 0 .. P(j) - 1
      OBVIOUS
    <2>3. j # 0
      BY <1>1, <1>2, <2>2
    <2> DEFINE i == j - 1
    <2>4. i \in 0 .. n /\ i \in Nat /\ j = i + 1 /\ i \notin Wrong /\ j \in 1 .. n
      BY <2>1, <2>2, <2>3
    <2>5. A(i) \in 0 .. P(i) - 1
      BY <2>4
    <2>6. A(j) = 2 * A(i) + b[j] /\ b[j] \in {0, 1}
      BY <1>1, <2>4 DEF Bit
    <2> HIDE DEF i
    <2>7. P(j) = 2 * P(i) /\ P(i) \in Nat
      BY <1>2, <2>4
    <2> QED BY <2>2, <2>5, <2>6, <2>7
  <1>4. ASSUME NEW j \in 0 .. n, NEW k \in j .. n PROVE A(k) \div P(k - j) = A(j)
    <2> DEFINE Wrong == {i \in j .. n : A(i) \div P(i - j) # A(j)}
    <2> SUFFICES ASSUME Wrong # {} PROVE FALSE
      OBVIOUS
    <2>1. PICK i \in Wrong : \A h \in Wrong : i <= h
      <3>1. Wrong \subseteq Nat
        OBVIOUS
      <3> QED BY <3>1, LeastNumber
    <2>2. i \in j .. n /\ A(i) \div P(i - j) # A(j)
      OBVIOUS
    <2>3. i # j
      <3> SUFFICES ASSUME i = j PROVE FALSE
        OBVIOUS
      <3>1. P(i - j) = 1 /\ A(i) \in Nat
        BY <1>1, <1>2, <2>2
      <3> QED BY <2>2, <3>1
    <2> DEFINE h == i - 1
    <2>4. h \in j .. n /\ i = h + 1 /\ h \notin Wrong /\ i \in 1 .. n /\ h - j \in Nat /\ h \in 0 .. n
      BY <2>1, <2>2, <2>3
    <2>5. A(h) \div P(h - j) = A(j)
      BY <2>4
    <2>6. A(i) = 2 * A(h) + b[i] /\ b[i] \in {0, 1}
      BY <1>1, <2>4 DEF Bit
    <2> HIDE DEF h
    <2>7. P(i - j) = 2 * P(h - j) /\ P(h - j) \in Nat \ {0}
      <3>1. i - j = (h - j) + 1
        BY <2>4
      <3> QED BY <1>2, <2>4, <3>1
    <2>8. A(i) \div 2 = A(h) /\ A(i) \in Nat
      BY <1>1, <2>4, <2>6
    <2>9. (A(i) \div 2) \div P(h - j) = A(i) \div (2 * P(h - j))
      BY <2>7, <2>8, DivideTwice
    <2> QED BY <2>2, <2>5, <2>7, <2>8, <2>9
  <1> QED BY <1>3, <1>4 DEF A, P

\* The bits of a word are bits, and make the word again.
LEMMA BitsOfAWord ==
    ASSUME NEW len \in Nat, NEW word \in 0 .. 2^len - 1
    PROVE  /\ ToBits(word, len) \in Seq(Bit) /\ Len(ToBits(word, len)) = len
           /\ \A k \in 1 .. len : ToBits(word, len)[k] = (word \div 2^(len - k)) % 2
           /\ \A b : (\A k \in 1 .. len : b[k] = ToBits(word, len)[k])
                        => Accumulate(2, b, len) = word
  <1> DEFINE P(k) == 2^k
             t == ToBits(word, len)
  <1>1. P(0) = 1 /\ \A k \in Nat : P(k) \in Nat \ {0} /\ P(k + 1) = 2 * P(k)
    BY PowerFacts
  <1>2. t = [k \in 1 .. len |-> (word \div P(len - k)) % 2] /\ word \in 0 .. P(len) - 1
    BY DEF ToBits
  <1> HIDE DEF P, t
  <1>3. ASSUME NEW k \in 0 .. len PROVE word \div P(len - k) \in Nat /\ P(len - k) \in Nat \ {0}
    <2>1. len - k \in Nat
      OBVIOUS
    <2>2. P(len - k) \in Nat \ {0} /\ P(len) \in Nat
      BY <1>1, <2>1
    <2>3. word \in Nat
      BY <1>2, <2>2
    <2> DEFINE p == P(len - k)
    <2>4. p \in Nat \ {0}
      BY <2>2
    <2> HIDE DEF p
    <2>5. word \div p \in Nat
      BY <2>3, <2>4
    <2> QED BY <2>2, <2>5 DEF p
  <1>4. ASSUME NEW k \in 1 .. len PROVE t[k] = (word \div P(len - k)) % 2 /\ t[k] \in Bit
    <2>1. t[k] = (word \div P(len - k)) % 2
      BY <1>2
    <2> DEFINE q == word \div P(len - k)
    <2>2. q \in Nat
      BY <1>3
    <2> HIDE DEF q
    <2>3. q % 2 \in {0, 1}
      BY <2>2
    <2> QED BY <2>1, <2>3 DEF q, Bit
  <1>5. t \in Seq(Bit) /\ Len(t) = len
    <2>1. t = [k \in 1 .. len |-> t[k]]
      BY <1>2
    <2> QED BY <1>4, <2>1
  <1>6. ASSUME NEW b, \A k \in 1 .. len : b[k] = t[k]
        PROVE  Accumulate(2, b, len) = word
    <2> DEFINE A(k) == Accumulate(2, b, k)
               Wrong == {k \in 0 .. len : A(k) # word \div P(len - k)}
    <2>1. /\ A(0) = 0 /\ \A k \in 0 .. len : A(k) \in Nat
          /\ \A k \in 1 .. len : A(k) = 2 * A(k - 1) + b[k]
      <3>1. \A k \in 1 .. len : b[k] \in Nat
        BY <1>4, <1>6 DEF Bit
      <3> QED BY <3>1, Accumulates
    <2> HIDE DEF A
    <2>2. Wrong = {}
      <3> SUFFICES ASSUME Wrong # {} PROVE FALSE
        OBVIOUS
      <3>1. PICK k \in Wrong : \A j \in Wrong : k <= j
        <4>1. Wrong \subseteq Nat
          OBVIOUS
        <4> QED BY <4>1, LeastNumber
      <3>2. k \in 0 .. len /\ A(k) # word \div P(len - k)
        OBVIOUS
      <3>3. k # 0
        <4>1. word \div P(len) = 0
          BY <1>1, <1>2, BelowModulus
        <4>2. len - 0 = len
          OBVIOUS
        <4> QED BY <2>1, <3>2, <4>1, <4>2
      <3> DEFINE j == k - 1
      <3>4. j \in 0 .. len /\ k \in 1 .. len /\ k = j + 1 /\ j \notin Wrong
        BY <3>1, <3>2, <3>3
      <3>5. A(j) = word \div P(len - j)
        BY <3>4
      <3>6. A(k) = 2 * A(j) + t[k]
        BY <1>6, <2>1, <3>4
      <3> HIDE DEF j
      <3> DEFINE q == word \div P(len - k)
      <3>7. q \in Nat /\ t[k] = q % 2
        BY <1>3, <1>4, <3>4
      <3>8. P(len - j) = P(len - k) * 2 /\ P(len - k) \in Nat \ {0}
        <4>1. len - j = (len - k) + 1 /\ len - k \in Nat
          BY <3>4
        <4> QED BY <1>1, <4>1
      <3>9. word \div P(len - j) = q \div 2
        <4>1. word \in Nat /\ 2 \in Nat \ {0}
          BY <1>2
        <4> QED BY <3>8, <4>1, DivideTwice
      <3> HIDE DEF q
      <3>10. 2 * (q \div 2) + (q % 2) = q
        BY <3>7
      <3>11. A(k) = 2 * (q \div 2) + (q % 2)
        BY <3>5, <3>6, <3>7, <3>9
      <3> QED BY <3>2, <3>10, <3>11 DEF q
    <2>3. A(len) = word \div P(len - len)
      <3>1. len \in 0 .. len /\ len \notin Wrong
        BY <2>2
      <3> QED BY <3>1
    <2>4. word \div P(len - len) = word
      <3>1. len - len = 0 /\ word \in Nat
        BY <1>2
      <3>2. word \div 1 = word
        BY <3>1
      <3> QED BY <1>1, <3>1, <3>2
    <2> QED BY <2>3, <2>4 DEF A
  <1> QED BY <1>4, <1>5, <1>6 DEF P, t

\* A window that is peeked at begins with what was written, whatever is behind it.
LEMMA PeekShows ==
    ASSUME NEW n \in Nat, NEW len \in 0 .. n, NEW word \in 0 .. 2^len - 1,
           NEW behind \in Seq(Bit)
    PROVE  /\ Peek(ToBits(word, len) \o behind, n) \in 0 .. 2^n - 1
           /\ Peek(ToBits(word, len) \o behind, n) \div 2^(n - len) = word
  <1> DEFINE s == ToBits(word, len) \o behind
             b == [k \in 1 .. n |-> IF k <= Len(s) THEN s[k] ELSE 0]
  <1>1. /\ ToBits(word, len) \in Seq(Bit) /\ Len(ToBits(word, len)) = len
        /\ \A c : (\A k \in 1 .. len : c[k] = ToBits(word, len)[k]) => Accumulate(2, c, len) = word
    BY BitsOfAWord
  <1>2. /\ s \in Seq(Bit) /\ Len(s) \in Nat /\ Len(s) >= len
        /\ \A k \in 1 .. len : s[k] = ToBits(word, len)[k]
    BY <1>1
  <1> HIDE DEF s
  <1>3. \A k \in 1 .. n : b[k] \in Bit
    BY <1>2 DEF Bit
  <1>4. \A k \in 1 .. len : b[k] = ToBits(word, len)[k]
    BY <1>2
  <1>5. Peek(s, n) = Accumulate(2, b, n)
    <2>1. Len(b) = n
      OBVIOUS
    <2> QED BY <2>1 DEF Peek, FromBits
  <1> HIDE DEF b
  <1>6. Accumulate(2, b, len) = word
    BY <1>1, <1>4
  <1>7. Accumulate(2, b, n) \in 0 .. 2^n - 1 /\ Accumulate(2, b, n) \div 2^(n - len) = Accumulate(2, b, len)
    <2>1. n \in 0 .. n /\ len \in 0 .. n /\ n \in len .. n
      OBVIOUS
    <2> QED BY <1>3, <2>1, LeadingBits
  <1> QED BY <1>5, <1>6, <1>7 DEF s

-----------------------------------------------------------------------------
(***************************************************************************)
(* The Golomb-Rice family of a depth.                                      *)
(***************************************************************************)

\* The exponent that is enough for v.
LEMMA LogFacts ==
    ASSUME NEW v \in Nat, NEW m \in 0 .. Peeked, 1 <= v, v <= 2^m
    PROVE  ceil_log2(v) \in 0 .. m /\ v <= 2^ceil_log2(v)
  <1> DEFINE P(k) == 2^k
             Suits(k) == P(k) >= v /\ (k = 0 \/ P(k - 1) < v)
             Enough == {k \in 0 .. m : P(k) >= v}
  <1>1. \A k \in Nat : P(k) \in Nat \ {0}
    BY PowerFacts
  <1>2. \A j \in Nat, k \in Nat : j <= k => P(j) <= P(k)
    BY PowerGrows
  <1>3. v <= P(m) /\ m \in Nat /\ Peeked \in Nat
    BY QuicCodeAssumption
  <1>4. ceil_log2(v) = CHOOSE k \in 0 .. Peeked : Suits(k)
    BY DEF ceil_log2
  <1> HIDE DEF P
  <1>5. PICK k \in Enough : \A j \in Enough : k <= j
    <2>1. m \in Enough /\ Enough \subseteq Nat
      BY <1>1, <1>3
    <2> QED BY <2>1, LeastNumber
  <1>6. k \in 0 .. Peeked /\ Suits(k)
    <2>1. k \in 0 .. m /\ P(k) >= v
      BY <1>5
    <2>2. k # 0 => P(k - 1) < v
      <3> SUFFICES ASSUME k # 0 PROVE P(k - 1) < v
        OBVIOUS
      <3>1. k - 1 \in 0 .. m /\ k - 1 \notin Enough
        BY <1>5, <2>1
      <3>2. P(k - 1) \in Nat
        BY <1>1, <3>1
      <3> QED BY <3>1, <3>2
    <2> QED BY <1>3, <2>1, <2>2
  <1> DEFINE c == CHOOSE j \in 0 .. Peeked : Suits(j)
  <1>7. c \in 0 .. Peeked /\ Suits(c)
    BY <1>6
  <1> HIDE DEF c
  <1>8. c <= m
    <2> SUFFICES ASSUME c > m PROVE FALSE
      BY <1>3, <1>7
    <2>1. c - 1 \in Nat /\ m <= c - 1 /\ c # 0
      BY <1>3, <1>7
    <2>2. P(m) <= P(c - 1) /\ P(c - 1) < v
      BY <1>2, <1>3, <1>7, <2>1
    <2> QED BY <1>1, <1>3, <2>1, <2>2
  <1>9. v <= P(c)
    BY <1>1, <1>3, <1>7
  <1>10. c \in 0 .. m
    BY <1>3, <1>7, <1>8
  <1> QED BY <1>4, <1>9, <1>10 DEF P, c

\* How many symbols a code has, and how long its escape is.
LEMMA FamilyFacts ==
    ASSUME NEW bpc \in 1 .. MaxCodeLen, NEW l \in Codes(bpc)
    PROVE  LET alt == altprefixlen(bpc, l)
               suffix == not_gr_suffixlen(bpc, l)
           IN  /\ l \in 0 .. bpc - 1 /\ bpc \in Nat \ {0} /\ bpc <= Peeked
               /\ alt \in Nat /\ alt + bpc <= MaxCodeLen
               /\ n_gr_codewords(bpc, l) = alt * 2^l /\ n_gr_codewords(bpc, l) \in Nat
               /\ suffix \in 0 .. bpc /\ 2^bpc - n_gr_codewords(bpc, l) <= 2^suffix
               /\ not_gr_cwlen(bpc, l) = alt + suffix
               /\ not_gr_cwlen(bpc, l) \in 1 .. MaxCodeLen
               /\ not_gr_prefixmask(bpc, l) = 2^(Peeked - alt) - 1
  <1> DEFINE P(k) == 2^k
             alt == altprefixlen(bpc, l)
             gr == n_gr_codewords(bpc, l)
             suffix == not_gr_suffixlen(bpc, l)
  <1>1. \A k \in Nat : P(k) \in Nat \ {0}
    BY PowerFacts
  <1>2. /\ MaxCodeLen \in Nat /\ Peeked \in Nat /\ MaxCodeLen <= Peeked
        /\ l \in 0 .. bpc - 1 /\ bpc \in Nat \ {0} /\ bpc <= Peeked /\ bpc - l \in Nat
    BY QuicCodeAssumption DEF Codes
  <1>3. P(bpc) = P(l) * P(bpc - l)
    BY <1>2, PowerGrows
  <1>4. 2 <= P(bpc)
    <2>1. 1 = 0 + 1 /\ 0 \in Nat /\ 1 \in Nat /\ 1 <= bpc
      BY <1>2
    <2>2. P(1) = 2 /\ P(1) <= P(bpc)
      BY <1>2, <2>1, PowerFacts, PowerGrows
    <2> QED BY <2>2
  <1>5. /\ alt = (IF MaxCodeLen - bpc <= P(bpc - l) - 1 THEN MaxCodeLen - bpc ELSE P(bpc - l) - 1)
        /\ gr = alt * P(l)
    BY DEF altprefixlen, Least, bppmask, n_gr_codewords
  <1>6. suffix = ceil_log2(P(bpc) - gr)
    BY DEF not_gr_suffixlen
  <1>7. not_gr_cwlen(bpc, l) = alt + suffix /\ not_gr_prefixmask(bpc, l) = P(Peeked - alt) - 1
    BY DEF not_gr_cwlen, not_gr_prefixmask, bppmask
  <1>8. \A v \in Nat : 1 <= v /\ v <= P(bpc) => ceil_log2(v) \in 0 .. bpc /\ v <= P(ceil_log2(v))
    <2>1. bpc \in 0 .. Peeked
      BY <1>2
    <2> QED BY <2>1, LogFacts
  <1> HIDE DEF P, alt, gr, suffix
  <1>9. alt \in Nat /\ alt <= MaxCodeLen - bpc /\ alt <= P(bpc - l) - 1
    BY <1>1, <1>2, <1>5
  <1>10. gr \in Nat /\ gr + P(l) <= P(bpc)
    <2>1. P(l) \in Nat \ {0} /\ P(bpc - l) \in Nat \ {0}
      BY <1>1, <1>2
    <2>2. alt * P(l) \in Nat
      BY <1>9, <2>1
    <2>3. (alt + 1) * P(l) <= P(bpc - l) * P(l)
      BY <1>9, <2>1
    <2>4. (alt + 1) * P(l) = alt * P(l) + P(l) /\ P(bpc - l) * P(l) = P(l) * P(bpc - l)
      BY <1>9, <2>1
    <2> QED BY <1>3, <1>5, <2>2, <2>3, <2>4
  <1>11. P(bpc) - gr \in Nat /\ 1 <= P(bpc) - gr /\ P(bpc) - gr <= P(bpc)
    BY <1>1, <1>2, <1>10
  <1>12. suffix \in 0 .. bpc /\ P(bpc) - gr <= P(suffix)
    BY <1>6, <1>8, <1>11
  <1>13. alt + suffix \in 1 .. MaxCodeLen
    <2>1. alt + suffix \in 0 .. MaxCodeLen
      BY <1>2, <1>9, <1>12
    <2>2. ~(alt = 0 /\ suffix = 0)
      <3> SUFFICES ASSUME alt = 0, suffix = 0 PROVE FALSE
        OBVIOUS
      <3>1. P(suffix) = 1
        BY PowerFacts DEF P
      <3>2. gr = 0
        BY <1>1, <1>2, <1>5
      <3>3. P(bpc) \in Nat
        BY <1>1, <1>2
      <3> QED BY <1>4, <1>12, <3>1, <3>2, <3>3
    <2> QED BY <1>2, <1>9, <1>12, <2>1, <2>2
  <1>14. alt + bpc <= MaxCodeLen
    BY <1>2, <1>9
  <1> QED BY <1>2, <1>5, <1>7, <1>9, <1>10, <1>12, <1>13, <1>14 DEF P, alt, gr, suffix

\* A window begins with a number of zeros.
LEMMA ZerosCounted ==
    ASSUME NEW front \in 0 .. 2^Peeked - 1
    PROVE  LET z == leading_zeros(front) IN
           /\ z \in 0 .. Peeked /\ front < 2^(Peeked - z)
           /\ z = Peeked \/ front >= 2^(Peeked - z - 1)
  <1> DEFINE P(k) == 2^k
             Suits(z) == front < P(Peeked - z) /\ (z = Peeked \/ front >= P(Peeked - z - 1))
             Enough == {k \in 0 .. Peeked : front < P(k)}
  <1>1. \A k \in Nat : P(k) \in Nat \ {0}
    BY PowerFacts
  <1>2. leading_zeros(front) = CHOOSE z \in 0 .. Peeked : Suits(z)
    BY DEF leading_zeros
  <1>3. Peeked \in Nat /\ front \in 0 .. P(Peeked) - 1
    BY QuicCodeAssumption
  <1> HIDE DEF P
  <1>4. P(Peeked) \in Nat
    BY <1>1, <1>3
  <1>5. PICK k \in Enough : \A j \in Enough : k <= j
    <2>1. Peeked \in Enough /\ Enough \subseteq Nat
      BY <1>3, <1>4
    <2> QED BY <2>1, LeastNumber
  <1> DEFINE z == Peeked - k
  <1>6. z \in 0 .. Peeked /\ Peeked - z = k /\ k \in 0 .. Peeked /\ front < P(k)
    BY <1>3, <1>5
  <1>7. z = Peeked \/ front >= P(k - 1)
    <2> SUFFICES ASSUME z # Peeked PROVE front >= P(k - 1)
      OBVIOUS
    <2>1. k - 1 \in 0 .. Peeked /\ k - 1 \notin Enough
      BY <1>3, <1>5, <1>6
    <2>2. P(k - 1) \in Nat
      BY <1>1, <2>1
    <2> QED BY <1>3, <1>4, <2>1, <2>2
  <1>8. Suits(z)
    BY <1>6, <1>7
  <1>9. \E y \in 0 .. Peeked : Suits(y)
    BY <1>6, <1>8
  <1> QED BY <1>2, <1>9 DEF P

\* They are as many as its size says.
LEMMA ZerosAre ==
    ASSUME NEW front \in 0 .. 2^Peeked - 1, NEW z \in 0 .. Peeked - 1,
           front < 2^(Peeked - z), front >= 2^(Peeked - z - 1)
    PROVE  leading_zeros(front) = z
  <1> DEFINE P(k) == 2^k
             y == leading_zeros(front)
  <1>1. y \in 0 .. Peeked /\ front < P(Peeked - y) /\ (y = Peeked \/ front >= P(Peeked - y - 1))
    BY ZerosCounted
  <1>2. \A k \in Nat : P(k) \in Nat \ {0}
    BY PowerFacts
  <1>3. \A j \in Nat, k \in Nat : j <= k => P(j) <= P(k)
    BY PowerGrows
  <1>4. Peeked \in Nat /\ front \in 0 .. P(Peeked) - 1 /\ front < P(Peeked - z) /\ front >= P(Peeked - z - 1)
    BY QuicCodeAssumption
  <1> HIDE DEF P, y
  <1>5. front \in Nat
    <2>1. P(Peeked) \in Nat
      BY <1>2, <1>4
    <2> QED BY <1>4, <2>1
  <1>6. ASSUME y < z PROVE FALSE
    <2>1. Peeked - z \in Nat /\ Peeked - y - 1 \in Nat /\ Peeked - z <= Peeked - y - 1 /\ y # Peeked
      BY <1>1, <1>4, <1>6
    <2>2. P(Peeked - z) <= P(Peeked - y - 1) /\ P(Peeked - z) \in Nat /\ P(Peeked - y - 1) \in Nat
      BY <1>2, <1>3, <2>1
    <2> QED BY <1>1, <1>4, <1>5, <2>1, <2>2
  <1>7. ASSUME z < y PROVE FALSE
    <2>1. Peeked - y \in Nat /\ Peeked - z - 1 \in Nat /\ Peeked - y <= Peeked - z - 1
      BY <1>1, <1>4, <1>7
    <2>2. P(Peeked - y) <= P(Peeked - z - 1) /\ P(Peeked - y) \in Nat /\ P(Peeked - z - 1) \in Nat
      BY <1>2, <1>3, <2>1
    <2> QED BY <1>1, <1>4, <1>5, <2>2
  <1> QED BY <1>1, <1>4, <1>6, <1>7 DEF y

\* What a window begins with says how large it is.
LEMMA WindowIsBelow ==
    ASSUME NEW n \in Nat, NEW len \in 0 .. n, NEW k \in 0 .. len, NEW front \in Nat
    PROVE  front < 2^(n - len + k) <=> front \div 2^(n - len) < 2^k
  <1> DEFINE a == 2^(n - len)
             b == 2^k
             q == front \div a
             r == front % a
  <1>1. n - len \in Nat /\ k \in Nat
    OBVIOUS
  <1>2. a \in Nat \ {0} /\ b \in Nat \ {0} /\ 2^(n - len + k) = a * b
    BY <1>1, PowerFacts, PowerAdds
  <1> HIDE DEF a, b
  <1>3. q \in Nat /\ r \in 0 .. a - 1 /\ front = q * a + r
    BY <1>2, Parts
  <1>4. front < a * b => q < b
    BY <1>2, QuotientBelow
  <1> HIDE DEF q, r
  <1>5. q < b => front < a * b
    <2> SUFFICES ASSUME q < b PROVE front < a * b
      OBVIOUS
    <2>1. q + 1 <= b
      BY <1>2, <1>3
    <2>2. (q + 1) * a <= b * a
      BY <1>2, <1>3, <2>1
    <2>3. (q + 1) * a = q * a + a /\ q * a \in Nat /\ b * a = a * b
      BY <1>2, <1>3
    <2> QED BY <1>2, <1>3, <2>2, <2>3
  <1>6. front < a * b <=> q < b
    BY <1>4, <1>5
  <1> QED BY <1>2, <1>6 DEF a, b, q

\* Family::golomb_decode undoes Family::golomb_encode, for windows that begin with the
\* codeword.
LEMMA GolombComesBack ==
    ASSUME NEW bpc \in 1 .. MaxCodeLen, NEW l \in Codes(bpc), NEW n \in Symbols(bpc),
           NEW front \in 0 .. 2^Peeked - 1
    PROVE  LET c == golomb_encode(bpc, n, l) IN
           /\ c.len \in 1 .. MaxCodeLen /\ c.word \in 0 .. 2^c.len - 1
           /\ golomb_code_len(bpc, n, l) = c.len
           /\ front \div 2^(Peeked - c.len) = c.word
                => golomb_decode(bpc, l, front) = [value |-> n, len |-> c.len]
  <1> DEFINE P(k) == 2^k
             alt == altprefixlen(bpc, l)
             suffix == not_gr_suffixlen(bpc, l)
             gr == n_gr_codewords(bpc, l)
             c == golomb_encode(bpc, n, l)
             q == n \div P(l)
             r == n % P(l)
  <1>1. P(0) = 1 /\ \A k \in Nat : P(k) \in Nat \ {0} /\ P(k + 1) = 2 * P(k)
    BY PowerFacts
  <1>2. /\ MaxCodeLen \in Nat /\ Peeked \in Nat /\ MaxCodeLen <= Peeked
        /\ l \in 0 .. bpc - 1 /\ bpc \in Nat \ {0} /\ bpc <= Peeked
        /\ alt \in Nat /\ alt + bpc <= MaxCodeLen
        /\ gr = alt * P(l) /\ gr \in Nat
        /\ suffix \in 0 .. bpc /\ P(bpc) - gr <= P(suffix)
        /\ not_gr_cwlen(bpc, l) = alt + suffix
        /\ not_gr_cwlen(bpc, l) \in 1 .. MaxCodeLen
        /\ not_gr_prefixmask(bpc, l) = P(Peeked - alt) - 1
    BY QuicCodeAssumption, FamilyFacts
  <1>3. n \in 0 .. P(bpc) - 1 /\ front \in 0 .. P(Peeked) - 1
    BY DEF Symbols, bppmask
  <1>4. l \in Nat /\ P(l) \in Nat \ {0} /\ P(bpc) \in Nat \ {0} /\ P(Peeked) \in Nat \ {0}
    BY <1>1, <1>2
  <1>5. n \in Nat /\ front \in Nat
    BY <1>3, <1>4
  <1>6. q \in Nat /\ r \in 0 .. P(l) - 1 /\ n = q * P(l) + r
    BY <1>4, <1>5, Parts
  <1>7. CASE n < gr
    <2> DEFINE len == q + l + 1
               word == P(l) + r
    <2>1. c = [word |-> word, len |-> len] /\ golomb_code_len(bpc, n, l) = len
      BY <1>7 DEF golomb_encode, golomb_code_len
    <2>2. q < alt
      <3>1. n < P(l) * alt
        BY <1>2, <1>4, <1>7
      <3> QED BY <1>2, <1>4, <1>5, <3>1, QuotientBelow
    <2>3. \A k \in 0 .. len : front < P(Peeked - len + k) <=> front \div P(Peeked - len) < P(k)
      <3>1. len \in 0 .. Peeked
        BY <1>2, <1>6, <2>2
      <3> QED BY <1>2, <1>5, <3>1, WindowIsBelow
    <2>4. golomb_decode(bpc, l, front)
            = (IF front > P(Peeked - alt) - 1
               THEN [value |-> leading_zeros(front) * P(l)
                                 + ((front \div P(Peeked - (leading_zeros(front) + 1 + l))) % P(l)),
                     len |-> leading_zeros(front) + 1 + l]
               ELSE Escape(bpc, l, front))
      BY <1>2 DEF golomb_decode, GolombRice, Suffix
    <2>5. P(Peeked - alt) <= P(Peeked - q - 1)
      <3>1. Peeked - alt \in Nat /\ Peeked - q - 1 \in Nat /\ Peeked - alt <= Peeked - q - 1
        BY <1>2, <1>6, <2>2
      <3> QED BY <3>1, PowerGrows
    <2>6. \A z \in 0 .. Peeked - 1 : front < P(Peeked - z) /\ front >= P(Peeked - z - 1)
                                       => leading_zeros(front) = z
      BY <1>3, ZerosAre
    <2>7. (P(l) + r) % P(l) = r
      <3> DEFINE b == P(l)
                 a == b + r
      <3>1. b \in Nat \ {0} /\ 1 \in Int /\ r \in 0 .. b - 1 /\ a \in Int /\ a = b * 1 + r
        BY <1>4, <1>6
      <3> HIDE DEF a, b, r
      <3>2. a % b = r
        BY <3>1, Remainder
      <3> QED BY <3>2 DEF a, b
    <2> HIDE DEF P, alt, gr, c, q, r
    <2>8. P(l + 1) = 2 * P(l) /\ word < P(l + 1) /\ word >= P(l) /\ word \in Nat
      BY <1>1, <1>4, <1>6
    <2>9. len \in 1 .. MaxCodeLen /\ len \in Nat
      BY <1>2, <1>6, <2>2
    <2>10. word \in 0 .. P(len) - 1
      <3>1. l + 1 \in Nat /\ l + 1 <= len /\ len \in Nat
        BY <1>4, <1>6
      <3>2. P(l + 1) <= P(len) /\ P(len) \in Nat
        BY <3>1, PowerGrows, PowerFacts DEF P
      <3> QED BY <1>1, <1>4, <2>8, <3>1, <3>2
    <2>11. ASSUME front \div P(Peeked - len) = word
           PROVE  golomb_decode(bpc, l, front) = [value |-> n, len |-> len]
      <3>1. front < P(Peeked - q)
        <4>1. l + 1 \in 0 .. len /\ Peeked - len + (l + 1) = Peeked - q
          BY <1>2, <1>4, <1>6
        <4>2. front < P(Peeked - len + (l + 1))
          BY <2>3, <2>8, <2>11, <4>1
        <4> QED BY <4>1, <4>2
      <3>2. front >= P(Peeked - q - 1)
        <4>1. l \in 0 .. len /\ Peeked - len + l = Peeked - q - 1 /\ Peeked - q - 1 \in Nat
          BY <1>2, <1>4, <1>6, <2>2
        <4>2. ~(word < P(l))
          BY <1>4, <2>8
        <4>3. ~(front < P(Peeked - len + l))
          BY <2>3, <2>11, <4>1, <4>2
        <4>4. P(Peeked - q - 1) \in Nat
          BY <1>1, <4>1
        <4> QED BY <1>5, <4>1, <4>3, <4>4
      <3>3. leading_zeros(front) = q
        <4>1. q \in 0 .. Peeked - 1
          BY <1>2, <1>6, <2>2
        <4> QED BY <2>6, <3>1, <3>2, <4>1
      <3>4. front > P(Peeked - alt) - 1
        <4>1. Peeked - alt \in Nat /\ Peeked - q - 1 \in Nat
          BY <1>2, <1>6, <2>2
        <4>2. P(Peeked - alt) \in Nat /\ P(Peeked - q - 1) \in Nat
          BY <1>1, <4>1
        <4> QED BY <1>5, <2>5, <3>2, <4>2
      <3>5. Peeked - (q + 1 + l) = Peeked - len /\ q + 1 + l = len
        BY <1>2, <1>4, <1>6
      <3>6. golomb_decode(bpc, l, front) = [value |-> q * P(l) + (word % P(l)), len |-> len]
        BY <2>4, <2>11, <3>3, <3>4, <3>5
      <3> QED BY <1>6, <2>7, <3>6
    <2> HIDE DEF word, len
    <2>12. c.word = word /\ c.len = len
      BY <2>1
    <2> QED BY <2>1, <2>9, <2>10, <2>11, <2>12 DEF P, c
  <1>8. CASE ~(n < gr)
    <2> DEFINE len == not_gr_cwlen(bpc, l)
               word == n - gr
    <2>1. c = [word |-> word, len |-> len] /\ golomb_code_len(bpc, n, l) = len
      BY <1>8 DEF golomb_encode, golomb_code_len
    <2>2. golomb_decode(bpc, l, front)
            = (IF front > P(Peeked - alt) - 1 THEN GolombRice(l, front)
               ELSE [value |-> gr + ((front \div P(Peeked - len)) % P(suffix)), len |-> len])
      BY <1>2 DEF golomb_decode, Escape, Suffix
    <2>3. \A k \in 0 .. len : front < P(Peeked - len + k) <=> front \div P(Peeked - len) < P(k)
      <3>1. len \in 0 .. Peeked
        BY <1>2
      <3> QED BY <1>2, <1>5, <3>1, WindowIsBelow
    <2>4. P(suffix) <= P(len)
      <3>1. suffix \in Nat /\ len \in Nat /\ suffix <= len
        BY <1>2
      <3> QED BY <3>1, PowerGrows
    <2> HIDE DEF P, alt, gr, c, q, r, suffix
    <2>5. len \in 1 .. MaxCodeLen /\ len = alt + suffix
      BY <1>2
    <2>6. suffix \in Nat /\ P(suffix) \in Nat \ {0} /\ len \in Nat /\ P(len) \in Nat
      BY <1>1, <1>2
    <2> HIDE DEF len
    <2>7. word \in 0 .. P(suffix) - 1
      BY <1>2, <1>3, <1>4, <1>5, <1>8, <2>6
    <2>8. word \in 0 .. P(len) - 1
      BY <2>4, <2>6, <2>7
    <2>9. ASSUME front \div P(Peeked - len) = word
          PROVE  golomb_decode(bpc, l, front) = [value |-> n, len |-> len]
      <3>1. ~(front > P(Peeked - alt) - 1)
        <4>1. suffix \in 0 .. len /\ Peeked - len + suffix = Peeked - alt /\ Peeked - alt \in Nat
          BY <1>2, <2>5, <2>6
        <4>2. front < P(Peeked - alt)
          <5>1. word < P(suffix)
            BY <2>6, <2>7
          <5>2. front < P(Peeked - len + suffix)
            BY <2>3, <2>9, <4>1, <5>1
          <5> QED BY <4>1, <5>2
        <4>3. P(Peeked - alt) \in Nat
          BY <1>1, <4>1
        <4> QED BY <1>5, <4>2, <4>3
      <3>2. word % P(suffix) = word
        BY <2>6, <2>7, BelowModulus
      <3>3. gr + word = n
        BY <1>2, <1>5
      <3> QED BY <2>2, <2>9, <3>1, <3>2, <3>3
    <2> HIDE DEF word
    <2>10. c.word = word /\ c.len = len
      BY <2>1
    <2> QED BY <2>1, <2>5, <2>8, <2>9, <2>10 DEF P, c
  <1> QED BY <1>7, <1>8

\* A codeword is decoded to its symbol, whatever bits are behind it.
LEMMA CodewordComesBack ==
    ASSUME NEW bpc \in 1 .. MaxCodeLen, NEW l \in Codes(bpc), NEW n \in Symbols(bpc),
           NEW behind \in Seq(Bit)
    PROVE  LET c == golomb_encode(bpc, n, l)
               s == ToBits(c.word, c.len)
           IN  /\ c.len \in 1 .. MaxCodeLen /\ s \in Seq(Bit) /\ Len(s) = c.len
               /\ golomb_code_len(bpc, n, l) = c.len
               /\ golomb_decode(bpc, l, Peek(s \o behind, Peeked)) = [value |-> n, len |-> c.len]
  <1> DEFINE c == golomb_encode(bpc, n, l)
             s == ToBits(c.word, c.len)
             w == Peek(s \o behind, Peeked)
  <1>1. 2^Peeked \in Nat \ {0} /\ Peeked \in Nat /\ MaxCodeLen \in Nat /\ MaxCodeLen <= Peeked
    BY PowerFacts, QuicCodeAssumption
  <1>2. 0 \in 0 .. 2^Peeked - 1
    <2> DEFINE p == 2^Peeked
    <2>1. p \in Nat \ {0}
      BY <1>1
    <2> HIDE DEF p
    <2>2. 0 \in 0 .. p - 1
      BY <2>1
    <2> QED BY <2>2 DEF p
  <1>3. /\ c.len \in 1 .. MaxCodeLen /\ c.word \in 0 .. 2^c.len - 1
        /\ golomb_code_len(bpc, n, l) = c.len
    BY <1>2, GolombComesBack
  <1>4. c.len \in Nat /\ c.len \in 0 .. Peeked
    BY <1>1, <1>3
  <1>5. s \in Seq(Bit) /\ Len(s) = c.len
    BY <1>3, <1>4, BitsOfAWord
  <1>6. w \in 0 .. 2^Peeked - 1 /\ w \div 2^(Peeked - c.len) = c.word
    <2> DEFINE len == c.len
               word == c.word
    <2>1. len \in 0 .. Peeked /\ word \in 0 .. 2^len - 1 /\ w = Peek(ToBits(word, len) \o behind, Peeked)
      BY <1>3, <1>4
    <2> HIDE DEF len, word, w
    <2>2. w \in 0 .. 2^Peeked - 1 /\ w \div 2^(Peeked - len) = word
      BY <1>1, <2>1, PeekShows
    <2> QED BY <2>2 DEF len, word
  <1>7. golomb_decode(bpc, l, w) = [value |-> n, len |-> c.len]
    BY <1>6, GolombComesBack
  <1> QED BY <1>3, <1>5, <1>7

\* Whatever the front, a number is read from it.
LEMMA GolombReads ==
    ASSUME NEW bpc \in 1 .. MaxCodeLen, NEW l \in Codes(bpc), NEW front \in 0 .. 2^Peeked - 1
    PROVE  golomb_decode(bpc, l, front) \in [value : Nat, len : Nat]
  <1> DEFINE P(k) == 2^k
             alt == altprefixlen(bpc, l)
             suffix == not_gr_suffixlen(bpc, l)
             gr == n_gr_codewords(bpc, l)
             z == leading_zeros(front)
             len == not_gr_cwlen(bpc, l)
  <1>1. \A k \in Nat : P(k) \in Nat \ {0}
    BY PowerFacts
  <1>2. /\ MaxCodeLen \in Nat /\ Peeked \in Nat /\ MaxCodeLen <= Peeked
        /\ l \in 0 .. bpc - 1 /\ bpc \in Nat \ {0}
        /\ alt \in Nat /\ alt + bpc <= MaxCodeLen /\ gr \in Nat
        /\ suffix \in 0 .. bpc /\ len \in 1 .. MaxCodeLen
        /\ not_gr_prefixmask(bpc, l) = P(Peeked - alt) - 1
    BY QuicCodeAssumption, FamilyFacts
  <1>3. golomb_decode(bpc, l, front)
          = (IF front > P(Peeked - alt) - 1
             THEN [value |-> z * P(l) + ((front \div P(Peeked - (z + 1 + l))) % P(l)),
                   len |-> z + 1 + l]
             ELSE [value |-> gr + ((front \div P(Peeked - len)) % P(suffix)), len |-> len])
    BY <1>2 DEF golomb_decode, GolombRice, Escape, Suffix
  <1>4. z \in 0 .. Peeked /\ front < P(Peeked - z)
    BY ZerosCounted
  <1>5. \A j \in Nat, k \in Nat : j <= k => P(j) <= P(k)
    BY PowerGrows
  <1>6. front \in 0 .. P(Peeked) - 1
    OBVIOUS
  <1> HIDE DEF P, alt, suffix, gr, z, len
  <1>7. front \in Nat
    <2>1. P(Peeked) \in Nat
      BY <1>1, <1>2
    <2> QED BY <1>6, <2>1
  <1>8. \A v \in Nat, a \in Nat \ {0}, b \in Nat \ {0} : (v \div a) % b \in Nat
    <2> SUFFICES ASSUME NEW v \in Nat, NEW a \in Nat \ {0}, NEW b \in Nat \ {0}
                 PROVE  (v \div a) % b \in Nat
      OBVIOUS
    <2> DEFINE q == v \div a
    <2>1. q \in Nat
      OBVIOUS
    <2> HIDE DEF q
    <2>2. q % b \in Nat
      BY <2>1
    <2> QED BY <2>2 DEF q
  <1>9. CASE front > P(Peeked - alt) - 1
    <2>1. z < alt
      <3> SUFFICES ASSUME alt <= z PROVE FALSE
        BY <1>2, <1>4
      <3>1. Peeked - z \in Nat /\ Peeked - alt \in Nat /\ Peeked - z <= Peeked - alt
        BY <1>2, <1>4
      <3>2. P(Peeked - z) <= P(Peeked - alt) /\ P(Peeked - z) \in Nat /\ P(Peeked - alt) \in Nat
        BY <1>1, <1>5, <3>1
      <3> QED BY <1>4, <1>7, <1>9, <3>2
    <2>2. Peeked - (z + 1 + l) \in Nat /\ l \in Nat /\ z \in Nat /\ z + 1 + l \in Nat
      BY <1>2, <1>4, <2>1
    <2>3. P(Peeked - (z + 1 + l)) \in Nat \ {0} /\ P(l) \in Nat \ {0}
      BY <1>1, <2>2
    <2>4. (front \div P(Peeked - (z + 1 + l))) % P(l) \in Nat
      BY <1>7, <1>8, <2>3
    <2>5. z * P(l) \in Nat
      BY <2>2, <2>3
    <2>6. z * P(l) + ((front \div P(Peeked - (z + 1 + l))) % P(l)) \in Nat
      BY <2>4, <2>5
    <2> QED BY <1>3, <1>9, <2>2, <2>6
  <1>10. CASE ~(front > P(Peeked - alt) - 1)
    <2>1. Peeked - len \in Nat /\ suffix \in Nat /\ len \in Nat
      BY <1>2
    <2>2. P(Peeked - len) \in Nat \ {0} /\ P(suffix) \in Nat \ {0}
      BY <1>1, <2>1
    <2>3. (front \div P(Peeked - len)) % P(suffix) \in Nat
      BY <1>7, <1>8, <2>2
    <2>4. gr + ((front \div P(Peeked - len)) % P(suffix)) \in Nat
      BY <1>2, <2>3
    <2> QED BY <1>3, <1>10, <2>1, <2>4
  <1> QED BY <1>9, <1>10

\* Symbols are translated and come back, at any depth.
LEMMA TranslatedBack ==
    ASSUME NEW bpc \in Nat \ {0}, NEW s \in Symbols(bpc)
    PROVE  xlat_u2l(bpc, s) \in Symbols(bpc) /\ xlat_l2u(bpc, xlat_u2l(bpc, s)) = s
  <1> DEFINE M == 2^bpc
             m == M - 1
             h == 2^(bpc - 1)
  <1>1. M = 2 * h /\ h \in Nat \ {0}
    <2>1. bpc - 1 \in Nat /\ bpc = (bpc - 1) + 1
      OBVIOUS
    <2> QED BY <2>1, PowerFacts
  <1>2. bppmask(bpc) = m /\ Symbols(bpc) = 0 .. m
    BY DEF bppmask, Symbols
  <1> HIDE DEF M, h
  <1>3. h \in Nat /\ h > 0 /\ m \div 2 = h - 1 /\ s \in 0 .. 2 * h - 1 /\ m = 2 * h - 1
    BY <1>1, <1>2
  <1>4. CASE s <= h - 1
    <2>1. xlat_u2l(bpc, s) = 2 * s
      BY <1>2, <1>3, <1>4 DEF xlat_u2l
    <2>2. 2 * s \in 0 .. m /\ (2 * s) % 2 = 0 /\ (2 * s) \div 2 = s
      BY <1>3, <1>4
    <2> DEFINE u == 2 * s
    <2> HIDE DEF m, u
    <2>3. xlat_l2u(bpc, u) = s
      BY <1>2, <1>3, <2>2 DEF xlat_l2u, u
    <2> QED BY <1>2, <2>1, <2>2, <2>3 DEF u
  <1>5. CASE s > h - 1
    <2>1. xlat_u2l(bpc, s) = 2 * (m - s) + 1
      BY <1>2, <1>3, <1>5 DEF xlat_u2l
    <2>2. /\ 2 * (m - s) + 1 \in 0 .. m /\ (2 * (m - s) + 1) % 2 = 1
          /\ (2 * (m - s) + 1) \div 2 = m - s
      BY <1>3, <1>5
    <2> DEFINE u == 2 * (m - s) + 1
    <2>3. u \in 0 .. m /\ u % 2 = 1 /\ u \div 2 = m - s
      BY <2>2
    <2> HIDE DEF m, u
    <2>4. xlat_l2u(bpc, u) = m - (m - s)
      BY <1>2, <1>3, <2>3 DEF xlat_l2u
    <2>5. m - (m - s) = s
      BY <1>3
    <2> QED BY <1>2, <2>1, <2>3, <2>4, <2>5 DEF u
  <1> QED BY <1>3, <1>4, <1>5

\* Equal addends have equal sums.
LEMMA SameSums ==
    ASSUME NEW factor \in Nat, NEW n \in Nat, NEW f, NEW g,
           \A k \in 1 .. n : f[k] \in Nat /\ g[k] = f[k]
    PROVE  Accumulate(factor, f, n) = Accumulate(factor, g, n)
  <1> DEFINE A(k) == Accumulate(factor, f, k)
             B(k) == Accumulate(factor, g, k)
             Wrong == {k \in 0 .. n : A(k) # B(k)}
  <1>1. /\ A(0) = 0 /\ \A k \in 1 .. n : A(k) = factor * A(k - 1) + f[k]
        /\ B(0) = 0 /\ \A k \in 1 .. n : B(k) = factor * B(k - 1) + g[k]
    BY Accumulates
  <1> HIDE DEF A, B
  <1>2. Wrong = {}
    <2> SUFFICES ASSUME Wrong # {} PROVE FALSE
      OBVIOUS
    <2>1. PICK k \in Wrong : \A j \in Wrong : k <= j
      <3>1. Wrong \subseteq Nat
        OBVIOUS
      <3> QED BY <3>1, LeastNumber
    <2>2. k \in 0 .. n /\ A(k) # B(k) /\ k # 0
      BY <1>1
    <2>3. k - 1 \in 0 .. n /\ k - 1 \notin Wrong /\ k \in 1 .. n
      BY <2>1, <2>2
    <2>4. A(k - 1) = B(k - 1)
      BY <2>3
    <2> QED BY <1>1, <2>2, <2>3, <2>4
  <1>3. n \notin Wrong
    BY <1>2
  <1> QED BY <1>3 DEF A, B

\* So many bits, so large a number.
LEMMA PeekIsSmall ==
    ASSUME NEW s \in Seq(Bit), NEW n \in Nat
    PROVE  Peek(s, n) \in 0 .. 2^n - 1
  <1> DEFINE b == [k \in 1 .. n |-> IF k <= Len(s) THEN s[k] ELSE 0]
  <1>1. \A k \in 1 .. n : b[k] \in Bit
    BY DEF Bit
  <1>2. Peek(s, n) = Accumulate(2, b, n)
    <2>1. Len(b) = n
      OBVIOUS
    <2> QED BY <2>1 DEF Peek, FromBits
  <1>3. n \in 0 .. n
    OBVIOUS
  <1> HIDE DEF b
  <1> QED BY <1>1, <1>2, <1>3, LeadingBits

\* A symbol has a bucket.
LEMMA BucketFound ==
    ASSUME NEW bpc \in Nat, NEW n \in Nat
    PROVE  find_bucket(bpc, n) \in Buckets(bpc)
  <1> DEFINE Suits(b) == /\ BucketStart(b) <= n
                        /\ \A a \in Buckets(bpc) : a > b => BucketStart(a) > n
             Up == {b \in Buckets(bpc) : BucketStart(b) <= n}
             From == {bpc - b : b \in Up}
  <1>1. Buckets(bpc) \subseteq 0 .. bpc /\ 0 \in Buckets(bpc)
    BY DEF Buckets
  <1>2. \A b \in 0 .. bpc : BucketStart(b) \in Nat
    <2> SUFFICES ASSUME NEW b \in 0 .. bpc PROVE BucketStart(b) \in Nat
      OBVIOUS
    <2> DEFINE p == 2^b
    <2>1. p \in Nat \ {0}
      BY PowerFacts
    <2> HIDE DEF p
    <2>2. p - 1 \in Nat
      BY <2>1
    <2> QED BY <2>2 DEF p, BucketStart
  <1>3. BucketStart(0) = 0
    BY PowerFacts DEF BucketStart
  <1>4. bpc \in From /\ From \subseteq Nat
    <2>1. 0 \in Up /\ bpc - 0 = bpc
      BY <1>1, <1>3
    <2> QED BY <1>1, <2>1
  <1>5. PICK f \in From : \A e \in From : f <= e
    BY <1>4, LeastNumber
  <1>6. PICK b \in Up : f = bpc - b
    OBVIOUS
  <1>7. Suits(b)
    <2> SUFFICES ASSUME NEW a \in Buckets(bpc), a > b PROVE BucketStart(a) > n
      BY <1>6
    <2>1. a \in 0 .. bpc /\ b \in 0 .. bpc
      BY <1>1
    <2>2. ~(f <= bpc - a)
      BY <1>6, <2>1
    <2>3. a \notin Up
      <3>1. a \in Up => bpc - a \in From
        OBVIOUS
      <3> QED BY <1>5, <2>2, <3>1
    <2> QED BY <1>2, <2>1, <2>3
  <1> HIDE DEF Suits
  <1>8. \E c \in Buckets(bpc) : Suits(c)
    BY <1>7
  <1>9. (CHOOSE c \in Buckets(bpc) : Suits(c)) \in Buckets(bpc)
    BY <1>8
  <1> QED BY <1>9 DEF find_bucket, Suits

-----------------------------------------------------------------------------
(***************************************************************************)
(* Runs.                                                                   *)
(***************************************************************************)

\* The states that ones and zeros lead to, and what a one stands for.
LEMMA StateFacts ==
    ASSUME NEW state \in States
    PROVE  /\ \A k \in Nat : StateUp(state, k) \in States
           /\ StateDown(state) \in States
           /\ JTable[state + 1] \in Nat /\ Orders(state) = 2^JTable[state + 1]
           /\ Orders(state) \in Nat \ {0}
  <1> DEFINE n == Len(JTable)
  <1>1. JTable \in Seq(Nat) /\ n \in Nat \ {0} /\ state \in 0 .. n - 1
    BY QuicCodeAssumption, EmptySeq DEF States
  <1>2. JTable[state + 1] \in Nat
    <2>1. state + 1 \in 1 .. n
      BY <1>1
    <2> QED BY <1>1, <2>1, ElementOfSeq
  <1>3. Orders(state) \in Nat \ {0}
    BY <1>2, PowerFacts DEF Orders
  <1> HIDE DEF n
  <1>4. \A k \in Nat : StateUp(state, k) \in 0 .. n - 1
    BY <1>1 DEF StateUp, Least, n
  <1>5. StateDown(state) \in 0 .. n - 1
    BY <1>1 DEF StateDown
  <1> QED BY <1>2, <1>3, <1>4, <1>5 DEF States, Orders, n

\* A further one stands for further pixels.
LEMMA GainedFacts ==
    ASSUME NEW state \in States
    PROVE  /\ Gained(state, 0) = 0
           /\ \A k \in Nat : /\ Gained(state, k) \in Nat /\ k <= Gained(state, k)
                             /\ Gained(state, k + 1) = Gained(state, k) + Orders(StateUp(state, k))
  <1> DEFINE G(k) == Gained(state, k)
             O(i) == Orders(StateUp(state, i - 1))
             S(k) == [i \in 1 .. k |-> O(i)]
             TooFew == {k \in Nat : ~(k <= G(k))}
  <1>1. \A i \in Nat \ {0} : O(i) \in Nat \ {0}
    <2> SUFFICES ASSUME NEW i \in Nat \ {0} PROVE O(i) \in Nat \ {0}
      OBVIOUS
    <2>1. i - 1 \in Nat
      OBVIOUS
    <2>2. StateUp(state, i - 1) \in States
      BY <2>1, StateFacts
    <2> QED BY <2>2, StateFacts
  <1>2. \A k \in Nat : G(k) = Accumulate(1, S(k), k)
    BY DEF Gained
  <1> HIDE DEF G, O
  <1>3. \A k \in Nat : \A i \in 1 .. k : S(k)[i] = O(i) /\ O(i) \in Nat
    BY <1>1
  <1> HIDE DEF S
  <1>4. G(0) = 0 /\ \A k \in Nat : G(k) \in Nat
    <2>1. ASSUME NEW k \in Nat PROVE Accumulate(1, S(k), 0) = 0 /\ Accumulate(1, S(k), k) \in Nat
      <3>1. \A i \in 1 .. k : S(k)[i] \in Nat
        BY <1>3
      <3>2. 1 \in Nat /\ k \in 0 .. k
        OBVIOUS
      <3> QED BY <3>1, <3>2, Accumulates
    <2>2. Accumulate(1, S(0), 0) = 0
      BY <2>1
    <2> QED BY <1>2, <2>1, <2>2
  <1>5. ASSUME NEW k \in Nat PROVE G(k + 1) = G(k) + O(k + 1)
    <2>1. k + 1 \in Nat /\ k + 1 \in 1 .. k + 1 /\ (k + 1) - 1 = k /\ 1 \in Nat
      OBVIOUS
    <2>2. \A i \in 1 .. k + 1 : S(k + 1)[i] \in Nat /\ S(k + 1)[i] = O(i)
      BY <1>3, <2>1
    <2>3. Accumulate(1, S(k + 1), k + 1) = 1 * Accumulate(1, S(k + 1), k) + S(k + 1)[k + 1]
      <3>1. \A i \in 1 .. k + 1 : Accumulate(1, S(k + 1), i)
                                    = 1 * Accumulate(1, S(k + 1), i - 1) + S(k + 1)[i]
        BY <2>1, <2>2, Accumulates
      <3> QED BY <2>1, <3>1
    <2>4. Accumulate(1, S(k + 1), k) = Accumulate(1, S(k), k)
      <3>1. \A i \in 1 .. k : S(k + 1)[i] \in Nat /\ S(k)[i] = S(k + 1)[i]
        BY <1>3, <2>2
      <3> QED BY <2>1, <3>1, SameSums
    <2>5. G(k) \in Nat /\ O(k + 1) \in Nat
      BY <1>1, <1>4
    <2>6. G(k + 1) = 1 * G(k) + O(k + 1)
      BY <1>2, <2>1, <2>2, <2>3, <2>4
    <2> QED BY <2>5, <2>6
  <1>6. TooFew = {}
    <2> SUFFICES ASSUME TooFew # {} PROVE FALSE
      OBVIOUS
    <2>1. PICK k \in TooFew : \A j \in TooFew : k <= j
      BY LeastNumber
    <2>2. k \in Nat /\ ~(k <= G(k)) /\ k # 0
      BY <1>4
    <2> DEFINE j == k - 1
    <2>3. j \in Nat /\ k = j + 1 /\ j \notin TooFew
      BY <2>1, <2>2
    <2>4. j <= G(j)
      BY <2>3
    <2> HIDE DEF j
    <2>5. G(k) = G(j) + O(j + 1) /\ O(j + 1) \in Nat \ {0} /\ G(j) \in Nat
      BY <1>1, <1>4, <1>5, <2>3
    <2> QED BY <2>2, <2>3, <2>4, <2>5
  <1>7. \A k \in Nat : k <= G(k)
    BY <1>6
  <1>8. \A k \in Nat : O(k + 1) = Orders(StateUp(state, k))
    <2> SUFFICES ASSUME NEW k \in Nat PROVE O(k + 1) = Orders(StateUp(state, k))
      OBVIOUS
    <2>1. (k + 1) - 1 = k
      OBVIOUS
    <2> QED BY <2>1 DEF O
  <1> QED BY <1>4, <1>5, <1>7, <1>8 DEF G

\* A run has so many ones.
LEMMA HitsFacts ==
    ASSUME NEW runlen \in Nat, NEW state \in States
    PROVE  LET k == Hits(runlen, state) IN
           k \in 0 .. runlen /\ Gained(state, k) <= runlen /\ runlen < Gained(state, k + 1)
  <1> DEFINE G(k) == Gained(state, k)
             Suits(k) == G(k) <= runlen /\ runlen < G(k + 1)
             Enough == {k \in 0 .. runlen : runlen < G(k + 1)}
  <1>1. G(0) = 0 /\ \A k \in Nat : G(k) \in Nat /\ k <= G(k)
    BY GainedFacts
  <1>2. Hits(runlen, state) = CHOOSE k \in 0 .. runlen : Suits(k)
    BY DEF Hits
  <1> HIDE DEF G
  <1>3. PICK k \in Enough : \A j \in Enough : k <= j
    <2>1. runlen + 1 <= G(runlen + 1) /\ G(runlen + 1) \in Nat
      BY <1>1
    <2>2. runlen \in Enough /\ Enough \subseteq Nat
      BY <2>1
    <2> QED BY <2>2, LeastNumber
  <1>4. Suits(k)
    <2>1. k \in 0 .. runlen /\ runlen < G(k + 1)
      OBVIOUS
    <2>2. k # 0 => G(k) <= runlen
      <3> SUFFICES ASSUME k # 0 PROVE G(k) <= runlen
        OBVIOUS
      <3>1. k - 1 \in 0 .. runlen /\ k - 1 \notin Enough /\ (k - 1) + 1 = k /\ k \in Nat
        BY <1>3, <2>1
      <3>2. ~(runlen < G(k))
        BY <3>1
      <3> QED BY <1>1, <3>1, <3>2
    <2> QED BY <1>1, <2>1, <2>2
  <1> HIDE DEF Suits
  <1>5. \E j \in 0 .. runlen : Suits(j)
    BY <1>4
  <1>6. Hits(runlen, state) \in 0 .. runlen /\ Suits(Hits(runlen, state))
    BY <1>2, <1>5
  <1> QED BY <1>6 DEF Suits, G

\* The bits of a run: ones, a zero, and the rest in as many bits as its state has.
LEMMA RunLayout ==
    ASSUME NEW runlen \in Nat, NEW state \in States
    PROVE  LET r == encode_state_run(runlen, state)
               hits == Hits(runlen, state)
               behind == StateUp(state, hits)
               rest == JTable[behind + 1]
               left == runlen - Gained(state, hits)
           IN  /\ hits \in Nat /\ behind \in States /\ rest \in Nat
               /\ left \in 0 .. 2^rest - 1 /\ Gained(state, hits) + left = runlen
               /\ Gained(state, hits) \in Nat
               /\ r.state = StateDown(behind) /\ r.state \in States
               /\ r.bits \in Seq(Bit) /\ Len(r.bits) = hits + 1 + rest
               /\ \A k \in 1 .. hits : r.bits[k] = 1
               /\ r.bits[hits + 1] = 0
               /\ \A k \in 1 .. rest : r.bits[hits + 1 + k] = ToBits(left, rest)[k]
  <1> DEFINE r == encode_state_run(runlen, state)
             hits == Hits(runlen, state)
             behind == StateUp(state, hits)
             rest == JTable[behind + 1]
             left == runlen - Gained(state, hits)
             p == 2^rest
             t == ToBits(left, rest + 1)
             ones == [k \in 1 .. hits |-> 1]
  <1>1. hits \in 0 .. runlen /\ Gained(state, hits) <= runlen /\ runlen < Gained(state, hits + 1)
    BY HitsFacts
  <1>2. hits \in Nat
    BY <1>1
  <1>3. behind \in States /\ StateDown(behind) \in States /\ rest \in Nat
        /\ Orders(behind) = p /\ p \in Nat \ {0}
    <2>1. behind \in States
      BY <1>2, StateFacts
    <2> QED BY <2>1, StateFacts
  <1>4. Gained(state, hits) \in Nat /\ Gained(state, hits + 1) = Gained(state, hits) + p
    BY <1>2, <1>3, GainedFacts
  <1>5. r = [bits |-> ones \o t, state |-> StateDown(behind)]
    BY DEF encode_state_run
  <1> HIDE DEF hits
  <1>6. left \in 0 .. p - 1 /\ Gained(state, hits) + left = runlen
    <2> HIDE DEF p, behind, rest
    <2> QED BY <1>1, <1>3, <1>4
  <1> HIDE DEF behind, rest, left
  <1>7. 2^(rest + 1) = 2 * p
    BY <1>3, PowerFacts
  <1>8. left \in 0 .. 2^(rest + 1) - 1 /\ left \div p = 0
    <2>1. left \div p = 0
      <3> HIDE DEF p
      <3> QED BY <1>3, <1>6, BelowModulus
    <2> DEFINE q == 2^(rest + 1)
    <2>2. q = 2 * p
      BY <1>7
    <2> HIDE DEF p, q
    <2>3. left \in 0 .. q - 1
      BY <1>3, <1>6, <2>2
    <2> QED BY <2>1, <2>3 DEF q
  <1>9. /\ t \in Seq(Bit) /\ Len(t) = rest + 1
        /\ \A k \in 1 .. rest + 1 : t[k] = (left \div 2^(rest + 1 - k)) % 2
    <2> DEFINE len == rest + 1
    <2>1. len \in Nat /\ left \in 0 .. 2^len - 1 /\ t = ToBits(left, len)
      BY <1>3, <1>8
    <2>a. \A k \in 1 .. len : len - k = rest + 1 - k
      BY <1>3
    <2> HIDE DEF len, t
    <2>2. /\ t \in Seq(Bit) /\ Len(t) = len
          /\ \A k \in 1 .. len : t[k] = (left \div 2^(len - k)) % 2
      BY <2>1, BitsOfAWord
    <2>3. \A k \in 1 .. len : t[k] = (left \div 2^(rest + 1 - k)) % 2
      BY <2>a, <2>2, Zenon
    <2> QED BY <2>2, <2>3 DEF len
  <1>10. \A k \in 1 .. rest : ToBits(left, rest)[k] = (left \div 2^(rest - k)) % 2
    BY <1>3, <1>6, BitsOfAWord
  <1>11. t[1] = 0
    <2>1. 1 \in 1 .. rest + 1 /\ rest + 1 - 1 = rest
      BY <1>3
    <2>2. t[1] = (left \div p) % 2
      BY <1>9, <2>1
    <2> HIDE DEF t, p
    <2> QED BY <1>8, <2>2
  <1>12. ASSUME NEW k \in 1 .. rest PROVE t[k + 1] = ToBits(left, rest)[k]
    <2>1. k + 1 \in 1 .. rest + 1 /\ rest + 1 - (k + 1) = rest - k
      BY <1>3
    <2> QED BY <1>9, <1>10, <2>1
  <1> HIDE DEF t, p
  <1>13. ones \in Seq(Bit) /\ Len(ones) = hits /\ \A k \in 1 .. hits : ones[k] = 1
    <2>1. ones \in [1 .. hits -> Bit]
      BY DEF Bit
    <2> QED BY <1>2, <2>1
  <1> HIDE DEF ones
  <1> DEFINE u == ones \o t
  <1>14. u \in Seq(Bit) /\ Len(u) = hits + 1 + rest
    BY <1>2, <1>3, <1>9, <1>13
  <1>15. (\A k \in 1 .. hits : u[k] = 1) /\ \A k \in 1 .. rest + 1 : u[hits + k] = t[k]
    BY <1>2, <1>3, <1>9, <1>13
  <1> HIDE DEF u
  <1>16. u[hits + 1] = 0
    BY <1>3, <1>11, <1>15
  <1>17. ASSUME NEW k \in 1 .. rest PROVE u[hits + 1 + k] = ToBits(left, rest)[k]
    <2>1. k + 1 \in 1 .. rest + 1 /\ hits + (k + 1) = hits + 1 + k
      BY <1>2, <1>3
    <2> QED BY <1>12, <1>15, <2>1
  <1>18. r.bits = u /\ r.state = StateDown(behind)
    BY <1>5 DEF u
  <1> HIDE DEF r
  <1> QED BY <1>2, <1>3, <1>4, <1>6, <1>14, <1>15, <1>16, <1>17, <1>18
          DEF r, hits, behind, rest, left, p

\* MelcodeState's runs: decoder and encoder count the same pixels, whatever bits follow.
LEMMA RunDecodes ==
    ASSUME NEW runlen \in Nat, NEW state \in States, NEW behind \in Seq(Bit)
    PROVE  RunComesBack(runlen, state, behind)
  <1> DEFINE r == encode_state_run(runlen, state)
             hits == Hits(runlen, state)
             up == StateUp(state, hits)
             rest == JTable[up + 1]
             left == runlen - Gained(state, hits)
             s == r.bits \o behind
             OnesEnd(k) == (\A i \in 1 .. k : s[i] = 1) /\ (k = Len(s) \/ s[k + 1] = 0)
             tail == SubSeq(s, Least(hits + 2, Len(s) + 1), Len(s))
  <1>1. /\ hits \in Nat /\ up \in States /\ rest \in Nat
        /\ left \in 0 .. 2^rest - 1 /\ Gained(state, hits) + left = runlen
        /\ Gained(state, hits) \in Nat
        /\ r.state = StateDown(up) /\ r.state \in States
        /\ r.bits \in Seq(Bit) /\ Len(r.bits) = hits + 1 + rest
        /\ \A k \in 1 .. hits : r.bits[k] = 1
        /\ r.bits[hits + 1] = 0
        /\ \A k \in 1 .. rest : r.bits[hits + 1 + k] = ToBits(left, rest)[k]
    BY RunLayout
  <1>2. \A k : decode_state_run(s, state)
            = LET ones == CHOOSE k2 \in 0 .. Len(s) : OnesEnd(k2)
                  top == StateUp(state, ones)
              IN [run |-> Gained(state, ones)
                           + Peek(SubSeq(s, Least(ones + 2, Len(s) + 1), Len(s)), JTable[top + 1]),
                  len |-> ones + 1 + JTable[top + 1],
                  state |-> StateDown(top)]
    BY DEF decode_state_run
  <1> DEFINE b == r.bits
  <1> HIDE DEF hits, r
  <1>3. s \in Seq(Bit) /\ Len(s) \in Nat /\ Len(s) = hits + 1 + rest + Len(behind)
        /\ Len(behind) \in Nat
    <2> HIDE DEF rest, left
    <2> QED BY <1>1
  <1>4. \A k \in 1 .. hits + 1 + rest : s[k] = b[k]
    <2> HIDE DEF rest, left
    <2> QED BY <1>1
  <1> HIDE DEF b, up, rest, left, s
  <1>4a. hits \in Nat /\ rest \in Nat /\ hits + 1 \in Nat
    BY <1>1
  <1>5. (\A k \in 1 .. hits : s[k] = 1) /\ s[hits + 1] = 0
    BY <1>1, <1>4 DEF b
  <1>6. \A k \in 1 .. rest : s[hits + 1 + k] = ToBits(left, rest)[k]
    <2> SUFFICES ASSUME NEW k \in 1 .. rest PROVE s[hits + 1 + k] = ToBits(left, rest)[k]
      OBVIOUS
    <2>1. hits + 1 + k \in 1 .. hits + 1 + rest
      BY <1>4a
    <2> QED BY <1>1, <1>4, <2>1 DEF b
  <1>7. ASSUME NEW k \in 0 .. Len(s), OnesEnd(k) PROVE k = hits
    <2>1. CASE k < hits
      <3>1. k + 1 \in 1 .. hits /\ k # Len(s)
        BY <1>3, <1>4a, <2>1
      <3> QED BY <1>5, <1>7, <3>1
    <2>2. CASE k > hits
      <3>1. hits + 1 \in 1 .. k
        BY <1>3, <1>4a, <2>2
      <3> QED BY <1>5, <1>7, <3>1
    <2> QED BY <1>3, <1>4a, <2>1, <2>2
  <1>8. hits \in 0 .. Len(s) /\ OnesEnd(hits)
    BY <1>3, <1>4a, <1>5
  <1> HIDE DEF OnesEnd
  <1>9. (CHOOSE k \in 0 .. Len(s) : OnesEnd(k)) = hits
    BY <1>7, <1>8
  <1>10. Peek(tail, rest) = left
    <2> DEFINE t == ToBits(left, rest) \o behind
    <2>1. ToBits(left, rest) \in Seq(Bit) /\ Len(ToBits(left, rest)) = rest
      BY <1>1, BitsOfAWord
    <2>2. tail = SubSeq(s, hits + 2, Len(s))
      <3>1. hits + 2 <= Len(s) + 1
        BY <1>3, <1>4a
      <3>2. Least(hits + 2, Len(s) + 1) = hits + 2
        BY <3>1 DEF Least
      <3> QED BY <3>2
    <2> HIDE DEF tail
    <2>3. tail \in Seq(Bit) /\ Len(tail) = rest + Len(behind)
          /\ \A k \in 1 .. rest + Len(behind) : tail[k] = s[hits + 1 + k]
      BY <1>3, <1>4a, <2>2
    <2> DEFINE bt == [k \in 1 .. rest |-> IF k <= Len(tail) THEN tail[k] ELSE 0]
    <2>4. Peek(tail, rest) = Accumulate(2, bt, rest)
      <3>1. Len(bt) = rest
        BY <1>1
      <3> QED BY <3>1 DEF Peek, FromBits
    <2>5. \A k \in 1 .. rest : bt[k] = ToBits(left, rest)[k]
      <3> SUFFICES ASSUME NEW k \in 1 .. rest PROVE bt[k] = ToBits(left, rest)[k]
        OBVIOUS
      <3>1. k <= Len(tail) /\ k \in 1 .. rest + Len(behind)
        BY <1>3, <1>4a, <2>3
      <3>2. bt[k] = tail[k]
        BY <3>1
      <3> QED BY <1>6, <2>3, <3>1, <3>2
    <2> HIDE DEF bt
    <2> QED BY <1>1, <2>4, <2>5, BitsOfAWord
  <1>11. decode_state_run(s, state)
            = [run |-> Gained(state, hits) + Peek(tail, rest), len |-> hits + 1 + rest,
               state |-> StateDown(up)]
    BY <1>2, <1>9 DEF up, rest
  <1>12. decode_state_run(s, state) = [run |-> runlen, len |-> Len(r.bits), state |-> r.state]
    BY <1>1, <1>10, <1>11
  <1> QED BY <1>12 DEF RunComesBack, r, s

\* Whatever the bits, a run is read from them.
LEMMA RunReads ==
    ASSUME NEW s \in Seq(Bit), NEW state \in States
    PROVE  decode_state_run(s, state) \in [run : Nat, len : Nat, state : States]
  <1> DEFINE OnesEnd(k) == (\A i \in 1 .. k : s[i] = 1) /\ (k = Len(s) \/ s[k + 1] = 0)
             Ending == {k \in 0 .. Len(s) : k = Len(s) \/ s[k + 1] = 0}
             ones == CHOOSE k \in 0 .. Len(s) : OnesEnd(k)
             up == StateUp(state, ones)
             rest == JTable[up + 1]
             tail == SubSeq(s, Least(ones + 2, Len(s) + 1), Len(s))
  <1>1. Len(s) \in Nat /\ \A i \in 1 .. Len(s) : s[i] \in {0, 1}
    BY DEF Bit
  <1>2. decode_state_run(s, state)
            = [run |-> Gained(state, ones) + Peek(tail, rest), len |-> ones + 1 + rest,
               state |-> StateDown(up)]
    BY DEF decode_state_run
  <1>3. PICK k \in Ending : \A j \in Ending : k <= j
    <2>1. Len(s) \in Ending /\ Ending \subseteq Nat
      BY <1>1
    <2> QED BY <2>1, LeastNumber
  <1>4. OnesEnd(k)
    <2>1. k \in 0 .. Len(s) /\ (k = Len(s) \/ s[k + 1] = 0)
      OBVIOUS
    <2>2. ASSUME NEW i \in 1 .. k PROVE s[i] = 1
      <3>1. /\ i - 1 \in 0 .. Len(s) /\ (i - 1) + 1 = i /\ i \in 1 .. Len(s)
            /\ ~(k <= i - 1)
        BY <1>1, <2>1
      <3>2. s[i] # 0
        <4>1. s[(i - 1) + 1] = 0 => i - 1 \in Ending
          BY <3>1
        <4>2. i - 1 \notin Ending
          BY <1>3, <3>1
        <4> QED BY <3>1, <4>1, <4>2
      <3> QED BY <1>1, <3>1, <3>2
    <2> QED BY <2>1, <2>2
  <1> HIDE DEF OnesEnd
  <1>5. ones \in 0 .. Len(s)
    BY <1>4
  <1> HIDE DEF ones
  <1>6. ones \in Nat /\ up \in States
    <2>1. ones \in Nat
      BY <1>1, <1>5
    <2> QED BY <2>1, StateFacts
  <1>7. rest \in Nat /\ StateDown(up) \in States
    BY <1>6, StateFacts
  <1>8. Gained(state, ones) \in Nat
    BY <1>6, GainedFacts
  <1>9. tail \in Seq(Bit)
    <2>1. Least(ones + 2, Len(s) + 1) \in 1 .. Len(s) + 1
      BY <1>1, <1>5 DEF Least
    <2> QED BY <1>1, <2>1
  <1> HIDE DEF tail, rest, up
  <1>10. Peek(tail, rest) \in Nat
    <2> DEFINE p == 2^rest
               v == Peek(tail, rest)
    <2>1. p \in Nat \ {0} /\ v \in 0 .. p - 1
      BY <1>7, <1>9, PeekIsSmall, PowerFacts
    <2> HIDE DEF p, v
    <2>2. v \in Nat
      BY <2>1
    <2> QED BY <2>2 DEF v
  <1> QED BY <1>2, <1>6, <1>7, <1>8, <1>10

-----------------------------------------------------------------------------
(***************************************************************************)
(* Coders.                                                                 *)
(***************************************************************************)
Fields == {"plane", "left", "row", "k", "start", "at", "end", "grows", "stop", "run",
           "waitcnt", "seed", "wmidx", "wmileft", "melcstate", "buckets", "corr",
           "minus1", "prev", "cur"}

\* What a coder keeps from one segment to the next.
Kept(c) ==
    /\ DOMAIN c = Fields
    /\ c.plane \in DOMAIN Planes
    /\ c.left = <<>> \/ (c.plane = "rgb" /\ c.left = <<"alpha">>)
    /\ c.k \in 1 .. Len(Planes[c.plane])
    /\ c.row \in 0 .. Height - 1
    /\ c.waitcnt \in Nat /\ c.seed \in 0 .. Len(Chaos) - 1
    /\ c.wmidx \in 0 .. MaxWm /\ c.wmileft \in Nat \ {0}

\* Its segment: up to where the wait mask grows, or to the end of the row.
Bounds(c) ==
    /\ c.start \in Nat /\ c.end \in Nat /\ c.start < c.end /\ c.end <= Width
    /\ c.grows \in BOOLEAN
    /\ c.grows => c.wmidx < MaxWm /\ c.end = c.start + c.wmileft
    /\ ~c.grows => /\ c.end = Width
                   /\ c.wmidx < MaxWm => c.wmileft > Width - c.start

\* Where in it the coder is.
Position(c) ==
    /\ c.at \in Nat /\ c.start <= c.at /\ c.at < c.end
    /\ c.stop \in Nat /\ c.at <= c.stop
    /\ c.run \in Int /\ c.run <= c.at

Placed(c) == Kept(c) /\ Bounds(c) /\ Position(c)

\* What adapts, whatever has been read.
Bucket(bpc) == [counters : [Codes(bpc) -> Nat], bestcode : Codes(bpc)]
Loose(c) ==
    /\ c.melcstate \in States
    /\ c.buckets \in [Channels(c.plane) -> [Buckets(Bpc(c.plane)) -> Bucket(Bpc(c.plane))]]
    /\ c.corr \in [Channels(c.plane) -> [Columns -> Nat]]
    /\ c.minus1 \in [Channels(c.plane) -> Nat]

\* What has been coded, if it was symbols.
Strict(c) ==
    LET S == Symbols(Bpc(c.plane))
        Ch == Channels(c.plane)
    IN  /\ c.corr \in [Ch -> [Columns -> S]] /\ c.minus1 \in [Ch -> S]
        /\ c.prev \in [Columns -> [Ch -> S]] /\ c.cur \in [Columns -> [Ch -> S]]

Coder(c) == c.plane = "done" \/ (Placed(c) /\ Loose(c))
Clean(c) == c.plane = "done" \/ Strict(c)

\* The encoder has coded the symbol or the run that the decoder is at.
Residual(c, v) == xlat_u2l(Bpc(c.plane), (v - Predicted(c, Channel(c))) % 2^Bpc(c.plane))
Codeword(c, v) == golomb_encode(Bpc(c.plane), Residual(c, v), Code(c, Channel(c)))

PixelAhead(c, d) ==
    /\ ~rle_match(c)
    /\ \E v \in Symbols(Bpc(c.plane)) :
         /\ bits = ToBits(Codeword(c, v).word, Codeword(c, v).len)
         /\ d = Coded(c, Channel(c), Residual(c, v), v)
RunAhead(c, d) ==
    /\ rle_match(c)
    /\ \E n \in 0 .. c.end - c.at :
         LET r == encode_state_run(n, c.melcstate) IN
         bits = r.bits /\ d = AfterRun(c, n, r.state)
Ahead(c, d) == c.plane # "done" /\ (PixelAhead(c, d) \/ RunAhead(c, d))

QuicInv ==
    /\ quicImage \in QuicImages /\ garbled \in BOOLEAN
    /\ outcome \in {"header", "body", "done", "refused", "short", "panic"}
    /\ outcome \in {"header", "refused"} => bits = <<>> /\ enc = dec /\ ~garbled
    /\ outcome = "body" =>
         /\ Width \in 1 .. MaxDim /\ Height \in 1 .. MaxDim
         /\ Coder(enc) /\ Clean(enc) /\ Coder(dec)
    /\ garbled => bits \in Seq(Bit)
    /\ ~garbled => /\ spare = 0 /\ outcome \notin {"short", "panic"}
                   /\ outcome = "body" => Clean(dec)
                   /\ bits = <<>> => dec = enc
                   /\ bits # <<>> => outcome = "body" /\ Ahead(dec, enc)

-----------------------------------------------------------------------------
\* The depths of the planes, and what the tables of a depth are made of.
LEMMA DepthFacts ==
    ASSUME NEW plane
    PROVE  LET bpc == Bpc(plane) IN
           /\ bpc \in {Bpc8, Bpc5} /\ bpc \in Nat \ {0} /\ bpc \in 1 .. MaxCodeLen
           /\ 2^bpc \in Nat \ {0} /\ 2^bpc <= XlatSize
           /\ bppmask(bpc) = 2^bpc - 1 /\ Symbols(bpc) = 0 .. 2^bpc - 1
           /\ \A n \in Symbols(bpc) : find_bucket(bpc, n) \in Buckets(bpc)
           /\ \A l \in Codes(bpc) : 2^l \in Nat \ {0} /\ not_gr_cwlen(bpc, l) \in Nat
  <1> DEFINE bpc == Bpc(plane)
  <1>1. bpc \in {Bpc8, Bpc5} /\ bpc \in 1 .. MaxCodeLen /\ 2^bpc <= XlatSize
    BY QuicAssumption DEF Bpc
  <1> HIDE DEF bpc
  <1>2. bpc \in Nat \ {0}
    BY <1>1, QuicCodeAssumption
  <1>3. 2^bpc \in Nat \ {0}
    BY <1>2, PowerFacts
  <1>4. bppmask(bpc) = 2^bpc - 1 /\ Symbols(bpc) = 0 .. 2^bpc - 1
    BY DEF Symbols, bppmask
  <1>5. ASSUME NEW n \in Symbols(bpc) PROVE find_bucket(bpc, n) \in Buckets(bpc)
    <2> DEFINE p == 2^bpc
    <2>1. p \in Nat \ {0} /\ n \in 0 .. p - 1
      BY <1>3, <1>4
    <2> HIDE DEF p
    <2>2. n \in Nat
      BY <2>1
    <2> QED BY <1>2, <2>2, BucketFound
  <1>6. ASSUME NEW l \in Codes(bpc) PROVE 2^l \in Nat \ {0} /\ not_gr_cwlen(bpc, l) \in Nat
    <2>1. l \in 0 .. bpc - 1 /\ not_gr_cwlen(bpc, l) \in 1 .. MaxCodeLen
      BY <1>1, FamilyFacts
    <2>2. l \in Nat /\ not_gr_cwlen(bpc, l) \in Nat
      BY <1>2, <2>1
    <2> QED BY <2>2, PowerFacts
  <1> QED BY <1>1, <1>2, <1>3, <1>4, <1>5, <1>6 DEF bpc

\* The model of a bucket counts in numbers, and always has a code to offer.
LEMMA ModelFacts ==
    ASSUME NEW plane, NEW trigger \in Nat, NEW n \in Nat, NEW bucket \in Bucket(Bpc(plane))
    PROVE  update_model(Bpc(plane), trigger, bucket, n) \in Bucket(Bpc(plane))
  <1> DEFINE bpc == Bpc(plane)
             sums == [l \in Codes(bpc) |-> bucket.counters[l] + golomb_code_len(bpc, n, l)]
             Best(l) == /\ \A m \in Codes(bpc) : sums[l] <= sums[m]
                        /\ \A m \in l + 1 .. bpc - 1 : sums[l] < sums[m]
             best == CHOOSE l \in Codes(bpc) : Best(l)
  <1>1. bpc \in Nat \ {0} /\ bucket.counters \in [Codes(bpc) -> Nat]
    BY DepthFacts DEF Bucket
  <1>2. ASSUME NEW l \in Codes(bpc) PROVE golomb_code_len(bpc, n, l) \in Nat
    <2>1. 2^l \in Nat \ {0} /\ not_gr_cwlen(bpc, l) \in Nat /\ l \in Nat
      BY DepthFacts, <1>1 DEF Codes
    <2>2. n \div 2^l \in Nat
      <3> DEFINE b == 2^l
      <3>1. b \in Nat \ {0}
        BY <2>1
      <3> HIDE DEF b
      <3>2. n \div b \in Nat
        BY <3>1
      <3> QED BY <3>2 DEF b
    <2> QED BY <2>1, <2>2 DEF golomb_code_len
  <1>3. sums \in [Codes(bpc) -> Nat]
    BY <1>1, <1>2
  <1> HIDE DEF sums
  <1>4. \E l \in Codes(bpc) : Best(l)
    <2> DEFINE T == {sums[l] : l \in Codes(bpc)}
               Cheapest(l) == \A m \in Codes(bpc) : sums[l] <= sums[m]
               U == {bpc - 1 - l : l \in {c \in Codes(bpc) : Cheapest(c)}}
    <2>1. PICK x \in T : \A y \in T : x <= y
      <3>1. T \subseteq Nat
        BY <1>3
      <3>2. sums[0] \in T
        BY <1>1 DEF Codes
      <3> QED BY <3>1, <3>2, LeastNumber
    <2>2. PICK c \in Codes(bpc) : Cheapest(c)
      BY <2>1
    <2>3. U \subseteq Nat /\ bpc - 1 - c \in U
      BY <1>1, <2>2 DEF Codes
    <2>4. PICK u \in U : \A w \in U : u <= w
      BY <2>3, LeastNumber
    <2>5. PICK l \in Codes(bpc) : Cheapest(l) /\ u = bpc - 1 - l
      OBVIOUS
    <2>6. ASSUME NEW m \in l + 1 .. bpc - 1 PROVE sums[l] < sums[m]
      <3>1. m \in Codes(bpc) /\ l \in Int /\ m > l
        BY <1>1 DEF Codes
      <3>2. ~Cheapest(m)
        <4>1. Cheapest(m) => bpc - 1 - m \in U
          BY <3>1
        <4>2. ~(u <= bpc - 1 - m)
          BY <1>1, <2>5, <3>1
        <4> QED BY <2>4, <4>1, <4>2
      <3>3. PICK k \in Codes(bpc) : ~(sums[m] <= sums[k])
        BY <3>2
      <3>4. sums[l] <= sums[k] /\ sums[l] \in Nat /\ sums[k] \in Nat /\ sums[m] \in Nat
        BY <1>3, <2>5, <3>1
      <3> QED BY <3>3, <3>4
    <2> QED BY <2>5, <2>6
  <1> HIDE DEF Best
  <1>5. best \in Codes(bpc)
    BY <1>4
  <1>6. update_model(bpc, trigger, bucket, n)
            = [counters |-> [l \in Codes(bpc) |->
                               IF sums[best] > trigger THEN sums[l] \div 2 ELSE sums[l]],
               bestcode |-> best]
    BY DEF update_model, sums, Best
  <1>7. [l \in Codes(bpc) |-> IF sums[best] > trigger THEN sums[l] \div 2 ELSE sums[l]]
            \in [Codes(bpc) -> Nat]
    <2>1. \A x \in Nat : x \div 2 \in Nat
      OBVIOUS
    <2> QED BY <1>3, <2>1
  <1> QED BY <1>5, <1>6, <1>7 DEF Bucket

-----------------------------------------------------------------------------
(***************************************************************************)
(* How coders move on.                                                     *)
(***************************************************************************)
Sized == Width \in Nat \ {0} /\ Height \in Nat \ {0}
SegmentFields == {"start", "at", "grows", "run", "end", "stop"}

\* A segment begins where it is told to and ends in the row.
LEMMA SegmentFacts ==
    ASSUME Sized, NEW c, Kept(c), NEW pos \in 0 .. Width - 1
    PROVE  LET s == Segment(c, pos) IN
           /\ Placed(s) /\ s.at = pos /\ s.run = -1
           /\ \A f \in Fields \ SegmentFields : s[f] = c[f]
  <1> DEFINE grows == c.wmidx < MaxWm /\ c.wmileft <= Width - pos
             s == Segment(c, pos)
  <1>1. /\ s = [c EXCEPT !.start = pos, !.at = pos, !.grows = grows, !.run = -1,
                         !.end = IF grows THEN pos + c.wmileft ELSE Width,
                         !.stop = pos + c.waitcnt]
        /\ DOMAIN c = Fields
    BY DEF Segment, Kept
  <1>2. grows \in BOOLEAN
    OBVIOUS
  <1> HIDE DEF s, grows
  <1>3. /\ DOMAIN s = Fields /\ s.start = pos /\ s.at = pos /\ s.grows = grows /\ s.run = -1
        /\ s.end = IF grows THEN pos + c.wmileft ELSE Width
        /\ s.stop = pos + c.waitcnt
        /\ \A f \in Fields \ SegmentFields : s[f] = c[f]
    BY <1>1 DEF Fields, SegmentFields
  <1>4. \A f \in {"plane", "left", "row", "k", "waitcnt", "seed", "wmidx", "wmileft"} :
            f \in Fields \ SegmentFields
    BY DEF Fields, SegmentFields
  <1>5. /\ s.plane = c.plane /\ s.left = c.left /\ s.row = c.row /\ s.k = c.k
        /\ s.waitcnt = c.waitcnt /\ s.seed = c.seed /\ s.wmidx = c.wmidx
        /\ s.wmileft = c.wmileft
    BY <1>3, <1>4
  <1>6. Kept(s)
    BY <1>3, <1>5 DEF Kept
  <1>7. Bounds(s) /\ Position(s)
    <2>1. /\ Width \in Nat /\ MaxWm \in Nat /\ c.waitcnt \in Nat
          /\ c.wmidx \in 0 .. MaxWm /\ c.wmileft \in Nat \ {0}
      BY QuicAssumption DEF Sized, Kept
    <2>2. CASE grows
      <3>1. c.wmidx < MaxWm /\ c.wmileft <= Width - pos
        BY <2>2 DEF grows
      <3> QED BY <1>3, <1>5, <2>1, <2>2, <3>1 DEF Bounds, Position
    <2>3. CASE ~grows
      <3>1. c.wmidx < MaxWm => c.wmileft > Width - pos
        BY <2>1, <2>3 DEF grows
      <3>2. s.grows = FALSE /\ s.end = Width
        BY <1>2, <1>3, <2>3
      <3>3. Bounds(s)
        <4>1. s.start = pos /\ s.wmileft = c.wmileft /\ s.wmidx = c.wmidx
          BY <1>3, <1>5
        <4>2. s.grows \in BOOLEAN /\ ~s.grows
          BY <3>2, Zenon
        <4>3. /\ s.start \in Nat /\ s.end \in Nat /\ s.start < s.end /\ s.end <= Width
              /\ s.end = Width /\ (s.wmidx < MaxWm => s.wmileft > Width - s.start)
          BY <2>1, <3>1, <3>2, <4>1
        <4> QED BY <4>2, <4>3, Zenon DEF Bounds
      <3>4. Position(s)
        BY <1>3, <2>1, <3>2 DEF Position
      <3> QED BY <3>3, <3>4
    <2> QED BY <2>2, <2>3
  <1> QED BY <1>3, <1>6, <1>7 DEF Placed, s

\* It changes nothing about what adapts and what has been coded.
LEMMA SegmentKeeps ==
    ASSUME Sized, NEW c, Kept(c), NEW pos \in 0 .. Width - 1
    PROVE  LET s == Segment(c, pos) IN
           /\ Loose(c) => Loose(s)
           /\ Strict(c) => Strict(s)
           /\ s.plane = c.plane /\ s.row = c.row /\ s.k = c.k
  <1> DEFINE s == Segment(c, pos)
  <1>1. \A f \in Fields \ SegmentFields : s[f] = c[f]
    BY SegmentFacts
  <1> HIDE DEF s
  <1>2. \A f \in {"plane", "row", "k", "melcstate", "buckets", "corr", "minus1", "prev", "cur"} :
            f \in Fields \ SegmentFields
    BY DEF Fields, SegmentFields
  <1>3. /\ s.plane = c.plane /\ s.row = c.row /\ s.k = c.k /\ s.melcstate = c.melcstate
        /\ s.buckets = c.buckets /\ s.corr = c.corr /\ s.minus1 = c.minus1
        /\ s.prev = c.prev /\ s.cur = c.cur
    BY <1>1, <1>2
  <1>4. Loose(c) => Loose(s)
    BY <1>3 DEF Loose
  <1>5. Strict(c) => Strict(s)
    BY <1>3 DEF Strict
  <1> QED BY <1>3, <1>4, <1>5 DEF s

\* There are channels, and zero is a symbol of each.
LEMMA PlaneFacts ==
    ASSUME NEW plane \in DOMAIN Planes
    PROVE  /\ Len(Planes[plane]) \in Nat \ {0}
           /\ \A k \in 1 .. Len(Planes[plane]) : Planes[plane][k] \in Channels(plane)
           /\ 0 \in Symbols(Bpc(plane))
           /\ Symbols(Bpc(plane)) \subseteq Nat
           /\ Blank(plane) \in [Columns -> [Channels(plane) -> Symbols(Bpc(plane))]]
  <1>1. Planes[plane] \in Seq(STRING) /\ Planes[plane] # <<>>
    BY QuicAssumption
  <1>2. Len(Planes[plane]) \in Nat \ {0} /\ DOMAIN Planes[plane] = 1 .. Len(Planes[plane])
    BY <1>1, EmptySeq, LenProperties
  <1>3. 0 \in Symbols(Bpc(plane)) /\ Symbols(Bpc(plane)) \subseteq Nat
    BY DepthFacts
  <1> QED BY <1>2, <1>3 DEF Channels, Blank

\* A plane begins with nothing coded.
LEMMA FreshFacts ==
    ASSUME Sized, NEW plane \in DOMAIN Planes,
           NEW left, left = <<>> \/ (plane = "rgb" /\ left = <<"alpha">>)
    PROVE  LET c == FreshCoder(plane, left) IN
           Placed(c) /\ Loose(c) /\ Strict(c) /\ c.plane = plane /\ c.at = 0
  <1> DEFINE Zero == [ch \in Channels(plane) |-> 0]
             Row == [ch \in Channels(plane) |-> [x \in Columns |-> 0]]
             B == [ch \in Channels(plane) |-> [b \in Buckets(Bpc(plane)) |-> NewBucket(Bpc(plane))]]
             c == [plane |-> plane, left |-> left, row |-> 0, k |-> 1,
                   start |-> 0, at |-> 0, end |-> 0, grows |-> FALSE, stop |-> 0, run |-> -1,
                   waitcnt |-> 0, seed |-> Len(Chaos) - 1,
                   wmidx |-> 0, wmileft |-> MinExtent, melcstate |-> 0,
                   buckets |-> B, corr |-> Row, minus1 |-> Zero,
                   prev |-> Blank(plane), cur |-> Blank(plane)]
  <1>1. FreshCoder(plane, left) = Segment(c, 0)
    BY DEF FreshCoder
  <1> HIDE DEF Zero, Row, B
  <1>2. DOMAIN c = Fields
    BY DEF Fields
  <1>3. /\ c.plane = plane /\ c.left = left /\ c.row = 0 /\ c.k = 1 /\ c.waitcnt = 0
        /\ c.seed = Len(Chaos) - 1 /\ c.wmidx = 0 /\ c.wmileft = MinExtent
        /\ c.melcstate = 0 /\ c.buckets = B /\ c.corr = Row /\ c.minus1 = Zero
        /\ c.prev = Blank(plane) /\ c.cur = Blank(plane)
    OBVIOUS
  <1> HIDE DEF c
  <1>4. Len(Chaos) \in Nat \ {0} /\ MinExtent \in Nat \ {0} /\ MaxWm \in Nat
    BY QuicAssumption, EmptySeq
  <1>5. Kept(c)
    BY <1>2, <1>3, <1>4, PlaneFacts DEF Kept, Sized
  <1>6. /\ 0 \in Symbols(Bpc(plane)) /\ Symbols(Bpc(plane)) \subseteq Nat
        /\ Blank(plane) \in [Columns -> [Channels(plane) -> Symbols(Bpc(plane))]]
    BY PlaneFacts
  <1>7. /\ Zero \in [Channels(plane) -> Symbols(Bpc(plane))]
        /\ Row \in [Channels(plane) -> [Columns -> Symbols(Bpc(plane))]]
    BY <1>6 DEF Zero, Row
  <1>8. /\ Zero \in [Channels(plane) -> Nat]
        /\ Row \in [Channels(plane) -> [Columns -> Nat]]
    BY DEF Zero, Row
  <1>9. Strict(c)
    BY <1>3, <1>6, <1>7 DEF Strict
  <1>10. Loose(c)
    <2>1. 0 \in States
      <3>1. Len(JTable) \in Nat \ {0}
        BY QuicCodeAssumption, EmptySeq
      <3> QED BY <3>1 DEF States
    <2>2. NewBucket(Bpc(plane)) \in Bucket(Bpc(plane))
      <3>1. Bpc(plane) - 1 \in Codes(Bpc(plane))
        BY DepthFacts DEF Codes
      <3> QED BY <3>1 DEF NewBucket, Bucket
    <2>3. B \in [Channels(plane) -> [Buckets(Bpc(plane)) -> Bucket(Bpc(plane))]]
      BY <2>2 DEF B
    <2> QED BY <1>3, <1>8, <2>1, <2>3 DEF Loose
  <1>11. 0 \in 0 .. Width - 1
    BY DEF Sized
  <1> QED BY <1>1, <1>3, <1>5, <1>9, <1>10, <1>11, SegmentFacts, SegmentKeeps

\* The last row of a plane leads to the next one, or to the end.
LEMMA NextPlaneFacts ==
    ASSUME Sized, NEW c, Kept(c)
    PROVE  LET d == NextPlane(c) IN Coder(d) /\ Clean(d) /\ d.plane # c.plane
  <1>1. CASE c.left = <<>>
    <2>1. NextPlane(c) = [c EXCEPT !.plane = "done"] /\ DOMAIN c = Fields
      BY <1>1 DEF NextPlane, Kept
    <2>2. NextPlane(c).plane = "done"
      BY <2>1 DEF Fields
    <2>3. c.plane # "done"
      BY QuicAssumption DEF Kept
    <2> QED BY <2>2, <2>3 DEF Coder, Clean
  <1>2. CASE c.left # <<>>
    <2>1. c.plane = "rgb" /\ c.left = <<"alpha">>
      BY <1>2 DEF Kept
    <2>2. Head(c.left) = "alpha" /\ Tail(c.left) = <<>>
      BY <2>1
    <2>3. NextPlane(c) = FreshCoder("alpha", <<>>)
      BY <1>2, <2>2 DEF NextPlane
    <2>4. "alpha" \in DOMAIN Planes
      BY QuicAssumption
    <2> QED BY <2>1, <2>3, <2>4, FreshFacts DEF Coder, Clean
  <1> QED BY <1>1, <1>2

\* A row that is over is the one above the next.
LEMMA NextRowFacts ==
    ASSUME Sized, NEW c, Kept(c), Loose(c)
    PROVE  LET d == NextRow(c) IN
           /\ Coder(d) /\ (Strict(c) => Clean(d))
           /\ d.plane # c.plane \/ d.row > c.row
  <1>1. CASE c.row + 1 = Height
    BY <1>1, NextPlaneFacts DEF NextRow
  <1>2. CASE c.row + 1 # Height
    <2> DEFINE e == [c EXCEPT !.row = @ + 1, !.prev = c.cur, !.cur = Blank(c.plane),
                              !.minus1 = [ch \in DOMAIN @ |-> c.corr[ch][0]]]
    <2>1. NextRow(c) = Segment(e, 0)
      BY <1>2 DEF NextRow
    <2>2. DOMAIN c = Fields /\ c.plane \in DOMAIN Planes /\ c.row \in 0 .. Height - 1
      BY DEF Kept
    <2>3. /\ DOMAIN e = Fields /\ e.row = c.row + 1 /\ e.prev = c.cur
          /\ e.cur = Blank(c.plane)
          /\ e.minus1 = [ch \in DOMAIN c.minus1 |-> c.corr[ch][0]]
          /\ e.plane = c.plane /\ e.left = c.left /\ e.k = c.k /\ e.waitcnt = c.waitcnt
          /\ e.seed = c.seed /\ e.wmidx = c.wmidx /\ e.wmileft = c.wmileft
          /\ e.melcstate = c.melcstate /\ e.buckets = c.buckets /\ e.corr = c.corr
      BY <2>2 DEF Fields
    <2> HIDE DEF e
    <2>4. Kept(e)
      BY <1>2, <2>2, <2>3 DEF Kept, Sized
    <2>5. 0 \in Columns /\ 0 \in 0 .. Width - 1
      BY DEF Columns, Sized
    <2>6. Loose(e)
      BY <2>3, <2>5 DEF Loose
    <2>7. Strict(c) => Strict(e)
      <3> SUFFICES ASSUME Strict(c) PROVE Strict(e)
        OBVIOUS
      <3>1. Blank(c.plane) \in [Columns -> [Channels(c.plane) -> Symbols(Bpc(c.plane))]]
        BY <2>2, PlaneFacts
      <3>2. e.minus1 \in [Channels(c.plane) -> Symbols(Bpc(c.plane))]
        BY <2>3, <2>5 DEF Strict
      <3> QED BY <2>3, <3>1, <3>2 DEF Strict
    <2>8. LET s == Segment(e, 0) IN
          Placed(s) /\ Loose(s) /\ (Strict(c) => Strict(s)) /\ s.row = e.row
      BY <2>4, <2>5, <2>6, <2>7, SegmentFacts, SegmentKeeps
    <2>9. e.row > c.row
      BY <2>2, <2>3
    <2> QED BY <2>1, <2>8, <2>9 DEF Coder, Clean
  <1> QED BY <1>1, <1>2

\* What remains to be seen of a coder at the end of its segment.
Onward(c, d) == d.plane # c.plane \/ d.row > c.row \/ (d.row = c.row /\ d.at = c.end)

\* The wait mask grows or comes nearer to growing, and the coder goes on to
\* the next segment or row.
LEMMA SegmentOverFacts ==
    ASSUME Sized, NEW c, Kept(c), Bounds(c), Loose(c)
    PROVE  LET d == SegmentOver(c) IN
           Coder(d) /\ (Strict(c) => Clean(d)) /\ Onward(c, d)
  <1> DEFINE e == IF c.grows THEN [c EXCEPT !.wmidx = @ + 1, !.wmileft = MinExtent]
                  ELSE IF c.wmidx < MaxWm THEN [c EXCEPT !.wmileft = @ - (c.end - c.start)]
                  ELSE c
  <1>1. SegmentOver(c) = NextSegment(e)
    BY DEF SegmentOver
  <1>2. /\ DOMAIN c = Fields /\ MinExtent \in Nat \ {0} /\ MaxWm \in Nat /\ Width \in Nat
        /\ c.wmidx \in 0 .. MaxWm /\ c.wmileft \in Nat \ {0}
        /\ c.start \in Nat /\ c.end \in Nat /\ c.end <= Width
    BY QuicAssumption DEF Kept, Bounds, Sized
  <1>3. /\ DOMAIN e = Fields
        /\ \A f \in Fields \ {"wmidx", "wmileft"} : e[f] = c[f]
        /\ e.wmidx \in 0 .. MaxWm /\ e.wmileft \in Nat \ {0}
    <2>1. CASE c.grows
      <3>1. e = [c EXCEPT !.wmidx = @ + 1, !.wmileft = MinExtent]
        BY <2>1
      <3>2. c.wmidx < MaxWm
        BY <2>1 DEF Bounds
      <3> HIDE DEF e
      <3>3. /\ DOMAIN e = Fields /\ e.wmidx = c.wmidx + 1 /\ e.wmileft = MinExtent
            /\ \A f \in Fields \ {"wmidx", "wmileft"} : e[f] = c[f]
        BY <1>2, <3>1 DEF Fields
      <3> QED BY <1>2, <3>2, <3>3
    <2>2. CASE ~c.grows /\ c.wmidx < MaxWm
      <3>1. e = [c EXCEPT !.wmileft = @ - (c.end - c.start)]
        BY <2>2
      <3>2. c.end = Width /\ c.wmileft > Width - c.start
        BY <2>2 DEF Bounds
      <3> HIDE DEF e
      <3>3. /\ DOMAIN e = Fields /\ e.wmidx = c.wmidx
            /\ e.wmileft = c.wmileft - (c.end - c.start)
            /\ \A f \in Fields \ {"wmidx", "wmileft"} : e[f] = c[f]
        BY <1>2, <3>1 DEF Fields
      <3> QED BY <1>2, <3>2, <3>3
    <2>3. CASE ~c.grows /\ ~(c.wmidx < MaxWm)
      BY <1>2, <2>3
    <2> QED BY <2>1, <2>2, <2>3
  <1> HIDE DEF e
  <1>4. \A f \in {"plane", "left", "row", "k", "waitcnt", "seed", "melcstate", "buckets",
                  "corr", "minus1", "prev", "cur", "start", "end"} :
            f \in Fields \ {"wmidx", "wmileft"}
    BY DEF Fields
  <1>5. /\ e.plane = c.plane /\ e.left = c.left /\ e.row = c.row /\ e.k = c.k
        /\ e.waitcnt = c.waitcnt /\ e.seed = c.seed /\ e.melcstate = c.melcstate
        /\ e.buckets = c.buckets /\ e.corr = c.corr /\ e.minus1 = c.minus1
        /\ e.prev = c.prev /\ e.cur = c.cur /\ e.start = c.start /\ e.end = c.end
    BY <1>3, <1>4
  <1>6. Kept(e)
    BY <1>3, <1>5 DEF Kept
  <1>7. Loose(e)
    BY <1>5 DEF Loose
  <1>8. Strict(c) => Strict(e)
    BY <1>5 DEF Strict
  <1>9. CASE e.end = Width
    <2>1. SegmentOver(c) = NextRow(e)
      BY <1>1, <1>9 DEF NextSegment
    <2> QED BY <1>5, <1>6, <1>7, <1>8, <2>1, NextRowFacts DEF Onward
  <1>10. CASE e.end # Width
    <2>1. SegmentOver(c) = Segment(e, e.end)
      BY <1>1, <1>10 DEF NextSegment
    <2>2. e.end \in 0 .. Width - 1
      BY <1>2, <1>5, <1>10
    <2>3. LET s == Segment(e, e.end) IN
          /\ Placed(s) /\ Loose(s) /\ (Strict(c) => Strict(s))
          /\ s.row = c.row /\ s.at = c.end
      BY <1>5, <1>6, <1>7, <1>8, <2>2, SegmentFacts, SegmentKeeps
    <2> QED BY <2>1, <2>3 DEF Onward, Coder, Clean
  <1> QED BY <1>9, <1>10

\* The models of a pixel's channels adapt, and nothing else does.
LEMMA UpdateFacts ==
    ASSUME NEW c, Kept(c), Loose(c), NEW x \in Columns
    PROVE  LET d == update_models_at(c, x) IN
           /\ DOMAIN d = Fields /\ \A f \in Fields \ {"buckets"} : d[f] = c[f]
           /\ Loose(d)
  <1> DEFINE bpc == Bpc(c.plane)
             Ch == Channels(c.plane)
             t == Triggers[c.wmidx]
             d == update_models_at(c, x)
             New(ch) == Adapted(c, ch, x)
  <1>1. t \in Nat
    BY QuicAssumption DEF Kept
  <1>2. c.buckets \in [Ch -> [Buckets(bpc) -> Bucket(bpc)]] /\ c.corr \in [Ch -> [Columns -> Nat]]
    BY DEF Loose
  <1>3. d = [c EXCEPT !.buckets = [ch \in DOMAIN @ |-> New(ch)]] /\ DOMAIN c = Fields
    BY DEF update_models_at, Kept
  <1>4. ASSUME NEW ch \in Ch PROVE New(ch) \in [Buckets(bpc) -> Bucket(bpc)]
    <2> DEFINE b == find_bucket(bpc, Before(c, ch, x))
               v == update_model(bpc, t, c.buckets[ch][b], c.corr[ch][x])
    <2>1. New(ch) = [c.buckets[ch] EXCEPT ![b] = v]
      BY DEF Adapted
    <2>2. c.buckets[ch] \in [Buckets(bpc) -> Bucket(bpc)] /\ c.corr[ch][x] \in Nat
      BY <1>2
    <2>3. b \in Buckets(bpc) => v \in Bucket(bpc)
      <3>1. b \in Buckets(bpc) => c.buckets[ch][b] \in Bucket(bpc)
        BY <2>2
      <3> QED BY <1>1, <2>2, <3>1, ModelFacts
    <2> HIDE DEF b, v, New
    <2> QED BY <2>1, <2>2, <2>3
  <1> HIDE DEF New, d
  <1>5. /\ DOMAIN d = Fields /\ d.buckets = [ch \in DOMAIN c.buckets |-> New(ch)]
        /\ \A f \in Fields \ {"buckets"} : d[f] = c[f]
    BY <1>3 DEF Fields
  <1>6. d.buckets \in [Ch -> [Buckets(bpc) -> Bucket(bpc)]]
    BY <1>2, <1>4, <1>5
  <1>7. /\ d.plane = c.plane /\ d.melcstate = c.melcstate /\ d.corr = c.corr
        /\ d.minus1 = c.minus1
    <2>1. \A f \in {"plane", "melcstate", "corr", "minus1"} : f \in Fields \ {"buckets"}
      BY DEF Fields
    <2> QED BY <1>5, <2>1
  <1>8. Loose(d)
    BY <1>6, <1>7 DEF Loose
  <1> QED BY <1>5, <1>8 DEF d

\* What is drawn to wait for is a number.
LEMMA WaitFacts ==
    ASSUME NEW c, Kept(c)
    PROVE  NextSeed(c) \in 0 .. Len(Chaos) - 1 /\ Wait(c) \in Nat
  <1> DEFINE n == Len(Chaos)
             w == 2^c.wmidx
  <1>1. /\ Chaos \in Seq(Nat) /\ n \in Nat \ {0} /\ c.seed \in 0 .. n - 1
        /\ w \in Nat \ {0}
    <2>1. c.wmidx \in Nat /\ c.seed \in 0 .. n - 1
      BY QuicAssumption DEF Kept
    <2>2. Chaos \in Seq(Nat) /\ n \in Nat \ {0}
      BY QuicAssumption, EmptySeq
    <2> QED BY <2>1, <2>2, PowerFacts
  <1> HIDE DEF n, w
  <1>2. (c.seed + 1) % n \in 0 .. n - 1
    BY <1>1
  <1>3. NextSeed(c) \in 0 .. n - 1
    BY <1>2 DEF NextSeed, n
  <1>4. NextSeed(c) + 1 \in 1 .. Len(Chaos)
    BY <1>1, <1>3 DEF n
  <1>5. Chaos[NextSeed(c) + 1] \in Nat
    BY <1>1, <1>4, ElementOfSeq
  <1>6. Chaos[NextSeed(c) + 1] % w \in Nat
    BY <1>1, <1>5
  <1> QED BY <1>3, <1>6 DEF Wait, n, w

\* A pixel leads to the next one, which the coder adapts at or before.
LEMMA PixelOverFacts ==
    ASSUME Sized, NEW c, Placed(c), Loose(c)
    PROVE  LET p == PixelOver(c) IN
           /\ Kept(p) /\ Bounds(p) /\ Loose(p) /\ (Strict(c) => Strict(p))
           /\ p.plane = c.plane /\ p.row = c.row /\ p.end = c.end /\ p.run = c.run
           /\ p.start = c.start /\ p.at = c.at + 1 /\ p.stop \in Nat /\ p.at <= p.stop
  <1> DEFINE p == PixelOver(c)
             u == update_models_at(c, c.at)
  <1>1. DOMAIN c = Fields /\ c.at \in Columns
    BY DEF Placed, Kept, Position, Bounds, Columns, Sized
  <1>2. /\ DOMAIN u = Fields /\ \A f \in Fields \ {"buckets"} : u[f] = c[f]
        /\ Loose(u)
    BY <1>1, UpdateFacts DEF Placed
  <1>3. \A f \in Fields \ {"buckets"} : f \in Fields
    OBVIOUS
  <1>4. NextSeed(c) \in 0 .. Len(Chaos) - 1 /\ Wait(c) \in Nat
    BY WaitFacts DEF Placed
  <1>5. /\ c.at \in Nat /\ c.stop \in Nat /\ c.at <= c.stop /\ c.waitcnt \in Nat
        /\ c.seed \in 0 .. Len(Chaos) - 1
    BY DEF Placed, Position, Kept
  <1> DEFINE Steps(q) ==
                /\ DOMAIN q = Fields /\ q.seed \in 0 .. Len(Chaos) - 1 /\ q.waitcnt \in Nat
                /\ q.at = c.at + 1 /\ q.stop \in Nat /\ q.at <= q.stop
                /\ \A f \in Fields \ {"buckets", "seed", "waitcnt", "at", "stop"} : q[f] = c[f]
                /\ Loose(q)
  <1>6. ASSUME NEW q, DOMAIN q = Fields, Loose(u) \/ Loose(c),
               q.seed \in 0 .. Len(Chaos) - 1, q.waitcnt \in Nat,
               q.at = c.at + 1, q.stop \in Nat, q.at <= q.stop,
               \/ \A f \in Fields \ {"seed", "waitcnt", "at", "stop"} : q[f] = c[f]
               \/ \A f \in Fields \ {"seed", "waitcnt", "at", "stop"} : q[f] = u[f]
        PROVE  Steps(q)
    <2>1. \A f \in Fields \ {"buckets", "seed", "waitcnt", "at", "stop"} : q[f] = c[f]
      BY <1>2, <1>6
    <2>2. \A f \in {"plane", "melcstate", "buckets", "corr", "minus1"} :
              f \in Fields \ {"seed", "waitcnt", "at", "stop"}
      BY DEF Fields
    <2>3. Loose(q)
      <3>1. CASE \A f \in Fields \ {"seed", "waitcnt", "at", "stop"} : q[f] = c[f]
        <4>1. /\ q.plane = c.plane /\ q.melcstate = c.melcstate /\ q.buckets = c.buckets
              /\ q.corr = c.corr /\ q.minus1 = c.minus1
          BY <2>2, <3>1
        <4> QED BY <4>1 DEF Loose
      <3>2. CASE \A f \in Fields \ {"seed", "waitcnt", "at", "stop"} : q[f] = u[f]
        <4> HIDE DEF u
        <4>1. /\ q.plane = u.plane /\ q.melcstate = u.melcstate /\ q.buckets = u.buckets
              /\ q.corr = u.corr /\ q.minus1 = u.minus1
          BY <2>2, <3>2
        <4> QED BY <1>2, <4>1 DEF Loose
      <3> QED BY <1>6, <3>1, <3>2
    <2> QED BY <1>6, <2>1, <2>3
  <1>7. Steps(p)
    <2> HIDE DEF Steps, u
    <2>1. CASE c.at = 0 /\ c.waitcnt > 0
      <3> DEFINE q == [c EXCEPT !.waitcnt = @ - 1, !.at = 1, !.stop = c.waitcnt]
      <3>1. p = q
        BY <2>1 DEF PixelOver
      <3>2. /\ DOMAIN q = Fields /\ q.seed = c.seed /\ q.waitcnt = c.waitcnt - 1
            /\ q.at = 1 /\ q.stop = c.waitcnt
            /\ \A f \in Fields \ {"seed", "waitcnt", "at", "stop"} : q[f] = c[f]
        BY <1>1 DEF Fields
      <3> HIDE DEF q, p
      <3>3. q.waitcnt \in Nat /\ q.at = c.at + 1 /\ q.stop \in Nat /\ q.at <= q.stop
        BY <1>5, <2>1, <3>2
      <3>4. Steps(q)
        BY <1>5, <1>6, <3>2, <3>3
      <3> QED BY <3>1, <3>4
    <2>2. CASE c.at = 0 /\ ~(c.waitcnt > 0)
      <3> DEFINE q == [u EXCEPT !.seed = NextSeed(c), !.waitcnt = Wait(c), !.at = 1,
                                !.stop = 1 + Wait(c)]
      <3>1. p = q
        BY <2>2 DEF PixelOver, u
      <3> HIDE DEF p
      <3>2. /\ DOMAIN q = Fields /\ q.seed = NextSeed(c) /\ q.waitcnt = Wait(c)
            /\ q.at = 1 /\ q.stop = 1 + Wait(c)
            /\ \A f \in Fields \ {"seed", "waitcnt", "at", "stop"} : q[f] = u[f]
        BY <1>2 DEF Fields
      <3> HIDE DEF q
      <3>3. q.waitcnt \in Nat /\ q.at = c.at + 1 /\ q.stop \in Nat /\ q.at <= q.stop
        BY <1>4, <2>2, <3>2
      <3>4. Steps(q)
        BY <1>2, <1>4, <1>6, <3>2, <3>3
      <3> QED BY <3>1, <3>4
    <2>3. CASE c.at # 0 /\ c.at = c.stop
      <3> DEFINE q == [u EXCEPT !.seed = NextSeed(c), !.at = @ + 1,
                                !.stop = c.at + 1 + Wait(c)]
      <3>1. p = q
        BY <2>3 DEF PixelOver, u
      <3> HIDE DEF p
      <3>2. /\ DOMAIN q = Fields /\ q.seed = NextSeed(c) /\ q.waitcnt = u.waitcnt
            /\ q.at = u.at + 1 /\ q.stop = c.at + 1 + Wait(c)
            /\ \A f \in Fields \ {"seed", "waitcnt", "at", "stop"} : q[f] = u[f]
        BY <1>2 DEF Fields
      <3> HIDE DEF q
      <3>3. u.at = c.at /\ u.waitcnt = c.waitcnt
        <4>1. "at" \in Fields \ {"buckets"} /\ "waitcnt" \in Fields \ {"buckets"}
          BY DEF Fields
        <4> QED BY <1>2, <4>1
      <3>4. q.waitcnt \in Nat /\ q.at = c.at + 1 /\ q.stop \in Nat /\ q.at <= q.stop
        BY <1>4, <1>5, <2>3, <3>2, <3>3
      <3>5. Steps(q)
        BY <1>2, <1>4, <1>6, <3>2, <3>4
      <3> QED BY <3>1, <3>5
    <2>4. CASE c.at # 0 /\ c.at # c.stop
      <3> DEFINE q == [c EXCEPT !.at = @ + 1]
      <3>1. p = q
        BY <2>4 DEF PixelOver
      <3> HIDE DEF p
      <3>2. /\ DOMAIN q = Fields /\ q.seed = c.seed /\ q.waitcnt = c.waitcnt
            /\ q.at = c.at + 1 /\ q.stop = c.stop
            /\ \A f \in Fields \ {"seed", "waitcnt", "at", "stop"} : q[f] = c[f]
        BY <1>1 DEF Fields
      <3> HIDE DEF q
      <3>3. q.waitcnt \in Nat /\ q.stop \in Nat /\ q.at <= q.stop
        BY <1>5, <2>4, <3>2
      <3>4. Steps(q)
        BY <1>5, <1>6, <3>2, <3>3
      <3> QED BY <3>1, <3>4
    <2> QED BY <2>1, <2>2, <2>3, <2>4
  <1> HIDE DEF p
  <1>8. \A f \in {"plane", "left", "row", "k", "start", "end", "grows", "run", "wmidx",
                  "wmileft", "corr", "minus1", "prev", "cur"} :
            f \in Fields \ {"buckets", "seed", "waitcnt", "at", "stop"}
    BY DEF Fields
  <1>9. /\ p.plane = c.plane /\ p.left = c.left /\ p.row = c.row /\ p.k = c.k
        /\ p.start = c.start /\ p.end = c.end /\ p.grows = c.grows /\ p.run = c.run
        /\ p.wmidx = c.wmidx /\ p.wmileft = c.wmileft /\ p.corr = c.corr
        /\ p.minus1 = c.minus1 /\ p.prev = c.prev /\ p.cur = c.cur
    BY <1>7, <1>8
  <1>10. Kept(p)
    BY <1>7, <1>9 DEF Placed, Kept
  <1>11. Bounds(p)
    BY <1>9 DEF Placed, Bounds
  <1>12. Strict(c) => Strict(p)
    BY <1>9 DEF Strict
  <1> QED BY <1>7, <1>9, <1>10, <1>11, <1>12 DEF p

\* A symbol has been coded: further on in the row, or in another.
Advanced(c, d) == d.plane # c.plane \/ d.row > c.row \/ (d.row = c.row /\ d.at > c.at)

\* The next pixel, of this segment, of the next, of the next row or plane.
LEMMA AfterPixelFacts ==
    ASSUME Sized, NEW c, Placed(c), Loose(c)
    PROVE  LET d == AfterPixel(c) IN
           Coder(d) /\ (Strict(c) => Clean(d)) /\ Advanced(c, d)
  <1> DEFINE p == PixelOver(c)
             e == [p EXCEPT !.waitcnt = p.stop - p.end]
  <1>1. /\ Kept(p) /\ Bounds(p) /\ Loose(p) /\ (Strict(c) => Strict(p))
        /\ p.plane = c.plane /\ p.row = c.row /\ p.end = c.end /\ p.run = c.run
        /\ p.start = c.start /\ p.at = c.at + 1 /\ p.stop \in Nat /\ p.at <= p.stop
    BY PixelOverFacts
  <1>2. AfterPixel(c) = IF p.at = p.end THEN SegmentOver(e) ELSE p
    BY DEF AfterPixel
  <1>3. /\ c.at \in Nat /\ c.end \in Nat /\ c.at < c.end /\ c.start \in Nat /\ c.start <= c.at
        /\ c.run \in Int /\ c.run <= c.at
    BY DEF Placed, Position, Bounds
  <1> HIDE DEF p
  <1>4. CASE p.at = p.end
    <2>1. DOMAIN p = Fields
      BY <1>1 DEF Kept
    <2>2. /\ DOMAIN e = Fields /\ e.waitcnt = p.stop - p.end
          /\ \A f \in Fields \ {"waitcnt"} : e[f] = p[f]
      BY <2>1 DEF Fields
    <2> HIDE DEF e
    <2>3. \A f \in {"plane", "left", "row", "k", "seed", "wmidx", "wmileft", "start", "end",
                    "grows", "melcstate", "buckets", "corr", "minus1", "prev", "cur"} :
              f \in Fields \ {"waitcnt"}
      BY DEF Fields
    <2>4. /\ e.plane = p.plane /\ e.left = p.left /\ e.row = p.row /\ e.k = p.k
          /\ e.seed = p.seed /\ e.wmidx = p.wmidx /\ e.wmileft = p.wmileft
          /\ e.start = p.start /\ e.end = p.end /\ e.grows = p.grows
          /\ e.melcstate = p.melcstate /\ e.buckets = p.buckets /\ e.corr = p.corr
          /\ e.minus1 = p.minus1 /\ e.prev = p.prev /\ e.cur = p.cur
      BY <2>2, <2>3
    <2>5. e.waitcnt \in Nat
      BY <1>1, <1>3, <1>4, <2>2
    <2>6. Kept(e)
      BY <1>1, <2>2, <2>4, <2>5 DEF Kept
    <2>7. Bounds(e)
      BY <1>1, <2>4 DEF Bounds
    <2>8. Loose(e) /\ (Strict(c) => Strict(e))
      <3>1. Loose(e)
        BY <1>1, <2>4 DEF Loose
      <3>2. Strict(p) => Strict(e)
        BY <2>4 DEF Strict
      <3> QED BY <1>1, <3>1, <3>2
    <2> DEFINE d == SegmentOver(e)
    <2>9. Coder(d) /\ (Strict(e) => Clean(d)) /\ Onward(e, d)
      BY <2>6, <2>7, <2>8, SegmentOverFacts
    <2> HIDE DEF d
    <2>10. Advanced(c, d)
      BY <1>1, <1>3, <2>4, <2>9 DEF Onward, Advanced
    <2>11. AfterPixel(c) = d
      BY <1>2, <1>4 DEF d
    <2> QED BY <2>8, <2>9, <2>10, <2>11
  <1>5. CASE p.at # p.end
    <2>1. AfterPixel(c) = p
      BY <1>2, <1>5
    <2>2. p.start \in Nat /\ p.end \in Nat /\ p.start < p.end /\ p.start = c.start
      BY <1>1 DEF Bounds
    <2>3. Position(p)
      BY <1>1, <1>3, <1>5, <2>2 DEF Position
    <2> QED BY <1>1, <1>3, <2>1, <2>3 DEF Coder, Clean, Advanced, Placed
  <1> QED BY <1>4, <1>5

\* Behind a codeword the coder is at the next channel or further.
LEMMA AfterChannelFacts ==
    ASSUME Sized, NEW c, Placed(c), Loose(c)
    PROVE  LET d == AfterChannel(c) IN
           Coder(d) /\ (Strict(c) => Clean(d)) /\ LeadsOn(c, d)
  <1> DEFINE At(k) == [c EXCEPT !.k = k]
             len == Len(Planes[c.plane])
  <1>1. DOMAIN c = Fields /\ c.k \in 1 .. len /\ len \in Nat \ {0} /\ c.row \in Int /\ c.at \in Int
    BY PlaneFacts DEF Placed, Kept, Position, Sized
  <1>2. ASSUME NEW k \in 1 .. len
        PROVE  /\ Placed(At(k)) /\ Loose(At(k)) /\ (Strict(c) => Strict(At(k)))
               /\ At(k).plane = c.plane /\ At(k).row = c.row /\ At(k).at = c.at /\ At(k).k = k
    <2> DEFINE e == At(k)
    <2>1. DOMAIN e = Fields /\ e.k = k /\ \A f \in Fields \ {"k"} : e[f] = c[f]
      BY <1>1 DEF Fields
    <2>2. \A f \in Fields \ {"k"} : f \in Fields
      OBVIOUS
    <2> HIDE DEF e
    <2>3. \A f \in {"plane", "left", "row", "waitcnt", "seed", "wmidx", "wmileft", "start",
                    "at", "end", "grows", "stop", "run", "melcstate", "buckets", "corr",
                    "minus1", "prev", "cur"} : f \in Fields \ {"k"}
      BY DEF Fields
    <2>4. /\ e.plane = c.plane /\ e.left = c.left /\ e.row = c.row /\ e.waitcnt = c.waitcnt
          /\ e.seed = c.seed /\ e.wmidx = c.wmidx /\ e.wmileft = c.wmileft
          /\ e.start = c.start /\ e.at = c.at /\ e.end = c.end /\ e.grows = c.grows
          /\ e.stop = c.stop /\ e.run = c.run
          /\ e.melcstate = c.melcstate /\ e.buckets = c.buckets /\ e.corr = c.corr
          /\ e.minus1 = c.minus1 /\ e.prev = c.prev /\ e.cur = c.cur
      BY <2>1, <2>3
    <2>5. Kept(e)
      BY <2>1, <2>4 DEF Kept, Placed
    <2>6. Bounds(e)
      BY <2>4 DEF Bounds, Placed
    <2>7. Position(e)
      BY <2>4 DEF Position, Placed
    <2>8. Loose(e) /\ (Strict(c) => Strict(e))
      <3>1. Loose(e)
        BY <2>4 DEF Loose
      <3>2. Strict(c) => Strict(e)
        BY <2>4 DEF Strict
      <3> QED BY <3>1, <3>2
    <2> QED BY <2>1, <2>4, <2>5, <2>6, <2>7, <2>8 DEF Placed, e
  <1> HIDE DEF At
  <1>3. CASE c.k < len
    <2> DEFINE d == At(c.k + 1)
    <2>1. AfterChannel(c) = d
      BY <1>1, <1>3 DEF AfterChannel, At
    <2>2. c.k + 1 \in 1 .. len
      BY <1>1, <1>3
    <2>3. /\ Placed(d) /\ Loose(d) /\ (Strict(c) => Strict(d))
          /\ d.plane = c.plane /\ d.row = c.row /\ d.at = c.at /\ d.k = c.k + 1
      BY <1>2, <2>2
    <2> HIDE DEF d
    <2>4. d.k > c.k
      BY <1>1, <2>3
    <2> QED BY <2>1, <2>3, <2>4 DEF Coder, Clean, LeadsOn
  <1>4. CASE ~(c.k < len)
    <2> DEFINE e == At(1)
               d == AfterPixel(e)
    <2>1. AfterChannel(c) = d
      BY <1>4 DEF AfterChannel, At
    <2>2. 1 \in 1 .. len
      BY <1>1
    <2>3. /\ Placed(e) /\ Loose(e) /\ (Strict(c) => Strict(e))
          /\ e.plane = c.plane /\ e.row = c.row /\ e.at = c.at
      BY <1>2, <2>2
    <2> HIDE DEF e
    <2>4. Coder(d) /\ (Strict(e) => Clean(d)) /\ Advanced(e, d)
      BY <2>3, AfterPixelFacts
    <2> HIDE DEF d
    <2> QED BY <2>1, <2>3, <2>4 DEF Advanced, LeadsOn
  <1> QED BY <1>3, <1>4

\* So it is behind a channel that has been coded, whatever was coded.
LEMMA CodedFacts ==
    ASSUME Sized, NEW c, Placed(c), Loose(c), NEW ch \in Channels(c.plane),
           NEW residual \in Nat, NEW value
    PROVE  LET d == Coded(c, ch, residual, value)
               S == Symbols(Bpc(c.plane))
           IN  /\ Coder(d) /\ LeadsOn(c, d)
               /\ Strict(c) /\ residual \in S /\ value \in S => Clean(d)
  <1> DEFINE S == Symbols(Bpc(c.plane))
             Ch == Channels(c.plane)
             corr == [c.corr EXCEPT ![ch] = [c.corr[ch] EXCEPT ![c.at] = residual]]
             cur == [c.cur EXCEPT ![c.at] = [c.cur[c.at] EXCEPT ![ch] = value]]
             e == [c EXCEPT !.corr = corr, !.cur = cur]
  <1>1. Coded(c, ch, residual, value) = AfterChannel(e)
    BY DEF Coded
  <1>2. DOMAIN c = Fields /\ c.at \in Columns
    BY DEF Placed, Kept, Position, Bounds, Columns, Sized
  <1>3. c.corr \in [Ch -> [Columns -> Nat]]
    BY DEF Loose
  <1>4. corr \in [Ch -> [Columns -> Nat]]
    BY <1>2, <1>3
  <1>5. ASSUME Strict(c), residual \in S, value \in S
        PROVE  corr \in [Ch -> [Columns -> S]] /\ cur \in [Columns -> [Ch -> S]]
    <2> HIDE DEF S, Ch
    <2>1. c.corr \in [Ch -> [Columns -> S]] /\ c.cur \in [Columns -> [Ch -> S]] /\ ch \in Ch
      BY <1>5 DEF Strict, S, Ch
    <2> QED BY <1>2, <1>5, <2>1
  <1> HIDE DEF corr, cur
  <1>6. /\ DOMAIN e = Fields /\ e.corr = corr /\ e.cur = cur
        /\ \A f \in Fields \ {"corr", "cur"} : e[f] = c[f]
    BY <1>2 DEF Fields
  <1> HIDE DEF e
  <1>7. \A f \in {"plane", "left", "row", "k", "waitcnt", "seed", "wmidx", "wmileft", "start",
                  "at", "end", "grows", "stop", "run", "melcstate", "buckets", "minus1",
                  "prev"} : f \in Fields \ {"corr", "cur"}
    BY DEF Fields
  <1>8. /\ e.plane = c.plane /\ e.left = c.left /\ e.row = c.row /\ e.k = c.k
        /\ e.waitcnt = c.waitcnt
        /\ e.seed = c.seed /\ e.wmidx = c.wmidx /\ e.wmileft = c.wmileft
        /\ e.start = c.start /\ e.at = c.at /\ e.end = c.end /\ e.grows = c.grows
        /\ e.stop = c.stop /\ e.run = c.run
        /\ e.melcstate = c.melcstate /\ e.buckets = c.buckets
        /\ e.minus1 = c.minus1 /\ e.prev = c.prev
    BY <1>6, <1>7
  <1>9. Placed(e)
    <2>1. Kept(e)
      BY <1>6, <1>8 DEF Kept, Placed
    <2>2. Bounds(e)
      BY <1>8 DEF Bounds, Placed
    <2>3. Position(e)
      BY <1>8 DEF Position, Placed
    <2> QED BY <2>1, <2>2, <2>3 DEF Placed
  <1>10. Loose(e)
    BY <1>4, <1>6, <1>8 DEF Loose
  <1>11. Strict(c) /\ residual \in S /\ value \in S => Strict(e)
    BY <1>5, <1>6, <1>8 DEF Strict
  <1> DEFINE d == AfterChannel(e)
  <1>12. Coder(d) /\ (Strict(e) => Clean(d)) /\ LeadsOn(e, d)
    BY <1>9, <1>10, AfterChannelFacts
  <1> HIDE DEF d
  <1>13. LeadsOn(c, d)
    BY <1>8, <1>12 DEF LeadsOn
  <1>14. Coded(c, ch, residual, value) = d
    BY <1>1 DEF d
  <1> QED BY <1>11, <1>12, <1>13, <1>14

\* A run leads on, or it is empty and there was none before it here.
LEMMA AfterRunFacts ==
    ASSUME Sized, NEW c, Placed(c), Loose(c), c.at > 0, c.run # c.at,
           NEW n \in 0 .. c.end - c.at, NEW state \in States
    PROVE  LET d == AfterRun(c, n, state) IN
           Coder(d) /\ (Strict(c) => Clean(d)) /\ LeadsOn(c, d)
  <1> DEFINE copied == Copied(c, n)
             r == [c EXCEPT !.waitcnt = c.stop - c.at, !.run = c.at, !.melcstate = state,
                            !.cur = copied, !.at = @ + n]
             New == {"waitcnt", "run", "melcstate", "cur", "at"}
  <1>1. AfterRun(c, n, state)
          = IF r.at = r.end THEN SegmentOver(r) ELSE [r EXCEPT !.stop = r.at + r.waitcnt]
    BY DEF AfterRun
  <1>2. /\ DOMAIN c = Fields /\ c.at \in Nat \ {0} /\ c.end \in Nat /\ c.at < c.end
        /\ c.start \in Nat /\ c.start <= c.at /\ c.end <= Width /\ Width \in Nat
        /\ c.stop \in Nat /\ c.at <= c.stop /\ c.row \in Int
    BY DEF Placed, Kept, Position, Bounds, Sized
  <1>3. Strict(c) => copied \in [Columns -> [Channels(c.plane) -> Symbols(Bpc(c.plane))]]
    <2> DEFINE T == [Channels(c.plane) -> Symbols(Bpc(c.plane))]
    <2>1. Strict(c) => c.cur \in [Columns -> T]
      BY DEF Strict
    <2>2. c.at - 1 \in Columns
      BY <1>2 DEF Columns
    <2> HIDE DEF T
    <2>3. c.cur \in [Columns -> T] => copied \in [Columns -> T]
      BY <2>2 DEF Copied
    <2> QED BY <2>1, <2>3 DEF T
  <1> HIDE DEF copied
  <1>4. /\ DOMAIN r = Fields /\ r.waitcnt = c.stop - c.at /\ r.run = c.at
        /\ r.melcstate = state /\ r.cur = copied /\ r.at = c.at + n
        /\ \A f \in Fields \ New : r[f] = c[f]
    BY <1>2 DEF Fields
  <1>5. \A f \in {"plane", "left", "row", "k", "seed", "wmidx", "wmileft", "start", "end",
                  "grows", "stop", "buckets", "corr", "minus1", "prev"} : f \in Fields \ New
    BY DEF Fields
  <1> HIDE DEF r
  <1>6. /\ r.plane = c.plane /\ r.left = c.left /\ r.row = c.row /\ r.k = c.k
        /\ r.seed = c.seed /\ r.wmidx = c.wmidx /\ r.wmileft = c.wmileft
        /\ r.start = c.start /\ r.end = c.end /\ r.grows = c.grows /\ r.stop = c.stop
        /\ r.buckets = c.buckets /\ r.corr = c.corr /\ r.minus1 = c.minus1
        /\ r.prev = c.prev
    BY <1>4, <1>5
  <1>7. r.waitcnt \in Nat
    BY <1>2, <1>4
  <1>8. Kept(r)
    BY <1>4, <1>6, <1>7 DEF Placed, Kept
  <1>9. Bounds(r)
    BY <1>6 DEF Placed, Bounds
  <1>10. Loose(r)
    BY <1>4, <1>6 DEF Loose
  <1>11. Strict(c) => Strict(r)
    BY <1>3, <1>4, <1>6 DEF Strict
  <1>12. CASE r.at = r.end
    <2> DEFINE d == SegmentOver(r)
    <2>1. Coder(d) /\ (Strict(r) => Clean(d)) /\ Onward(r, d)
      BY <1>8, <1>9, <1>10, SegmentOverFacts
    <2>2. AfterRun(c, n, state) = d
      BY <1>1, <1>12
    <2> HIDE DEF d
    <2>3. LeadsOn(c, d)
      BY <1>2, <1>6, <2>1 DEF Onward, LeadsOn
    <2> QED BY <1>11, <2>1, <2>2, <2>3
  <1>13. CASE r.at # r.end
    <2> DEFINE d == [r EXCEPT !.stop = r.at + r.waitcnt]
    <2>1. AfterRun(c, n, state) = d
      BY <1>1, <1>13
    <2>2. /\ DOMAIN d = Fields /\ d.stop = r.at + r.waitcnt
          /\ \A f \in Fields \ {"stop"} : d[f] = r[f]
      BY <1>4 DEF Fields
    <2> HIDE DEF d
    <2>3. \A f \in {"plane", "left", "row", "k", "waitcnt", "seed", "wmidx", "wmileft",
                    "start", "at", "end", "grows", "run", "melcstate", "buckets", "corr",
                    "minus1", "prev", "cur"} : f \in Fields \ {"stop"}
      BY DEF Fields
    <2>4. /\ d.plane = r.plane /\ d.left = r.left /\ d.row = r.row /\ d.k = r.k
          /\ d.waitcnt = r.waitcnt /\ d.seed = r.seed /\ d.wmidx = r.wmidx
          /\ d.wmileft = r.wmileft /\ d.start = r.start /\ d.at = r.at /\ d.end = r.end
          /\ d.grows = r.grows /\ d.run = r.run /\ d.melcstate = r.melcstate
          /\ d.buckets = r.buckets /\ d.corr = r.corr /\ d.minus1 = r.minus1
          /\ d.prev = r.prev /\ d.cur = r.cur
      BY <2>2, <2>3
    <2>5. Kept(d)
      BY <1>8, <2>2, <2>4 DEF Kept
    <2>6. Bounds(d)
      BY <1>9, <2>4 DEF Bounds
    <2>7. Position(d)
      BY <1>2, <1>4, <1>6, <1>7, <1>13, <2>2, <2>4 DEF Position
    <2>8. Loose(d)
      BY <1>10, <2>4 DEF Loose
    <2>9. Strict(c) => Strict(d)
      <3>1. Strict(r) => Strict(d)
        BY <2>4 DEF Strict
      <3> QED BY <1>11, <3>1
    <2>10. LeadsOn(c, d)
      <3>1. d.row = c.row /\ d.at = c.at + n /\ d.run = c.at
        BY <1>4, <1>6, <2>4
      <3>2. CASE n = 0
        BY <1>2, <3>1, <3>2 DEF LeadsOn
      <3>3. CASE n > 0
        BY <1>2, <3>1, <3>3 DEF LeadsOn
      <3> QED BY <3>2, <3>3
    <2> QED BY <2>1, <2>5, <2>6, <2>7, <2>8, <2>9, <2>10 DEF Coder, Clean, Placed
  <1> QED BY <1>12, <1>13

-----------------------------------------------------------------------------
(***************************************************************************)
(* Symbols and runs from one side to the other.                            *)
(***************************************************************************)

\* A coder is at a channel, with a residual before it, a code and a prediction.
LEMMA AtChannel ==
    ASSUME Sized, NEW c, Placed(c), Loose(c)
    PROVE  LET ch == Channel(c)
               bpc == Bpc(c.plane)
               before == Before(c, ch, c.at)
           IN  /\ ch \in Channels(c.plane) /\ before \in Nat
               /\ before <= bppmask(bpc) => Code(c, ch) \in Codes(bpc)
               /\ Strict(c) => before <= bppmask(bpc) /\ Predicted(c, ch) \in Symbols(bpc)
  <1> DEFINE ch == Channel(c)
             bpc == Bpc(c.plane)
             before == Before(c, ch, c.at)
             S == Symbols(bpc)
             m == bppmask(bpc)
  <1>1. ch \in Channels(c.plane)
    BY PlaneFacts DEF Placed, Kept, Channel
  <1>2. c.at \in Nat /\ c.at \in Columns /\ (c.at # 0 => c.at - 1 \in Columns) /\ 0 \in Columns
    BY DEF Placed, Position, Bounds, Columns, Sized
  <1>3. S = 0 .. m /\ m \in Nat
    <2>1. 2^bpc \in Nat \ {0} /\ m = 2^bpc - 1 /\ S = 0 .. 2^bpc - 1
      BY DepthFacts
    <2> HIDE DEF S, m, bpc
    <2> QED BY <2>1
  <1>4. \A n \in S : find_bucket(bpc, n) \in Buckets(bpc)
    BY DepthFacts
  <1> HIDE DEF ch, S, m, bpc
  <1>5. before \in Nat
    BY <1>1, <1>2 DEF Before, Loose
  <1>6. before <= m => Code(c, ch) \in Codes(bpc)
    <2> SUFFICES ASSUME before <= m PROVE Code(c, ch) \in Codes(bpc)
      OBVIOUS
    <2>1. before \in S
      BY <1>3, <1>5
    <2>2. c.buckets \in [Channels(c.plane) -> [Buckets(bpc) -> Bucket(bpc)]]
      BY DEF Loose, bpc
    <2>3. find_bucket(bpc, before) \in Buckets(bpc)
      BY <1>4, <2>1
    <2>4. c.buckets[ch][find_bucket(bpc, before)] \in Bucket(bpc)
      BY <1>1, <2>2, <2>3
    <2> QED BY <2>4 DEF Code, Bucket, bpc
  <1>7. ASSUME Strict(c) PROVE before <= m /\ Predicted(c, ch) \in S
    <2>1. /\ c.corr \in [Channels(c.plane) -> [Columns -> S]]
          /\ c.minus1 \in [Channels(c.plane) -> S]
          /\ c.prev \in [Columns -> [Channels(c.plane) -> S]]
          /\ c.cur \in [Columns -> [Channels(c.plane) -> S]]
      BY <1>7 DEF Strict, S, bpc
    <2>2. before \in S
      BY <1>1, <1>2, <2>1 DEF Before
    <2>3. \A a \in S : \A b \in S : (a + b) \div 2 \in S
      BY <1>3
    <2>4. c.prev[0][ch] \in S /\ c.prev[c.at][ch] \in S
      BY <1>1, <1>2, <2>1
    <2>5. c.at # 0 => c.cur[c.at - 1][ch] \in S
      BY <1>1, <1>2, <2>1
    <2>6. Predicted(c, ch) \in S
      BY <1>3, <2>3, <2>4, <2>5 DEF Predicted
    <2> QED BY <1>3, <2>2, <2>6
  <1> QED BY <1>1, <1>5, <1>6, <1>7 DEF ch, S, m, bpc

\* What the encoder writes for a channel is what the decoder reads.
LEMMA PixelIsRead ==
    ASSUME Sized, NEW c, Placed(c), Loose(c), Strict(c), NEW v \in Symbols(Bpc(c.plane))
    PROVE  LET bpc == Bpc(c.plane)
               ch == Channel(c)
               r == Residual(c, v)
               w == Codeword(c, v)
               s == ToBits(w.word, w.len)
           IN  /\ r \in Symbols(bpc) /\ r \in Nat /\ r < XlatSize
               /\ Len(s) = w.len /\ s # <<>> /\ s \in Seq(Bit)
               /\ golomb_decode(bpc, Code(c, ch), Peek(s, Peeked)) = [value |-> r, len |-> w.len]
               /\ (xlat_l2u(bpc, r) + Predicted(c, ch)) % 2^bpc = v
  <1> DEFINE bpc == Bpc(c.plane)
             b == 2^bpc
             ch == Channel(c)
             p == Predicted(c, ch)
             r == Residual(c, v)
             w == Codeword(c, v)
             s == ToBits(w.word, w.len)
  <1>1. /\ bpc \in 1 .. MaxCodeLen /\ bpc \in Nat \ {0} /\ b \in Nat \ {0} /\ b <= XlatSize
        /\ Symbols(bpc) = 0 .. b - 1
    BY DepthFacts
  <1>2. p \in Symbols(bpc) /\ Code(c, ch) \in Codes(bpc)
    BY AtChannel
  <1>3. v \in Symbols(bpc)
    OBVIOUS
  <1>4. r = xlat_u2l(bpc, (v - p) % b)
    BY DEF Residual
  <1>5. XlatSize \in Nat
    BY QuicCodeAssumption
  <1> HIDE DEF b, p
  <1>6. (v - p) % b \in 0 .. b - 1 /\ (((v - p) % b) + p) % b = v
    BY <1>1, <1>2, <1>3, AddBack
  <1>7. r \in Symbols(bpc) /\ xlat_l2u(bpc, r) = (v - p) % b
    BY <1>1, <1>4, <1>6, TranslatedBack
  <1>8. w = golomb_encode(bpc, r, Code(c, ch))
    BY DEF Codeword
  <1>9. /\ w.len \in 1 .. MaxCodeLen /\ s \in Seq(Bit) /\ Len(s) = w.len
        /\ golomb_decode(bpc, Code(c, ch), Peek(s, Peeked)) = [value |-> r, len |-> w.len]
    <2> HIDE DEF r, w, bpc
    <2>1. <<>> \in Seq(Bit)
      OBVIOUS
    <2>2. /\ w.len \in 1 .. MaxCodeLen /\ s \in Seq(Bit) /\ Len(s) = w.len
          /\ golomb_decode(bpc, Code(c, ch), Peek(s \o <<>>, Peeked))
               = [value |-> r, len |-> w.len]
      BY <1>1, <1>2, <1>7, <1>8, <2>1, CodewordComesBack
    <2> HIDE DEF s
    <2>3. s \o <<>> = s
      BY <2>2
    <2> QED BY <2>2, <2>3
  <1> HIDE DEF r, w, bpc
  <1>10. Len(s) = w.len /\ s # <<>> /\ s \in Seq(Bit)
    <2> HIDE DEF s
    <2>1. MaxCodeLen \in Nat
      BY QuicCodeAssumption
    <2> QED BY <1>9, <2>1
  <1>11. r \in Nat /\ r < XlatSize
    BY <1>1, <1>5, <1>7
  <1> QED BY <1>6, <1>7, <1>9, <1>10, <1>11 DEF r, w, b, p, bpc

\* What it writes for a run is too, and the decoder's state follows.
LEMMA RunIsRead ==
    ASSUME NEW c, Loose(c), NEW n \in Nat
    PROVE  LET r == encode_state_run(n, c.melcstate) IN
           /\ r.bits \in Seq(Bit) /\ r.bits # <<>> /\ r.state \in States
           /\ decode_state_run(r.bits, c.melcstate)
                = [run |-> n, len |-> Len(r.bits), state |-> r.state]
  <1> DEFINE state == c.melcstate
             r == encode_state_run(n, state)
             hits == Hits(n, state)
             rest == JTable[StateUp(state, hits) + 1]
  <1>1. state \in States /\ <<>> \in Seq(Bit)
    BY DEF Loose
  <1>2. decode_state_run(r.bits \o <<>>, state)
            = [run |-> n, len |-> Len(r.bits), state |-> r.state]
    BY <1>1, RunDecodes DEF RunComesBack
  <1>3. /\ hits \in Nat /\ rest \in Nat
        /\ r.bits \in Seq(Bit) /\ Len(r.bits) = hits + 1 + rest /\ r.state \in States
    BY <1>1, RunLayout
  <1> DEFINE b == r.bits
  <1>4. b \o <<>> = b /\ b # <<>>
    <2>1. b \in Seq(Bit) /\ Len(b) = hits + 1 + rest
      BY <1>3
    <2> HIDE DEF b, hits, rest
    <2> QED BY <1>3, <2>1
  <1> QED BY <1>2, <1>3, <1>4

\* A match is only looked for behind a pixel, and only once.
LEMMA MatchFacts ==
    ASSUME NEW c, rle_match(c), Placed(c)
    PROVE  c.at > 0 /\ c.run # c.at
  BY DEF rle_match, Placed, Position

\* What is left of a stream is a stream.
LEMMA RestFacts ==
    ASSUME NEW s \in Seq(Bit), NEW len \in Nat
    PROVE  Len(s) \in Nat /\ SubSeq(s, len + 1, Len(s)) \in Seq(Bit)
  OBVIOUS

-----------------------------------------------------------------------------
(***************************************************************************)
(* The steps.  The image stays what it is, so what is said of a coder now  *)
(* can be said of it after the step.                                       *)
(***************************************************************************)
LEMMA SameImage ==
    ASSUME quicImage' = quicImage
    PROVE  /\ Width' = Width /\ Height' = Height
           /\ \A c : (Coder(c)' <=> Coder(c)) /\ (Clean(c)' <=> Clean(c))
           /\ \A c, ch, r, v : Coded(c, ch, r, v)' = Coded(c, ch, r, v)
           /\ \A c, n, state : AfterRun(c, n, state)' = AfterRun(c, n, state)
           /\ \A c, v : Codeword(c, v)' = Codeword(c, v) /\ Residual(c, v)' = Residual(c, v)
           /\ \A c : rle_match(c)' <=> rle_match(c)
  <1>1. Width' = Width /\ Height' = Height /\ Columns' = Columns
    BY DEF Width, Height, Columns
  <1>2. \A c : (Coder(c)' <=> Coder(c)) /\ (Clean(c)' <=> Clean(c))
    <2>1. ASSUME NEW c PROVE Kept(c)' <=> Kept(c)
      BY <1>1, Zenon DEF Kept
    <2>2. ASSUME NEW c PROVE Bounds(c)' <=> Bounds(c)
      BY <1>1, Zenon DEF Bounds
    <2>3. ASSUME NEW c PROVE Placed(c)' <=> Placed(c)
      BY <2>1, <2>2, Zenon DEF Placed, Position
    <2>4. ASSUME NEW c PROVE Loose(c)' <=> Loose(c)
      BY <1>1, Zenon DEF Loose
    <2>5. ASSUME NEW c PROVE Strict(c)' <=> Strict(c)
      BY <1>1, Zenon DEF Strict
    <2> QED BY <2>3, <2>4, <2>5, Zenon DEF Coder, Clean
  <1>3. \A plane : Blank(plane)' = Blank(plane)
    BY <1>1, Zenon DEF Blank
  <1>4. \A c, pos : Segment(c, pos)' = Segment(c, pos)
    BY <1>1, Zenon DEF Segment
  <1>5. \A plane, left : FreshCoder(plane, left)' = FreshCoder(plane, left)
    BY <1>1, <1>3, <1>4, Zenon DEF FreshCoder
  <1>6. \A c : NextPlane(c)' = NextPlane(c)
    BY <1>5, Zenon DEF NextPlane
  <1>7. \A c : NextRow(c)' = NextRow(c)
    BY <1>1, <1>3, <1>4, <1>6, Zenon DEF NextRow
  <1>8. \A c : NextSegment(c)' = NextSegment(c)
    BY <1>1, <1>4, <1>7, Zenon DEF NextSegment
  <1>9. \A c : SegmentOver(c)' = SegmentOver(c)
    BY <1>8, Zenon DEF SegmentOver
  <1>10. \A c : AfterPixel(c)' = AfterPixel(c)
    BY <1>9, Zenon DEF AfterPixel
  <1>11. \A c : AfterChannel(c)' = AfterChannel(c)
    BY <1>10, Zenon DEF AfterChannel
  <1>12. \A c, ch, r, v : Coded(c, ch, r, v)' = Coded(c, ch, r, v)
    BY <1>11, Zenon DEF Coded
  <1>13. \A c, n : Copied(c, n)' = Copied(c, n)
    BY <1>1, Zenon DEF Copied
  <1>14. \A c, n, state : AfterRun(c, n, state)' = AfterRun(c, n, state)
    <2> DEFINE r(c, n, state, cur) ==
                 [c EXCEPT !.waitcnt = c.stop - c.at, !.run = c.at, !.melcstate = state,
                           !.cur = cur, !.at = @ + n]
               After(q, segment) ==
                 IF q.at = q.end THEN segment ELSE [q EXCEPT !.stop = q.at + q.waitcnt]
    <2>1. ASSUME NEW c, NEW n, NEW state
          PROVE  /\ AfterRun(c, n, state)
                      = After(r(c, n, state, Copied(c, n)),
                              SegmentOver(r(c, n, state, Copied(c, n))))
                 /\ AfterRun(c, n, state)'
                      = After(r(c, n, state, Copied(c, n)'),
                              SegmentOver(r(c, n, state, Copied(c, n)))')
      BY DEF AfterRun
    <2> HIDE DEF r, After
    <2> QED BY <1>9, <1>13, <2>1, Zenon
  <1>15. /\ \A c, v : Codeword(c, v)' = Codeword(c, v) /\ Residual(c, v)' = Residual(c, v)
         /\ \A c : rle_match(c)' <=> rle_match(c)
    OBVIOUS
  <1> QED BY <1>1, <1>2, <1>12, <1>14, <1>15

\* While the image stays, who is ahead depends on the coders and the bits alone.
LEMMA SameAhead ==
    ASSUME quicImage' = quicImage
    PROVE  /\ bits' = bits => \A c, d : Ahead(c, d)' <=> Ahead(c, d)
           /\ \A c, d, v : /\ c.plane # "done" /\ ~rle_match(c) /\ v \in Symbols(Bpc(c.plane))
                           /\ bits' = ToBits(Codeword(c, v).word, Codeword(c, v).len)
                           /\ d = Coded(c, Channel(c), Residual(c, v), v)
                           => Ahead(c, d)'
           /\ \A c, d, n : /\ c.plane # "done" /\ rle_match(c) /\ n \in 0 .. c.end - c.at
                           /\ bits' = encode_state_run(n, c.melcstate).bits
                           /\ d = AfterRun(c, n, encode_state_run(n, c.melcstate).state)
                           => Ahead(c, d)'
  <1>1. ASSUME bits' = bits, NEW c, NEW d PROVE Ahead(c, d)' <=> Ahead(c, d)
    <2>1. PixelAhead(c, d)' <=> PixelAhead(c, d)
      BY <1>1, SameImage, Zenon DEF PixelAhead
    <2>2. RunAhead(c, d)' <=> RunAhead(c, d)
      BY <1>1, SameImage, Zenon DEF RunAhead
    <2> QED BY <2>1, <2>2, Zenon DEF Ahead
  <1>2. ASSUME NEW c, NEW d, NEW v, c.plane # "done", ~rle_match(c), v \in Symbols(Bpc(c.plane)),
               bits' = ToBits(Codeword(c, v).word, Codeword(c, v).len),
               d = Coded(c, Channel(c), Residual(c, v), v)
        PROVE  Ahead(c, d)'
    <2>1. PixelAhead(c, d)'
      BY <1>2, SameImage, Zenon DEF PixelAhead
    <2> QED BY <1>2, <2>1, Zenon DEF Ahead
  <1>3. ASSUME NEW c, NEW d, NEW n, c.plane # "done", rle_match(c), n \in 0 .. c.end - c.at,
               bits' = encode_state_run(n, c.melcstate).bits,
               d = AfterRun(c, n, encode_state_run(n, c.melcstate).state)
        PROVE  Ahead(c, d)'
    <2>1. RunAhead(c, d)'
      BY <1>3, SameImage, Zenon DEF RunAhead
    <2> QED BY <1>3, <2>1, Zenon DEF Ahead
  <1> QED BY <1>1, <1>2, <1>3, Zenon

\* No stream is open at first.
LEMMA InitKeeps == ASSUME QuicInit PROVE QuicInv
  BY DEF QuicInit, QuicInv

\* Nothing moves, nothing is broken.
LEMMA StutterKeeps == ASSUME QuicInv, UNCHANGED quicVars PROVE QuicInv'
  <1>1. /\ quicImage' = quicImage /\ enc' = enc /\ dec' = dec /\ bits' = bits
        /\ garbled' = garbled /\ spare' = spare /\ outcome' = outcome
    BY DEF quicVars
  <1>2. /\ Width' = Width /\ Height' = Height
        /\ (Coder(enc)' <=> Coder(enc)) /\ (Clean(enc)' <=> Clean(enc))
        /\ (Coder(dec)' <=> Coder(dec)) /\ (Clean(dec)' <=> Clean(dec))
        /\ (Ahead(dec, enc)' <=> Ahead(dec, enc))
    BY <1>1, SameImage, SameAhead
  <1> QED BY <1>1, <1>2, Zenon DEF QuicInv

\* The planes of a format are the model's, with at most one behind the first.
LEMMA Formatted ==
    ASSUME NEW format \in Formats
    PROVE  LET planes == PlanesOf(format) IN
           /\ Head(planes) \in DOMAIN Planes
           /\ Tail(planes) = <<>> \/ (Head(planes) = "rgb" /\ Tail(planes) = <<"alpha">>)
  <1> DEFINE planes == PlanesOf(format)
  <1>1. DOMAIN Planes = {"rgb", "alpha", "gray", "rgb16"}
    BY QuicAssumption
  <1>2. planes \in {<<"rgb">>, <<"rgb", "alpha">>, <<"gray">>, <<"rgb16">>}
    BY DEF PlanesOf, Formats, decompress_rgb32, decompress_rgba, decompress_gray, decompress_rgb16
  <1> HIDE DEF planes
  <1>3. /\ Head(planes) \in {"rgb", "gray", "rgb16"}
        /\ Tail(planes) = <<>> \/ (Head(planes) = "rgb" /\ Tail(planes) = <<"alpha">>)
    <2>1. CASE planes = <<"rgb">>
      <3>1. Head(<<"rgb">>) = "rgb" /\ Tail(<<"rgb">>) = <<>>
        OBVIOUS
      <3> QED BY <2>1, <3>1
    <2>2. CASE planes = <<"rgb", "alpha">>
      <3>1. Head(<<"rgb", "alpha">>) = "rgb" /\ Tail(<<"rgb", "alpha">>) = <<"alpha">>
        OBVIOUS
      <3> QED BY <2>2, <3>1
    <2>3. CASE planes = <<"gray">>
      <3>1. Head(<<"gray">>) = "gray" /\ Tail(<<"gray">>) = <<>>
        OBVIOUS
      <3> QED BY <2>3, <3>1
    <2>4. CASE planes = <<"rgb16">>
      <3>1. Head(<<"rgb16">>) = "rgb16" /\ Tail(<<"rgb16">>) = <<>>
        OBVIOUS
      <3> QED BY <2>4, <3>1
    <2> QED BY <1>2, <2>1, <2>2, <2>3, <2>4
  <1> QED BY <1>1, <1>3 DEF planes

\* A coder that has not finished is somewhere in a plane.
LEMMA AtWork ==
    ASSUME QuicInv, outcome = "body", NEW c \in {enc, dec}, c.plane # "done"
    PROVE  Sized /\ Placed(c) /\ Loose(c)
  <1>1. MaxDim \in Nat
    BY QuicAssumption
  <1>2. Sized
    BY <1>1 DEF QuicInv, Sized
  <1>3. Coder(c)
    BY DEF QuicInv
  <1> QED BY <1>2, <1>3 DEF Coder

\* Opening a stream: both coders begin at the same place.
LEMMA OpenStreamKeeps == ASSUME QuicInv, OpenStream PROVE QuicInv'
  <1>1. /\ outcome = "header" /\ quicImage' = quicImage /\ bits' = bits /\ garbled' = garbled
        /\ spare' = spare
    BY DEF OpenStream
  <1>2. /\ quicImage \in QuicImages /\ garbled = FALSE /\ bits = <<>> /\ enc = dec /\ spare = 0
    BY <1>1, Zenon DEF QuicInv
  <1>3. CASE quicImage.sound /\ validate_dims
    <2> DEFINE planes == PlanesOf(quicImage.format)
               c == FreshCoder(Head(planes), Tail(planes))
    <2>1. dec' = c /\ enc' = dec' /\ outcome' = "body"
      BY <1>3, Zenon DEF OpenStream
    <2>2. Width \in 1 .. MaxDim /\ Height \in 1 .. MaxDim /\ MaxDim \in Nat
      BY <1>3, QuicAssumption DEF validate_dims
    <2>3. Sized
      BY <2>2 DEF Sized
    <2>4. /\ Head(planes) \in DOMAIN Planes
          /\ Tail(planes) = <<>> \/ (Head(planes) = "rgb" /\ Tail(planes) = <<"alpha">>)
      BY <1>2, Formatted, QuicAssumption
    <2>5. Coder(c) /\ Clean(c)
      BY <2>3, <2>4, FreshFacts DEF Coder, Clean
    <2> HIDE DEF c, planes
    <2>6. Coder(dec)' /\ Clean(dec)' /\ Coder(enc)' /\ Clean(enc)'
      BY <1>1, <2>1, <2>5, SameImage, Zenon
    <2>7. Width' \in 1 .. MaxDim /\ Height' \in 1 .. MaxDim
      BY <1>1, <2>2, SameImage
    <2> QED BY <1>1, <1>2, <2>1, <2>6, <2>7 DEF QuicInv
  <1>4. CASE ~(quicImage.sound /\ validate_dims)
    <2>1. enc' = enc /\ dec' = dec /\ outcome' = "refused"
      BY <1>4, Zenon DEF OpenStream
    <2> QED BY <1>1, <1>2, <2>1 DEF QuicInv
  <1> QED BY <1>3, <1>4

\* An image that is complete.
LEMMA CompleteKeeps == ASSUME QuicInv, Complete PROVE QuicInv'
  <1>1. /\ outcome = "body" /\ dec.plane = "done" /\ outcome' = "done"
        /\ quicImage' = quicImage /\ enc' = enc /\ dec' = dec /\ bits' = bits
        /\ garbled' = garbled /\ spare' = spare
    BY DEF Complete
  <1>2. ~garbled => bits = <<>>
    BY <1>1 DEF QuicInv, Ahead
  <1>3. /\ quicImage \in QuicImages /\ garbled \in BOOLEAN
        /\ garbled => bits \in Seq(Bit)
        /\ ~garbled => spare = 0 /\ (bits = <<>> => dec = enc)
    BY DEF QuicInv
  <1> QED BY <1>1, <1>2, <1>3, Zenon DEF QuicInv

\* Damage reaches the bits, and no coder.
LEMMA DamageKeeps == ASSUME QuicInv, Damage PROVE QuicInv'
  <1>1. /\ outcome = "body" /\ outcome' = outcome /\ garbled' = TRUE /\ bits' \in Damages
        /\ quicImage' = quicImage /\ enc' = enc /\ dec' = dec
    BY DEF Damage, Encoding
  <1>2. bits' \in Seq(Bit)
    BY <1>1, QuicAssumption DEF Bit
  <1>3. /\ quicImage \in QuicImages /\ Width \in 1 .. MaxDim /\ Height \in 1 .. MaxDim
        /\ Coder(enc) /\ Clean(enc) /\ Coder(dec)
    BY <1>1 DEF QuicInv
  <1>4. /\ Width' \in 1 .. MaxDim /\ Height' \in 1 .. MaxDim
        /\ Coder(enc)' /\ Clean(enc)' /\ Coder(dec)'
    BY <1>1, <1>3, SameImage, Zenon
  <1> QED BY <1>1, <1>2, <1>3, <1>4 DEF QuicInv

\* The encoder writes a symbol: what is behind its coder is one ahead.
LEMMA Wrote ==
    ASSUME QuicInv, Encoding, UNCHANGED <<quicImage, dec, garbled, spare, outcome>>,
           bits' # <<>>, Coder(enc'), Clean(enc'), Ahead(dec, enc)'
    PROVE  QuicInv'
  <1>1. /\ outcome = "body" /\ ~garbled /\ bits = <<>>
        /\ outcome' = outcome /\ quicImage' = quicImage /\ dec' = dec /\ garbled' = garbled
        /\ spare' = spare
    BY DEF Encoding
  <1>2. /\ quicImage \in QuicImages /\ Width \in 1 .. MaxDim /\ Height \in 1 .. MaxDim
        /\ spare = 0 /\ Coder(dec) /\ Clean(dec) /\ garbled \in BOOLEAN
    BY <1>1 DEF QuicInv
  <1>3. /\ Width' \in 1 .. MaxDim /\ Height' \in 1 .. MaxDim
        /\ Coder(enc)' /\ Clean(enc)' /\ Coder(dec)' /\ Clean(dec)'
    BY <1>1, <1>2, SameImage, Zenon
  <1> QED BY <1>1, <1>2, <1>3 DEF QuicInv

\* The encoder writes a pixel and is one symbol ahead.
LEMMA EncodePixelKeeps == ASSUME QuicInv, EncodePixel PROVE QuicInv' /\ LeadsOn(enc, enc')
  <1> DEFINE ch == Channel(enc)
             S == Symbols(Bpc(enc.plane))
  <1>1. /\ Encoding /\ UNCHANGED <<quicImage, dec, garbled, spare, outcome>>
        /\ ~encode_rle_match(enc)
    BY DEF EncodePixel
  <1>2. PICK p \in Palette[enc.plane] : encode_one_pixel(p)
    BY DEF EncodePixel
  <1>3. outcome = "body" /\ enc.plane # "done" /\ bits = <<>> /\ ~garbled
    BY <1>1 DEF Encoding
  <1>4. dec = enc /\ Strict(enc)
    BY <1>3 DEF QuicInv, Clean
  <1>5. Sized /\ Placed(enc) /\ Loose(enc)
    BY <1>3, AtWork
  <1>6. ch \in Channels(enc.plane)
    BY <1>5, AtChannel
  <1>7. p[ch] \in S
    <2>1. Palette[enc.plane] \subseteq [Channels(enc.plane) -> S]
      BY <1>5, QuicAssumption DEF Placed, Kept
    <2> QED BY <1>2, <1>6, <2>1
  <1> DEFINE v == p[ch]
             w == Codeword(enc, v)
             r == Residual(enc, v)
  <1>8. bits' = ToBits(w.word, w.len) /\ enc' = Coded(enc, ch, r, v)
    BY <1>2 DEF encode_one_pixel, Codeword, Residual
  <1>9. r \in S /\ r \in Nat /\ ToBits(w.word, w.len) # <<>>
    BY <1>4, <1>5, <1>7, PixelIsRead
  <1> HIDE DEF ch, v, r, w, S
  <1>10. /\ Coder(Coded(enc, ch, r, v)) /\ Clean(Coded(enc, ch, r, v))
         /\ LeadsOn(enc, Coded(enc, ch, r, v))
    BY <1>4, <1>5, <1>6, <1>7, <1>9, CodedFacts DEF S, v
  <1>11. Coder(enc') /\ Clean(enc') /\ LeadsOn(enc, enc')
    BY <1>8, <1>10, Zenon
  <1>12. ~rle_match(enc)
    BY <1>1, Zenon DEF rle_match, encode_rle_match
  <1>13. Ahead(dec, enc)'
    <2>1. quicImage' = quicImage /\ dec' = enc
      BY <1>1, <1>4
    <2> QED BY <1>3, <1>7, <1>8, <1>12, <2>1, SameAhead, Zenon DEF ch, v, r, w, S
  <1> QED BY <1>1, <1>8, <1>9, <1>11, <1>13, Wrote

\* The encoder writes a run and is one symbol ahead.
LEMMA EncodeRunKeeps == ASSUME QuicInv, EncodeRun PROVE QuicInv' /\ LeadsOn(enc, enc')
  <1>1. /\ Encoding /\ UNCHANGED <<quicImage, dec, garbled, spare, outcome>>
        /\ encode_rle_match(enc)
    BY DEF EncodeRun
  <1>2. PICK n \in 0 .. enc.end - enc.at :
          /\ bits' = encode_state_run(n, enc.melcstate).bits
          /\ enc' = AfterRun(enc, n, encode_state_run(n, enc.melcstate).state)
    BY DEF EncodeRun
  <1> DEFINE r == encode_state_run(n, enc.melcstate)
             d == AfterRun(enc, n, r.state)
  <1>3. outcome = "body" /\ enc.plane # "done" /\ bits = <<>> /\ ~garbled
    BY <1>1 DEF Encoding
  <1>4. dec = enc /\ Strict(enc)
    BY <1>3 DEF QuicInv, Clean
  <1>5. Sized /\ Placed(enc) /\ Loose(enc) /\ Width <= MaxDim /\ MaxDim \in Nat
    BY <1>3, AtWork, QuicAssumption DEF QuicInv
  <1>6. rle_match(enc)
    BY <1>1, Zenon DEF rle_match, encode_rle_match
  <1>7. r.bits # <<>> /\ r.state \in States
    <2>1. n \in Nat
      BY <1>5 DEF Placed, Bounds, Position
    <2> QED BY <1>5, <2>1, RunIsRead
  <1>8. enc.at > 0 /\ enc.run # enc.at
    BY <1>5, <1>6, MatchFacts
  <1>9. Coder(d) /\ Clean(d) /\ LeadsOn(enc, d)
    BY <1>4, <1>5, <1>7, <1>8, AfterRunFacts
  <1> HIDE DEF r, d
  <1>10. bits' = r.bits /\ enc' = d
    BY <1>2, Zenon DEF r, d
  <1>11. Coder(enc') /\ Clean(enc') /\ LeadsOn(enc, enc')
    BY <1>9, <1>10, Zenon
  <1>12. Ahead(dec, enc)'
    <2>1. quicImage' = quicImage /\ dec' = enc
      BY <1>1, <1>4
    <2> QED BY <1>2, <1>3, <1>6, <2>1, SameAhead, Zenon
  <1> QED BY <1>1, <1>7, <1>10, <1>11, <1>12, Wrote

\* The decoder cannot read what a damaged stream holds.
LEMMA Stopped ==
    ASSUME QuicInv, Decoding, garbled, UNCHANGED <<quicImage, enc, garbled>>,
           Stops("short") \/ Stops("panic")
    PROVE  QuicInv' /\ bits' = bits /\ spare' = spare
  <1>1. /\ outcome = "body" /\ quicImage' = quicImage /\ enc' = enc /\ dec' = dec
        /\ bits' = bits /\ spare' = spare /\ garbled' = garbled
        /\ outcome' \in {"short", "panic"}
    BY DEF Decoding, Stops
  <1>2. quicImage \in QuicImages /\ bits \in Seq(Bit) /\ garbled \in BOOLEAN
    BY DEF QuicInv
  <1> QED BY <1>1, <1>2 DEF QuicInv

\* It reads something: numbers, or the symbol it is behind by.
LEMMA Read ==
    ASSUME QuicInv, Decoding, UNCHANGED <<quicImage, enc, garbled>>,
           NEW len \in Nat, NEW coder, Eats(len, coder), Coder(coder), LeadsOn(dec, coder),
           ~garbled => len = Len(bits) /\ SubSeq(bits, len + 1, Len(bits)) = <<>> /\ coder = enc
    PROVE  QuicInv' /\ (<<bits', spare'>> # <<bits, spare>> => LeadsOn(dec, dec'))
  <1>1. /\ outcome = "body" /\ quicImage' = quicImage /\ enc' = enc /\ garbled' = garbled
    BY DEF Decoding
  <1>2. /\ quicImage \in QuicImages /\ garbled \in BOOLEAN
        /\ Width \in 1 .. MaxDim /\ Height \in 1 .. MaxDim
        /\ Coder(enc) /\ Clean(enc) /\ Coder(dec)
        /\ garbled => bits \in Seq(Bit)
        /\ ~garbled => spare = 0
    BY <1>1 DEF QuicInv
  <1>3. Width' \in 1 .. MaxDim /\ Height' \in 1 .. MaxDim /\ Coder(enc)' /\ Clean(enc)'
    BY <1>1, <1>2, SameImage, Zenon
  <1>4. CASE garbled
    <2>1. Len(bits) \in Nat /\ SubSeq(bits, len + 1, Len(bits)) \in Seq(Bit)
      BY <1>2, <1>4, RestFacts
    <2>2. CASE len > Len(bits) + spare
      BY <1>4, <2>2, Stopped, Zenon DEF Eats
    <2>3. CASE ~(len > Len(bits) + spare)
      <3>1. /\ bits' = SubSeq(bits, len + 1, Len(bits)) /\ dec' = coder
            /\ outcome' = outcome
        BY <2>3, Zenon DEF Eats
      <3>2. Coder(dec)' /\ LeadsOn(dec, dec')
        BY <1>1, <3>1, SameImage, Zenon
      <3>3. bits' \in Seq(Bit) /\ outcome' = "body" /\ garbled'
        BY <1>1, <1>4, <2>1, <3>1
      <3> QED BY <1>1, <1>2, <1>3, <3>2, <3>3, Zenon DEF QuicInv
    <2> QED BY <2>2, <2>3
  <1>5. CASE ~garbled
    <2>1. len = Len(bits) /\ spare = 0 /\ ~(len > Len(bits) + spare) /\ ~(len > Len(bits))
      BY <1>2, <1>5
    <2>2. /\ bits' = <<>> /\ dec' = enc /\ spare' = 0 /\ outcome' = "body"
      BY <1>1, <1>5, <2>1, Zenon DEF Eats
    <2>3. LeadsOn(dec, dec')
      BY <1>5, <2>2, Zenon
    <2>4. Coder(dec)' /\ Clean(dec)'
      BY <1>1, <1>2, <2>2, SameImage, Zenon
    <2> QED BY <1>1, <1>2, <1>3, <1>5, <2>2, <2>3, <2>4 DEF QuicInv
  <1> QED BY <1>4, <1>5

\* The decoder reads a pixel: the one written, or anything once damaged.
LEMMA DecodePixelKeeps ==
    ASSUME QuicInv, NEW plane, DecodePixel(plane)
    PROVE  QuicInv' /\ (<<bits', spare'>> # <<bits, spare>> => LeadsOn(dec, dec'))
  <1> DEFINE ch == Channel(dec)
             bpc == Bpc(dec.plane)
             before == Before(dec, ch, dec.at)
             g == golomb_decode(bpc, Code(dec, ch), Peek(bits, Peeked))
             value == (xlat_l2u(bpc, g.value) + Predicted(dec, ch)) % 2^bpc
             d == Coded(dec, ch, g.value, value)
  <1>1. /\ Decoding /\ UNCHANGED <<quicImage, enc, garbled>> /\ ~rle_match(dec)
        /\ decode_one_pixel
    BY DEF DecodePixel
  <1>2. outcome = "body" /\ dec.plane # "done" /\ (bits # <<>> \/ garbled)
    BY <1>1 DEF Decoding
  <1>3. Sized /\ Placed(dec) /\ Loose(dec)
    BY <1>2, AtWork
  <1>4. ch \in Channels(dec.plane) /\ before \in Nat
        /\ (before <= bppmask(bpc) => Code(dec, ch) \in Codes(bpc))
    BY <1>3, AtChannel
  <1>5. bpc \in {Bpc8, Bpc5} /\ bppmask(bpc) \in Int /\ XlatSize \in Nat
    <2>1. bpc \in {Bpc8, Bpc5} /\ bppmask(bpc) = 2^bpc - 1 /\ 2^bpc \in Nat
      BY DepthFacts
    <2> HIDE DEF bpc
    <2> QED BY <2>1, QuicCodeAssumption
  <1>6. IF before > bppmask(bpc) THEN Stops("panic")
        ELSE IF g.value >= XlatSize THEN Stops("panic") ELSE Eats(g.len, d)
    BY <1>1, Zenon DEF decode_one_pixel
  <1>7. CASE garbled
    <2>1. CASE Stops("panic")
      BY <1>1, <1>7, <2>1, Stopped
    <2>2. CASE ~(before > bppmask(bpc)) /\ Eats(g.len, d)
      <3>1. bits \in Seq(Bit)
        BY <1>7 DEF QuicInv
      <3>2. before <= bppmask(bpc)
        <4> HIDE DEF before, bpc
        <4> QED BY <1>4, <1>5, <2>2
      <3>3. g.value \in Nat /\ g.len \in Nat
        <4>1. Code(dec, ch) \in Codes(bpc)
          BY <1>4, <3>2
        <4>2. g \in [value : Nat, len : Nat]
          <5>1. Peek(bits, Peeked) \in 0 .. 2^Peeked - 1
            BY <3>1, QuicCodeAssumption, PeekIsSmall
          <5>2. bpc \in 1 .. MaxCodeLen
            BY DepthFacts
          <5> HIDE DEF bpc
          <5> QED BY <4>1, <5>1, <5>2, GolombReads
        <4> HIDE DEF g
        <4> QED BY <4>2
      <3> HIDE DEF ch, g, value
      <3>4. Coder(d) /\ LeadsOn(dec, d)
        BY <1>3, <1>4, <3>3, CodedFacts
      <3> HIDE DEF d
      <3> QED BY <1>1, <1>7, <2>2, <3>3, <3>4, Read
    <2> QED BY <1>6, <2>1, <2>2, Zenon
  <1>8. CASE ~garbled
    <2>1. Ahead(dec, enc) /\ Strict(dec) /\ Coder(enc)
      BY <1>2, <1>8 DEF QuicInv, Clean
    <2>2. PICK v \in Symbols(bpc) :
            /\ bits = ToBits(Codeword(dec, v).word, Codeword(dec, v).len)
            /\ enc = Coded(dec, ch, Residual(dec, v), v)
      BY <1>1, <2>1, Zenon DEF Ahead, PixelAhead, RunAhead
    <2> DEFINE r == Residual(dec, v)
               w == Codeword(dec, v)
    <2>3. /\ r \in Symbols(bpc) /\ r \in Nat /\ r < XlatSize /\ Len(bits) = w.len
          /\ bits \in Seq(Bit)
          /\ g = [value |-> r, len |-> w.len]
          /\ (xlat_l2u(bpc, r) + Predicted(dec, ch)) % 2^bpc = v
      <3> DEFINE t == ToBits(w.word, w.len)
      <3>1. /\ r \in Symbols(bpc) /\ r \in Nat /\ r < XlatSize /\ Len(t) = w.len
            /\ t \in Seq(Bit)
            /\ golomb_decode(bpc, Code(dec, ch), Peek(t, Peeked)) = [value |-> r, len |-> w.len]
            /\ (xlat_l2u(bpc, r) + Predicted(dec, ch)) % 2^bpc = v
        BY <1>3, <2>1, PixelIsRead
      <3>2. bits = t
        BY <2>2
      <3> HIDE DEF t, r, w, bpc, ch
      <3> QED BY <3>1, <3>2
    <2>4. before <= bppmask(bpc)
      BY <1>3, <2>1, AtChannel
    <2> HIDE DEF ch, bpc, before, r, w
    <2>5. g.value = r /\ g.len = w.len
      <3> HIDE DEF g
      <3> QED BY <2>3
    <2>6. value = v
      BY <2>3, <2>5
    <2>7. d = Coded(dec, ch, r, v)
      BY <2>5, <2>6
    <2> HIDE DEF g, value, d
    <2>8. Eats(g.len, d)
      <3>1. ~(before > bppmask(bpc)) /\ ~(g.value >= XlatSize)
        BY <1>4, <1>5, <2>3, <2>4, <2>5
      <3> QED BY <1>6, <3>1, Zenon
    <2>9. d = enc /\ g.len \in Nat /\ g.len = Len(bits)
      <3>1. Len(bits) \in Nat
        BY <2>3
      <3> QED BY <2>2, <2>3, <2>5, <2>7, <3>1 DEF r
    <2>10. SubSeq(bits, g.len + 1, Len(bits)) = <<>>
      BY <2>3, <2>9
    <2>11. LeadsOn(dec, d)
      BY <1>3, <1>4, <2>3, <2>7, CodedFacts, Zenon
    <2> QED BY <1>1, <2>1, <2>8, <2>9, <2>10, <2>11, Read
  <1> QED BY <1>7, <1>8

\* The decoder reads a run: the one written, or anything once damaged.
LEMMA DecodeRunKeeps ==
    ASSUME QuicInv, DecodeRun
    PROVE  QuicInv' /\ (<<bits', spare'>> # <<bits, spare>> => LeadsOn(dec, dec'))
  <1> DEFINE r == decode_state_run(bits, dec.melcstate)
             d == AfterRun(dec, r.run, r.state)
             short == r.len > Len(bits) + spare \/ dec.at + r.run > dec.end
  <1>1. /\ Decoding /\ UNCHANGED <<quicImage, enc, garbled>> /\ rle_match(dec)
        /\ IF short THEN Stops("short") ELSE Eats(r.len, d)
    BY DEF DecodeRun
  <1>2. outcome = "body" /\ dec.plane # "done"
    BY <1>1 DEF Decoding
  <1>3. /\ Sized /\ Placed(dec) /\ Loose(dec) /\ Width <= MaxDim /\ MaxDim \in Nat
    BY <1>2, AtWork, QuicAssumption DEF QuicInv
  <1>4. /\ dec.at > 0 /\ dec.run # dec.at /\ dec.at \in Nat /\ dec.end \in Nat
        /\ dec.at < dec.end /\ dec.melcstate \in States
    BY <1>1, <1>3, MatchFacts DEF Placed, Position, Bounds, Loose
  <1>5. ASSUME r.run \in Nat, r.state \in States, dec.at + r.run <= dec.end
        PROVE  Coder(d) /\ LeadsOn(dec, d)
    <2> HIDE DEF r
    <2>1. r.run \in 0 .. dec.end - dec.at
      BY <1>4, <1>5
    <2> QED BY <1>3, <1>4, <1>5, <2>1, AfterRunFacts
  <1>6. CASE garbled
    <2>1. CASE Stops("short")
      BY <1>1, <1>6, <2>1, Stopped
    <2>2. CASE ~short /\ Eats(r.len, d)
      <3>1. bits \in Seq(Bit)
        BY <1>6 DEF QuicInv
      <3>2. r \in [run : Nat, len : Nat, state : States]
        BY <1>4, <3>1, RunReads
      <3> HIDE DEF r
      <3>3. r.run \in Nat /\ r.len \in Nat /\ r.state \in States
        BY <3>2
      <3>4. dec.at + r.run <= dec.end
        BY <1>4, <2>2, <3>3
      <3>5. Coder(d) /\ LeadsOn(dec, d)
        BY <1>5, <3>3, <3>4
      <3> HIDE DEF d
      <3> QED BY <1>1, <1>6, <2>2, <3>3, <3>5, Read
    <2> HIDE DEF short, d, r
    <2> QED BY <1>1, <2>1, <2>2, Zenon
  <1>7. CASE ~garbled
    <2>1. Ahead(dec, enc) /\ bits # <<>> /\ spare = 0
      BY <1>1, <1>7 DEF QuicInv, Decoding
    <2>2. PICK n \in 0 .. dec.end - dec.at :
            /\ bits = encode_state_run(n, dec.melcstate).bits
            /\ enc = AfterRun(dec, n, encode_state_run(n, dec.melcstate).state)
      BY <1>1, <2>1, Zenon DEF Ahead, PixelAhead, RunAhead
    <2> DEFINE w == encode_state_run(n, dec.melcstate)
    <2>3. /\ w.bits \in Seq(Bit) /\ w.state \in States
          /\ decode_state_run(w.bits, dec.melcstate)
                = [run |-> n, len |-> Len(w.bits), state |-> w.state]
      <3>1. n \in Nat
        BY <1>4
      <3> QED BY <1>3, <3>1, RunIsRead
    <2> HIDE DEF w
    <2>4. bits = w.bits /\ enc = AfterRun(dec, n, w.state)
      BY <2>2, Zenon DEF w
    <2>5. r.run = n /\ r.len = Len(bits) /\ r.state = w.state
      <3>1. r = [run |-> n, len |-> Len(bits), state |-> w.state]
        BY <2>3, <2>4
      <3> HIDE DEF r
      <3> QED BY <3>1
    <2> HIDE DEF r
    <2>6. Len(bits) \in Nat /\ SubSeq(bits, Len(bits) + 1, Len(bits)) = <<>>
      BY <2>3, <2>4
    <2>7. ~short
      <3>1. n \in 0 .. dec.end - dec.at
        OBVIOUS
      <3> QED BY <1>4, <2>1, <2>5, <2>6, <3>1
    <2>8. Eats(r.len, d)
      BY <1>1, <2>7, Zenon
    <2>9. d = enc
      BY <2>4, <2>5
    <2>10. Coder(d) /\ LeadsOn(dec, d)
      <3>1. n \in Nat /\ dec.at + n <= dec.end
        BY <1>4
      <3> QED BY <1>5, <2>3, <2>5, <3>1
    <2> HIDE DEF d, short
    <2> QED BY <1>1, <1>7, <2>5, <2>6, <2>8, <2>9, <2>10, Read
  <1> QED BY <1>6, <1>7

-----------------------------------------------------------------------------
(***************************************************************************)
(* The invariant, and what it gives.                                       *)
(***************************************************************************)

\* Every step keeps it, and a symbol that is coded leads on.
LEMMA StepKeeps ==
    ASSUME QuicInv, [QuicNext]_quicVars
    PROVE  /\ QuicInv'
           /\ [/\ Encoding /\ bits' # bits /\ ~garbled' => LeadsOn(enc, enc')
               /\ Decoding /\ <<bits', spare'>> # <<bits, spare>>
                    => LeadsOn(dec, dec')]_quicVars
  <1> DEFINE E == Encoding /\ bits' # bits /\ ~garbled' => LeadsOn(enc, enc')
             D == Decoding /\ <<bits', spare'>> # <<bits, spare>> => LeadsOn(dec, dec')
  <1>1. ~(Encoding /\ Decoding)
    BY DEF Encoding, Decoding
  <1>2. CASE OpenStream
    <2>1. ~Encoding /\ ~Decoding
      BY <1>2 DEF OpenStream, Encoding, Decoding
    <2> QED BY <1>2, <2>1, OpenStreamKeeps, Zenon
  <1>3. CASE EncodePixel
    <2>1. Encoding
      BY <1>3 DEF EncodePixel
    <2> QED BY <1>1, <1>3, <2>1, EncodePixelKeeps, Zenon
  <1>4. CASE EncodeRun
    <2>1. Encoding
      BY <1>4 DEF EncodeRun
    <2> QED BY <1>1, <1>4, <2>1, EncodeRunKeeps, Zenon
  <1>5. CASE Damage
    <2>1. Encoding /\ garbled'
      BY <1>5 DEF Damage
    <2> QED BY <1>1, <1>5, <2>1, DamageKeeps, Zenon
  <1>6. CASE Complete
    <2>1. bits' = bits /\ spare' = spare
      BY <1>6 DEF Complete
    <2> QED BY <1>6, <2>1, CompleteKeeps, Zenon
  <1>7. ASSUME NEW plane, DecodePixel(plane) PROVE QuicInv' /\ E /\ D
    <2>1. Decoding
      BY <1>7 DEF DecodePixel
    <2> QED BY <1>1, <1>7, <2>1, DecodePixelKeeps, Zenon
  <1>8. CASE DecodeRun
    <2>1. Decoding
      BY <1>8 DEF DecodeRun
    <2> QED BY <1>1, <1>8, <2>1, DecodeRunKeeps, Zenon
  <1>9. CASE UNCHANGED quicVars
    BY <1>9, StutterKeeps, Zenon
  <1> QED
    BY <1>2, <1>3, <1>4, <1>5, <1>6, <1>7, <1>8, <1>9, Zenon
    DEF QuicNext, decompress_rgb_phase, decompress_alpha_phase, decompress_gray_phase,
        decompress_rgb16_phase

(***************************************************************************)
(* The coders of every plane stay in their types and in the row, whatever  *)
(* is read; without damage the decoder is where the encoder was a symbol   *)
(* ago, or where it is.                                                    *)
(***************************************************************************)
THEOREM QuicInvariance == QuicSpec => []QuicInv
  <1>1. QuicInit => QuicInv
    BY InitKeeps
  <1>2. QuicInv /\ [QuicNext]_quicVars => QuicInv'
    BY StepKeeps
  <1> QED BY <1>1, <1>2, PTL DEF QuicSpec

(***************************************************************************)
(* Whatever the stream holds, encoder and decoder index their rows only    *)
(* where there are pixels, no difference of positions is below zero, and   *)
(* the tables are left only by a symbol that a damaged stream spells.      *)
(***************************************************************************)
THEOREM InTheRow == QuicSpec => []CodersStayInRow
  <1>1. QuicInv => CodersStayInRow
    <2> SUFFICES ASSUME QuicInv PROVE CodersStayInRow
      OBVIOUS
    <2>1. ASSUME outcome = "body", NEW c \in {enc, dec}, c.plane # "done" PROVE InRow(c)
      <3>1. Placed(c) /\ Sized
        BY <2>1, AtWork
      <3> QED BY <3>1 DEF Placed, Kept, Bounds, Position, Sized, InRow
    <2>2. outcome = "panic" => garbled
      BY DEF QuicInv
    <2> QED BY <2>1, <2>2 DEF CodersStayInRow
  <1> QED BY <1>1, QuicInvariance, PTL

(***************************************************************************)
(* A decoder that has read all that was written has the encoder's pixels,  *)
(* models, wait masks and run state; and no image that arrives whole is    *)
(* given up.                                                               *)
(***************************************************************************)
THEOREM InStep == QuicSpec => []CodersInStep
  <1>1. QuicInv => CodersInStep
    BY DEF QuicInv, CodersInStep
  <1> QED BY <1>1, QuicInvariance, PTL

(***************************************************************************)
(* Every symbol leads on, to the next channel, pixel, row or plane, or is  *)
(* an empty run that no other follows: nobody codes for ever.              *)
(***************************************************************************)
THEOREM SymbolsLeadOn == QuicSpec => CodersLeadOn
  <1>1. QuicInv /\ [QuicNext]_quicVars
          => [/\ Encoding /\ bits' # bits /\ ~garbled' => LeadsOn(enc, enc')
              /\ Decoding /\ <<bits', spare'>> # <<bits, spare>>
                   => LeadsOn(dec, dec')]_quicVars
    BY StepKeeps
  <1> QED BY <1>1, QuicInvariance, PTL DEF QuicSpec, CodersLeadOn

\* A collection of subsets of a finite set has a smallest member.
LEMMA SmallestSet ==
    ASSUME NEW S, IsFiniteSet(S), NEW C, C \subseteq SUBSET S, C # {}
    PROVE  \E s \in C : \A t \in C : t \subseteq s => t = s
<1>1. IsWellFoundedOn(StrictSubsetOrdering(S), SUBSET S)
  BY FS_StrictSubsetOrderingWellFounded, FS_FiniteSubsetsOfFinite
<1>2. PICK s \in C : \A t \in C : ~(<<t, s>> \in StrictSubsetOrdering(S))
  BY <1>1, WFMin
<1>3. ASSUME NEW t \in C, t \subseteq s
      PROVE  t = s
  <2>1. t # s => <<t, s>> \in StrictSubsetOrdering(S)
    BY <1>3 DEF StrictSubsetOrdering
  <2> QED BY <1>2, <2>1
<1> QED BY <1>3

-----------------------------------------------------------------------------
(***************************************************************************)
(* Bits of a number, by their weight.                                      *)
(***************************************************************************)
\* The bit of x that weighs 2^e.
BitOf(x, e) == (x \div 2^e) % 2

\* Of two numbers, one above the other.
LEMMA JoinedBits ==
    ASSUME NEW a \in Nat, NEW q \in Nat, NEW r \in 0 .. 2^a - 1, NEW e \in Nat
    PROVE  BitOf(q * 2^a + r, e) = (IF e < a THEN BitOf(r, e) ELSE BitOf(q, e - a))
  <1> DEFINE p == 2^a
             d == 2^e
             v == q * p + r
  <1>1. p \in Nat \ {0} /\ d \in Nat \ {0}
    BY PowerFacts
  <1>2. r \in 0 .. p - 1
    OBVIOUS
  <1> HIDE DEF p
  <1>3. v \in Nat /\ r \in Nat
    BY <1>1, <1>2
  <1>4. CASE e < a
    <2> DEFINE h == 2^(a - e - 1)
               s == r \div d
               t == r % d
    <2>1. a - e - 1 \in Nat /\ a - e = (a - e - 1) + 1 /\ a - e \in Nat /\ e <= a
      BY <1>4
    <2>2. h \in Nat \ {0} /\ 2^(a - e) = 2 * h /\ p = d * 2^(a - e)
      BY <2>1, PowerFacts, PowerGrows DEF p
    <2> HIDE DEF h, d
    <2>3. s \in Nat /\ t \in 0 .. d - 1 /\ r = s * d + t
      BY <1>1, <1>3, Parts
    <2> DEFINE u == q * (2 * h) + s
    <2>4. v = d * u + t /\ u \in Nat /\ u \in Int /\ v \in Int
      <3>1. p = d * (2 * h)
        BY <2>2
      <3> HIDE DEF s, t
      <3>2. q * (d * (2 * h)) = d * (q * (2 * h))
        BY <1>1, <2>2
      <3>3. d * (q * (2 * h) + s) = d * (q * (2 * h)) + d * s
        BY <1>1, <2>2, <2>3
      <3>4. d * s = s * d /\ d * s \in Nat /\ t \in Nat
        BY <1>1, <2>3
      <3>5. q * (2 * h) \in Nat /\ q * p \in Nat
        BY <1>1, <2>2
      <3> QED BY <1>1, <2>3, <3>1, <3>2, <3>3, <3>4, <3>5
    <2> HIDE DEF v
    <2>5. v \div d = u
      <3> HIDE DEF u, t
      <3> QED BY <1>1, <2>3, <2>4, Quotient
    <2>6. u % 2 = s % 2
      <3> DEFINE x == q * h
                 y == s \div 2
                 z == s % 2
      <3>1. x \in Nat
        BY <2>2
      <3>2. y \in Nat /\ z \in 0 .. 1 /\ s = y * 2 + z
        BY <2>3
      <3> HIDE DEF s
      <3>3. q * (2 * h) = 2 * x
        BY <2>2
      <3> HIDE DEF x, y, z
      <3>4. u = 2 * (x + y) + z /\ x + y \in Int /\ z \in 0 .. 2 - 1 /\ 2 \in Nat \ {0} /\ u \in Int
        BY <3>1, <3>2, <3>3, <2>3
      <3> HIDE DEF u
      <3>5. u % 2 = z
        BY <3>4, Remainder
      <3> QED BY <3>5 DEF z
    <2> QED BY <1>4, <2>5, <2>6 DEF BitOf, d, v, p
  <1>5. CASE ~(e < a)
    <2> DEFINE d2 == 2^(e - a)
    <2>1. e - a \in Nat /\ a <= e
      BY <1>5
    <2>2. d2 \in Nat \ {0} /\ d = p * d2
      BY <2>1, PowerFacts, PowerGrows DEF p
    <2> HIDE DEF d2, d
    <2>3. v \div p = q
      <3>1. v = p * q + r /\ q \in Int /\ v \in Int
        BY <1>1, <1>2, <1>3
      <3> QED BY <1>1, <1>2, <3>1, Quotient
    <2> HIDE DEF v
    <2>4. (v \div p) \div d2 = v \div (p * d2)
      BY <1>1, <1>3, <2>2, DivideTwice
    <2>5. v \div d = q \div d2
      BY <2>2, <2>3, <2>4
    <2> QED BY <1>5, <2>5 DEF BitOf, d, d2, v, p
  <1> QED BY <1>4, <1>5

\* Behind the last bit there are zeros.
LEMMA HighBits ==
    ASSUME NEW a \in Nat, NEW r \in 0 .. 2^a - 1, NEW e \in Nat, e >= a
    PROVE  BitOf(r, e) = 0
  <1> DEFINE p == 2^a
             d == 2^e
  <1>1. p \in Nat \ {0} /\ d \in Nat \ {0} /\ p <= d /\ r \in 0 .. p - 1
    BY PowerFacts, PowerGrows
  <1> HIDE DEF p, d
  <1>2. r \in 0 .. d - 1
    BY <1>1
  <1>3. r \div d = 0
    BY <1>1, <1>2, BelowModulus
  <1>4. 0 % 2 = 0
    OBVIOUS
  <1> QED BY <1>3, <1>4 DEF BitOf, d

\* Shifted to the left.
LEMMA ShiftedUp ==
    ASSUME NEW a \in Nat, NEW x \in Nat, NEW e \in Nat
    PROVE  BitOf(x * 2^a, e) = (IF e < a THEN 0 ELSE BitOf(x, e - a))
  <1> DEFINE p == 2^a
             y == x * p
  <1>1. p \in Nat \ {0}
    BY PowerFacts
  <1>2. y = x * p + 0 /\ 0 \in 0 .. p - 1
    <2> HIDE DEF p
    <2>1. y \in Nat
      BY <1>1
    <2> HIDE DEF y
    <2>2. y + 0 = y /\ 0 \in 0 .. p - 1
      BY <1>1, <2>1
    <2> QED BY <2>2 DEF y
  <1>3. BitOf(x * p + 0, e) = (IF e < a THEN BitOf(0, e) ELSE BitOf(x, e - a))
    BY <1>2, JoinedBits
  <1>4. BitOf(0, e) = 0
    <2>1. 0 \in 0 .. 2^0 - 1 /\ e >= 0 /\ 0 \in Nat
      BY PowerFacts
    <2> QED BY <2>1, HighBits
  <1> QED BY <1>2, <1>3, <1>4

\* Shifted to the right.
LEMMA ShiftedDown ==
    ASSUME NEW a \in Nat, NEW x \in Nat, NEW e \in Nat
    PROVE  BitOf(x \div 2^a, e) = BitOf(x, a + e)
  <1> DEFINE p == 2^a
             d == 2^e
  <1>1. p \in Nat \ {0} /\ d \in Nat \ {0} /\ 2^(a + e) = p * d
    BY PowerFacts, PowerAdds
  <1> HIDE DEF p, d
  <1>2. (x \div p) \div d = x \div (p * d)
    BY <1>1, DivideTwice
  <1> QED BY <1>1, <1>2 DEF BitOf, p, d

\* Cut off on the left.
LEMMA CutOff ==
    ASSUME NEW a \in Nat, NEW x \in Nat, NEW e \in 0 .. a - 1
    PROVE  BitOf(x % 2^a, e) = BitOf(x, e)
  <1> DEFINE p == 2^a
             q == x \div p
             r == x % p
  <1>1. p \in Nat \ {0}
    BY PowerFacts
  <1>2. q \in Nat /\ r \in 0 .. p - 1 /\ x = q * p + r
    <2> HIDE DEF p
    <2> QED BY <1>1, Parts
  <1> HIDE DEF q, r
  <1>3. e \in Nat /\ e < a
    OBVIOUS
  <1>4. BitOf(q * p + r, e) = BitOf(r, e)
    BY <1>2, <1>3, JoinedBits
  <1> QED BY <1>2, <1>4 DEF r

\* A word shown bit by bit.
LEMMA WordBit ==
    ASSUME NEW x, NEW len \in Nat, NEW k \in 1 .. len
    PROVE  ToBits(x, len)[k] = BitOf(x, len - k)
  BY DEF ToBits, BitOf

\* What is shifted out of a word is cut off first.
LEMMA ShiftCut ==
    ASSUME NEW w \in Nat, NEW s \in 0 .. w, NEW x \in Nat
    PROVE  /\ (x * 2^s) % 2^w = (x % 2^(w - s)) * 2^s
           /\ (x * 2^s) % 2^w \in 0 .. 2^w - 1 /\ x % 2^(w - s) \in Nat
  <1> DEFINE p == 2^w
             d == 2^s
             c == 2^(w - s)
             a == x \div c
             b == x % c
             y == x * d
  <1>1. p \in Nat \ {0} /\ d \in Nat \ {0} /\ c \in Nat \ {0} /\ p = d * c
    <2>1. w - s \in Nat /\ s \in Nat /\ s <= w
      OBVIOUS
    <2> QED BY <2>1, PowerFacts, PowerGrows
  <1> HIDE DEF p, d, c
  <1>2. a \in Nat /\ b \in 0 .. c - 1 /\ x = a * c + b
    BY <1>1, Parts
  <1> HIDE DEF a, b
  <1>3. b * d \in 0 .. p - 1
    <2>1. b \in Nat /\ b + 1 <= c
      BY <1>1, <1>2
    <2>2. (b + 1) * d <= c * d /\ b * d \in Nat
      BY <1>1, <2>1
    <2>3. (b + 1) * d = b * d + d /\ c * d = p
      BY <1>1, <2>1
    <2> QED BY <1>1, <2>2, <2>3
  <1>4. y = p * a + b * d /\ y \in Int /\ a \in Int
    <2>1. b \in Nat
      BY <1>1, <1>2
    <2>2. (a * c + b) * d = (a * c) * d + b * d
      BY <1>1, <1>2, <2>1
    <2>3. (a * c) * d = (d * c) * a
      BY <1>1, <1>2
    <2> QED BY <1>1, <1>2, <2>1, <2>2, <2>3
  <1> HIDE DEF y
  <1>5. y % p = b * d
    <2> DEFINE r == b * d
    <2>1. r \in 0 .. p - 1 /\ y = p * a + r
      BY <1>3, <1>4
    <2> HIDE DEF r
    <2>2. p \in Nat \ {0} /\ a \in Int /\ y \in Int
      BY <1>1, <1>4
    <2>3. y % p = r
      BY <2>1, <2>2, Remainder
    <2> QED BY <2>3 DEF r
  <1>6. b \in Nat
    BY <1>1, <1>2
  <1> QED BY <1>3, <1>5, <1>6 DEF p, d, c, b, y

\* What comes behind the bits of a word, and leaves them as they are.
LEMMA WordGrows ==
    ASSUME NEW w \in Nat, NEW a \in 0 .. w, NEW q \in Nat, q * 2^a < 2^w, NEW v \in 0 .. 2^a - 1
    PROVE  /\ q * 2^a + v \in 0 .. 2^w - 1
           /\ \A e \in Nat : BitOf(q * 2^a + v, e)
                               = (IF e < a THEN BitOf(v, e) ELSE BitOf(q * 2^a, e))
  <1> DEFINE p == 2^w
             d == 2^a
             c == 2^(w - a)
             io == q * d
  <1>1. p \in Nat \ {0} /\ d \in Nat \ {0} /\ c \in Nat \ {0} /\ p = d * c
    <2>1. w - a \in Nat /\ a \in Nat /\ a <= w
      OBVIOUS
    <2> QED BY <2>1, PowerFacts, PowerGrows
  <1>2. v \in 0 .. d - 1 /\ io < p
    OBVIOUS
  <1>3. ASSUME NEW e \in Nat
        PROVE  BitOf(io + v, e) = (IF e < a THEN BitOf(v, e) ELSE BitOf(io, e))
    <2>1. a \in Nat
      OBVIOUS
    <2>2. BitOf(io + v, e) = (IF e < a THEN BitOf(v, e) ELSE BitOf(q, e - a))
      BY <2>1, JoinedBits
    <2>3. BitOf(io, e) = (IF e < a THEN 0 ELSE BitOf(q, e - a))
      BY <2>1, ShiftedUp
    <2> HIDE DEF io, d
    <2> QED BY <2>2, <2>3
  <1> HIDE DEF p, d, c
  <1>4. q < c
    <2> SUFFICES ASSUME q >= c PROVE FALSE
      BY <1>1
    <2>1. q * d >= c * d /\ c * d = d * c
      BY <1>1
    <2> QED BY <1>1, <1>2, <2>1
  <1>5. io + v \in 0 .. p - 1
    <2>1. q + 1 <= c
      BY <1>1, <1>4
    <2>2. (q + 1) * d <= c * d /\ (q + 1) * d = q * d + d /\ c * d = p /\ q * d \in Nat
      BY <1>1, <2>1
    <2> HIDE DEF io
    <2>3. io + d <= p /\ io \in Nat
      BY <2>2 DEF io
    <2> QED BY <1>1, <1>2, <2>3
  <1> QED BY <1>3, <1>5 DEF p, d, io

-----------------------------------------------------------------------------
(***************************************************************************)
(* BitWriter and BitReader.                                                *)
(***************************************************************************)
\* The bit written at a position; zero behind the last.
Written(p) == IF p <= Len(wrote) THEN wrote[p] ELSE 0

\* x is the i-th word of what is written.
Holds(x, i) ==
    /\ x \in 0 .. 2^WordBits - 1
    /\ \A k \in 1 .. WordBits : BitOf(x, WordBits - k) = Written(i * WordBits + k)

\* Complete words hold the bits written; the word being filled holds the bits behind
\* them and is empty where there is room; what the reader has shown is right.
BitsInv ==
    /\ wrote \in Seq(Bit) /\ buf \in Seq(Nat)
    /\ \A i \in 1 .. Len(buf) : Holds(buf[i], i - 1)
    /\ reader = Writing =>
         /\ window.shows = <<>>
         /\ available \in 1 .. WordBits
         /\ Len(wrote) = Len(buf) * WordBits + (WordBits - available)
         /\ Holds(io_word, Len(buf))
         /\ \E q \in Nat : io_word = q * 2^available
    /\ reader # Writing =>
         /\ reader \in [bit_pos : Nat, bytes : 0 .. Len(buf) * (WordBits \div ByteBits)]
         /\ BitsComeBack

\* Zero has none but zeros.
LEMMA ZeroBits == \A w \in Nat : 0 \in 0 .. 2^w - 1 /\ BitOf(0, w) = 0
  <1> SUFFICES ASSUME NEW w \in Nat PROVE 0 \in 0 .. 2^w - 1 /\ BitOf(0, w) = 0
    OBVIOUS
  <1>1. 0 \in 0 .. 2^w - 1
    <2> DEFINE p == 2^w
    <2>1. p \in Nat \ {0}
      BY PowerFacts
    <2> HIDE DEF p
    <2>2. 0 \in 0 .. p - 1
      BY <2>1
    <2> QED BY <2>2 DEF p
  <1>2. 0 \in 0 .. 2^0 - 1 /\ w >= 0 /\ 0 \in Nat
    BY PowerFacts
  <1> QED BY <1>1, <1>2, HighBits

\* Nothing is written at first.
LEMMA BitsInitHolds == BitsInit => BitsInv
  <1> SUFFICES ASSUME BitsInit PROVE BitsInv
    OBVIOUS
  <1>1. /\ buf = <<>> /\ io_word = 0 /\ available = WordBits /\ reader = Writing /\ wrote = <<>>
        /\ window.shows = <<>>
    BY DEF BitsInit
  <1>2. WordBits \in Nat \ {0}
    BY QuicBitsAssumption
  <1>3. wrote \in Seq(Bit) /\ buf \in Seq(Nat) /\ Len(wrote) = 0 /\ Len(buf) = 0
    BY <1>1
  <1>4. Holds(io_word, Len(buf))
    <2>1. ASSUME NEW k \in 1 .. WordBits PROVE BitOf(0, WordBits - k) = Written(0 * WordBits + k)
      <3>1. WordBits - k \in Nat /\ 0 * WordBits + k = k /\ ~(k <= 0)
        BY <1>2
      <3> QED BY <1>3, <3>1, ZeroBits DEF Written
    <2> QED BY <1>1, <1>2, <1>3, <2>1, ZeroBits DEF Holds
  <1>5. io_word = 0 * 2^available
    <2> DEFINE p == 2^available
    <2>1. p \in Nat
      BY <1>1, <1>2, PowerFacts
    <2> HIDE DEF p
    <2>2. 0 * p = 0
      BY <2>1
    <2> QED BY <1>1, <2>2 DEF p
  <1>6. Len(wrote) = Len(buf) * WordBits + (WordBits - available)
    BY <1>1, <1>2, <1>3
  <1>7. available \in 1 .. WordBits
    BY <1>1, <1>2
  <1>8. \E q \in Nat : io_word = q * 2^available
    BY <1>5
  <1> QED BY <1>1, <1>3, <1>4, <1>6, <1>7, <1>8 DEF BitsInv

\* One sequence behind another.
LEMMA Behind ==
    ASSUME NEW s \in Seq(Bit), NEW t \in Seq(Bit)
    PROVE  /\ s \o t \in Seq(Bit) /\ Len(s \o t) = Len(s) + Len(t)
           /\ Len(s) \in Nat /\ Len(t) \in Nat
           /\ \A k \in 1 .. Len(s) : (s \o t)[k] = s[k]
           /\ \A k \in 1 .. Len(t) : (s \o t)[Len(s) + k] = t[k]
  OBVIOUS

\* What is written, after a further word.
LEMMA WrittenThen ==
    ASSUME wrote \in Seq(Bit), NEW len \in Nat, NEW word \in 0 .. 2^len - 1,
           wrote' = wrote \o ToBits(word, len), NEW n, n = Len(wrote)
    PROVE  /\ wrote' \in Seq(Bit) /\ Len(wrote') = n + len /\ n \in Nat
           /\ \A p \in Nat \ {0} : p <= n => Written(p)' = Written(p)
           /\ \A j \in 1 .. len : Written(n + j)' = BitOf(word, len - j)
           /\ \A p \in Nat : p > n + len => Written(p)' = 0
  <1> DEFINE t == ToBits(word, len)
  <1>1. t \in Seq(Bit) /\ Len(t) = len
    BY BitsOfAWord
  <1>2. \A j \in 1 .. len : t[j] = BitOf(word, len - j)
    BY WordBit
  <1> HIDE DEF t
  <1>3. wrote' = wrote \o t
    BY DEF t
  <1>4. /\ wrote' \in Seq(Bit) /\ Len(wrote') = n + len /\ n \in Nat
        /\ \A p \in 1 .. n : wrote'[p] = wrote[p]
        /\ \A j \in 1 .. len : wrote'[n + j] = t[j]
    <2> DEFINE u == wrote \o t
    <2>1. /\ u \in Seq(Bit) /\ Len(u) = n + len /\ n \in Nat
          /\ \A p \in 1 .. n : u[p] = wrote[p]
          /\ \A j \in 1 .. len : u[n + j] = t[j]
      <3>1. /\ u \in Seq(Bit) /\ Len(u) = Len(wrote) + Len(t)
            /\ Len(wrote) \in Nat /\ Len(t) \in Nat
            /\ \A p \in 1 .. Len(wrote) : u[p] = wrote[p]
            /\ \A j \in 1 .. Len(t) : u[Len(wrote) + j] = t[j]
        BY <1>1, Behind
      <3> HIDE DEF u
      <3> QED BY <1>1, <3>1
    <2>2. wrote' = u
      BY <1>3
    <2> HIDE DEF u
    <2> QED BY <2>1, <2>2
  <1>5. ASSUME NEW p \in Nat \ {0}, p <= n PROVE Written(p)' = Written(p)
    <2>1. p \in 1 .. n /\ p <= n + len
      BY <1>4, <1>5
    <2> QED BY <1>4, <1>5, <2>1 DEF Written
  <1>6. ASSUME NEW j \in 1 .. len PROVE Written(n + j)' = t[j]
    <2>1. n + j <= n + len
      BY <1>4
    <2> QED BY <1>4, <2>1 DEF Written
  <1>7. ASSUME NEW p \in Nat, p > n + len PROVE Written(p)' = 0
    <2>1. ~(p <= n + len)
      BY <1>4, <1>7
    <2> QED BY <1>4, <2>1 DEF Written
  <1> QED BY <1>2, <1>4, <1>5, <1>6, <1>7

\* The word that is being filled takes the bits of a further one, as far as it has room.
LEMMA Filled ==
    ASSUME BitsInv, reader = Writing, NEW len \in Nat, NEW word \in 0 .. 2^len - 1,
           wrote' = wrote \o ToBits(word, len),
           NEW room, room = available, NEW v \in 0 .. 2^room - 1, NEW i, i = Len(buf),
           \A e \in Nat : e < room =>
             BitOf(v, e) = (IF e + len < room THEN 0 ELSE BitOf(word, e + len - room)),
           NEW x, x = io_word + v
    PROVE  Holds(x, i)'
  <1> DEFINE W == WordBits
             p == 2^W
             base == i * W
             pending == W - room
  <1>0. PICK n : n = Len(wrote)
    OBVIOUS
  <1>1. /\ W \in Nat \ {0} /\ wrote \in Seq(Bit) /\ i \in Nat /\ room \in 1 .. W
        /\ n = base + pending
        /\ Holds(io_word, i) /\ \E q \in Nat : io_word = q * 2^room
    BY <1>0, QuicBitsAssumption DEF BitsInv
  <1>2. PICK q \in Nat : io_word = q * 2^room
    BY <1>1
  <1>3. q * 2^room < 2^W
    <2>1. io_word \in 0 .. p - 1 /\ p \in Nat
      BY <1>1, PowerFacts DEF Holds
    <2> HIDE DEF p
    <2>2. io_word < p
      BY <2>1
    <2> QED BY <1>2, <2>2 DEF p
  <1>4. /\ x \in 0 .. p - 1
        /\ \A e \in Nat : BitOf(x, e) = (IF e < room THEN BitOf(v, e) ELSE BitOf(io_word, e))
    <2>1. W \in Nat /\ room \in 0 .. W
      BY <1>1
    <2>2. /\ q * 2^room + v \in 0 .. 2^W - 1
          /\ \A e \in Nat : BitOf(q * 2^room + v, e)
                               = (IF e < room THEN BitOf(v, e) ELSE BitOf(q * 2^room, e))
      BY <1>3, <2>1, WordGrows
    <2> QED BY <1>2, <2>2
  <1>5. /\ \A t \in Nat \ {0} : t <= n => Written(t)' = Written(t)
        /\ \A j \in 1 .. len : Written(n + j)' = BitOf(word, len - j)
        /\ \A t \in Nat : t > n + len => Written(t)' = 0
    <2>1. wrote \in Seq(Bit)
      BY <1>1
    <2> HIDE DEF base, pending, W, p
    <2> QED BY <1>0, <2>1, WrittenThen
  <1>6. \A k \in 1 .. W : BitOf(io_word, W - k) = Written(base + k)
    BY <1>1 DEF Holds
  <1>7. base \in Nat
    BY <1>1
  <1> HIDE DEF base
  <1>8. n \in Nat /\ pending \in 0 .. W - 1
    BY <1>1, <1>7
  <1>9. ASSUME NEW k \in 1 .. W PROVE BitOf(x, W - k) = Written(base + k)'
    <2>1. W - k \in Nat /\ k \in Nat /\ base + k \in Nat \ {0}
      BY <1>1, <1>7
    <2>2. CASE k <= pending
      <3>1. ~(W - k < room) /\ base + k <= n
        BY <1>1, <1>7, <2>1, <2>2
      <3> QED BY <1>4, <1>5, <1>6, <2>1, <3>1
    <2>3. CASE k > pending /\ k <= pending + len
      <3> DEFINE j == k - pending
                 e == W - k
      <3>1. /\ e < room /\ ~(e + len < room) /\ j \in 1 .. len /\ n + j = base + k
            /\ e + len - room = len - j /\ e \in Nat
        BY <1>1, <1>7, <1>8, <2>1, <2>3
      <3> HIDE DEF e, j
      <3>2. BitOf(x, e) = BitOf(word, len - j)
        BY <1>4, <3>1
      <3> QED BY <1>5, <3>1, <3>2 DEF e
    <2>4. CASE k > pending + len
      <3> DEFINE e == W - k
      <3>1. e < room /\ e + len < room /\ base + k > n + len /\ e \in Nat
        BY <1>1, <1>7, <1>8, <2>1, <2>4
      <3> HIDE DEF e
      <3>2. BitOf(x, e) = 0
        BY <1>4, <3>1
      <3> QED BY <1>5, <2>1, <3>1, <3>2 DEF e
    <2> QED BY <1>8, <2>1, <2>2, <2>3, <2>4
  <1> QED BY <1>4, <1>9 DEF Holds, base, p

\* The words that are complete stay what they are.
LEMMA WordsStay ==
    ASSUME BitsInv, reader = Writing, NEW len \in Nat, NEW word \in 0 .. 2^len - 1,
           wrote' = wrote \o ToBits(word, len), NEW i \in 1 .. Len(buf), NEW x, x = buf[i]
    PROVE  Holds(x, i - 1)'
  <1> DEFINE W == WordBits
             n == Len(wrote)
             m == Len(buf)
             base == (i - 1) * W
  <1>1. /\ W \in Nat \ {0} /\ wrote \in Seq(Bit) /\ m \in Nat /\ available \in 1 .. W
        /\ n = m * W + (W - available) /\ Holds(x, i - 1)
    BY QuicBitsAssumption DEF BitsInv
  <1>2. \A t \in Nat \ {0} : t <= n => Written(t)' = Written(t)
    BY <1>1, WrittenThen
  <1>3. base \in Nat /\ base + W <= n /\ n \in Nat
    <2>1. i \in Nat /\ i - 1 \in Nat /\ i <= m
      BY <1>1
    <2>2. i * W <= m * W /\ base + W = i * W /\ base \in Nat /\ m * W \in Nat
      <3> HIDE DEF m
      <3> QED BY <1>1, <2>1
    <2> DEFINE c == m * W
    <2>3. c \in Nat /\ base \in Nat /\ base + W <= c /\ n = c + (W - available)
      BY <1>1, <2>2
    <2> HIDE DEF base, n, c
    <2> QED BY <1>1, <2>3
  <1> HIDE DEF base, n
  <1>4. ASSUME NEW k \in 1 .. W PROVE Written(base + k)' = Written(base + k)
    <2>1. base + k \in Nat \ {0} /\ base + k <= n
      BY <1>1, <1>3
    <2> QED BY <1>2, <2>1
  <1> QED BY <1>1, <1>4 DEF Holds, base

\* BitWriter::write puts a word behind the others, across the boundary too.
LEMMA WriteKeeps ==
    ASSUME BitsInv, NEW w \in BitWrites, Write(w.word, w.len)
    PROVE  BitsInv'
  <1> DEFINE W == WordBits
  <1>1. PICK len, word : len = w.len /\ word = w.word
    OBVIOUS
  <1>2. PICK room : room = available
    OBVIOUS
  <1>3. PICK i : i = Len(buf)
    OBVIOUS
  <1>4. /\ W \in Nat \ {0} /\ len \in 1 .. W - 1 /\ word \in 0 .. 2^len - 1
    BY <1>1, QuicBitsAssumption
  <1>5. /\ reader = Writing /\ reader' = Writing /\ window' = window
        /\ wrote' = wrote \o ToBits(word, len)
        /\ IF len < room
           THEN /\ available' = room - len
                /\ io_word' = io_word + word * 2^(room - len)
                /\ buf' = buf
           ELSE LET delta == len - room IN
                /\ buf' = Append(buf, io_word + (word \div 2^delta))
                /\ available' = W - delta
                /\ io_word' = IF delta = 0 THEN 0 ELSE (word * 2^(W - delta)) % 2^W
    BY <1>1, <1>2 DEF Write
  <1>6. /\ wrote \in Seq(Bit) /\ buf \in Seq(Nat) /\ i \in Nat /\ room \in 1 .. W
        /\ window.shows = <<>> /\ Len(wrote) = i * W + (W - room)
        /\ Holds(io_word, i) /\ \E q \in Nat : io_word = q * 2^room
    BY <1>2, <1>3, <1>5 DEF BitsInv
  <1>7. PICK n : n = Len(wrote)
    OBVIOUS
  <1>8. len \in Nat /\ word \in Nat
    <2> DEFINE p == 2^len
    <2>1. p \in Nat /\ word \in 0 .. p - 1 /\ len \in Nat
      BY <1>4, PowerFacts
    <2> HIDE DEF p
    <2> QED BY <2>1
  <1>9. /\ wrote' \in Seq(Bit) /\ Len(wrote') = n + len /\ n \in Nat
        /\ \A j \in 1 .. len : Written(n + j)' = BitOf(word, len - j)
        /\ \A p \in Nat : p > n + len => Written(p)' = 0
    BY <1>4, <1>5, <1>6, <1>7, <1>8, WrittenThen
  <1>10. W \in Nat /\ len \in Nat /\ room \in 1 .. W /\ n \in Nat
    BY <1>4, <1>6, <1>8, <1>9
  <1>10a. i * W \in Nat /\ n = i * W + (W - room)
    <2>1. i * W \in Nat
      BY <1>4, <1>6
    <2>2. n = i * W + (W - room)
      BY <1>6, <1>7
    <2> QED BY <2>1, <2>2
  <1>11. CASE len < room
    <2> DEFINE s == room - len
               v == word * 2^s
    <2>1. s \in Nat /\ s \in 1 .. W
      BY <1>4, <1>6, <1>8, <1>11
    <2>2. v \in 0 .. 2^room - 1
      <3> DEFINE a == 2^len
                 b == 2^s
      <3>1. a \in Nat \ {0} /\ b \in Nat \ {0} /\ 2^room = a * b /\ word \in 0 .. a - 1
        <4>1. room = len + s
          BY <1>6, <1>8
        <4> QED BY <1>4, <1>8, <2>1, <4>1, PowerFacts, PowerAdds
      <3> HIDE DEF a, b
      <3>2. word + 1 <= a
        BY <3>1
      <3>3. (word + 1) * b <= a * b /\ (word + 1) * b = word * b + b /\ word * b \in Nat
        BY <1>8, <3>1, <3>2
      <3>4. word * b \in 0 .. a * b - 1
        BY <3>1, <3>3
      <3> QED BY <3>1, <3>4 DEF b
    <2>3. ASSUME NEW e \in Nat, e < room
          PROVE  BitOf(v, e) = (IF e + len < room THEN 0 ELSE BitOf(word, e + len - room))
      <3>1. BitOf(v, e) = (IF e < s THEN 0 ELSE BitOf(word, e - s))
        BY <1>8, <2>1, ShiftedUp
      <3>2. (e < s <=> e + len < room) /\ e - s = e + len - room
        BY <1>6, <1>8
      <3> HIDE DEF s, v
      <3> QED BY <3>1, <3>2
    <2> HIDE DEF v
    <2>4. PICK x : x = io_word + v
      OBVIOUS
    <2>5. Holds(x, i)'
      BY <1>2, <1>3, <1>4, <1>5, <1>8, <2>2, <2>3, <2>4, Filled
    <2>6. io_word' = x /\ available' = s /\ buf' = buf
      BY <1>5, <1>11, <2>4 DEF v
    <2>7. \E q \in Nat : x = q * 2^s
      <3>1. PICK q \in Nat : io_word = q * 2^room
        BY <1>6
      <3> DEFINE a == 2^len
                 b == 2^s
      <3>2. a \in Nat /\ b \in Nat /\ 2^room = a * b
        <4>1. room = len + s
          BY <1>6, <1>8
        <4> QED BY <1>8, <2>1, <4>1, PowerFacts, PowerAdds
      <3> HIDE DEF a
      <3>3. io_word = q * (a * b) /\ v = word * b
        BY <3>1, <3>2 DEF v
      <3> HIDE DEF b
      <3>4. q * (a * b) + word * b = (q * a + word) * b /\ q * a + word \in Nat
        <4>1. q * a \in Nat /\ q * (a * b) = (q * a) * b
          BY <3>2
        <4> QED BY <1>8, <3>2, <4>1
      <3>5. x = (q * a + word) * b
        BY <2>4, <3>3, <3>4
      <3> QED BY <3>4, <3>5 DEF b
    <2>8. Len(wrote') = i * W + (W - s)
      <3> DEFINE c == i * W
      <3>1. c \in Nat /\ n = c + (W - room)
        BY <1>10a
      <3> HIDE DEF c
      <3>2. n + len = c + (W - s)
        BY <1>10, <3>1
      <3> QED BY <1>9, <3>2 DEF c
    <2>9. \A k \in 1 .. Len(buf') : Holds(buf[k], k - 1)'
      <3> SUFFICES ASSUME NEW k \in 1 .. Len(buf') PROVE Holds(buf[k], k - 1)'
        OBVIOUS
      <3>1. PICK y : y = buf[k]
        OBVIOUS
      <3>2. k \in 1 .. Len(buf) /\ buf'[k] = y
        BY <2>6, <3>1
      <3>3. Holds(y, k - 1)'
        BY <1>4, <1>5, <1>8, <3>1, <3>2, WordsStay
      <3> QED BY <3>2, <3>3 DEF Holds
    <2>10. Len(buf') = i /\ Holds(io_word, Len(buf))'
      BY <1>3, <2>5, <2>6 DEF Holds
    <2> HIDE DEF s
    <2>11. \E q \in Nat : io_word' = q * 2^available'
      BY <2>6, <2>7
    <2> QED BY <1>5, <1>6, <1>9, <2>1, <2>6, <2>8, <2>9, <2>10, <2>11 DEF BitsInv
  <1>12. CASE ~(len < room)
    <2> DEFINE delta == len - room
               v == word \div 2^delta
               s == W - delta
    <2>1. delta \in Nat /\ len = delta + room /\ s \in 1 .. W /\ delta \in 0 .. W
      BY <1>4, <1>6, <1>8, <1>12
    <2>2. v \in 0 .. 2^room - 1
      <3> DEFINE a == 2^delta
                 b == 2^room
      <3>1. room \in Nat
        BY <1>6
      <3>2. a \in Nat \ {0} /\ b \in Nat \ {0} /\ 2^len = a * b
        BY <2>1, <3>1, PowerFacts, PowerAdds
      <3>3. word \in 0 .. 2^len - 1
        BY <1>4
      <3> HIDE DEF a, b
      <3>4. word < a * b
        BY <1>8, <3>2, <3>3
      <3>5. word \div a < b /\ word \div a \in Nat
        BY <1>8, <3>2, <3>4, QuotientBelow
      <3>6. word \div a \in 0 .. b - 1
        BY <3>2, <3>5
      <3> QED BY <3>6 DEF a, b
    <2>3. ASSUME NEW e \in Nat, e < room
          PROVE  BitOf(v, e) = (IF e + len < room THEN 0 ELSE BitOf(word, e + len - room))
      <3>1. BitOf(v, e) = BitOf(word, delta + e)
        BY <1>8, <2>1, ShiftedDown
      <3>2. ~(e + len < room) /\ delta + e = e + len - room
        BY <1>6, <1>8, <1>12
      <3> HIDE DEF delta, v
      <3> QED BY <3>1, <3>2
    <2> HIDE DEF v
    <2>4. PICK x : x = io_word + v
      OBVIOUS
    <2>5. Holds(x, i)'
      BY <1>2, <1>3, <1>4, <1>5, <1>8, <2>2, <2>3, <2>4, Filled
    <2>6. /\ buf' = Append(buf, x) /\ available' = s
          /\ io_word' = IF delta = 0 THEN 0 ELSE (word * 2^s) % 2^W
      BY <1>5, <1>12, <2>4 DEF v
    <2> HIDE DEF s, delta
    <2>7. s = W - delta
      BY DEF s
    <2>8. x \in Nat
      <3> DEFINE p == 2^W
      <3>1. x \in 0 .. p - 1 /\ p \in Nat
        BY <1>4, <2>5, PowerFacts DEF Holds
      <3> HIDE DEF p
      <3> QED BY <3>1
    <2>9. buf' \in Seq(Nat) /\ Len(buf') = i + 1 /\ buf'[i + 1] = x
          /\ \A k \in 1 .. i : buf'[k] = buf[k]
      BY <1>3, <1>6, <2>6, <2>8
    <2>10. ASSUME NEW k \in 1 .. i + 1 PROVE Holds(buf[k], k - 1)'
      <3>1. CASE k = i + 1
        <4>1. k - 1 = i /\ buf'[k] = x
          BY <1>6, <2>9, <3>1
        <4> QED BY <2>5, <4>1 DEF Holds
      <3>2. CASE k # i + 1
        <4>1. PICK y : y = buf[k]
          OBVIOUS
        <4>2. k \in 1 .. Len(buf) /\ buf'[k] = y
          BY <1>3, <1>6, <2>9, <3>2, <4>1
        <4>3. Holds(y, k - 1)'
          BY <1>4, <1>5, <1>8, <4>1, <4>2, WordsStay
        <4> QED BY <4>2, <4>3 DEF Holds
      <3> QED BY <3>1, <3>2
    <2> DEFINE base == (i + 1) * W
    <2>11. base \in Nat /\ base = i * W + W
      BY <1>4, <1>6
    <2> HIDE DEF base
    <2>12. n + room = base /\ Len(wrote') = base + delta
      <3> DEFINE c == i * W
      <3>1. c \in Nat /\ n = c + (W - room) /\ base = c + W
        BY <1>10a, <2>11
      <3> HIDE DEF c
      <3>2. n + room = base /\ n + len = base + delta
        BY <1>10, <2>1, <3>1
      <3> QED BY <1>9, <3>2
    <2>13. Len(wrote') = base + (W - s)
      BY <1>4, <2>1, <2>7, <2>12
    <2>14. PICK io : io = io_word'
      OBVIOUS
    <2>15. CASE delta = 0
      <3>1. io = 0 /\ s = W /\ Len(wrote') <= base
        BY <1>4, <2>6, <2>7, <2>11, <2>12, <2>14, <2>15
      <3>2. Holds(0, i + 1)'
        <4>1. ASSUME NEW k \in 1 .. W PROVE BitOf(0, W - k) = Written(base + k)'
          <5>1. base + k \in Nat /\ base + k > n + len /\ W - k \in Nat
            BY <1>4, <1>6, <1>8, <1>9, <2>1, <2>11, <2>12, <2>15
          <5> QED BY <1>9, <5>1, ZeroBits
        <4>2. 0 \in 0 .. 2^W - 1
          BY <1>4, ZeroBits
        <4> QED BY <4>1, <4>2 DEF Holds, base
      <3>3. 0 = 0 * 2^s
        <4> DEFINE p == 2^s
        <4>1. p \in Nat
          BY <1>4, <3>1, PowerFacts
        <4> HIDE DEF p
        <4>2. 0 * p = 0
          BY <4>1
        <4> QED BY <4>2 DEF p
      <3>4. Holds(io_word, Len(buf))' /\ \E q \in Nat : io_word' = q * 2^s
        BY <2>9, <2>14, <3>1, <3>2, <3>3 DEF Holds
      <3> QED BY <1>5, <1>6, <1>9, <2>1, <2>6, <2>9, <2>10, <2>13, <3>4 DEF BitsInv, base
    <2>16. CASE delta # 0
      <3> DEFINE y == word * 2^s
      <3>1. io = y % 2^W
        BY <2>6, <2>14, <2>16
      <3>2. W \in Nat /\ s \in 0 .. W /\ s \in Nat /\ W - s = delta
        BY <1>4, <2>1, <2>7
      <3>3. io = (word % 2^(W - s)) * 2^s /\ io \in 0 .. 2^W - 1 /\ word % 2^(W - s) \in Nat
        BY <1>8, <3>1, <3>2, ShiftCut
      <3>4. y \in Nat
        <4> DEFINE p == 2^s
        <4>1. p \in Nat
          BY <3>2, PowerFacts
        <4> HIDE DEF p
        <4>2. word * p \in Nat
          BY <1>8, <4>1
        <4> QED BY <4>2 DEF p
      <3>a. n + room = base
        BY <2>12
      <3>5. ASSUME NEW k \in 1 .. W PROVE BitOf(io, W - k) = Written(base + k)'
        <4>1. W - k \in 0 .. W - 1 /\ W - k \in Nat /\ k \in Nat /\ base + k \in Nat
          BY <1>4, <2>11
        <4>2. BitOf(io, W - k) = BitOf(y, W - k)
          <5> HIDE DEF y
          <5> QED BY <3>1, <3>2, <3>4, <4>1, CutOff
        <4>3. BitOf(y, W - k) = (IF W - k < s THEN 0 ELSE BitOf(word, W - k - s))
          BY <1>8, <3>2, <4>1, ShiftedUp
        <4> HIDE DEF y
        <4>4. CASE k > delta
          <5>1. W - k < s /\ base + k > n + len
            BY <1>10, <2>1, <2>7, <2>11, <3>a, <4>1, <4>4
          <5> QED BY <1>9, <4>1, <4>2, <4>3, <5>1
        <4>5. CASE ~(k > delta)
          <5>1. /\ ~(W - k < s) /\ W - k - s = delta - k
                /\ room + k \in 1 .. len /\ n + (room + k) = base + k
                /\ len - (room + k) = delta - k
            BY <1>10, <2>1, <2>7, <2>11, <3>a, <4>1, <4>5
          <5>2. Written(base + k)' = BitOf(word, delta - k)
            <6>1. Written(n + (room + k))' = BitOf(word, len - (room + k))
              BY <1>9, <5>1
            <6> QED BY <5>1, <6>1
          <5> QED BY <4>2, <4>3, <5>1, <5>2
        <4> QED BY <4>4, <4>5
      <3>6. Holds(io, i + 1)'
        BY <3>3, <3>5 DEF Holds, base
      <3>7. Holds(io_word, Len(buf))' /\ \E q \in Nat : io_word' = q * 2^s
        BY <2>9, <2>14, <3>3, <3>6 DEF Holds
      <3> QED BY <1>5, <1>6, <1>9, <2>1, <2>6, <2>9, <2>10, <2>13, <3>7 DEF BitsInv, base
    <2> QED BY <2>15, <2>16
  <1> QED BY <1>11, <1>12

\* BitWriter::finish keeps the last word, however much of it is filled.
LEMMA FinishKeeps == ASSUME BitsInv, Finish PROVE BitsInv'
  <1> DEFINE perWord == WordBits \div ByteBits
  <1>1. /\ reader = Writing /\ wrote' = wrote /\ window' = window
        /\ buf' = (IF available # WordBits THEN Append(buf, io_word) ELSE buf)
        /\ \E bytes \in 0 .. Len(buf') * perWord : reader' = [bit_pos |-> 0, bytes |-> bytes]
    BY DEF Finish
  <1>2. /\ wrote \in Seq(Bit) /\ buf \in Seq(Nat) /\ window.shows = <<>>
        /\ \A i \in 1 .. Len(buf) : Holds(buf[i], i - 1)
        /\ Holds(io_word, Len(buf))
    BY <1>1 DEF BitsInv
  <1>3. io_word \in Nat
    <2> DEFINE p == 2^WordBits
    <2>1. p \in Nat /\ io_word \in 0 .. p - 1
      BY <1>2, QuicBitsAssumption, PowerFacts DEF Holds
    <2> HIDE DEF p
    <2> QED BY <2>1
  <1>4. \A x : \A i : Holds(x, i) => Holds(x, i)'
    BY <1>1 DEF Holds, Written
  <1>5. buf' \in Seq(Nat) /\ \A i \in 1 .. Len(buf') : Holds(buf[i], i - 1)'
    <2>1. CASE available # WordBits
      <3>1. PICK n : n = Len(buf)
        OBVIOUS
      <3>2. /\ buf' \in Seq(Nat) /\ Len(buf') = n + 1 /\ n \in Nat /\ buf'[n + 1] = io_word
            /\ \A i \in 1 .. n : buf'[i] = buf[i]
        BY <1>1, <1>2, <1>3, <2>1, <3>1
      <3>3. ASSUME NEW i \in 1 .. n + 1 PROVE Holds(buf[i], i - 1)'
        <4>1. PICK y : y = buf'[i]
          OBVIOUS
        <4>2. Holds(y, i - 1)
          <5>1. CASE i = n + 1
            <6>1. y = io_word /\ i - 1 = n
              BY <3>2, <4>1, <5>1
            <6> QED BY <1>2, <3>1, <6>1
          <5>2. CASE i # n + 1
            <6>1. i \in 1 .. n /\ y = buf[i]
              BY <3>2, <4>1, <5>2
            <6> QED BY <1>2, <3>1, <6>1
          <5> QED BY <5>1, <5>2
        <4>3. Holds(y, i - 1)'
          BY <1>4, <4>2
        <4> QED BY <4>1, <4>3 DEF Holds
      <3> QED BY <3>2, <3>3
    <2>2. CASE available = WordBits
      <3>1. buf' = buf
        BY <1>1, <2>2
      <3>2. ASSUME NEW i \in 1 .. Len(buf) PROVE Holds(buf[i], i - 1)'
        <4>1. PICK y : y = buf[i]
          OBVIOUS
        <4>2. Holds(y, i - 1)'
          BY <1>2, <1>4, <4>1
        <4> QED BY <3>1, <4>1, <4>2 DEF Holds
      <3> QED BY <1>2, <3>1, <3>2
    <2> QED BY <2>1, <2>2
  <1>6. reader' \in [bit_pos : Nat, bytes : 0 .. Len(buf') * perWord] /\ reader' # Writing
    <2>1. PICK bytes \in 0 .. Len(buf') * perWord : reader' = [bit_pos |-> 0, bytes |-> bytes]
      BY <1>1
    <2> DEFINE top == Len(buf') * perWord
    <2> HIDE DEF top
    <2>2. reader' \in [bit_pos : Nat, bytes : 0 .. top]
      BY <2>1 DEF top
    <2>3. reader' # Writing
      <3>1. reader'.bit_pos = 0 /\ Writing.bit_pos = -1
        BY <2>1 DEF Writing
      <3> QED BY <3>1
    <2> QED BY <2>2, <2>3 DEF top
  <1>7. BitsComeBack'
    <2>1. window'.shows = <<>>
      BY <1>1, <1>2
    <2>2. DOMAIN window'.shows = {}
      BY <2>1
    <2> QED BY <2>2 DEF BitsComeBack
  <1>8. Writing' = Writing
    BY DEF Writing
  <1> QED BY <1>1, <1>2, <1>5, <1>6, <1>7, <1>8 DEF BitsInv

\* What the reader is to find at a position.
Expected(p) == IF p <= Len(wrote) /\ p <= Arrived THEN wrote[p] ELSE 0

\* BitReader::read_word_at finds it.
LEMMA WordRead ==
    ASSUME BitsInv, reader # Writing, NEW i \in Nat
    PROVE  /\ read_word_at(i) \in 0 .. 2^WordBits - 1
           /\ \A k \in 1 .. WordBits : BitOf(read_word_at(i), WordBits - k) = Expected(i * WordBits + k)
  <1> DEFINE W == WordBits
             w == W \div ByteBits
             m == reader.bytes \div w
             x == read_word_at(i)
  <1>1. W \in Nat \ {0} /\ ByteBits \in Nat \ {0} /\ W % ByteBits = 0
    BY QuicBitsAssumption
  <1>2. w \in Nat \ {0}
    <2>1. w \in Nat /\ W = w * ByteBits + (W % ByteBits)
      BY <1>1
    <2> HIDE DEF w
    <2>2. w # 0
      BY <1>1, <2>1
    <2> QED BY <2>1, <2>2
  <1>3. PICK n, bytes : n = Len(buf) /\ bytes = reader.bytes
    OBVIOUS
  <1>4. /\ n \in Nat /\ bytes \in 0 .. n * w /\ wrote \in Seq(Bit)
        /\ \A j \in 1 .. n : Holds(buf[j], j - 1)
    BY <1>3 DEF BitsInv
  <1>5. x = (IF (i + 1) * w <= bytes THEN buf[i + 1] ELSE 0) /\ Arrived = m * W /\ m = bytes \div w
    BY <1>3 DEF read_word_at, Arrived
  <1> HIDE DEF w, x, m
  <1>6. bytes \in Nat /\ m \in Nat /\ m * w <= bytes /\ bytes < (m + 1) * w
    <2>1. n * w \in Nat
      BY <1>2, <1>4
    <2>2. bytes \in Nat
      BY <1>4, <2>1
    <2> DEFINE r == bytes % w
    <2>3. m \in Nat /\ r \in 0 .. w - 1 /\ bytes = m * w + r
      BY <1>2, <1>5, <2>2, Parts
    <2> HIDE DEF r
    <2>4. (m + 1) * w = m * w + w /\ m * w \in Nat
      BY <1>2, <2>3
    <2> QED BY <1>2, <2>2, <2>3, <2>4
  <1>7. CASE (i + 1) * w <= bytes
    <2>1. i + 1 <= m
      <3> SUFFICES ASSUME m + 1 <= i + 1 PROVE FALSE
        BY <1>6
      <3>1. (m + 1) * w <= (i + 1) * w
        BY <1>2, <1>6
      <3> QED BY <1>2, <1>6, <1>7, <3>1
    <2>2. i + 1 \in 1 .. n
      <3> SUFFICES ASSUME n <= i PROVE FALSE
        BY <1>4
      <3>1. n * w <= i * w /\ (i + 1) * w = i * w + w /\ i * w \in Nat /\ n * w \in Nat
        BY <1>2, <1>4
      <3>2. bytes <= n * w
        BY <1>4, <3>1
      <3> QED BY <1>2, <1>6, <1>7, <3>1, <3>2
    <2>3. Holds(x, i)
      <3>1. (i + 1) - 1 = i
        OBVIOUS
      <3> QED BY <1>4, <1>5, <1>7, <2>2, <3>1
    <2>4. ASSUME NEW k \in 1 .. W PROVE Written(i * W + k) = Expected(i * W + k)
      <3>1. (i + 1) * W <= m * W /\ (i + 1) * W = i * W + W /\ i * W \in Nat /\ m * W \in Nat
        BY <1>1, <1>6, <2>1
      <3> DEFINE a == i * W
                 b == m * W
      <3>2. a + W <= b /\ a \in Nat /\ b \in Nat
        BY <3>1
      <3> HIDE DEF a, b
      <3>3. a + k <= b
        BY <1>1, <3>2
      <3>4. i * W + k <= Arrived
        BY <1>5, <3>3 DEF a, b
      <3> QED BY <3>4 DEF Written, Expected
    <2> QED BY <2>3, <2>4 DEF Holds, x
  <1>8. CASE ~((i + 1) * w <= bytes)
    <2>1. m <= i
      <3> SUFFICES ASSUME i + 1 <= m PROVE FALSE
        BY <1>6
      <3>1. (i + 1) * w <= m * w /\ (i + 1) * w \in Nat /\ m * w \in Nat
        BY <1>2, <1>6
      <3> QED BY <1>6, <1>8, <3>1
    <2>2. ASSUME NEW k \in 1 .. W PROVE Expected(i * W + k) = 0
      <3>1. m * W <= i * W /\ i * W \in Nat /\ m * W \in Nat
        BY <1>1, <1>6, <2>1
      <3> DEFINE a == i * W
                 b == m * W
      <3>2. b <= a /\ a \in Nat /\ b \in Nat
        BY <3>1
      <3> HIDE DEF a, b
      <3>3. ~(a + k <= b)
        BY <1>1, <3>2
      <3>4. ~(i * W + k <= Arrived)
        BY <1>5, <3>3 DEF a, b
      <3> QED BY <3>4 DEF Expected
    <2>3. x = 0
      BY <1>5, <1>8
    <2>4. ASSUME NEW k \in 1 .. W PROVE BitOf(0, W - k) = 0
      <3>1. W - k \in Nat
        BY <1>1
      <3> QED BY <3>1, ZeroBits
    <2>5. 0 \in 0 .. 2^W - 1
      BY <1>1, ZeroBits
    <2> QED BY <2>2, <2>3, <2>4, <2>5 DEF x
  <1> QED BY <1>7, <1>8

\* BitReader::peek32 shows it, across two words.
LEMMA PeekTellsTrue ==
    ASSUME BitsInv, reader # Writing, NEW at, at = reader.bit_pos, NEW k \in 1 .. WordBits
    PROVE  BitOf(peek32, WordBits - k) = Expected(at + k)
  <1> DEFINE W == WordBits
             i == at \div W
             bit == at % W
             x == read_word_at(i)
             y == read_word_at(i + 1)
  <1>1. W \in Nat \ {0} /\ at \in Nat
    BY QuicBitsAssumption DEF BitsInv
  <1>2. i \in Nat /\ bit \in 0 .. W - 1 /\ at = i * W + bit
    BY <1>1, Parts
  <1>3. peek32 = (IF bit = 0 THEN x ELSE ((x * 2^bit) % 2^W) + (y \div 2^(W - bit)))
    BY DEF peek32
  <1> HIDE DEF i, bit
  <1>4. /\ x \in 0 .. 2^W - 1 /\ \A j \in 1 .. W : BitOf(x, W - j) = Expected(i * W + j)
        /\ y \in 0 .. 2^W - 1 /\ \A j \in 1 .. W : BitOf(y, W - j) = Expected((i + 1) * W + j)
    <2>1. i + 1 \in Nat
      BY <1>2
    <2> QED BY <1>2, <2>1, WordRead
  <1> HIDE DEF x, y
  <1>5. x \in Nat /\ y \in Nat
    <2> DEFINE p == 2^W
    <2>1. p \in Nat /\ x \in 0 .. p - 1 /\ y \in 0 .. p - 1
      BY <1>1, <1>4, PowerFacts
    <2> HIDE DEF p
    <2> QED BY <2>1
  <1> DEFINE base == i * W
  <1>6. base \in Nat /\ (i + 1) * W = base + W /\ at = base + bit
    BY <1>1, <1>2
  <1>7. CASE bit = 0
    <2>1. base + k = at + k
      BY <1>6, <1>7
    <2> QED BY <1>3, <1>4, <1>7, <2>1
  <1>8. CASE bit # 0
    <2> DEFINE rest == W - bit
               b == x % 2^rest
               c == y \div 2^rest
               e == W - k
    <2>1. bit \in Nat /\ rest \in Nat /\ bit \in 0 .. W /\ W - bit = rest /\ W = bit + rest /\ W = rest + bit
          /\ W \in Nat /\ k \in Nat /\ e \in Nat
      BY <1>1, <1>2
    <2>2. (x * 2^bit) % 2^W = b * 2^bit /\ b \in Nat
      BY <1>5, <2>1, ShiftCut
    <2>3. c \in 0 .. 2^bit - 1
      <3> DEFINE p == 2^rest
                 q == 2^bit
      <3>1. p \in Nat \ {0} /\ q \in Nat \ {0} /\ 2^W = p * q
        BY <2>1, PowerFacts, PowerAdds
      <3>2. y \in 0 .. 2^W - 1
        BY <1>4
      <3> HIDE DEF p, q
      <3>3. y < p * q
        BY <1>5, <3>1, <3>2
      <3>4. y \div p < q /\ y \div p \in Nat
        BY <1>5, <3>1, <3>3, QuotientBelow
      <3>5. y \div p \in 0 .. q - 1
        BY <3>1, <3>4
      <3> QED BY <3>5 DEF p, q
    <2>4. peek32 = b * 2^bit + c
      BY <1>3, <1>8, <2>2
    <2>5. BitOf(x % 2^rest, e - bit) = BitOf(x, e - bit) \/ ~(e - bit \in 0 .. rest - 1)
      BY <1>5, <2>1, CutOff
    <2>6. BitOf(y \div 2^rest, e) = BitOf(y, rest + e)
      BY <1>5, <2>1, ShiftedDown
    <2> HIDE DEF rest, b, c
    <2>7. BitOf(peek32, e) = (IF e < bit THEN BitOf(c, e) ELSE BitOf(b, e - bit))
      <3>1. bit \in Nat /\ e \in Nat /\ b \in Nat
        BY <2>1, <2>2
      <3> HIDE DEF e
      <3>2. BitOf(b * 2^bit + c, e) = (IF e < bit THEN BitOf(c, e) ELSE BitOf(b, e - bit))
        BY <2>3, <3>1, JoinedBits
      <3> QED BY <2>4, <3>2
    <2> HIDE DEF base, e
    <2>8. CASE e < bit
      <3> DEFINE j == k - rest
      <3>1. j \in 1 .. W /\ rest + e = W - j /\ (base + W) + j = at + k
        BY <1>1, <1>2, <1>6, <2>1, <2>8 DEF e
      <3>2. BitOf(y, W - j) = Expected((base + W) + j)
        BY <1>4, <1>6, <3>1
      <3> HIDE DEF j
      <3> QED BY <2>6, <2>7, <2>8, <3>1, <3>2 DEF c, e
    <2>9. CASE ~(e < bit)
      <3> DEFINE j == k + bit
      <3>1. /\ j \in 1 .. W /\ e - bit = W - j /\ base + j = at + k
            /\ e - bit \in 0 .. rest - 1
        BY <1>1, <1>2, <1>6, <2>1, <2>9 DEF e
      <3>2. BitOf(x, W - j) = Expected(base + j)
        BY <1>4, <3>1 DEF base
      <3> HIDE DEF j
      <3>3. BitOf(b, e - bit) = BitOf(x, e - bit)
        BY <2>5, <3>1 DEF b
      <3> QED BY <2>7, <2>9, <3>1, <3>2, <3>3 DEF e
    <2> QED BY <2>8, <2>9
  <1> QED BY <1>7, <1>8

\* BitReader::eat shows what is at its position before it moves on.
LEMMA EatKeeps == ASSUME BitsInv, NEW len \in 1 .. WordBits, Eat(len) PROVE BitsInv'
  <1> DEFINE top == Len(buf) * (WordBits \div ByteBits)
  <1>1. PICK at, bytes : at = reader.bit_pos /\ bytes = reader.bytes
    OBVIOUS
  <1>2. PICK peeked : peeked = peek32
    OBVIOUS
  <1>3. /\ reader # Writing /\ wrote' = wrote /\ buf' = buf
        /\ window' = [at |-> at, shows |-> ToBits(peeked, WordBits)]
        /\ reader' = [reader EXCEPT !.bit_pos = at + len]
    BY <1>1, <1>2 DEF Eat
  <1>4. /\ wrote \in Seq(Bit) /\ buf \in Seq(Nat)
        /\ \A i \in 1 .. Len(buf) : Holds(buf[i], i - 1)
        /\ reader \in [bit_pos : Nat, bytes : 0 .. top]
    BY <1>3 DEF BitsInv
  <1>5. WordBits \in Nat
    BY QuicBitsAssumption
  <1> HIDE DEF top
  <1>6. reader' \in [bit_pos : Nat, bytes : 0 .. top] /\ reader'.bytes = bytes
    BY <1>1, <1>3, <1>4, <1>5
  <1>7. reader' # Writing /\ Writing' = Writing
    <2>1. reader'.bit_pos \in Nat /\ Writing.bit_pos = -1
      BY <1>6 DEF Writing
    <2> QED BY <2>1 DEF Writing
  <1>8. Arrived' = Arrived
    BY <1>1, <1>6 DEF Arrived
  <1>9. ASSUME NEW k \in 1 .. WordBits
        PROVE  ToBits(peeked, WordBits)[k] = Expected(at + k)
    BY <1>1, <1>2, <1>3, <1>5, PeekTellsTrue, WordBit
  <1>10. BitsComeBack'
    <2>1. window'.at = at /\ window'.shows = ToBits(peeked, WordBits)
      BY <1>3
    <2>2. DOMAIN window'.shows = 1 .. WordBits
      BY <2>1 DEF ToBits
    <2>3. ASSUME NEW k \in 1 .. WordBits
          PROVE  window'.shows[k] = (IF at + k <= Len(wrote) /\ at + k <= Arrived
                                     THEN wrote[at + k] ELSE 0)
      BY <1>9, <2>1 DEF Expected
    <2> QED BY <1>3, <1>8, <2>1, <2>2, <2>3 DEF BitsComeBack
  <1>11. \A x : \A i : Holds(x, i) => Holds(x, i)'
    BY <1>3 DEF Holds, Written
  <1>12. \A i \in 1 .. Len(buf') : Holds(buf[i], i - 1)'
    <2> SUFFICES ASSUME NEW i \in 1 .. Len(buf) PROVE Holds(buf[i], i - 1)'
      BY <1>3
    <2>1. PICK y : y = buf[i]
      OBVIOUS
    <2>2. Holds(y, i - 1)'
      BY <1>4, <1>11, <2>1
    <2> QED BY <1>3, <2>1, <2>2 DEF Holds
  <1>13. reader' \in [bit_pos : Nat, bytes : 0 .. Len(buf') * (WordBits \div ByteBits)]
    BY <1>3, <1>6 DEF top
  <1> QED BY <1>3, <1>4, <1>7, <1>10, <1>12, <1>13 DEF BitsInv

\* Nothing changes if nothing changes.
LEMMA BitsStutter == BitsInv /\ UNCHANGED bitsVars => BitsInv'
  BY DEF BitsInv, bitsVars, Holds, Written, BitsComeBack, Arrived, Writing

\* Every step keeps it.
LEMMA BitsStep == BitsInv /\ [BitsNext]_bitsVars => BitsInv'
  <1> SUFFICES ASSUME BitsInv, [BitsNext]_bitsVars PROVE BitsInv'
    OBVIOUS
  <1>1. CASE \E w \in BitWrites : Write(w.word, w.len)
    BY <1>1, WriteKeeps
  <1>2. CASE Finish
    BY <1>2, FinishKeeps
  <1>3. CASE \E len \in 1 .. WordBits : Eat(len)
    BY <1>3, EatKeeps
  <1>4. CASE UNCHANGED bitsVars
    BY <1>4, BitsStutter
  <1> QED BY <1>1, <1>2, <1>3, <1>4 DEF BitsNext

\* What is tried is a symbol of a depth, or a run.
Tried ==
    \/ tried = NoCode
    \/ \E bpc \in 1 .. MaxCodeLen, behind \in Seq(Bit) : \E l \in Codes(bpc), n \in Symbols(bpc) :
         tried = [kind |-> "symbol", bpc |-> bpc, l |-> l, n |-> n, behind |-> behind]
    \/ \E n \in Nat, state \in States, behind \in Seq(Bit) :
         tried = [kind |-> "run", n |-> n, state |-> state, behind |-> behind]

\* Whatever is tried comes back.
LEMMA TriedComesBack ==
    ASSUME Tried
    PROVE  /\ tried.kind = "symbol" => SymbolComesBack(tried.bpc, tried.l, tried.n, tried.behind)
           /\ tried.kind = "run" => RunComesBack(tried.n, tried.state, tried.behind)
  <1>1. CASE tried = NoCode
    BY <1>1 DEF NoCode
  <1>2. ASSUME NEW bpc \in 1 .. MaxCodeLen, NEW behind \in Seq(Bit), NEW l \in Codes(bpc),
               NEW n \in Symbols(bpc),
               tried = [kind |-> "symbol", bpc |-> bpc, l |-> l, n |-> n, behind |-> behind]
        PROVE  tried.kind = "symbol" /\ SymbolComesBack(tried.bpc, tried.l, tried.n, tried.behind)
    <2>1. bpc \in Nat \ {0}
      BY QuicCodeAssumption
    <2>2. SymbolComesBack(bpc, l, n, behind)
      BY <2>1, CodewordComesBack, TranslatedBack DEF SymbolComesBack
    <2> QED BY <1>2, <2>2
  <1>3. ASSUME NEW n \in Nat, NEW state \in States, NEW behind \in Seq(Bit),
               tried = [kind |-> "run", n |-> n, state |-> state, behind |-> behind]
        PROVE  tried.kind = "run" /\ RunComesBack(tried.n, tried.state, tried.behind)
    <2>1. RunComesBack(n, state, behind)
      BY RunDecodes
    <2> QED BY <1>3, <2>1
  <1> QED BY <1>1, <1>2, <1>3 DEF Tried

(***************************************************************************)
(* Whatever QUIC writes comes back: every symbol of every depth in every   *)
(* code, every run length in every state of every table of exponents,      *)
(* whatever bits follow; and bits in words of every width, however many    *)
(* are written at a time and however much of them arrives.                 *)
(***************************************************************************)
THEOREM WhateverIsWrittenComesBack == TrialSpec => []CodesComeBack
  <1>1. TrialInit => BitsInv /\ Tried
    BY BitsInitHolds DEF TrialInit, Tried
  <1>2. BitsInv /\ Tried /\ [TrialNext]_trialVars => BitsInv' /\ Tried'
    <2> SUFFICES ASSUME BitsInv, Tried, [TrialNext]_trialVars PROVE BitsInv' /\ Tried'
      OBVIOUS
    <2>1. CASE BitsNext /\ UNCHANGED tried
      BY <2>1, BitsStep DEF Tried
    <2>2. CASE TryCode /\ UNCHANGED bitsVars
      <3>1. Tried'
        <4>1. Depths \subseteq 1 .. MaxCodeLen /\ Followers \subseteq Seq(Bit) /\ LongestRun \in Nat
          BY QuicTrialAssumption DEF Bit
        <4>2. CASE TrySymbol
          BY <4>1, <4>2 DEF TrySymbol, Tried
        <4>3. CASE TryRun
          BY <4>1, <4>3 DEF TryRun, Tried
        <4> QED BY <2>2, <4>2, <4>3 DEF TryCode
      <3> QED BY <2>2, <3>1, BitsStutter
    <2>3. CASE UNCHANGED trialVars
      BY <2>3, BitsStutter DEF Tried, trialVars
    <2> QED BY <2>1, <2>2, <2>3 DEF TrialNext
  <1>3. BitsInv /\ Tried => CodesComeBack
    <2> SUFFICES ASSUME BitsInv, Tried PROVE CodesComeBack
      OBVIOUS
    <2>1. BitsComeBack
      <3>1. CASE reader = Writing
        <4>1. window.shows = <<>>
          BY <3>1 DEF BitsInv
        <4>2. DOMAIN window.shows = {}
          BY <4>1
        <4> QED BY <4>2 DEF BitsComeBack
      <3> QED BY <3>1 DEF BitsInv
    <2> QED BY <2>1, TriedComesBack DEF CodesComeBack
  <1> QED BY <1>1, <1>2, <1>3, PTL DEF TrialSpec

-----------------------------------------------------------------------------
(***************************************************************************)
(* Sums over finite sets (MapThenSumSet takes an element at a time, in     *)
(* some order): any element may be the first to be taken.                  *)
(***************************************************************************)
First(s) == CHOOSE x \in s : TRUE

\* sigma has the sum of f over every subset of S.
Tallies(sigma, f, S) ==
    sigma = [s \in SUBSET S |-> IF s = {} THEN 0 ELSE f[First(s)] + sigma[s \ {First(s)}]]

Total(f, S) == (CHOOSE sigma : Tallies(sigma, f, S))[S]

\* The subsets of S with no more than n elements.
Upto(S, n) == {s \in SUBSET S : Cardinality(s) <= n}

\* The choice is one of the set.
LEMMA FirstIsIn == ASSUME NEW s, s # {} PROVE First(s) \in s
BY DEF First

\* Such a function exists: one more element can always be taken.
LEMMA TalliesExist ==
    ASSUME NEW S, IsFiniteSet(S), NEW f
    PROVE  \E sigma : Tallies(sigma, f, S)
<1> DEFINE Step(sigma, s) == IF s = {} THEN 0 ELSE f[First(s)] + sigma[s \ {First(s)}]
           Has(n) == \E sigma : sigma = [s \in Upto(S, n) |-> Step(sigma, s)]
           Bad == {n \in Nat : ~Has(n)}
<1>1. \A s \in SUBSET S : IsFiniteSet(s) /\ Cardinality(s) \in Nat /\ Cardinality(s) <= Cardinality(S)
  BY FS_Subset, FS_CardinalityType
<1>2. \A s \in SUBSET S : s # {} =>
         /\ s \ {First(s)} \in SUBSET S
         /\ Cardinality(s \ {First(s)}) = Cardinality(s) - 1
  BY <1>1, FirstIsIn, FS_RemoveElement
<1>3. Has(0)
  <2>1. \A s \in Upto(S, 0) : s = {}
    BY <1>1, FS_EmptySet DEF Upto
  <2>2. [s \in Upto(S, 0) |-> 0] = [s \in Upto(S, 0) |-> Step([t \in Upto(S, 0) |-> 0], s)]
    BY <2>1
  <2> QED BY <2>2
<1>4. ASSUME NEW n \in Nat, Has(n)
      PROVE  Has(n + 1)
  <2>1. PICK sigma : sigma = [s \in Upto(S, n) |-> Step(sigma, s)]
    BY <1>4
  <2> DEFINE rho == [s \in Upto(S, n + 1) |-> Step(sigma, s)]
  <2>2. ASSUME NEW s \in Upto(S, n + 1)
        PROVE  Step(sigma, s) = Step(rho, s)
    <3>1. CASE s = {}
      BY <3>1
    <3>2. CASE s # {}
      <4> DEFINE t == s \ {First(s)}
      <4>1. t \in Upto(S, n) /\ t \in Upto(S, n + 1)
        <5>1. t \in SUBSET S /\ Cardinality(t) = Cardinality(s) - 1 /\ Cardinality(s) \in Nat
          BY <1>1, <1>2, <3>2 DEF Upto
        <5>2. Cardinality(s) <= n + 1
          BY DEF Upto
        <5> QED BY <5>1, <5>2 DEF Upto
      <4>2. sigma[t] = Step(sigma, t)
        BY <2>1, <4>1
      <4>3. rho[t] = Step(sigma, t)
        BY <4>1
      <4> QED BY <4>2, <4>3
    <3> QED BY <3>1, <3>2
  <2>3. rho = [s \in Upto(S, n + 1) |-> Step(rho, s)]
    BY <2>2
  <2> QED BY <2>3
<1> HIDE DEF Has
<1>5. ASSUME Bad # {} PROVE FALSE
  <2>1. PICK n \in Bad : \A m \in Bad : n <= m
    BY <1>5, LeastNumber
  <2>2. n \in Nat /\ n # 0 /\ n - 1 \in Nat /\ n - 1 \notin Bad
    BY <1>3, <2>1
  <2>3. Has((n - 1) + 1)
    BY <1>4, <2>2
  <2> QED BY <2>1, <2>2, <2>3
<1>6. Has(Cardinality(S))
  BY <1>5, FS_CardinalityType
<1>7. Upto(S, Cardinality(S)) = SUBSET S
  BY <1>1 DEF Upto
<1> QED BY <1>6, <1>7 DEF Has, Tallies

\* So Total is the value of one of them.
LEMMA TotalTallies ==
    ASSUME NEW S, IsFiniteSet(S), NEW f
    PROVE  \E sigma : Tallies(sigma, f, S) /\ Total(f, S) = sigma[S]
<1> DEFINE sigma == CHOOSE s : Tallies(s, f, S)
<1>1. Tallies(sigma, f, S)
  BY TalliesExist
<1> HIDE DEF sigma
<1>2. Total(f, S) = sigma[S]
  BY DEF Total, sigma
<1> QED BY <1>1, <1>2

\* Where two functions agree, so do their sums.
LEMMA TalliesAgree ==
    ASSUME NEW S, IsFiniteSet(S), NEW R, NEW T \in SUBSET S, T \in SUBSET R,
           NEW f, NEW g, \A x \in T : f[x] = g[x],
           NEW sigma, Tallies(sigma, f, S), NEW rho, Tallies(rho, g, R)
    PROVE  sigma[T] = rho[T]
<1> DEFINE C == {s \in SUBSET T : sigma[s] # rho[s]}
<1>1. ASSUME C # {} PROVE FALSE
  <2>1. PICK s \in C : \A t \in C : t \subseteq s => t = s
    <3>1. IsFiniteSet(T) /\ C \subseteq SUBSET T
      BY FS_Subset
    <3> HIDE DEF C
    <3> QED BY <1>1, <3>1, SmallestSet
  <2>2. s \in SUBSET S /\ s \in SUBSET R /\ s \in SUBSET T /\ sigma[s] # rho[s]
    BY <2>1
  <2>3. /\ sigma[s] = IF s = {} THEN 0 ELSE f[First(s)] + sigma[s \ {First(s)}]
        /\ rho[s] = IF s = {} THEN 0 ELSE g[First(s)] + rho[s \ {First(s)}]
    BY <2>2 DEF Tallies
  <2>4. s # {} /\ First(s) \in s
    BY <2>2, <2>3, FirstIsIn
  <2>5. f[First(s)] = g[First(s)]
    BY <2>2, <2>4
  <2>6. sigma[s \ {First(s)}] # rho[s \ {First(s)}]
    BY <2>2, <2>3, <2>4, <2>5
  <2>7. s \ {First(s)} \in C /\ s \ {First(s)} \subseteq s /\ s \ {First(s)} # s
    BY <2>2, <2>4, <2>6
  <2> QED BY <2>1, <2>7
<1>2. T \in SUBSET T
  OBVIOUS
<1> QED BY <1>1, <1>2

\* Sums of numbers are numbers.
LEMMA TalliesAreNumbers ==
    ASSUME NEW S, IsFiniteSet(S), NEW f, \A x \in S : f[x] \in Nat,
           NEW sigma, Tallies(sigma, f, S), NEW T \in SUBSET S
    PROVE  sigma[T] \in Nat
<1> DEFINE C == {s \in SUBSET S : sigma[s] \notin Nat}
<1>1. ASSUME C # {} PROVE FALSE
  <2>1. PICK s \in C : \A t \in C : t \subseteq s => t = s
    <3>1. C \subseteq SUBSET S
      OBVIOUS
    <3> HIDE DEF C
    <3> QED BY <1>1, <3>1, SmallestSet
  <2>2. s \in SUBSET S /\ sigma[s] \notin Nat
    BY <2>1
  <2>3. sigma[s] = IF s = {} THEN 0 ELSE f[First(s)] + sigma[s \ {First(s)}]
    BY <2>2 DEF Tallies
  <2>4. s # {} /\ First(s) \in s
    BY <2>2, <2>3, FirstIsIn
  <2>5. f[First(s)] \in Nat
    BY <2>2, <2>4
  <2>6. sigma[s \ {First(s)}] \notin Nat
    BY <2>2, <2>3, <2>4, <2>5
  <2>7. s \ {First(s)} \in C /\ s \ {First(s)} \subseteq s /\ s \ {First(s)} # s
    BY <2>2, <2>4, <2>6
  <2> QED BY <2>1, <2>7
<1> QED BY <1>1

\* Any element may be taken first.
LEMMA TalliesTakeAny ==
    ASSUME NEW S, IsFiniteSet(S), NEW f, \A x \in S : f[x] \in Nat,
           NEW sigma, Tallies(sigma, f, S), NEW T \in SUBSET S, NEW y \in T
    PROVE  sigma[T] = f[y] + sigma[T \ {y}]
<1> DEFINE C == {s \in SUBSET S : \E x \in s : sigma[s] # f[x] + sigma[s \ {x}]}
<1>1. ASSUME C # {} PROVE FALSE
  <2>1. PICK s \in C : \A t \in C : t \subseteq s => t = s
    <3>1. C \subseteq SUBSET S
      OBVIOUS
    <3> HIDE DEF C
    <3> QED BY <1>1, <3>1, SmallestSet
  <2>2. s \in SUBSET S /\ \E x \in s : sigma[s] # f[x] + sigma[s \ {x}]
    BY <2>1
  <2>3. PICK x \in s : sigma[s] # f[x] + sigma[s \ {x}]
    BY <2>2
  <2> DEFINE a == First(s)
  <2>4. s # {} /\ a \in s
    BY <2>3, FirstIsIn
  <2>5. sigma[s] = f[a] + sigma[s \ {a}]
    BY <2>2, <2>4 DEF Tallies
  <2> HIDE DEF a
  <2>6. a # x
    BY <2>3, <2>5
  <2>7. s \ {a} \notin C /\ s \ {x} \notin C
    BY <2>1, <2>3, <2>4
  <2>8. /\ sigma[s \ {a}] = f[x] + sigma[(s \ {a}) \ {x}]
        /\ sigma[s \ {x}] = f[a] + sigma[(s \ {x}) \ {a}]
    BY <2>2, <2>3, <2>4, <2>6, <2>7
  <2> DEFINE rest == sigma[(s \ {a}) \ {x}]
  <2>9. sigma[s \ {a}] = f[x] + rest /\ sigma[s \ {x}] = f[a] + rest
    <3>1. (s \ {a}) \ {x} = (s \ {x}) \ {a}
      OBVIOUS
    <3> QED BY <2>8, <3>1
  <2>10. f[a] \in Nat /\ f[x] \in Nat /\ rest \in Nat
    <3>1. (s \ {a}) \ {x} \in SUBSET S
      BY <2>2
    <3> QED BY <2>2, <2>3, <2>4, <3>1, TalliesAreNumbers
  <2> HIDE DEF C, rest
  <2> QED BY <2>3, <2>5, <2>9, <2>10
<1> QED BY <1>1

-----------------------------------------------------------------------------
\* What a sum is, whatever order its elements are taken in.
LEMMA TotalOfNothing ==
    ASSUME NEW f
    PROVE  Total(f, {}) = 0
<1>1. PICK sigma : Tallies(sigma, f, {}) /\ Total(f, {}) = sigma[{}]
  BY TotalTallies, FS_EmptySet
<1>2. {} \in SUBSET {}
  OBVIOUS
<1> QED BY <1>1, <1>2 DEF Tallies

\* The same three facts of Total.
LEMMA TotalIsNumber ==
    ASSUME NEW S, IsFiniteSet(S), NEW f, \A x \in S : f[x] \in Nat
    PROVE  Total(f, S) \in Nat
<1>1. PICK sigma : Tallies(sigma, f, S) /\ Total(f, S) = sigma[S]
  BY TotalTallies
<1>2. S \in SUBSET S
  OBVIOUS
<1> QED BY <1>1, <1>2, TalliesAreNumbers

\* It depends on nothing but the values summed.
LEMMA TotalAgrees ==
    ASSUME NEW S, IsFiniteSet(S), NEW f, NEW g, \A x \in S : f[x] = g[x]
    PROVE  Total(f, S) = Total(g, S)
<1>1. PICK sigma : Tallies(sigma, f, S) /\ Total(f, S) = sigma[S]
  BY TotalTallies
<1>2. PICK rho : Tallies(rho, g, S) /\ Total(g, S) = rho[S]
  BY TotalTallies
<1>3. S \in SUBSET S
  OBVIOUS
<1>4. sigma[S] = rho[S]
  <2>1. \A T \in SUBSET S : (\A x \in T : f[x] = g[x]) => sigma[T] = rho[T]
    BY ONLY IsFiniteSet(S), <1>1, <1>2, TalliesAgree
  <2> QED BY <1>3, <2>1
<1> QED BY <1>1, <1>2, <1>4

\* An element can be taken off it.
LEMMA TotalWithout ==
    ASSUME NEW S, IsFiniteSet(S), NEW f, \A x \in S : f[x] \in Nat, NEW y \in S
    PROVE  Total(f, S) = f[y] + Total(f, S \ {y})
<1>1. PICK sigma : Tallies(sigma, f, S) /\ Total(f, S) = sigma[S]
  BY TotalTallies
<1>2. IsFiniteSet(S \ {y}) /\ S \ {y} \in SUBSET S /\ S \in SUBSET S
  BY FS_RemoveElement
<1>3. PICK rho : Tallies(rho, f, S \ {y}) /\ Total(f, S \ {y}) = rho[S \ {y}]
  BY <1>2, TotalTallies
<1>4. sigma[S] = f[y] + sigma[S \ {y}]
  BY <1>1, <1>2, TalliesTakeAny
<1>5. sigma[S \ {y}] = rho[S \ {y}]
  <2>1. S \ {y} \in SUBSET (S \ {y})
    OBVIOUS
  <2> QED BY <1>1, <1>2, <1>3, <2>1, TalliesAgree
<1> QED BY <1>1, <1>3, <1>4, <1>5

\* More numbers do not sum to less.
LEMMA TotalGrows ==
    ASSUME NEW S, IsFiniteSet(S), NEW f, \A x \in S : f[x] \in Nat, NEW T \in SUBSET S
    PROVE  Total(f, T) <= Total(f, S)
<1> DEFINE C == {s \in SUBSET S : T \subseteq s /\ ~(Total(f, T) <= Total(f, s))}
<1>1. ASSUME C # {} PROVE FALSE
  <2>1. PICK s \in C : \A t \in C : t \subseteq s => t = s
    <3>1. C \subseteq SUBSET S
      OBVIOUS
    <3> HIDE DEF C
    <3> QED BY <1>1, <3>1, SmallestSet
  <2>2. s \in SUBSET S /\ T \subseteq s /\ ~(Total(f, T) <= Total(f, s))
    BY <2>1
  <2>3. IsFiniteSet(s) /\ IsFiniteSet(T) /\ \A x \in s : f[x] \in Nat
    BY <2>2, FS_Subset
  <2>4. Total(f, s) \in Nat /\ Total(f, T) \in Nat
    BY <2>2, <2>3, TotalIsNumber
  <2>5. PICK y \in s : y \notin T
    BY <2>2, <2>4
  <2>6. Total(f, s) = f[y] + Total(f, s \ {y})
    BY <2>3, <2>5, TotalWithout
  <2>7. Total(f, s \ {y}) \in Nat
    BY <2>3, FS_RemoveElement, TotalIsNumber
  <2>8. ~(Total(f, T) <= Total(f, s \ {y}))
    BY <2>2, <2>3, <2>4, <2>5, <2>6, <2>7
  <2>9. s \ {y} \in C /\ s \ {y} \subseteq s /\ s \ {y} # s
    BY <2>2, <2>5, <2>8
  <2> QED BY <2>1, <2>9
<1> QED BY <1>1

-----------------------------------------------------------------------------
(***************************************************************************)
(* The dictionary.  Its invariant, of a window at rest or in the middle of *)
(* an insertion: what it has used is what it stores, to the byte, and its  *)
(* entries differ in their insertion numbers.                              *)
(***************************************************************************)
Stored(w) == DOMAIN w.images
Bytes(w) == [id \in Stored(w) |-> w.images[id].bytes]

Accounted(w) ==
    /\ DOMAIN w = {"images", "used", "nextSeq"}
    /\ w = [images |-> w.images, used |-> w.used, nextSeq |-> w.nextSeq]
    /\ IsFiniteSet(Stored(w)) /\ w.images = [id \in Stored(w) |-> w.images[id]]
    /\ w.used = Total(Bytes(w), Stored(w)) /\ w.nextSeq \in Nat
    /\ \A id \in Stored(w) :
          w.images[id].bytes \in Nat /\ w.images[id].seq \in 0 .. w.nextSeq - 1
    /\ \A a, b \in Stored(w) : w.images[a].seq = w.images[b].seq => a = b

\* The images from the id-th insertion on.
Since(w, id) == {other \in Stored(w) : w.images[other].seq >= w.images[id].seq}

\* v is what is left of w after a few rounds of eviction: older images are
\* gone, and each was beyond the budget.
LeftOf(v, w) ==
    /\ Stored(v) \subseteq Stored(w) /\ v.nextSeq = w.nextSeq
    /\ \A id \in Stored(v) : v.images[id] = w.images[id]
    /\ \A id \in Stored(w) \ Stored(v) :
          /\ \A kept \in Stored(v) : w.images[id].seq < w.images[kept].seq
          /\ Total(Bytes(w), Since(w, id)) > Capacity
    /\ \A id \in Stored(w) : Since(w, id) = {id} => id \in Stored(v)

\* What DropImage does, when nothing saturates.
LEMMA DropFacts ==
    ASSUME NEW w, Accounted(w), NEW id
    PROVE  /\ Accounted(DropImage(w, id))
           /\ Stored(DropImage(w, id)) = Stored(w) \ {id}
           /\ DropImage(w, id).nextSeq = w.nextSeq
           /\ \A other \in Stored(w) \ {id} : DropImage(w, id).images[other] = w.images[other]
<1>1. CASE id \notin Stored(w)
  <2>1. DropImage(w, id) = w /\ Stored(w) \ {id} = Stored(w)
    BY <1>1 DEF DropImage, Stored
  <2> QED BY <2>1
<1>2. CASE id \in Stored(w)
  <2> DEFINE v == DropImage(w, id)
             T == Stored(w) \ {id}
  <2>1. v = [images  |-> [x \in T |-> w.images[x]],
             used    |-> SaturatingSub(w.used, w.images[id].bytes),
             nextSeq |-> w.nextSeq]
    <3>1. v = [w EXCEPT !.images = [x \in T |-> w.images[x]],
                        !.used = SaturatingSub(w.used, w.images[id].bytes)]
      BY <1>2 DEF DropImage, Restrict, Stored
    <3>2. w = [images |-> w.images, used |-> w.used, nextSeq |-> w.nextSeq]
      BY DEF Accounted
    <3> QED BY <3>1, <3>2
  <2> HIDE DEF v
  <2>2. v.images = [x \in T |-> w.images[x]] /\ Stored(v) = T /\ v.nextSeq = w.nextSeq
        /\ v.used = SaturatingSub(w.used, w.images[id].bytes)
        /\ DOMAIN v = {"images", "used", "nextSeq"}
        /\ v = [images |-> v.images, used |-> v.used, nextSeq |-> v.nextSeq]
    BY <2>1 DEF Stored
  <2>3. IsFiniteSet(T)
    BY FS_RemoveElement DEF Accounted
  <2>4. \A x \in Stored(w) : Bytes(w)[x] \in Nat /\ Bytes(w)[x] = w.images[x].bytes
    BY DEF Accounted, Bytes
  <2>5. \A x \in T : Bytes(v)[x] = Bytes(w)[x]
    BY <2>2 DEF Bytes
  <2>6. Total(Bytes(v), T) = Total(Bytes(w), T) /\ Total(Bytes(w), T) \in Nat
    <3>1. Total(Bytes(v), T) = Total(Bytes(w), T)
      BY <2>3, <2>5, TotalAgrees
    <3>2. \A x \in T : Bytes(w)[x] \in Nat
      BY <2>4
    <3> QED BY <2>3, <3>1, <3>2, TotalIsNumber
  <2>7. w.used = w.images[id].bytes + Total(Bytes(w), T) /\ w.images[id].bytes \in Nat
    BY <1>2, <2>4, TotalWithout DEF Accounted
  <2>8. v.used = Total(Bytes(v), T)
    BY <2>2, <2>6, <2>7 DEF SaturatingSub
  <2>9. \A x \in T : v.images[x] = w.images[x]
    BY <2>2
  <2>10. Accounted(v)
    BY <2>2, <2>3, <2>8, <2>9 DEF Accounted
  <2> QED BY <2>2, <2>9, <2>10 DEF v
<1> QED BY <1>1, <1>2

\* The oldest entry.
LEMMA VictimFacts ==
    ASSUME NEW w, Accounted(w), Stored(w) # {}
    PROVE  /\ Victim(w) \in Stored(w)
           /\ \A other \in Stored(w) : w.images[Victim(w)].seq <= w.images[other].seq
<1> DEFINE seqs == {w.images[id].seq : id \in Stored(w)}
<1>1. seqs \subseteq Nat /\ seqs # {}
  BY DEF Accounted
<1>2. PICK s \in seqs : \A t \in seqs : s <= t
  BY <1>1, LeastNumber
<1>3. \E id \in Stored(w) : \A other \in Stored(w) : w.images[id].seq <= w.images[other].seq
  BY <1>2
<1> QED BY <1>3 DEF Victim, Stored

-----------------------------------------------------------------------------
(***************************************************************************)
(* The eviction loop, round by round.                                      *)
(***************************************************************************)
Round(w) == IF OverBudget(w) THEN DropImage(w, Victim(w)) ELSE w

\* A round over budget drops the oldest image; nothing else goes.
LEMMA RoundFacts ==
    ASSUME NEW w, Accounted(w), NEW v, Accounted(v), LeftOf(v, w)
    PROVE  /\ Accounted(Round(v)) /\ LeftOf(Round(v), w)
           /\ OverBudget(v) => Cardinality(Stored(Round(v))) = Cardinality(Stored(v)) - 1
<1>1. CASE ~OverBudget(v)
  BY <1>1 DEF Round
<1>2. CASE OverBudget(v)
  <2> DEFINE id == Victim(v)
             u == DropImage(v, id)
  <2>0. Round(v) = u
    BY <1>2 DEF Round
  <2>1. v.used > Capacity /\ Cardinality(Stored(v)) > 1
    BY <1>2 DEF OverBudget, Stored
  <2>2. IsFiniteSet(Stored(v)) /\ IsFiniteSet(Stored(w)) /\ Stored(v) # {}
    BY <2>1, FS_EmptySet DEF Accounted
  <2>3. id \in Stored(v) /\ \A other \in Stored(v) : v.images[id].seq <= v.images[other].seq
    BY <2>2, VictimFacts
  <2> HIDE DEF id
  <2>4. /\ Accounted(u) /\ Stored(u) = Stored(v) \ {id} /\ u.nextSeq = v.nextSeq
        /\ \A other \in Stored(v) \ {id} : u.images[other] = v.images[other]
    BY DropFacts
  <2> HIDE DEF u
  <2>5. Cardinality(Stored(u)) = Cardinality(Stored(v)) - 1
    BY <2>2, <2>3, <2>4, FS_RemoveElement
  <2>6. Stored(u) \subseteq Stored(w) /\ u.nextSeq = w.nextSeq
        /\ \A other \in Stored(u) : u.images[other] = w.images[other]
    BY <2>4 DEF LeftOf
  <2>7. \A other \in Stored(v) : v.images[other] = w.images[other] /\ w.images[other].seq \in Nat
                                 /\ other \in Stored(w)
    <3>1. \A other \in Stored(v) : v.images[other] = w.images[other] /\ other \in Stored(w)
      BY DEF LeftOf
    <3>2. \A other \in Stored(w) : w.images[other].seq \in Nat
      BY DEF Accounted
    <3> QED BY <3>1, <3>2
  <2>8. \A kept \in Stored(u) : w.images[id].seq < w.images[kept].seq
    <3> SUFFICES ASSUME NEW kept \in Stored(u)
                 PROVE  w.images[id].seq < w.images[kept].seq
      OBVIOUS
    <3>1. kept \in Stored(v) /\ kept # id
      BY <2>4
    <3>2. v.images[id].seq <= v.images[kept].seq /\ v.images[id].seq # v.images[kept].seq
      BY <2>3, <3>1 DEF Accounted
    <3> QED BY <2>3, <2>7, <3>1, <3>2
  <2>9. Total(Bytes(w), Since(w, id)) > Capacity
    <3>1. Stored(v) \subseteq Since(w, id)
      BY <2>3, <2>7 DEF Since
    <3>2. Since(w, id) \in SUBSET Stored(w) /\ IsFiniteSet(Since(w, id))
      BY <2>2, FS_Subset DEF Since
    <3>3. \A x \in Since(w, id) : Bytes(w)[x] \in Nat
      BY <3>2 DEF Bytes, Accounted
    <3>4. Total(Bytes(w), Stored(v)) <= Total(Bytes(w), Since(w, id))
      BY <3>1, <3>2, <3>3, TotalGrows
    <3>5. Total(Bytes(v), Stored(v)) = Total(Bytes(w), Stored(v))
      <4>1. \A x \in Stored(v) : Bytes(v)[x] = Bytes(w)[x]
        BY <2>7 DEF Bytes
      <4> QED BY <2>2, <4>1, TotalAgrees
    <3>6. v.used = Total(Bytes(v), Stored(v)) /\ v.used \in Nat
      <4>1. \A x \in Stored(v) : Bytes(v)[x] \in Nat
        BY DEF Accounted, Bytes
      <4> QED BY <2>2, <4>1, TotalIsNumber DEF Accounted
    <3>7. Total(Bytes(w), Since(w, id)) \in Nat /\ Capacity \in Nat
      BY <3>2, <3>3, TotalIsNumber, CapacityAssumption DEF Capacity
    <3> QED BY <2>1, <3>4, <3>5, <3>6, <3>7
  <2>10. \A other \in Stored(w) : Since(w, other) = {other} => other \in Stored(u)
    <3> SUFFICES ASSUME NEW other \in Stored(w), Since(w, other) = {other}, other \notin Stored(u)
                 PROVE  FALSE
      OBVIOUS
    <3>1. other \in Stored(v)
      BY DEF LeftOf
    <3>2. other = id
      BY <2>4, <3>1
    <3>3. Stored(v) \subseteq {id}
      BY <2>3, <2>7, <3>2 DEF Since
    <3>4. Stored(v) = {id}
      BY <2>3, <3>3
    <3> QED BY <2>1, <3>4, FS_Singleton
  <2>11. ASSUME NEW gone \in Stored(w) \ Stored(u)
         PROVE  /\ \A kept \in Stored(u) : w.images[gone].seq < w.images[kept].seq
                /\ Total(Bytes(w), Since(w, gone)) > Capacity
    <3>1. CASE gone = id
      BY <2>8, <2>9, <3>1
    <3>2. CASE gone # id
      <4>1. gone \in Stored(w) \ Stored(v) /\ Stored(u) \subseteq Stored(v)
        BY <2>4, <3>2
      <4> QED BY <4>1 DEF LeftOf
    <3> QED BY <3>1, <3>2
  <2>12. LeftOf(u, w)
    BY <2>6, <2>10, <2>11 DEF LeftOf
  <2> QED BY <2>0, <2>4, <2>5, <2>12
<1> QED BY <1>1, <1>2

\* The function Evict is defined with exists.
LEMMA LoopExists ==
    ASSUME NEW w, NEW rounds \in Nat
    PROVE  \E after : after = [k \in 0 .. rounds |-> IF k = 0 THEN w ELSE Round(after[k - 1])]
<1> DEFINE Has(n) == \E after : after = [k \in 0 .. n |-> IF k = 0 THEN w ELSE Round(after[k - 1])]
           Bad == {n \in Nat : ~Has(n)}
<1>1. Has(0)
  <2>1. [k \in 0 .. 0 |-> w] = [k \in 0 .. 0 |-> IF k = 0 THEN w ELSE Round([j \in 0 .. 0 |-> w][k - 1])]
    OBVIOUS
  <2> QED BY <2>1
<1>2. ASSUME NEW n \in Nat, Has(n)
      PROVE  Has(n + 1)
  <2>1. PICK after : after = [k \in 0 .. n |-> IF k = 0 THEN w ELSE Round(after[k - 1])]
    BY <1>2
  <2> DEFINE longer == [k \in 0 .. n + 1 |-> IF k = 0 THEN w ELSE Round(after[k - 1])]
  <2>2. \A k \in 0 .. n : longer[k] = after[k]
    BY <2>1
  <2>3. longer = [k \in 0 .. n + 1 |-> IF k = 0 THEN w ELSE Round(longer[k - 1])]
    <3>1. \A k \in 0 .. n + 1 : k # 0 => k - 1 \in 0 .. n
      OBVIOUS
    <3>2. \A k \in 0 .. n + 1 : k # 0 => after[k - 1] = longer[k - 1]
      BY ONLY <2>2, <3>1
    <3> QED BY <3>2
  <2> QED BY <2>3
<1> HIDE DEF Has
<1>3. ASSUME Bad # {} PROVE FALSE
  <2>1. PICK n \in Bad : \A m \in Bad : n <= m
    BY <1>3, LeastNumber
  <2>2. n \in Nat /\ n # 0 /\ n - 1 \in Nat /\ n - 1 \notin Bad
    BY <1>1, <2>1
  <2>3. Has((n - 1) + 1)
    BY <1>2, <2>2
  <2> QED BY <2>1, <2>2, <2>3
<1> QED BY <1>3 DEF Has

\* Evict goes round until nothing is over budget.
LEMMA EvictRounds ==
    ASSUME NEW w, Cardinality(Stored(w)) \in Nat
    PROVE  \E after : /\ after[0] = w
                      /\ \A k \in 1 .. Cardinality(Stored(w)) : after[k] = Round(after[k - 1])
                      /\ Evict(w) = after[Cardinality(Stored(w))]
<1> DEFINE rounds == Cardinality(Stored(w))
           after == CHOOSE f : f = [k \in 0 .. rounds |-> IF k = 0 THEN w ELSE Round(f[k - 1])]
<1>1. after = [k \in 0 .. rounds |-> IF k = 0 THEN w ELSE Round(after[k - 1])]
  BY LoopExists
<1>2. Evict(w) = after[rounds]
  BY DEF Evict, Round, Stored
<1> HIDE DEF after
<1>3. after[0] = w /\ \A k \in 1 .. rounds : after[k] = Round(after[k - 1])
  BY <1>1
<1> QED BY <1>2, <1>3

(***************************************************************************)
(* What is left when the loop ends fits the budget, or is one image.       *)
(***************************************************************************)
LEMMA EvictFacts ==
    ASSUME NEW w, Accounted(w)
    PROVE  Accounted(Evict(w)) /\ LeftOf(Evict(w), w) /\ ~OverBudget(Evict(w))
<1> DEFINE rounds == Cardinality(Stored(w))
<1>1. rounds \in Nat
  BY FS_CardinalityType DEF Accounted
<1>2. PICK after : /\ after[0] = w
                   /\ \A k \in 1 .. rounds : after[k] = Round(after[k - 1])
                   /\ Evict(w) = after[rounds]
  BY <1>1, EvictRounds
<1> DEFINE Good(k) == /\ Accounted(after[k]) /\ LeftOf(after[k], w)
                      /\ OverBudget(after[k]) => Cardinality(Stored(after[k])) = rounds - k
           Bad == {k \in 0 .. rounds : ~Good(k)}
<1>3. Good(0)
  <2>1. LeftOf(w, w)
    BY DEF LeftOf
  <2> QED BY <1>1, <1>2, <2>1
<1>4. ASSUME NEW k \in 1 .. rounds, Good(k - 1)
      PROVE  Good(k)
  <2>1. after[k] = Round(after[k - 1]) /\ Accounted(after[k - 1]) /\ LeftOf(after[k - 1], w)
    BY <1>2, <1>4
  <2>2. /\ Accounted(after[k]) /\ LeftOf(after[k], w)
        /\ OverBudget(after[k - 1]) => Cardinality(Stored(after[k])) = Cardinality(Stored(after[k - 1])) - 1
    BY <2>1, RoundFacts
  <2>3. OverBudget(after[k]) => OverBudget(after[k - 1])
    BY <2>1 DEF Round
  <2>4. OverBudget(after[k - 1]) => Cardinality(Stored(after[k - 1])) = rounds - (k - 1)
    BY <1>4
  <2> QED BY <1>1, <2>2, <2>3, <2>4
<1> HIDE DEF Good
<1>5. ASSUME Bad # {} PROVE FALSE
  <2>1. PICK k \in Bad : \A m \in Bad : k <= m
    <3>1. Bad \subseteq Nat
      OBVIOUS
    <3> HIDE DEF Bad
    <3> QED BY <1>5, <3>1, LeastNumber
  <2>2. k \in 1 .. rounds /\ k - 1 \in 0 .. rounds /\ k - 1 \notin Bad
    BY <1>1, <1>3, <2>1
  <2>3. Good(k)
    BY <1>4, <2>2
  <2> QED BY <2>1, <2>3
<1>6. Good(rounds)
  BY <1>1, <1>5
<1>7. OverBudget(after[rounds]) => Cardinality(Stored(after[rounds])) = 0
  BY <1>1, <1>6 DEF Good
<1>8. ~OverBudget(after[rounds])
  BY <1>7 DEF OverBudget, Stored
<1> QED BY <1>2, <1>6, <1>8 DEF Good

-----------------------------------------------------------------------------
(***************************************************************************)
(* An insertion up to where the loop begins: what the image replaces is    *)
(* dropped, and the image is entered and charged.                          *)
(***************************************************************************)
Charged(w, id, bytes, pixels) ==
    LET freed == DropImage(w, id) IN
    [images  |-> [i \in DOMAIN freed.images \cup {id} |->
                     IF i = id THEN Entry(bytes, pixels, w.nextSeq) ELSE freed.images[i]],
     used    |-> freed.used + bytes,
     nextSeq |-> w.nextSeq + 1]

\* What is known of the dictionary c the loop begins with.
EvictsFrom(c, w, id, bytes, pixels) ==
    /\ Insert(w, id, bytes, pixels) = Evict(c)
    /\ Accounted(c) /\ Stored(c) = Stored(w) \cup {id} /\ c.nextSeq = w.nextSeq + 1
    /\ c.images[id] = Entry(bytes, pixels, w.nextSeq)
    /\ \A other \in Stored(w) \ {id} : c.images[other] = w.images[other]

\* An insertion, up to the loop.
LEMMA InsertCharges ==
    ASSUME NEW w, Accounted(w), NEW id, NEW bytes \in Nat, NEW pixels,
           NEW c, c = Charged(w, id, bytes, pixels)
    PROVE  EvictsFrom(c, w, id, bytes, pixels)
<1> DEFINE f == DropImage(w, id)
           T == Stored(w) \ {id}
           e == Entry(bytes, pixels, w.nextSeq)
<1>1. Insert(w, id, bytes, pixels) = Evict(c)
  BY DEF Insert, Charged
<1>2. /\ Accounted(f) /\ Stored(f) = T /\ f.nextSeq = w.nextSeq
      /\ \A other \in T : f.images[other] = w.images[other]
  BY DropFacts
<1>3. c = [images  |-> [i \in T \cup {id} |-> IF i = id THEN e ELSE f.images[i]],
           used    |-> f.used + bytes,
           nextSeq |-> w.nextSeq + 1]
  BY <1>2 DEF Charged, Stored
<1>4. e.bytes = bytes /\ e.seq = w.nextSeq
  BY DEF Entry
<1> HIDE DEF f, e
<1>5. /\ DOMAIN c = {"images", "used", "nextSeq"}
      /\ c.images = [i \in T \cup {id} |-> IF i = id THEN e ELSE f.images[i]]
      /\ c.used = f.used + bytes /\ c.nextSeq = w.nextSeq + 1
      /\ c = [images |-> c.images, used |-> c.used, nextSeq |-> c.nextSeq]
  BY <1>3
<1>6. Stored(c) = T \cup {id} /\ Stored(c) = Stored(w) \cup {id}
  BY <1>5 DEF Stored
<1>7. c.images[id] = e /\ \A other \in T : c.images[other] = f.images[other]
  BY <1>5
<1>8. IsFiniteSet(T) /\ IsFiniteSet(Stored(c))
  BY <1>2, <1>6, FS_AddElement DEF Accounted
<1>9. w.nextSeq \in Nat /\ c.nextSeq \in Nat
  BY <1>5 DEF Accounted
<1>10. \A x \in T : f.images[x].bytes \in Nat /\ f.images[x].seq \in 0 .. w.nextSeq - 1
  BY <1>2 DEF Accounted
<1>11. \A x \in Stored(c) : c.images[x].bytes \in Nat /\ c.images[x].seq \in 0 .. c.nextSeq - 1
  <2> SUFFICES ASSUME NEW x \in Stored(c)
               PROVE  c.images[x].bytes \in Nat /\ c.images[x].seq \in 0 .. c.nextSeq - 1
    OBVIOUS
  <2>1. CASE x = id
    BY <1>4, <1>5, <1>7, <1>9, <2>1
  <2>2. CASE x # id
    <3>1. x \in T
      BY <1>6, <2>2
    <3>2. c.images[x] = f.images[x]
      BY <1>7, <3>1
    <3>3. f.images[x].bytes \in Nat /\ f.images[x].seq \in 0 .. w.nextSeq - 1
      BY <1>10, <3>1
    <3> QED BY <1>5, <1>9, <3>2, <3>3
  <2> QED BY <2>1, <2>2
<1>12. \A a, b \in Stored(c) : c.images[a].seq = c.images[b].seq => a = b
  <2>1. \A a, b \in T : f.images[a].seq = f.images[b].seq => a = b
    BY <1>2 DEF Accounted
  <2>2. \A x \in T : c.images[x].seq # c.images[id].seq
    <3> SUFFICES ASSUME NEW x \in T PROVE c.images[x].seq # c.images[id].seq
      OBVIOUS
    <3>1. c.images[x].seq \in 0 .. w.nextSeq - 1
      BY <1>7, <1>10
    <3>2. c.images[id].seq = w.nextSeq
      BY <1>4, <1>7
    <3> QED BY <1>9, <3>1, <3>2
  <2> QED BY <1>6, <1>7, <2>1, <2>2
<1>13. c.used = Total(Bytes(c), Stored(c))
  <2>1. \A x \in Stored(c) : Bytes(c)[x] \in Nat /\ Bytes(c)[x] = c.images[x].bytes
    BY <1>11 DEF Bytes
  <2>2. id \in Stored(c) /\ Stored(c) \ {id} = T
    BY <1>6
  <2>3. Total(Bytes(c), Stored(c)) = Bytes(c)[id] + Total(Bytes(c), T)
    BY <1>8, <2>1, <2>2, TotalWithout
  <2>4. Bytes(c)[id] = bytes
    BY <1>4, <1>7, <2>1, <2>2
  <2>5. \A x \in T : Bytes(c)[x] = Bytes(f)[x] /\ Bytes(f)[x] \in Nat
    <3> SUFFICES ASSUME NEW x \in T
                 PROVE  Bytes(c)[x] = Bytes(f)[x] /\ Bytes(f)[x] \in Nat
      OBVIOUS
    <3>1. Bytes(f)[x] = f.images[x].bytes
      BY <1>2 DEF Bytes
    <3>2. Bytes(c)[x] = f.images[x].bytes
      BY <1>6, <1>7, <2>1
    <3> QED BY <1>10, <3>1, <3>2
  <2>6. Total(Bytes(c), T) = Total(Bytes(f), T)
    BY <1>8, <2>5, TotalAgrees
  <2>7. f.used = Total(Bytes(f), T)
    BY <1>2 DEF Accounted
  <2>8. Total(Bytes(f), T) \in Nat
    BY <1>8, <2>5, TotalIsNumber
  <2> QED BY <1>5, <2>3, <2>4, <2>6, <2>7, <2>8
<1>14. c.images = [x \in Stored(c) |-> c.images[x]]
  BY <1>5, <1>6
<1>15. Accounted(c)
  BY <1>5, <1>8, <1>9, <1>11, <1>12, <1>13, <1>14 DEF Accounted
<1>16. \A other \in T : c.images[other] = w.images[other]
  BY <1>2, <1>7
<1> QED BY <1>1, <1>5, <1>6, <1>7, <1>15, <1>16 DEF e, EvictsFrom

\* An insertion keeps the account, and leaves the budget kept.
LEMMA InsertKeeps ==
    ASSUME NEW w, Accounted(w), NEW id, NEW bytes \in Nat, NEW pixels
    PROVE  LET v == Insert(w, id, bytes, pixels) IN Accounted(v) /\ ~OverBudget(v)
<1> DEFINE c == Charged(w, id, bytes, pixels)
<1>1. Insert(w, id, bytes, pixels) = Evict(c) /\ Accounted(c)
  <2>1. c = Charged(w, id, bytes, pixels)
    OBVIOUS
  <2> HIDE DEF c
  <2> QED BY <2>1, InsertCharges DEF EvictsFrom
<1> HIDE DEF c
<1> QED BY <1>1, EvictFacts

\* The empty dictionary and the cleared one are in order.
LEMMA NothingIsAccounted ==
    /\ Accounted(EmptyWindow) /\ ~OverBudget(EmptyWindow) /\ Stored(EmptyWindow) = {}
    /\ \A w : Accounted(w) => Accounted(ClearWindow(w)) /\ ~OverBudget(ClearWindow(w))
<1>1. Capacity \in Nat
  BY CapacityAssumption DEF Capacity
<1>2. ASSUME NEW n \in Nat, NEW w, w = [images |-> <<>>, used |-> 0, nextSeq |-> n]
      PROVE  Accounted(w) /\ ~OverBudget(w) /\ Stored(w) = {}
  <2>1. /\ DOMAIN w = {"images", "used", "nextSeq"} /\ w.images = <<>>
        /\ w.used = 0 /\ w.nextSeq = n
    BY <1>2
  <2>2. Stored(w) = {}
    BY <2>1 DEF Stored
  <2>3. w.images = [id \in Stored(w) |-> w.images[id]]
    BY <2>1, <2>2
  <2>4. w.used = Total(Bytes(w), Stored(w)) /\ IsFiniteSet(Stored(w))
    BY <2>1, <2>2, TotalOfNothing, FS_EmptySet
  <2>5. w = [images |-> w.images, used |-> w.used, nextSeq |-> w.nextSeq]
    BY <1>2, <2>1
  <2>6. Accounted(w)
    BY <2>1, <2>2, <2>3, <2>4, <2>5 DEF Accounted
  <2>7. ~OverBudget(w)
    BY <1>1, <2>1 DEF OverBudget
  <2> QED BY <2>2, <2>6, <2>7
<1>3. ASSUME NEW w, Accounted(w)
      PROVE  ClearWindow(w) = [images |-> <<>>, used |-> 0, nextSeq |-> w.nextSeq]
             /\ w.nextSeq \in Nat
  <2>1. /\ w = [images |-> w.images, used |-> w.used, nextSeq |-> w.nextSeq]
        /\ w.nextSeq \in Nat /\ DOMAIN w = {"images", "used", "nextSeq"}
    BY <1>3 DEF Accounted
  <2>2. ClearWindow(w) = [w EXCEPT !.images = <<>>, !.used = 0]
    BY DEF ClearWindow
  <2> QED BY <2>1, <2>2
<1> QED BY <1>2, <1>3 DEF EmptyWindow

-----------------------------------------------------------------------------
(***************************************************************************)
(* GlzWindow.                                                              *)
(***************************************************************************)

\* bytes_used as the window's users define it.
LEMMA StoredBytesIsTotal ==
    ASSUME Accounted(win)
    PROVE  StoredBytes = Total(Bytes(win), Stored(win))
<1> DEFINE S == Stored(win)
           f == Bytes(win)
           iter == CHOOSE sigma :
                     sigma = [s \in SUBSET S |->
                                IF s = {} THEN 0
                                ELSE win.images[CHOOSE x \in s : TRUE].bytes
                                       + sigma[s \ {CHOOSE x \in s : TRUE}]]
<1>1. StoredBytes = iter[S]
  BY DEF StoredBytes, Images, MapThenSumSet, MapThenFoldSet, Stored
<1>2. IsFiniteSet(S)
  BY DEF Accounted
<1>3. PICK rho : Tallies(rho, f, S) /\ Total(f, S) = rho[S]
  BY <1>2, TotalTallies
<1>4. ASSUME NEW sigma
      PROVE  [s \in SUBSET S |->
                IF s = {} THEN 0
                ELSE win.images[CHOOSE x \in s : TRUE].bytes
                       + sigma[s \ {CHOOSE x \in s : TRUE}]]
             = [s \in SUBSET S |-> IF s = {} THEN 0 ELSE f[First(s)] + sigma[s \ {First(s)}]]
  <2>1. \A s \in SUBSET S : s # {} => f[First(s)] = win.images[First(s)].bytes
    BY FirstIsIn DEF Bytes
  <2> QED BY <2>1 DEF First
<1>5. iter = [s \in SUBSET S |->
                IF s = {} THEN 0
                ELSE win.images[CHOOSE x \in s : TRUE].bytes
                       + iter[s \ {CHOOSE x \in s : TRUE}]]
  <2>1. rho = [s \in SUBSET S |->
                 IF s = {} THEN 0
                 ELSE win.images[CHOOSE x \in s : TRUE].bytes
                        + rho[s \ {CHOOSE x \in s : TRUE}]]
    BY <1>3, <1>4 DEF Tallies
  <2> QED BY <2>1
<1> HIDE DEF iter
<1>6. Tallies(iter, f, S)
  BY <1>4, <1>5 DEF Tallies
<1>7. iter[S] = rho[S]
  <2>1. S \in SUBSET S
    OBVIOUS
  <2> QED BY <1>2, <1>3, <1>6, <2>1, TalliesAgree
<1> QED BY <1>1, <1>3, <1>7

DictInv == Accounted(win) /\ ~OverBudget(win)

\* An insertion, with all its rounds of eviction, and clear keep the account.
THEOREM DictInvariance == DictSpec => []DictInv
<1>1. DictInit => DictInv
  BY NothingIsAccounted DEF DictInit, DictInv
<1>2. DictInv /\ [DictNext]_win => DictInv'
  <2> SUFFICES ASSUME DictInv, [DictNext]_win PROVE DictInv'
    OBVIOUS
  <2>1. ASSUME NEW id \in Ids, NEW bytes \in Sizes, InsertImage(id, bytes)
        PROVE  DictInv'
    <3>1. win' = Insert(win, id, bytes, "pixels") /\ bytes \in Nat
      BY <2>1, SizesAssumption DEF InsertImage
    <3>2. Accounted(Insert(win, id, bytes, "pixels")) /\ ~OverBudget(Insert(win, id, bytes, "pixels"))
      BY <3>1, InsertKeeps DEF DictInv
    <3> QED BY <3>1, <3>2 DEF DictInv, Accounted, OverBudget
  <2>2. CASE Clear
    <3>1. win' = ClearWindow(win)
      BY <2>2 DEF Clear
    <3>2. Accounted(ClearWindow(win)) /\ ~OverBudget(ClearWindow(win))
      BY NothingIsAccounted DEF DictInv
    <3> QED BY <3>1, <3>2 DEF DictInv
  <2>3. CASE UNCHANGED win
    BY <2>3 DEF DictInv
  <2> QED BY <2>1, <2>2, <2>3 DEF DictNext
<1> QED BY <1>1, <1>2, PTL DEF DictSpec

(***************************************************************************)
(* Whatever is inserted and cleared, bytes_used is exact, the insertion    *)
(* numbers are all different, and the budget is kept: for any identifiers, *)
(* sizes and budget.                                                       *)
(***************************************************************************)
THEOREM DictionaryIsSound == DictSpec => []DictionaryAddsUp
<1>1. DictInv => DictionaryAddsUp
  <2> SUFFICES ASSUME DictInv PROVE DictionaryAddsUp
    OBVIOUS
  <2> USE DEF DictInv
  <2>1. BytesUsedIsExact
    BY StoredBytesIsTotal DEF BytesUsedIsExact, Images, Accounted, Stored
  <2>2. InsertionOrderIsTotal
    BY DEF InsertionOrderIsTotal, Images, Accounted, Stored
  <2>3. BudgetIsKept
    <3>1. IsFiniteSet(Stored(win)) /\ Cardinality(Stored(win)) \in Nat
      BY FS_CardinalityType DEF Accounted
    <3>2. CASE Stored(win) = {}
      <4>1. win.used = 0 /\ Capacity \in Nat
        BY <3>2, TotalOfNothing, CapacityAssumption DEF Accounted, Capacity
      <4>2. win.used <= Capacity
        BY <4>1
      <4> QED BY <4>2 DEF BudgetIsKept
    <3>3. CASE Stored(win) # {}
      <4>1. Cardinality(Stored(win)) # 0
        BY <3>1, <3>3, FS_EmptySet
      <4>2. ~(win.used > Capacity) \/ Cardinality(Stored(win)) = 1
        BY <3>1, <4>1 DEF OverBudget, Stored
      <4>3. win.used \in Nat /\ Capacity \in Nat
        <5>1. \A x \in Stored(win) : Bytes(win)[x] \in Nat
          BY DEF Accounted, Bytes
        <5> QED BY <3>1, <5>1, TotalIsNumber, CapacityAssumption DEF Accounted, Capacity
      <4>4. win.used <= Capacity \/ Cardinality(Stored(win)) = 1
        BY <4>2, <4>3
      <4> QED BY <4>4 DEF BudgetIsKept, Images, Stored
    <3> QED BY <3>2, <3>3
  <2> QED BY <2>1, <2>2, <2>3 DEF DictionaryAddsUp
<1> QED BY DictInvariance, <1>1, PTL

-----------------------------------------------------------------------------
(***************************************************************************)
(* GlzBudget.  What it says of images and their ages, said of a window.    *)
(***************************************************************************)
Ages(w) == {p \in Stored(w) \X Stored(w) : w.images[p[1]].seq < w.images[p[2]].seq}

\* What GlzBudget adds up is a total.
LEMMA SizeOfIsTotal ==
    ASSUME NEW f, NEW S
    PROVE  Promise!SizeOf(f, S) = Total(f, S)
BY DEF Promise!SizeOf, Promise!MapThenSumSet, Promise!MapThenFoldSet, Total, Tallies, First

\* After an insertion the newest image is there, and any other just if it and
\* what came after it fit.
LEMMA KeptExactly ==
    ASSUME NEW w, Accounted(w), NEW id, NEW bytes \in Nat, NEW pixels,
           NEW c, EvictsFrom(c, w, id, bytes, pixels), NEW v, v = Evict(c)
    PROVE  /\ LeftOf(v, c) /\ id \in Stored(v)
           /\ \A i \in Stored(c) \ {id} :
                 i \in Stored(v) <=> Total(Bytes(c), Since(c, i)) <= Capacity
<1>1. /\ Accounted(v) /\ LeftOf(v, c) /\ ~OverBudget(v) /\ Accounted(c)
      /\ Stored(c) = Stored(w) \cup {id} /\ c.images[id].seq = w.nextSeq
      /\ \A i \in Stored(c) \ {id} : c.images[i] = w.images[i]
  BY EvictFacts DEF EvictsFrom, Entry
<1>2. w.nextSeq \in Nat /\ \A i \in Stored(c) \ {id} : c.images[i].seq \in 0 .. w.nextSeq - 1
  BY <1>1 DEF Accounted
<1>3. \A i \in Stored(c) : c.images[i].seq \in Nat /\ c.images[i].bytes \in Nat
  <2>1. /\ c.nextSeq \in Nat
        /\ \A i \in Stored(c) : c.images[i].bytes \in Nat /\ c.images[i].seq \in 0 .. c.nextSeq - 1
    BY <1>1 DEF Accounted
  <2> QED BY <2>1
<1>4. id \in Stored(v)
  <2>1. Since(c, id) = {id}
    <3>1. \A i \in Stored(c) \ {id} : ~(c.images[i].seq >= c.images[id].seq)
      BY <1>1, <1>2
    <3>2. c.images[id].seq >= c.images[id].seq /\ id \in Stored(c)
      BY <1>1, <1>2
    <3> QED BY <3>1, <3>2 DEF Since
  <2> QED BY <1>1, <2>1 DEF LeftOf
<1>5. Capacity \in Nat
  BY CapacityAssumption DEF Capacity
<1>6. \A i \in Stored(c) : Since(c, i) \in SUBSET Stored(c) /\ IsFiniteSet(Since(c, i))
                           /\ Total(Bytes(c), Since(c, i)) \in Nat
  <2> SUFFICES ASSUME NEW i \in Stored(c)
               PROVE  Since(c, i) \in SUBSET Stored(c) /\ IsFiniteSet(Since(c, i))
                      /\ Total(Bytes(c), Since(c, i)) \in Nat
    OBVIOUS
  <2>1. Since(c, i) \in SUBSET Stored(c)
    BY DEF Since
  <2>2. IsFiniteSet(Since(c, i))
    BY <1>1, <2>1, FS_Subset DEF Accounted
  <2>3. \A x \in Since(c, i) : Bytes(c)[x] \in Nat
    BY <1>3, <2>1 DEF Bytes
  <2> QED BY <2>1, <2>2, <2>3, TotalIsNumber
<1>7. ASSUME NEW i \in Stored(c) \ {id}, i \notin Stored(v)
      PROVE  ~(Total(Bytes(c), Since(c, i)) <= Capacity)
  BY <1>1, <1>5, <1>6, <1>7 DEF LeftOf
<1>8. ASSUME NEW i \in Stored(c) \ {id}, i \in Stored(v)
      PROVE  Total(Bytes(c), Since(c, i)) <= Capacity
  <2>1. IsFiniteSet(Stored(v)) /\ Cardinality(Stored(v)) \in Nat
    BY <1>1, FS_CardinalityType DEF Accounted
  <2>2. Cardinality(Stored(v)) > 1
    <3>1. Cardinality({i, id}) = 2 /\ {i, id} \subseteq Stored(v)
      <4>1. IsFiniteSet({id}) /\ Cardinality({id}) = 1
        BY FS_Singleton
      <4>2. Cardinality({id} \cup {i}) = 1 + 1
        BY <1>8, <4>1, FS_AddElement
      <4>3. {id} \cup {i} = {i, id}
        OBVIOUS
      <4> QED BY <1>4, <1>8, <4>2, <4>3
    <3>2. Cardinality({i, id}) <= Cardinality(Stored(v))
      BY <2>1, <3>1, FS_Subset
    <3> QED BY <2>1, <3>1, <3>2
  <2>3. ~(v.used > Capacity)
    BY <1>1, <2>2 DEF OverBudget, Stored
  <2>4. Since(c, i) \in SUBSET Stored(v)
    <3> SUFFICES ASSUME NEW j \in Stored(c), c.images[j].seq >= c.images[i].seq, j \notin Stored(v)
                 PROVE  FALSE
      BY DEF Since
    <3>1. c.images[j].seq < c.images[i].seq
      BY <1>1, <1>8 DEF LeftOf
    <3>2. c.images[j].seq \in Nat /\ c.images[i].seq \in Nat
      BY <1>3
    <3> QED BY <3>1, <3>2
  <2>5. Stored(v) \subseteq Stored(c) /\ \A j \in Stored(v) : v.images[j] = c.images[j]
    BY <1>1 DEF LeftOf
  <2>6. \A j \in Since(c, i) : Bytes(c)[j] = Bytes(v)[j]
    BY <2>4, <2>5 DEF Bytes
  <2>7. \A j \in Stored(v) : Bytes(v)[j] \in Nat
    BY <1>3, <2>5 DEF Bytes
  <2>8. Total(Bytes(c), Since(c, i)) = Total(Bytes(v), Since(c, i))
    BY <1>6, <2>6, TotalAgrees
  <2>9. Total(Bytes(v), Since(c, i)) <= Total(Bytes(v), Stored(v))
    BY <2>1, <2>4, <2>7, TotalGrows
  <2>10. Total(Bytes(v), Stored(v)) = v.used /\ Total(Bytes(v), Stored(v)) \in Nat
    BY <1>1, <2>1, <2>7, TotalIsNumber DEF Accounted
  <2> QED BY <1>5, <1>6, <2>3, <2>8, <2>9, <2>10
<1> QED BY <1>1, <1>4, <1>7, <1>8

\* v remembers the image, in GlzBudget's terms.
Remembers(v, w, id, bytes) ==
    LET others == Stored(w) \ {id}
        ids    == others \cup {id}
        all    == [i \in ids |-> IF i = id THEN bytes ELSE Bytes(w)[i]]
        order  == (Ages(w) \cap (others \X others)) \cup (others \X {id})
        kept   == {i \in ids : i = id \/ Promise!SizeOf(all, Promise!Since(i, ids, order))
                                           <= Capacity}
    IN  /\ Bytes(v) = [i \in kept |-> all[i]]
        /\ Ages(v) = order \cap (kept \X kept)

\* So does the window after an insertion.
LEMMA InsertRemembers ==
    ASSUME NEW w, Accounted(w), NEW id, NEW bytes \in Nat, NEW pixels,
           NEW v, v = Insert(w, id, bytes, pixels)
    PROVE  Remembers(v, w, id, bytes)
<1> DEFINE c      == Charged(w, id, bytes, pixels)
           others == Stored(w) \ {id}
           ids    == others \cup {id}
           all    == [i \in ids |-> IF i = id THEN bytes ELSE Bytes(w)[i]]
           order  == (Ages(w) \cap (others \X others)) \cup (others \X {id})
           kept   == {i \in ids : i = id \/ Promise!SizeOf(all, Promise!Since(i, ids, order))
                                              <= Capacity}
<1>1. EvictsFrom(c, w, id, bytes, pixels)
  <2>1. c = Charged(w, id, bytes, pixels)
    OBVIOUS
  <2> HIDE DEF c
  <2> QED BY <2>1, InsertCharges
<1> HIDE DEF c
<1>2. /\ Accounted(c) /\ Stored(c) = ids /\ v = Evict(c)
      /\ c.images[id].bytes = bytes /\ c.images[id].seq = w.nextSeq
      /\ \A i \in others : c.images[i] = w.images[i]
  BY <1>1 DEF EvictsFrom, Entry
<1>3. /\ LeftOf(v, c) /\ id \in Stored(v)
      /\ \A i \in Stored(c) \ {id} :
            i \in Stored(v) <=> Total(Bytes(c), Since(c, i)) <= Capacity
  BY <1>1, <1>2, KeptExactly
<1>4. w.nextSeq \in Nat /\ \A i \in others : w.images[i].seq \in Nat /\ w.images[i].seq < w.nextSeq
  <2>1. w.nextSeq \in Nat /\ \A i \in Stored(w) : w.images[i].seq \in 0 .. w.nextSeq - 1
    BY DEF Accounted
  <2> QED BY <2>1
<1>5. all = Bytes(c)
  <2>1. \A i \in others : Bytes(w)[i] = c.images[i].bytes
    BY <1>2 DEF Bytes
  <2> QED BY <1>2, <2>1 DEF Bytes
<1>6. order = Ages(c)
  <2>1. ASSUME NEW a \in ids, NEW b \in ids
        PROVE  <<a, b>> \in order <=> c.images[a].seq < c.images[b].seq
    <3>1. CASE b = id
      <4>1. CASE a = id
        BY <1>2, <1>4, <3>1, <4>1
      <4>2. CASE a # id
        BY <1>2, <1>4, <3>1, <4>2
      <4> QED BY <4>1, <4>2
    <3>2. CASE b # id
      <4>1. CASE a = id
        <5>1. b \in others /\ w.images[b].seq < w.nextSeq /\ w.images[b].seq \in Nat
          BY <1>4, <3>2
        <5>2. ~(c.images[a].seq < c.images[b].seq)
          BY <1>2, <1>4, <4>1, <5>1
        <5>3. <<a, b>> \notin order
          BY <3>2, <4>1
        <5> QED BY <5>2, <5>3
      <4>2. CASE a # id
        <5>1. a \in others /\ b \in others
          BY <3>2, <4>2
        <5>2. <<a, b>> \in Ages(w) <=> w.images[a].seq < w.images[b].seq
          BY <5>1 DEF Ages
        <5> QED BY <1>2, <3>2, <5>1, <5>2
      <4> QED BY <4>1, <4>2
    <3> QED BY <3>1, <3>2
  <2>2. order \subseteq ids \X ids
    OBVIOUS
  <2>3. Ages(c) \subseteq ids \X ids
    BY <1>2 DEF Ages
  <2>4. ASSUME NEW a \in ids, NEW b \in ids
        PROVE  <<a, b>> \in Ages(c) <=> c.images[a].seq < c.images[b].seq
    BY <1>2 DEF Ages
  <2> HIDE DEF order, ids
  <2> QED BY <2>1, <2>2, <2>3, <2>4
<1> HIDE DEF order, all, ids
<1>7. \A i \in ids : Promise!Since(i, ids, order) = Since(c, i)
  <2> SUFFICES ASSUME NEW i \in ids PROVE Promise!Since(i, ids, order) = Since(c, i)
    OBVIOUS
  <2>1. ASSUME NEW j \in ids
        PROVE  (j = i \/ <<i, j>> \in order) <=> c.images[j].seq >= c.images[i].seq
    <3>1. <<i, j>> \in Ages(c) <=> c.images[i].seq < c.images[j].seq
      BY <1>2 DEF Ages
    <3>2. c.images[i].seq = c.images[j].seq => i = j
      BY <1>2 DEF Accounted
    <3>3. c.images[i].seq \in Nat /\ c.images[j].seq \in Nat
      <4>1. c.nextSeq \in Nat /\ \A k \in Stored(c) : c.images[k].seq \in 0 .. c.nextSeq - 1
        BY <1>2 DEF Accounted
      <4>2. c.images[i].seq \in 0 .. c.nextSeq - 1 /\ c.images[j].seq \in 0 .. c.nextSeq - 1
        BY <1>2, <4>1
      <4> QED BY <4>2
    <3> QED BY <1>6, <3>1, <3>2, <3>3
  <2> QED BY <1>2, <2>1 DEF Promise!Since, Since
<1>8. kept = Stored(v)
  <2>1. id \in ids /\ Stored(v) \subseteq ids
    BY <1>2, <1>3 DEF LeftOf, ids
  <2>2. ASSUME NEW i \in ids, i # id
        PROVE  i \in Stored(v) <=> Promise!SizeOf(all, Promise!Since(i, ids, order)) <= Capacity
    BY <1>2, <1>3, <1>5, <1>7, <2>2, SizeOfIsTotal
  <2> QED BY <1>3, <2>1, <2>2
<1> HIDE DEF kept
<1>9. Stored(v) \subseteq Stored(c) /\ \A i \in Stored(v) : v.images[i] = c.images[i]
  BY <1>3 DEF LeftOf
<1>10. Bytes(v) = [i \in kept |-> all[i]]
  <2>1. \A i \in Stored(v) : all[i] = v.images[i].bytes
    BY <1>5, <1>9 DEF Bytes
  <2> QED BY <1>8, <2>1 DEF Bytes
<1>11. Ages(v) = order \cap (kept \X kept)
  <2>1. Ages(v) = Ages(c) \cap (Stored(v) \X Stored(v))
    BY <1>9 DEF Ages
  <2> QED BY <1>6, <1>8, <2>1
<1> QED BY <1>10, <1>11 DEF Remembers, kept, order, all, ids

(***************************************************************************)
(* The dictionary, with its sequence numbers, its running total and its    *)
(* eviction loop, implements GlzBudget: for any identifiers, sizes and     *)
(* budget it holds the latest images that fit, and always the very latest. *)
(***************************************************************************)
THEOREM DictionaryKeepsLatest == DictSpec => KeepsLatestThatFit
<1>1. StoredSizes = Bytes(win) /\ ByAge = Ages(win)
  BY DEF StoredSizes, ByAge, Images, Bytes, Ages, Stored
<1>2. StoredSizes' = Bytes(win') /\ ByAge' = Ages(win')
  BY DEF StoredSizes, ByAge, Images, Bytes, Ages, Stored
<1>3. ASSUME NEW w, Stored(w) = {}
      PROVE  Bytes(w) = [i \in {} |-> 0] /\ Ages(w) = {}
  BY <1>3 DEF Bytes, Ages
<1>4. DictInit => Promise!Init
  <2> SUFFICES ASSUME DictInit PROVE Promise!Init
    OBVIOUS
  <2>1. Stored(win) = {}
    BY NothingIsAccounted DEF DictInit
  <2> QED BY <1>1, <1>3, <2>1 DEF Promise!Init
<1>5. DictInv /\ [DictNext]_win => [Promise!Next]_(<<StoredSizes, ByAge>>)
  <2> SUFFICES ASSUME DictInv, [DictNext]_win
               PROVE  Promise!Next \/ UNCHANGED <<StoredSizes, ByAge>>
    OBVIOUS
  <2>1. ASSUME NEW id \in Ids, NEW bytes \in Sizes, InsertImage(id, bytes)
        PROVE  Promise!Next
    <3>1. win' = Insert(win, id, bytes, "pixels") /\ bytes \in Nat
      BY <2>1, SizesAssumption DEF InsertImage
    <3>2. Promise!Remember(id, bytes)
      <4>1. Accounted(win)
        BY DEF DictInv
      <4>2. Remembers(win', win, id, bytes)
        BY <3>1, <4>1, InsertRemembers
      <4>3. DOMAIN Bytes(win) = Stored(win)
        BY DEF Bytes
      <4> QED BY <1>1, <1>2, <4>2, <4>3 DEF Promise!Remember, Remembers
    <3> QED BY <3>2 DEF Promise!Next
  <2>2. CASE Clear
    <3>1. win' = ClearWindow(win)
      BY <2>2 DEF Clear
    <3>2. Stored(win') = {}
      BY <3>1 DEF ClearWindow, Stored
    <3>3. Promise!Forget
      BY <1>2, <1>3, <3>2 DEF Promise!Forget
    <3> QED BY <3>3 DEF Promise!Next
  <2>3. CASE UNCHANGED win
    BY <1>1, <1>2, <2>3
  <2> QED BY <2>1, <2>2, <2>3 DEF DictNext
<1> QED BY DictInvariance, <1>4, <1>5, PTL DEF DictSpec, KeepsLatestThatFit, Promise!Spec

-----------------------------------------------------------------------------
(***************************************************************************)
(* DisplayImages.  Images are numbered in the order they are sent, so that *)
(* the older of two is the one with the smaller number; every image is     *)
(* answered by one event, and charged with the bytes it came with.         *)
(***************************************************************************)
SentImages ==
    [type : {"glz", "lz", "quic", "bitmap", "other"}, id : Nat, bytes : Nat, topDown : BOOLEAN,
     fault : {"none", "envelope", "body"}, refs : SUBSET Nat]

Under(log) == [j \in DOMAIN log |-> log[j].image.bytes]
From(log, i) == {j \in DOMAIN log : j >= i}

MessagesTyped ==
    /\ nextId \in 1 .. MaxImages + 1
    /\ msg = NoImage \/ (msg \in SentImages /\ msg.id = nextId - 1 /\ msg.id \in 1 .. MaxImages)
    /\ Len(events) = nextId - 1 - (IF msg = NoImage THEN 0 ELSE 1)
    /\ events = [i \in 1 .. Len(events) |-> events[i]]
    /\ \A i \in 1 .. Len(events) : events[i].image.id = i /\ events[i].image.bytes \in Nat

DictionaryFollows ==
    /\ Accounted(win) /\ Stored(win) \subseteq 1 .. Len(events)
    /\ \A id \in Stored(win) : win.images[id].bytes = events[id].image.bytes
    /\ \A a, b \in Stored(win) : a < b => win.images[a].seq < win.images[b].seq

\* What has to stay in the dictionary: Region events, and sane GLZ images whose
\* decoder was run.
Refers(e) ==
    e.kind = "region" \/ (e.image.type = "glz" /\ DecoderRan(e.image) /\ Sane(e.image))

ChainHolds ==
    \A i \in 1 .. Len(events) :
        Refers(events[i]) => i \in Stored(win) \/ Total(Under(events), From(events, i)) > Capacity

ImagesInv == MessagesTyped /\ DictionaryFollows /\ RegionsAreTopDown /\ ChainHolds

\* What the property adds up is the total of Under.
LEMMA UsedUpIsTotal ==
    ASSUME NEW log, NEW S, IsFiniteSet(S), S \subseteq DOMAIN log
    PROVE  MapThenSumSet(LAMBDA j : log[j].image.bytes, S) = Total(Under(log), S)
<1> DEFINE f == Under(log)
           iter == CHOOSE sigma :
                     sigma = [s \in SUBSET S |->
                                IF s = {} THEN 0
                                ELSE log[CHOOSE x \in s : TRUE].image.bytes
                                       + sigma[s \ {CHOOSE x \in s : TRUE}]]
<1>1. MapThenSumSet(LAMBDA j : log[j].image.bytes, S) = iter[S]
  BY DEF MapThenSumSet, MapThenFoldSet
<1>2. PICK rho : Tallies(rho, f, S) /\ Total(f, S) = rho[S]
  BY TotalTallies
<1>3. ASSUME NEW sigma
      PROVE  [s \in SUBSET S |->
                IF s = {} THEN 0
                ELSE log[CHOOSE x \in s : TRUE].image.bytes
                       + sigma[s \ {CHOOSE x \in s : TRUE}]]
             = [s \in SUBSET S |-> IF s = {} THEN 0 ELSE f[First(s)] + sigma[s \ {First(s)}]]
  <2>1. \A s \in SUBSET S : s # {} => f[First(s)] = log[First(s)].image.bytes
    BY FirstIsIn DEF Under
  <2> QED BY <2>1 DEF First
<1>4. iter = [s \in SUBSET S |->
                IF s = {} THEN 0
                ELSE log[CHOOSE x \in s : TRUE].image.bytes
                       + iter[s \ {CHOOSE x \in s : TRUE}]]
  <2>1. rho = [s \in SUBSET S |->
                 IF s = {} THEN 0
                 ELSE log[CHOOSE x \in s : TRUE].image.bytes
                        + rho[s \ {CHOOSE x \in s : TRUE}]]
    BY <1>2, <1>3 DEF Tallies
  <2> QED BY <2>1
<1> HIDE DEF iter
<1>5. Tallies(iter, f, S)
  BY <1>3, <1>4 DEF Tallies
<1>6. iter[S] = rho[S]
  <2>1. S \in SUBSET S
    OBVIOUS
  <2> QED BY <1>2, <1>5, <2>1, TalliesAgree
<1> QED BY <1>1, <1>2, <1>6

(***************************************************************************)
(* Every way through decode_draw_copy: one event, top-down if it is a      *)
(* region; and one image stored, if it is one that others may refer to.    *)
(***************************************************************************)
Answer(e) ==
    /\ msg' = NoImage /\ nextId' = nextId /\ events' = Append(events, e)
    /\ e.image = msg
    /\ e.kind = "region" => e.pixels.rows = "topdown"
    /\ \/ \E pixels : win' = Insert(win, msg.id, msg.bytes, pixels)
       \/ win' = win /\ ~Refers(e)

\* flip_vertical makes any image top-down.
LEMMA FlippedIsTopDown ==
    ASSUME NEW m \in SentImages, NEW real
    PROVE  FlipVertical(m, Pixels(RowsOf(m), real)).rows = "topdown"
<1>1. CASE m.topDown
  BY <1>1 DEF FlipVertical, Pixels, RowsOf
<1>2. CASE ~m.topDown
  BY <1>2 DEF FlipVertical, Pixels, RowsOf
<1> QED BY <1>1, <1>2

\* Each branch of decode_draw_copy is such an answer.
LEMMA EveryImageIsAnswered ==
    ASSUME msg = NoImage \/ msg \in SentImages, DecodeDrawCopy
    PROVE  msg \in SentImages /\ \E e : Answer(e)
<1>1. msg \in SentImages
  <2>1. msg.type \in {"glz", "lz", "quic", "bitmap", "other"}
    BY DEF DecodeDrawCopy, GlzRejected, GlzDecoded, GlzFailed, FlatDecoded, FlatFailed, OtherType
  <2>2. NoImage.type = "none"
    BY DEF NoImage
  <2> QED BY <2>1, <2>2
<1>2. \A e : Post(e) => msg' = NoImage /\ nextId' = nextId /\ events' = Append(events, e)
  BY DEF Post
<1>3. /\ Unhandled(msg).image = msg /\ Unhandled(msg).kind = "unhandled"
      /\ \A p : Region(msg, p).image = msg /\ Region(msg, p).kind = "region"
                /\ Region(msg, p).pixels = p
  BY DEF Unhandled, Region
<1>4. CASE GlzRejected
  <2>1. Post(Unhandled(msg)) /\ win' = win /\ ~DecoderRan(msg)
    BY <1>4 DEF GlzRejected, StoreNothing, DecoderRan
  <2>2. Answer(Unhandled(msg))
    BY <1>2, <1>3, <2>1 DEF Answer, Refers
  <2> QED BY <1>1, <2>2
<1>5. CASE GlzDecoded
  <2> DEFINE p == Pixels(RowsOf(msg), \A r \in msg.refs : win.images[r].pixels.real)
             q == FlipVertical(msg, p)
  <2>1. Post(Region(msg, q)) /\ win' = Insert(win, msg.id, msg.bytes, p)
    BY <1>5 DEF GlzDecoded, Store
  <2>2. q.rows = "topdown"
    BY <1>1, FlippedIsTopDown
  <2> HIDE DEF p, q
  <2>3. Answer(Region(msg, q))
    BY <1>2, <1>3, <2>1, <2>2 DEF Answer
  <2> QED BY <1>1, <2>3
<1>6. CASE GlzFailed
  <2>1. Post(Unhandled(msg)) /\ (Placeholder(msg) <=> Sane(msg))
    BY <1>6 DEF GlzFailed, Placeholder, Sane
  <2>2. \/ \E pixels : win' = Insert(win, msg.id, msg.bytes, pixels)
        \/ win' = win /\ ~Sane(msg)
    <3>1. CASE Placeholder(msg)
      BY <1>6, <3>1 DEF GlzFailed, Store
    <3>2. CASE ~Placeholder(msg)
      BY <1>6, <2>1, <3>2 DEF GlzFailed, StoreNothing
    <3> QED BY <3>1, <3>2
  <2>3. Answer(Unhandled(msg))
    BY <1>2, <1>3, <2>1, <2>2 DEF Answer, Refers
  <2> QED BY <1>1, <2>3
<1>7. CASE FlatDecoded
  <2> DEFINE p == FlipVertical(msg, Pixels(RowsOf(msg), TRUE))
  <2>1. Post(Region(msg, p)) /\ win' = Insert(win, msg.id, msg.bytes, p)
    BY <1>7 DEF FlatDecoded, Store
  <2>2. p.rows = "topdown"
    BY <1>1, FlippedIsTopDown
  <2> HIDE DEF p
  <2>3. Answer(Region(msg, p))
    BY <1>2, <1>3, <2>1, <2>2 DEF Answer
  <2> QED BY <1>1, <2>3
<1>8. CASE FlatFailed \/ OtherType
  <2>1. Post(Unhandled(msg)) /\ win' = win /\ msg.type # "glz"
    BY <1>8 DEF FlatFailed, OtherType, StoreNothing
  <2>2. Answer(Unhandled(msg))
    BY <1>2, <1>3, <2>1 DEF Answer, Refers
  <2> QED BY <1>1, <2>2
<1> QED BY <1>4, <1>5, <1>6, <1>7, <1>8 DEF DecodeDrawCopy

-----------------------------------------------------------------------------
\* Nothing is sent, stored or shown at first.
LEMMA ImagesInitEstablish == Init => ImagesInv
<1> SUFFICES ASSUME Init PROVE ImagesInv
  OBVIOUS
<1>1. nextId = 1 /\ msg = NoImage /\ win = EmptyWindow /\ events = <<>>
  BY DEF Init
<1>2. MessagesTyped
  BY <1>1, ImagesAssumption DEF MessagesTyped
<1>3. DictionaryFollows
  BY <1>1, NothingIsAccounted DEF DictionaryFollows
<1>4. RegionsAreTopDown /\ ChainHolds
  BY <1>1 DEF RegionsAreTopDown, ChainHolds
<1> QED BY <1>2, <1>3, <1>4 DEF ImagesInv

\* The next image is drawn: nothing else moves.
LEMMA DrawKeeps ==
    ASSUME ImagesInv, ServerDraws
    PROVE  ImagesInv'
<1>1. /\ msg = NoImage /\ nextId <= MaxImages /\ nextId' = nextId + 1
      /\ win' = win /\ events' = events
  BY DEF ServerDraws
<1>2. msg' \in SentImages /\ msg'.id = nextId
  <2>1. nextId \in Nat
    BY ImagesAssumption DEF ImagesInv, MessagesTyped
  <2>2. PICK type \in Types, bytes \in Sizes, topDown \in BOOLEAN, fault \in Faults :
          \E refs \in {{}} \cup {{r} : r \in 1 .. nextId - 1} :
             msg' = Image(type, nextId, bytes, topDown, fault, refs)
    BY DEF ServerDraws
  <2>3. PICK refs \in {{}} \cup {{r} : r \in 1 .. nextId - 1} :
          msg' = Image(type, nextId, bytes, topDown, fault, refs)
    BY <2>2
  <2>4. /\ type \in {"glz", "lz", "quic", "bitmap", "other"} /\ bytes \in Nat
        /\ fault \in {"none", "envelope", "body"} /\ refs \in SUBSET Nat
    BY <2>1, ImagesAssumption, SizesAssumption
  <2> QED BY <2>1, <2>3, <2>4 DEF Image, SentImages
<1>3. msg' # NoImage
  <2>1. msg'.type # "none"
    BY <1>2 DEF SentImages
  <2>2. NoImage.type = "none"
    BY DEF NoImage
  <2> QED BY <2>1, <2>2
<1>4. MessagesTyped'
  <2>1. /\ nextId \in 1 .. MaxImages + 1 /\ Len(events) = nextId - 1
        /\ events = [i \in 1 .. Len(events) |-> events[i]]
        /\ \A i \in 1 .. Len(events) : events[i].image.id = i /\ events[i].image.bytes \in Nat
    BY <1>1 DEF ImagesInv, MessagesTyped
  <2>2. /\ nextId' \in 1 .. MaxImages + 1 /\ msg'.id = nextId' - 1 /\ msg'.id \in 1 .. MaxImages
        /\ Len(events') = nextId' - 1 - 1
    BY <1>1, <1>2, <2>1, ImagesAssumption
  <2> QED BY <1>1, <1>2, <1>3, <2>1, <2>2 DEF MessagesTyped
<1>5. DictionaryFollows' /\ RegionsAreTopDown' /\ ChainHolds'
  BY <1>1 DEF ImagesInv, DictionaryFollows, RegionsAreTopDown, ChainHolds
<1> QED BY <1>4, <1>5 DEF ImagesInv

(***************************************************************************)
(* An answer, whatever it is: an image that leaves the dictionary leaves   *)
(* it because what has come since, and is charged, is beyond the budget.   *)
(***************************************************************************)
LEMMA AnswerKeeps ==
    ASSUME ImagesInv, msg \in SentImages, NEW e, Answer(e)
    PROVE  ImagesInv'
<1> DEFINE n == Len(events) + 1
           m == msg
<1>1. /\ nextId \in 1 .. MaxImages + 1 /\ m.id = nextId - 1 /\ Len(events) = nextId - 2
      /\ Len(events) \in Nat /\ m.bytes \in Nat /\ m.id = n
  <2>1. msg # NoImage
    <3>1. msg.type # "none" /\ NoImage.type = "none"
      BY DEF SentImages, NoImage
    <3> QED BY <3>1
  <2>2. /\ nextId \in 1 .. MaxImages + 1 /\ m.id = nextId - 1 /\ m.id \in 1 .. MaxImages
        /\ Len(events) = nextId - 1 - 1 /\ m.bytes \in Nat
    BY <2>1 DEF ImagesInv, MessagesTyped, SentImages
  <2> QED BY <2>2, ImagesAssumption
<1>2. /\ events = [i \in 1 .. Len(events) |-> events[i]]
      /\ \A i \in 1 .. Len(events) : events[i].image.id = i /\ events[i].image.bytes \in Nat
  BY DEF ImagesInv, MessagesTyped
<1>3. /\ msg' = NoImage /\ nextId' = nextId /\ events' = Append(events, e) /\ e.image = m
      /\ e.kind = "region" => e.pixels.rows = "topdown"
  BY DEF Answer
<1>4. /\ Len(events') = n /\ DOMAIN events' = 1 .. n
      /\ events' = [i \in 1 .. n |-> events'[i]]
      /\ events'[n] = e /\ \A i \in 1 .. Len(events) : events'[i] = events[i]
  <2>1. events' = [i \in 1 .. n |-> IF i = n THEN e ELSE events[i]]
    <3>1. DOMAIN events = 1 .. Len(events)
      BY <1>2
    <3>2. events \in Seq({events[i] : i \in 1 .. Len(events)} \cup {e})
      BY <1>1, <1>2
    <3>3. events' \in Seq({events[i] : i \in 1 .. Len(events)} \cup {e})
          /\ Len(events') = n /\ \A i \in 1 .. n : events'[i] = IF i = n THEN e ELSE events[i]
      BY <1>3, <3>2
    <3>4. events' = [i \in 1 .. n |-> events'[i]]
      BY <3>3
    <3> QED BY <3>3, <3>4
  <2>2. n \in Nat /\ n \notin 1 .. Len(events) /\ 1 .. Len(events) \subseteq 1 .. n /\ n \in 1 .. n
    BY <1>1
  <2>3. Len(events') = n
    BY <2>1, <2>2
  <2> QED BY <2>1, <2>2, <2>3
<1> HIDE DEF n, m
<1>5. n \in Nat \ {0} /\ Len(events) = n - 1
  BY <1>1 DEF n
<1>6. \A i \in 1 .. n : events'[i].image.id = i /\ events'[i].image.bytes \in Nat
  <2> SUFFICES ASSUME NEW i \in 1 .. n
               PROVE  events'[i].image.id = i /\ events'[i].image.bytes \in Nat
    OBVIOUS
  <2>1. CASE i = n
    BY <1>1, <1>3, <1>4, <2>1
  <2>2. CASE i # n
    <3>1. i \in 1 .. Len(events)
      BY <1>5, <2>2
    <3> QED BY <1>2, <1>4, <3>1
  <2> QED BY <2>1, <2>2
<1>7. MessagesTyped'
  BY <1>1, <1>3, <1>4, <1>5, <1>6 DEF MessagesTyped
<1>8. RegionsAreTopDown'
  <2> SUFFICES ASSUME NEW i \in 1 .. n, events'[i].kind = "region"
               PROVE  events'[i].pixels.rows = "topdown"
    BY <1>4 DEF RegionsAreTopDown
  <2>1. CASE i = n
    BY <1>3, <1>4, <2>1
  <2>2. CASE i # n
    <3>1. i \in 1 .. Len(events) /\ i \in DOMAIN events
      BY <1>2, <1>5, <2>2
    <3>2. events[i].kind = "region" => events[i].pixels.rows = "topdown"
      BY <3>1 DEF ImagesInv, RegionsAreTopDown
    <3> QED BY <1>4, <3>1, <3>2
  <2> QED BY <2>1, <2>2
\* What used up the budget then, does so with one more image.
<1>9. ASSUME NEW i \in 1 .. Len(events), Total(Under(events), From(events, i)) > Capacity
      PROVE  Total(Under(events'), From(events', i)) > Capacity
  <2>1. From(events, i) \in SUBSET From(events', i) /\ IsFiniteSet(From(events', i))
        /\ IsFiniteSet(From(events, i)) /\ From(events', i) \subseteq 1 .. n
        /\ From(events, i) \subseteq 1 .. Len(events)
    <3>1. DOMAIN events = 1 .. Len(events)
      BY <1>2
    <3>2. From(events', i) \in SUBSET (1 .. n) /\ From(events, i) \in SUBSET (1 .. n)
          /\ From(events, i) \subseteq 1 .. Len(events)
          /\ From(events, i) \subseteq From(events', i)
      BY <1>4, <1>5, <3>1 DEF From
    <3>3. IsFiniteSet(1 .. n)
      BY <1>5, FS_Interval
    <3> QED BY <3>2, <3>3, FS_Subset
  <2>2. \A j \in From(events', i) : Under(events')[j] \in Nat
    BY <1>4, <1>6, <2>1 DEF Under
  <2>3. \A j \in From(events, i) : Under(events)[j] = Under(events')[j]
    <3> SUFFICES ASSUME NEW j \in From(events, i)
                 PROVE  Under(events)[j] = Under(events')[j]
      OBVIOUS
    <3>1. j \in 1 .. Len(events) /\ j \in 1 .. n /\ j \in DOMAIN events
      BY <1>2, <2>1
    <3> QED BY <1>4, <3>1 DEF Under
  <2>4. Total(Under(events), From(events, i)) = Total(Under(events'), From(events, i))
    BY <2>1, <2>3, TotalAgrees
  <2>5. Total(Under(events'), From(events, i)) <= Total(Under(events'), From(events', i))
    BY <2>1, <2>2, TotalGrows
  <2>6. Total(Under(events'), From(events', i)) \in Nat
        /\ Total(Under(events'), From(events, i)) \in Nat /\ Capacity \in Nat
    <3>1. \A j \in From(events, i) : Under(events')[j] \in Nat
      BY <2>1, <2>2
    <3> QED BY <2>1, <2>2, <3>1, TotalIsNumber, CapacityAssumption DEF Capacity
  <2> QED BY <1>9, <2>4, <2>5, <2>6
<1>10. ASSUME NEW i \in 1 .. Len(events), Refers(events'[i])
       PROVE  i \in Stored(win) \/ Total(Under(events'), From(events', i)) > Capacity
  <2>1. events'[i] = events[i]
    BY <1>4
  <2>2. i \in Stored(win) \/ Total(Under(events), From(events, i)) > Capacity
    BY <1>10, <2>1 DEF ImagesInv, ChainHolds
  <2> QED BY <1>9, <2>2
<1>11. CASE win' = win /\ ~Refers(e)
  <2>1. DictionaryFollows'
    <3>1. Stored(win) \subseteq 1 .. Len(events) /\ 1 .. Len(events) \subseteq 1 .. n
      BY <1>5 DEF ImagesInv, DictionaryFollows
    <3>2. \A id \in Stored(win) : win.images[id].bytes = events'[id].image.bytes
      BY <1>4, <3>1 DEF ImagesInv, DictionaryFollows
    <3> QED BY <1>4, <1>11, <3>1, <3>2 DEF ImagesInv, DictionaryFollows
  <2>2. ChainHolds'
    <3> SUFFICES ASSUME NEW i \in 1 .. n, Refers(events'[i])
                 PROVE  i \in Stored(win') \/ Total(Under(events'), From(events', i)) > Capacity
      BY <1>4 DEF ChainHolds
    <3>1. i # n
      BY <1>4, <1>11
    <3>2. i \in 1 .. Len(events)
      BY <1>5, <3>1
    <3> QED BY <1>10, <1>11, <3>2
  <2> QED BY <1>7, <1>8, <2>1, <2>2 DEF ImagesInv
<1>12. ASSUME NEW pixels, win' = Insert(win, msg.id, msg.bytes, pixels)
       PROVE  ImagesInv'
  <2> DEFINE c == Charged(win, n, msg.bytes, pixels)
             x == Entry(msg.bytes, pixels, win.nextSeq)
  <2>1. /\ Accounted(win) /\ Stored(win) \subseteq 1 .. Len(events)
        /\ \A id \in Stored(win) : win.images[id].bytes = events[id].image.bytes
        /\ \A a, b \in Stored(win) : a < b => win.images[a].seq < win.images[b].seq
    BY DEF ImagesInv, DictionaryFollows
  <2>2. msg.id = n /\ msg.bytes \in Nat
    BY <1>1 DEF m
  <2>3. /\ win' = Evict(c) /\ Accounted(c) /\ Stored(c) = Stored(win) \cup {n}
        /\ c.images[n] = x /\ \A id \in Stored(win) \ {n} : c.images[id] = win.images[id]
    <3>1. c = Charged(win, n, msg.bytes, pixels)
      OBVIOUS
    <3> HIDE DEF c
    <3>2. EvictsFrom(c, win, n, msg.bytes, pixels)
      BY <2>1, <2>2, <3>1, InsertCharges
    <3>3. win' = Insert(win, n, msg.bytes, pixels)
      BY <1>12, <2>2
    <3> QED BY <3>2, <3>3 DEF EvictsFrom
  <2> HIDE DEF c
  <2>4. Accounted(win') /\ LeftOf(win', c)
    <3>1. Accounted(Evict(c)) /\ LeftOf(Evict(c), c)
      BY <2>3, EvictFacts
    <3> QED BY <2>3, <3>1
  <2>5. n \notin Stored(win) /\ Stored(c) \subseteq 1 .. n
    BY <1>5, <2>1, <2>3
  <2>6. x.bytes = msg.bytes /\ x.seq = win.nextSeq
    BY DEF Entry
  <2> HIDE DEF x
  <2>7. \A id \in Stored(c) : c.images[id].bytes = events'[id].image.bytes
    <3> SUFFICES ASSUME NEW id \in Stored(c)
                 PROVE  c.images[id].bytes = events'[id].image.bytes
      OBVIOUS
    <3>1. CASE id = n
      BY <1>3, <1>4, <2>3, <2>6, <3>1 DEF m
    <3>2. CASE id # n
      <4>1. id \in Stored(win) /\ id \in 1 .. Len(events)
        BY <2>1, <2>3, <3>2
      <4> QED BY <1>4, <2>1, <2>3, <3>2, <4>1
    <3> QED BY <3>1, <3>2
  <2>8. \A a, b \in Stored(c) : a < b => c.images[a].seq < c.images[b].seq
    <3> SUFFICES ASSUME NEW a \in Stored(c), NEW b \in Stored(c), a < b
                 PROVE  c.images[a].seq < c.images[b].seq
      OBVIOUS
    <3>1. a # n /\ a \in Stored(win) /\ c.images[a] = win.images[a]
      <4>1. a \in 1 .. n /\ b \in 1 .. n
        BY <2>5
      <4>2. a # n
        BY <1>5, <4>1
      <4> QED BY <2>3, <4>2
    <3>2. CASE b = n
      <4>1. c.images[a].seq \in 0 .. win.nextSeq - 1 /\ win.nextSeq \in Nat
        BY <2>1, <3>1 DEF Accounted
      <4>2. c.images[b].seq = win.nextSeq
        BY <2>3, <2>6, <3>2
      <4> QED BY <4>1, <4>2
    <3>3. CASE b # n
      <4>1. b \in Stored(win) /\ c.images[b] = win.images[b]
        BY <2>3, <3>3
      <4> QED BY <2>1, <3>1, <4>1
    <3> QED BY <3>2, <3>3
  <2>9. DictionaryFollows'
    <3>1. Stored(win') \subseteq Stored(c) /\ \A id \in Stored(win') : win'.images[id] = c.images[id]
      BY <2>4 DEF LeftOf
    <3>2. Stored(win') \subseteq 1 .. Len(events')
      BY <1>4, <2>5, <3>1
    <3>3. \A id \in Stored(win') : win'.images[id].bytes = events'[id].image.bytes
      BY <2>7, <3>1
    <3>4. \A a, b \in Stored(win') : a < b => win'.images[a].seq < win'.images[b].seq
      BY <2>8, <3>1
    <3> QED BY <2>4, <3>2, <3>3, <3>4 DEF DictionaryFollows
  <2>10. ASSUME NEW i \in Stored(c), i \notin Stored(win')
         PROVE  Total(Under(events'), From(events', i)) > Capacity
    <3>1. Total(Bytes(c), Since(c, i)) > Capacity
      BY <2>4, <2>10 DEF LeftOf
    <3>2. Since(c, i) \in SUBSET From(events', i) /\ Since(c, i) \subseteq Stored(c)
      <4> SUFFICES ASSUME NEW j \in Stored(c), c.images[j].seq >= c.images[i].seq
                   PROVE  j \in From(events', i)
        BY DEF Since
      <4>1. j \in 1 .. n /\ i \in 1 .. n
        BY <2>5, <2>10
      <4>2. c.images[j].seq \in Nat /\ c.images[i].seq \in Nat
        <5>1. \A id \in Stored(c) : c.images[id].seq \in 0 .. c.nextSeq - 1
          BY <2>3 DEF Accounted
        <5>2. c.images[j].seq \in 0 .. c.nextSeq - 1 /\ c.images[i].seq \in 0 .. c.nextSeq - 1
          BY <2>10, <5>1
        <5> QED BY <5>2
      <4>3. ~(j < i)
        BY <2>8, <2>10, <4>2
      <4>4. j >= i
        BY <4>1, <4>3
      <4> QED BY <1>4, <4>1, <4>4 DEF From
    <3>3. From(events', i) \subseteq 1 .. n /\ IsFiniteSet(From(events', i)) /\ IsFiniteSet(Since(c, i))
      <4>1. IsFiniteSet(1 .. n) /\ From(events', i) \in SUBSET (1 .. n)
        <5>1. IsFiniteSet(1 .. n)
          BY <1>5, FS_Interval
        <5>2. From(events', i) \in SUBSET (1 .. n)
          BY <1>4 DEF From
        <5> QED BY <5>1, <5>2
      <4>2. IsFiniteSet(From(events', i))
        BY <4>1, FS_Subset
      <4> QED BY <3>2, <4>1, <4>2, FS_Subset
    <3>4. \A j \in From(events', i) : Under(events')[j] \in Nat
      BY <1>4, <1>6, <3>3 DEF Under
    <3>5. \A j \in Since(c, i) : Bytes(c)[j] = Under(events')[j]
      <4> SUFFICES ASSUME NEW j \in Since(c, i)
                   PROVE  Bytes(c)[j] = Under(events')[j]
        OBVIOUS
      <4>1. j \in Stored(c) /\ j \in DOMAIN events'
        BY <1>4, <3>2, <3>3
      <4>2. c.images[j].bytes = events'[j].image.bytes
        BY <2>7, <4>1
      <4> QED BY <4>1, <4>2 DEF Bytes, Under
    <3>6. Total(Bytes(c), Since(c, i)) = Total(Under(events'), Since(c, i))
      BY <3>3, <3>5, TotalAgrees
    <3>7. Total(Under(events'), Since(c, i)) <= Total(Under(events'), From(events', i))
      BY <3>2, <3>3, <3>4, TotalGrows
    <3>8. Total(Under(events'), Since(c, i)) \in Nat /\ Capacity \in Nat
          /\ Total(Under(events'), From(events', i)) \in Nat
      <4>1. \A j \in Since(c, i) : Under(events')[j] \in Nat
        BY <3>2, <3>4
      <4> QED BY <3>3, <3>4, <4>1, TotalIsNumber, CapacityAssumption DEF Capacity
    <3> QED BY <3>1, <3>6, <3>7, <3>8
  <2>11. ChainHolds'
    <3> SUFFICES ASSUME NEW i \in 1 .. n, Refers(events'[i])
                 PROVE  i \in Stored(win') \/ Total(Under(events'), From(events', i)) > Capacity
      BY <1>4 DEF ChainHolds
    <3>1. CASE i \in Stored(c)
      BY <2>10, <3>1
    <3>2. CASE i \notin Stored(c)
      <4>1. i # n /\ i \notin Stored(win)
        BY <2>3, <3>2
      <4>2. i \in 1 .. Len(events)
        BY <1>5, <4>1
      <4> QED BY <1>10, <4>1, <4>2
    <3> QED BY <3>1, <3>2
  <2> QED BY <1>7, <1>8, <2>9, <2>11 DEF ImagesInv
<1> QED BY <1>11, <1>12 DEF Answer

-----------------------------------------------------------------------------
\* The invariant is inductive: every image drawn is answered.
THEOREM ImagesInvariance == Spec => []ImagesInv
<1>1. ImagesInv /\ [Next]_vars => ImagesInv'
  <2> SUFFICES ASSUME ImagesInv, [Next]_vars PROVE ImagesInv'
    OBVIOUS
  <2>1. CASE ServerDraws
    BY <2>1, DrawKeeps
  <2>2. CASE DecodeDrawCopy
    <3>1. msg = NoImage \/ msg \in SentImages
      BY DEF ImagesInv, MessagesTyped
    <3>2. msg \in SentImages /\ \E e : Answer(e)
      BY <2>2, <3>1, EveryImageIsAnswered
    <3> QED BY <3>2, AnswerKeeps
  <2>3. CASE UNCHANGED vars
    BY <2>3 DEF vars, ImagesInv, MessagesTyped, DictionaryFollows, RegionsAreTopDown, ChainHolds
  <2> QED BY <2>1, <2>2, <2>3 DEF Next
<1> QED BY ImagesInitEstablish, <1>1, PTL DEF Spec

\* Whatever its type and orientation, an image is handed on top-down.
THEOREM RegionsGoTopDown == Spec => []RegionsAreTopDown
<1>1. ImagesInv => RegionsAreTopDown
  BY DEF ImagesInv
<1> QED BY ImagesInvariance, <1>1, PTL

(***************************************************************************)
(* The chain of GLZ images: what was shown, and what stands in for an      *)
(* image that was not, can be referred to until the budget is used up, for *)
(* any number of images of any sizes, types and faults.                    *)
(***************************************************************************)
THEOREM ChainStaysAlive == Spec => []GlzChainAlive
<1>1. ImagesInv => GlzChainAlive
  <2> SUFFICES ASSUME ImagesInv, NEW i \in DOMAIN events, Refers(events[i])
               PROVE  Available(i)
    BY DEF GlzChainAlive, Refers
  <2>1. /\ DOMAIN events = 1 .. Len(events) /\ i \in 1 .. Len(events)
        /\ events[i].image.id = i
    BY DEF ImagesInv, MessagesTyped
  <2>2. i \in Stored(win) \/ Total(Under(events), From(events, i)) > Capacity
    BY <2>1 DEF ImagesInv, ChainHolds
  <2>3. UsedUpSince(i) <=> Total(Under(events), From(events, i)) > Capacity
    <3>1. From(events, i) \subseteq DOMAIN events /\ IsFiniteSet(From(events, i))
      <4>1. From(events, i) \in SUBSET (1 .. Len(events)) /\ IsFiniteSet(1 .. Len(events))
        <5>1. Len(events) \in Int
          BY ImagesAssumption DEF ImagesInv, MessagesTyped
        <5> QED BY <2>1, <5>1, FS_Interval DEF From
      <4> QED BY <2>1, <4>1, FS_Subset
    <3>2. MapThenSumSet(LAMBDA j : events[j].image.bytes, From(events, i))
            = Total(Under(events), From(events, i))
      BY <3>1, UsedUpIsTotal
    <3> QED BY <3>2 DEF UsedUpSince, From
  <2> QED BY <2>1, <2>2, <2>3 DEF Available, Stored
<1> QED BY ImagesInvariance, <1>1, PTL

\* Types, for any number of images.
THEOREM ImagesTypeCorrect == Spec => []TypeOK
<1>1. ImagesInv => TypeOK
  <2> SUFFICES ASSUME ImagesInv PROVE TypeOK
    OBVIOUS
  <2>1. /\ nextId \in 1 .. MaxImages + 1 /\ (msg = NoImage \/ msg.id \in 1 .. MaxImages)
        /\ Len(events) = nextId - 1 - (IF msg = NoImage THEN 0 ELSE 1)
    BY DEF ImagesInv, MessagesTyped
  <2>2. DOMAIN win.images \subseteq 1 .. nextId - 1
    <3>1. DOMAIN win.images \subseteq 1 .. Len(events)
      BY DEF ImagesInv, DictionaryFollows, Stored
    <3> QED BY <2>1, <3>1, ImagesAssumption
  <2>3. win.used \in Nat
    <3>1. IsFiniteSet(Stored(win)) /\ \A x \in Stored(win) : Bytes(win)[x] \in Nat
      BY DEF ImagesInv, DictionaryFollows, Accounted, Bytes
    <3>2. win.used = Total(Bytes(win), Stored(win))
      BY DEF ImagesInv, DictionaryFollows, Accounted
    <3> QED BY <3>1, <3>2, TotalIsNumber
  <2> QED BY <2>1, <2>2, <2>3 DEF TypeOK
<1> QED BY ImagesInvariance, <1>1, PTL

-----------------------------------------------------------------------------
(***************************************************************************)
(* The LZ decoder.                                                         *)
(***************************************************************************)

-----------------------------------------------------------------------------
\* A length continued in v's bytes adds up to v again.
LEMMA ContinuedAddsUp ==
    ASSUME NEW v \in Nat
    PROVE  LET c == Continued(v) IN
           /\ c \in Seq(0 .. Byte - 1) /\ Len(c) >= 1
           /\ \A i \in 1 .. Len(c) - 1 : c[i] = Byte - 1
           /\ c[Len(c)] \in 0 .. Byte - 2
           /\ (Len(c) - 1) * (Byte - 1) + c[Len(c)] = v
  <1> DEFINE q == v \div (Byte - 1)
             r == v % (Byte - 1)
             f == [i \in 1 .. q |-> Byte - 1]
  <1>1. /\ Byte - 1 \in Nat \ {0} /\ Byte \in Nat
        /\ q \in Nat /\ r \in 0 .. Byte - 2 /\ v = q * (Byte - 1) + r
    <2>1. Byte - 1 \in Nat \ {0} /\ Byte \in Nat
      BY ByteAssumption
    <2>2. /\ v \div (Byte - 1) \in Nat /\ v % (Byte - 1) \in 0 .. (Byte - 1) - 1
          /\ v = (v \div (Byte - 1)) * (Byte - 1) + (v % (Byte - 1))
      BY <2>1, Parts
    <2> QED BY <2>1, <2>2
  <1> HIDE DEF q, r
  <1>2. f \in Seq(0 .. Byte - 1) /\ Len(f) = q
    BY <1>1
  <1> DEFINE c == f \o <<r>>
  <1>3. c \in Seq(0 .. Byte - 1) /\ Len(c) = q + 1 /\ c[q + 1] = r
    BY <1>1, <1>2
  <1>4. \A i \in 1 .. q : c[i] = Byte - 1
    BY <1>1, <1>2
  <1> HIDE DEF c
  <1>5. /\ c \in Seq(0 .. Byte - 1) /\ Len(c) >= 1
        /\ \A i \in 1 .. Len(c) - 1 : c[i] = Byte - 1
        /\ c[Len(c)] \in 0 .. Byte - 2
        /\ (Len(c) - 1) * (Byte - 1) + c[Len(c)] = v
    BY <1>1, <1>3, <1>4
  <1>6. Continued(v) = c
    BY DEF Continued, c, q, r
  <1> QED BY <1>5, <1>6

\* Where a continuation ends: at the first byte that is not full.
LEMMA ContinuedEndsAt ==
    ASSUME NEW s \in Seq(Nat), NEW end \in 2 .. Len(s), s[end] # Byte - 1,
           \A i \in 2 .. end - 1 : s[i] = Byte - 1
    PROVE  ContinuedEnd(s, 2) = end
  <1> DEFINE I == {i \in 2 .. Len(s) : s[i] # Byte - 1}
  <1>1. end \in I /\ \A i \in I : end <= i
    OBVIOUS
  <1>2. Min(I) = end
    <2>1. \A i \in I : i \in Int
      OBVIOUS
    <2> QED BY <1>1, <2>1 DEF Min
  <1>3. ContinuedEnd(s, 2) = IF I # {} THEN Min(I) ELSE 0
    BY DEF ContinuedEnd, SelectInSubSeq
  <1> QED BY <1>1, <1>2, <1>3

\* It has no end in an input that ends with a full byte.
LEMMA ContinuedHasNoEnd ==
    ASSUME NEW s \in Seq(Nat), \A i \in 2 .. Len(s) : s[i] = Byte - 1
    PROVE  ContinuedEnd(s, 2) = 0
  BY DEF ContinuedEnd, SelectInSubSeq

\* The copy loop, pixel by pixel, repeats the last pixels.
LEMMA CopyRepeats ==
    ASSUME NEW P, NEW s \in Seq(P), NEW dist \in 1 .. Len(s), NEW len \in Nat
    PROVE  CopyBack(s, dist, len) = Repeated(s, dist, len)
  <1> DEFINE n == Len(s)
             more == [i \in 1 .. len |-> s[n - dist + 1 + ((i - 1) % dist)]]
             r == s \o more
             Step(g) == [i \in 1 .. n + len |-> IF i <= n THEN s[i] ELSE g[i - dist]]
  <1>1. n \in Nat /\ dist \in Nat \ {0} /\ dist <= n
    OBVIOUS
  <1>2. \A i \in 1 .. len : (i - 1) % dist \in 0 .. dist - 1
    BY <1>1
  <1>3. more \in Seq(P) /\ Len(more) = len
    BY <1>1, <1>2
  <1>4. /\ r \in Seq(P) /\ Len(r) = n + len /\ DOMAIN r = 1 .. n + len
        /\ \A i \in 1 .. n : r[i] = s[i]
        /\ \A i \in n + 1 .. n + len : r[i] = more[i - n]
    BY <1>3
  <1>5. \A i \in n + 1 .. n + len : r[i] = s[n - dist + 1 + ((i - n - 1) % dist)]
    BY <1>1, <1>4
  <1> HIDE DEF more, r
  <1>6. \A i \in n + 1 .. n + len : r[i] = r[i - dist]
    <2> SUFFICES ASSUME NEW i \in n + 1 .. n + len PROVE r[i] = r[i - dist]
      OBVIOUS
    <2>1. CASE i - dist <= n
      <3>1. i - n - 1 = dist * 0 + (i - n - 1) /\ i - n - 1 \in 0 .. dist - 1
        BY <1>1, <2>1
      <3>2. (i - n - 1) % dist = i - n - 1
        <4> HIDE DEF Step
        <4> DEFINE a == i - n - 1
        <4>1. a \in Int /\ a = dist * 0 + a /\ a \in 0 .. dist - 1 /\ 0 \in Int
          BY <1>1, <3>1
        <4> HIDE DEF a
        <4>2. a % dist = a
          BY <1>1, <4>1, Remainder
        <4> QED BY <4>2 DEF a
      <3>3. r[i] = s[i - dist]
        BY <1>1, <1>5, <3>2
      <3> QED BY <1>1, <1>4, <2>1, <3>3
    <2>2. CASE i - dist > n
      <3> DEFINE a == i - dist - n - 1
                 q == a \div dist
                 m == a % dist
      <3>1. a \in Nat /\ i - dist \in n + 1 .. n + len
        BY <1>1, <2>2
      <3> HIDE DEF a
      <3>2. q \in Nat /\ m \in 0 .. dist - 1 /\ a = q * dist + m
        BY <1>1, <3>1
      <3> HIDE DEF q, m
      <3>3. q + 1 \in Int /\ a + dist = dist * (q + 1) + m /\ a + dist \in Int
        BY <1>1, <3>1, <3>2
      <3>4. (a + dist) % dist = m
        BY <1>1, <3>2, <3>3, Remainder
      <3>5. i - n - 1 = a + dist /\ i - dist - n - 1 = a
        BY <1>1 DEF a
      <3>6. r[i] = s[n - dist + 1 + m]
        BY <1>5, <3>4, <3>5
      <3>7. r[i - dist] = s[n - dist + 1 + m]
        BY <1>5, <3>1, <3>5 DEF m
      <3> QED BY <3>6, <3>7
    <2> QED BY <1>1, <2>1, <2>2
  <1>7. r = Step(r)
    <2>1. DOMAIN Step(r) = 1 .. n + len
      OBVIOUS
    <2>2. \A i \in 1 .. n + len : r[i] = Step(r)[i]
      BY <1>1, <1>4, <1>6
    <2>3. r = [i \in 1 .. n + len |-> r[i]]
      BY <1>4
    <2> QED BY <2>2, <2>3
  <1>8. ASSUME NEW g, g = Step(g) PROVE g = r
    <2> DEFINE Wrong == {i \in 1 .. n + len : g[i] # r[i]}
    <2>1. Wrong = {}
      <3> SUFFICES ASSUME Wrong # {} PROVE FALSE
        OBVIOUS
      <3>1. Wrong \in SUBSET Nat
        BY <1>1
      <3>2. PICK i \in Wrong : \A j \in Wrong : i <= j
        BY <3>1, LeastNumber
      <3>3. i \in 1 .. n + len /\ g[i] # r[i]
        OBVIOUS
      <3>4. g[i] = IF i <= n THEN s[i] ELSE g[i - dist]
        BY <1>8, <3>3
      <3>5. CASE i <= n
        BY <1>1, <1>4, <3>3, <3>4, <3>5
      <3>6. CASE i > n
        <4>1. i - dist \in 1 .. n + len /\ i - dist < i
          BY <1>1, <3>3, <3>6
        <4>2. i - dist \notin Wrong
          BY <1>1, <3>2, <3>3, <4>1
        <4>3. g[i - dist] = r[i - dist]
          BY <4>1, <4>2
        <4> QED BY <1>1, <1>6, <3>3, <3>4, <3>6, <4>3
      <3> QED BY <1>1, <3>3, <3>5, <3>6
    <2>2. g = [i \in 1 .. n + len |-> g[i]]
      BY <1>8
    <2>3. r = [i \in 1 .. n + len |-> r[i]]
      BY <1>4
    <2> QED BY <2>1, <2>2, <2>3
  <1>9. CopyBack(s, dist, len) = (CHOOSE g : g = Step(g))
    BY DEF CopyBack
  <1>10. CopyBack(s, dist, len) = r
    BY <1>7, <1>8, <1>9
  <1>11. Repeated(s, dist, len) = r
    BY DEF Repeated, r, more
  <1> QED BY <1>10, <1>11

-----------------------------------------------------------------------------
\* What a match stands for is pixels.
LEMMA RepeatedIsSeq ==
    ASSUME NEW P, NEW s \in Seq(P), NEW dist \in 1 .. Len(s), NEW len \in Nat
    PROVE  /\ Repeated(s, dist, len) \in Seq(P)
           /\ Len(Repeated(s, dist, len)) = Len(s) + len
  <1> DEFINE more == [i \in 1 .. len |-> s[Len(s) - dist + 1 + ((i - 1) % dist)]]
  <1>1. \A i \in 1 .. len : (i - 1) % dist \in 0 .. dist - 1
    OBVIOUS
  <1>2. more \in Seq(P) /\ Len(more) = len
    BY <1>1
  <1> QED BY <1>2 DEF Repeated

\* A token in its parts.
LEMMA ThreeParts ==
    ASSUME NEW c \in Nat, NEW x \in Seq(Nat), NEW y \in Seq(Nat), NEW t, t = <<c>> \o x \o y
    PROVE  /\ t \in Seq(Nat) /\ Len(t) = 1 + Len(x) + Len(y) /\ t[1] = c
           /\ \A i \in 1 .. Len(x) : t[i + 1] = x[i]
           /\ \A i \in 1 .. Len(y) : t[1 + Len(x) + i] = y[i]
  OBVIOUS

\* A control byte in its parts.
LEMMA ControlByte ==
    ASSUME NEW f \in Nat, NEW h \in 0 .. High - 1, NEW c, c = (f + 1) * High + h
    PROVE  c \in Nat /\ c >= High /\ c \div High = f + 1 /\ c % High = h
  <1>1. High \in Nat \ {0}
    BY LzAssumption
  <1>2. c \in Int /\ c = High * (f + 1) + h /\ f + 1 \in Int
    BY <1>1
  <1>3. c \div High = f + 1 /\ c % High = h
    BY <1>1, <1>2, Quotient, Remainder
  <1>4. c = f * High + High + h /\ f * High \in Nat
    BY <1>1
  <1> QED BY <1>1, <1>3, <1>4

\* The length in a token: in its control byte, or continued behind it up to end.
LengthIn(t, end, f, len) ==
    IF f = LenCodes - 2
    THEN /\ end \in 2 .. Len(t) /\ t[end] # Byte - 1
         /\ \A i \in 2 .. end - 1 : t[i] = Byte - 1
         /\ len = f + Bias + ContinuedSum(t, 2, end)
    ELSE end = 1 /\ len = f + Bias

\* The distance in it, near or far.
DistanceIn(t, end, h, dist) ==
    LET low == t[end + 1] IN
    IF Far(h, low)
    THEN Len(t) = end + 3 /\ dist = 1 + t[end + 2] * Byte + t[end + 3] + MaxDistance
    ELSE Len(t) = end + 1 /\ dist = 1 + h * Byte + low

LzLayout(t, end, f, h, len, dist) ==
    /\ t \in Seq(Nat) /\ t # <<>>
    /\ t[1] >= High /\ t[1] \div High = f + 1 /\ t[1] % High = h
    /\ LengthIn(t, end, f, len) /\ DistanceIn(t, end, h, dist)

\* The encoder's match reads as the length and the distance it was written for.
LEMMA MatchLayout ==
    ASSUME NEW len \in Nat, len >= Bias, NEW dist \in Nat \ {0}
    PROVE  \E end \in Nat \ {0}, f \in 0 .. LenCodes - 2, h \in 0 .. High - 1 :
             LzLayout(Match(len, dist), end, f, h, len, dist)
  <1> DEFINE m == len - Bias
             far == dist - 1 - MaxDistance
             escaped == m >= LenCodes - 2
             f == IF escaped THEN LenCodes - 2 ELSE m
             h == IF far >= 0 THEN High - 1 ELSE (dist - 1) \div Byte
             c == (f + 1) * High + h
             x == IF escaped THEN Continued(m - (LenCodes - 2)) ELSE <<>>
             y == IF far >= 0 THEN <<Byte - 1, far \div Byte, far % Byte>>
                              ELSE <<(dist - 1) % Byte>>
             t == <<c>> \o x \o y
             end == 1 + Len(x)
  <1>1. /\ Bias \in Nat /\ LenCodes \in Nat /\ LenCodes >= 3 /\ High \in Nat \ {0}
        /\ Byte \in Nat /\ Byte >= 2 /\ Byte \in Nat \ {0} /\ High * Byte \in Nat
        /\ MaxDistance = High * Byte - 1
    BY LzAssumption, ByteAssumption DEF Bias, MaxDistance
  <1>2. m \in Nat /\ far \in Int /\ dist - 1 \in Nat
    BY <1>1
  <1>3. f \in 0 .. LenCodes - 2 /\ f \in Nat /\ (escaped <=> f = LenCodes - 2)
    BY <1>1, <1>2
  <1>4. /\ (dist - 1) \div Byte \in Nat /\ (dist - 1) % Byte \in 0 .. Byte - 1
        /\ dist - 1 = ((dist - 1) \div Byte) * Byte + ((dist - 1) % Byte)
    BY <1>1, <1>2, Parts
  <1>5. far >= 0 => /\ far \div Byte \in Nat /\ far % Byte \in 0 .. Byte - 1
                    /\ far = (far \div Byte) * Byte + (far % Byte)
    <2> HIDE DEF far
    <2> SUFFICES ASSUME far >= 0
                 PROVE  /\ far \div Byte \in Nat /\ far % Byte \in 0 .. Byte - 1
                        /\ far = (far \div Byte) * Byte + (far % Byte)
      OBVIOUS
    <2>1. far \in Nat
      BY <1>2
    <2> QED BY <1>1, <2>1, Parts
  <1>6. far < 0 => (dist - 1) \div Byte <= High - 1
    <2> SUFFICES ASSUME far < 0, (dist - 1) \div Byte >= High PROVE FALSE
      BY <1>1, <1>4
    <2> DEFINE d == (dist - 1) \div Byte
    <2>1. d \in Nat /\ d >= High /\ dist - 1 >= d * Byte
      BY <1>1, <1>4
    <2> HIDE DEF d
    <2>2. d * Byte >= High * Byte
      BY <1>1, <2>1
    <2>3. dist - 1 >= High * Byte
      BY <1>1, <1>2, <2>1, <2>2
    <2> QED BY <1>1, <1>2, <2>3
  <1>7. h \in 0 .. High - 1
    BY <1>1, <1>4, <1>6
  <1>8. far < 0 => ~Far(h, (dist - 1) % Byte)
    <2> SUFFICES ASSUME far < 0, (dist - 1) % Byte = Byte - 1, h = High - 1 PROVE FALSE
      BY DEF Far
    <2>1. dist - 1 = (High - 1) * Byte + (Byte - 1)
      <3>1. (dist - 1) \div Byte = High - 1
        BY <1>2
      <3> QED BY <1>4, <3>1
    <2>2. dist - 1 = High * Byte - 1
      BY <1>1, <2>1
    <2> QED BY <1>1, <1>2, <2>2
  <1>9. x \in Seq(Nat)
    <2>1. escaped => Continued(m - (LenCodes - 2)) \in Seq(0 .. Byte - 1)
      BY <1>1, <1>2, ContinuedAddsUp
    <2>2. \A s \in Seq(0 .. Byte - 1) : s \in Seq(Nat)
      BY <1>1
    <2> QED BY <2>1, <2>2
  <1>10. y \in Seq(Nat) /\ Len(y) = IF far >= 0 THEN 3 ELSE 1
    BY <1>1, <1>4, <1>5
  <1>11. Match(len, dist) = t
    <2>1. (IF escaped THEN LenCodes - 1 ELSE m + 1) = f + 1
      BY <1>1, <1>2
    <2>2. Match(len, dist) = <<(IF escaped THEN LenCodes - 1 ELSE m + 1) * High + h>> \o x \o y
      BY DEF Match
    <2> HIDE DEF f, h, x, y
    <2> QED BY <2>1, <2>2
  <1>12. c \in Nat /\ c >= High /\ c \div High = f + 1 /\ c % High = h
    BY <1>3, <1>7, ControlByte
  <1>13. escaped =>
           /\ Len(x) >= 1 /\ x[Len(x)] # Byte - 1 /\ x[Len(x)] \in Nat
           /\ \A i \in 1 .. Len(x) - 1 : x[i] = Byte - 1
           /\ (Len(x) - 1) * (Byte - 1) + x[Len(x)] = m - (LenCodes - 2)
    <2> SUFFICES ASSUME escaped
                 PROVE  LET s == Continued(m - (LenCodes - 2)) IN
                        /\ Len(s) >= 1 /\ s[Len(s)] # Byte - 1 /\ s[Len(s)] \in Nat
                        /\ \A i \in 1 .. Len(s) - 1 : s[i] = Byte - 1
                        /\ (Len(s) - 1) * (Byte - 1) + s[Len(s)] = m - (LenCodes - 2)
      OBVIOUS
    <2>1. m - (LenCodes - 2) \in Nat
      BY <1>1, <1>2
    <2> QED BY <1>1, <2>1, ContinuedAddsUp
  <1>14. ~escaped => x = <<>> /\ Len(x) = 0
    OBVIOUS
  <1>15. /\ far >= 0 => y[1] = Byte - 1 /\ y[2] = far \div Byte /\ y[3] = far % Byte
         /\ far < 0 => y[1] = (dist - 1) % Byte
    BY <1>2
  <1>16. m = len - Bias /\ far = dist - 1 - MaxDistance
    OBVIOUS
  <1>17. h = IF far >= 0 THEN High - 1 ELSE (dist - 1) \div Byte
    OBVIOUS
  <1>18. f = IF escaped THEN LenCodes - 2 ELSE m
    OBVIOUS
  <1>18a. t = <<c>> \o x \o y
    OBVIOUS
  <1> HIDE DEF x, y, c, f, h, far, m, t
  <1>19. /\ t \in Seq(Nat) /\ Len(t) = 1 + Len(x) + Len(y) /\ t[1] = c
         /\ \A i \in 1 .. Len(x) : t[i + 1] = x[i]
         /\ \A i \in 1 .. Len(y) : t[1 + Len(x) + i] = y[i]
    <2>1. c \in Nat /\ x \in Seq(Nat) /\ y \in Seq(Nat)
      BY <1>9, <1>10, <1>12
    <2> QED BY ONLY <2>1, <1>18a, ThreeParts
  <1>20. Len(x) \in Nat
    BY <1>9
  <1>21. LengthIn(t, end, f, len)
    <2>1. CASE escaped
      <3>1. end \in 2 .. Len(t) /\ t[end] = x[Len(x)]
        <4>1. Len(x) \in 1 .. Len(x) /\ Len(x) + 1 = end
          BY <1>13, <1>20, <2>1
        <4>2. t[Len(x) + 1] = x[Len(x)]
          BY <1>19, <4>1
        <4>3. Len(y) \in Nat
          BY <1>10
        <4> QED BY <1>19, <1>20, <4>1, <4>2, <4>3
      <3>2. \A i \in 2 .. end - 1 : t[i] = Byte - 1
        <4> SUFFICES ASSUME NEW i \in 2 .. end - 1 PROVE t[i] = Byte - 1
          OBVIOUS
        <4>1. i - 1 \in 1 .. Len(x) - 1 /\ (i - 1) + 1 = i
          BY <1>20
        <4>2. t[(i - 1) + 1] = x[i - 1] /\ x[i - 1] = Byte - 1
          BY <1>13, <1>19, <1>20, <2>1, <4>1
        <4> QED BY <4>1, <4>2
      <3>3. ContinuedSum(t, 2, end) = m - (LenCodes - 2)
        BY <1>13, <1>20, <2>1, <3>1 DEF ContinuedSum
      <3>4. len = f + Bias + ContinuedSum(t, 2, end)
        BY <1>1, <1>3, <1>16, <2>1, <3>3
      <3> QED BY <1>3, <1>13, <2>1, <3>1, <3>2, <3>4 DEF LengthIn
    <2>2. CASE ~escaped
      BY <1>1, <1>3, <1>14, <1>16, <1>18, <2>2 DEF LengthIn
    <2> QED BY <2>1, <2>2
  <1>22. DistanceIn(t, end, h, dist)
    <2>1. t[end + 1] = y[1]
      BY <1>10, <1>19, <1>20
    <2>2. CASE far >= 0
      <3>1. t[end + 2] = y[2] /\ t[end + 3] = y[3]
        BY <1>10, <1>19, <1>20, <2>2
      <3>2. Far(h, t[end + 1])
        BY <1>15, <1>17, <2>1, <2>2 DEF Far
      <3>3. Len(t) = end + 3
        BY <1>10, <1>19, <1>20, <2>2
      <3>4. dist = 1 + t[end + 2] * Byte + t[end + 3] + MaxDistance
        <4>1. t[end + 2] * Byte = (far \div Byte) * Byte /\ t[end + 3] = far % Byte
          BY <1>15, <2>2, <3>1
        <4>2. far \div Byte \in Nat /\ far % Byte \in Nat /\ far = (far \div Byte) * Byte + (far % Byte)
          BY <1>5, <2>2
        <4> DEFINE a == (far \div Byte) * Byte
                   b == far % Byte
        <4>3. a \in Nat /\ b \in Nat /\ far = a + b
          BY <1>1, <4>2
        <4> HIDE DEF a, b
        <4>4. dist = 1 + a + b + MaxDistance
          BY <1>1, <1>16, <4>3
        <4> QED BY <4>1, <4>4 DEF a, b
      <3> QED BY <3>2, <3>3, <3>4 DEF DistanceIn
    <2>3. CASE far < 0
      <3>1. ~Far(h, t[end + 1])
        BY <1>8, <1>15, <2>1, <2>3
      <3>2. Len(t) = end + 1
        BY <1>2, <1>10, <1>19, <1>20, <2>3
      <3>3. dist = 1 + h * Byte + t[end + 1]
        BY <1>1, <1>4, <1>2, <1>15, <1>17, <2>1, <2>3
      <3> QED BY <3>1, <3>2, <3>3 DEF DistanceIn
    <2> QED BY <1>2, <2>2, <2>3
  <1>23. LzLayout(t, end, f, h, len, dist)
    <2>1. t # <<>>
      BY <1>19, <1>20, <1>10
    <2> QED BY <1>12, <1>19, <1>21, <1>22, <2>1 DEF LzLayout
  <1>24. end \in Nat \ {0}
    BY <1>20
  <1> QED BY <1>3, <1>7, <1>11, <1>23, <1>24

-----------------------------------------------------------------------------
LzTyped ==
    /\ kind \in Kinds /\ stage \in Stages \cup {"done", "error"} /\ damaged \in BOOLEAN
    /\ image \in [Stages -> Seq(Nat)] /\ out \in [Stages -> Seq(Nat)]
    /\ \A s \in Stages : Len(out[s]) <= kind.n

\* The token, whole or cut off, is what the stream holds; if it is sound it stands
\* for the pixels that the encoder is ahead by.
UnderWay(token, fits, pixels) ==
    /\ \E k \in 0 .. Len(token) :
         /\ stream = SubSeq(token, 1, k)
         /\ damaged <=> (~fits \/ k < Len(token))
    /\ fits => image = [out EXCEPT ![stage] = pixels]

LiteralSent(count) ==
    UnderWay(<<count - 1>> \o Fresh(out[stage], count), op + count <= kind.n,
             out[stage] \o Fresh(out[stage], count))
MatchSent(len, dist) ==
    UnderWay(Match(len, dist), dist <= op /\ op + len <= kind.n,
             Repeated(out[stage], dist, len))

LzSent ==
    /\ op < kind.n
    /\ \/ \E count \in 1 .. High : LiteralSent(count)
       \/ \E len \in Bias .. kind.n + 1, dist \in 1 .. kind.n : MatchSent(len, dist)

LzInv ==
    /\ LzTyped
    /\ stage = "alpha" => Len(out["bgr"]) = kind.n /\ (~damaged => out["bgr"] = image["bgr"])
    /\ stage \in Stages => (stream = <<>> /\ ~damaged /\ out = image) \/ LzSent
    /\ stage = "done" => ~damaged /\ out = image /\ Len(out["bgr"]) = kind.n
    /\ stage = "error" => damaged

\* A turn of the decoder's loop: a damaged stream is refused, a sound one read.
LzDecoded ==
    IF damaged THEN Fails
    ELSE out' = image /\ stream' = <<>> /\ LzTyped' /\ UNCHANGED <<kind, stage, image, damaged>>

\* The bounds of the fields, and the place the decoder is at, are numbers.
LEMMA Numbers ==
    ASSUME LzTyped
    PROVE  /\ kind.n \in Nat \ {0} /\ Bias \in {1, 3} /\ High \in Nat \ {0} /\ Byte \in Nat
           /\ Byte >= 2 /\ LenCodes \in Nat /\ LenCodes >= 3
           /\ stage \in Stages => out[stage] \in Seq(Nat) /\ op \in 0 .. kind.n
  BY LzAssumption, ByteAssumption DEF LzTyped, Bias, op

\* A sequence and its beginning.
LEMMA Beginning ==
    ASSUME NEW t \in Seq(Nat), NEW k \in 0 .. Len(t), NEW s, s = SubSeq(t, 1, k)
    PROVE  /\ s \in Seq(Nat) /\ Len(s) = k /\ \A i \in 1 .. k : s[i] = t[i]
           /\ k = Len(t) => s = t
           /\ s = <<>> <=> k = 0
           /\ k > 0 => Head(s) = t[1]
  <1>1. s \in Seq(Nat) /\ Len(s) = k /\ \A i \in 1 .. k : s[i] = t[i]
    OBVIOUS
  <1>2. k = Len(t) => s = t
    BY <1>1
  <1> QED BY <1>1, <1>2

\* A literal run, read or refused.
LEMMA LiteralIsRead ==
    ASSUME LzTyped, stage \in Stages, NEW count \in 1 .. High, LiteralSent(count),
           LiteralRun
    PROVE  LzDecoded
  <1> DEFINE new == Fresh(out[stage], count)
             t == <<count - 1>> \o new
             fits == op + count <= kind.n
             pixels == out[stage] \o new
  <1>1. /\ kind.n \in Nat \ {0} /\ High \in Nat /\ out[stage] \in Seq(Nat) /\ op \in 0 .. kind.n
        /\ op = Len(out[stage])
    BY Numbers DEF op
  <1>2. new \in Seq(Nat) /\ Len(new) = count
    BY <1>1 DEF Fresh
  <1>3. t \in Seq(Nat) /\ Len(t) = 1 + count /\ t[1] = count - 1 /\ Tail(t) = new
    BY <1>2
  <1>4. pixels \in Seq(Nat) /\ Len(pixels) = op + count
    <2> HIDE DEF new
    <2>1. out[stage] \in Seq(Nat) /\ new \in Seq(Nat)
      BY <1>1, <1>2
    <2>2. pixels \in Seq(Nat) /\ Len(pixels) = Len(out[stage]) + Len(new)
      BY <2>1, ConcatProperties
    <2> QED BY <1>1, <1>2, <2>2
  <1>5. UnderWay(t, fits, pixels)
    BY DEF LiteralSent
  <1> HIDE DEF new, t, pixels
  <1>6. PICK k \in 0 .. Len(t) :
          /\ stream = SubSeq(t, 1, k) /\ (damaged <=> (~fits \/ k < Len(t)))
    BY <1>5 DEF UnderWay
  <1>7. fits => image = [out EXCEPT ![stage] = pixels]
    BY <1>5 DEF UnderWay
  <1>8. stream # <<>>
    BY DEF LiteralRun
  <1>9. Len(stream) = k /\ k > 0 /\ Head(stream) = count - 1 /\ (k = Len(t) => stream = t)
    BY <1>3, <1>6, <1>8, Beginning
  <1>10. Head(stream) + 1 = count
    BY <1>9
  <1>11. IF op + count > kind.n \/ Len(stream) < 1 + count
          THEN Fails ELSE Writes(out[stage] \o Tail(stream))
    BY <1>10 DEF LiteralRun
  <1>12. damaged <=> op + count > kind.n \/ Len(stream) < 1 + count
    BY <1>1, <1>3, <1>6, <1>9
  <1>13. CASE damaged
    BY <1>11, <1>12, <1>13 DEF LzDecoded
  <1>14. CASE ~damaged
    <2>1. fits /\ k = Len(t)
      BY <1>6, <1>14
    <2>2. out[stage] \o Tail(stream) = pixels
      BY <1>3, <1>9, <2>1 DEF pixels
    <2>3. Writes(pixels)
      BY <1>11, <1>12, <1>14, <2>2
    <2>4. out' = image /\ stream' = <<>> /\ UNCHANGED <<kind, stage, image, damaged>>
      BY <1>7, <2>1, <2>3 DEF Writes
    <2>5. \A s \in Stages : Len(image[s]) <= kind.n
      BY <1>4, <1>7, <2>1 DEF LzTyped
    <2>6. LzTyped'
      BY <2>4, <2>5 DEF LzTyped
    <2> QED BY <1>14, <2>4, <2>6 DEF LzDecoded
  <1> QED BY <1>13, <1>14

\* What the decoder finds of a match of which k places have come.
MatchFound(s, t, k, end, f, h) ==
    LET stop == IF f = LenCodes - 2 THEN ContinuedEnd(s, 2) ELSE 1 IN
    /\ Head(s) \div High - 1 = f /\ Head(s) % High = h /\ Head(s) >= High
    /\ s # <<>> /\ Len(s) = k
    /\ k < end + 1 <=> (stop = 0 \/ Len(s) < stop + 1)
    /\ k >= end + 1 => stop = end /\ s[end + 1] = t[end + 1]
    /\ k = Len(t) => s = t

\* It finds so.
LEMMA MatchIsFound ==
    ASSUME LzTyped,
           NEW t, NEW end \in Nat \ {0}, NEW f \in 0 .. LenCodes - 2, NEW h \in 0 .. High - 1,
           NEW len \in Nat, NEW dist \in Nat \ {0}, LzLayout(t, end, f, h, len, dist),
           NEW k \in 1 .. Len(t), NEW s, s = SubSeq(t, 1, k)
    PROVE  MatchFound(s, t, k, end, f, h)
  <1> DEFINE stop == IF f = LenCodes - 2 THEN ContinuedEnd(s, 2) ELSE 1
  <1>1. t \in Seq(Nat) /\ LenCodes \in Nat
    BY Numbers DEF LzLayout
  <1>2. /\ s \in Seq(Nat) /\ Len(s) = k /\ \A i \in 1 .. k : s[i] = t[i]
        /\ k = Len(t) => s = t
        /\ s # <<>> /\ Head(s) = t[1]
    <2>1. k \in 0 .. Len(t) /\ k > 0 /\ k # 0
      BY <1>1
    <2>2. /\ s \in Seq(Nat) /\ Len(s) = k /\ \A i \in 1 .. k : s[i] = t[i]
          /\ k = Len(t) => s = t
          /\ s = <<>> <=> k = 0
          /\ k > 0 => Head(s) = t[1]
      BY ONLY <1>1, <2>1, s = SubSeq(t, 1, k), Beginning
    <2> QED BY <2>1, <2>2
  <1>3. Head(s) \div High - 1 = f /\ Head(s) % High = h /\ Head(s) >= High
    BY <1>2 DEF LzLayout
  <1>4. CASE f # LenCodes - 2
    <2>1. end = 1 /\ stop = 1
      BY <1>4 DEF LzLayout, LengthIn
    <2> QED BY <1>2, <1>3, <1>4, <2>1 DEF MatchFound
  <1>5. CASE f = LenCodes - 2
    <2>1. end \in 2 .. Len(t) /\ t[end] # Byte - 1 /\ \A i \in 2 .. end - 1 : t[i] = Byte - 1
      BY <1>5 DEF LzLayout, LengthIn
    <2>2. CASE k < end
      <3>1. \A i \in 2 .. Len(s) : s[i] = Byte - 1
        BY <1>2, <2>1, <2>2
      <3>2. stop = 0
        BY <1>2, <1>5, <3>1, ContinuedHasNoEnd
      <3> QED BY <1>2, <1>3, <1>5, <2>1, <2>2, <3>2 DEF MatchFound
    <2>3. CASE k >= end
      <3>1. end \in 2 .. Len(s) /\ s[end] # Byte - 1 /\ \A i \in 2 .. end - 1 : s[i] = Byte - 1
        BY <1>2, <2>1, <2>3
      <3>2. stop = end
        BY <1>2, <1>5, <3>1, ContinuedEndsAt
      <3> QED BY <1>2, <1>3, <1>5, <2>1, <2>3, <3>2 DEF MatchFound
    <2> QED BY <2>1, <2>2, <2>3
  <1> QED BY <1>4, <1>5

\* A match, read or refused.
LEMMA MatchIsRead ==
    ASSUME LzTyped, stage \in Stages,
           NEW len \in Bias .. kind.n + 1, NEW dist \in 1 .. kind.n, MatchSent(len, dist),
           BackReference
    PROVE  LzDecoded
  <1> DEFINE t == Match(len, dist)
             fits == dist <= op /\ op + len <= kind.n
             pixels == Repeated(out[stage], dist, len)
  <1>1. /\ kind.n \in Nat \ {0} /\ High \in Nat /\ out[stage] \in Seq(Nat) /\ op \in 0 .. kind.n
        /\ op = Len(out[stage]) /\ Bias \in Nat /\ LenCodes \in Nat /\ Byte \in Nat
        /\ len \in Nat /\ len >= Bias /\ dist \in Nat \ {0} /\ MaxDistance \in Int
    BY Numbers DEF op, MaxDistance
  <1>2. PICK end \in Nat \ {0}, f \in 0 .. LenCodes - 2, h \in 0 .. High - 1 :
          LzLayout(t, end, f, h, len, dist)
    BY <1>1, MatchLayout
  <1>3. UnderWay(t, fits, pixels)
    BY DEF MatchSent
  <1>4. fits => /\ CopyBack(out[stage], dist, len) = pixels /\ pixels \in Seq(Nat)
                /\ Len(pixels) = op + len
    <2> SUFFICES ASSUME fits
                 PROVE  CopyBack(out[stage], dist, len) = pixels /\ pixels \in Seq(Nat)
                        /\ Len(pixels) = op + len
      OBVIOUS
    <2>1. dist \in 1 .. Len(out[stage])
      BY <1>1
    <2> QED BY <1>1, <2>1, CopyRepeats, RepeatedIsSeq
  <1> HIDE DEF t, pixels
  <1>5. PICK k \in 0 .. Len(t) :
          /\ stream = SubSeq(t, 1, k) /\ (damaged <=> (~fits \/ k < Len(t)))
    BY <1>3 DEF UnderWay
  <1>6. fits => image = [out EXCEPT ![stage] = pixels]
    BY <1>3 DEF UnderWay
  <1>7. stream # <<>>
    BY DEF BackReference
  <1>8. t \in Seq(Nat)
    BY <1>2 DEF LzLayout
  <1>9. k \in 1 .. Len(t)
    BY <1>5, <1>7, <1>8, Beginning
  <1> DEFINE long == f = LenCodes - 2
             stop == IF long THEN ContinuedEnd(stream, 2) ELSE 1
             low == stream[end + 1]
             far == Far(h, low)
             length == f + Bias + (IF long THEN ContinuedSum(stream, 2, end) ELSE 0)
             ofs == 1 + (IF far THEN stream[end + 2] * Byte + stream[end + 3] + MaxDistance
                                ELSE h * Byte + low)
  <1>10. /\ Head(stream) \div High - 1 = f /\ Head(stream) % High = h
         /\ Len(stream) = k
         /\ k < end + 1 <=> (stop = 0 \/ Len(stream) < stop + 1)
         /\ k >= end + 1 => stop = end /\ stream[end + 1] = t[end + 1]
         /\ k = Len(t) => stream = t
    <2>1. MatchFound(stream, t, k, end, f, h)
      BY <1>1, <1>2, <1>5, <1>9, MatchIsFound
    <2> QED BY <2>1 DEF MatchFound
  <1>11. k < end + 1 => Fails
    BY <1>10 DEF BackReference
  <1>12. k >= end + 1 =>
           IF far /\ Len(stream) < end + 3 THEN Fails
           ELSE IF ~Fits(length, ofs) THEN Fails
           ELSE Writes(CopyBack(out[stage], ofs, length))
    BY <1>10 DEF BackReference
  <1>13. DistanceIn(t, end, h, dist) /\ LengthIn(t, end, f, len)
    BY <1>2 DEF LzLayout
  <1>14. Len(t) >= end + 1 /\ Len(t) \in Nat
    BY <1>8, <1>13 DEF DistanceIn
  <1>15. k < Len(t) => Fails
    <2> SUFFICES ASSUME k < Len(t), k >= end + 1 PROVE Fails
      BY <1>9, <1>11, <1>14
    <2>1. low = t[end + 1]
      BY <1>10
    <2>2. far /\ Len(t) = end + 3
      BY <1>9, <1>13, <1>14, <2>1 DEF DistanceIn
    <2> QED BY <1>10, <1>12, <2>2
  <1>16. k = Len(t) => IF ~Fits(len, dist) THEN Fails ELSE Writes(CopyBack(out[stage], dist, len))
    <2> SUFFICES ASSUME k = Len(t)
                 PROVE  IF ~Fits(len, dist) THEN Fails
                        ELSE Writes(CopyBack(out[stage], dist, len))
      OBVIOUS
    <2>1. stream = t /\ k >= end + 1
      BY <1>10, <1>14
    <2>2. length = len
      <3>1. CASE long
        BY <1>13, <2>1, <3>1 DEF LengthIn
      <3>2. CASE ~long
        BY <1>1, <1>13, <3>2 DEF LengthIn
      <3> QED BY <3>1, <3>2
    <2>3. /\ ofs = dist
          /\ ~(far /\ Len(stream) < end + 3)
      <3>1. low = t[end + 1]
        BY <2>1
      <3>2. CASE far
        <4>1. Len(t) = end + 3 /\ dist = 1 + t[end + 2] * Byte + t[end + 3] + MaxDistance
          BY <1>13, <3>1, <3>2 DEF DistanceIn
        <4>2. t[end + 2] \in Int /\ t[end + 3] \in Int /\ t[end + 2] * Byte \in Int
          <5> HIDE DEF far, ofs, length, stop, low, long
          <5>1. end + 2 \in 1 .. Len(t) /\ end + 3 \in 1 .. Len(t)
            BY <4>1
          <5>2. t[end + 2] \in Nat /\ t[end + 3] \in Nat
            BY <1>8, <5>1
          <5> QED BY <1>1, <5>2
        <4> DEFINE a == t[end + 2] * Byte
                   b == t[end + 3]
        <4>3. ofs = 1 + (a + b + MaxDistance) /\ dist = 1 + a + b + MaxDistance
          BY <2>1, <3>2, <4>1
        <4>4. a \in Int /\ b \in Int
          BY <4>2
        <4> HIDE DEF a, b, far, ofs
        <4> QED BY <1>1, <2>1, <4>1, <4>3, <4>4
      <3>3. CASE ~far
        <4>1. Len(t) = end + 1 /\ dist = 1 + h * Byte + t[end + 1]
          BY <1>13, <3>1, <3>3 DEF DistanceIn
        <4>2. t[end + 1] \in Int /\ h * Byte \in Int
          BY <1>1, <1>8, <4>1
        <4> DEFINE a == h * Byte
                   b == t[end + 1]
        <4>3. ofs = 1 + (a + b) /\ dist = 1 + a + b
          BY <2>1, <3>3, <4>1
        <4>4. a \in Int /\ b \in Int
          BY <4>2
        <4> HIDE DEF a, b, ofs
        <4> QED BY <3>3, <4>3, <4>4
      <3> QED BY <3>2, <3>3
    <2> HIDE DEF far, length, ofs
    <2> QED BY <1>12, <2>1, <2>2, <2>3
  <1>17. Fits(len, dist) <=> fits
    BY DEF Fits
  <1>18. CASE damaged
    BY <1>5, <1>9, <1>15, <1>16, <1>17, <1>18 DEF LzDecoded
  <1>19. CASE ~damaged
    <2>1. fits /\ k = Len(t)
      BY <1>5, <1>9, <1>14, <1>19
    <2>2. Writes(pixels)
      BY <1>4, <1>16, <1>17, <2>1
    <2>3. out' = image /\ stream' = <<>> /\ UNCHANGED <<kind, stage, image, damaged>>
      BY <1>6, <2>1, <2>2 DEF Writes
    <2>4. \A s \in Stages : Len(image[s]) <= kind.n
      BY <1>4, <1>6, <2>1 DEF LzTyped
    <2>5. LzTyped'
      BY <2>3, <2>4 DEF LzTyped
    <2> QED BY <1>19, <2>3, <2>5 DEF LzDecoded
  <1> QED BY <1>18, <1>19

\* A token under way leaves the stream something to show for it.
LEMMA UnderWayShows ==
    ASSUME NEW t \in Seq(Nat), t # <<>>, NEW fits, NEW pixels, UnderWay(t, fits, pixels)
    PROVE  stream # <<>> \/ damaged
  <1>1. PICK k \in 0 .. Len(t) : stream = SubSeq(t, 1, k) /\ (damaged <=> (~fits \/ k < Len(t)))
    BY DEF UnderWay
  <1>2. CASE k < Len(t)
    BY <1>1, <1>2
  <1>3. CASE k = Len(t)
    <2>1. stream = t
      BY <1>1, <1>3, Beginning
    <2> QED BY <2>1
  <1> QED BY <1>2, <1>3

\* The tokens.
LEMMA Tokens ==
    ASSUME LzTyped, stage \in Stages
    PROVE  /\ \A count \in 1 .. High :
                LET t == <<count - 1>> \o Fresh(out[stage], count) IN
                /\ t \in Seq(Nat) /\ t # <<>> /\ Head(t) = count - 1
                /\ Fresh(out[stage], count) \in Seq(Nat)
           /\ \A len \in Bias .. kind.n + 1, dist \in 1 .. kind.n :
                LET t == Match(len, dist) IN
                t \in Seq(Nat) /\ t # <<>> /\ Head(t) >= High
  <1>1. kind.n \in Nat /\ High \in Nat /\ out[stage] \in Seq(Nat) /\ Bias \in Nat
    BY Numbers
  <1>2. ASSUME NEW count \in 1 .. High
        PROVE  LET t == <<count - 1>> \o Fresh(out[stage], count) IN
               /\ t \in Seq(Nat) /\ t # <<>> /\ Head(t) = count - 1
               /\ Fresh(out[stage], count) \in Seq(Nat)
    <2> DEFINE new == Fresh(out[stage], count)
    <2>1. new \in Seq(Nat)
      BY <1>1 DEF Fresh
    <2> HIDE DEF new
    <2>2. /\ <<count - 1>> \o new \in Seq(Nat) /\ <<count - 1>> \o new # <<>>
          /\ Head(<<count - 1>> \o new) = count - 1
      BY <1>1, <2>1
    <2> QED BY <2>1, <2>2 DEF new
  <1>3. ASSUME NEW len \in Bias .. kind.n + 1, NEW dist \in 1 .. kind.n
        PROVE  LET t == Match(len, dist) IN t \in Seq(Nat) /\ t # <<>> /\ Head(t) >= High
    <2>1. len \in Nat /\ len >= Bias /\ dist \in Nat \ {0}
      BY <1>1
    <2>2. \E end \in Nat \ {0}, f \in 0 .. LenCodes - 2, h \in 0 .. High - 1 :
            LzLayout(Match(len, dist), end, f, h, len, dist)
      BY <2>1, MatchLayout
    <2>3. Match(len, dist) \in Seq(Nat) /\ Match(len, dist) # <<>> /\ Match(len, dist)[1] >= High
      BY <2>2 DEF LzLayout
    <2> HIDE DEF LzTyped
    <2> QED BY <2>3
  <1> QED BY <1>2, <1>3

\* While a token is under way the encoder waits, and the image is not complete.
LEMMA SentShows ==
    ASSUME LzTyped, stage \in Stages, LzSent
    PROVE  op < kind.n /\ (stream # <<>> \/ damaged)
  <1>1. CASE \E count \in 1 .. High : LiteralSent(count)
    <2>1. PICK count \in 1 .. High : LiteralSent(count)
      BY <1>1
    <2> DEFINE t == <<count - 1>> \o Fresh(out[stage], count)
    <2>2. t \in Seq(Nat) /\ t # <<>>
      BY Tokens
    <2> QED BY <2>1, <2>2, UnderWayShows DEF LiteralSent, LzSent
  <1>2. CASE \E len \in Bias .. kind.n + 1, dist \in 1 .. kind.n : MatchSent(len, dist)
    <2>1. PICK len \in Bias .. kind.n + 1, dist \in 1 .. kind.n : MatchSent(len, dist)
      BY <1>2
    <2>2. Match(len, dist) \in Seq(Nat) /\ Match(len, dist) # <<>>
      BY Tokens
    <2> QED BY <2>1, <2>2, UnderWayShows DEF MatchSent, LzSent
  <1> QED BY <1>1, <1>2 DEF LzSent

\* Each turn of the decoder reads the token or refuses it.
LEMMA TurnDecodes ==
    ASSUME LzInv, NoControlByte \/ LiteralRun \/ BackReference
    PROVE  stage \in Stages /\ LzDecoded
  <1>1. LzTyped /\ stage \in Stages /\ (stream # <<>> \/ damaged)
    BY DEF LzInv, NoControlByte, LiteralRun, BackReference, Turn
  <1>2. LzSent
    BY <1>1 DEF LzInv
  <1>3. CASE stream = <<>>
    <2>1. NoControlByte /\ damaged
      BY <1>1, <1>3 DEF LiteralRun, BackReference
    <2> QED BY <1>1, <2>1 DEF NoControlByte, LzDecoded
  <1>4. CASE stream # <<>> /\ \E count \in 1 .. High : LiteralSent(count)
    <2>1. PICK count \in 1 .. High : LiteralSent(count)
      BY <1>4
    <2> DEFINE t == <<count - 1>> \o Fresh(out[stage], count)
    <2>2. t \in Seq(Nat) /\ Head(t) = count - 1 /\ t # <<>>
      BY <1>1, Tokens
    <2> HIDE DEF t
    <2>3. PICK k \in 0 .. Len(t) : stream = SubSeq(t, 1, k)
      BY <2>1 DEF LiteralSent, UnderWay, t
    <2>4. Head(stream) = count - 1
      <3>1. k > 0
        BY <1>4, <2>2, <2>3, Beginning
      <3>2. Head(stream) = t[1]
        BY <2>2, <2>3, <3>1, Beginning
      <3> QED BY <2>2, <3>2
    <2>5. Head(stream) < High /\ High \in Nat
      BY <1>1, <2>4, Numbers
    <2>6. ~NoControlByte /\ ~BackReference
      BY <1>4, <2>4, <2>5 DEF NoControlByte, BackReference
    <2> QED BY <1>1, <2>1, <2>6, LiteralIsRead
  <1>5. CASE stream # <<>> /\ \E len \in Bias .. kind.n + 1, dist \in 1 .. kind.n : MatchSent(len, dist)
    <2>1. PICK len \in Bias .. kind.n + 1, dist \in 1 .. kind.n : MatchSent(len, dist)
      BY <1>5
    <2> DEFINE t == Match(len, dist)
    <2>2. t \in Seq(Nat) /\ Head(t) >= High /\ t # <<>>
      BY <1>1, Tokens
    <2> HIDE DEF t
    <2>3. PICK k \in 0 .. Len(t) : stream = SubSeq(t, 1, k)
      BY <2>1 DEF MatchSent, UnderWay, t
    <2>4. Head(stream) >= High
      <3>1. k > 0
        BY <1>5, <2>2, <2>3, Beginning
      <3>2. Head(stream) = t[1] /\ t[1] = Head(t)
        BY <2>2, <2>3, <3>1, Beginning
      <3> QED BY <2>2, <3>2
    <2>5. Head(stream) \in Nat /\ High \in Nat
      <3>1. stream \in Seq(Nat)
        BY <2>2, <2>3, Beginning
      <3>2. Head(stream) \in Nat
        BY <1>5, <3>1
      <3>3. High \in Nat
        BY <1>1, Numbers
      <3> QED BY <3>2, <3>3
    <2>6. ~NoControlByte /\ ~LiteralRun
      BY <1>5, <2>4, <2>5 DEF NoControlByte, LiteralRun
    <2> QED BY <1>1, <2>1, <2>6, MatchIsRead
  <1> QED BY <1>1, <1>2, <1>3, <1>4, <1>5 DEF LzSent

\* What a sender leaves behind.
Sends(t, fits, pixels) ==
    /\ \E k \in 0 .. Len(t) :
         /\ stream' = SubSeq(t, 1, k)
         /\ damaged' <=> (~fits \/ k < Len(t))
    /\ fits => image' = [out EXCEPT ![stage] = pixels]

\* After Emit the token is under way.
LEMMA EmitSends ==
    ASSUME LzInv, EncoderReady, NEW t \in Seq(Nat), NEW fits \in BOOLEAN, NEW pixels \in Seq(Nat),
           Emit(t, fits), fits => image' = [image EXCEPT ![stage] = pixels],
           image' \in [Stages -> Seq(Nat)], UNCHANGED <<kind, stage, out>>
    PROVE  Sends(t, fits, pixels) /\ LzTyped' /\ op' < kind.n' /\ op' = op
  <1>1. LzTyped /\ stage \in Stages /\ op < kind.n /\ stream = <<>> /\ ~damaged
    BY DEF LzInv, EncoderReady
  <1>2. out = image
    BY <1>1, SentShows DEF LzInv
  <1>3. damaged' \in BOOLEAN
    BY DEF Emit
  <1>4. Sends(t, fits, pixels)
    BY <1>2 DEF Emit, Sends
  <1> QED BY <1>1, <1>2, <1>3, <1>4 DEF LzTyped, op

\* The steps of the LZ encoder and decoder.
LEMMA SendLiteralKeeps == ASSUME LzInv, SendLiteral PROVE LzInv'
  <1>1. PICK count \in 1 .. High :
          /\ Emit(Literal(count), op + count <= kind.n)
          /\ image' = [image EXCEPT ![stage] = @ \o Fresh(@, count)]
    BY DEF SendLiteral
  <1>2. /\ EncoderReady /\ UNCHANGED <<kind, stage, out>> /\ LzTyped
        /\ stage \in Stages /\ stream = <<>> /\ ~damaged
    BY DEF SendLiteral, LzInv, EncoderReady
  <1>3. out = image
    BY <1>2, SentShows DEF LzInv
  <1> DEFINE new == Fresh(out[stage], count)
             t == <<count - 1>> \o new
             fits == op + count <= kind.n
             pixels == out[stage] \o new
  <1>4. t \in Seq(Nat) /\ new \in Seq(Nat)
    BY <1>2, Tokens
  <1>5. pixels \in Seq(Nat)
    <2> HIDE DEF new
    <2> QED BY <1>2, <1>4, ConcatProperties, Numbers
  <1>6. Literal(count) = t /\ image' = [image EXCEPT ![stage] = pixels]
    BY <1>1, <1>3 DEF Literal
  <1>7. image' \in [Stages -> Seq(Nat)]
    <2> HIDE DEF pixels
    <2> QED BY <1>2, <1>5, <1>6 DEF LzTyped
  <1>8. Sends(t, fits, pixels) /\ LzTyped' /\ op' < kind.n' /\ op' = op
    <2>1. Emit(t, fits) /\ fits \in BOOLEAN
      BY <1>1, <1>6
    <2> HIDE DEF t, fits, pixels
    <2> QED BY <1>2, <1>4, <1>5, <1>6, <1>7, <2>1, EmitSends
  <1>9. LiteralSent(count)'
    <2>1. UNCHANGED <<kind, stage, out>>
      BY <1>2
    <2> QED BY <1>8, <2>1 DEF LiteralSent, UnderWay, Sends, op
  <1>10. LzSent'
    BY <1>8, <1>9 DEF LzSent
  <1>11. stage = "alpha" => image'["bgr"] = image["bgr"] /\ out'["bgr"] = image["bgr"]
    BY <1>1, <1>2, <1>3 DEF LzTyped, Stages
  <1> QED BY <1>2, <1>8, <1>10, <1>11 DEF LzInv, Stages

\* A match is sent.
LEMMA SendMatchKeeps == ASSUME LzInv, SendMatch PROVE LzInv'
  <1>1. PICK len \in Bias .. kind.n + 1, dist \in 1 .. kind.n :
          LET fits == dist <= Len(image[stage]) /\ Len(image[stage]) + len <= kind.n IN
          /\ Emit(Match(len, dist), fits)
          /\ image' = IF fits THEN [image EXCEPT ![stage] = Repeated(@, dist, len)] ELSE image
    BY DEF SendMatch
  <1>2. /\ EncoderReady /\ UNCHANGED <<kind, stage, out>> /\ LzTyped
        /\ stage \in Stages /\ stream = <<>> /\ ~damaged
    BY DEF SendMatch, LzInv, EncoderReady
  <1>3. out = image
    BY <1>2, SentShows DEF LzInv
  <1> DEFINE t == Match(len, dist)
             fits == dist <= op /\ op + len <= kind.n
             pixels == IF fits THEN Repeated(out[stage], dist, len) ELSE <<>>
  <1>4. t \in Seq(Nat)
    BY <1>2, Tokens
  <1>5. pixels \in Seq(Nat)
    <2>1. /\ out[stage] \in Seq(Nat) /\ Bias \in Nat /\ kind.n \in Nat /\ op = Len(out[stage])
          /\ op \in Nat
      BY <1>2, Numbers DEF op
    <2>2. fits => dist \in 1 .. Len(out[stage])
      BY <2>1
    <2>3. len \in Nat
      BY <2>1
    <2> QED BY <2>1, <2>2, <2>3, RepeatedIsSeq
  <1>6. Emit(t, fits) /\ fits \in BOOLEAN
    BY <1>1, <1>3 DEF op
  <1>7. image' = IF fits THEN [image EXCEPT ![stage] = Repeated(@, dist, len)] ELSE image
    BY <1>1, <1>3 DEF op
  <1>8. fits => image' = [image EXCEPT ![stage] = pixels]
    BY <1>3, <1>7
  <1>9. image' \in [Stages -> Seq(Nat)]
    <2>1. fits => pixels = Repeated(image[stage], dist, len)
      BY <1>3
    <2> HIDE DEF pixels, fits
    <2> QED BY <1>2, <1>5, <1>7, <1>8, <2>1 DEF LzTyped
  <1>10. Sends(t, fits, pixels) /\ LzTyped' /\ op' < kind.n' /\ op' = op
    <2> HIDE DEF t, fits, pixels
    <2> QED BY <1>2, <1>4, <1>5, <1>6, <1>8, <1>9, EmitSends
  <1>11. MatchSent(len, dist)'
    <2>1. UNCHANGED <<kind, stage, out>> /\ Bias' = Bias
      BY <1>2 DEF Bias
    <2>2. Match(len, dist)' = Match(len, dist)
      BY <2>1 DEF Match
    <2>3. fits => pixels = Repeated(out[stage], dist, len)
      OBVIOUS
    <2> HIDE DEF pixels
    <2> QED BY <1>10, <2>1, <2>2, <2>3 DEF MatchSent, UnderWay, Sends, op
  <1>12. LzSent'
    <2>1. Bias' = Bias /\ kind' = kind
      BY <1>2 DEF Bias
    <2> QED BY <1>10, <1>11, <2>1 DEF LzSent
  <1>13. stage = "alpha" => image'["bgr"] = image["bgr"] /\ out'["bgr"] = image["bgr"]
    BY <1>2, <1>3, <1>7 DEF LzTyped, Stages
  <1> QED BY <1>2, <1>10, <1>12, <1>13 DEF LzInv, Stages

\* A turn of the decoder.
LEMMA TurnKeeps ==
    ASSUME LzInv, NoControlByte \/ LiteralRun \/ BackReference
    PROVE  LzInv'
  <1>1. stage \in Stages /\ LzDecoded /\ LzTyped
    BY TurnDecodes DEF LzInv
  <1>2. CASE damaged
    <2>1. Fails
      BY <1>1, <1>2 DEF LzDecoded
    <2>2. LzTyped'
      BY <1>1, <2>1 DEF Fails, LzTyped
    <2> QED BY <1>2, <2>1, <2>2 DEF Fails, LzInv, Stages
  <1>3. CASE ~damaged
    <2>1. out' = image /\ stream' = <<>> /\ LzTyped' /\ UNCHANGED <<kind, stage, image, damaged>>
      BY <1>1, <1>3 DEF LzDecoded
    <2>2. stage = "alpha" => out'["bgr"] = out["bgr"]
      <3> SUFFICES ASSUME stage = "alpha" PROVE image["bgr"] = out["bgr"]
        BY <2>1
      <3> QED BY <1>3 DEF LzInv
    <2> QED BY <1>1, <1>3, <2>1, <2>2 DEF LzInv, Stages
  <1> QED BY <1>2, <1>3

\* The end of a pass.
LEMMA PassEndsKeeps == ASSUME LzInv, PassEnds PROVE LzInv'
  <1>1. LzTyped /\ stage \in Stages /\ op = kind.n /\ UNCHANGED <<kind, image, out, stream, damaged>>
    BY DEF PassEnds, LzInv
  <1>2. stream = <<>> /\ ~damaged /\ out = image
    <2>1. ~LzSent
      BY <1>1, Numbers DEF LzSent
    <2> QED BY <1>1, <2>1 DEF LzInv
  <1>3. CASE stage' = "alpha"
    <2>1. stage = "bgr" /\ Len(out["bgr"]) = kind.n
      BY <1>1, <1>3 DEF PassEnds, op
    <2>2. LzTyped'
      BY <1>1, <1>3 DEF LzTyped, Stages
    <2> QED BY <1>1, <1>2, <1>3, <2>1, <2>2 DEF LzInv, Stages
  <1>4. CASE stage' = "done"
    <2>1. Len(out["bgr"]) = kind.n
      BY <1>1, <1>4 DEF PassEnds, op, LzInv, Stages
    <2>2. LzTyped'
      BY <1>1, <1>4 DEF LzTyped, Stages
    <2> QED BY <1>1, <1>2, <1>4, <2>1, <2>2 DEF LzInv, Stages
  <1> QED BY <1>3, <1>4 DEF PassEnds

\* The LZ decoder is where the encoder is, or one token behind, whatever has been
\* sent.
THEOREM LzInvariance == LzSpec => []LzInv
  <1>1. LzInit => LzInv
    <2> SUFFICES ASSUME LzInit PROVE LzInv
      OBVIOUS
    <2>1. LzTyped
      <3>1. kind \in Kinds /\ kind.n \in Nat
        BY LzAssumption DEF LzInit
      <3>2. /\ out \in [Stages -> Seq(Nat)] /\ image \in [Stages -> Seq(Nat)]
            /\ \A s \in Stages : Len(out[s]) = 0
        BY DEF LzInit
      <3>3. \A s \in Stages : Len(out[s]) <= kind.n
        BY <3>1, <3>2
      <3>4. stage \in Stages \cup {"done", "error"} /\ damaged \in BOOLEAN
        BY DEF LzInit, Stages
      <3> QED BY <3>1, <3>2, <3>3, <3>4 DEF LzTyped
    <2> QED BY <2>1 DEF LzInit, LzInv, Stages
  <1>2. LzInv /\ [LzNext]_lzVars => LzInv'
    <2> SUFFICES ASSUME LzInv, [LzNext]_lzVars PROVE LzInv'
      OBVIOUS
    <2>1. CASE SendLiteral
      BY <2>1, SendLiteralKeeps
    <2>2. CASE SendMatch
      BY <2>2, SendMatchKeeps
    <2>3. CASE NoControlByte \/ LiteralRun \/ BackReference
      BY <2>3, TurnKeeps
    <2>4. CASE PassEnds
      BY <2>4, PassEndsKeeps
    <2>5. CASE UNCHANGED lzVars
      <3>1. /\ kind' = kind /\ stage' = stage /\ image' = image /\ out' = out /\ stream' = stream
            /\ damaged' = damaged /\ op' = op /\ Bias' = Bias
        BY <2>5 DEF lzVars, op, Bias
      <3>2. \A len, dist : Match(len, dist)' = Match(len, dist)
        BY <3>1 DEF Match
      <3>3. (\E count \in 1 .. High : LiteralSent(count)')
              <=> \E count \in 1 .. High : LiteralSent(count)
        BY <3>1 DEF LiteralSent, UnderWay
      <3>4. \A len, dist : MatchSent(len, dist)' <=> MatchSent(len, dist)
        BY <3>1, <3>2 DEF MatchSent, UnderWay
      <3>5. LzSent' <=> LzSent
        BY <3>1, <3>3, <3>4 DEF LzSent
      <3>6. LzTyped' <=> LzTyped
        BY <3>1 DEF LzTyped
      <3> QED BY <3>1, <3>5, <3>6 DEF LzInv
    <2> QED BY <2>1, <2>2, <2>3, <2>4, <2>5 DEF LzNext
  <1> QED BY <1>1, <1>2, PTL DEF LzSpec

\* Types, for every image size and field width: what is written stays in the image.
THEOREM LzTypeCorrect == LzSpec => []LzTypeOK
  <1>1. LzInv => LzTypeOK
    BY DEF LzInv, LzTyped, LzTypeOK
  <1> QED BY <1>1, LzInvariance, PTL

\* decompress_rgb32 and decompress_rgba undo the encoder: each token gives the pixels
\* it stands for, whatever its length and distance and however it overlaps itself.
THEOREM LzIsUndone == LzSpec => []LzRoundTrip
  <1>1. LzInv => LzRoundTrip
    <2> SUFFICES ASSUME LzInv PROVE LzRoundTrip
      OBVIOUS
    <2>1. stage \in Stages /\ stream = <<>> /\ ~damaged => out = image
      BY SentShows DEF LzInv
    <2> QED BY <2>1 DEF LzInv, LzRoundTrip
  <1> QED BY <1>1, LzInvariance, PTL

\* They fail only where the stream is damaged, and never finish a damaged one.
THEOREM LzDamageIsRefused == LzSpec => []LzRefusesDamage
  <1>1. LzInv => LzRefusesDamage
    BY DEF LzInv, LzRefusesDamage
  <1> QED BY <1>1, LzInvariance, PTL

\* The LZ decoder as the runs check it: both of the above.
THEOREM LzIsExact == LzSpec => []LzDecodesExactly
  <1>1. LzRoundTrip /\ LzRefusesDamage => LzDecodesExactly
    BY DEF LzDecodesExactly
  <1> QED BY <1>1, LzIsUndone, LzDamageIsRefused, PTL

-----------------------------------------------------------------------------
(***************************************************************************)
(* The GLZ decoder.                                                        *)
(***************************************************************************)

-----------------------------------------------------------------------------
\* The GLZ decoder's sum of extra bytes, on any stream.
Gathered(s, from, count) ==
    LET extra(i) == IF i <= count THEN s[from + i - 1] * Places[i] ELSE 0
    IN  extra(1) + extra(2) + extra(3)

\* The bounds of the fields are numbers.
LEMMA GlzNumbers ==
    /\ Byte \in Nat \ {0, 1} /\ Low \in Nat \ {0} /\ Middle \in Nat \ {0}
    /\ GlzLenCodes \in Nat \ {0, 1} /\ GlzPixels \in Nat \ {0}
    /\ Short \in Nat \ {0} /\ Medium \in Nat \ {0} /\ Short <= Medium
    /\ Places = <<1, Byte, Byte * Byte>> /\ Byte * Byte \in Nat \ {0}
    /\ 2 * Low \in Nat \ {0} /\ 2 * Middle \in Nat \ {0}
    /\ SelfId \in Nat \ {0} /\ SelfId <= Byte * Byte * Byte
  <1>1. /\ Byte \in Nat \ {0, 1} /\ Low \in Nat \ {0} /\ Middle \in Nat \ {0}
        /\ GlzLenCodes \in Nat \ {0, 1} /\ GlzPixels \in Nat \ {0}
        /\ Places = <<1, Byte, Byte * Byte>>
    BY ByteAssumption, GlzDecoderAssumption DEF Places
  <1>2. Short \in Nat \ {0} /\ Byte * Byte \in Nat \ {0}
    BY <1>1 DEF Short
  <1>3. Medium \in Nat \ {0} /\ Short <= Medium
    BY <1>1, <1>2 DEF Medium
  <1>4. SelfId \in Nat \ {0} /\ SelfId <= Byte * Byte * Byte
    <2>1. SelfId \in 1 .. Byte * Byte * Byte
      BY GlzDecoderAssumption
    <2>2. Byte * Byte * Byte \in Nat
      BY <1>1
    <2> QED BY <2>1, <2>2
  <1> QED BY <1>1, <1>2, <1>3, <1>4

\* A distance, written in as many bytes as it takes, adds up to itself again.
LEMMA LittleAddsUp ==
    ASSUME NEW v \in Nat, v < Byte * Byte * Byte, NEW b, b = BytesOf(v)
    PROVE  LET d == Little(v, b) IN
           /\ b \in 0 .. 3
           /\ d \in Seq(Nat) /\ Len(d) = b
           /\ Gathered(d, 1, b) = v
  <1> DEFINE BB == Byte * Byte
             Fits3(k) == (k < 3 => v < Places[k + 1]) /\ (k > 0 => v >= Places[k])
  <1>1. /\ Byte \in Nat /\ Byte >= 2 /\ BB \in Nat \ {0} /\ Byte \in Nat \ {0}
        /\ Places[1] = 1 /\ Places[2] = Byte /\ Places[3] = BB
    BY GlzNumbers
  <1>2. BB >= Byte /\ v < BB * Byte
    BY <1>1
  <1> HIDE DEF BB
  <1>3. b = CHOOSE k \in 0 .. 3 : Fits3(k)
    BY DEF BytesOf
  <1>4. \E k \in 0 .. 3 : Fits3(k)
    <2>1. CASE v = 0
      <3>1. Fits3(0)
        BY <1>1, <2>1
      <3> QED BY <3>1
    <2>2. CASE v # 0 /\ v < Byte
      <3>1. Fits3(1)
        BY <1>1, <2>2
      <3> QED BY <3>1
    <2>3. CASE v >= Byte /\ v < BB
      <3>1. Fits3(2)
        BY <1>1, <2>3
      <3> QED BY <3>1
    <2>4. CASE v >= BB
      <3>1. Fits3(3)
        BY <1>1, <2>4
      <3> QED BY <3>1
    <2> QED BY <1>1, <2>1, <2>2, <2>3, <2>4
  <1>5. b \in 0 .. 3 /\ Fits3(b)
    BY <1>3, <1>4
  <1> DEFINE d == [i \in 1 .. b |-> (v \div Places[i]) % Byte]
  <1>6. \A i \in 1 .. 3 : Places[i] \in Nat \ {0} /\ (v \div Places[i]) % Byte \in Nat
    <2>1. \A i \in 1 .. 3 : Places[i] \in Nat \ {0}
      BY <1>1
    <2>2. \A i \in 1 .. 3 : v \div Places[i] \in Nat
      BY <2>1
    <2> QED BY <1>1, <2>1, <2>2
  <1>7. d \in Seq(Nat) /\ Len(d) = b /\ \A i \in 1 .. b : d[i] = (v \div Places[i]) % Byte
    BY <1>5, <1>6
  <1> HIDE DEF d
  <1>8. v \div 1 = v
    OBVIOUS
  <1>8a. /\ v \div Byte \in Nat /\ v % Byte \in 0 .. Byte - 1
         /\ v = (v \div Byte) * Byte + (v % Byte)
    <2>1. Byte \in Nat \ {0}
      BY <1>1
    <2> QED BY <2>1, Parts
  <1>8b. v \div BB \in Nat
    <2>1. BB \in Nat \ {0}
      BY <1>1
    <2> QED BY <2>1, Parts
  <1>9. Gathered(d, 1, b) = v
    <2> DEFINE x(i) == IF i <= b THEN d[i] * Places[i] ELSE 0
    <2>1. Gathered(d, 1, b) = x(1) + x(2) + x(3)
      BY <1>5 DEF Gathered
    <2>2. CASE b = 0
      <3>1. v = 0
        BY <1>1, <1>5, <2>2
      <3>2. x(1) = 0 /\ x(2) = 0 /\ x(3) = 0
        BY <2>2
      <3> QED BY <2>1, <3>1, <3>2
    <2>3. CASE b = 1
      <3>1. v \in 0 .. Byte - 1
        BY <1>1, <1>5, <2>3
      <3>2. d[1] = v
        <4>1. d[1] = (v \div 1) % Byte
          BY <1>1, <1>7, <2>3
        <4>2. v % Byte = v
          BY <1>1, <3>1, BelowModulus
        <4> QED BY <1>8, <4>1, <4>2
      <3>3. x(1) = v /\ x(2) = 0 /\ x(3) = 0
        BY <1>1, <2>3, <3>2
      <3> QED BY <2>1, <3>3
    <2>4. CASE b = 2
      <3>1. v < Byte * Byte
        BY <1>1, <1>5, <2>4 DEF BB
      <3>2. v \div Byte \in 0 .. Byte - 1
        <4>1. v \div Byte < Byte
          BY <1>1, <3>1, QuotientBelow
        <4> QED BY <1>1, <1>8a, <4>1
      <3>3. d[2] = v \div Byte
        <4>1. d[2] = (v \div Byte) % Byte
          BY <1>1, <1>7, <2>4
        <4>2. (v \div Byte) % Byte = v \div Byte
          BY <1>1, <3>2, BelowModulus
        <4> QED BY <4>1, <4>2
      <3>4. d[1] = v % Byte
        BY <1>1, <1>7, <1>8, <2>4
      <3>5. v % Byte \in Nat /\ v = (v \div Byte) * Byte + (v % Byte)
        BY <1>1, <1>8a
      <3>6. x(1) = v % Byte /\ x(2) = (v \div Byte) * Byte /\ x(3) = 0
        BY <1>1, <2>4, <3>3, <3>4, <3>5
      <3> DEFINE m == v % Byte
                 n == (v \div Byte) * Byte
      <3>7. m \in Nat /\ n \in Nat /\ v = n + m
        BY <1>1, <3>2, <3>5
      <3> HIDE DEF m, n
      <3>8. m + n + 0 = v
        BY <3>7
      <3> HIDE DEF x
      <3> QED BY <2>1, <3>6, <3>8 DEF m, n
    <2>5. CASE b = 3
      <3> DEFINE w == v \div Byte
      <3>1. w \in Nat /\ v % Byte \in Nat /\ v = w * Byte + (v % Byte)
        BY <1>1, <1>8a
      <3>2. w \div Byte = v \div BB
        BY <1>1, DivideTwice DEF BB
      <3>3. w \div Byte \in Nat /\ w % Byte \in Nat /\ w = (w \div Byte) * Byte + (w % Byte)
        <4>1. Byte \in Nat \ {0} /\ w \in Nat
          BY <1>1, <3>1
        <4> HIDE DEF w
        <4>2. w \div Byte \in Nat /\ w % Byte \in 0 .. Byte - 1 /\ w = (w \div Byte) * Byte + (w % Byte)
          BY <4>1, Parts
        <4> QED BY <1>1, <4>2
      <3>4. v \div BB \in 0 .. Byte - 1
        <4>1. v \div BB < Byte
          BY <1>1, <1>2, QuotientBelow
        <4> QED BY <1>1, <1>8b, <4>1
      <3>5. d[1] = v % Byte /\ d[2] = w % Byte /\ d[3] = w \div Byte
        <4>1. /\ d[1] = (v \div 1) % Byte /\ d[2] = (v \div Byte) % Byte
              /\ d[3] = (v \div BB) % Byte
          BY <1>1, <1>7, <2>5
        <4>2. (v \div BB) % Byte = v \div BB
          BY <1>1, <3>4, BelowModulus
        <4> QED BY <1>8, <3>2, <4>1, <4>2
      <3>6. x(1) = v % Byte /\ x(2) = (w % Byte) * Byte /\ x(3) = (w \div Byte) * BB
        BY <1>1, <2>5, <3>1, <3>5
      <3> DEFINE p == v % Byte
                 q == w % Byte
                 r == w \div Byte
      <3>7. p \in Nat /\ q \in Nat /\ r \in Nat /\ v = w * Byte + p /\ w = r * Byte + q
        BY <3>1, <3>3
      <3> HIDE DEF p, q, r, w
      <3>8. v = (r * Byte + q) * Byte + p
        BY <3>7
      <3>9. p + q * Byte + r * BB = v
        BY <1>1, <3>7, <3>8 DEF BB
      <3> HIDE DEF x
      <3> QED BY <2>1, <3>6, <3>9 DEF p, q, r
    <2> QED BY <1>5, <2>2, <2>3, <2>4, <2>5
  <1>10. Little(v, b) = d
    BY DEF Little, d
  <1> QED BY <1>5, <1>7, <1>9, <1>10

-----------------------------------------------------------------------------
\* The length in a GLZ token: in its control byte, or continued behind it.
GlzLengthIn(t, end, length, len) ==
    IF length = GlzLenCodes - 1
    THEN /\ end \in 2 .. Len(t) /\ t[end] # Byte - 1
         /\ \A i \in 2 .. end - 1 : t[i] = Byte - 1
         /\ len = length + ContinuedSum(t, 2, end)
    ELSE end = 1 /\ len = length

\* The offset in it, in up to five fields.
GlzOffsetIn(t, end, rest, long, ofs) ==
    ofs = (t[1] % Low) + Low * t[end + 1]
          + (IF long THEN Short * (rest % Middle) ELSE 0)
          + (IF long /\ rest >= Middle THEN Medium * t[Len(t)] ELSE 0)

\* The image distance, in two layouts.
GlzDistanceIn(t, end, more, rest, long, dist) ==
    /\ t[end + 2] \div (2 * Middle) = more /\ t[end + 2] % (2 * Middle) = rest
    /\ Len(t) = end + 2 + more + (IF long /\ rest >= Middle THEN 1 ELSE 0)
    /\ dist = ImageDist(long, rest, Gathered(t, end + 3, more))

GlzLayout(t, end, length, more, rest, long, len, ofs, dist) ==
    /\ t \in Seq(Nat) /\ t # <<>>
    /\ t[1] >= 2 * Low /\ t[1] \div (2 * Low) = length
    /\ ((t[1] \div Low) % 2 = 1) <=> long
    /\ GlzLengthIn(t, end, length, len)
    /\ GlzOffsetIn(t, end, rest, long, ofs)
    /\ GlzDistanceIn(t, end, more, rest, long, dist)

\* An offset adds up from its fields.
LEMMA OffsetAddsUp ==
    ASSUME NEW ofs \in Nat
    PROVE  /\ ofs % Low \in 0 .. Low - 1 /\ (ofs \div Low) % Byte \in 0 .. Byte - 1
           /\ (ofs \div Short) % Middle \in 0 .. Middle - 1 /\ ofs \div Medium \in Nat
           /\ ofs = (ofs % Low) + Low * ((ofs \div Low) % Byte)
                    + (IF ofs >= Short THEN Short * ((ofs \div Short) % Middle) ELSE 0)
                    + (IF ofs >= Medium THEN Medium * (ofs \div Medium) ELSE 0)
  <1> DEFINE a == ofs \div Low
             b == ofs \div Short
             c == ofs \div Medium
             p == ofs % Low
             q == a % Byte
             r == b % Middle
  <1>1. /\ Low \in Nat \ {0} /\ Byte \in Nat \ {0} /\ Middle \in Nat \ {0}
        /\ Short \in Nat \ {0} /\ Medium \in Nat \ {0} /\ Short <= Medium
    BY GlzNumbers
  <1>2. a \in Nat /\ p \in 0 .. Low - 1 /\ ofs = a * Low + p
    BY <1>1, Parts
  <1>3. a \div Byte = b
    BY <1>1, DivideTwice DEF Short
  <1>4. b \div Middle = c
    BY <1>1, DivideTwice DEF Medium
  <1>5. b \in Nat /\ c \in Nat
    <2>1. b \in Nat
      BY <1>1, Parts
    <2>2. c \in Nat
      BY <1>1, Parts
    <2> QED BY <2>1, <2>2
  <1> HIDE DEF a, p
  <1>6. q \in 0 .. Byte - 1 /\ a = b * Byte + q
    BY <1>1, <1>2, <1>3, Parts
  <1> HIDE DEF b, q
  <1>7. r \in 0 .. Middle - 1 /\ b = c * Middle + r
    BY <1>1, <1>4, <1>5, Parts
  <1> HIDE DEF c, r
  <1>8. Short = Low * Byte /\ Medium = Short * Middle
    BY DEF Short, Medium
  <1>9. ofs = p + Low * q + Short * b
    <2>1. ofs = (b * Byte + q) * Low + p
      BY <1>2, <1>6
    <2> QED BY <1>1, <1>2, <1>5, <1>6, <1>8, <2>1
  <1>10. Short * b = Short * r + Medium * c
    <2>1. Short * b = Short * (c * Middle + r)
      BY <1>7
    <2> QED BY <1>1, <1>5, <1>7, <1>8, <2>1
  <1>11. ofs < Short => b = 0
    <2> SUFFICES ASSUME ofs < Short PROVE b = 0
      OBVIOUS
    <2>1. ofs \in 0 .. Short - 1
      BY <1>1
    <2> QED BY <1>1, <2>1, BelowModulus DEF b
  <1>12. ofs < Medium => c = 0
    <2> SUFFICES ASSUME ofs < Medium PROVE c = 0
      OBVIOUS
    <2>1. ofs \in 0 .. Medium - 1
      BY <1>1
    <2> QED BY <1>1, <2>1, BelowModulus DEF c
  <1> DEFINE x == Low * q
             y == Short * r
             z == Medium * c
  <1>13. x \in Nat /\ y \in Nat /\ z \in Nat /\ p \in Nat /\ ofs = p + x + (y + z)
    <2>1. x \in Nat /\ y \in Nat /\ z \in Nat /\ p \in Nat
      BY <1>1, <1>2, <1>5, <1>6, <1>7
    <2> QED BY <1>9, <1>10, <2>1
  <1>14. ofs < Short => y = 0 /\ z = 0
    <2> SUFFICES ASSUME ofs < Short PROVE y = 0 /\ z = 0
      OBVIOUS
    <2>1. b = 0 /\ c = 0
      BY <1>1, <1>11, <1>12
    <2>2. r = 0
      BY <1>1, <1>7, <2>1
    <2> QED BY <1>1, <2>1, <2>2
  <1>15. ofs < Medium => z = 0
    BY <1>1, <1>12
  <1> HIDE DEF x, y, z
  <1>16. ofs = p + x + (IF ofs >= Short THEN y ELSE 0) + (IF ofs >= Medium THEN z ELSE 0)
    BY <1>1, <1>13, <1>14, <1>15
  <1> QED BY <1>2, <1>5, <1>6, <1>7, <1>16 DEF a, b, c, p, q, r, x, y, z

\* Two fields in one byte.
LEMMA TwoFields ==
    ASSUME NEW b \in Nat \ {0}, NEW q \in Nat, NEW r \in 0 .. b - 1, NEW v, v = q * b + r
    PROVE  v \in Nat /\ v \div b = q /\ v % b = r
  <1>1. v \in Nat /\ v = b * q + r
    OBVIOUS
  <1> QED BY <1>1, Quotient, Remainder

\* The control byte of a GLZ match.
Control(length, bit, r) == (length * 2 + bit) * Low + r
ReadsAs(c, length, bit, r) ==
    /\ c \in Nat /\ c >= 2 * Low /\ c \div (2 * Low) = length
    /\ (c \div Low) % 2 = bit /\ c % Low = r

\* The fields of the control byte are read back.
LEMMA GlzControlByte ==
    ASSUME NEW length \in Nat \ {0}, NEW bit \in {0, 1}, NEW r \in 0 .. Low - 1
    PROVE  ReadsAs(Control(length, bit, r), length, bit, r)
  <1> DEFINE c == (length * 2 + bit) * Low + r
  <1>1. Low \in Nat \ {0} /\ 2 * Low \in Nat \ {0}
    BY GlzNumbers
  <1>2. length * 2 + bit \in Nat
    OBVIOUS
  <1>3. c \in Nat /\ c \div Low = length * 2 + bit /\ c % Low = r
    <2> DEFINE k == length * 2 + bit
    <2>1. k \in Nat /\ c = k * Low + r
      BY <1>2
    <2> HIDE DEF k
    <2>2. c \in Nat /\ c \div Low = k /\ c % Low = r
      BY <1>1, <2>1, TwoFields
    <2> QED BY <2>2 DEF k
  <1>4. (length * 2 + bit) % 2 = bit
    <2>1. 2 \in Nat \ {0} /\ bit \in 0 .. 2 - 1
      OBVIOUS
    <2> HIDE DEF TwoFields
    <2> QED BY <2>1, TwoFields
  <1>5. c \div (2 * Low) = length
    <2>1. bit * Low + r \in 0 .. 2 * Low - 1
      <3>1. bit * Low \in {0, Low}
        BY <1>1
      <3> QED BY <1>1, <3>1
    <2>2. c = length * (2 * Low) + (bit * Low + r)
      BY <1>1
    <2> QED BY <1>1, <2>1, <2>2, TwoFields
  <1>6. c >= 2 * Low
    <2>1. length * 2 + bit >= 2
      OBVIOUS
    <2> DEFINE k == length * 2 + bit
    <2>2. k \in Nat /\ k >= 2 /\ c = k * Low + r
      BY <2>1
    <2> HIDE DEF k
    <2>3. k * Low >= 2 * Low
      BY <1>1, <2>2
    <2> QED BY <1>1, <2>2, <2>3
  <1> HIDE DEF c
  <1>7. ReadsAs(c, length, bit, r)
    BY <1>3, <1>4, <1>5, <1>6 DEF ReadsAs
  <1> QED BY <1>7 DEF Control, c

\* One sequence behind another.
Joins(t, x, y) ==
    /\ t \in Seq(Nat) /\ Len(t) = Len(x) + Len(y)
    /\ \A i \in 1 .. Len(x) : t[i] = x[i]
    /\ \A i \in 1 .. Len(y) : t[Len(x) + i] = y[i]

\* A concatenation joins its parts.
LEMMA TwoParts ==
    ASSUME NEW x \in Seq(Nat), NEW y \in Seq(Nat)
    PROVE  Joins(x \o y, x, y)
  BY DEF Joins

\* A GLZ token in its parts.
InParts(t, c, x, b, d, y, z) ==
    /\ t \in Seq(Nat) /\ Len(t) = 3 + Len(x) + Len(y) + Len(z) /\ t[1] = c
    /\ \A i \in 1 .. Len(x) : t[1 + i] = x[i]
    /\ t[Len(x) + 2] = b /\ t[Len(x) + 3] = d
    /\ \A i \in 1 .. Len(y) : t[Len(x) + 3 + i] = y[i]
    /\ \A i \in 1 .. Len(z) : t[Len(x) + 3 + Len(y) + i] = z[i]

\* A token written as five parts can be read in its parts.
LEMMA FiveParts ==
    ASSUME NEW c \in Nat, NEW x \in Seq(Nat), NEW b \in Nat, NEW d \in Nat,
           NEW y \in Seq(Nat), NEW z \in Seq(Nat)
    PROVE  InParts(<<c>> \o x \o <<b, d>> \o y \o z, c, x, b, d, y, z)
  <1> DEFINE p == <<c>>
             q == <<b, d>>
             u == p \o x
             v == u \o q
             w == v \o y
             t == w \o z
  <1>1. p \in Seq(Nat) /\ Len(p) = 1 /\ p[1] = c
    OBVIOUS
  <1>2. q \in Seq(Nat) /\ Len(q) = 2 /\ q[1] = b /\ q[2] = d
    OBVIOUS
  <1>3. Len(x) \in Nat /\ Len(y) \in Nat /\ Len(z) \in Nat
    OBVIOUS
  <1> HIDE DEF p, q
  <1>4. /\ u \in Seq(Nat) /\ Len(u) = Len(p) + Len(x)
        /\ \A i \in 1 .. Len(p) : u[i] = p[i]
        /\ \A i \in 1 .. Len(x) : u[Len(p) + i] = x[i]
    <2>1. Joins(u, p, x)
      BY <1>1, TwoParts
    <2> HIDE DEF u
    <2> QED BY <2>1 DEF Joins
  <1> HIDE DEF u
  <1>5. /\ v \in Seq(Nat) /\ Len(v) = Len(u) + Len(q)
        /\ \A i \in 1 .. Len(u) : v[i] = u[i]
        /\ \A i \in 1 .. Len(q) : v[Len(u) + i] = q[i]
    <2>1. Joins(v, u, q)
      BY <1>2, <1>4, TwoParts
    <2> HIDE DEF v
    <2> QED BY <2>1 DEF Joins
  <1> HIDE DEF v
  <1>6. /\ w \in Seq(Nat) /\ Len(w) = Len(v) + Len(y)
        /\ \A i \in 1 .. Len(v) : w[i] = v[i]
        /\ \A i \in 1 .. Len(y) : w[Len(v) + i] = y[i]
    <2>1. Joins(w, v, y)
      BY <1>5, TwoParts
    <2> HIDE DEF w
    <2> QED BY <2>1 DEF Joins
  <1> HIDE DEF w
  <1>7. /\ t \in Seq(Nat) /\ Len(t) = Len(w) + Len(z)
        /\ \A i \in 1 .. Len(w) : t[i] = w[i]
        /\ \A i \in 1 .. Len(z) : t[Len(w) + i] = z[i]
    <2>1. Joins(t, w, z)
      BY <1>6, TwoParts
    <2> HIDE DEF t
    <2> QED BY <2>1 DEF Joins
  <1> HIDE DEF t
  <1>8. Len(u) = 1 + Len(x) /\ Len(v) = Len(x) + 3 /\ Len(w) = Len(x) + 3 + Len(y)
    BY <1>1, <1>2, <1>3, <1>4, <1>5, <1>6
  <1>9. \A i \in 1 .. Len(v) : t[i] = v[i]
    <2> SUFFICES ASSUME NEW i \in 1 .. Len(v) PROVE t[i] = v[i]
      OBVIOUS
    <2>1. i \in 1 .. Len(w)
      BY <1>3, <1>8
    <2> QED BY <1>6, <1>7, <2>1
  <1>10. \A i \in 1 .. Len(u) : t[i] = u[i]
    BY <1>3, <1>5, <1>8, <1>9
  <1>11. t[1] = c
    <2>1. 1 \in 1 .. Len(p) /\ 1 \in 1 .. Len(u)
      BY <1>1, <1>3, <1>8
    <2> QED BY <1>1, <1>4, <1>10, <2>1
  <1>12. \A i \in 1 .. Len(x) : t[1 + i] = x[i]
    <2> SUFFICES ASSUME NEW i \in 1 .. Len(x) PROVE t[1 + i] = x[i]
      OBVIOUS
    <2>1. 1 + i \in 1 .. Len(u) /\ u[1 + i] = x[i]
      BY <1>1, <1>3, <1>4, <1>8
    <2> QED BY <1>10, <2>1
  <1>13. t[Len(x) + 2] = b /\ t[Len(x) + 3] = d
    <2>1. /\ Len(u) + 1 = Len(x) + 2 /\ Len(u) + 2 = Len(x) + 3
          /\ Len(x) + 2 \in 1 .. Len(v) /\ Len(x) + 3 \in 1 .. Len(v)
      BY <1>3, <1>8
    <2>2. v[Len(u) + 1] = b /\ v[Len(u) + 2] = d
      BY <1>2, <1>5
    <2> QED BY <1>9, <2>1, <2>2
  <1>14. \A i \in 1 .. Len(y) : t[Len(x) + 3 + i] = y[i]
    <2> SUFFICES ASSUME NEW i \in 1 .. Len(y) PROVE t[Len(x) + 3 + i] = y[i]
      OBVIOUS
    <2>1. Len(v) + i = Len(x) + 3 + i /\ Len(x) + 3 + i \in 1 .. Len(w)
      BY <1>3, <1>8
    <2> QED BY <1>6, <1>7, <2>1
  <1>15. \A i \in 1 .. Len(z) : t[Len(x) + 3 + Len(y) + i] = z[i]
    BY <1>3, <1>7, <1>8
  <1>16. Len(t) = 3 + Len(x) + Len(y) + Len(z)
    BY <1>3, <1>7, <1>8
  <1>17. InParts(t, c, x, b, d, y, z)
    BY <1>7, <1>11, <1>12, <1>13, <1>14, <1>15, <1>16 DEF InParts
  <1> QED BY <1>17 DEF t, w, v, u, p, q

\* A sum of extra bytes is the same wherever they stand.
LEMMA GatheredAnywhere ==
    ASSUME NEW t, NEW d, NEW from \in Nat, NEW count \in 0 .. 3,
           \A i \in 1 .. count : t[from + i - 1] = d[i]
    PROVE  Gathered(t, from, count) = Gathered(d, 1, count)
  <1>1. \A i \in 1 .. 3 : i <= count => t[from + i - 1] = d[1 + i - 1]
    <2> SUFFICES ASSUME NEW i \in 1 .. 3, i <= count PROVE t[from + i - 1] = d[1 + i - 1]
      OBVIOUS
    <2>1. 1 + i - 1 = i /\ i \in 1 .. count
      OBVIOUS
    <2> QED BY <2>1
  <1> QED BY <1>1 DEF Gathered

\* The encoder's GLZ match reads as the length, the offset and the image distance
\* it was written for.
LEMMA GlzMatchLayout ==
    ASSUME NEW len \in Nat \ {0}, NEW ofs \in Nat, NEW dist \in Nat,
           dist < Byte * Byte * Byte
    PROVE  \E end \in Nat \ {0}, length \in 1 .. GlzLenCodes - 1, more \in 0 .. 3,
              rest \in 0 .. 2 * Middle - 1, long \in BOOLEAN :
             GlzLayout(GlzMatch(len, ofs, dist), end, length, more, rest, long, len, ofs, dist)
  <1> DEFINE long == ofs >= Short
             far == ofs >= Medium
             v == IF long THEN dist ELSE dist \div (2 * Middle)
             more == BytesOf(v)
             length == IF len < GlzLenCodes - 1 THEN len ELSE GlzLenCodes - 1
             bit == IF long THEN 1 ELSE 0
             rest == IF long THEN (IF far THEN Middle ELSE 0) + ((ofs \div Short) % Middle)
                             ELSE dist % (2 * Middle)
             c == (length * 2 + bit) * Low + (ofs % Low)
             x == IF length < GlzLenCodes - 1 THEN <<>> ELSE Continued(len - length)
             b == (ofs \div Low) % Byte
             d == more * 2 * Middle + rest
             y == Little(v, more)
             z == IF far THEN <<ofs \div Medium>> ELSE <<>>
             t == <<c>> \o x \o <<b, d>> \o y \o z
             end == 1 + Len(x)
  <1>1. /\ Byte \in Nat \ {0, 1} /\ Low \in Nat \ {0} /\ Middle \in Nat \ {0}
        /\ GlzLenCodes \in Nat \ {0, 1} /\ Short \in Nat \ {0} /\ Medium \in Nat \ {0}
        /\ Short <= Medium /\ 2 * Low \in Nat \ {0} /\ 2 * Middle \in Nat \ {0}
    BY GlzNumbers
  <1>2. GlzMatch(len, ofs, dist) = t
    BY DEF GlzMatch
  <1>3. /\ ofs % Low \in 0 .. Low - 1 /\ b \in 0 .. Byte - 1
        /\ (ofs \div Short) % Middle \in 0 .. Middle - 1 /\ ofs \div Medium \in Nat
        /\ ofs = (ofs % Low) + Low * b
                 + (IF long THEN Short * ((ofs \div Short) % Middle) ELSE 0)
                 + (IF far THEN Medium * (ofs \div Medium) ELSE 0)
    BY OffsetAddsUp
  <1>4. length \in 1 .. GlzLenCodes - 1 /\ length \in Nat \ {0} /\ length <= len
    BY <1>1
  <1>5. bit \in {0, 1} /\ (bit = 1 <=> long)
    BY <1>1
  <1>6. far => long
    BY <1>1
  <1>7. /\ dist \div (2 * Middle) \in Nat /\ dist % (2 * Middle) \in 0 .. 2 * Middle - 1
        /\ dist = (dist \div (2 * Middle)) * (2 * Middle) + (dist % (2 * Middle))
    BY <1>1, Parts
  <1>8. v \in Nat /\ v <= dist
    <2> DEFINE q == dist \div (2 * Middle)
    <2>1. q <= dist
      <3>1. q * (2 * Middle) >= q
        <4>1. q \in Nat /\ 2 * Middle >= 1
          BY <1>1, <1>7
        <4> HIDE DEF q
        <4> QED BY <1>1, <4>1
      <3>2. q * (2 * Middle) \in Nat /\ dist >= q * (2 * Middle)
        BY <1>1, <1>7
      <3> HIDE DEF q
      <3> QED BY <1>7, <3>1, <3>2 DEF q
    <2> QED BY <1>7, <2>1
  <1>9. rest \in 0 .. 2 * Middle - 1 /\ rest \in Nat /\ (long /\ rest >= Middle <=> far)
        /\ (long => rest % Middle = (ofs \div Short) % Middle)
    <2> DEFINE r == (ofs \div Short) % Middle
    <2>1. r \in 0 .. Middle - 1
      BY <1>3
    <2> HIDE DEF r
    <2>2. r % Middle = r /\ (Middle + r) % Middle = r
      <3>1. r = 0 * Middle + r /\ Middle + r = 1 * Middle + r
        BY <1>1, <2>1
      <3>2. r % Middle = r
        BY <1>1, <2>1, BelowModulus
      <3>3. Middle + r = Middle * 1 + r /\ 1 \in Int /\ Middle + r \in Int
        BY <1>1, <2>1
      <3>4. (Middle + r) % Middle = r
        BY <1>1, <2>1, <3>3, Remainder
      <3> QED BY <3>2, <3>4
    <2>3. CASE ~long
      BY <1>1, <1>6, <1>7, <2>3
    <2>4. CASE far
      <3>1. rest = Middle + r
        BY <1>6, <2>4 DEF r
      <3> HIDE DEF rest
      <3> QED BY <1>1, <1>6, <2>1, <2>2, <2>4, <3>1 DEF r
    <2>5. CASE long /\ ~far
      <3>1. rest = r
        BY <2>1, <2>5 DEF r
      <3> HIDE DEF rest
      <3> QED BY <1>1, <2>1, <2>2, <2>5, <3>1 DEF r
    <2> QED BY <1>6, <2>3, <2>4, <2>5
  <1>10. more \in 0 .. 3 /\ y \in Seq(Nat) /\ Len(y) = more /\ Gathered(y, 1, more) = v
    <2>1. v < Byte * Byte * Byte
      <3>1. Byte * Byte * Byte \in Nat
        BY <1>1
      <3> QED BY <1>8, <3>1
    <2> HIDE DEF v
    <2> QED BY <1>8, <2>1, LittleAddsUp
  <1>11. ImageDist(long, rest, v) = dist
    <2>1. CASE long
      BY <2>1 DEF ImageDist
    <2>2. CASE ~long
      <3>1. ImageDist(long, rest, v) = (dist % (2 * Middle)) + 2 * Middle * (dist \div (2 * Middle))
        BY <2>2 DEF ImageDist
      <3> DEFINE q == dist \div (2 * Middle)
                 r == dist % (2 * Middle)
      <3>2. q \in Nat /\ r \in Nat /\ dist = q * (2 * Middle) + r
        BY <1>1, <1>7
      <3> HIDE DEF q, r, v, rest, long
      <3>3. r + 2 * Middle * q = dist
        BY <1>1, <3>2
      <3> QED BY <3>1, <3>3 DEF q, r
    <2> QED BY <2>1, <2>2
  <1>12. /\ c \in Nat /\ c >= 2 * Low /\ c \div (2 * Low) = length
         /\ (c \div Low) % 2 = bit /\ c % Low = ofs % Low
    <2> DEFINE r == ofs % Low
    <2>1. r \in 0 .. Low - 1 /\ c = Control(length, bit, r)
      BY <1>3 DEF Control
    <2> HIDE DEF length, bit, c, r
    <2>2. /\ c \in Nat /\ c >= 2 * Low /\ c \div (2 * Low) = length
          /\ (c \div Low) % 2 = bit /\ c % Low = r
      <3>1. ReadsAs(c, length, bit, r)
        BY <1>4, <1>5, <2>1, GlzControlByte
      <3> QED BY <3>1 DEF ReadsAs
    <2> QED BY <2>2 DEF r
  <1>13. d \in Nat /\ d \div (2 * Middle) = more /\ d % (2 * Middle) = rest
    <2> HIDE DEF more, rest
    <2>1. d = more * (2 * Middle) + rest /\ more \in Nat
      BY <1>1, <1>9, <1>10
    <2> HIDE DEF d
    <2> QED BY <1>1, <1>9, <2>1, TwoFields
  <1>14. z \in Seq(Nat) /\ Len(z) = (IF far THEN 1 ELSE 0) /\ (far => z[1] = ofs \div Medium)
    BY <1>3
  <1>15. length = GlzLenCodes - 1 =>
           /\ x \in Seq(Nat) /\ Len(x) >= 1 /\ x[Len(x)] # Byte - 1
           /\ \A i \in 1 .. Len(x) - 1 : x[i] = Byte - 1
           /\ (Len(x) - 1) * (Byte - 1) + x[Len(x)] = len - length
    <2> SUFFICES ASSUME length = GlzLenCodes - 1
                 PROVE  /\ x \in Seq(Nat) /\ Len(x) >= 1 /\ x[Len(x)] # Byte - 1
                        /\ \A i \in 1 .. Len(x) - 1 : x[i] = Byte - 1
                        /\ (Len(x) - 1) * (Byte - 1) + x[Len(x)] = len - length
      OBVIOUS
    <2>0. x = Continued(len - length)
      BY <1>1, <1>4
    <2>1. len - length \in Nat
      BY <1>4
    <2> DEFINE n == len - length
               s == Continued(n)
    <2> HIDE DEF n, length, x
    <2>2. /\ s \in Seq(0 .. Byte - 1) /\ Len(s) >= 1
          /\ \A i \in 1 .. Len(s) - 1 : s[i] = Byte - 1
          /\ s[Len(s)] \in 0 .. Byte - 2
          /\ (Len(s) - 1) * (Byte - 1) + s[Len(s)] = n
      BY <2>1, ContinuedAddsUp DEF n
    <2> HIDE DEF s
    <2>3. s \in Seq(Nat) /\ s[Len(s)] # Byte - 1
      BY <1>1, <2>2
    <2> QED BY <2>0, <2>2, <2>3 DEF s, n
  <1>16. length # GlzLenCodes - 1 => x = <<>> /\ Len(x) = 0 /\ len = length
    BY <1>1
  <1>17. x \in Seq(Nat)
    BY <1>15, <1>16
  <1>18. t = <<c>> \o x \o <<b, d>> \o y \o z
    OBVIOUS
  <1>19. long \in BOOLEAN
    BY <1>1
  <1> HIDE DEF long, far, v, more, length, bit, rest, c, x, b, d, y, z, t
  <1>20. /\ t \in Seq(Nat) /\ Len(t) = 3 + Len(x) + Len(y) + Len(z) /\ t[1] = c
         /\ \A i \in 1 .. Len(x) : t[1 + i] = x[i]
         /\ t[Len(x) + 2] = b /\ t[Len(x) + 3] = d
         /\ \A i \in 1 .. Len(y) : t[Len(x) + 3 + i] = y[i]
         /\ \A i \in 1 .. Len(z) : t[Len(x) + 3 + Len(y) + i] = z[i]
    <2>1. c \in Nat /\ x \in Seq(Nat) /\ b \in Nat /\ d \in Nat /\ y \in Seq(Nat) /\ z \in Seq(Nat)
      BY <1>3, <1>10, <1>12, <1>13, <1>14, <1>17
    <2>2. InParts(t, c, x, b, d, y, z)
      BY <2>1, <1>18, FiveParts
    <2> QED BY <2>2 DEF InParts
  <1>21. Len(x) \in Nat /\ Len(y) \in Nat /\ end \in Nat \ {0}
    BY <1>10, <1>17
  <1>22. GlzLengthIn(t, end, length, len)
    <2>1. CASE length = GlzLenCodes - 1
      <3>1. end \in 2 .. Len(t) /\ t[end] = x[Len(x)]
        <4>1. Len(x) \in 1 .. Len(x)
          BY <1>15, <1>21, <2>1
        <4>2. t[1 + Len(x)] = x[Len(x)]
          BY <1>20, <4>1
        <4> QED BY <1>14, <1>20, <1>21, <4>1, <4>2
      <3>2. \A i \in 2 .. end - 1 : t[i] = Byte - 1
        <4> SUFFICES ASSUME NEW i \in 2 .. end - 1 PROVE t[i] = Byte - 1
          OBVIOUS
        <4>1. i - 1 \in 1 .. Len(x) - 1 /\ 1 + (i - 1) = i /\ i - 1 \in 1 .. Len(x)
          BY <1>21
        <4>2. t[1 + (i - 1)] = x[i - 1] /\ x[i - 1] = Byte - 1
          BY <1>15, <1>20, <2>1, <4>1
        <4> QED BY <4>1, <4>2
      <3>3. ContinuedSum(t, 2, end) = len - length
        <4>1. end - 2 = Len(x) - 1
          BY <1>21
        <4> QED BY <1>15, <2>1, <3>1, <4>1 DEF ContinuedSum
      <3>4. len = length + ContinuedSum(t, 2, end)
        BY <1>4, <3>3
      <3> QED BY <1>15, <2>1, <3>1, <3>2, <3>4 DEF GlzLengthIn
    <2>2. CASE length # GlzLenCodes - 1
      BY <1>16, <2>2 DEF GlzLengthIn
    <2> QED BY <2>1, <2>2
  <1>23. t[end + 1] = b /\ t[end + 2] = d
    <2>1. end + 1 = Len(x) + 2 /\ end + 2 = Len(x) + 3
      BY <1>21
    <2> QED BY <1>20, <2>1
  <1>24. far => t[Len(t)] = ofs \div Medium
    <2> SUFFICES ASSUME far PROVE t[Len(t)] = ofs \div Medium
      OBVIOUS
    <2>1. Len(z) = 1 /\ 1 \in 1 .. Len(z)
      BY <1>14
    <2>2. Len(t) = Len(x) + 3 + Len(y) + 1
      BY <1>20, <1>21, <2>1
    <2> QED BY <1>14, <1>20, <2>1, <2>2
  <1>25. GlzOffsetIn(t, end, rest, long, ofs)
    BY <1>3, <1>9, <1>12, <1>20, <1>23, <1>24 DEF GlzOffsetIn
  <1>26. GlzDistanceIn(t, end, more, rest, long, dist)
    <2>1. Gathered(t, end + 3, more) = v
      <3> DEFINE from == end + 3
      <3>1. from \in Nat /\ \A i \in 1 .. more : t[from + i - 1] = y[i]
        <4> SUFFICES ASSUME NEW i \in 1 .. more PROVE from \in Nat /\ t[from + i - 1] = y[i]
          BY <1>21
        <4>1. from + i - 1 = Len(x) + 3 + i /\ from \in Nat
          BY <1>10, <1>21
        <4>2. i \in 1 .. Len(y)
          BY <1>10
        <4> QED BY <1>20, <4>1, <4>2
      <3> HIDE DEF from
      <3>2. Gathered(t, from, more) = Gathered(y, 1, more)
        BY <1>10, <3>1, GatheredAnywhere
      <3> QED BY <1>10, <3>2 DEF from
    <2>2. Len(t) = end + 2 + more + (IF long /\ rest >= Middle THEN 1 ELSE 0)
      BY <1>9, <1>10, <1>14, <1>20, <1>21
    <2> QED BY <1>11, <1>13, <1>23, <2>1, <2>2 DEF GlzDistanceIn
  <1>27. t # <<>>
    BY <1>14, <1>20, <1>21
  <1>28. GlzLayout(t, end, length, more, rest, long, len, ofs, dist)
    BY <1>5, <1>12, <1>20, <1>22, <1>25, <1>26, <1>27 DEF GlzLayout
  <1> QED BY <1>2, <1>4, <1>9, <1>10, <1>19, <1>21, <1>28

\* Where the length ends in a match, and where in what has come of it.
EndsAt(t, end, length, full) ==
    IF length = full
    THEN end \in 2 .. Len(t) /\ t[end] # Byte - 1 /\ \A i \in 2 .. end - 1 : t[i] = Byte - 1
    ELSE end = 1
Stop(s, length, full) == IF length = full THEN ContinuedEnd(s, 2) ELSE 1

\* The decoder finds that end, or knows that it has not come.
LEMMA StopFound ==
    ASSUME NEW t \in Seq(Nat), NEW k \in 1 .. Len(t),
           NEW end \in Nat \ {0}, NEW length, NEW full, EndsAt(t, end, length, full)
    PROVE  Stop(SubSeq(t, 1, k), length, full) = IF k < end THEN 0 ELSE end
  <1> DEFINE s == SubSeq(t, 1, k)
  <1>1. s \in Seq(Nat) /\ Len(s) = k /\ \A i \in 1 .. k : s[i] = t[i]
    <2>1. k \in 0 .. Len(t)
      OBVIOUS
    <2> QED BY <2>1, Beginning
  <1> HIDE DEF s
  <1> SUFFICES Stop(s, length, full) = IF k < end THEN 0 ELSE end
    BY DEF s
  <1>2. CASE length # full
    BY <1>2 DEF EndsAt, Stop
  <1>3. CASE length = full /\ k < end
    <2>1. \A i \in 2 .. Len(s) : s[i] = Byte - 1
      BY <1>1, <1>3 DEF EndsAt
    <2> QED BY <1>1, <1>3, <2>1, ContinuedHasNoEnd DEF Stop
  <1>4. CASE length = full /\ k >= end
    <2>1. end \in 2 .. Len(s) /\ s[end] # Byte - 1 /\ \A i \in 2 .. end - 1 : s[i] = Byte - 1
      BY <1>1, <1>4 DEF EndsAt
    <2>2. ContinuedEnd(s, 2) = end
      BY <1>1, <2>1, ContinuedEndsAt
    <2> QED BY <1>4, <2>2 DEF Stop
  <1> QED BY <1>2, <1>3, <1>4

-----------------------------------------------------------------------------
GlzTyped ==
    /\ glzImage \in Seq(Nat) /\ glzOut \in Seq(Nat) /\ Len(glzOut) <= GlzPixels
    /\ result \in {"none", "ok", "cross_image", "bad"}
    /\ flaw \in {"none", "cross_image", "bad"} /\ tokens \in 0 .. MaxTokens

\* The token, whole or cut off, is what the stream holds; if nothing is wrong with
\* it the encoder is ahead by its pixels.
GlzUnderWay(token, wrong, pixels) ==
    /\ \E k \in 0 .. Len(token) :
         /\ glzStream = SubSeq(token, 1, k)
         /\ flaw = IF k < Len(token) THEN "bad" ELSE wrong
    /\ flaw = "none" => glzImage = glzOut \o pixels

\* What is to be said of a match.
Verdict(len, ofs, dist) ==
    IF Len(glzOut) + len > GlzPixels THEN "bad"
    ELSE IF dist = 0 THEN (IF ofs + 1 > Len(glzOut) THEN "bad" ELSE "none")
    ELSE IF SelfId - dist \notin DOMAIN Dictionary THEN "cross_image"
    ELSE IF ofs + len > Len(Dictionary[SelfId - dist]) THEN "bad" ELSE "none"

\* The pixels it stands for.
Matched(len, ofs, dist) ==
    IF dist = 0
    THEN SubSeq(Repeated(glzOut, ofs + 1, len), Len(glzOut) + 1, Len(glzOut) + len)
    ELSE SubSeq(Dictionary[SelfId - dist], ofs + 1, ofs + len)

GlzLiteralSent(count) ==
    GlzUnderWay(<<count - 1>> \o Fresh(glzOut, count),
                IF Len(glzOut) + count > GlzPixels THEN "bad" ELSE "none",
                Fresh(glzOut, count))
GlzMatchSent(len, ofs, dist) ==
    GlzUnderWay(GlzMatch(len, ofs, dist), Verdict(len, ofs, dist), Matched(len, ofs, dist))

GlzSent ==
    /\ Len(glzOut) < GlzPixels
    /\ \/ \E count \in 1 .. 2 * Low : GlzLiteralSent(count)
       \/ \E len \in 1 .. GlzPixels, ofs \in 0 .. GlzPixels, dist \in 0 .. SelfId - 1 :
            GlzMatchSent(len, ofs, dist)

GlzInv ==
    /\ GlzTyped
    /\ result = "none" => (glzStream = <<>> /\ flaw = "none" /\ glzOut = glzImage) \/ GlzSent
    /\ result \in {"cross_image", "bad"} => flaw = result
    /\ result = "ok" => flaw = "none" /\ glzOut = glzImage

\* A turn of the decoder's loop: what is wrong is said, what is sound is read.
GlzHeeded ==
    IF flaw # "none" THEN Ends(flaw)
    ELSE /\ glzOut' = glzImage /\ glzStream' = <<>> /\ Len(glzImage) <= GlzPixels
         /\ UNCHANGED <<glzImage, result, flaw, tokens>>

\* The pixels of a sound match.
LEMMA MatchedIsCopied ==
    ASSUME GlzTyped, NEW len \in Nat \ {0}, NEW ofs \in Nat, NEW dist \in Nat,
           Verdict(len, ofs, dist) = "none"
    PROVE  /\ Matched(len, ofs, dist) \in Seq(Nat) /\ Len(Matched(len, ofs, dist)) = len
           /\ Len(glzOut) + len <= GlzPixels
           /\ dist = 0 => CopyBack(glzOut, ofs + 1, len) = glzOut \o Matched(len, ofs, dist)
  <1>1. glzOut \in Seq(Nat) /\ Len(glzOut) \in Nat /\ GlzPixels \in Nat
    BY GlzNumbers DEF GlzTyped
  <1>2. Len(glzOut) + len <= GlzPixels
    BY <1>1 DEF Verdict
  <1>3. CASE dist = 0
    <2> DEFINE n == Len(glzOut)
               r == Repeated(glzOut, ofs + 1, len)
               m == SubSeq(r, n + 1, n + len)
    <2>1. ofs + 1 \in 1 .. Len(glzOut)
      BY <1>1, <1>3 DEF Verdict
    <2>2. r \in Seq(Nat) /\ Len(r) = n + len
      BY <1>1, <2>1, RepeatedIsSeq
    <2>3. \A i \in 1 .. n : r[i] = glzOut[i]
      <3> DEFINE more == [i \in 1 .. len |-> glzOut[n - (ofs + 1) + 1 + ((i - 1) % (ofs + 1))]]
      <3>1. more \in Seq(Nat)
        <4>1. \A i \in 1 .. len : (i - 1) % (ofs + 1) \in 0 .. ofs
          <5>1. ofs + 1 \in Nat \ {0} /\ \A i \in 1 .. len : i - 1 \in Nat
            OBVIOUS
          <5> QED BY <5>1
        <4> QED BY <1>1, <2>1, <4>1
      <3>2. r = glzOut \o more
        BY DEF Repeated
      <3> HIDE DEF more, r
      <3>3. Joins(r, glzOut, more)
        BY <1>1, <3>1, <3>2, TwoParts
      <3> QED BY <3>3 DEF Joins
    <2>4. CopyBack(glzOut, ofs + 1, len) = r
      BY <1>1, <2>1, CopyRepeats
    <2> HIDE DEF r
    <2>5. m \in Seq(Nat) /\ Len(m) = len /\ \A i \in 1 .. len : m[i] = r[n + i]
      <3>1. n + 1 \in 1 .. Len(r) + 1 /\ n + len \in Nat /\ n + len <= Len(r)
        BY <1>1, <2>2
      <3> DEFINE a == n + 1
                 b == n + len
      <3>2. /\ a \in 1 .. Len(r) + 1 /\ b \in 0 .. Len(r) /\ a <= b + 1 /\ b - a + 1 = len
            /\ \A i \in 1 .. len : a + i - 1 = n + i
        BY <1>1, <2>2
      <3> HIDE DEF a, b
      <3>3. /\ SubSeq(r, a, b) \in Seq(Nat) /\ Len(SubSeq(r, a, b)) = len
            /\ \A i \in 1 .. len : SubSeq(r, a, b)[i] = r[a + i - 1]
        BY <2>2, <3>2, SubSeqProperties
      <3> QED BY <3>2, <3>3 DEF a, b
    <2> HIDE DEF m
    <2>6. glzOut \o m = r
      <3> DEFINE g == glzOut \o m
      <3>1. Joins(g, glzOut, m)
        BY <1>1, <2>5, TwoParts
      <3> HIDE DEF g
      <3>2. g \in Seq(Nat) /\ Len(g) = n + len
        BY <2>5, <3>1 DEF Joins
      <3>3. \A i \in 1 .. n + len : g[i] = r[i]
        <4> SUFFICES ASSUME NEW i \in 1 .. n + len PROVE g[i] = r[i]
          OBVIOUS
        <4>1. CASE i <= n
          <5>1. i \in 1 .. n
            BY <1>1, <4>1
          <5> QED BY <2>3, <3>1, <5>1 DEF Joins
        <4>2. CASE i > n
          <5>1. i - n \in 1 .. len /\ n + (i - n) = i
            BY <1>1, <4>2
          <5>2. g[n + (i - n)] = m[i - n] /\ m[i - n] = r[n + (i - n)]
            BY <2>5, <3>1, <5>1 DEF Joins
          <5> QED BY <5>1, <5>2
        <4> QED BY <1>1, <4>1, <4>2
      <3>4. g = r
        BY <1>1, <2>2, <3>2, <3>3
      <3> QED BY <3>4 DEF g
    <2>7. Matched(len, ofs, dist) = m
      BY <1>3 DEF Matched, m, r
    <2> QED BY <1>2, <2>4, <2>5, <2>6, <2>7
  <1>4. CASE dist # 0
    <2> DEFINE e == Dictionary[SelfId - dist]
    <2>1. e \in Seq(Nat) /\ ofs + len <= Len(e)
      <3>1. SelfId - dist \in DOMAIN Dictionary /\ ofs + len <= Len(Dictionary[SelfId - dist])
        <4>1. SelfId - dist \in DOMAIN Dictionary /\ ~(ofs + len > Len(Dictionary[SelfId - dist]))
          BY <1>4 DEF Verdict
        <4>2. Len(Dictionary[SelfId - dist]) \in Nat
          BY <4>1, GlzDecoderAssumption
        <4> QED BY <4>1, <4>2
      <3> QED BY <3>1, GlzDecoderAssumption
    <2> HIDE DEF e
    <2>2. SubSeq(e, ofs + 1, ofs + len) \in Seq(Nat) /\ Len(SubSeq(e, ofs + 1, ofs + len)) = len
      BY <2>1
    <2>3. Matched(len, ofs, dist) = SubSeq(e, ofs + 1, ofs + len)
      BY <1>4 DEF Matched, e
    <2> QED BY <1>2, <1>4, <2>2, <2>3
  <1> QED BY <1>3, <1>4

\* A match that has come as a whole is copied, or what is wrong with it is said.
LEMMA GlzCopies ==
    ASSUME GlzTyped, NEW len \in Nat \ {0}, NEW ofs \in Nat, NEW dist \in Nat,
           NEW match, match.dist = dist, match.ofs = ofs, GlzCopy(len, match)
    PROVE  IF Verdict(len, ofs, dist) # "none" THEN Ends(Verdict(len, ofs, dist))
           ELSE GlzWrites(glzOut \o Matched(len, ofs, dist))
  <1>1. CASE Len(glzOut) + len > GlzPixels
    BY <1>1 DEF GlzCopy, Verdict
  <1>2. CASE ~(Len(glzOut) + len > GlzPixels) /\ dist = 0
    <2>1. IF ofs + 1 > Len(glzOut) THEN Ends("bad") ELSE GlzWrites(CopyBack(glzOut, ofs + 1, len))
      BY <1>2 DEF GlzCopy
    <2>2. CASE ofs + 1 > Len(glzOut)
      BY <1>2, <2>1, <2>2 DEF Verdict
    <2>3. CASE ~(ofs + 1 > Len(glzOut))
      <3>1. Verdict(len, ofs, dist) = "none"
        BY <1>2, <2>3 DEF Verdict
      <3> QED BY <1>2, <2>1, <2>3, <3>1, MatchedIsCopied
    <2> QED BY <2>2, <2>3
  <1>3. CASE ~(Len(glzOut) + len > GlzPixels) /\ dist # 0
    <2> DEFINE id == SelfId - dist
    <2>1. IF id \notin DOMAIN Dictionary THEN Ends("cross_image")
          ELSE IF ~InWindow(ofs, len, Dictionary[id]) THEN Ends("bad")
          ELSE GlzWrites(glzOut \o SubSeq(Dictionary[id], ofs + 1, ofs + len))
      BY <1>3 DEF GlzCopy
    <2>2. CASE id \notin DOMAIN Dictionary
      BY <1>3, <2>1, <2>2 DEF Verdict
    <2>3. CASE id \in DOMAIN Dictionary
      <3>1. InWindow(ofs, len, Dictionary[id]) <=> ~(ofs + len > Len(Dictionary[id]))
        <4>1. Len(Dictionary[id]) \in Nat
          BY <2>3, GlzDecoderAssumption
        <4> HIDE DEF id
        <4> QED BY <4>1 DEF InWindow
      <3>2. Verdict(len, ofs, dist) = IF ofs + len > Len(Dictionary[id]) THEN "bad" ELSE "none"
        BY <1>3, <2>3 DEF Verdict
      <3>3. Matched(len, ofs, dist) = SubSeq(Dictionary[id], ofs + 1, ofs + len)
        BY <1>3 DEF Matched
      <3> HIDE DEF id
      <3> QED BY <2>1, <2>3, <3>1, <3>2, <3>3
    <2> QED BY <2>2, <2>3
  <1> QED BY <1>1, <1>2, <1>3

\* What the decoder finds of a GLZ match of which k places have come.
GlzFound(s, t, k, end, length, more, rest, long) ==
    LET stop == IF length = GlzLenCodes - 1 THEN ContinuedEnd(s, 2) ELSE 1 IN
    /\ s \in Seq(Nat) /\ s # <<>> /\ Len(s) = k
    /\ Head(s) = t[1] /\ Head(s) >= 2 * Low /\ Head(s) \div (2 * Low) = length
    /\ ((Head(s) \div Low) % 2 = 1) <=> long
    /\ k < end + 2 <=> (stop = 0 \/ Len(s) < stop + 2)
    /\ k >= end + 2 => stop = end /\ s[end + 1] = t[end + 1] /\ s[end + 2] = t[end + 2]
    /\ k = Len(t) => s = t

\* It finds so.
LEMMA GlzMatchIsFound ==
    ASSUME NEW t, NEW end \in Nat \ {0}, NEW length \in 1 .. GlzLenCodes - 1,
           NEW more \in 0 .. 3, NEW rest \in 0 .. 2 * Middle - 1, NEW long \in BOOLEAN,
           NEW len \in Nat \ {0}, NEW ofs \in Nat, NEW dist \in Nat,
           GlzLayout(t, end, length, more, rest, long, len, ofs, dist),
           NEW k \in 1 .. Len(t), NEW s, s = SubSeq(t, 1, k)
    PROVE  GlzFound(s, t, k, end, length, more, rest, long)
  <1> DEFINE full == GlzLenCodes - 1
             stop == IF length = full THEN ContinuedEnd(s, 2) ELSE 1
  <1>1. t \in Seq(Nat)
    BY DEF GlzLayout
  <1>2. /\ s \in Seq(Nat) /\ Len(s) = k /\ \A i \in 1 .. k : s[i] = t[i]
        /\ k = Len(t) => s = t
        /\ s # <<>> /\ Head(s) = t[1]
    <2>1. k \in 0 .. Len(t) /\ k > 0 /\ k # 0
      BY <1>1
    <2>2. s \in Seq(Nat) /\ Len(s) = k /\ \A i \in 1 .. k : s[i] = t[i]
      BY <1>1, <2>1
    <2>3. k = Len(t) => s = t
      BY <1>1, <2>1
    <2> QED BY <2>1, <2>2, <2>3
  <1>3. EndsAt(t, end, length, full)
    BY DEF GlzLayout, GlzLengthIn, EndsAt
  <1>4. stop = IF k < end THEN 0 ELSE end
    <2> HIDE DEF full
    <2>1. s = SubSeq(t, 1, k)
      OBVIOUS
    <2>2. Stop(SubSeq(t, 1, k), length, full) = IF k < end THEN 0 ELSE end
      BY <1>1, <1>3, StopFound
    <2> QED BY <2>1, <2>2 DEF Stop
  <1> HIDE DEF stop
  <1>5. k < end + 2 <=> (stop = 0 \/ Len(s) < stop + 2)
    BY <1>1, <1>2, <1>4
  <1>6. k >= end + 2 => stop = end /\ s[end + 1] = t[end + 1] /\ s[end + 2] = t[end + 2]
    BY <1>1, <1>2, <1>4
  <1>7. /\ Head(s) >= 2 * Low /\ Head(s) \div (2 * Low) = length
        /\ ((Head(s) \div Low) % 2 = 1) <=> long
    BY <1>2 DEF GlzLayout
  <1> QED BY <1>2, <1>5, <1>6, <1>7 DEF GlzFound, stop, full

\* What a match says when it has come as far as its offset and distance.
Says(t, k, end, ofs, dist) ==
    /\ MatchAt(end + 1).end = Len(t)
    /\ k = Len(t) => MatchAt(end + 1).dist = dist /\ MatchAt(end + 1).ofs = ofs

\* It says so.
LEMMA MatchAtSays ==
    ASSUME NEW t, NEW end \in Nat \ {0}, NEW length \in 1 .. GlzLenCodes - 1,
           NEW more \in 0 .. 3, NEW rest \in 0 .. 2 * Middle - 1, NEW long \in BOOLEAN,
           NEW len \in Nat \ {0}, NEW ofs \in Nat, NEW dist \in Nat,
           GlzLayout(t, end, length, more, rest, long, len, ofs, dist),
           NEW k \in 1 .. Len(t), k >= end + 2,
           GlzFound(glzStream, t, k, end, length, more, rest, long)
    PROVE  Says(t, k, end, ofs, dist)
  <1> DEFINE m == MatchAt(end + 1)
             far == long /\ rest >= Middle
             last == (end + 1) + 1 + more + (IF far THEN 1 ELSE 0)
             o == (Head(glzStream) % Low) + Low * glzStream[end + 1]
                  + (IF long THEN Short * (rest % Middle) ELSE 0)
                  + (IF far THEN Medium * glzStream[last] ELSE 0)
             d == ImageDist(long, rest, Gather((end + 1) + 2, more))
  <1>1. /\ (Head(glzStream) \div Low) % 2 = 1 <=> long
        /\ glzStream[end + 1] = t[end + 1] /\ glzStream[end + 2] = t[end + 2]
        /\ Head(glzStream) = t[1] /\ Len(glzStream) = k
        /\ k = Len(t) => glzStream = t
    BY DEF GlzFound
  <1>2. (end + 1) + 1 = end + 2
    OBVIOUS
  <1>3. /\ glzStream[(end + 1) + 1] \div (2 * Middle) = more
        /\ glzStream[(end + 1) + 1] % (2 * Middle) = rest
    BY <1>1, <1>2 DEF GlzLayout, GlzDistanceIn
  <1>4. m = IF last > Len(glzStream) THEN [end |-> last] ELSE [dist |-> d, ofs |-> o, end |-> last]
    BY <1>1, <1>3 DEF MatchAt
  <1>5. last = Len(t)
    BY DEF GlzLayout, GlzDistanceIn
  <1>6. m.end = Len(t)
    <2> HIDE DEF last, o, d
    <2> QED BY <1>4, <1>5
  <1>7. ASSUME k = Len(t) PROVE m.dist = dist /\ m.ofs = ofs
    <2>1. glzStream = t
      BY <1>1, <1>7
    <2>2. Gather((end + 1) + 2, more) = Gathered(t, end + 3, more)
      <3>1. (end + 1) + 2 = end + 3
        OBVIOUS
      <3>2. Gather(end + 3, more) = Gathered(t, end + 3, more)
        BY <2>1 DEF Gather, Gathered
      <3> QED BY <3>1, <3>2
    <2>3. d = dist
      BY <2>2 DEF GlzLayout, GlzDistanceIn
    <2>4. o = ofs
      <3> DEFINE z == IF far THEN Medium * t[Len(t)] ELSE 0
      <3>1. (IF far THEN Medium * glzStream[last] ELSE 0) = z
        BY <1>5, <2>1
      <3>2. ofs = (t[1] % Low) + Low * t[end + 1] + (IF long THEN Short * (rest % Middle) ELSE 0) + z
        BY DEF GlzLayout, GlzOffsetIn
      <3> HIDE DEF z, far, last
      <3> QED BY <1>1, <3>1, <3>2
    <2>5. ~(last > Len(glzStream))
      <3> HIDE DEF last
      <3>1. Len(t) \in Nat
        BY DEF GlzLayout
      <3> QED BY <1>5, <2>1, <3>1
    <2> HIDE DEF o, d, last
    <2>6. m = [dist |-> d, ofs |-> o, end |-> last]
      BY <1>4, <2>5
    <2> HIDE DEF m
    <2> QED BY <2>3, <2>4, <2>6
  <1> QED BY <1>6, <1>7 DEF Says

\* A GLZ match, read or refused.
LEMMA GlzMatchIsRead ==
    ASSUME GlzTyped, NEW len \in 1 .. GlzPixels, NEW ofs \in 0 .. GlzPixels,
           NEW dist \in 0 .. SelfId - 1, GlzMatchSent(len, ofs, dist), GlzBackReference
    PROVE  GlzHeeded
  <1> DEFINE t == GlzMatch(len, ofs, dist)
             wrong == Verdict(len, ofs, dist)
             pixels == Matched(len, ofs, dist)
  <1>1. /\ GlzPixels \in Nat /\ SelfId \in Nat /\ SelfId <= Byte * Byte * Byte
        /\ Byte * Byte * Byte \in Nat
    <2>1. Byte \in Nat
      BY GlzNumbers
    <2> QED BY <2>1, GlzNumbers
  <1>2. len \in Nat \ {0} /\ ofs \in Nat /\ dist \in Nat /\ dist < Byte * Byte * Byte
    BY <1>1
  <1>3. PICK end \in Nat \ {0}, length \in 1 .. GlzLenCodes - 1, more \in 0 .. 3,
             rest \in 0 .. 2 * Middle - 1, long \in BOOLEAN :
          GlzLayout(t, end, length, more, rest, long, len, ofs, dist)
    BY <1>2, GlzMatchLayout
  <1>4. GlzUnderWay(t, wrong, pixels)
    BY DEF GlzMatchSent
  <1> HIDE DEF t, wrong, pixels
  <1>5. PICK k \in 0 .. Len(t) :
          glzStream = SubSeq(t, 1, k) /\ flaw = IF k < Len(t) THEN "bad" ELSE wrong
    BY <1>4 DEF GlzUnderWay
  <1>6. t \in Seq(Nat) /\ glzStream # <<>>
    BY <1>3 DEF GlzLayout, GlzBackReference
  <1>7. k \in 1 .. Len(t)
    BY <1>5, <1>6, Beginning
  <1>8. GlzFound(glzStream, t, k, end, length, more, rest, long)
    BY <1>2, <1>3, <1>5, <1>7, GlzMatchIsFound
  <1> DEFINE m == MatchAt(end + 1)
             stop == IF length = GlzLenCodes - 1 THEN ContinuedEnd(glzStream, 2) ELSE 1
  <1>9. /\ Head(glzStream) \div (2 * Low) = length /\ Len(glzStream) = k
        /\ k < end + 2 <=> (stop = 0 \/ Len(glzStream) < stop + 2)
        /\ k >= end + 2 => stop = end
        /\ k = Len(t) => glzStream = t
    BY <1>8 DEF GlzFound
  <1>10. /\ k >= end + 2 => m.end = Len(t)
         /\ k = Len(t) /\ k >= end + 2 => m.dist = dist /\ m.ofs = ofs
    <2>1. CASE k >= end + 2
      <3>1. Says(t, k, end, ofs, dist)
        BY <1>2, <1>3, <1>7, <1>8, <2>1, MatchAtSays
      <3> QED BY <3>1 DEF Says
    <2>2. CASE ~(k >= end + 2)
      BY <2>2
    <2> QED BY <2>1, <2>2
  <1> HIDE DEF m
  <1>11. k < end + 2 => Ends("bad")
    BY <1>9 DEF GlzBackReference
  <1>12. k >= end + 2 =>
           IF m.end > Len(glzStream) THEN Ends("bad")
           ELSE GlzCopy(length + (IF length = GlzLenCodes - 1 THEN ContinuedSum(glzStream, 2, end)
                                  ELSE 0), m)
    BY <1>9 DEF GlzBackReference, m
  <1>13. Len(t) >= end + 2 /\ Len(t) \in Nat
    BY <1>3 DEF GlzLayout, GlzDistanceIn
  <1>14. k < Len(t) => Ends("bad")
    <2> SUFFICES ASSUME k < Len(t), k >= end + 2 PROVE Ends("bad")
      BY <1>7, <1>11, <1>13
    <2> QED BY <1>7, <1>9, <1>10, <1>12, <1>13
  <1>15. k = Len(t) => IF wrong # "none" THEN Ends(wrong) ELSE GlzWrites(glzOut \o pixels)
    <2> SUFFICES ASSUME k = Len(t)
                 PROVE  IF wrong # "none" THEN Ends(wrong) ELSE GlzWrites(glzOut \o pixels)
      OBVIOUS
    <2>1. glzStream = t /\ k >= end + 2
      BY <1>9, <1>13
    <2>2. length + (IF length = GlzLenCodes - 1 THEN ContinuedSum(glzStream, 2, end) ELSE 0) = len
      <3>1. GlzLengthIn(t, end, length, len)
        BY <1>3 DEF GlzLayout
      <3>2. length \in Nat
        BY GlzNumbers
      <3> QED BY <2>1, <3>1, <3>2 DEF GlzLengthIn
    <2>3. ~(m.end > Len(glzStream))
      BY <1>10, <1>13, <2>1
    <2>4. GlzCopy(len, m)
      BY <1>12, <2>1, <2>2, <2>3
    <2>5. m.dist = dist /\ m.ofs = ofs
      BY <1>10, <2>1
    <2> QED BY <1>2, <2>4, <2>5, GlzCopies DEF wrong, pixels
  <1>16. CASE k < Len(t)
    BY <1>5, <1>14, <1>16 DEF GlzHeeded
  <1>17. CASE k = Len(t) /\ wrong # "none"
    BY <1>5, <1>13, <1>15, <1>17 DEF GlzHeeded
  <1>18. CASE k = Len(t) /\ wrong = "none"
    <2>1. flaw = "none" /\ GlzWrites(glzOut \o pixels)
      BY <1>5, <1>13, <1>15, <1>18
    <2>2. glzImage = glzOut \o pixels
      BY <1>4, <2>1 DEF GlzUnderWay
    <2>3. pixels \in Seq(Nat) /\ Len(pixels) = len /\ Len(glzOut) + len <= GlzPixels
      BY <1>2, <1>18, MatchedIsCopied DEF wrong, pixels
    <2>4. Len(glzImage) <= GlzPixels
      <3>1. glzOut \in Seq(Nat)
        BY DEF GlzTyped
      <3> QED BY <2>2, <2>3, <3>1, ConcatProperties
    <2> QED BY <2>1, <2>2, <2>4 DEF GlzWrites, GlzHeeded
  <1> QED BY <1>7, <1>13, <1>16, <1>17, <1>18

\* A GLZ literal run, read or refused.
LEMMA GlzLiteralIsRead ==
    ASSUME GlzTyped, NEW count \in 1 .. 2 * Low, GlzLiteralSent(count), GlzLiteralRun
    PROVE  GlzHeeded
  <1> DEFINE new == Fresh(glzOut, count)
             t == <<count - 1>> \o new
             n == Len(glzOut)
             wrong == IF n + count > GlzPixels THEN "bad" ELSE "none"
  <1>1. n \in Nat /\ GlzPixels \in Nat /\ count \in Nat \ {0} /\ glzOut \in Seq(Nat)
    BY GlzNumbers DEF GlzTyped
  <1>2. new \in Seq(Nat) /\ Len(new) = count
    BY <1>1 DEF Fresh
  <1>3. t \in Seq(Nat) /\ Len(t) = 1 + count /\ t[1] = count - 1 /\ Tail(t) = new
    <2> HIDE DEF new
    <2> QED BY <1>1, <1>2
  <1>4. GlzUnderWay(t, wrong, new)
    BY DEF GlzLiteralSent
  <1> HIDE DEF new, t, n
  <1>5. PICK k \in 0 .. Len(t) :
          glzStream = SubSeq(t, 1, k) /\ flaw = IF k < Len(t) THEN "bad" ELSE wrong
    BY <1>4 DEF GlzUnderWay
  <1>6. glzStream # <<>>
    BY DEF GlzLiteralRun
  <1>7. Len(glzStream) = k /\ k > 0 /\ Head(glzStream) = count - 1 /\ (k = Len(t) => glzStream = t)
    BY <1>3, <1>5, <1>6, Beginning
  <1>8. Head(glzStream) + 1 = count
    BY <1>1, <1>7
  <1>9. IF n + count > GlzPixels \/ Len(glzStream) < 1 + count
        THEN Ends("bad") ELSE GlzWrites(glzOut \o Tail(glzStream))
    BY <1>8 DEF GlzLiteralRun, n
  <1>10. CASE n + count > GlzPixels \/ k < Len(t)
    <2>1. flaw = "bad"
      BY <1>5, <1>10
    <2>2. Ends("bad")
      BY <1>3, <1>7, <1>9, <1>10
    <2> QED BY <2>1, <2>2 DEF GlzHeeded
  <1>11. CASE ~(n + count > GlzPixels) /\ k = Len(t)
    <2>1. flaw = "none" /\ glzImage = glzOut \o new
      BY <1>3, <1>4, <1>5, <1>11 DEF GlzUnderWay
    <2>2. GlzWrites(glzOut \o new)
      <3>1. glzStream = t /\ Tail(glzStream) = new
        BY <1>3, <1>7, <1>11
      <3>2. ~(n + count > GlzPixels \/ Len(glzStream) < 1 + count)
        BY <1>1, <1>3, <1>11, <3>1
      <3>3. GlzWrites(glzOut \o Tail(glzStream))
        BY <1>9, <3>2
      <3> QED BY <3>1, <3>3
    <2>3. Len(glzImage) <= GlzPixels
      BY <1>1, <1>2, <1>11, <2>1, ConcatProperties DEF n
    <2> QED BY <2>1, <2>2, <2>3 DEF GlzWrites, GlzHeeded
  <1> QED BY <1>3, <1>10, <1>11

\* The GLZ tokens.
LEMMA GlzTokens ==
    ASSUME GlzTyped
    PROVE  /\ \A count \in 1 .. 2 * Low :
                LET t == <<count - 1>> \o Fresh(glzOut, count) IN
                /\ t \in Seq(Nat) /\ t # <<>> /\ Head(t) = count - 1
                /\ Fresh(glzOut, count) \in Seq(Nat)
           /\ \A len \in 1 .. GlzPixels, ofs \in 0 .. GlzPixels, dist \in 0 .. SelfId - 1 :
                LET t == GlzMatch(len, ofs, dist) IN
                t \in Seq(Nat) /\ t # <<>> /\ Head(t) >= 2 * Low
  <1>1. ASSUME NEW count \in 1 .. 2 * Low
        PROVE  LET t == <<count - 1>> \o Fresh(glzOut, count) IN
               /\ t \in Seq(Nat) /\ t # <<>> /\ Head(t) = count - 1
               /\ Fresh(glzOut, count) \in Seq(Nat)
    <2> DEFINE new == Fresh(glzOut, count)
    <2>1. new \in Seq(Nat) /\ count - 1 \in Nat
      BY GlzNumbers DEF Fresh, GlzTyped
    <2> HIDE DEF new
    <2>2. /\ <<count - 1>> \o new \in Seq(Nat) /\ <<count - 1>> \o new # <<>>
          /\ Head(<<count - 1>> \o new) = count - 1
      BY <2>1
    <2> QED BY <2>1, <2>2 DEF new
  <1>2. ASSUME NEW len \in 1 .. GlzPixels, NEW ofs \in 0 .. GlzPixels, NEW dist \in 0 .. SelfId - 1
        PROVE  LET t == GlzMatch(len, ofs, dist) IN t \in Seq(Nat) /\ t # <<>> /\ Head(t) >= 2 * Low
    <2>1. /\ GlzPixels \in Nat /\ SelfId \in Nat /\ SelfId <= Byte * Byte * Byte
          /\ Byte * Byte * Byte \in Nat
      <3>1. Byte \in Nat
        BY GlzNumbers
      <3> QED BY <3>1, GlzNumbers
    <2>2. len \in Nat \ {0} /\ ofs \in Nat /\ dist \in Nat /\ dist < Byte * Byte * Byte
      BY <2>1
    <2> DEFINE t == GlzMatch(len, ofs, dist)
    <2>3. t \in Seq(Nat) /\ t # <<>> /\ t[1] >= 2 * Low
      BY <2>2, GlzMatchLayout DEF GlzLayout
    <2> HIDE DEF t
    <2>4. Head(t) = t[1]
      BY <2>3
    <2> QED BY <2>3, <2>4 DEF t
  <1> QED BY <1>1, <1>2

\* While a GLZ token is under way the encoder waits.
LEMMA GlzUnderWayShows ==
    ASSUME NEW t \in Seq(Nat), t # <<>>, NEW wrong, NEW pixels, GlzUnderWay(t, wrong, pixels)
    PROVE  glzStream # <<>> \/ flaw # "none"
  <1>1. PICK k \in 0 .. Len(t) : glzStream = SubSeq(t, 1, k) /\ flaw = IF k < Len(t) THEN "bad" ELSE wrong
    BY DEF GlzUnderWay
  <1>2. CASE k < Len(t)
    BY <1>1, <1>2
  <1>3. CASE k = Len(t)
    <2>1. glzStream = t
      BY <1>1, <1>3, Beginning
    <2> QED BY <2>1
  <1> QED BY <1>2, <1>3

\* What the GLZ decoder is to say of the token sent.
LEMMA GlzSentShows ==
    ASSUME GlzTyped, GlzSent
    PROVE  Len(glzOut) < GlzPixels /\ (glzStream # <<>> \/ flaw # "none")
  <1>1. CASE \E count \in 1 .. 2 * Low : GlzLiteralSent(count)
    <2>1. PICK count \in 1 .. 2 * Low : GlzLiteralSent(count)
      BY <1>1
    <2> DEFINE t == <<count - 1>> \o Fresh(glzOut, count)
    <2>2. t \in Seq(Nat) /\ t # <<>>
      BY GlzTokens
    <2> QED BY <2>1, <2>2, GlzUnderWayShows DEF GlzLiteralSent, GlzSent
  <1>2. CASE \E len \in 1 .. GlzPixels, ofs \in 0 .. GlzPixels, dist \in 0 .. SelfId - 1 :
               GlzMatchSent(len, ofs, dist)
    <2>1. PICK len \in 1 .. GlzPixels, ofs \in 0 .. GlzPixels, dist \in 0 .. SelfId - 1 :
            GlzMatchSent(len, ofs, dist)
      BY <1>2
    <2>2. GlzMatch(len, ofs, dist) \in Seq(Nat) /\ GlzMatch(len, ofs, dist) # <<>>
      BY GlzTokens
    <2> QED BY <2>1, <2>2, GlzUnderWayShows DEF GlzMatchSent, GlzSent
  <1> QED BY <1>1, <1>2 DEF GlzSent

\* Each turn of the GLZ decoder reads the token or says what is wrong with it.
LEMMA GlzTurnDecodes ==
    ASSUME GlzInv, NoGlzControlByte \/ GlzLiteralRun \/ GlzBackReference
    PROVE  result = "none" /\ GlzHeeded
  <1>1. GlzTyped /\ result = "none" /\ (glzStream # <<>> \/ flaw # "none")
    BY DEF GlzInv, NoGlzControlByte, GlzLiteralRun, GlzBackReference, GlzTurn
  <1>2. GlzSent
    BY <1>1 DEF GlzInv
  <1>3. CASE glzStream = <<>>
    <2>1. NoGlzControlByte /\ flaw # "none"
      BY <1>1, <1>3 DEF GlzLiteralRun, GlzBackReference
    <2>2. Ends("bad")
      BY <2>1 DEF NoGlzControlByte
    <2>3. flaw = "bad"
      <3>1. \A t \in Seq(Nat) : \A wrong, pixels :
              t # <<>> /\ GlzUnderWay(t, wrong, pixels) => flaw = "bad"
        <4> SUFFICES ASSUME NEW t \in Seq(Nat), NEW wrong, NEW pixels, t # <<>>,
                            GlzUnderWay(t, wrong, pixels)
                     PROVE  flaw = "bad"
          OBVIOUS
        <4>1. PICK k \in 0 .. Len(t) :
                glzStream = SubSeq(t, 1, k) /\ flaw = IF k < Len(t) THEN "bad" ELSE wrong
          BY DEF GlzUnderWay
        <4>2. k < Len(t)
          <5>1. k = 0
            BY <1>3, <4>1, Beginning
          <5>2. Len(t) > 0
            OBVIOUS
          <5> QED BY <5>1, <5>2
        <4> QED BY <4>1, <4>2
      <3>2. CASE \E count \in 1 .. 2 * Low : GlzLiteralSent(count)
        BY <1>1, <3>1, <3>2, GlzTokens DEF GlzLiteralSent
      <3>3. CASE \E len \in 1 .. GlzPixels, ofs \in 0 .. GlzPixels, dist \in 0 .. SelfId - 1 :
                   GlzMatchSent(len, ofs, dist)
        BY <1>1, <3>1, <3>3, GlzTokens DEF GlzMatchSent
      <3> QED BY <1>2, <3>2, <3>3 DEF GlzSent
    <2> QED BY <1>1, <2>2, <2>3 DEF GlzHeeded
  <1>4. CASE glzStream # <<>> /\ \E count \in 1 .. 2 * Low : GlzLiteralSent(count)
    <2>1. PICK count \in 1 .. 2 * Low : GlzLiteralSent(count)
      BY <1>4
    <2> DEFINE t == <<count - 1>> \o Fresh(glzOut, count)
    <2>2. t \in Seq(Nat) /\ Head(t) = count - 1 /\ t # <<>>
      BY <1>1, GlzTokens
    <2> HIDE DEF t
    <2>3. PICK k \in 0 .. Len(t) : glzStream = SubSeq(t, 1, k)
      BY <2>1 DEF GlzLiteralSent, GlzUnderWay, t
    <2>4. Head(glzStream) = count - 1
      <3>1. k > 0
        BY <1>4, <2>2, <2>3, Beginning
      <3>2. Head(glzStream) = t[1]
        BY <2>2, <2>3, <3>1, Beginning
      <3> QED BY <2>2, <3>2
    <2>5. Head(glzStream) < 2 * Low /\ 2 * Low \in Nat
      BY <1>1, <2>4, GlzNumbers
    <2>6. ~NoGlzControlByte /\ ~GlzBackReference
      BY <1>4, <2>4, <2>5 DEF NoGlzControlByte, GlzBackReference
    <2> QED BY <1>1, <2>1, <2>6, GlzLiteralIsRead
  <1>5. CASE /\ glzStream # <<>>
             /\ \E len \in 1 .. GlzPixels, ofs \in 0 .. GlzPixels, dist \in 0 .. SelfId - 1 :
                  GlzMatchSent(len, ofs, dist)
    <2>1. PICK len \in 1 .. GlzPixels, ofs \in 0 .. GlzPixels, dist \in 0 .. SelfId - 1 :
            GlzMatchSent(len, ofs, dist)
      BY <1>5
    <2> DEFINE t == GlzMatch(len, ofs, dist)
    <2>2. t \in Seq(Nat) /\ Head(t) >= 2 * Low /\ t # <<>>
      BY <1>1, GlzTokens
    <2> HIDE DEF t
    <2>3. PICK k \in 0 .. Len(t) : glzStream = SubSeq(t, 1, k)
      BY <2>1 DEF GlzMatchSent, GlzUnderWay, t
    <2>4. Head(glzStream) >= 2 * Low
      <3>1. k > 0
        BY <1>5, <2>2, <2>3, Beginning
      <3>2. Head(glzStream) = t[1] /\ t[1] = Head(t)
        BY <2>2, <2>3, <3>1, Beginning
      <3> QED BY <2>2, <3>2
    <2>5. Head(glzStream) \in Nat /\ 2 * Low \in Nat
      <3>1. glzStream \in Seq(Nat)
        BY <2>2, <2>3, Beginning
      <3>2. Head(glzStream) \in Nat
        BY <1>5, <3>1
      <3> QED BY <3>2, GlzNumbers
    <2>6. ~NoGlzControlByte /\ ~GlzLiteralRun
      BY <1>5, <2>4, <2>5 DEF NoGlzControlByte, GlzLiteralRun
    <2> QED BY <1>1, <2>1, <2>6, GlzMatchIsRead
  <1> QED BY <1>1, <1>2, <1>3, <1>4, <1>5 DEF GlzSent

\* What the GLZ encoder leaves behind.
GlzSends(t, wrong, pixels) ==
    /\ \E k \in 0 .. Len(t) :
         /\ glzStream' = SubSeq(t, 1, k)
         /\ flaw' = IF k < Len(t) THEN "bad" ELSE wrong
    /\ flaw' = "none" => glzImage' = glzOut \o pixels

\* Before it sends, encoder and decoder are at the same place.
LEMMA GlzWaits ==
    ASSUME GlzInv, GlzEncoderReady
    PROVE  /\ GlzTyped /\ result = "none" /\ glzOut = glzImage /\ Len(glzOut) < GlzPixels
           /\ glzOut \in Seq(Nat) /\ Len(glzOut) \in Nat /\ GlzPixels \in Nat
  BY GlzSentShows, GlzNumbers DEF GlzInv, GlzEncoderReady, GlzTyped

\* After GlzEmit the token is under way.
LEMMA GlzEmitSends ==
    ASSUME GlzInv, GlzEncoderReady, NEW t \in Seq(Nat), NEW wrong \in {"none", "cross_image", "bad"},
           NEW pixels, NEW added, GlzEmit(t, wrong, added),
           wrong = "none" => added = pixels /\ pixels \in Seq(Nat), UNCHANGED <<glzOut, result>>
    PROVE  GlzSends(t, wrong, pixels) /\ GlzTyped' /\ result' = "none" /\ Len(glzOut') < GlzPixels
  <1>1. /\ GlzTyped /\ result = "none" /\ glzOut = glzImage /\ Len(glzOut) < GlzPixels
        /\ glzOut \in Seq(Nat)
    BY GlzWaits
  <1>2. PICK k \in 0 .. Len(t) :
          /\ glzStream' = SubSeq(t, 1, k)
          /\ flaw' = IF k < Len(t) THEN "bad" ELSE wrong
          /\ glzImage' = IF flaw' = "none" THEN glzImage \o added ELSE glzImage
          /\ tokens' = tokens + 1
    BY DEF GlzEmit
  <1>3. flaw' = "none" => wrong = "none"
    BY <1>2
  <1>4. flaw' = "none" => glzImage' = glzOut \o pixels /\ pixels \in Seq(Nat)
    BY <1>1, <1>2, <1>3
  <1>5. glzImage' \in Seq(Nat)
    BY <1>1, <1>2, <1>4, ConcatProperties
  <1>6. flaw' \in {"none", "cross_image", "bad"}
    BY <1>2
  <1>7. tokens' \in 0 .. MaxTokens
    <2>1. tokens < MaxTokens /\ tokens \in 0 .. MaxTokens /\ MaxTokens \in Nat
      BY <1>1, GlzDecoderAssumption DEF GlzEncoderReady, GlzTyped
    <2> QED BY <1>2, <2>1
  <1>8. GlzTyped'
    BY <1>1, <1>5, <1>6, <1>7 DEF GlzTyped
  <1>9. GlzSends(t, wrong, pixels)
    BY <1>2, <1>4 DEF GlzSends
  <1> QED BY <1>1, <1>8, <1>9

\* The steps of the GLZ encoder and decoder.
LEMMA SendGlzLiteralKeeps == ASSUME GlzInv, SendGlzLiteral PROVE GlzInv'
  <1>1. PICK count \in 1 .. 2 * Low :
          GlzEmit(<<count - 1>> \o Fresh(glzImage, count),
                  IF Len(glzImage) + count > GlzPixels THEN "bad" ELSE "none",
                  Fresh(glzImage, count))
    BY DEF SendGlzLiteral
  <1>2. GlzEncoderReady /\ UNCHANGED <<glzOut, result>>
    BY DEF SendGlzLiteral
  <1>3. GlzTyped /\ glzOut = glzImage
    BY <1>2, GlzWaits
  <1> DEFINE new == Fresh(glzOut, count)
             t == <<count - 1>> \o new
             wrong == IF Len(glzOut) + count > GlzPixels THEN "bad" ELSE "none"
  <1>4. t \in Seq(Nat) /\ new \in Seq(Nat)
    BY <1>3, GlzTokens
  <1>5. GlzEmit(t, wrong, new) /\ wrong \in {"none", "cross_image", "bad"}
    BY <1>1, <1>3
  <1>6. GlzSends(t, wrong, new) /\ GlzTyped' /\ result' = "none" /\ Len(glzOut') < GlzPixels
    <2> HIDE DEF t, wrong, new
    <2> QED BY <1>2, <1>4, <1>5, GlzEmitSends
  <1>7. GlzLiteralSent(count)'
    <2>1. glzOut' = glzOut
      BY <1>2
    <2> QED BY <1>6, <2>1 DEF GlzLiteralSent, GlzUnderWay, GlzSends
  <1> QED BY <1>6, <1>7 DEF GlzInv, GlzSent

\* A match, within the image or in an earlier one, as the encoder leaves it behind.
LEMMA GlzMatchKeeps ==
    ASSUME GlzInv, GlzEncoderReady, NEW len \in 1 .. GlzPixels, NEW ofs \in 0 .. GlzPixels,
           NEW dist \in 0 .. SelfId - 1, NEW added,
           GlzEmit(GlzMatch(len, ofs, dist), Verdict(len, ofs, dist), added),
           Verdict(len, ofs, dist) = "none" => added = Matched(len, ofs, dist),
           UNCHANGED <<glzOut, result>>
    PROVE  GlzInv'
  <1> DEFINE t == GlzMatch(len, ofs, dist)
             wrong == Verdict(len, ofs, dist)
             pixels == Matched(len, ofs, dist)
  <1>1. GlzTyped
    BY GlzWaits
  <1>2. t \in Seq(Nat)
    BY <1>1, GlzTokens
  <1>3. wrong \in {"none", "cross_image", "bad"}
    BY DEF Verdict
  <1>4. wrong = "none" => added = pixels /\ pixels \in Seq(Nat)
    <2>1. len \in Nat \ {0} /\ ofs \in Nat /\ dist \in Nat
      BY GlzNumbers
    <2> QED BY <1>1, <2>1, MatchedIsCopied
  <1>5. GlzSends(t, wrong, pixels) /\ GlzTyped' /\ result' = "none" /\ Len(glzOut') < GlzPixels
    <2>1. GlzEmit(t, wrong, added)
      OBVIOUS
    <2> HIDE DEF t, wrong, pixels
    <2> QED BY <1>2, <1>3, <1>4, <2>1, GlzEmitSends
  <1>6. GlzMatchSent(len, ofs, dist)'
    <2>1. glzOut' = glzOut
      OBVIOUS
    <2>2. Verdict(len, ofs, dist)' = wrong /\ Matched(len, ofs, dist)' = pixels
      BY <2>1 DEF Verdict, Matched
    <2> HIDE DEF wrong, pixels
    <2> QED BY <1>5, <2>1, <2>2 DEF GlzMatchSent, GlzUnderWay, GlzSends
  <1> QED BY <1>5, <1>6 DEF GlzInv, GlzSent

\* A match within the image is sent.
LEMMA SendIntraMatchKeeps == ASSUME GlzInv, SendIntraMatch PROVE GlzInv'
  <1>1. PICK len \in 1 .. GlzPixels, back \in 1 .. GlzPixels :
          LET fits == back <= Len(glzImage) /\ Len(glzImage) + len <= GlzPixels IN
          GlzEmit(GlzMatch(len, back - 1, 0), IF fits THEN "none" ELSE "bad",
                  IF fits THEN SubSeq(Repeated(glzImage, back, len),
                                      Len(glzImage) + 1, Len(glzImage) + len)
                          ELSE <<>>)
    BY DEF SendIntraMatch
  <1>2. GlzEncoderReady /\ UNCHANGED <<glzOut, result>>
    BY DEF SendIntraMatch
  <1>3. /\ GlzTyped /\ glzOut = glzImage /\ Len(glzOut) \in Nat /\ GlzPixels \in Nat
        /\ 0 \in 0 .. SelfId - 1
    BY <1>2, GlzWaits, GlzNumbers
  <1> DEFINE ofs == back - 1
             fits == back <= Len(glzOut) /\ Len(glzOut) + len <= GlzPixels
             pixels == SubSeq(Repeated(glzOut, back, len), Len(glzOut) + 1, Len(glzOut) + len)
             added == IF fits THEN pixels ELSE <<>>
  <1>4. ofs \in 0 .. GlzPixels /\ ofs + 1 = back
    BY <1>3
  <1>5. Verdict(len, ofs, 0) = IF fits THEN "none" ELSE "bad"
    <2> HIDE DEF ofs
    <2> QED BY <1>3, <1>4 DEF Verdict
  <1>6. Matched(len, ofs, 0) = pixels
    <2> HIDE DEF ofs
    <2> QED BY <1>4 DEF Matched
  <1>7. GlzEmit(GlzMatch(len, ofs, 0), Verdict(len, ofs, 0), added)
    <2>1. GlzEmit(GlzMatch(len, ofs, 0), IF fits THEN "none" ELSE "bad", added)
      BY <1>1, <1>3
    <2> HIDE DEF fits, ofs, added
    <2> QED BY <1>5, <2>1
  <1>8. Verdict(len, ofs, 0) = "none" => added = Matched(len, ofs, 0)
    <2> HIDE DEF ofs, pixels
    <2> QED BY <1>5, <1>6
  <1> HIDE DEF ofs, added
  <1> QED BY <1>2, <1>3, <1>4, <1>7, <1>8, GlzMatchKeeps

\* A match in another image is sent.
LEMMA SendCrossMatchKeeps == ASSUME GlzInv, SendCrossMatch PROVE GlzInv'
  <1>1. PICK len \in 1 .. GlzPixels, first \in 0 .. GlzPixels, id \in 1 .. SelfId - 1 :
          LET there == id \in DOMAIN Dictionary
              wrong == CASE Len(glzImage) + len > GlzPixels -> "bad"
                         [] Len(glzImage) + len <= GlzPixels /\ ~there -> "cross_image"
                         [] OTHER -> IF first + len > Len(Dictionary[id]) THEN "bad" ELSE "none"
          IN GlzEmit(GlzMatch(len, first, SelfId - id), wrong,
                     IF wrong = "none" THEN SubSeq(Dictionary[id], first + 1, first + len)
                                       ELSE <<>>)
    BY DEF SendCrossMatch
  <1>2. GlzEncoderReady /\ UNCHANGED <<glzOut, result>>
    BY DEF SendCrossMatch
  <1>3. GlzTyped /\ glzOut = glzImage /\ Len(glzOut) \in Nat /\ GlzPixels \in Nat /\ SelfId \in Nat
    BY <1>2, GlzWaits, GlzNumbers
  <1> DEFINE dist == SelfId - id
             there == id \in DOMAIN Dictionary
             wrong == CASE Len(glzOut) + len > GlzPixels -> "bad"
                        [] Len(glzOut) + len <= GlzPixels /\ ~there -> "cross_image"
                        [] OTHER -> IF first + len > Len(Dictionary[id]) THEN "bad" ELSE "none"
             pixels == SubSeq(Dictionary[id], first + 1, first + len)
             added == IF wrong = "none" THEN pixels ELSE <<>>
  <1>4. dist \in 0 .. SelfId - 1 /\ dist # 0 /\ SelfId - dist = id
    BY <1>3
  <1>5. Verdict(len, first, dist) = wrong
    <2>1. Verdict(len, first, dist)
            = IF Len(glzOut) + len > GlzPixels THEN "bad"
              ELSE IF ~there THEN "cross_image"
              ELSE IF first + len > Len(Dictionary[id]) THEN "bad" ELSE "none"
      <3> HIDE DEF dist
      <3> QED BY <1>4 DEF Verdict
    <2>2. Len(glzOut) + len <= GlzPixels <=> ~(Len(glzOut) + len > GlzPixels)
      BY <1>3
    <2> HIDE DEF there, dist
    <2> QED BY <2>1, <2>2
  <1>6. Matched(len, first, dist) = pixels
    <2> HIDE DEF dist
    <2> QED BY <1>4 DEF Matched
  <1>7. GlzEmit(GlzMatch(len, first, dist), wrong, added)
    BY <1>1, <1>3
  <1>8. /\ GlzEmit(GlzMatch(len, first, dist), Verdict(len, first, dist), added)
        /\ Verdict(len, first, dist) = "none" => added = Matched(len, first, dist)
    <2>1. wrong = "none" => added = pixels
      OBVIOUS
    <2> HIDE DEF wrong, dist, added, pixels
    <2> QED BY <1>5, <1>6, <1>7, <2>1
  <1> HIDE DEF dist, added
  <1> QED BY <1>2, <1>4, <1>8, GlzMatchKeeps

\* A turn of the GLZ decoder.
LEMMA GlzTurnKeeps ==
    ASSUME GlzInv, NoGlzControlByte \/ GlzLiteralRun \/ GlzBackReference
    PROVE  GlzInv'
  <1>1. result = "none" /\ GlzHeeded /\ GlzTyped
    BY GlzTurnDecodes DEF GlzInv
  <1>2. CASE flaw # "none"
    <2>1. Ends(flaw) /\ flaw \in {"cross_image", "bad"}
      BY <1>1, <1>2 DEF GlzHeeded, GlzTyped
    <2>2. GlzTyped'
      BY <1>1, <2>1 DEF Ends, GlzTyped
    <2> QED BY <2>1, <2>2 DEF Ends, GlzInv
  <1>3. CASE flaw = "none"
    <2>1. /\ glzOut' = glzImage /\ glzStream' = <<>> /\ Len(glzImage) <= GlzPixels
          /\ UNCHANGED <<glzImage, result, flaw, tokens>>
      BY <1>1, <1>3 DEF GlzHeeded
    <2>2. GlzTyped'
      BY <1>1, <2>1 DEF GlzTyped
    <2> QED BY <1>1, <1>3, <2>1, <2>2 DEF GlzInv
  <1> QED BY <1>2, <1>3

\* The end of the image.
LEMMA GlzDoneKeeps == ASSUME GlzInv, GlzDone PROVE GlzInv'
  <1>1. GlzTyped /\ result = "none" /\ Len(glzOut) = GlzPixels /\ Ends("ok")
    BY DEF GlzDone, GlzInv
  <1>2. flaw = "none" /\ glzOut = glzImage
    <2>1. ~GlzSent
      BY <1>1, GlzNumbers DEF GlzSent
    <2> QED BY <1>1, <2>1 DEF GlzInv
  <1>3. GlzTyped'
    BY <1>1 DEF Ends, GlzTyped
  <1> QED BY <1>1, <1>2, <1>3 DEF Ends, GlzInv

\* The GLZ decoder is where the encoder is, or one token behind, and says what is wrong
\* with a token it refuses.
THEOREM GlzInvariance == GlzSpec => []GlzInv
  <1>1. GlzInit => GlzInv
    <2> SUFFICES ASSUME GlzInit PROVE GlzInv
      OBVIOUS
    <2>1. PICK k \in 0 .. GlzPixels - 1 : glzImage = Fresh(<<>>, k)
      BY DEF GlzInit
    <2>2. glzImage \in Seq(Nat) /\ Len(glzImage) <= GlzPixels
      <3>1. k \in Nat /\ k <= GlzPixels
        BY GlzNumbers
      <3>2. glzImage \in Seq(Nat) /\ Len(glzImage) = k
        BY <2>1, <3>1 DEF Fresh
      <3> QED BY <3>1, <3>2
    <2>3. GlzTyped
      BY <2>2, GlzDecoderAssumption DEF GlzInit, GlzTyped
    <2> QED BY <2>3 DEF GlzInit, GlzInv
  <1>2. GlzInv /\ [GlzNext]_glzVars => GlzInv'
    <2> SUFFICES ASSUME GlzInv, [GlzNext]_glzVars PROVE GlzInv'
      OBVIOUS
    <2>1. CASE SendGlzLiteral
      BY <2>1, SendGlzLiteralKeeps
    <2>2. CASE SendIntraMatch
      BY <2>2, SendIntraMatchKeeps
    <2>3. CASE SendCrossMatch
      BY <2>3, SendCrossMatchKeeps
    <2>4. CASE NoGlzControlByte \/ GlzLiteralRun \/ GlzBackReference
      BY <2>4, GlzTurnKeeps
    <2>5. CASE GlzDone
      BY <2>5, GlzDoneKeeps
    <2>6. CASE UNCHANGED glzVars
      <3>1. /\ glzImage' = glzImage /\ glzOut' = glzOut /\ glzStream' = glzStream
            /\ result' = result /\ flaw' = flaw /\ tokens' = tokens
        BY <2>6 DEF glzVars
      <3>2. \A count : GlzLiteralSent(count)' <=> GlzLiteralSent(count)
        BY <3>1 DEF GlzLiteralSent, GlzUnderWay
      <3>3. \A len, ofs, dist : GlzMatchSent(len, ofs, dist)' <=> GlzMatchSent(len, ofs, dist)
        BY <3>1 DEF GlzMatchSent, GlzUnderWay, Verdict, Matched
      <3>4. GlzSent' <=> GlzSent
        BY <3>1, <3>2, <3>3 DEF GlzSent
      <3>5. GlzTyped' <=> GlzTyped
        BY <3>1 DEF GlzTyped
      <3> QED BY <3>1, <3>4, <3>5 DEF GlzInv
    <2> QED BY <2>1, <2>2, <2>3, <2>4, <2>5, <2>6 DEF GlzNext
  <1> QED BY <1>1, <1>2, PTL DEF GlzSpec

\* Types, for every image size, field width and window.
THEOREM GlzTypeCorrect == GlzSpec => []GlzTypeOK
  <1>1. GlzInv => GlzTypeOK
    BY DEF GlzInv, GlzTyped, GlzTypeOK
  <1> QED BY <1>1, GlzInvariance, PTL

\* decompress_rgb32_inner undoes the encoder, in the image and in earlier ones, for
\* lengths, offsets and distances of every size and both layouts of them.
THEOREM GlzIsUndone == GlzSpec => []GlzRoundTrip
  <1>1. GlzInv => GlzRoundTrip
    <2> SUFFICES ASSUME GlzInv PROVE GlzRoundTrip
      OBVIOUS
    <2>1. result = "none" /\ glzStream = <<>> /\ flaw = "none" => glzOut = glzImage
      BY GlzSentShows DEF GlzInv
    <2> QED BY <2>1 DEF GlzInv, GlzTyped, GlzRoundTrip
  <1> QED BY <1>1, GlzInvariance, PTL

\* It reports a missing image where one is missing, damage where there is damage, and
\* succeeds otherwise only.
THEOREM GlzRefusalIsRight == GlzSpec => []GlzNamesTheCause
  <1>1. GlzInv => GlzNamesTheCause
    BY DEF GlzInv, GlzNamesTheCause
  <1> QED BY <1>1, GlzInvariance, PTL

\* The GLZ decoder as the runs check it: both of the above.
THEOREM GlzIsExact == GlzSpec => []GlzDecodesExactly
  <1>1. GlzRoundTrip /\ GlzNamesTheCause => GlzDecodesExactly
    BY DEF GlzDecodesExactly
  <1> QED BY <1>1, GlzIsUndone, GlzRefusalIsRight, PTL
=============================================================================
