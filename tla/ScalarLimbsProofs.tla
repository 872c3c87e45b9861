-------------------------- MODULE ScalarLimbsProofs --------------------------
(***************************************************************************)
(* No fold and no carry of sc_reduce and sc_muladd changes the residue     *)
(* modulo L that the limbs stand for, for limbs of any number and size.    *)
(* With the sizes of the code nothing overflows, and the bytes at the end  *)
(* are the least residue.                                                  *)
(***************************************************************************)
EXTENDS ScalarLimbs, NumberTheorems

Terms(v) == [k \in Limbs |-> v[k] * 2^(W * k)]

\* The limbs that the statement at n of a group may be about.
At(p, n) ==
  /\ p \in Labels
  /\ p = "muleven" => n \in 0 .. 2 * N - 2 /\ n % 2 = 0
  /\ p = "mulodd"  => n \in 1 .. 2 * N - 3 /\ n % 2 = 1
  /\ p = "high"    => n \in N + Half .. 2 * N - 1
  /\ p = "mideven" => n \in Half .. N + Half - 2 /\ (n - Half) % 2 = 0
  /\ p = "midodd"  => n \in Half + 1 .. N + Half - 3 /\ (n - Half) % 2 = 1
  /\ p = "low"     => n \in N .. N + Half - 1
  /\ p = "even"    => n \in 0 .. N - 2 /\ n % 2 = 0
  /\ p = "odd"     => n \in 1 .. N - 1 /\ n % 2 = 1
  /\ p \in {"top", "top2"} => n = N
  /\ p = "floor"   => n \in 0 .. N - 1
  /\ p = "floor2"  => n \in 0 .. N - 2

\* A residue alone would not do: a step changes the value by a multiple of L.
IInv ==
  /\ At(phase, i)
  /\ x \in Nat
  /\ s \in [Limbs -> Int]
  /\ \E m \in Int : Value(s) = x + m * Order

LEMMA Sizes ==
  /\ N \in Nat /\ N % 2 = 0 /\ 4 <= N /\ Half \in Nat /\ N = 2 * Half
  /\ W \in Nat \ {0} /\ ByteBits \in Nat \ {0}
  /\ Coef \in [1 .. Half -> Int]
  /\ \A k : k \in Limbs <=> k \in Nat /\ k < 2 * N
<1>1. N \in Nat /\ N % 2 = 0 /\ 4 <= N /\ W \in Nat \ {0} /\ ByteBits \in Nat \ {0}
  BY ScalarAssumption DEF ScalarAssumption
<1>2. Coef \in [1 .. Half -> Int]
  BY ScalarAssumption DEF ScalarAssumption
<1> QED
  BY <1>1, <1>2 DEF Half, Limbs

LEMMA Weights ==
  \A k \in Nat : W * k \in Nat /\ 2^(W * k) \in Nat \ {0} /\ 2^(W * (k + 1)) = Radix * 2^(W * k)
<1> SUFFICES ASSUME NEW k \in Nat
             PROVE  W * k \in Nat /\ 2^(W * k) \in Nat \ {0} /\ 2^(W * (k + 1)) = Radix * 2^(W * k)
  OBVIOUS
<1>1. W * k \in Nat /\ W * (k + 1) = W + W * k
  BY Sizes, MulNat, MulFacts
<1>2. 2^(W + W * k) = 2^W * 2^(W * k)
  BY Sizes, <1>1, PowSum, Zenon
<1>3. 2^(W * k) \in Nat \ {0}
  BY <1>1, PowPositive
<1> QED
  BY <1>1, <1>2, <1>3 DEF Radix

LEMMA TermsInt ==
  ASSUME NEW v \in [Limbs -> Int]
  PROVE  /\ \A k \in 0 .. 2 * N - 1 : Terms(v)[k] = v[k] * 2^(W * k) /\ Terms(v)[k] \in Int
         /\ Value(v) = Total(Terms(v), 2 * N) /\ Value(v) \in Int
<1>1. \A k \in 0 .. 2 * N - 1 : Terms(v)[k] = v[k] * 2^(W * k) /\ Terms(v)[k] \in Int
  <2> SUFFICES ASSUME NEW k \in 0 .. 2 * N - 1
               PROVE  Terms(v)[k] = v[k] * 2^(W * k) /\ Terms(v)[k] \in Int
    OBVIOUS
  <2>0. k \in Limbs
    BY DEF Limbs
  <2>1. k \in Nat /\ v[k] \in Int
    BY ONLY <2>0, v \in [Limbs -> Int], Sizes DEF Limbs
  <2>2. 2^(W * k) \in Int
    BY <2>1, Weights
  <2> QED
    BY <2>0, <2>1, <2>2, MulFacts DEF Terms
<1>2. Value(v) = Total(Terms(v), 2 * N)
  BY DEF Value, Terms
<1>3. Total(Terms(v), 2 * N) \in Int
  <2>1. 2 * N \in Nat
    BY Sizes
  <2>2. \A k \in 0 .. 2 * N - 1 : Terms(v)[k] \in Int
    BY <1>1
  <2> QED
    BY <2>1, <2>2, TotalNext
<1> QED
  BY <1>1, <1>2, <1>3

\* Limbs that are those of v and c times those of g have the sum of the values.
Combined(u, v, c, g) ==
  /\ u \in [Limbs -> Int] /\ v \in [Limbs -> Int] /\ g \in [Limbs -> Int] /\ c \in Int
  /\ \A k \in Limbs : u[k] = v[k] + c * g[k]

LEMMA CombinedValue ==
  ASSUME NEW u, NEW v, NEW c, NEW g, Combined(u, v, c, g)
  PROVE  Value(u) = Value(v) + c * Value(g)
<1>1. /\ u \in [Limbs -> Int] /\ v \in [Limbs -> Int] /\ g \in [Limbs -> Int] /\ c \in Int
      /\ \A k \in Limbs : u[k] = v[k] + c * g[k]
  BY DEF Combined
<1>2. \A k \in 0 .. 2 * N - 1 : /\ Terms(v)[k] \in Int /\ Terms(g)[k] \in Int
                                /\ Terms(u)[k] = Terms(v)[k] + c * Terms(g)[k]
  <2> SUFFICES ASSUME NEW k \in 0 .. 2 * N - 1
               PROVE  /\ Terms(v)[k] \in Int /\ Terms(g)[k] \in Int
                      /\ Terms(u)[k] = Terms(v)[k] + c * Terms(g)[k]
    OBVIOUS
  <2>1. k \in Limbs /\ v[k] \in Int /\ g[k] \in Int /\ u[k] = v[k] + c * g[k]
    <3>1. k \in Limbs
      BY DEF Limbs
    <3> QED
      BY <1>1, <3>1
  <2>2. PICK w \in Nat : w = 2^(W * k)
    BY <2>1, Sizes, Weights
  <2>3. /\ Terms(v)[k] = v[k] * w /\ Terms(g)[k] = g[k] * w /\ Terms(u)[k] = u[k] * w
        /\ Terms(v)[k] \in Int /\ Terms(g)[k] \in Int
    BY <1>1, <2>2, TermsInt
  <2>4. (v[k] + c * g[k]) * w = v[k] * w + c * (g[k] * w)
    <3>1. PICK y \in Int, z \in Int : y = v[k] /\ z = g[k]
      BY <2>1
    <3>2. c * z \in Int /\ (y + c * z) * w = y * w + (c * z) * w
      BY <1>1, MulFacts
    <3>3. (c * z) * w = c * (z * w)
      BY <1>1, MulAssoc
    <3> QED
      BY <3>1, <3>2, <3>3
  <2> QED
    BY <2>1, <2>3, <2>4
<1>3. 2 * N \in Nat
  BY Sizes
<1>4. Total(Terms(u), 2 * N) = Total(Terms(v), 2 * N) + c * Total(Terms(g), 2 * N)
  BY <1>1, <1>2, <1>3, TotalLinear
<1> QED
  BY <1>1, <1>4, TermsInt
-----------------------------------------------------------------------------
\* What a fold adds to the limbs for each unit of the limb it takes, and L itself.
Folding(n) ==
  [k \in Limbs |-> IF k = n THEN -1
                   ELSE IF k - (n - N) \in 0 .. Half - 1 THEN Coef[k - (n - N) + 1] ELSE 0]
OrderLimbs == [k \in Limbs |-> IF k = N THEN 1 ELSE IF k < Half THEN -Coef[k + 1] ELSE 0]

LEMMA OrderInt == OrderLimbs \in [Limbs -> Int] /\ Order = Value(OrderLimbs) /\ Order \in Nat \ {0}
<1>1. OrderLimbs \in [Limbs -> Int]
  <2> SUFFICES ASSUME NEW k \in Limbs
               PROVE  (IF k = N THEN 1 ELSE IF k < Half THEN -Coef[k + 1] ELSE 0) \in Int
    BY DEF OrderLimbs
  <2>1. k < Half => k + 1 \in 1 .. Half
    BY Sizes
  <2>2. k < Half => Coef[k + 1] \in Int
    BY <2>1, Sizes
  <2> QED
    BY <2>2
<1>2. Order = Value(OrderLimbs)
  BY DEF Order, OrderLimbs
<1>3. 0 < Order
  BY ScalarAssumption DEF ScalarAssumption
<1> QED
  BY <1>1, <1>2, <1>3, TermsInt

\* The fold takes L away, as far up as the limb is above the N-th.
LEMMA FoldingValue ==
  ASSUME NEW n \in N .. 2 * N - 1
  PROVE  /\ Folding(n) \in [Limbs -> Int]
         /\ Value(Folding(n)) = (-(2^(W * (n - N)))) * Order
<1> DEFINE g == Folding(n)
<1>1. /\ N \in Nat /\ 4 <= N /\ Half \in Nat /\ N = 2 * Half
      /\ \A k : k \in Limbs <=> k \in Nat /\ k < 2 * N
  BY Sizes
<1>p. PICK p \in 0 .. N - 1 : p = n - N
  BY <1>1
<1>2. \A j \in 1 .. Half : Coef[j] \in Int
  BY Sizes
<1>3. \A k \in Limbs : /\ k = n => g[k] = -1
                       /\ k # n /\ p <= k /\ k < p + Half => g[k] = Coef[k - p + 1]
                       /\ k # n /\ ~(p <= k /\ k < p + Half) => g[k] = 0
  <2> SUFFICES ASSUME NEW k \in Limbs
               PROVE  /\ k = n => g[k] = -1
                      /\ k # n /\ p <= k /\ k < p + Half => g[k] = Coef[k - p + 1]
                      /\ k # n /\ ~(p <= k /\ k < p + Half) => g[k] = 0
    OBVIOUS
  <2>1. g[k] = IF k = n THEN -1 ELSE IF k - p \in 0 .. Half - 1 THEN Coef[k - p + 1] ELSE 0
    BY <1>p DEF Folding
  <2>2. k - p \in 0 .. Half - 1 <=> p <= k /\ k < p + Half
    BY <1>1
  <2> QED
    BY <2>1, <2>2
<1>4. g \in [Limbs -> Int]
  <2>1. \A k \in Limbs : g[k] \in Int
    <3> SUFFICES ASSUME NEW k \in Limbs PROVE g[k] \in Int
      OBVIOUS
    <3>1. p <= k /\ k < p + Half => k - p + 1 \in 1 .. Half
      BY <1>1
    <3> HIDE DEF g
    <3> QED
      BY <1>2, <1>3, <3>1
  <2>2. g = [k \in Limbs |-> g[k]]
    BY DEF Folding
  <2> QED
    BY <2>1, <2>2
<1>5. \A k \in 0 .. 2 * N - 1 : Terms(OrderLimbs)[k] = OrderLimbs[k] * 2^(W * k) /\ Terms(OrderLimbs)[k] \in Int
  BY OrderInt, TermsInt
<1>6. PICK w \in Nat : w = 2^(W * p)
  BY Weights
<1>7. Total(Terms(g), 2 * N) = (-w) * Total(Terms(OrderLimbs), N + 1)
  <2>1. \A k \in 0 .. 2 * N - 1 :
          Terms(g)[k] = IF p <= k /\ k < p + (N + 1) THEN (-w) * Terms(OrderLimbs)[k - p] ELSE 0
    <3> SUFFICES ASSUME NEW k \in 0 .. 2 * N - 1
                 PROVE  Terms(g)[k] = IF p <= k /\ k < p + (N + 1)
                                      THEN (-w) * Terms(OrderLimbs)[k - p] ELSE 0
      OBVIOUS
    <3>1. k \in Limbs /\ k \in Nat
      BY <1>1
    <3>2. Terms(g)[k] = g[k] * 2^(W * k) /\ 2^(W * k) \in Nat
      BY <1>4, <3>1, TermsInt, Weights
    <3> HIDE DEF g
    <3>3. CASE p <= k /\ k < p + (N + 1)
      <4>1. PICK j \in 0 .. N : j = k - p
        BY <1>1, <3>3
      <4>2. 2^(W * k) = w * 2^(W * j) /\ 2^(W * j) \in Nat
        <5>1. PICK m \in Nat, l \in Nat : m = W * p /\ l = W * j
          BY Weights
        <5>2. W * k = m + l
          <6>1. W * (p + j) = W * p + W * j
            BY Sizes, MulFacts
          <6>2. k = p + j
            BY <4>1
          <6> QED
            BY <5>1, <6>1, <6>2
        <5>3. 2^(m + l) = 2^m * 2^l
          BY PowSum
        <5> QED
          BY <1>6, <5>1, <5>2, <5>3, Weights
      <4>3. g[k] = -OrderLimbs[j] /\ OrderLimbs[j] \in Int
        <5>0. j \in Limbs /\ OrderLimbs[j] \in Int
          BY <1>1, OrderInt
        <5>1. OrderLimbs[j] = IF j = N THEN 1 ELSE IF j < Half THEN -Coef[j + 1] ELSE 0
          BY <5>0 DEF OrderLimbs
        <5>2. CASE j = N
          BY <1>1, <1>3, <1>p, <3>1, <4>1, <5>0, <5>1, <5>2
        <5>3. CASE j < Half
          <6>1. k # n /\ p <= k /\ k < p + Half /\ k - p + 1 = j + 1 /\ j + 1 \in 1 .. Half
            BY <1>1, <1>p, <4>1, <5>3
          <6>2. g[k] = Coef[j + 1] /\ Coef[j + 1] \in Int
            BY <1>2, <1>3, <3>1, <6>1
          <6>3. OrderLimbs[j] = -Coef[j + 1]
            BY <1>1, <5>1, <5>3
          <6> QED
            BY <5>0, <6>2, <6>3
        <5>4. CASE j # N /\ ~(j < Half)
          BY <1>1, <1>3, <1>p, <3>1, <4>1, <5>0, <5>1, <5>4
        <5> QED
          BY <1>1, <5>2, <5>3, <5>4
      <4>4. Terms(OrderLimbs)[j] = OrderLimbs[j] * 2^(W * j)
        BY <1>1, <1>5
      <4>5. PICK y \in Int, z \in Nat : y = OrderLimbs[j] /\ z = 2^(W * j)
        BY <4>2, <4>3
      <4>6. (-y) * (w * z) = (-w) * (y * z)
        <5>1. w * (y * z) = (w * y) * z /\ y * (w * z) = (y * w) * z /\ w * y = y * w
          BY MulAssoc, MulFacts
        <5>2. w * z \in Int /\ y * z \in Int
          BY MulFacts
        <5>3. y * (w * z) = w * (y * z) /\ y * (w * z) \in Int /\ w * (y * z) \in Int
          BY <5>1, <5>2, MulFacts
        <5> QED
          BY <5>2, <5>3
      <4> QED
        BY <3>2, <3>3, <4>1, <4>2, <4>3, <4>4, <4>5, <4>6
    <3>4. CASE ~(p <= k /\ k < p + (N + 1))
      <4>1. k # n /\ ~(p <= k /\ k < p + Half)
        BY <1>1, <1>p, <3>4
      <4>2. g[k] = 0
        BY <1>3, <3>1, <4>1
      <4> QED
        BY <3>2, <3>4, <4>2
    <3> QED
      BY <3>3, <3>4
  <2>2. ShiftedBy(Terms(g), 2 * N, Terms(OrderLimbs), N + 1, p, -w)
    <3>1. p \in Nat /\ N + 1 \in Nat /\ p + (N + 1) <= 2 * N /\ -w \in Int
      BY <1>1
    <3>2. \A k \in 0 .. (N + 1) - 1 : Terms(OrderLimbs)[k] \in Int
      BY <1>1, <1>5
    <3> QED
      BY <2>1, <3>1, <3>2, Zenon DEF ShiftedBy
  <2>3. 2 * N \in Nat
    BY <1>1
  <2> QED
    BY ONLY <2>2, <2>3, ShiftedTotal
<1>8. Total(Terms(OrderLimbs), 2 * N) = 1 * Total(Terms(OrderLimbs), N + 1)
  <2>1. \A k \in 0 .. 2 * N - 1 : k > N => Terms(OrderLimbs)[k] = 0
    <3> SUFFICES ASSUME NEW k \in 0 .. 2 * N - 1, k > N PROVE Terms(OrderLimbs)[k] = 0
      OBVIOUS
    <3>1. k \in Limbs
      BY DEF Limbs
    <3>2. k # N /\ ~(k < Half) /\ k \in Nat
      BY ONLY k \in 0 .. 2 * N - 1, k > N, Sizes
    <3>3. OrderLimbs[k] = 0
      BY ONLY <3>1, <3>2 DEF OrderLimbs
    <3>4. 2^(W * k) \in Nat
      BY ONLY <3>2, Weights
    <3> QED
      BY <1>5, <3>3, <3>4
  <2>2. ShiftedBy(Terms(OrderLimbs), 2 * N, Terms(OrderLimbs), N + 1, 0, 1)
    <3>1. \A k \in 0 .. 2 * N - 1 : Terms(OrderLimbs)[k] =
            IF 0 <= k /\ k < 0 + (N + 1) THEN 1 * Terms(OrderLimbs)[k - 0] ELSE 0
      <4> SUFFICES ASSUME NEW k \in 0 .. 2 * N - 1
                   PROVE  Terms(OrderLimbs)[k] = IF 0 <= k /\ k < 0 + (N + 1)
                                                 THEN 1 * Terms(OrderLimbs)[k - 0] ELSE 0
        OBVIOUS
      <4>1. Terms(OrderLimbs)[k] \in Int /\ k - 0 = k
        BY <1>5
      <4> QED
        BY <1>1, <2>1, <4>1
    <3>2. \A k \in 0 .. (N + 1) - 1 : Terms(OrderLimbs)[k] \in Int
      BY <1>1, <1>5
    <3>3. 0 \in Nat /\ N + 1 \in Nat /\ 0 + (N + 1) <= 2 * N /\ 1 \in Int
      BY <1>1
    <3> QED
      BY <3>1, <3>2, <3>3, Zenon DEF ShiftedBy
  <2>3. 2 * N \in Nat
    BY <1>1
  <2> QED
    BY ONLY <2>2, <2>3, ShiftedTotal
<1>9. Value(g) = (-w) * Order
  <2>1. Value(g) = Total(Terms(g), 2 * N) /\ Order = Total(Terms(OrderLimbs), 2 * N) /\ Order \in Int
    BY <1>4, OrderInt, TermsInt
  <2>2. Total(Terms(OrderLimbs), N + 1) \in Int
    <3>1. \A k \in 0 .. (N + 1) - 1 : Terms(OrderLimbs)[k] \in Int
      BY <1>1, <1>5
    <3> QED
      BY <1>1, <3>1, TotalNext
  <2> QED
    BY <1>7, <1>8, <2>1, <2>2
<1> QED
  BY <1>4, <1>6, <1>9, <1>p

LEMMA FoldKeeps ==
  ASSUME NEW v \in [Limbs -> Int], NEW n \in N .. 2 * N - 1
  PROVE  Folded(v, n) \in [Limbs -> Int] /\ \E m \in Int : Value(Folded(v, n)) = Value(v) + m * Order
<1>1. /\ Folding(n) \in [Limbs -> Int]
      /\ Value(Folding(n)) = (-(2^(W * (n - N)))) * Order
  BY FoldingValue
<1>2. n \in Limbs /\ v[n] \in Int
  BY Sizes
<1>3. ASSUME NEW k \in Limbs
      PROVE  Folded(v, n)[k] = v[k] + v[n] * Folding(n)[k] /\ Folded(v, n)[k] \in Int
  <2>1. Folding(n)[k] \in Int /\ v[k] \in Int
    BY <1>1
  <2>2. Folded(v, n)[k] = IF k = n THEN 0
                          ELSE IF k - (n - N) \in 0 .. Half - 1 THEN v[k] + v[n] * Coef[k - (n - N) + 1]
                          ELSE v[k]
    BY DEF Folded
  <2>3. Folding(n)[k] = IF k = n THEN -1
                        ELSE IF k - (n - N) \in 0 .. Half - 1 THEN Coef[k - (n - N) + 1] ELSE 0
    BY DEF Folding
  <2>4. v[n] * (-1) = -v[n] /\ v[n] * 0 = 0
    BY <1>2
  <2>5. Folded(v, n)[k] = v[k] + v[n] * Folding(n)[k]
    BY <1>2, <2>1, <2>2, <2>3, <2>4
  <2>6. v[n] * Folding(n)[k] \in Int
    BY <1>2, <2>1, MulFacts
  <2> QED
    BY <2>1, <2>5, <2>6
<1>4. Folded(v, n) \in [Limbs -> Int]
  <2>1. Folded(v, n) = [k \in Limbs |-> Folded(v, n)[k]]
    BY DEF Folded
  <2> QED
    BY <1>3, <2>1
<1>5. Combined(Folded(v, n), v, v[n], Folding(n))
  BY <1>1, <1>2, <1>3, <1>4 DEF Combined
<1>6. Value(Folded(v, n)) = Value(v) + v[n] * Value(Folding(n))
  BY <1>5, CombinedValue
<1>7. PICK w \in Int : w = -(2^(W * (n - N)))
  BY Sizes, Weights
<1>8. v[n] * (w * Order) = (v[n] * w) * Order /\ v[n] * w \in Int
  BY <1>2, <1>7, OrderInt, MulAssoc, MulFacts
<1> QED
  BY <1>1, <1>4, <1>6, <1>7, <1>8

LEMMA CarryKeeps ==
  ASSUME NEW v \in [Limbs -> Int], NEW n \in 0 .. 2 * N - 2, NEW c \in Int
  PROVE  Carried(v, n, c) \in [Limbs -> Int] /\ Value(Carried(v, n, c)) = Value(v)
<1> DEFINE u == Carried(v, n, c)
<1>1. n \in Limbs /\ n + 1 \in Limbs /\ n # n + 1 /\ n \in Nat /\ 2 * N \in Nat
  <2>1. N \in Nat
    BY Sizes
  <2> QED
    BY <2>1 DEF Limbs
<1>2. v[n] \in Int /\ v[n + 1] \in Int /\ Radix \in Nat /\ c * Radix \in Int
  BY <1>1, Sizes, PowPositive, MulFacts DEF Radix
<1>3. /\ u \in [Limbs -> Int] /\ u[n] = v[n] - c * Radix /\ u[n + 1] = v[n + 1] + c
      /\ \A k \in Limbs : k # n /\ k # n + 1 => u[k] = v[k]
  <2>1. u = [v EXCEPT ![n] = @ - c * Radix, ![n + 1] = @ + c]
    BY DEF Carried
  <2>2. PICK y \in Int, z \in Int : y = v[n] - c * Radix /\ z = v[n + 1] + c
    BY <1>2
  <2>3. u = [v EXCEPT ![n] = y, ![n + 1] = z]
    <3>1. [v EXCEPT ![n] = @ - c * Radix][n + 1] = v[n + 1]
      BY <1>1
    <3> QED
      BY <2>1, <2>2, <3>1
  <2> HIDE DEF u
  <2> QED
    BY <1>1, <2>2, <2>3
<1> HIDE DEF u
<1>4. \A k \in 0 .. 2 * N - 1 : Terms(v)[k] = v[k] * 2^(W * k) /\ Terms(v)[k] \in Int
  BY TermsInt
<1>5. \A k \in 0 .. 2 * N - 1 : Terms(u)[k] = u[k] * 2^(W * k)
  BY <1>3, TermsInt
<1>6. PICK w \in Nat : w = 2^(W * n) /\ 2^(W * (n + 1)) = Radix * w
  BY <1>1, Weights
<1>7. PICK y \in Int : y = -((c * Radix) * w)
  BY <1>2, MulFacts
<1>8. n \in 0 .. 2 * N - 1 /\ n + 1 \in 0 .. 2 * N - 1
  BY <1>1
<1>9. Terms(u)[n] = Terms(v)[n] + y
  <2>1. (v[n] - c * Radix) * w = v[n] * w + y
    BY <1>2, <1>7, MulFacts
  <2> QED
    BY <1>3, <1>4, <1>5, <1>6, <1>8, <2>1
<1>10. Terms(u)[n + 1] = Terms(v)[n + 1] - y
  <2>1. c * (Radix * w) = (c * Radix) * w
    BY <1>2, MulAssoc
  <2>2. PICK r \in Nat : r = Radix * w
    BY <1>2, MulNat
  <2>3. (v[n + 1] + c) * r = v[n + 1] * r + c * r /\ v[n + 1] * r \in Int /\ c * r \in Int
    BY <1>2, <2>2, MulFacts
  <2>4. c * r = -y
    BY <1>7, <2>1, <2>2, <2>3
  <2>5. Terms(u)[n + 1] = u[n + 1] * r /\ Terms(v)[n + 1] = v[n + 1] * r
    BY <1>4, <1>5, <1>6, <1>8, <2>2
  <2> QED
    BY <1>3, <2>3, <2>4, <2>5
<1>11. \A k \in 0 .. 2 * N - 1 : k # n /\ k # n + 1 => Terms(u)[k] = Terms(v)[k]
  <2> SUFFICES ASSUME NEW k \in 0 .. 2 * N - 1, k # n /\ k # n + 1 PROVE Terms(u)[k] = Terms(v)[k]
    OBVIOUS
  <2>1. u[k] = v[k]
    BY <1>3 DEF Limbs
  <2> QED
    BY <1>4, <1>5, <2>1
<1>12. Total(Terms(u), 2 * N) = Total(Terms(v), 2 * N)
  <2>1. MovedTo(Terms(v), Terms(u), 2 * N, n, n + 1, y)
    BY <1>1, <1>4, <1>7, <1>8, <1>9, <1>10, <1>11 DEF MovedTo
  <2> QED
    BY ONLY <1>1, <2>1, MovedTotal
<1> QED
  BY <1>3, <1>12, TermsInt DEF u
-----------------------------------------------------------------------------
\* The limbs of a number, as loaded, have its value.
LEMMA LimbIs ==
  ASSUME NEW n \in Nat, NEW q \in Nat \ {0}, NEW k \in 0 .. q - 1
  PROVE  Limb(n, k, q) = IF k = q - 1 THEN n \div 2^(W * k) ELSE (n \div 2^(W * k)) % Radix
<1>1. PICK m \in Nat : m = W * k
  BY Weights
<1> DEFINE p == m \div ByteBits
           t == m % ByteBits
           c == (t + W + ByteBits - 1) \div ByteBits
           y == n \div 2^(ByteBits * p)
<1>2. p \in Nat /\ t \in Nat /\ m = ByteBits * p + t /\ ByteBits * p \in Nat
  <2>1. p \in Nat /\ t \in Nat /\ m = ByteBits * p + t
    BY Sizes, DivMod
  <2> QED
    BY <2>1, Sizes, MulNat
<1>3. PICK l \in Nat : l = ByteBits * p
  BY <1>2
<1>4. 2^l \in Nat \ {0} /\ 2^t \in Nat \ {0} /\ 2^m = 2^l * 2^t
  BY <1>2, <1>3, PowPositive, PowSum
<1>5. y \in Nat /\ y \div 2^t = n \div 2^m
  <2>1. y = n \div 2^l
    BY <1>3
  <2>2. n \div 2^l \in Nat
    BY <1>4, DivMod
  <2>3. (n \div 2^l) \div 2^t = n \div (2^l * 2^t)
    <3>1. \A z \in Int, a \in Nat \ {0}, b \in Nat \ {0} : (z \div a) \div b = z \div (a * b)
      BY DivDiv
    <3>2. n \in Int /\ 2^l \in Nat \ {0} /\ 2^t \in Nat \ {0}
      BY <1>4
    <3> QED
      BY ONLY <3>1, <3>2, Zenon
  <2> QED
    BY <1>4, <2>1, <2>2, <2>3
<1>6. Limb(n, k, q) = IF k = q - 1 THEN y \div 2^t ELSE ((y % 2^(ByteBits * c)) \div 2^t) % Radix
  BY <1>1, Zenon DEF Limb, Load
<1>7. ((y % 2^(ByteBits * c)) \div 2^t) % Radix = (y \div 2^t) % Radix
  <2>1. c \in Nat /\ t + W <= ByteBits * c /\ ByteBits * c \in Nat
    <3> DEFINE z == t + W + ByteBits - 1
    <3>1. z \in Nat /\ ByteBits \in Nat \ {0}
      BY <1>2, Sizes
    <3> HIDE DEF z
    <3>4. z \in Int
      BY <3>1
    <3>2. z \div ByteBits \in Nat /\ z = ByteBits * (z \div ByteBits) + (z % ByteBits)
          /\ z % ByteBits \in Nat /\ z % ByteBits < ByteBits
      BY ONLY <3>1, <3>4, DivMod
    <3>3. c \in Nat /\ c = z \div ByteBits /\ ByteBits * c \in Nat
      BY <3>1, <3>2, MulNat DEF z
    <3> HIDE DEF c
    <3>5. z = t + W + ByteBits - 1
      BY DEF z
    <3> HIDE DEF t
    <3> QED
      BY <1>2, <3>1, <3>2, <3>3, <3>5, Sizes
  <2> HIDE DEF c, t, y
  <2>0. PICK g \in Nat : g = ByteBits * c
    BY <2>1
  <2>2. PICK u \in Nat : u = g - (t + W) /\ W + u \in Nat /\ g = t + (W + u)
    BY <1>2, <2>0, <2>1, Sizes
  <2>3. 2^g = 2^t * (2^W * 2^u)
    <3>1. 2^(t + (W + u)) = 2^t * 2^(W + u)
      BY <1>2, <2>2, PowSum
    <3>2. 2^(W + u) = 2^W * 2^u
      BY Sizes, PowSum
    <3> QED
      BY <2>2, <3>1, <3>2
  <2>4. 2^W \in Nat \ {0} /\ 2^u \in Nat \ {0}
    BY Sizes, PowPositive
  <2>5. ((y % (2^t * (2^W * 2^u))) \div 2^t) % 2^W = (y \div 2^t) % 2^W
    <3>1. PICK a \in Nat \ {0}, b \in Nat \ {0}, d \in Nat \ {0} : a = 2^t /\ b = 2^W /\ d = 2^u
      BY <1>4, <2>4
    <3>2. ((y % (a * (b * d))) \div a) % b = (y \div a) % b
      BY ONLY <1>5, <3>1, CutBits
    <3> QED
      BY <3>1, <3>2
  <2> QED
    BY <2>0, <2>3, <2>5 DEF Radix
<1> QED
  BY <1>1, <1>5, <1>6, <1>7

LEMMA LimbInt ==
  ASSUME NEW n \in Nat, NEW q \in Nat \ {0}, NEW k \in 0 .. q - 1
  PROVE  Limb(n, k, q) \in Nat
<1>1. PICK w \in Nat \ {0} : w = 2^(W * k)
  BY Weights
<1>2. n \div w \in Nat
  BY DivMod
<1>3. Radix \in Nat \ {0}
  BY Sizes, PowPositive DEF Radix
<1>4. (n \div w) % Radix \in Nat
  BY <1>2, <1>3, DivMod
<1> QED
  BY <1>1, <1>2, <1>4, LimbIs

LimbTerms(n, q) == [k \in 0 .. q - 1 |-> Limb(n, k, q) * 2^(W * k)]

LEMMA LimbTermsInt ==
  ASSUME NEW n \in Nat, NEW q \in Nat \ {0}
  PROVE  \A k \in 0 .. q - 1 : LimbTerms(n, q)[k] = Limb(n, k, q) * 2^(W * k) /\ LimbTerms(n, q)[k] \in Int
<1> SUFFICES ASSUME NEW k \in 0 .. q - 1
             PROVE  LimbTerms(n, q)[k] = Limb(n, k, q) * 2^(W * k) /\ LimbTerms(n, q)[k] \in Int
  OBVIOUS
<1>1. Limb(n, k, q) \in Nat /\ 2^(W * k) \in Nat
  BY LimbInt, Weights
<1> QED
  BY <1>1, MulNat DEF LimbTerms

LEMMA LimbsOfNumber ==
  ASSUME NEW n \in Nat, NEW q \in Nat \ {0}
  PROVE  Total(LimbTerms(n, q), q) = n
<1> DEFINE f == LimbTerms(n, q)
<1>1. PICK p \in Nat : p = q - 1
  OBVIOUS
<1>2. \A k \in 0 .. q - 1 : f[k] = Limb(n, k, q) * 2^(W * k) /\ f[k] \in Int
  BY LimbTermsInt
<1>3. PICK w \in Nat \ {0} : w = 2^(W * p)
  BY Weights
<1>4. Total(f, p) = n % w
  <2>1. DigitTerms(f, W, n, p)
    <3> SUFFICES ASSUME NEW k \in 0 .. p - 1
                 PROVE  f[k] = ((n \div 2^(W * k)) % 2^W) * 2^(W * k)
      BY DEF DigitTerms
    <3>1. k \in 0 .. q - 1 /\ k # q - 1
      BY <1>1
    <3>2. Limb(n, k, q) = (n \div 2^(W * k)) % Radix
      BY <3>1, LimbIs
    <3> QED
      BY <1>2, <3>1, <3>2 DEF Radix
  <2>2. W \in Nat
    BY Sizes
  <2> QED
    BY <1>3, <2>1, <2>2, DigitsOfNumber
<1>5. f[p] = (n \div w) * w
  <2>1. p \in 0 .. q - 1
    BY <1>1
  <2> QED
    BY <1>1, <1>2, <1>3, <2>1, LimbIs
<1> HIDE DEF f
<1>6. Total(f, p + 1) = Total(f, p) + f[p]
  <2>1. \A k \in 0 .. q - 1 : f[k] \in Int
    BY <1>2
  <2>2. p \in 0 .. q - 1
    BY <1>1
  <2> QED
    BY <2>1, <2>2, TotalNext
<1>7. n \div w \in Nat /\ n = w * (n \div w) + (n % w) /\ n % w \in Nat
  BY DivMod
<1>8. w * (n \div w) = (n \div w) * w /\ (n \div w) * w \in Int
  BY <1>7, MulFacts
<1> QED
  BY <1>1, <1>4, <1>5, <1>6, <1>7, <1>8 DEF f

\* The products of a and b: by the place of their sum, and with its weight.
Row(a, b, k) == [j \in 0 .. N - 1 |->
                  IF k - j \in 0 .. N - 1 THEN Limb(a, j, N) * Limb(b, k - j, N) ELSE 0]
Table(a, b)  == [k \in 0 .. 2 * N - 1 |-> [j \in 0 .. N - 1 |-> 2^(W * k) * Row(a, b, k)[j]]]

LEMMA RowInt ==
  ASSUME NEW a \in Nat, NEW b \in Nat, NEW k \in 0 .. 2 * N - 1, NEW j \in 0 .. N - 1
  PROVE  /\ Row(a, b, k)[j] \in Int
         /\ Table(a, b)[k][j] = 2^(W * k) * Row(a, b, k)[j] /\ Table(a, b)[k][j] \in Int
<1>1. N \in Nat \ {0} /\ k \in Nat /\ j \in Nat
  BY Sizes
<1>2. Limb(a, j, N) \in Nat
  BY <1>1, LimbInt
<1>3. k - j \in 0 .. N - 1 => Limb(b, k - j, N) \in Nat
  BY <1>1, LimbInt
<1>4. Row(a, b, k)[j] = IF k - j \in 0 .. N - 1 THEN Limb(a, j, N) * Limb(b, k - j, N) ELSE 0
  BY DEF Row
<1>5. Row(a, b, k)[j] \in Int
  BY <1>2, <1>3, <1>4, MulNat
<1>6. 2^(W * k) \in Nat
  BY <1>1, Weights
<1>7. Table(a, b)[k][j] = 2^(W * k) * Row(a, b, k)[j]
  BY DEF Table
<1> QED
  BY <1>5, <1>6, <1>7, MulFacts

LEMMA RowTotal ==
  ASSUME NEW a \in Nat, NEW b \in Nat, NEW k \in 0 .. 2 * N - 1
  PROVE  /\ Total(Row(a, b, k), N) \in Int
         /\ Total(Table(a, b)[k], N) = 2^(W * k) * Total(Row(a, b, k), N)
<1>1. N \in Nat /\ k \in Nat
  BY Sizes
<1>2. \A j \in 0 .. N - 1 : Row(a, b, k)[j] \in Int
  BY RowInt
<1>3. ScaledBy(Table(a, b)[k], N, Row(a, b, k), 2^(W * k))
  BY <1>1, RowInt, Weights DEF ScaledBy
<1>4. Total(Table(a, b)[k], N) = 2^(W * k) * Total(Row(a, b, k), N)
  BY ONLY <1>1, <1>3, ScaledTotal
<1>5. Total(Row(a, b, k), N) \in Int
  BY ONLY <1>1, <1>2, TotalNext
<1> QED
  BY <1>4, <1>5

LEMMA ColumnTotal ==
  ASSUME NEW a \in Nat, NEW b \in Nat, NEW j \in 0 .. N - 1
  PROVE  Total(Column(Table(a, b), 2 * N, j), 2 * N) = LimbTerms(a, N)[j] * b
<1> DEFINE f == Column(Table(a, b), 2 * N, j)
           g == LimbTerms(b, N)
           c == LimbTerms(a, N)[j]
<1>1. N \in Nat \ {0} /\ j \in Nat /\ 2 * N \in Nat
  BY Sizes
<1>2. c = Limb(a, j, N) * 2^(W * j) /\ c \in Int
  BY <1>1, LimbTermsInt
<1>3. \A k \in 0 .. N - 1 : g[k] = Limb(b, k, N) * 2^(W * k) /\ g[k] \in Int
  BY <1>1, LimbTermsInt
<1>4. \A k \in 0 .. 2 * N - 1 : f[k] = 2^(W * k) * Row(a, b, k)[j]
  BY RowInt DEF Column
<1>5. Limb(a, j, N) \in Nat
  BY <1>1, LimbInt
<1> HIDE DEF f, c, g
<1>6. \A k \in 0 .. 2 * N - 1 : f[k] = IF j <= k /\ k < j + N THEN c * g[k - j] ELSE 0
  <2> SUFFICES ASSUME NEW k \in 0 .. 2 * N - 1
               PROVE  f[k] = IF j <= k /\ k < j + N THEN c * g[k - j] ELSE 0
    OBVIOUS
  <2>1. Row(a, b, k)[j] = IF k - j \in 0 .. N - 1 THEN Limb(a, j, N) * Limb(b, k - j, N) ELSE 0
    BY DEF Row
  <2>2. CASE j <= k /\ k < j + N
    <3>1. PICK l \in 0 .. N - 1 : l = k - j
      BY <1>1, <2>2
    <3>2. PICK y \in Nat, z \in Nat : y = Limb(a, j, N) /\ z = Limb(b, l, N)
      BY <1>1, <1>5, LimbInt
    <3>3. PICK u \in Nat, v \in Nat : u = 2^(W * j) /\ v = 2^(W * l)
      <4>1. j \in Nat /\ l \in Nat
        BY ONLY <1>1, <3>1, Sizes
      <4>2. 2^(W * j) \in Nat /\ 2^(W * l) \in Nat
        BY ONLY <4>1, Weights
      <4> QED
        BY ONLY <4>2
    <3>4. 2^(W * k) = u * v
      <4>1. PICK m \in Nat, n \in Nat : m = W * j /\ n = W * l
        <5>1. j \in Nat /\ l \in Nat
          BY ONLY <1>1, <3>1, Sizes
        <5>2. W * j \in Nat /\ W * l \in Nat
          BY ONLY <5>1, Weights
        <5> QED
          BY ONLY <5>2
      <4>2. W * k = m + n
        <5>1. W * (j + l) = W * j + W * l
          BY <1>1, Sizes, MulFacts
        <5>2. k = j + l
          BY <1>1, <3>1
        <5> QED
          BY <4>1, <5>1, <5>2
      <4>3. 2^(m + n) = 2^m * 2^n
        BY PowSum
      <4> QED
        BY <3>3, <4>1, <4>2, <4>3
    <3>5. f[k] = (u * v) * (y * z)
      <4>1. k - j \in 0 .. N - 1
        BY <3>1
      <4> QED
        BY <1>4, <2>1, <3>1, <3>2, <3>4, <4>1
    <3>6. (u * v) * (y * z) = (y * u) * (z * v)
      <4>1. (u * v) * (y * z) = ((u * v) * y) * z /\ (y * u) * (z * v) = ((y * u) * z) * v
        BY MulAssoc, MulNat
      <4>2. (u * v) * y = u * (v * y) /\ (y * u) * z = y * (u * z)
        BY MulAssoc
      <4>3. PICK yu \in Int : yu = y * u
        BY MulFacts
      <4>4. (yu * z) * v = yu * (z * v) /\ (yu * v) * z = yu * (v * z) /\ z * v = v * z
        BY MulAssoc, MulFacts
      <4>5. (u * v) * y = yu * v
        <5>1. (u * v) * y = y * (u * v) /\ y * (u * v) = (y * u) * v
          BY MulAssoc, MulFacts
        <5> QED
          BY <4>3, <5>1
      <4> QED
        BY <4>1, <4>3, <4>4, <4>5
    <3>7. c = y * u /\ g[k - j] = z * v
      BY <1>2, <1>3, <3>1, <3>2, <3>3
    <3> QED
      BY <2>2, <3>5, <3>6, <3>7
  <2>3. CASE ~(j <= k /\ k < j + N)
    <3>1. k - j \notin 0 .. N - 1
      BY <1>1, <2>3
    <3>2. f[k] = 2^(W * k) * 0 /\ 2^(W * k) \in Nat
      BY <1>1, <1>4, <2>1, <3>1, Weights
    <3> QED
      BY <2>3, <3>2
  <2> QED
    BY <2>2, <2>3
<1>7. ShiftedBy(f, 2 * N, g, N, j, c)
  <2>1. j + N <= 2 * N
    BY <1>1
  <2>2. \A k \in 0 .. N - 1 : g[k] \in Int
    BY <1>3
  <2> QED
    BY <1>1, <1>2, <1>6, <2>1, <2>2 DEF ShiftedBy
<1>8. Total(f, 2 * N) = c * Total(g, N)
  BY ONLY <1>1, <1>7, ShiftedTotal
<1>9. Total(g, N) = b
  BY <1>1, LimbsOfNumber DEF g
<1> QED
  BY <1>8, <1>9 DEF f, c

\* The limbs that sc_muladd begins with have the value of a * b + c.
LEMMA ProductsValue ==
  ASSUME NEW a \in Nat, NEW b \in Nat, NEW c \in Nat
  PROVE  Products(a, b, c) \in [Limbs -> Int] /\ Value(Products(a, b, c)) = a * b + c
<1> DEFINE v == Products(a, b, c)
           f == [k \in 0 .. 2 * N - 1 |-> 2^(W * k) * Total(Row(a, b, k), N)]
           g == [j \in 0 .. N - 1 |-> LimbTerms(a, N)[j] * b]
           l == [k \in 0 .. 2 * N - 1 |-> IF k < N THEN LimbTerms(c, N)[k] ELSE 0]
           t == Table(a, b)
<1>1. N \in Nat \ {0} /\ 2 * N \in Nat /\ N <= 2 * N
  BY Sizes
<1>2. \A k \in 0 .. 2 * N - 1 : f[k] = 2^(W * k) * Total(Row(a, b, k), N) /\ f[k] \in Int
                               /\ Total(Row(a, b, k), N) \in Int /\ 2^(W * k) \in Nat
  <2> SUFFICES ASSUME NEW k \in 0 .. 2 * N - 1
               PROVE  /\ f[k] = 2^(W * k) * Total(Row(a, b, k), N) /\ f[k] \in Int
                      /\ Total(Row(a, b, k), N) \in Int /\ 2^(W * k) \in Nat
    OBVIOUS
  <2>1. Total(Row(a, b, k), N) \in Int /\ 2^(W * k) \in Nat
    BY RowTotal, Weights
  <2>2. f[k] = 2^(W * k) * Total(Row(a, b, k), N)
    OBVIOUS
  <2> QED
    BY <2>1, <2>2, MulFacts
<1>3. \A k \in 0 .. 2 * N - 1 :
        /\ l[k] = (IF k < N THEN Limb(c, k, N) ELSE 0) * 2^(W * k) /\ l[k] \in Int
        /\ (IF k < N THEN Limb(c, k, N) ELSE 0) \in Int
  <2> SUFFICES ASSUME NEW k \in 0 .. 2 * N - 1
               PROVE  /\ l[k] = (IF k < N THEN Limb(c, k, N) ELSE 0) * 2^(W * k) /\ l[k] \in Int
                      /\ (IF k < N THEN Limb(c, k, N) ELSE 0) \in Int
    OBVIOUS
  <2>1. 2^(W * k) \in Nat
    BY Weights
  <2>2. CASE k < N
    <3>1. k \in 0 .. N - 1
      BY <2>2, <1>1
    <3> QED
      BY <1>1, <2>2, <3>1, LimbTermsInt, LimbInt
  <2>3. CASE ~(k < N)
    BY <2>1, <2>3
  <2> QED
    BY <2>2, <2>3
<1>4. /\ v \in [Limbs -> Int]
      /\ \A k \in 0 .. 2 * N - 1 :
           v[k] = (IF k < N THEN Limb(c, k, N) ELSE 0) + Total(Row(a, b, k), N)
  <2>1. v = [k \in Limbs |-> (IF k < N THEN Limb(c, k, N) ELSE 0) + Total(Row(a, b, k), N)]
    BY DEF Products, Row
  <2>2. Limbs = 0 .. 2 * N - 1
    BY DEF Limbs
  <2> HIDE DEF v, f, l
  <2>3. \A k \in 0 .. 2 * N - 1 :
          (IF k < N THEN Limb(c, k, N) ELSE 0) + Total(Row(a, b, k), N) \in Int
    BY <1>2, <1>3
  <2> QED
    BY <2>1, <2>2, <2>3
<1>5. Adds(Terms(v), 2 * N, l, f)
  <2> SUFFICES ASSUME NEW k \in 0 .. 2 * N - 1
               PROVE  l[k] \in Int /\ f[k] \in Int /\ Terms(v)[k] = l[k] + f[k]
    BY DEF Adds
  <2>1. PICK w \in Int, y \in Int, z \in Int :
          /\ w = 2^(W * k) /\ y = (IF k < N THEN Limb(c, k, N) ELSE 0)
          /\ z = Total(Row(a, b, k), N)
    BY <1>2, <1>3
  <2>2. Terms(v)[k] = v[k] * w
    BY <1>4, <2>1, TermsInt
  <2> HIDE DEF v, f, l
  <2>3. v[k] = y + z /\ l[k] = y * w /\ f[k] = w * z
    BY <1>2, <1>3, <1>4, <2>1
  <2>4. (y + z) * w = y * w + w * z
    BY MulFacts
  <2> QED
    BY <1>2, <1>3, <2>2, <2>3, <2>4
<1> HIDE DEF v, f, l, g, t
<1>6. Total(Terms(v), 2 * N) = Total(l, 2 * N) + Total(f, 2 * N)
  BY ONLY <1>1, <1>5, AddedTotal
<1>7. Total(l, 2 * N) = c
  <2>1. \A k \in 0 .. N - 1 : LimbTerms(c, N)[k] \in Int
    BY <1>1, LimbTermsInt
  <2>2. \A k \in 0 .. 2 * N - 1 : l[k] = IF 0 <= k /\ k < 0 + N THEN 1 * LimbTerms(c, N)[k - 0] ELSE 0
    <3> SUFFICES ASSUME NEW k \in 0 .. 2 * N - 1
                 PROVE  l[k] = IF 0 <= k /\ k < 0 + N THEN 1 * LimbTerms(c, N)[k - 0] ELSE 0
      OBVIOUS
    <3>1. l[k] = IF k < N THEN LimbTerms(c, N)[k] ELSE 0
      BY DEF l
    <3>2. k < N => LimbTerms(c, N)[k] \in Int
      BY <1>1, <2>1
    <3>3. k - 0 = k /\ 0 + N = N /\ 0 <= k
      BY <1>1
    <3> QED
      BY <3>1, <3>2, <3>3
  <2>3. ShiftedBy(l, 2 * N, LimbTerms(c, N), N, 0, 1)
    <3>1. 0 \in Nat /\ N \in Nat /\ 0 + N <= 2 * N /\ 1 \in Int
      BY <1>1
    <3> QED
      BY <2>1, <2>2, <3>1, Zenon DEF ShiftedBy
  <2>4. Total(l, 2 * N) = 1 * Total(LimbTerms(c, N), N)
    BY ONLY <1>1, <2>3, ShiftedTotal
  <2>5. Total(LimbTerms(c, N), N) = c
    BY <1>1, LimbsOfNumber
  <2> QED
    BY <2>4, <2>5
<1>8. Total(f, 2 * N) = Total(g, N)
  <2>1. IsTable(t, 2 * N, N)
    BY RowInt DEF IsTable, t
  <2>2. RowSums(f, 2 * N, t, N)
    BY <1>2, RowTotal DEF RowSums, t
  <2>3. ColumnSums(g, 2 * N, t, N)
    BY ColumnTotal DEF ColumnSums, t, g
  <2>4. N \in Nat
    BY <1>1
  <2> QED
    BY ONLY <1>1, <2>1, <2>2, <2>3, <2>4, SwappedTotal
<1>9. Total(g, N) = b * a
  <2>1. ScaledBy(g, N, LimbTerms(a, N), b)
    <3>1. \A j \in 0 .. N - 1 : LimbTerms(a, N)[j] \in Int
      BY <1>1, LimbTermsInt
    <3>2. \A j \in 0 .. N - 1 : g[j] = b * LimbTerms(a, N)[j]
      BY <3>1, MulFacts DEF g
    <3> QED
      BY <3>1, <3>2 DEF ScaledBy
  <2>2. N \in Nat
    BY <1>1
  <2>3. Total(g, N) = b * Total(LimbTerms(a, N), N)
    BY ONLY <2>1, <2>2, ScaledTotal
  <2>4. Total(LimbTerms(a, N), N) = a
    BY <1>1, LimbsOfNumber
  <2> QED
    BY <2>3, <2>4
<1>10. Value(v) = Total(Terms(v), 2 * N)
  BY <1>4, TermsInt
<1>11. b * a = a * b /\ a * b \in Int
  BY MulFacts
<1> QED
  BY <1>4, <1>6, <1>7, <1>8, <1>9, <1>10, <1>11 DEF v
-----------------------------------------------------------------------------
LEMMA Initially == Init => IInv
<1> SUFFICES ASSUME Init PROVE IInv
  OBVIOUS
<1>1. N \in Nat /\ 4 <= N /\ Half \in Nat /\ N = 2 * Half
  BY Sizes
<1>2. CASE /\ call = "sc_reduce" /\ Begin("high", 2 * N - 1)
           /\ x \in Reduced
           /\ s = [k \in Limbs |-> Limb(x, k, 2 * N)]
  <2>1. x \in Nat
    BY <1>2, ScalarAssumption DEF ScalarAssumption
  <2>2. 2 * N \in Nat \ {0} /\ Limbs = 0 .. 2 * N - 1
    BY <1>1 DEF Limbs
  <2>3. s \in [Limbs -> Int]
    <3>1. \A k \in Limbs : Limb(x, k, 2 * N) \in Int
      <4>1. PICK q \in Nat \ {0} : q = 2 * N
        BY <2>2
      <4>2. PICK n \in Nat : n = x
        BY <2>1
      <4> SUFFICES ASSUME NEW k \in Limbs PROVE Limb(x, k, 2 * N) \in Int
        OBVIOUS
      <4>3. k \in 0 .. q - 1
        BY <2>2, <4>1
      <4>4. Limb(n, k, q) \in Nat
        BY ONLY <4>1, <4>2, <4>3, ScalarAssumption, LimbInt
      <4> QED
        BY <4>1, <4>2, <4>4
    <3> QED
      BY <1>2, <3>1
  <2>4. Value(s) = x
    <3>1. Value(s) = Total([k \in Limbs |-> s[k] * 2^(W * k)], 2 * N)
      BY DEF Value
    <3>2. [k \in Limbs |-> s[k] * 2^(W * k)] = LimbTerms(x, 2 * N)
      BY <1>2, <2>2 DEF LimbTerms
    <3> QED
      BY <2>1, <2>2, <3>1, <3>2, LimbsOfNumber
  <2>5. At(phase, i)
    BY <1>1, <1>2 DEF At, Begin, Labels, Loops
  <2>6. Value(s) = x + 0 * Order
    BY <2>1, <2>4, OrderInt
  <2> QED
    BY <2>1, <2>3, <2>5, <2>6 DEF IInv
<1>3. CASE /\ call = "sc_muladd" /\ Begin("muleven", 0)
           /\ \E a \in Factors, b \in Factors, c \in Factors :
                x = a * b + c /\ s = Products(a, b, c)
  <2>1. PICK a \in Nat, b \in Nat, c \in Nat : x = a * b + c /\ s = Products(a, b, c)
    BY <1>3, ScalarAssumption DEF ScalarAssumption
  <2>2. x \in Nat
    BY <2>1, MulNat
  <2>3. s \in [Limbs -> Int] /\ Value(s) = x
    BY <2>1, ProductsValue
  <2>4. At(phase, i)
    BY <1>1, <1>3 DEF At, Begin, Labels, Loops
  <2>5. Value(s) = x + 0 * Order
    BY <2>2, <2>3, OrderInt
  <2> QED
    BY <2>2, <2>3, <2>4, <2>5 DEF IInv
<1> QED
  BY <1>2, <1>3 DEF Init

\* The groups follow one another so that every statement finds the limbs it is about: a fold
\* is above the N-th, and a carry below the last.
LEMMA StatementAt ==
  ASSUME At(phase, i), NEW op, Statement(op)
  PROVE  /\ At(phase', i')
         /\ op = "fold" => i \in N .. 2 * N - 1
         /\ op \in {"round", "floor"} => i \in 0 .. 2 * N - 2
<1>1. N \in Nat /\ 4 <= N /\ Half \in Nat /\ N = 2 * Half
  BY Sizes
<1>2. phase \in {"muleven", "mulodd", "high", "mideven", "midodd", "low", "even", "odd", "top",
                 "floor", "top2", "floor2"}
  BY DEF Statement, Loops
<1>3. CASE phase = "muleven"
  BY <1>1, <1>3 DEF At, Statement, Loops, Loop, Labels
<1>4. CASE phase = "mulodd"
  BY <1>1, <1>4 DEF At, Statement, Loops, Loop, Labels
<1>5. CASE phase = "high"
  BY <1>1, <1>5 DEF At, Statement, Loops, Loop, Labels
<1>6. CASE phase = "mideven"
  BY <1>1, <1>6 DEF At, Statement, Loops, Loop, Labels
<1>7. CASE phase = "midodd"
  BY <1>1, <1>7 DEF At, Statement, Loops, Loop, Labels
<1>8. CASE phase = "low"
  BY <1>1, <1>8 DEF At, Statement, Loops, Loop, Labels
<1>9. CASE phase = "even"
  BY <1>1, <1>9 DEF At, Statement, Loops, Loop, Labels
<1>10. CASE phase = "odd"
  BY <1>1, <1>10 DEF At, Statement, Loops, Loop, Labels
<1>11. CASE phase = "top"
  BY <1>1, <1>11 DEF At, Statement, Loops, Loop, Labels
<1>12. CASE phase = "floor"
  BY <1>1, <1>12 DEF At, Statement, Loops, Loop, Labels
<1>13. CASE phase = "top2"
  BY <1>1, <1>13 DEF At, Statement, Loops, Loop, Labels
<1>14. CASE phase = "floor2"
  BY <1>1, <1>14 DEF At, Statement, Loops, Loop, Labels
<1> QED
  BY <1>2, <1>3, <1>4, <1>5, <1>6, <1>7, <1>8, <1>9, <1>10, <1>11, <1>12, <1>13, <1>14

LEMMA Invariance == IInv /\ [Next]_vars => IInv'
<1> SUFFICES ASSUME IInv, [Next]_vars PROVE IInv'
  OBVIOUS
<1>1. /\ At(phase, i) /\ x \in Nat /\ s \in [Limbs -> Int]
      /\ \E m \in Int : Value(s) = x + m * Order
  BY DEF IInv
<1>2. PICK m \in Int : Value(s) = x + m * Order
  BY <1>1
<1>3. CASE Fold
  <2>1. Statement("fold") /\ s' = Folded(s, i) /\ x' = x
    BY <1>3 DEF Fold, Statement
  <2>2. At(phase', i') /\ i \in N .. 2 * N - 1
    BY <1>1, <2>1, StatementAt
  <2>3. s' \in [Limbs -> Int] /\ \E n \in Int : Value(s') = Value(s) + n * Order
    BY <1>1, <2>1, <2>2, FoldKeeps
  <2>4. PICK n \in Int : Value(s') = Value(s) + n * Order
    BY <2>3
  <2>5. (x + m * Order) + n * Order = x + (m + n) * Order
    <3>1. Order \in Int /\ m * Order \in Int /\ n * Order \in Int /\ (m + n) * Order = m * Order + n * Order
      BY OrderInt, MulFacts
    <3> QED
      BY <1>1, <3>1
  <2>6. Value(s') = x' + (m + n) * Order /\ m + n \in Int
    BY <1>2, <2>1, <2>4, <2>5
  <2> QED
    BY <1>1, <2>1, <2>2, <2>3, <2>6 DEF IInv
<1>4. ASSUME NEW c \in Int, s' = Carried(s, i, c), i \in 0 .. 2 * N - 2, At(phase', i'), x' = x
      PROVE  IInv'
  <2>1. s' \in [Limbs -> Int] /\ Value(s') = Value(s)
    BY <1>1, <1>4, CarryKeeps
  <2>2. Value(s') = x' + m * Order
    BY <1>2, <1>4, <2>1
  <2> QED
    BY <1>1, <1>4, <2>1, <2>2 DEF IInv
<1>5. i \in 0 .. 2 * N - 2 => s[i] \in Int
  <2>1. N \in Nat
    BY Sizes
  <2>2. i \in 0 .. 2 * N - 2 => i \in Limbs
    BY <2>1 DEF Limbs
  <2> QED
    BY <1>1, <2>2
<1>6. Radix \in Nat \ {0} /\ Radix \div 2 \in Int
  <2>1. Radix \in Nat \ {0}
    BY Sizes, PowPositive DEF Radix
  <2> QED
    BY <2>1
<1>7. CASE CarryRound
  <2>1. /\ Statement("round") /\ s' = Carried(s, i, (s[i] + Radix \div 2) \div Radix) /\ x' = x
    BY <1>7 DEF CarryRound, Statement
  <2>2. At(phase', i') /\ i \in 0 .. 2 * N - 2
    BY <1>1, <2>1, StatementAt
  <2>3. (s[i] + Radix \div 2) \div Radix \in Int
    <3>1. PICK y \in Int : y = s[i] + Radix \div 2
      BY <1>5, <1>6, <2>2
    <3> QED
      BY <1>6, <3>1, DivMod
  <2> QED
    BY <1>4, <2>1, <2>2, <2>3
<1>8. CASE CarryFloor
  <2>1. /\ Statement("floor") /\ s' = Carried(s, i, s[i] \div Radix) /\ x' = x
    BY <1>8 DEF CarryFloor, Statement
  <2>2. At(phase', i') /\ i \in 0 .. 2 * N - 2
    BY <1>1, <2>1, StatementAt
  <2>3. s[i] \div Radix \in Int
    BY <1>5, <1>6, <2>2, DivMod
  <2> QED
    BY <1>4, <2>1, <2>2, <2>3
<1>9. CASE Pack
  <2>1. phase' = "done" /\ x' = x /\ s' = s /\ i' = i
    BY <1>9 DEF Pack
  <2>2. At(phase', i')
    BY <2>1 DEF At, Labels
  <2> QED
    BY <1>1, <2>1, <2>2 DEF IInv
<1>10. CASE UNCHANGED vars
  <2>1. phase' = phase /\ x' = x /\ s' = s /\ i' = i
    BY <1>10 DEF vars
  <2> QED
    BY <1>1, <2>1 DEF IInv
<1> QED
  BY <1>3, <1>7, <1>8, <1>9, <1>10 DEF Next, Return

LEMMA ResidueFollows == IInv => ResidueKept
<1> SUFFICES ASSUME IInv PROVE Value(s) % Order = x % Order
  BY DEF ResidueKept
<1>1. PICK m \in Int : Value(s) = x + m * Order
  BY DEF IInv
<1>2. x \in Int /\ Order \in Nat \ {0}
  BY OrderInt DEF IInv
<1>3. PICK y \in Int, z \in Nat : y = x \div Order /\ z = x % Order /\ z < Order /\ x = Order * y + z
  BY <1>2, DivMod
<1>4. m * Order = Order * m /\ Order * (y + m) = Order * y + Order * m /\ Order * m \in Int /\ Order * y \in Int
  BY <1>2, MulFacts
<1>5. Value(s) = Order * (y + m) + z
  BY <1>1, <1>3, <1>4
<1>6. (Order * (y + m) + z) % Order = z
  <2>1. PICK d \in Nat \ {0} : d = Order
    BY <1>2
  <2>2. PICK w \in Int : w = y + m
    BY <1>3
  <2>3. (d * w + z) % d = z
    BY ONLY <1>3, <2>1, <2>2, DivModUnique
  <2> QED
    BY <2>1, <2>2, <2>3
<1> QED
  BY <1>3, <1>5, <1>6

\* No fold and no carry of sc_reduce.c and sc_muladd.c changes the residue, with limbs of any
\* number and size, for every number that is loaded and every product: what a step drops is
\* a multiple of L, and sc_muladd begins with a * b + c.
THEOREM ResidueCorrect == Spec => []ResidueKept
  BY Initially, Invariance, ResidueFollows, PTL DEF Spec

-----------------------------------------------------------------------------
\* The constants of sc_reduce.c and sc_muladd.c, and arguments of 64 and of 32 bytes.
RealConstants ==
  /\ N = 12 /\ W = 21 /\ ByteBits = 8 /\ Bytes = 32 /\ IntMax = 9223372036854775807
  /\ Coef = <<666643, 470296, 654183, -997805, 136657, -683901>>
Below(S, b) == \A n \in S : n < b
RealSize ==
  /\ RealConstants
  /\ Below(Reduced, 2^(2 * ByteBits * Bytes)) /\ Below(Factors, 2^(ByteBits * Bytes))

Place == 0 .. 23

LEMMA LimbsReal ==
  ASSUME RealSize
  PROVE  N = 12 /\ Limbs = Place /\ Half = 6 /\ Radix = 2097152 /\ Radix \div 2 = 1048576
<1>1. N = 12 /\ W = 21
  BY SMT DEF RealSize, RealConstants
<1>2. 2^21 = 2097152
  BY SMT
<1> QED
  BY <1>1, <1>2, SMT DEF Limbs, Half, Radix, Place

LEMMA CoefReal ==
  ASSUME RealSize
  PROVE  /\ Coef[1] = 666643 /\ Coef[2] = 470296 /\ Coef[3] = 654183
         /\ Coef[4] = -997805 /\ Coef[5] = 136657 /\ Coef[6] = -683901
  BY SMT DEF RealSize, RealConstants

\* Between -b and b, limb by limb.
Within(v, b) == \A k \in Place : -b[k] <= v[k] /\ v[k] <= b[k]

\* Limbs that are digits, below the n-th.
Digits(v, n) == \A k \in Place : k < n => 0 <= v[k] /\ v[k] < 2097152

\* What a carry that rounds, one that rounds down and a fold make of limbs v, that are no
\* larger than z where the fold is.
RoundedTo(v, u, n) ==
  /\ -1048576 <= u[n] /\ u[n] <= 1048576
  /\ \E c \in Int : /\ u[n + 1] = v[n + 1] + c
                    /\ v[n] - 1048576 <= 2097152 * c /\ 2097152 * c <= v[n] + 1048576
  /\ \A k \in Place : k # n /\ k # n + 1 => u[k] = v[k]
FlooredTo(v, u, n) ==
  /\ 0 <= u[n] /\ u[n] < 2097152
  /\ \E c \in Int : /\ u[n + 1] = v[n + 1] + c
                    /\ v[n] - 2097152 <= 2097152 * c /\ 2097152 * c <= v[n]
  /\ \A k \in Place : k # n /\ k # n + 1 => u[k] = v[k]
FoldedTo(v, u, n, z) ==
  /\ u[n] = 0
  /\ \A k \in Place : n - 12 <= k /\ k <= n - 7 =>
                        v[k] - 1000000 * z <= u[k] /\ u[k] <= v[k] + 1000000 * z
  /\ \A k \in Place : k # n /\ ~(n - 12 <= k /\ k <= n - 7) => u[k] = v[k]

\* What a rounded carry does: the limb keeps at most half of Radix, and the carry is the
\* rest of it.
LEMMA RoundFits ==
  ASSUME RealSize, NEW v \in [Limbs -> Int], NEW n \in 0 .. 22, NEW u,
         u = Carried(v, n, (v[n] + Radix \div 2) \div Radix)
  PROVE  RoundedTo(v, u, n)
<1>1. v \in [Place -> Int] /\ Radix = 2097152 /\ Radix \div 2 = 1048576
  BY LimbsReal, SMT
<1>2. n \in Place /\ n + 1 \in Place
  BY SMT DEF Place
<1>3. PICK y \in Int : y = v[n]
  BY <1>1, <1>2, SMT
<1>4. PICK c \in Int : c = (y + 1048576) \div 2097152
  BY SMT
<1>5. 2097152 * c <= y + 1048576 /\ y + 1048576 < 2097152 * c + 2097152
  BY <1>4, SMT
<1>6. u = [v EXCEPT ![n] = @ - c * 2097152, ![n + 1] = @ + c]
  BY <1>1, <1>3, <1>4, SMT DEF Carried
<1>7. u[n] = y - c * 2097152 /\ u[n + 1] = v[n + 1] + c
      /\ \A k \in Place : k # n /\ k # n + 1 => u[k] = v[k]
  BY <1>1, <1>2, <1>3, <1>6, SMT
<1> QED
  BY <1>3, <1>5, <1>7, SMT DEF RoundedTo

\* What a carry rounded down does: the limb becomes a digit.
LEMMA FloorFits ==
  ASSUME RealSize, NEW v \in [Limbs -> Int], NEW n \in 0 .. 22, NEW u,
         u = Carried(v, n, v[n] \div Radix)
  PROVE  FlooredTo(v, u, n)
<1>1. v \in [Place -> Int] /\ Radix = 2097152
  BY LimbsReal, SMT
<1>2. n \in Place /\ n + 1 \in Place
  BY SMT DEF Place
<1>3. PICK y \in Int : y = v[n]
  BY <1>1, <1>2, SMT
<1>4. PICK c \in Int : c = y \div 2097152
  BY SMT
<1>5. 2097152 * c <= y /\ y < 2097152 * c + 2097152
  BY <1>4, SMT
<1>6. u = [v EXCEPT ![n] = @ - c * 2097152, ![n + 1] = @ + c]
  BY <1>1, <1>3, <1>4, SMT DEF Carried
<1>7. u[n] = y - c * 2097152 /\ u[n + 1] = v[n + 1] + c
      /\ \A k \in Place : k # n /\ k # n + 1 => u[k] = v[k]
  BY <1>1, <1>2, <1>3, <1>6, SMT
<1> QED
  BY <1>3, <1>5, <1>7, SMT DEF FlooredTo

\* What a fold does: no coefficient reaches 10^6.
LEMMA FoldFits ==
  ASSUME RealSize, NEW v \in [Limbs -> Int], NEW n \in 12 .. 23, NEW u, u = Folded(v, n),
         NEW z \in Nat, -z <= v[n], v[n] <= z
  PROVE  FoldedTo(v, u, n, z)
<1>1. v \in [Place -> Int] /\ Limbs = Place /\ Half = 6 /\ N = 12
  BY LimbsReal, SMT
<1>2. n \in Place
  BY SMT DEF Place
<1>3. PICK y \in Int : y = v[n] /\ -z <= y /\ y <= z
  BY <1>1, <1>2, SMT
<1>4. \A k \in 1 .. 6 : /\ y * Coef[k] \in Int
                        /\ -1000000 * z <= y * Coef[k] /\ y * Coef[k] <= 1000000 * z
  <2> SUFFICES ASSUME NEW k \in 1 .. 6
               PROVE  /\ y * Coef[k] \in Int
                      /\ -1000000 * z <= y * Coef[k] /\ y * Coef[k] <= 1000000 * z
    BY SMT
  <2>1. k \in {1, 2, 3, 4, 5, 6}
    BY SMT
  <2> QED
    BY <1>3, <2>1, CoefReal, SMT
<1>5. \A k \in Place : u[k] = IF k = n THEN 0
                              ELSE IF k - (n - 12) \in 0 .. 5 THEN v[k] + y * Coef[k - (n - 12) + 1]
                              ELSE v[k]
  BY <1>1, <1>3, SMT DEF Folded
<1>6. ASSUME NEW k \in Place, n - 12 <= k, k <= n - 7
      PROVE  v[k] - 1000000 * z <= u[k] /\ u[k] <= v[k] + 1000000 * z
  <2>1. k \in Int /\ v[k] \in Int
    BY <1>1, SMT DEF Place
  <2>2. PICK j \in 1 .. 6 : j = k - (n - 12) + 1
    BY <1>6, <2>1, SMT
  <2>3. u[k] = v[k] + y * Coef[j]
    BY <1>5, <1>6, <2>1, <2>2, SMT
  <2>4. PICK m \in Int : m = y * Coef[j] /\ -1000000 * z <= m /\ m <= 1000000 * z
    BY <1>4, SMT
  <2> QED
    BY ONLY <2>1, <2>3, <2>4, z \in Nat, SMT
<1>7. \A k \in Place : k # n /\ ~(n - 12 <= k /\ k <= n - 7) => u[k] = v[k]
  <2> SUFFICES ASSUME NEW k \in Place, k # n, ~(n - 12 <= k /\ k <= n - 7) PROVE u[k] = v[k]
    BY SMT
  <2>1. k \in Int
    BY SMT DEF Place
  <2> QED
    BY <1>5, <2>1, SMT
<1> QED
  BY <1>2, <1>3, <1>4, <1>5, <1>6, <1>7, SMT DEF FoldedTo

-----------------------------------------------------------------------------
\* The largest sizes of the limbs before the statement at n of each group: what a group has
\* carried is small but for the next carry, and what it has not may be as large as before.
Tidy == 1048576

MulEven(n) ==
  [k \in Place |-> IF k = 23 THEN 0
                   ELSE IF k % 2 = 0 /\ k < n THEN Tidy
                   ELSE IF k % 2 = 1 /\ k < n THEN 15000008000000000 ELSE 15000000000000000]
MulOdd(n) ==
  [k \in Place |-> IF k = 23 THEN 8000000000
                   ELSE IF k % 2 = 0 THEN IF k < n THEN Tidy + 8000000000 ELSE Tidy
                   ELSE IF k < n THEN Tidy ELSE 15000008000000000]
High(n) ==
  [k \in Place |-> IF k > n THEN 0
                   ELSE IF k \in 6 .. 16 THEN 10000000000 + (23 - n) * 10000000000000000
                   ELSE 10000000000]
MidEven(n) ==
  [k \in Place |-> IF k < 6 \/ k = 17 THEN 10000000000
                   ELSE IF k >= 18 THEN 0
                   ELSE IF k % 2 = 0 /\ k < n THEN Tidy
                   ELSE IF k % 2 = 1 /\ k < n THEN 61000030000000000 ELSE 61000000000000000]
MidOdd(n) ==
  [k \in Place |-> IF k < 6 THEN 10000000000
                   ELSE IF k = 17 THEN 40000000000
                   ELSE IF k >= 18 THEN 0
                   ELSE IF k % 2 = 0 THEN IF k < n THEN Tidy + 30000000000 ELSE Tidy
                   ELSE IF k < n THEN Tidy ELSE 61000030000000000]
Low(n) ==
  [k \in Place |-> IF k > n THEN 0
                   ELSE IF k >= 11 THEN 40000000000
                   ELSE 40000000000 + (17 - n) * 40000000000000000]
EvenBelow(n) ==
  [k \in Place |-> IF k >= 12 THEN 0
                   ELSE IF k % 2 = 0 /\ k < n THEN Tidy
                   ELSE IF k % 2 = 1 /\ k < n THEN 250000120000000000 ELSE 250000000000000000]
OddBelow(n) ==
  [k \in Place |-> IF k >= 12 THEN 0
                   ELSE IF k % 2 = 0 THEN IF k < n THEN Tidy + 120000000000 ELSE Tidy
                   ELSE IF k < n THEN Tidy ELSE 250000120000000000]
Top ==
  [k \in Place |-> IF k > 12 THEN 0 ELSE IF k = 12 THEN 120000000000
                   ELSE IF k = 11 THEN Tidy ELSE 130000000000]
Floor(n) ==
  [k \in Place |-> IF k >= 12 THEN 0
                   ELSE IF k < n THEN 2097151
                   ELSE (IF k < 6 THEN 130000000000000000
                         ELSE IF k < 11 THEN 130000000000 ELSE Tidy)
                        + (IF k = n THEN 70000000000 ELSE 0)]
Top2 ==
  [k \in Place |-> IF k > 12 THEN 0 ELSE IF k = 12 THEN 40000 ELSE 2097151]
Floor2(n) ==
  [k \in Place |-> IF k >= 12 THEN 0
                   ELSE IF k < n THEN 2097151
                   ELSE (IF k < 6 THEN 50000000000 ELSE 2097151)
                        + (IF k = n THEN 30000 ELSE 0)]

\* Limbs that are integers.
Ints(v) == \A k \in Place : v[k] \in Int

\* How the sizes before one statement follow from those before the one that precedes it.
LEMMA MulEvenStep ==
  ASSUME NEW v, NEW u, Ints(v), Ints(u), NEW n \in 0 .. 22, n % 2 = 0, RoundedTo(v, u, n),
         Within(v, MulEven(n))
  PROVE  /\ n # 22 => Within(u, MulEven(n + 2))
         /\ n = 22 => Within(u, MulOdd(1))
<1>1. PICK c \in Int : /\ u[n + 1] = v[n + 1] + c
                       /\ v[n] - 1048576 <= 2097152 * c /\ 2097152 * c <= v[n] + 1048576
  BY SMT DEF RoundedTo
<1>2. n \in Place /\ n + 1 \in Place
  BY SMT DEF Place
<1>3. -8000000000 <= c /\ c <= 8000000000
  BY <1>1, <1>2, SMT DEF Within, MulEven, Tidy, Ints
<1>4. CASE n # 22
  BY <1>1, <1>2, <1>3, <1>4, SMT DEF RoundedTo, Within, MulEven, Tidy, Place, Ints
<1>5. CASE n = 22
  BY <1>1, <1>2, <1>3, <1>5, SMT DEF RoundedTo, Within, MulEven, MulOdd, Tidy, Place, Ints
<1> QED
  BY <1>4, <1>5, SMT

LEMMA MulOddStep ==
  ASSUME NEW v, NEW u, Ints(v), Ints(u), NEW n \in 1 .. 21, n % 2 = 1, RoundedTo(v, u, n),
         Within(v, MulOdd(n))
  PROVE  /\ n # 21 => Within(u, MulOdd(n + 2))
         /\ n = 21 => Within(u, High(23))
<1>1. PICK c \in Int : /\ u[n + 1] = v[n + 1] + c
                       /\ v[n] - 1048576 <= 2097152 * c /\ 2097152 * c <= v[n] + 1048576
  BY SMT DEF RoundedTo
<1>2. n \in Place /\ n + 1 \in Place
  BY SMT DEF Place
<1>3. -8000000000 <= c /\ c <= 8000000000
  BY <1>1, <1>2, SMT DEF Within, MulOdd, Tidy, Ints
<1>4. CASE n # 21
  BY <1>1, <1>2, <1>3, <1>4, SMT DEF RoundedTo, Within, MulOdd, Tidy, Place, Ints
<1>5. CASE n = 21
  BY <1>1, <1>2, <1>3, <1>5, SMT DEF RoundedTo, Within, MulOdd, High, Tidy, Place, Ints
<1> QED
  BY <1>4, <1>5, SMT

LEMMA HighStep ==
  ASSUME NEW v, NEW u, Ints(v), Ints(u), NEW n \in 18 .. 23, FoldedTo(v, u, n, 10000000000),
         Within(v, High(n))
  PROVE  /\ n # 18 => Within(u, High(n - 1))
         /\ n = 18 => Within(u, MidEven(6))
<1>1. CASE n # 18
  BY <1>1, SMT DEF FoldedTo, Within, High, Place, Ints
<1>2. CASE n = 18
  BY <1>2, SMT DEF FoldedTo, Within, High, MidEven, Tidy, Place, Ints
<1> QED
  BY <1>1, <1>2, SMT

LEMMA MidEvenStep ==
  ASSUME NEW v, NEW u, Ints(v), Ints(u), NEW n \in 6 .. 16, n % 2 = 0, RoundedTo(v, u, n),
         Within(v, MidEven(n))
  PROVE  /\ n # 16 => Within(u, MidEven(n + 2))
         /\ n = 16 => Within(u, MidOdd(7))
<1>1. PICK c \in Int : /\ u[n + 1] = v[n + 1] + c
                       /\ v[n] - 1048576 <= 2097152 * c /\ 2097152 * c <= v[n] + 1048576
  BY SMT DEF RoundedTo
<1>2. n \in Place /\ n + 1 \in Place
  BY SMT DEF Place
<1>3. -30000000000 <= c /\ c <= 30000000000
  BY <1>1, <1>2, SMT DEF Within, MidEven, Tidy, Ints
<1>4. CASE n # 16
  BY <1>1, <1>2, <1>3, <1>4, SMT DEF RoundedTo, Within, MidEven, Tidy, Place, Ints
<1>5. CASE n = 16
  BY <1>1, <1>2, <1>3, <1>5, SMT DEF RoundedTo, Within, MidEven, MidOdd, Tidy, Place, Ints
<1> QED
  BY <1>4, <1>5, SMT

LEMMA MidOddStep ==
  ASSUME NEW v, NEW u, Ints(v), Ints(u), NEW n \in 7 .. 15, n % 2 = 1, RoundedTo(v, u, n),
         Within(v, MidOdd(n))
  PROVE  /\ n # 15 => Within(u, MidOdd(n + 2))
         /\ n = 15 => Within(u, Low(17))
<1>1. PICK c \in Int : /\ u[n + 1] = v[n + 1] + c
                       /\ v[n] - 1048576 <= 2097152 * c /\ 2097152 * c <= v[n] + 1048576
  BY SMT DEF RoundedTo
<1>2. n \in Place /\ n + 1 \in Place
  BY SMT DEF Place
<1>3. -30000000000 <= c /\ c <= 30000000000
  BY <1>1, <1>2, SMT DEF Within, MidOdd, Tidy, Ints
<1>4. CASE n # 15
  BY <1>1, <1>2, <1>3, <1>4, SMT DEF RoundedTo, Within, MidOdd, Tidy, Place, Ints
<1>5. CASE n = 15
  BY <1>1, <1>2, <1>3, <1>5, SMT DEF RoundedTo, Within, MidOdd, Low, Tidy, Place, Ints
<1> QED
  BY <1>4, <1>5, SMT

LEMMA LowStep ==
  ASSUME NEW v, NEW u, Ints(v), Ints(u), NEW n \in 12 .. 17, FoldedTo(v, u, n, 40000000000),
         Within(v, Low(n))
  PROVE  /\ n # 12 => Within(u, Low(n - 1))
         /\ n = 12 => Within(u, EvenBelow(0))
<1>1. CASE n # 12
  BY <1>1, SMT DEF FoldedTo, Within, Low, Place, Ints
<1>2. CASE n = 12
  BY <1>2, SMT DEF FoldedTo, Within, Low, EvenBelow, Tidy, Place, Ints
<1> QED
  BY <1>1, <1>2, SMT

LEMMA EvenBelowStep ==
  ASSUME NEW v, NEW u, Ints(v), Ints(u), NEW n \in 0 .. 10, n % 2 = 0, RoundedTo(v, u, n),
         Within(v, EvenBelow(n))
  PROVE  /\ n # 10 => Within(u, EvenBelow(n + 2))
         /\ n = 10 => Within(u, OddBelow(1))
<1>1. PICK c \in Int : /\ u[n + 1] = v[n + 1] + c
                       /\ v[n] - 1048576 <= 2097152 * c /\ 2097152 * c <= v[n] + 1048576
  BY SMT DEF RoundedTo
<1>2. n \in Place /\ n + 1 \in Place
  BY SMT DEF Place
<1>3. -120000000000 <= c /\ c <= 120000000000
  BY <1>1, <1>2, SMT DEF Within, EvenBelow, Tidy, Ints
<1>4. CASE n # 10
  BY <1>1, <1>2, <1>3, <1>4, SMT DEF RoundedTo, Within, EvenBelow, Tidy, Place, Ints
<1>5. CASE n = 10
  BY <1>1, <1>2, <1>3, <1>5, SMT DEF RoundedTo, Within, EvenBelow, OddBelow, Tidy, Place, Ints
<1> QED
  BY <1>4, <1>5, SMT

LEMMA OddBelowStep ==
  ASSUME NEW v, NEW u, Ints(v), Ints(u), NEW n \in 1 .. 11, n % 2 = 1, RoundedTo(v, u, n),
         Within(v, OddBelow(n))
  PROVE  /\ n # 11 => Within(u, OddBelow(n + 2))
         /\ n = 11 => Within(u, Top)
<1>1. PICK c \in Int : /\ u[n + 1] = v[n + 1] + c
                       /\ v[n] - 1048576 <= 2097152 * c /\ 2097152 * c <= v[n] + 1048576
  BY SMT DEF RoundedTo
<1>2. n \in Place /\ n + 1 \in Place
  BY SMT DEF Place
<1>3. -120000000000 <= c /\ c <= 120000000000
  BY <1>1, <1>2, SMT DEF Within, OddBelow, Tidy, Ints
<1>4. CASE n # 11
  BY <1>1, <1>2, <1>3, <1>4, SMT DEF RoundedTo, Within, OddBelow, Tidy, Place, Ints
<1>5. CASE n = 11
  BY <1>1, <1>2, <1>3, <1>5, SMT DEF RoundedTo, Within, OddBelow, Top, Tidy, Place, Ints
<1> QED
  BY <1>4, <1>5, SMT

LEMMA TopStep ==
  ASSUME NEW v, NEW u, Ints(v), Ints(u), FoldedTo(v, u, 12, 120000000000), Within(v, Top)
  PROVE  Within(u, Floor(0))
  BY SMT DEF FoldedTo, Within, Top, Floor, Tidy, Place, Ints

LEMMA FloorStep ==
  ASSUME NEW v, NEW u, Ints(v), Ints(u), NEW n \in 0 .. 11, FlooredTo(v, u, n),
         Digits(v, n), Within(v, Floor(n))
  PROVE  /\ n # 11 => Within(u, Floor(n + 1))
         /\ n = 11 => Within(u, Top2)
         /\ Digits(u, n + 1)
<1>1. PICK c \in Int : /\ u[n + 1] = v[n + 1] + c
                       /\ v[n] - 2097152 <= 2097152 * c /\ 2097152 * c <= v[n]
  BY SMT DEF FlooredTo
<1>2. n \in Place /\ n + 1 \in Place
  BY SMT DEF Place
<1>3. -70000000000 <= c /\ c <= 70000000000
  BY <1>1, <1>2, SMT DEF Within, Floor, Tidy, Ints
<1>4. CASE n # 11
  BY <1>1, <1>2, <1>3, <1>4, SMT DEF FlooredTo, Within, Floor, Tidy, Place, Ints, Digits
<1>5. CASE n = 11
  BY <1>1, <1>2, <1>3, <1>5, SMT DEF FlooredTo, Within, Floor, Top2, Tidy, Place, Ints, Digits
<1>6. Digits(u, n + 1)
  BY <1>2, SMT DEF FlooredTo, Digits, Place, Ints
<1> QED
  BY <1>4, <1>5, <1>6, SMT

LEMMA Top2Step ==
  ASSUME NEW v, NEW u, Ints(v), Ints(u), FoldedTo(v, u, 12, 40000), Within(v, Top2)
  PROVE  Within(u, Floor2(0))
  BY SMT DEF FoldedTo, Within, Top2, Floor2, Tidy, Place, Ints

LEMMA Floor2Step ==
  ASSUME NEW v, NEW u, Ints(v), Ints(u), NEW n \in 0 .. 10, FlooredTo(v, u, n),
         Digits(v, n), Within(v, Floor2(n))
  PROVE  /\ n # 10 => Within(u, Floor2(n + 1))
         /\ n = 10 => Within(u, Floor2(11))
         /\ Digits(u, n + 1)
<1>1. PICK c \in Int : /\ u[n + 1] = v[n + 1] + c
                       /\ v[n] - 2097152 <= 2097152 * c /\ 2097152 * c <= v[n]
  BY SMT DEF FlooredTo
<1>2. n \in Place /\ n + 1 \in Place
  BY SMT DEF Place
<1>3. -30000 <= c /\ c <= 30000
  BY <1>1, <1>2, SMT DEF Within, Floor2, Tidy, Ints
<1>4. CASE n # 10
  BY <1>1, <1>2, <1>3, <1>4, SMT DEF FlooredTo, Within, Floor2, Tidy, Place, Ints, Digits
<1>5. CASE n = 10
  BY <1>1, <1>2, <1>3, <1>5, SMT DEF FlooredTo, Within, Floor2, Floor2, Tidy, Place, Ints, Digits
<1>6. Digits(u, n + 1)
  BY <1>2, SMT DEF FlooredTo, Digits, Place, Ints
<1> QED
  BY <1>4, <1>5, <1>6, SMT

-----------------------------------------------------------------------------
\* A sum is at most as large as its terms allow.
LEMMA TotalBound ==
  ASSUME NEW n \in Nat, NEW f, NEW b \in Nat, \A k \in 0 .. n - 1 : f[k] \in Nat /\ f[k] <= b
  PROVE  Total(f, n) \in Nat /\ Total(f, n) <= n * b
<1> DEFINE S == {m \in 0 .. n : Total(f, m) \in Nat /\ Total(f, m) <= m * b}
<1>1. /\ \A m \in 0 .. n - 1 : Total(f, m) \in Int /\ Total(f, m + 1) = Total(f, m) + f[m]
      /\ n = 0 => Total(f, n) = 0
  BY TotalNext, SMT
<1>2. Total(f, 0) = 0
  <2>1. \A k \in 0 .. 0 - 1 : f[k] \in Int
    BY SMT
  <2> QED
    BY ONLY <2>1, TotalNext, SMT
<1>3. 0 \in S
  BY <1>2, SMT
<1>4. \A m \in 0 .. n - 1 : m \in S => m + 1 \in S
  <2> SUFFICES ASSUME NEW m \in 0 .. n - 1, m \in S PROVE m + 1 \in S
    BY SMT
  <2>1. Total(f, m + 1) = Total(f, m) + f[m] /\ f[m] \in Nat /\ f[m] <= b
    BY <1>1, SMT
  <2>2. (m + 1) * b = m * b + b /\ m * b \in Int
    BY MulFacts, SMT
  <2> QED
    BY <2>1, <2>2, SMT
<1> HIDE DEF S
<1>5. n \in S
  <2>1. \A m \in 0 .. n : m \in S
    BY ONLY n \in Nat, <1>3, <1>4, InductionTo, SMT
  <2> QED
    BY <2>1, SMT
<1> QED
  BY <1>5, SMT DEF S

\* The weights are the powers of 2^21; the limbs of an argument of 256 or 512 bits are
\* digits but the last, which the argument bounds.
LEMMA LimbBelow ==
  ASSUME RealSize, NEW n \in Nat, NEW q \in Nat \ {0}, NEW b \in Nat, n < 2^(21 * (q - 1) + b)
  PROVE  \A k \in 0 .. q - 1 : /\ Limb(n, k, q) \in Nat
                               /\ k < q - 1 => Limb(n, k, q) < 2097152
                               /\ Limb(n, q - 1, q) < 2^b
<1>1. W = 21 /\ Radix = 2097152
  <2>1. W = 21
    BY SMT DEF RealSize, RealConstants
  <2> QED
    BY <2>1, LimbsReal, SMT
<1>2. PICK p \in Nat : p = q - 1
  BY SMT
<1>3. Limb(n, p, q) = n \div 2^(21 * p)
  BY <1>1, <1>2, LimbIs, SMT
<1>4. PICK m \in Nat \ {0}, l \in Nat \ {0} : m = 2^(21 * p) /\ l = 2^b /\ n < m * l
  <2>1. 21 * p \in Nat
    BY <1>2, SMT
  <2>2. 2^(21 * p + b) = 2^(21 * p) * 2^b
    BY <2>1, PowSum, SMT
  <2>3. 2^(21 * p) \in Nat \ {0} /\ 2^b \in Nat \ {0}
    BY <2>1, PowPositive, SMT
  <2> QED
    BY <1>2, <2>2, <2>3, SMT
<1>5. n \div m < l
  <2>1. PICK y \in Nat, z \in Nat : y = n \div m /\ z = n % m /\ z < m /\ n = m * y + z
    BY <1>4, DivMod, SMT
  <2>2. y >= l => m * l <= m * y
    BY MulNat, SMT
  <2>3. m * l \in Nat /\ m * y \in Nat
    BY MulNat, SMT
  <2> QED
    BY <1>4, <2>1, <2>2, <2>3, SMT
<1>6. Limb(n, p, q) < 2^b
  BY <1>3, <1>4, <1>5, SMT
<1>7. ASSUME NEW k \in 0 .. q - 1, k < q - 1
      PROVE  Limb(n, k, q) < 2097152
  <2>1. Limb(n, k, q) = (n \div 2^(W * k)) % Radix
    BY <1>7, LimbIs, SMT
  <2>2. PICK y \in Nat : y = n \div 2^(W * k)
    <3>1. 2^(W * k) \in Nat \ {0}
      BY Weights, SMT
    <3> QED
      BY <3>1, DivMod, SMT
  <2> QED
    BY <1>1, <2>1, <2>2, SMT
<1>8. \A k \in 0 .. q - 1 : Limb(n, k, q) \in Nat
  BY LimbInt, SMT
<1> QED
  BY <1>2, <1>6, <1>7, <1>8, SMT

LEMMA PowersReal == 2^25 = 33554432 /\ 2^29 = 536870912
  BY SMT

LEMMA ReducedLimbs ==
  ASSUME RealSize, NEW n \in Reduced
  PROVE  \A k \in Place : Limb(n, k, 24) \in Nat /\ Limb(n, k, 24) <= 10000000000
<1>1. n \in Nat /\ n < 2^(2 * ByteBits * Bytes)
  <2>1. n \in Nat
    BY ScalarAssumption DEF ScalarAssumption
  <2>2. Below(Reduced, 2^(2 * ByteBits * Bytes))
    BY Zenon DEF RealSize
  <2> QED
    BY <2>1, <2>2, Zenon DEF Below
<1>2. 2 * ByteBits * Bytes = 21 * (24 - 1) + 29
  BY SMT DEF RealSize, RealConstants
<1>3. PICK q \in Nat \ {0}, b \in Nat : q = 24 /\ b = 29
  BY SMT
<1>4. \A k \in 0 .. q - 1 : /\ Limb(n, k, q) \in Nat
                            /\ k < q - 1 => Limb(n, k, q) < 2097152
                            /\ Limb(n, q - 1, q) < 2^b
  <2>1. n < 2^(21 * (q - 1) + b)
    BY ONLY <1>1, <1>2, <1>3, Zenon
  <2> QED
    BY ONLY RealSize, ScalarAssumption, <1>1, <2>1, LimbBelow, SMT
<1> QED
  BY <1>3, <1>4, PowersReal, SMT DEF Place

LEMMA FactorLimbs ==
  ASSUME RealSize, NEW n \in Factors
  PROVE  \A k \in 0 .. 11 : /\ Limb(n, k, 12) \in Nat /\ Limb(n, k, 12) <= 33554432
<1>1. n \in Nat /\ n < 2^(ByteBits * Bytes)
  <2>1. n \in Nat
    BY ScalarAssumption DEF ScalarAssumption
  <2>2. Below(Factors, 2^(ByteBits * Bytes))
    BY Zenon DEF RealSize
  <2> QED
    BY <2>1, <2>2, Zenon DEF Below
<1>2. ByteBits * Bytes = 21 * (12 - 1) + 25
  BY SMT DEF RealSize, RealConstants
<1>3. PICK q \in Nat \ {0}, b \in Nat : q = 12 /\ b = 25
  BY SMT
<1>4. \A k \in 0 .. q - 1 : /\ Limb(n, k, q) \in Nat
                            /\ k < q - 1 => Limb(n, k, q) < 2097152
                            /\ Limb(n, q - 1, q) < 2^b
  <2>1. n < 2^(21 * (q - 1) + b)
    BY ONLY <1>1, <1>2, <1>3, Zenon
  <2> QED
    BY ONLY RealSize, ScalarAssumption, <1>1, <2>1, LimbBelow, SMT
<1> QED
  BY <1>3, <1>4, PowersReal, SMT

\* The sums of products of sc_muladd.
LEMMA ProductsFit ==
  ASSUME RealSize, NEW a \in Factors, NEW b \in Factors, NEW c \in Factors
  PROVE  /\ \A k \in Place : /\ Products(a, b, c)[k] \in Nat
                             /\ Products(a, b, c)[k] <= 15000000000000000
         /\ Products(a, b, c)[23] = 0
<1>1. N = 12 /\ Limbs = Place
  BY LimbsReal, SMT
<1>2. ASSUME NEW k \in Place
      PROVE  /\ \A j \in 0 .. 12 - 1 : /\ Row(a, b, k)[j] \in Nat
                                       /\ Row(a, b, k)[j] <= 1125899906842624
                                       /\ k = 23 => Row(a, b, k)[j] <= 0
             /\ Products(a, b, c)[k] = (IF k < 12 THEN Limb(c, k, 12) ELSE 0) + Total(Row(a, b, k), 12)
  <2>1. Products(a, b, c)[k] = (IF k < 12 THEN Limb(c, k, 12) ELSE 0) + Total(Row(a, b, k), 12)
    BY <1>1, Zenon DEF Products, Row
  <2>2. ASSUME NEW j \in 0 .. 12 - 1
        PROVE  /\ Row(a, b, k)[j] \in Nat
               /\ Row(a, b, k)[j] <= 1125899906842624
               /\ k = 23 => Row(a, b, k)[j] <= 0
    <3>1. Row(a, b, k)[j] = IF k - j \in 0 .. 12 - 1 THEN Limb(a, j, 12) * Limb(b, k - j, 12) ELSE 0
      BY <1>1, Zenon DEF Row
    <3>2. CASE k - j \in 0 .. 12 - 1
      <4>1. PICK y \in Nat, z \in Nat : /\ y = Limb(a, j, 12) /\ z = Limb(b, k - j, 12)
                                        /\ y <= 33554432 /\ z <= 33554432
        <5>1. j \in 0 .. 11 /\ k - j \in 0 .. 11
          BY <3>2, SMT
        <5>2. Limb(a, j, 12) \in Nat /\ Limb(a, j, 12) <= 33554432
          BY <5>1, FactorLimbs, SMT
        <5>3. Limb(b, k - j, 12) \in Nat /\ Limb(b, k - j, 12) <= 33554432
          BY <5>1, FactorLimbs, SMT
        <5> QED
          BY <5>2, <5>3, SMT
      <4>2. y * z <= 33554432 * z /\ y * z \in Nat
        BY <4>1, MulNat, SMT
      <4>3. k # 23
        BY <3>2, SMT DEF Place
      <4> QED
        BY <3>1, <3>2, <4>1, <4>2, <4>3, SMT
    <3>3. CASE ~(k - j \in 0 .. 12 - 1)
      BY <3>1, <3>3, SMT
    <3> QED
      BY <3>2, <3>3, SMT
  <2> QED
    BY <2>1, <2>2, SMT
<1>3. ASSUME NEW k \in Place
      PROVE  /\ Total(Row(a, b, k), 12) \in Nat /\ Total(Row(a, b, k), 12) <= 12 * 1125899906842624
             /\ k = 23 => Total(Row(a, b, k), 12) = 0
  <2> DEFINE f == Row(a, b, k)
  <2> HIDE DEF f
  <2>1. PICK m \in Nat, l \in Nat : m = 1125899906842624 /\ l = 12
    BY SMT
  <2>2. \A j \in 0 .. l - 1 : f[j] \in Nat /\ f[j] <= m
    BY <1>2, <2>1, SMT DEF f
  <2>3. Total(f, l) \in Nat /\ Total(f, l) <= l * m
    BY ONLY <2>2, m \in Nat, l \in Nat, TotalBound, SMT
  <2>4. k = 23 => \A j \in 0 .. l - 1 : f[j] \in Nat /\ f[j] <= 0
    BY <1>2, <2>1, SMT DEF f
  <2>5. k = 23 => Total(f, l) <= l * 0
    BY ONLY <2>4, l \in Nat, 0 \in Nat, TotalBound, SMT
  <2> QED
    BY <2>1, <2>3, <2>5, SMT DEF f
<1>4. ASSUME NEW k \in Place
      PROVE  /\ Products(a, b, c)[k] \in Nat /\ Products(a, b, c)[k] <= 15000000000000000
             /\ k = 23 => Products(a, b, c)[k] = 0
  <2>1. k < 12 => Limb(c, k, 12) \in Nat /\ Limb(c, k, 12) <= 33554432
    BY FactorLimbs, SMT DEF Place
  <2> QED
    BY <1>2, <1>3, <2>1, SMT
<1>5. 23 \in Place
  BY SMT DEF Place
<1> QED
  BY <1>4, <1>5, SMT

-----------------------------------------------------------------------------
\* The sizes in each group; from the floor carries on, also the limbs that are digits.
Sized ==
  /\ phase = "muleven" => Within(s, MulEven(i))
  /\ phase = "mulodd" => Within(s, MulOdd(i))
  /\ phase = "high" => Within(s, High(i))
  /\ phase = "mideven" => Within(s, MidEven(i))
  /\ phase = "midodd" => Within(s, MidOdd(i))
  /\ phase = "low" => Within(s, Low(i))
  /\ phase = "even" => Within(s, EvenBelow(i))
  /\ phase = "odd" => Within(s, OddBelow(i))
  /\ phase = "top" => Within(s, Top)
  /\ phase = "floor" => Within(s, Floor(i)) /\ Digits(s, i)
  /\ phase = "top2" => Within(s, Top2) /\ Digits(s, 12)
  /\ phase = "floor2" => Within(s, Floor2(i)) /\ Digits(s, i)
  /\ phase \in {"pack", "done"} => Within(s, Floor2(11)) /\ Digits(s, 11)

LEMMA SizedInit == RealSize /\ Init => Sized
<1> SUFFICES ASSUME RealSize, Init PROVE Sized
  OBVIOUS
<1>1. Limbs = Place /\ N = 12
  BY LimbsReal, SMT
<1>2. CASE /\ call = "sc_reduce" /\ Begin("high", 2 * N - 1)
           /\ x \in Reduced
           /\ s = [k \in Limbs |-> Limb(x, k, 2 * N)]
  <2>1. \A k \in Place : s[k] \in Nat /\ s[k] <= 10000000000
    <3>1. 2 * N = 24 /\ s = [k \in Place |-> Limb(x, k, 2 * N)]
      BY <1>1, <1>2, SMT
    <3>2. ASSUME NEW k \in Place PROVE s[k] = Limb(x, k, 24)
      BY <3>1, Zenon
    <3>3. x \in Reduced
      BY <1>2
    <3>4. \A k \in Place : Limb(x, k, 24) \in Nat /\ Limb(x, k, 24) <= 10000000000
      BY <3>3, ReducedLimbs, SMT
    <3> QED
      BY <3>2, <3>4, SMT
  <2>2. phase = "high" /\ i = 23
    BY <1>1, <1>2, SMT DEF Begin
  <2>3. Within(s, High(23))
    BY <2>1, SMT DEF Within, High, Place
  <2> QED
    BY <2>2, <2>3, SMT DEF Sized
<1>3. CASE /\ call = "sc_muladd" /\ Begin("muleven", 0)
           /\ \E a \in Factors, b \in Factors, c \in Factors :
                x = a * b + c /\ s = Products(a, b, c)
  <2>1. PICK a \in Factors, b \in Factors, c \in Factors : s = Products(a, b, c)
    BY <1>3, Zenon
  <2>2. \A k \in Place : s[k] \in Nat /\ s[k] <= 15000000000000000
    BY <2>1, ProductsFit, SMT
  <2>3. s[23] = 0
    BY <2>1, ProductsFit, SMT
  <2>4. phase = "muleven" /\ i = 0
    BY <1>3, SMT DEF Begin
  <2>5. Within(s, MulEven(0))
    BY <2>2, <2>3, SMT DEF Within, MulEven, Place
  <2> QED
    BY <2>4, <2>5, SMT DEF Sized
<1> QED
  BY <1>2, <1>3, Zenon DEF Init

\* What a statement of each group makes of the limbs.
LEMMA SizedStep ==
  ASSUME RealSize, IInv, Sized, NEW op, Statement(op), s' \in [Limbs -> Int],
         op = "round" => RoundedTo(s, s', i),
         op = "floor" => FlooredTo(s, s', i),
         op = "fold"  => \A z \in Nat : -z <= s[i] /\ s[i] <= z => FoldedTo(s, s', i, z)
  PROVE  Sized'
<1>1. N = 12 /\ Half = 6 /\ Ints(s) /\ Ints(s') /\ At(phase, i)
  <2>1. s \in [Place -> Int] /\ s' \in [Place -> Int]
    BY LimbsReal, SMT DEF IInv
  <2> QED
    BY <2>1, LimbsReal, SMT DEF Ints, IInv
<1>2. phase \in {"muleven", "mulodd", "high", "mideven", "midodd", "low", "even", "odd", "top",
                 "floor", "top2", "floor2"}
  BY SMT DEF Statement, Loops
<1>3. CASE phase = "muleven"
  <2>1. /\ op = "round" /\ i \in 0 .. 22 /\ i % 2 = 0
        /\ i # 22 => phase' = "muleven" /\ i' = i + 2
        /\ i = 22 => phase' = "mulodd" /\ i' = 1
    BY <1>1, <1>3, SMT DEF At, Statement, Loops, Loop
  <2>2. Within(s, MulEven(i))
    BY <1>3, SMT DEF Sized
  <2>3. RoundedTo(s, s', i)
    BY <2>1, SMT
  <2>4. /\ i # 22 => Within(s', MulEven(i + 2))
        /\ i = 22 => Within(s', MulOdd(1))
    BY <1>1, <2>1, <2>2, <2>3, MulEvenStep, SMT
  <2> QED
    BY <2>1, <2>4, SMT DEF Sized
<1>4. CASE phase = "mulodd"
  <2>1. /\ op = "round" /\ i \in 1 .. 21 /\ i % 2 = 1
        /\ i # 21 => phase' = "mulodd" /\ i' = i + 2
        /\ i = 21 => phase' = "high" /\ i' = 23
    BY <1>1, <1>4, SMT DEF At, Statement, Loops, Loop
  <2>2. Within(s, MulOdd(i))
    BY <1>4, SMT DEF Sized
  <2>3. RoundedTo(s, s', i)
    BY <2>1, SMT
  <2>4. /\ i # 21 => Within(s', MulOdd(i + 2))
        /\ i = 21 => Within(s', High(23))
    BY <1>1, <2>1, <2>2, <2>3, MulOddStep, SMT
  <2> QED
    BY <2>1, <2>4, SMT DEF Sized
<1>5. CASE phase = "high"
  <2>1. /\ op = "fold" /\ i \in 18 .. 23
        /\ i # 18 => phase' = "high" /\ i' = i - 1
        /\ i = 18 => phase' = "mideven" /\ i' = 6
    BY <1>1, <1>5, SMT DEF At, Statement, Loops, Loop
  <2>2. Within(s, High(i))
    BY <1>5, SMT DEF Sized
  <2>3. FoldedTo(s, s', i, 10000000000)
    <3>1. -10000000000 <= s[i] /\ s[i] <= 10000000000
      BY <1>1, <2>1, <2>2, SMT DEF Within, High, Place, Ints
    <3>2. 10000000000 \in Nat
      BY SMT
    <3> QED
      BY <2>1, <3>1, <3>2, SMT
  <2>4. /\ i # 18 => Within(s', High(i - 1))
        /\ i = 18 => Within(s', MidEven(6))
    BY <1>1, <2>1, <2>2, <2>3, HighStep, SMT
  <2> QED
    BY <2>1, <2>4, SMT DEF Sized
<1>6. CASE phase = "mideven"
  <2>1. /\ op = "round" /\ i \in 6 .. 16 /\ i % 2 = 0
        /\ i # 16 => phase' = "mideven" /\ i' = i + 2
        /\ i = 16 => phase' = "midodd" /\ i' = 7
    BY <1>1, <1>6, SMT DEF At, Statement, Loops, Loop
  <2>2. Within(s, MidEven(i))
    BY <1>6, SMT DEF Sized
  <2>3. RoundedTo(s, s', i)
    BY <2>1, SMT
  <2>4. /\ i # 16 => Within(s', MidEven(i + 2))
        /\ i = 16 => Within(s', MidOdd(7))
    BY <1>1, <2>1, <2>2, <2>3, MidEvenStep, SMT
  <2> QED
    BY <2>1, <2>4, SMT DEF Sized
<1>7. CASE phase = "midodd"
  <2>1. /\ op = "round" /\ i \in 7 .. 15 /\ i % 2 = 1
        /\ i # 15 => phase' = "midodd" /\ i' = i + 2
        /\ i = 15 => phase' = "low" /\ i' = 17
    BY <1>1, <1>7, SMT DEF At, Statement, Loops, Loop
  <2>2. Within(s, MidOdd(i))
    BY <1>7, SMT DEF Sized
  <2>3. RoundedTo(s, s', i)
    BY <2>1, SMT
  <2>4. /\ i # 15 => Within(s', MidOdd(i + 2))
        /\ i = 15 => Within(s', Low(17))
    BY <1>1, <2>1, <2>2, <2>3, MidOddStep, SMT
  <2> QED
    BY <2>1, <2>4, SMT DEF Sized
<1>8. CASE phase = "low"
  <2>1. /\ op = "fold" /\ i \in 12 .. 17
        /\ i # 12 => phase' = "low" /\ i' = i - 1
        /\ i = 12 => phase' = "even" /\ i' = 0
    BY <1>1, <1>8, SMT DEF At, Statement, Loops, Loop
  <2>2. Within(s, Low(i))
    BY <1>8, SMT DEF Sized
  <2>3. FoldedTo(s, s', i, 40000000000)
    <3>1. -40000000000 <= s[i] /\ s[i] <= 40000000000
      BY <1>1, <2>1, <2>2, SMT DEF Within, Low, Place, Ints
    <3>2. 40000000000 \in Nat
      BY SMT
    <3> QED
      BY <2>1, <3>1, <3>2, SMT
  <2>4. /\ i # 12 => Within(s', Low(i - 1))
        /\ i = 12 => Within(s', EvenBelow(0))
    BY <1>1, <2>1, <2>2, <2>3, LowStep, SMT
  <2> QED
    BY <2>1, <2>4, SMT DEF Sized
<1>9. CASE phase = "even"
  <2>1. /\ op = "round" /\ i \in 0 .. 10 /\ i % 2 = 0
        /\ i # 10 => phase' = "even" /\ i' = i + 2
        /\ i = 10 => phase' = "odd" /\ i' = 1
    BY <1>1, <1>9, SMT DEF At, Statement, Loops, Loop
  <2>2. Within(s, EvenBelow(i))
    BY <1>9, SMT DEF Sized
  <2>3. RoundedTo(s, s', i)
    BY <2>1, SMT
  <2>4. /\ i # 10 => Within(s', EvenBelow(i + 2))
        /\ i = 10 => Within(s', OddBelow(1))
    BY <1>1, <2>1, <2>2, <2>3, EvenBelowStep, SMT
  <2> QED
    BY <2>1, <2>4, SMT DEF Sized
<1>10. CASE phase = "odd"
  <2>1. /\ op = "round" /\ i \in 1 .. 11 /\ i % 2 = 1
        /\ i # 11 => phase' = "odd" /\ i' = i + 2
        /\ i = 11 => phase' = "top" /\ i' = 12
    BY <1>1, <1>10, SMT DEF At, Statement, Loops, Loop
  <2>2. Within(s, OddBelow(i))
    BY <1>10, SMT DEF Sized
  <2>3. RoundedTo(s, s', i)
    BY <2>1, SMT
  <2>4. /\ i # 11 => Within(s', OddBelow(i + 2))
        /\ i = 11 => Within(s', Top)
    BY <1>1, <2>1, <2>2, <2>3, OddBelowStep, SMT
  <2> QED
    BY <2>1, <2>4, SMT DEF Sized
<1>11. CASE phase = "top"
  <2>1. /\ op = "fold" /\ i \in 12 .. 12
        /\ i # 12 => phase' = "top" /\ i' = i - 1
        /\ i = 12 => phase' = "floor" /\ i' = 0
    BY <1>1, <1>11, SMT DEF At, Statement, Loops, Loop
  <2>2. Within(s, Top)
    BY <1>11, SMT DEF Sized
  <2>3. FoldedTo(s, s', i, 120000000000)
    <3>1. -120000000000 <= s[i] /\ s[i] <= 120000000000
      BY <1>1, <2>1, <2>2, SMT DEF Within, Top, Place, Ints
    <3>2. 120000000000 \in Nat
      BY SMT
    <3> QED
      BY <2>1, <3>1, <3>2, SMT
  <2>4. Within(s', Floor(0))
    BY <1>1, <2>1, <2>2, <2>3, TopStep, SMT
  <2>5. Digits(s', 0)
    BY SMT DEF Digits, Place
  <2> QED
    BY <2>1, <2>4, <2>5, SMT DEF Sized
<1>12. CASE phase = "floor"
  <2>1. /\ op = "floor" /\ i \in 0 .. 11
        /\ i # 11 => phase' = "floor" /\ i' = i + 1
        /\ i = 11 => phase' = "top2" /\ i' = 12
    BY <1>1, <1>12, SMT DEF At, Statement, Loops, Loop
  <2>2. Within(s, Floor(i)) /\ Digits(s, i)
    BY <1>12, SMT DEF Sized
  <2>3. FlooredTo(s, s', i)
    BY <2>1, SMT
  <2>4. /\ i # 11 => Within(s', Floor(i + 1))
        /\ i = 11 => Within(s', Top2)
        /\ Digits(s', i + 1)
    BY <1>1, <2>1, <2>2, <2>3, FloorStep, SMT
  <2> QED
    BY <2>1, <2>4, SMT DEF Sized
<1>13. CASE phase = "top2"
  <2>1. /\ op = "fold" /\ i \in 12 .. 12
        /\ i # 12 => phase' = "top2" /\ i' = i - 1
        /\ i = 12 => phase' = "floor2" /\ i' = 0
    BY <1>1, <1>13, SMT DEF At, Statement, Loops, Loop
  <2>2. Within(s, Top2) /\ Digits(s, 12)
    BY <1>13, SMT DEF Sized
  <2>3. FoldedTo(s, s', i, 40000)
    <3>1. -40000 <= s[i] /\ s[i] <= 40000
      BY <1>1, <2>1, <2>2, SMT DEF Within, Top2, Place, Ints
    <3>2. 40000 \in Nat
      BY SMT
    <3> QED
      BY <2>1, <3>1, <3>2, SMT
  <2>4. Within(s', Floor2(0))
    BY <1>1, <2>1, <2>2, <2>3, Top2Step, SMT
  <2>5. Digits(s', 0)
    BY SMT DEF Digits, Place
  <2> QED
    BY <2>1, <2>4, <2>5, SMT DEF Sized
<1>14. CASE phase = "floor2"
  <2>1. /\ op = "floor" /\ i \in 0 .. 10
        /\ i # 10 => phase' = "floor2" /\ i' = i + 1
        /\ i = 10 => phase' = "pack"
    BY <1>1, <1>14, SMT DEF At, Statement, Loops, Loop
  <2>2. Within(s, Floor2(i)) /\ Digits(s, i)
    BY <1>14, SMT DEF Sized
  <2>3. FlooredTo(s, s', i)
    BY <2>1, SMT
  <2>4. /\ i # 10 => Within(s', Floor2(i + 1))
        /\ i = 10 => Within(s', Floor2(11))
        /\ Digits(s', i + 1)
    BY <1>1, <2>1, <2>2, <2>3, Floor2Step, SMT
  <2> QED
    BY <2>1, <2>4, SMT DEF Sized
<1> QED
  BY <1>2, <1>3, <1>4, <1>5, <1>6, <1>7, <1>8, <1>9, <1>10, <1>11, <1>12, <1>13, <1>14, SMT

\* The three statements, each with what it makes of the limbs.
LEMMA FoldStep ==
  ASSUME RealSize, IInv, Fold
  PROVE  /\ i \in 12 .. 23 /\ s' \in [Limbs -> Int]
         /\ \A z \in Nat : -z <= s[i] /\ s[i] <= z => FoldedTo(s, s', i, z)
<1>1. s \in [Limbs -> Int] /\ At(phase, i) /\ Statement("fold") /\ s' = Folded(s, i)
  BY Zenon DEF IInv, Fold
<1>2. i \in 12 .. 23
  <2>1. i \in N .. 2 * N - 1
    BY <1>1, StatementAt, Zenon
  <2> QED
    BY <2>1, LimbsReal, SMT
<1>3. Folded(s, i) \in [Limbs -> Int]
  <2>1. i \in N .. 2 * N - 1
    BY <1>1, StatementAt, Zenon
  <2> QED
    BY <1>1, <2>1, FoldKeeps, Zenon
<1>4. ASSUME NEW z \in Nat, -z <= s[i], s[i] <= z
      PROVE  FoldedTo(s, s', i, z)
  <2>1. PICK n \in 12 .. 23 : n = i
    BY <1>2, Zenon
  <2>2. PICK u : u = s' /\ u = Folded(s, n)
    BY <1>1, <2>1, Zenon
  <2>3. FoldedTo(s, u, n, z)
    <3>1. -z <= s[n] /\ s[n] <= z
      BY <1>4, <2>1, Zenon
    <3> QED
      BY <1>1, <2>2, <3>1, FoldFits, Zenon
  <2> QED
    BY <2>1, <2>2, <2>3, Zenon
<1> QED
  BY <1>1, <1>2, <1>3, <1>4, Zenon

LEMMA RoundCarryStep ==
  ASSUME RealSize, IInv, CarryRound
  PROVE  /\ i \in 0 .. 22 /\ s' \in [Limbs -> Int] /\ RoundedTo(s, s', i) /\ Value(s') = Value(s)
<1>1. /\ s \in [Limbs -> Int] /\ At(phase, i) /\ Statement("round")
      /\ s' = Carried(s, i, (s[i] + Radix \div 2) \div Radix)
  BY Zenon DEF IInv, CarryRound
<1>2. i \in 0 .. 2 * N - 2
  BY <1>1, StatementAt, Zenon
<1>3. i \in 0 .. 22
  BY <1>2, LimbsReal, SMT
<1>4. (s[i] + Radix \div 2) \div Radix \in Int
  <2>1. i \in Limbs
    BY <1>3, LimbsReal, SMT DEF Place
  <2>2. PICK y \in Int : y = s[i]
    BY <1>1, <2>1, Zenon
  <2> QED
    BY <2>2, LimbsReal, SMT
<1>5. s' \in [Limbs -> Int] /\ Value(s') = Value(s)
  BY <1>1, <1>2, <1>4, CarryKeeps, Zenon
<1>6. RoundedTo(s, s', i)
  BY <1>1, <1>3, RoundFits, Zenon
<1> QED
  BY <1>3, <1>5, <1>6, Zenon

LEMMA FloorCarryStep ==
  ASSUME RealSize, IInv, CarryFloor
  PROVE  /\ i \in 0 .. 22 /\ s' \in [Limbs -> Int] /\ FlooredTo(s, s', i) /\ Value(s') = Value(s)
<1>1. /\ s \in [Limbs -> Int] /\ At(phase, i) /\ Statement("floor")
      /\ s' = Carried(s, i, s[i] \div Radix)
  BY Zenon DEF IInv, CarryFloor
<1>2. i \in 0 .. 2 * N - 2
  BY <1>1, StatementAt, Zenon
<1>3. i \in 0 .. 22
  BY <1>2, LimbsReal, SMT
<1>4. s[i] \div Radix \in Int
  <2>1. i \in Limbs
    BY <1>3, LimbsReal, SMT DEF Place
  <2>2. PICK y \in Int : y = s[i]
    BY <1>1, <2>1, Zenon
  <2> QED
    BY <2>2, LimbsReal, SMT
<1>5. s' \in [Limbs -> Int] /\ Value(s') = Value(s)
  BY <1>1, <1>2, <1>4, CarryKeeps, Zenon
<1>6. FlooredTo(s, s', i)
  BY <1>1, <1>3, FloorFits, Zenon
<1> QED
  BY <1>3, <1>5, <1>6, Zenon

\* Every step keeps the sizes.
LEMMA SizedKept == RealSize /\ IInv /\ Sized /\ [Next]_vars => Sized'
<1> SUFFICES ASSUME RealSize, IInv, Sized, [Next]_vars PROVE Sized'
  OBVIOUS
<1>1. CASE Fold
  <2>1. Statement("fold")
    BY <1>1, Zenon DEF Fold
  <2> QED
    BY <1>1, <2>1, FoldStep, SizedStep, Zenon
<1>2. CASE CarryRound
  <2>1. Statement("round")
    BY <1>2, Zenon DEF CarryRound
  <2> QED
    BY <1>2, <2>1, RoundCarryStep, SizedStep, SMT
<1>3. CASE CarryFloor
  <2>1. Statement("floor")
    BY <1>3, Zenon DEF CarryFloor
  <2> QED
    BY <1>3, <2>1, FloorCarryStep, SizedStep, SMT
<1>4. CASE Pack
  BY <1>4, SMT DEF Pack, Sized
<1>5. CASE UNCHANGED vars
  BY <1>5, SMT DEF vars, Sized
<1> QED
  BY <1>1, <1>2, <1>3, <1>4, <1>5, Zenon DEF Next, Return

\* The sizes leave every product and every sum within crypto_int64.
LEMMA SizedFits == RealSize /\ IInv /\ Sized => NoOverflow
<1> SUFFICES ASSUME RealSize, IInv, Sized PROVE NoOverflow
  OBVIOUS
<1>1. Limbs = Place /\ Half = 6 /\ Radix \div 2 = 1048576 /\ IntMax = 9223372036854775807
  <2>1. IntMax = 9223372036854775807
    BY SMT DEF RealSize, RealConstants
  <2> QED
    BY <2>1, LimbsReal, SMT
<1>2. s \in [Place -> Int] /\ At(phase, i) /\ phase \in Labels /\ N = 12
  BY <1>1, LimbsReal, SMT DEF IInv, At
<1>3. \A k \in Place : -300000000000000000 <= s[k] /\ s[k] <= 300000000000000000
  BY <1>1, <1>2, SMT
     DEF Sized, Within, Labels, Loops, MulEven, MulOdd, High, MidEven, MidOdd, Low, EvenBelow,
         OddBelow, Top, Floor, Top2, Floor2, Tidy, Place, At
<1>4. ASSUME phase \in {"high", "low", "top", "top2"}
      PROVE  i \in 12 .. 23 /\ -120000000000 <= s[i] /\ s[i] <= 120000000000
  BY <1>1, <1>2, <1>4, SMT
     DEF Sized, Within, High, Low, Top, Top2, Place, At
<1>5. ASSUME phase \in {"high", "low", "top", "top2"}, NEW k \in 1 .. 6
      PROVE  -IntMax <= s[i] * Coef[k] /\ s[i] * Coef[k] <= IntMax
  <2>1. PICK y \in Int : y = s[i] /\ -120000000000 <= y /\ y <= 120000000000
    BY <1>2, <1>4, <1>5, SMT DEF Place
  <2>2. k \in {1, 2, 3, 4, 5, 6}
    BY SMT
  <2> QED
    BY <1>1, <2>1, <2>2, CoefReal, SMT
<1>6. phase \in DOMAIN Loops /\ Loops[phase].op = "fold" => phase \in {"high", "low", "top", "top2"}
  BY SMT DEF Loops, Loop
<1>7. phase \in DOMAIN Loops /\ Loops[phase].op = "round" => i \in Place
  BY <1>2, <1>1, SMT DEF Loops, Loop, At, Place
<1>8. \A k \in Limbs : -IntMax <= s[k] /\ s[k] <= IntMax
  BY <1>1, <1>2, <1>3, SMT
<1>9. i \in Place => s[i] + Radix \div 2 <= IntMax
  BY <1>1, <1>2, <1>3, SMT
<1>10. phase \in {"high", "low", "top", "top2"} =>
         \A k \in 1 .. Half : -IntMax <= s[i] * Coef[k] /\ s[i] * Coef[k] <= IntMax
  BY <1>1, <1>5, SMT
<1> QED
  BY <1>6, <1>7, <1>8, <1>9, <1>10, Zenon DEF NoOverflow

\* No limb, no product of a fold and no sum that is rounded leaves crypto_int64, in
\* sc_reduce.c for every argument of 64 bytes and in sc_muladd.c for all of 32.
THEOREM NothingOverflows ==
  ASSUME RealSize
  PROVE  Spec => []NoOverflow
<1>1. Init => IInv /\ Sized
  BY Initially, SizedInit, Zenon
<1>2. IInv /\ Sized /\ [Next]_vars => IInv' /\ Sized'
  BY Invariance, SizedKept, Zenon
<1>3. IInv /\ Sized => NoOverflow
  BY SizedFits, Zenon
<1> QED
  BY <1>1, <1>2, <1>3, PTL DEF Spec

-----------------------------------------------------------------------------
\* The value of limbs that are 0 above the thirteenth, and L.
Weighted(a0, a1, a2, a3, a4, a5, a6, a7, a8, a9, a10, a11, a12) ==
  a0
  + 2097152 * a1
  + 4398046511104 * a2
  + 9223372036854775808 * a3
  + 19342813113834066795298816 * a4
  + 40564819207303340847894502572032 * a5
  + 85070591730234615865843651857942052864 * a6
  + 178405961588244985132285746181186892047843328 * a7
  + 374144419156711147060143317175368453031918731001856 * a8
  + 784637716923335095479473677900958302012794430558004314112 * a9
  + 1645504557321206042154969182557350504982735865633579863348609024 * a10
  + 3450873173395281893717377931138512726225554486085193277581262111899648 * a11
  + 7237005577332262213973186563042994240829374041602535252466099000494570602496 * a12
Sum13(v) ==
  Weighted(v[0], v[1], v[2], v[3], v[4], v[5], v[6], v[7], v[8], v[9], v[10], v[11], v[12])

RealOrder == 7237005577332262213973186563042994240857116359379907606001950938285454250989

\* The weights of the limbs.
LEMMA WeightsReal ==
  ASSUME RealSize
  PROVE  /\ 2^(W * 0) = 1
         /\ 2^(W * 1) = 2097152
         /\ 2^(W * 2) = 4398046511104
         /\ 2^(W * 3) = 9223372036854775808
         /\ 2^(W * 4) = 19342813113834066795298816
         /\ 2^(W * 5) = 40564819207303340847894502572032
         /\ 2^(W * 6) = 85070591730234615865843651857942052864
         /\ 2^(W * 7) = 178405961588244985132285746181186892047843328
         /\ 2^(W * 8) = 374144419156711147060143317175368453031918731001856
         /\ 2^(W * 9) = 784637716923335095479473677900958302012794430558004314112
         /\ 2^(W * 10) = 1645504557321206042154969182557350504982735865633579863348609024
         /\ 2^(W * 11) = 3450873173395281893717377931138512726225554486085193277581262111899648
         /\ 2^(W * 12) = 7237005577332262213973186563042994240829374041602535252466099000494570602496
<1>1. W = 21 /\ Radix = 2097152
  <2>1. W = 21
    BY SMT DEF RealSize, RealConstants
  <2> QED
    BY <2>1, LimbsReal, SMT
<1>2. ASSUME NEW k \in Nat, NEW q \in Nat, 2^(W * k) = q
      PROVE  2^(W * (k + 1)) = 2097152 * q
  BY <1>1, <1>2, Weights, SMT
<1>3. 2^(W * 0) = 1
  <2>1. W * 0 = 0 /\ 2^0 = 1
    BY <1>1, SMT
  <2> QED
    BY ONLY <2>1, Zenon
<1>4. 2^(W * 1) = 2097152
  BY <1>2, <1>3, SMT
<1>5. 2^(W * 2) = 4398046511104
  BY <1>2, <1>4, SMT
<1>6. 2^(W * 3) = 9223372036854775808
  BY <1>2, <1>5, SMT
<1>7. 2^(W * 4) = 19342813113834066795298816
  BY <1>2, <1>6, SMT
<1>8. 2^(W * 5) = 40564819207303340847894502572032
  BY <1>2, <1>7, SMT
<1>9. 2^(W * 6) = 85070591730234615865843651857942052864
  BY <1>2, <1>8, SMT
<1>10. 2^(W * 7) = 178405961588244985132285746181186892047843328
  BY <1>2, <1>9, SMT
<1>11. 2^(W * 8) = 374144419156711147060143317175368453031918731001856
  BY <1>2, <1>10, SMT
<1>12. 2^(W * 9) = 784637716923335095479473677900958302012794430558004314112
  BY <1>2, <1>11, SMT
<1>13. 2^(W * 10) = 1645504557321206042154969182557350504982735865633579863348609024
  BY <1>2, <1>12, SMT
<1>14. 2^(W * 11) = 3450873173395281893717377931138512726225554486085193277581262111899648
  BY <1>2, <1>13, SMT
<1>15. 2^(W * 12) = 7237005577332262213973186563042994240829374041602535252466099000494570602496
  BY <1>2, <1>14, SMT
<1> QED
  BY <1>3, <1>4, <1>5, <1>6, <1>7, <1>8, <1>9, <1>10, <1>11, <1>12, <1>13, <1>14, <1>15, SMT

LEMMA ValueReal ==
  ASSUME RealSize, NEW v \in [Limbs -> Int], \A k \in Place : k > 12 => v[k] = 0
  PROVE  Value(v) = Sum13(v)
<1>1. 2 * N = 24
  BY LimbsReal, SMT
<1> DEFINE f == Terms(v)
<1>2. /\ \A k \in 0 .. 24 - 1 : f[k] = v[k] * 2^(W * k) /\ f[k] \in Int
      /\ Value(v) = Total(f, 24)
  BY <1>1, TermsInt, Zenon
<1> HIDE DEF f
<1>3. /\ \A m \in 0 .. 24 - 1 : Total(f, m) \in Int /\ Total(f, m + 1) = Total(f, m) + f[m]
  <2>1. PICK n \in Nat : n = 24
    OBVIOUS
  <2>2. \A k \in 0 .. n - 1 : f[k] \in Int
    BY <1>2, <2>1
  <2>3. \A m \in 0 .. n - 1 : Total(f, m) \in Int /\ Total(f, m + 1) = Total(f, m) + f[m]
    BY ONLY <2>2, n \in Nat, TotalNext
  <2> QED
    BY <2>1, <2>3
<1>4. Total(f, 0) = 0
  <2>1. \A k \in 0 .. 0 - 1 : f[k] \in Int
    OBVIOUS
  <2> QED
    BY ONLY <2>1, TotalNext
<1>5. v \in [Place -> Int]
  BY LimbsReal, SMT
<1>6. /\ Total(f, 1) = Total(f, 0) + 1 * v[0]
      /\ v[0] \in Int /\ Total(f, 0) \in Int
  <2>1. 0 \in Place /\ 0 \in 0 .. 24 - 1 /\ 0 + 1 = 1
    BY SMT DEF Place
  <2>2. /\ v[0] \in Int /\ f[0] = v[0] * 2^(W * 0)
        /\ 2^(W * 0) = 1
    BY <1>2, <1>5, <2>1, WeightsReal, SMT
  <2>3. f[0] = 1 * v[0]
    BY <2>2, SMT
  <2> QED
    BY <1>3, <2>1, <2>2, <2>3, SMT
<1>7. /\ Total(f, 2) = Total(f, 1) + 2097152 * v[1]
      /\ v[1] \in Int /\ Total(f, 1) \in Int
  <2>1. 1 \in Place /\ 1 \in 0 .. 24 - 1 /\ 1 + 1 = 2
    BY SMT DEF Place
  <2>2. /\ v[1] \in Int /\ f[1] = v[1] * 2^(W * 1)
        /\ 2^(W * 1) = 2097152
    BY <1>2, <1>5, <2>1, WeightsReal, SMT
  <2>3. f[1] = 2097152 * v[1]
    BY <2>2, SMT
  <2> QED
    BY <1>3, <2>1, <2>2, <2>3, SMT
<1>8. /\ Total(f, 3) = Total(f, 2) + 4398046511104 * v[2]
      /\ v[2] \in Int /\ Total(f, 2) \in Int
  <2>1. 2 \in Place /\ 2 \in 0 .. 24 - 1 /\ 2 + 1 = 3
    BY SMT DEF Place
  <2>2. /\ v[2] \in Int /\ f[2] = v[2] * 2^(W * 2)
        /\ 2^(W * 2) = 4398046511104
    BY <1>2, <1>5, <2>1, WeightsReal, SMT
  <2>3. f[2] = 4398046511104 * v[2]
    BY <2>2, SMT
  <2> QED
    BY <1>3, <2>1, <2>2, <2>3, SMT
<1>9. /\ Total(f, 4) = Total(f, 3) + 9223372036854775808 * v[3]
      /\ v[3] \in Int /\ Total(f, 3) \in Int
  <2>1. 3 \in Place /\ 3 \in 0 .. 24 - 1 /\ 3 + 1 = 4
    BY SMT DEF Place
  <2>2. /\ v[3] \in Int /\ f[3] = v[3] * 2^(W * 3)
        /\ 2^(W * 3) = 9223372036854775808
    BY <1>2, <1>5, <2>1, WeightsReal, SMT
  <2>3. f[3] = 9223372036854775808 * v[3]
    BY <2>2, SMT
  <2> QED
    BY <1>3, <2>1, <2>2, <2>3, SMT
<1>10. /\ Total(f, 5) = Total(f, 4) + 19342813113834066795298816 * v[4]
       /\ v[4] \in Int /\ Total(f, 4) \in Int
  <2>1. 4 \in Place /\ 4 \in 0 .. 24 - 1 /\ 4 + 1 = 5
    BY SMT DEF Place
  <2>2. /\ v[4] \in Int /\ f[4] = v[4] * 2^(W * 4)
        /\ 2^(W * 4) = 19342813113834066795298816
    BY <1>2, <1>5, <2>1, WeightsReal, SMT
  <2>3. f[4] = 19342813113834066795298816 * v[4]
    BY <2>2, SMT
  <2> QED
    BY <1>3, <2>1, <2>2, <2>3, SMT
<1>11. /\ Total(f, 6) = Total(f, 5) + 40564819207303340847894502572032 * v[5]
       /\ v[5] \in Int /\ Total(f, 5) \in Int
  <2>1. 5 \in Place /\ 5 \in 0 .. 24 - 1 /\ 5 + 1 = 6
    BY SMT DEF Place
  <2>2. /\ v[5] \in Int /\ f[5] = v[5] * 2^(W * 5)
        /\ 2^(W * 5) = 40564819207303340847894502572032
    BY <1>2, <1>5, <2>1, WeightsReal, SMT
  <2>3. f[5] = 40564819207303340847894502572032 * v[5]
    BY <2>2, SMT
  <2> QED
    BY <1>3, <2>1, <2>2, <2>3, SMT
<1>12. /\ Total(f, 7) = Total(f, 6) + 85070591730234615865843651857942052864 * v[6]
       /\ v[6] \in Int /\ Total(f, 6) \in Int
  <2>1. 6 \in Place /\ 6 \in 0 .. 24 - 1 /\ 6 + 1 = 7
    BY SMT DEF Place
  <2>2. /\ v[6] \in Int /\ f[6] = v[6] * 2^(W * 6)
        /\ 2^(W * 6) = 85070591730234615865843651857942052864
    BY <1>2, <1>5, <2>1, WeightsReal, SMT
  <2>3. f[6] = 85070591730234615865843651857942052864 * v[6]
    BY <2>2, SMT
  <2> QED
    BY <1>3, <2>1, <2>2, <2>3, SMT
<1>13. /\ Total(f, 8) = Total(f, 7) + 178405961588244985132285746181186892047843328 * v[7]
       /\ v[7] \in Int /\ Total(f, 7) \in Int
  <2>1. 7 \in Place /\ 7 \in 0 .. 24 - 1 /\ 7 + 1 = 8
    BY SMT DEF Place
  <2>2. /\ v[7] \in Int /\ f[7] = v[7] * 2^(W * 7)
        /\ 2^(W * 7) = 178405961588244985132285746181186892047843328
    BY <1>2, <1>5, <2>1, WeightsReal, SMT
  <2>3. f[7] = 178405961588244985132285746181186892047843328 * v[7]
    BY <2>2, SMT
  <2> QED
    BY <1>3, <2>1, <2>2, <2>3, SMT
<1>14. /\ Total(f, 9) = Total(f, 8) + 374144419156711147060143317175368453031918731001856 * v[8]
       /\ v[8] \in Int /\ Total(f, 8) \in Int
  <2>1. 8 \in Place /\ 8 \in 0 .. 24 - 1 /\ 8 + 1 = 9
    BY SMT DEF Place
  <2>2. /\ v[8] \in Int /\ f[8] = v[8] * 2^(W * 8)
        /\ 2^(W * 8) = 374144419156711147060143317175368453031918731001856
    BY <1>2, <1>5, <2>1, WeightsReal, SMT
  <2>3. f[8] = 374144419156711147060143317175368453031918731001856 * v[8]
    BY <2>2, SMT
  <2> QED
    BY <1>3, <2>1, <2>2, <2>3, SMT
<1>15. /\ Total(f, 10) = Total(f, 9) + 784637716923335095479473677900958302012794430558004314112 * v[9]
       /\ v[9] \in Int /\ Total(f, 9) \in Int
  <2>1. 9 \in Place /\ 9 \in 0 .. 24 - 1 /\ 9 + 1 = 10
    BY SMT DEF Place
  <2>2. /\ v[9] \in Int /\ f[9] = v[9] * 2^(W * 9)
        /\ 2^(W * 9) = 784637716923335095479473677900958302012794430558004314112
    BY <1>2, <1>5, <2>1, WeightsReal, SMT
  <2>3. f[9] = 784637716923335095479473677900958302012794430558004314112 * v[9]
    BY <2>2, SMT
  <2> QED
    BY <1>3, <2>1, <2>2, <2>3, SMT
<1>16. /\ Total(f, 11) = Total(f, 10) + 1645504557321206042154969182557350504982735865633579863348609024 * v[10]
       /\ v[10] \in Int /\ Total(f, 10) \in Int
  <2>1. 10 \in Place /\ 10 \in 0 .. 24 - 1 /\ 10 + 1 = 11
    BY SMT DEF Place
  <2>2. /\ v[10] \in Int /\ f[10] = v[10] * 2^(W * 10)
        /\ 2^(W * 10) = 1645504557321206042154969182557350504982735865633579863348609024
    BY <1>2, <1>5, <2>1, WeightsReal, SMT
  <2>3. f[10] = 1645504557321206042154969182557350504982735865633579863348609024 * v[10]
    BY <2>2, SMT
  <2> QED
    BY <1>3, <2>1, <2>2, <2>3, SMT
<1>17. /\ Total(f, 12) = Total(f, 11) + 3450873173395281893717377931138512726225554486085193277581262111899648 * v[11]
       /\ v[11] \in Int /\ Total(f, 11) \in Int
  <2>1. 11 \in Place /\ 11 \in 0 .. 24 - 1 /\ 11 + 1 = 12
    BY SMT DEF Place
  <2>2. /\ v[11] \in Int /\ f[11] = v[11] * 2^(W * 11)
        /\ 2^(W * 11) = 3450873173395281893717377931138512726225554486085193277581262111899648
    BY <1>2, <1>5, <2>1, WeightsReal, SMT
  <2>3. f[11] = 3450873173395281893717377931138512726225554486085193277581262111899648 * v[11]
    BY <2>2, SMT
  <2> QED
    BY <1>3, <2>1, <2>2, <2>3, SMT
<1>18. /\ Total(f, 13) = Total(f, 12) + 7237005577332262213973186563042994240829374041602535252466099000494570602496 * v[12]
       /\ v[12] \in Int /\ Total(f, 12) \in Int
  <2>1. 12 \in Place /\ 12 \in 0 .. 24 - 1 /\ 12 + 1 = 13
    BY SMT DEF Place
  <2>2. /\ v[12] \in Int /\ f[12] = v[12] * 2^(W * 12)
        /\ 2^(W * 12) = 7237005577332262213973186563042994240829374041602535252466099000494570602496
    BY <1>2, <1>5, <2>1, WeightsReal, SMT
  <2>3. f[12] = 7237005577332262213973186563042994240829374041602535252466099000494570602496 * v[12]
    BY <2>2, SMT
  <2> QED
    BY <1>3, <2>1, <2>2, <2>3, SMT
<1>19. \A m \in 13 .. 23 : f[m] = 0
  <2> SUFFICES ASSUME NEW m \in 13 .. 23 PROVE f[m] = 0
    OBVIOUS
  <2>1. v[m] = 0 /\ f[m] = v[m] * 2^(W * m)
    <3>1. m \in Place /\ m > 12 /\ m \in 0 .. 24 - 1
      BY SMT DEF Place
    <3> QED
      BY <1>2, <3>1
  <2>2. 2^(W * m) \in Nat
    BY Weights
  <2> QED
    BY <2>1, <2>2
<1>20. Total(f, 24) = Total(f, 13)
  BY <1>3, <1>19, SMT
<1> QED
  BY <1>2, <1>4, <1>6, <1>7, <1>8, <1>9, <1>10, <1>11, <1>12, <1>13, <1>14, <1>15, <1>16, <1>17,
     <1>18, <1>20, SMT DEF Sum13, Weighted

LEMMA OrderReal ==
  ASSUME RealSize
  PROVE  Order = RealOrder
<1>1. OrderLimbs \in [Limbs -> Int] /\ Order = Value(OrderLimbs)
  BY OrderInt
<1>2. \A k \in Place : OrderLimbs[k] = IF k = 12 THEN 1 ELSE IF k < 6 THEN -Coef[k + 1] ELSE 0
  BY LimbsReal, SMT DEF OrderLimbs
<1>3. Value(OrderLimbs) = Sum13(OrderLimbs)
  <2>1. \A k \in Place : k > 12 => OrderLimbs[k] = 0
    BY <1>2, SMT DEF Place
  <2> QED
    BY <1>1, <2>1, ValueReal, Zenon
<1>4. /\ OrderLimbs[0] = -666643 /\ OrderLimbs[1] = -470296 /\ OrderLimbs[2] = -654183
      /\ OrderLimbs[3] = 997805 /\ OrderLimbs[4] = -136657 /\ OrderLimbs[5] = 683901
      /\ OrderLimbs[6] = 0 /\ OrderLimbs[7] = 0 /\ OrderLimbs[8] = 0 /\ OrderLimbs[9] = 0
      /\ OrderLimbs[10] = 0 /\ OrderLimbs[11] = 0 /\ OrderLimbs[12] = 1
  BY <1>2, CoefReal, SMT DEF Place
<1>5. Sum13(OrderLimbs) = RealOrder
  BY <1>4, SMT DEF Sum13, Weighted, RealOrder
<1> QED
  BY <1>1, <1>3, <1>5, Zenon

Wide == 7237005577332262213973186563042994240829374041602535252466099000494570602496

\* After the third group of folds the value is within 2^252 of 0; the carries leave digits
\* below the limb of that weight, which is then 0 or -1, and folding it once more leaves a
\* residue.
Ranged ==
  /\ phase \in {"floor", "top2"} => -Wide <= Value(s) /\ Value(s) < Wide
  /\ phase \in {"floor2", "pack", "done"} => 0 <= Value(s) /\ Value(s) < Order

LEMMA TopRange ==
  ASSUME RealSize, NEW v \in [Limbs -> Int], Within(v, Floor(0))
  PROVE  -Wide <= Value(v) /\ Value(v) < Wide
<1>1. v \in [Place -> Int]
  BY LimbsReal, SMT
<1>2. \A k \in Place : /\ k < 6 => -130000070000000000 <= v[k] /\ v[k] <= 130000070000000000
                       /\ 6 <= k /\ k < 11 => -130000000000 <= v[k] /\ v[k] <= 130000000000
                       /\ k = 11 => -1048576 <= v[k] /\ v[k] <= 1048576
                       /\ k > 11 => v[k] = 0
  BY <1>1, SMT DEF Within, Floor, Tidy, Place
<1>3. Value(v) = Sum13(v)
  <2>1. \A k \in Place : k > 12 => v[k] = 0
    BY <1>2, SMT DEF Place
  <2> QED
    BY <2>1, ValueReal, Zenon
<1> DEFINE a0 == v[0]
           a1 == v[1]
           a2 == v[2]
           a3 == v[3]
           a4 == v[4]
           a5 == v[5]
           a6 == v[6]
           a7 == v[7]
           a8 == v[8]
           a9 == v[9]
           a10 == v[10]
           a11 == v[11]
           a12 == v[12]
           w == Weighted(a0, a1, a2, a3, a4, a5, a6, a7, a8, a9, a10, a11, a12)
<1>4. /\ a0 \in Int /\ -130000070000000000 <= a0 /\ a0 <= 130000070000000000
      /\ a1 \in Int /\ -130000070000000000 <= a1 /\ a1 <= 130000070000000000
      /\ a2 \in Int /\ -130000070000000000 <= a2 /\ a2 <= 130000070000000000
      /\ a3 \in Int /\ -130000070000000000 <= a3 /\ a3 <= 130000070000000000
      /\ a4 \in Int /\ -130000070000000000 <= a4 /\ a4 <= 130000070000000000
      /\ a5 \in Int /\ -130000070000000000 <= a5 /\ a5 <= 130000070000000000
      /\ a6 \in Int /\ -130000000000 <= a6 /\ a6 <= 130000000000
      /\ a7 \in Int /\ -130000000000 <= a7 /\ a7 <= 130000000000
      /\ a8 \in Int /\ -130000000000 <= a8 /\ a8 <= 130000000000
      /\ a9 \in Int /\ -130000000000 <= a9 /\ a9 <= 130000000000
      /\ a10 \in Int /\ -130000000000 <= a10 /\ a10 <= 130000000000
      /\ a11 \in Int /\ -1048576 <= a11 /\ a11 <= 1048576
      /\ a12 = 0
  BY <1>1, <1>2, SMT DEF Place
<1>5. Sum13(v) = w
  BY Zenon DEF Sum13
<1> HIDE DEF a0, a1, a2, a3, a4, a5, a6, a7, a8, a9, a10, a11, a12
<1>6. -Wide <= w /\ w < Wide
  BY <1>4, SMT DEF Weighted, Wide
<1>8. -Wide <= Sum13(v) /\ Sum13(v) < Wide
  BY <1>5, <1>6, Zenon
<1> QED
  BY <1>3, <1>8, SMT

\* The digits below the limb of weight 2^252 leave 0 or -1 for it, by the range of the value.
LEMMA TopDigit ==
  ASSUME RealSize, NEW v \in [Limbs -> Int], Within(v, Top2), Digits(v, 12),
         -Wide <= Value(v), Value(v) < Wide
  PROVE  /\ Value(v) = Sum13(v) /\ v[12] \in {-1, 0}
         /\ 0 <= Sum13(v) - Wide * v[12] /\ Sum13(v) - Wide * v[12] < Wide
<1>1. v \in [Place -> Int]
  BY LimbsReal, SMT
<1>2. Value(v) = Sum13(v)
  <2>1. \A k \in Place : k > 12 => v[k] = 0
    BY <1>1, SMT DEF Within, Top2, Place
  <2> QED
    BY <2>1, ValueReal, Zenon
<1> DEFINE a0 == v[0]
           a1 == v[1]
           a2 == v[2]
           a3 == v[3]
           a4 == v[4]
           a5 == v[5]
           a6 == v[6]
           a7 == v[7]
           a8 == v[8]
           a9 == v[9]
           a10 == v[10]
           a11 == v[11]
           a12 == v[12]
           w == Weighted(a0, a1, a2, a3, a4, a5, a6, a7, a8, a9, a10, a11, a12)
<1>3. /\ a0 \in Int /\ 0 <= a0 /\ a0 < 2097152
      /\ a1 \in Int /\ 0 <= a1 /\ a1 < 2097152
      /\ a2 \in Int /\ 0 <= a2 /\ a2 < 2097152
      /\ a3 \in Int /\ 0 <= a3 /\ a3 < 2097152
      /\ a4 \in Int /\ 0 <= a4 /\ a4 < 2097152
      /\ a5 \in Int /\ 0 <= a5 /\ a5 < 2097152
      /\ a6 \in Int /\ 0 <= a6 /\ a6 < 2097152
      /\ a7 \in Int /\ 0 <= a7 /\ a7 < 2097152
      /\ a8 \in Int /\ 0 <= a8 /\ a8 < 2097152
      /\ a9 \in Int /\ 0 <= a9 /\ a9 < 2097152
      /\ a10 \in Int /\ 0 <= a10 /\ a10 < 2097152
      /\ a11 \in Int /\ 0 <= a11 /\ a11 < 2097152
      /\ a12 \in Int
  BY <1>1, SMT DEF Place, Digits
<1>4. Sum13(v) = w /\ v[12] = a12
  BY Zenon DEF Sum13
<1> HIDE DEF a0, a1, a2, a3, a4, a5, a6, a7, a8, a9, a10, a11, a12
<1>5. w \in Int /\ 0 <= w - Wide * a12 /\ w - Wide * a12 < Wide
  BY <1>3, SMT DEF Weighted, Wide
<1>6. PICK y \in Int, z \in Int : /\ y = v[12] /\ z = Sum13(v)
                                  /\ 0 <= z - Wide * y /\ z - Wide * y < Wide
                                  /\ -Wide <= z /\ z < Wide
  <2>1. Wide \in Int
    BY SMT DEF Wide
  <2>2. a12 \in Int
    BY <1>3, SMT
  <2> QED
    BY <1>2, <1>4, <1>5, <2>1, <2>2, Zenon
<1>7. y \in {-1, 0}
  BY <1>6, SMT DEF Wide
<1> QED
  BY <1>2, <1>6, <1>7, Zenon

LEMMA Top2Range ==
  ASSUME RealSize, NEW v \in [Limbs -> Int], NEW u \in [Limbs -> Int], u = Folded(v, 12),
         Within(v, Top2), Digits(v, 12), -Wide <= Value(v), Value(v) < Wide
  PROVE  0 <= Value(u) /\ Value(u) < Order
<1>1. /\ Value(v) = Sum13(v) /\ v[12] \in {-1, 0}
      /\ 0 <= Sum13(v) - Wide * v[12] /\ Sum13(v) - Wide * v[12] < Wide
  BY TopDigit, SMT
<1>2. u \in [Place -> Int] /\ v \in [Place -> Int] /\ Limbs = Place /\ Half = 6 /\ N = 12
  BY LimbsReal, SMT
<1>3. \A k \in Place : u[k] = IF k = 12 THEN 0
                              ELSE IF k - (12 - 12) \in 0 .. 6 - 1
                              THEN v[k] + v[12] * Coef[k - (12 - 12) + 1]
                              ELSE v[k]
  BY <1>2, SMT DEF Folded
<1>4. /\ u[0] = v[0] + v[12] * 666643 /\ u[1] = v[1] + v[12] * 470296
      /\ u[2] = v[2] + v[12] * 654183 /\ u[3] = v[3] + v[12] * (-997805)
      /\ u[4] = v[4] + v[12] * 136657 /\ u[5] = v[5] + v[12] * (-683901)
      /\ u[6] = v[6] /\ u[7] = v[7] /\ u[8] = v[8] /\ u[9] = v[9] /\ u[10] = v[10]
      /\ u[11] = v[11] /\ u[12] = 0
  BY <1>3, CoefReal, SMT DEF Place
<1>5. \A k \in Place : k > 12 => u[k] = 0
  BY <1>2, <1>3, SMT DEF Place, Within, Top2
<1>6. Value(u) = Sum13(u)
  BY <1>5, ValueReal, Zenon
<1> DEFINE a0 == v[0]
           a1 == v[1]
           a2 == v[2]
           a3 == v[3]
           a4 == v[4]
           a5 == v[5]
           a6 == v[6]
           a7 == v[7]
           a8 == v[8]
           a9 == v[9]
           a10 == v[10]
           a11 == v[11]
           a12 == v[12]
           w == Weighted(a0, a1, a2, a3, a4, a5, a6, a7, a8, a9, a10, a11, a12)
<1>7. /\ a0 \in Int
      /\ a1 \in Int
      /\ a2 \in Int
      /\ a3 \in Int
      /\ a4 \in Int
      /\ a5 \in Int
      /\ a6 \in Int
      /\ a7 \in Int
      /\ a8 \in Int
      /\ a9 \in Int
      /\ a10 \in Int
      /\ a11 \in Int
      /\ a12 \in Int
  BY <1>2, SMT DEF Place
<1>8. Sum13(v) = w /\ v[12] = a12
  BY Zenon DEF Sum13
<1>9. /\ u[0] = a0 + a12 * 666643 /\ u[1] = a1 + a12 * 470296 /\ u[2] = a2 + a12 * 654183
      /\ u[3] = a3 + a12 * (-997805) /\ u[4] = a4 + a12 * 136657 /\ u[5] = a5 + a12 * (-683901)
      /\ u[6] = a6 /\ u[7] = a7 /\ u[8] = a8 /\ u[9] = a9 /\ u[10] = a10
      /\ u[11] = a11 /\ u[12] = 0
  BY <1>4, SMT
<1> HIDE DEF a0, a1, a2, a3, a4, a5, a6, a7, a8, a9, a10, a11, a12
<1> DEFINE y == Weighted(a0 + a12 * 666643, a1 + a12 * 470296, a2 + a12 * 654183,
                         a3 + a12 * (-997805), a4 + a12 * 136657, a5 + a12 * (-683901),
                         a6, a7, a8, a9, a10, a11, 0)
<1>12. Sum13(u) = y
  BY <1>9, SMT DEF Sum13
<1>13. w \in Int /\ y = w - RealOrder * a12
  BY <1>7, SMT DEF Weighted, RealOrder
<1>14. PICK c \in {-1, 0}, z \in Int : /\ c = a12 /\ z = w
                                  /\ 0 <= z - Wide * c /\ z - Wide * c < Wide
                                  /\ Value(u) = z - RealOrder * c /\ -Wide <= z /\ z < Wide
  <2>1. Value(u) = w - RealOrder * a12
    BY <1>6, <1>12, <1>13, SMT
  <2>2. w \in Int
    BY <1>13, SMT
  <2> QED
    BY <1>1, <1>8, <2>1, <2>2, Zenon
<1> QED
  BY <1>14, OrderReal, SMT DEF RealOrder, Wide

\* Only the last two folds change the value, and what they make of it is in range.
LEMMA RangedKept == RealSize /\ IInv /\ Sized /\ Sized' /\ Ranged /\ [Next]_vars => Ranged'
<1> SUFFICES ASSUME RealSize, IInv, Sized, Sized', Ranged, [Next]_vars PROVE Ranged'
  OBVIOUS
<1>1. At(phase, i) /\ s \in [Limbs -> Int] /\ N = 12 /\ Half = 6
  BY LimbsReal, SMT DEF IInv
<1>2. CASE Fold
  <2>1. Statement("fold") /\ s' = Folded(s, i)
    BY <1>2, Zenon DEF Fold
  <2>2. s' \in [Limbs -> Int]
    BY <1>2, FoldStep, Zenon
  <2>3. phase \in {"high", "low", "top", "top2"}
    BY <2>1, SMT DEF Statement, Loops, Loop
  <2>4. CASE phase = "top"
    <3>1. phase' = "floor" /\ i' = 0
      BY <1>1, <2>1, <2>4, SMT DEF Statement, Loops, Loop, At
    <3>2. Within(s', Floor(0))
      BY <3>1, SMT DEF Sized
    <3>3. -Wide <= Value(s') /\ Value(s') < Wide
      BY <2>2, <3>2, TopRange, SMT
    <3> QED
      BY <3>1, <3>3, SMT DEF Ranged
  <2>5. CASE phase = "top2"
    <3>1. phase' = "floor2" /\ i = 12
      BY <1>1, <2>1, <2>5, SMT DEF Statement, Loops, Loop, At
    <3>2. Within(s, Top2) /\ Digits(s, 12) /\ -Wide <= Value(s) /\ Value(s) < Wide
      BY <2>5, SMT DEF Sized, Ranged
    <3>3. s' = Folded(s, 12)
      BY <2>1, <3>1, Zenon
    <3>4. 0 <= Value(s') /\ Value(s') < Order
      BY <1>1, <2>2, <3>2, <3>3, Top2Range, SMT
    <3> QED
      BY <3>1, <3>4, SMT DEF Ranged
  <2>6. CASE phase \in {"high", "low"}
    <3>1. phase' \in {"high", "low", "mideven", "even"}
      BY <1>1, <2>1, <2>6, SMT DEF Statement, Loops, Loop, At
    <3> QED
      BY <3>1, SMT DEF Ranged
  <2> QED
    BY <2>3, <2>4, <2>5, <2>6, Zenon
<1>3. CASE CarryRound
  <2>1. Statement("round")
    BY <1>3, Zenon DEF CarryRound
  <2>2. phase' \in {"muleven", "mulodd", "high", "mideven", "midodd", "low", "even", "odd", "top"}
    BY <2>1, SMT DEF Statement, Loops, Loop
  <2> QED
    BY <2>2, SMT DEF Ranged
<1>4. CASE CarryFloor
  <2>1. Statement("floor") /\ Value(s') = Value(s)
    BY <1>4, FloorCarryStep, Zenon DEF CarryFloor
  <2>2. \/ phase = "floor" /\ phase' \in {"floor", "top2"}
        \/ phase = "floor2" /\ phase' \in {"floor2", "pack"}
    BY <2>1, SMT DEF Statement, Loops, Loop
  <2>3. Order' = Order
    OBVIOUS
  <2> QED
    BY <2>1, <2>2, <2>3, SMT DEF Ranged
<1>5. CASE Pack
  <2>1. phase = "pack" /\ phase' = "done" /\ s' = s
    BY <1>5, Zenon DEF Pack
  <2>2. Value(s') = Value(s)
    BY <2>1, Zenon
  <2> QED
    BY <2>1, <2>2, SMT DEF Ranged
<1>6. CASE UNCHANGED vars
  <2>1. phase' = phase /\ s' = s
    BY <1>6, Zenon DEF vars
  <2>2. Value(s') = Value(s)
    BY <2>1, Zenon
  <2> QED
    BY <2>1, <2>2, SMT DEF Ranged
<1> QED
  BY <1>2, <1>3, <1>4, <1>5, <1>6, Zenon DEF Next, Return

LEMMA RangedInit == Init => Ranged
<1> SUFFICES ASSUME Init PROVE Ranged
  OBVIOUS
<1>1. phase \in {"high", "muleven"}
  BY SMT DEF Init, Begin
<1> QED
  BY <1>1, SMT DEF Ranged

-----------------------------------------------------------------------------
\* What is packed: digits, the last of which the value bounds.
Packable(v) ==
  /\ v \in [Limbs -> Int] /\ Within(v, Floor2(11)) /\ Digits(v, 11)
  /\ 0 <= Value(v) /\ Value(v) < Order

\* What is left of the value from a limb on: the limb, the next one, and a rest.
Upper(v, n, h) ==
  Value(v) \div 2^(W * n) = v[n] + (IF n < 11 THEN 2097152 * (v[n + 1] + 2097152 * h) ELSE 0)

LEMMA UpperIs ==
  ASSUME RealSize, NEW v, Packable(v)
  PROVE  \A n \in 0 .. 11 : \E h \in Int : Upper(v, n, h)
<1>1. v \in [Limbs -> Int] /\ Within(v, Floor2(11)) /\ Digits(v, 11)
  BY Zenon DEF Packable
<1>2. v \in [Place -> Int]
  BY <1>1, LimbsReal, SMT
<1>3. \A k \in Place : k > 11 => v[k] = 0
  BY <1>1, <1>2, SMT DEF Within, Floor2, Place
<1>4. Value(v) = Sum13(v)
  <2>1. \A k \in Place : k > 12 => v[k] = 0
    BY <1>3, SMT DEF Place
  <2> QED
    BY <1>1, <2>1, ValueReal, Zenon
<1> DEFINE a0 == v[0]
           a1 == v[1]
           a2 == v[2]
           a3 == v[3]
           a4 == v[4]
           a5 == v[5]
           a6 == v[6]
           a7 == v[7]
           a8 == v[8]
           a9 == v[9]
           a10 == v[10]
           a11 == v[11]
<1>5. /\ a0 \in Int /\ 0 <= a0 /\ a0 < 2097152
      /\ a1 \in Int /\ 0 <= a1 /\ a1 < 2097152
      /\ a2 \in Int /\ 0 <= a2 /\ a2 < 2097152
      /\ a3 \in Int /\ 0 <= a3 /\ a3 < 2097152
      /\ a4 \in Int /\ 0 <= a4 /\ a4 < 2097152
      /\ a5 \in Int /\ 0 <= a5 /\ a5 < 2097152
      /\ a6 \in Int /\ 0 <= a6 /\ a6 < 2097152
      /\ a7 \in Int /\ 0 <= a7 /\ a7 < 2097152
      /\ a8 \in Int /\ 0 <= a8 /\ a8 < 2097152
      /\ a9 \in Int /\ 0 <= a9 /\ a9 < 2097152
      /\ a10 \in Int /\ 0 <= a10 /\ a10 < 2097152
      /\ a11 \in Int
  BY <1>1, <1>2, SMT DEF Digits, Place
<1>6. v[12] = 0
  BY <1>3, SMT DEF Place
<1>7. Sum13(v) = Weighted(a0, a1, a2, a3, a4, a5, a6, a7, a8, a9, a10, a11, 0)
  BY <1>6, Zenon DEF Sum13
<1>8. v[0] = a0 /\ v[1] = a1 /\ v[2] = a2 /\ v[3] = a3 /\ v[4] = a4 /\ v[5] = a5
      /\ v[6] = a6 /\ v[7] = a7 /\ v[8] = a8 /\ v[9] = a9 /\ v[10] = a10 /\ v[11] = a11
  OBVIOUS
<1> HIDE DEF a0, a1, a2, a3, a4, a5, a6, a7, a8, a9, a10, a11
<1>9. ASSUME NEW n \in 0 .. 11, NEW d \in Nat \ {0}, d = 2^(W * n),
             NEW l \in Nat, l < d, NEW y \in Int, Value(v) = d * y + l
      PROVE  Value(v) \div 2^(W * n) = y
  BY <1>9, DivModUnique, Zenon
<1>10. \E h \in Int : Upper(v, 0, h)
  <2> DEFINE l == 0
             h == a2 + 2097152 * (a3 + 2097152 * (a4 + 2097152 * (a5 + 2097152 * (a6 + 2097152 * (
                  a7 + 2097152 * (a8 + 2097152 * (a9 + 2097152 * (a10 + 2097152 * (a11)))))))))
             y == a0 + 2097152 * (a1 + 2097152 * h)
  <2>1. /\ Value(v) = 1 * y + l
        /\ l \in Nat /\ l < 1
        /\ h \in Int /\ y \in Int
    BY <1>4, <1>5, <1>7, SMT DEF Weighted
  <2>2. y = a0 + 2097152 * (a1 + 2097152 * h)
    OBVIOUS
  <2> HIDE DEF l, h, y
  <2>3. PICK d \in Nat \ {0}, n \in 0 .. 11 :
          d = 1 /\ n = 0
    BY SMT
  <2>4. d = 2^(W * n) /\ Value(v) = d * y + l /\ l < d
    BY <2>1, <2>3, WeightsReal, SMT
  <2>5. Value(v) \div 2^(W * n) = y
    BY <1>9, <2>1, <2>4, SMT
  <2>6. Upper(v, n, h)
    BY <1>5, <1>8, <2>2, <2>3, <2>5, SMT DEF Upper
  <2> QED
    BY <2>1, <2>3, <2>6, SMT
<1>11. \E h \in Int : Upper(v, 1, h)
  <2> DEFINE l == a0
             h == a3 + 2097152 * (a4 + 2097152 * (a5 + 2097152 * (a6 + 2097152 * (a7 + 2097152 * (
                  a8 + 2097152 * (a9 + 2097152 * (a10 + 2097152 * (a11))))))))
             y == a1 + 2097152 * (a2 + 2097152 * h)
  <2>1. /\ Value(v) = 2097152 * y + l
        /\ l \in Nat /\ l < 2097152
        /\ h \in Int /\ y \in Int
    BY <1>4, <1>5, <1>7, SMT DEF Weighted
  <2>2. y = a1 + 2097152 * (a2 + 2097152 * h)
    OBVIOUS
  <2> HIDE DEF l, h, y
  <2>3. PICK d \in Nat \ {0}, n \in 0 .. 11 :
          d = 2097152 /\ n = 1
    BY SMT
  <2>4. d = 2^(W * n) /\ Value(v) = d * y + l /\ l < d
    BY <2>1, <2>3, WeightsReal, SMT
  <2>5. Value(v) \div 2^(W * n) = y
    BY <1>9, <2>1, <2>4, SMT
  <2>6. Upper(v, n, h)
    BY <1>5, <1>8, <2>2, <2>3, <2>5, SMT DEF Upper
  <2> QED
    BY <2>1, <2>3, <2>6, SMT
<1>12. \E h \in Int : Upper(v, 2, h)
  <2> DEFINE l == a0 + 2097152 * (a1)
             h == a4 + 2097152 * (a5 + 2097152 * (a6 + 2097152 * (a7 + 2097152 * (a8 + 2097152 * (
                  a9 + 2097152 * (a10 + 2097152 * (a11)))))))
             y == a2 + 2097152 * (a3 + 2097152 * h)
  <2>1. /\ Value(v) = 4398046511104 * y + l
        /\ l \in Nat /\ l < 4398046511104
        /\ h \in Int /\ y \in Int
    BY <1>4, <1>5, <1>7, SMT DEF Weighted
  <2>2. y = a2 + 2097152 * (a3 + 2097152 * h)
    OBVIOUS
  <2> HIDE DEF l, h, y
  <2>3. PICK d \in Nat \ {0}, n \in 0 .. 11 :
          d = 4398046511104 /\ n = 2
    BY SMT
  <2>4. d = 2^(W * n) /\ Value(v) = d * y + l /\ l < d
    BY <2>1, <2>3, WeightsReal, SMT
  <2>5. Value(v) \div 2^(W * n) = y
    BY <1>9, <2>1, <2>4, SMT
  <2>6. Upper(v, n, h)
    BY <1>5, <1>8, <2>2, <2>3, <2>5, SMT DEF Upper
  <2> QED
    BY <2>1, <2>3, <2>6, SMT
<1>13. \E h \in Int : Upper(v, 3, h)
  <2> DEFINE l == a0 + 2097152 * (a1 + 2097152 * (a2))
             h == a5 + 2097152 * (a6 + 2097152 * (a7 + 2097152 * (a8 + 2097152 * (a9 + 2097152 * (
                  a10 + 2097152 * (a11))))))
             y == a3 + 2097152 * (a4 + 2097152 * h)
  <2>1. /\ Value(v) = 9223372036854775808 * y + l
        /\ l \in Nat /\ l < 9223372036854775808
        /\ h \in Int /\ y \in Int
    BY <1>4, <1>5, <1>7, SMT DEF Weighted
  <2>2. y = a3 + 2097152 * (a4 + 2097152 * h)
    OBVIOUS
  <2> HIDE DEF l, h, y
  <2>3. PICK d \in Nat \ {0}, n \in 0 .. 11 :
          d = 9223372036854775808 /\ n = 3
    BY SMT
  <2>4. d = 2^(W * n) /\ Value(v) = d * y + l /\ l < d
    BY <2>1, <2>3, WeightsReal, SMT
  <2>5. Value(v) \div 2^(W * n) = y
    BY <1>9, <2>1, <2>4, SMT
  <2>6. Upper(v, n, h)
    BY <1>5, <1>8, <2>2, <2>3, <2>5, SMT DEF Upper
  <2> QED
    BY <2>1, <2>3, <2>6, SMT
<1>14. \E h \in Int : Upper(v, 4, h)
  <2> DEFINE l == a0 + 2097152 * (a1 + 2097152 * (a2 + 2097152 * (a3)))
             h == a6 + 2097152 * (a7 + 2097152 * (a8 + 2097152 * (a9 + 2097152 * (a10 + 2097152 * (
                  a11)))))
             y == a4 + 2097152 * (a5 + 2097152 * h)
  <2>1. /\ Value(v) = 19342813113834066795298816 * y + l
        /\ l \in Nat /\ l < 19342813113834066795298816
        /\ h \in Int /\ y \in Int
    BY <1>4, <1>5, <1>7, SMT DEF Weighted
  <2>2. y = a4 + 2097152 * (a5 + 2097152 * h)
    OBVIOUS
  <2> HIDE DEF l, h, y
  <2>3. PICK d \in Nat \ {0}, n \in 0 .. 11 :
          d = 19342813113834066795298816 /\ n = 4
    BY SMT
  <2>4. d = 2^(W * n) /\ Value(v) = d * y + l /\ l < d
    BY <2>1, <2>3, WeightsReal, SMT
  <2>5. Value(v) \div 2^(W * n) = y
    BY <1>9, <2>1, <2>4, SMT
  <2>6. Upper(v, n, h)
    BY <1>5, <1>8, <2>2, <2>3, <2>5, SMT DEF Upper
  <2> QED
    BY <2>1, <2>3, <2>6, SMT
<1>15. \E h \in Int : Upper(v, 5, h)
  <2> DEFINE l == a0 + 2097152 * (a1 + 2097152 * (a2 + 2097152 * (a3 + 2097152 * (a4))))
             h == a7 + 2097152 * (a8 + 2097152 * (a9 + 2097152 * (a10 + 2097152 * (a11))))
             y == a5 + 2097152 * (a6 + 2097152 * h)
  <2>1. /\ Value(v) = 40564819207303340847894502572032 * y + l
        /\ l \in Nat /\ l < 40564819207303340847894502572032
        /\ h \in Int /\ y \in Int
    BY <1>4, <1>5, <1>7, SMT DEF Weighted
  <2>2. y = a5 + 2097152 * (a6 + 2097152 * h)
    OBVIOUS
  <2> HIDE DEF l, h, y
  <2>3. PICK d \in Nat \ {0}, n \in 0 .. 11 :
          d = 40564819207303340847894502572032 /\ n = 5
    BY SMT
  <2>4. d = 2^(W * n) /\ Value(v) = d * y + l /\ l < d
    BY <2>1, <2>3, WeightsReal, SMT
  <2>5. Value(v) \div 2^(W * n) = y
    BY <1>9, <2>1, <2>4, SMT
  <2>6. Upper(v, n, h)
    BY <1>5, <1>8, <2>2, <2>3, <2>5, SMT DEF Upper
  <2> QED
    BY <2>1, <2>3, <2>6, SMT
<1>16. \E h \in Int : Upper(v, 6, h)
  <2> DEFINE l == a0 + 2097152 * (a1 + 2097152 * (a2 + 2097152 * (a3 + 2097152 * (a4 + 2097152 * (
                  a5)))))
             h == a8 + 2097152 * (a9 + 2097152 * (a10 + 2097152 * (a11)))
             y == a6 + 2097152 * (a7 + 2097152 * h)
  <2>1. /\ Value(v) = 85070591730234615865843651857942052864 * y + l
        /\ l \in Nat /\ l < 85070591730234615865843651857942052864
        /\ h \in Int /\ y \in Int
    BY <1>4, <1>5, <1>7, SMT DEF Weighted
  <2>2. y = a6 + 2097152 * (a7 + 2097152 * h)
    OBVIOUS
  <2> HIDE DEF l, h, y
  <2>3. PICK d \in Nat \ {0}, n \in 0 .. 11 :
          d = 85070591730234615865843651857942052864 /\ n = 6
    BY SMT
  <2>4. d = 2^(W * n) /\ Value(v) = d * y + l /\ l < d
    BY <2>1, <2>3, WeightsReal, SMT
  <2>5. Value(v) \div 2^(W * n) = y
    BY <1>9, <2>1, <2>4, SMT
  <2>6. Upper(v, n, h)
    BY <1>5, <1>8, <2>2, <2>3, <2>5, SMT DEF Upper
  <2> QED
    BY <2>1, <2>3, <2>6, SMT
<1>17. \E h \in Int : Upper(v, 7, h)
  <2> DEFINE l == a0 + 2097152 * (a1 + 2097152 * (a2 + 2097152 * (a3 + 2097152 * (a4 + 2097152 * (
                  a5 + 2097152 * (a6))))))
             h == a9 + 2097152 * (a10 + 2097152 * (a11))
             y == a7 + 2097152 * (a8 + 2097152 * h)
  <2>1. /\ Value(v) = 178405961588244985132285746181186892047843328 * y + l
        /\ l \in Nat /\ l < 178405961588244985132285746181186892047843328
        /\ h \in Int /\ y \in Int
    BY <1>4, <1>5, <1>7, SMT DEF Weighted
  <2>2. y = a7 + 2097152 * (a8 + 2097152 * h)
    OBVIOUS
  <2> HIDE DEF l, h, y
  <2>3. PICK d \in Nat \ {0}, n \in 0 .. 11 :
          d = 178405961588244985132285746181186892047843328 /\ n = 7
    BY SMT
  <2>4. d = 2^(W * n) /\ Value(v) = d * y + l /\ l < d
    BY <2>1, <2>3, WeightsReal, SMT
  <2>5. Value(v) \div 2^(W * n) = y
    BY <1>9, <2>1, <2>4, SMT
  <2>6. Upper(v, n, h)
    BY <1>5, <1>8, <2>2, <2>3, <2>5, SMT DEF Upper
  <2> QED
    BY <2>1, <2>3, <2>6, SMT
<1>18. \E h \in Int : Upper(v, 8, h)
  <2> DEFINE l == a0 + 2097152 * (a1 + 2097152 * (a2 + 2097152 * (a3 + 2097152 * (a4 + 2097152 * (
                  a5 + 2097152 * (a6 + 2097152 * (a7)))))))
             h == a10 + 2097152 * (a11)
             y == a8 + 2097152 * (a9 + 2097152 * h)
  <2>1. /\ Value(v) = 374144419156711147060143317175368453031918731001856 * y + l
        /\ l \in Nat /\ l < 374144419156711147060143317175368453031918731001856
        /\ h \in Int /\ y \in Int
    BY <1>4, <1>5, <1>7, SMT DEF Weighted
  <2>2. y = a8 + 2097152 * (a9 + 2097152 * h)
    OBVIOUS
  <2> HIDE DEF l, h, y
  <2>3. PICK d \in Nat \ {0}, n \in 0 .. 11 :
          d = 374144419156711147060143317175368453031918731001856 /\ n = 8
    BY SMT
  <2>4. d = 2^(W * n) /\ Value(v) = d * y + l /\ l < d
    BY <2>1, <2>3, WeightsReal, SMT
  <2>5. Value(v) \div 2^(W * n) = y
    BY <1>9, <2>1, <2>4, SMT
  <2>6. Upper(v, n, h)
    BY <1>5, <1>8, <2>2, <2>3, <2>5, SMT DEF Upper
  <2> QED
    BY <2>1, <2>3, <2>6, SMT
<1>19. \E h \in Int : Upper(v, 9, h)
  <2> DEFINE l == a0 + 2097152 * (a1 + 2097152 * (a2 + 2097152 * (a3 + 2097152 * (a4 + 2097152 * (
                  a5 + 2097152 * (a6 + 2097152 * (a7 + 2097152 * (a8))))))))
             h == a11
             y == a9 + 2097152 * (a10 + 2097152 * h)
  <2>1. /\ Value(v) = 784637716923335095479473677900958302012794430558004314112 * y + l
        /\ l \in Nat /\ l < 784637716923335095479473677900958302012794430558004314112
        /\ h \in Int /\ y \in Int
    BY <1>4, <1>5, <1>7, SMT DEF Weighted
  <2>2. y = a9 + 2097152 * (a10 + 2097152 * h)
    OBVIOUS
  <2> HIDE DEF l, h, y
  <2>3. PICK d \in Nat \ {0}, n \in 0 .. 11 :
          d = 784637716923335095479473677900958302012794430558004314112 /\ n = 9
    BY SMT
  <2>4. d = 2^(W * n) /\ Value(v) = d * y + l /\ l < d
    BY <2>1, <2>3, WeightsReal, SMT
  <2>5. Value(v) \div 2^(W * n) = y
    BY <1>9, <2>1, <2>4, SMT
  <2>6. Upper(v, n, h)
    BY <1>5, <1>8, <2>2, <2>3, <2>5, SMT DEF Upper
  <2> QED
    BY <2>1, <2>3, <2>6, SMT
<1>20. \E h \in Int : Upper(v, 10, h)
  <2> DEFINE l == a0 + 2097152 * (a1 + 2097152 * (a2 + 2097152 * (a3 + 2097152 * (a4 + 2097152 * (
                  a5 + 2097152 * (a6 + 2097152 * (a7 + 2097152 * (a8 + 2097152 * (a9)))))))))
             h == 0
             y == a10 + 2097152 * (a11 + 2097152 * h)
  <2>1. /\ Value(v) = 1645504557321206042154969182557350504982735865633579863348609024 * y + l
        /\ l \in Nat /\ l < 1645504557321206042154969182557350504982735865633579863348609024
        /\ h \in Int /\ y \in Int
    BY <1>4, <1>5, <1>7, SMT DEF Weighted
  <2>2. y = a10 + 2097152 * (a11 + 2097152 * h)
    OBVIOUS
  <2> HIDE DEF l, h, y
  <2>3. PICK d \in Nat \ {0}, n \in 0 .. 11 :
          d = 1645504557321206042154969182557350504982735865633579863348609024 /\ n = 10
    BY SMT
  <2>4. d = 2^(W * n) /\ Value(v) = d * y + l /\ l < d
    BY <2>1, <2>3, WeightsReal, SMT
  <2>5. Value(v) \div 2^(W * n) = y
    BY <1>9, <2>1, <2>4, SMT
  <2>6. Upper(v, n, h)
    BY <1>5, <1>8, <2>2, <2>3, <2>5, SMT DEF Upper
  <2> QED
    BY <2>1, <2>3, <2>6, SMT
<1>21. \E h \in Int : Upper(v, 11, h)
  <2> DEFINE l == a0 + 2097152 * (a1 + 2097152 * (a2 + 2097152 * (a3 + 2097152 * (a4 + 2097152 * (
                  a5 + 2097152 * (a6 + 2097152 * (a7 + 2097152 * (a8 + 2097152 * (a9 + 2097152 * (
                  a10))))))))))
             h == 0
             y == a11
  <2>1. /\ Value(v) = 3450873173395281893717377931138512726225554486085193277581262111899648 * y + l
        /\ l \in Nat /\ l < 3450873173395281893717377931138512726225554486085193277581262111899648
        /\ h \in Int /\ y \in Int
    BY <1>4, <1>5, <1>7, SMT DEF Weighted
  <2>2. y = a11
    OBVIOUS
  <2> HIDE DEF l, h, y
  <2>3. PICK d \in Nat \ {0}, n \in 0 .. 11 :
          d = 3450873173395281893717377931138512726225554486085193277581262111899648 /\ n = 11
    BY SMT
  <2>4. d = 2^(W * n) /\ Value(v) = d * y + l /\ l < d
    BY <2>1, <2>3, WeightsReal, SMT
  <2>5. Value(v) \div 2^(W * n) = y
    BY <1>9, <2>1, <2>4, SMT
  <2>6. Upper(v, n, h)
    BY <1>5, <1>8, <2>2, <2>3, <2>5, SMT DEF Upper
  <2> QED
    BY <2>1, <2>3, <2>6, SMT
<1> QED
  <2> SUFFICES ASSUME NEW n \in 0 .. 11 PROVE \E h \in Int : Upper(v, n, h)
    BY Zenon
  <2>1. n \in {0, 1, 2, 3, 4, 5, 6, 7, 8, 9, 10, 11}
    BY SMT
  <2> QED
    BY <2>1, <1>10, <1>11, <1>12, <1>13, <1>14, <1>15, <1>16, <1>17, <1>18, <1>19, <1>20,
       <1>21, Zenon

\* Byte k lies within the limb where it begins and the next: what is above is a multiple of
\* 256 when they are put together.
Splits(q, p, r, d, e) == q = p * r /\ q = d * e

Joined(a, b, h, q, p, r, d) ==
  ((a + q * (b + q * h)) \div p) % d = (a \div p + b * r) % d

LEMMA PutTogether ==
  ASSUME NEW a \in Int, NEW b \in Int, NEW h \in Int, NEW p \in Nat \ {0}, NEW r \in Nat \ {0},
         NEW d \in Nat \ {0}, NEW q \in Nat, NEW e \in Nat, Splits(q, p, r, d, e)
  PROVE  Joined(a, b, h, q, p, r, d)
<1>1. q = p * r /\ q = d * e
  BY Zenon DEF Splits
<1>2. PICK y \in Int, z \in Nat : y = a \div p /\ z = a % p /\ z < p /\ a = p * y + z
  BY DivMod
<1>3. PICK c \in Int, g \in Int : g = q * h /\ c = b + g
  BY MulFacts
<1>4. PICK u \in Int : u = r * c
  BY MulFacts
<1>5. PICK v \in Int : v = q * c /\ v = p * u
  <2>1. (p * r) * c = p * (r * c)
    BY MulAssoc
  <2> QED
    BY <1>1, <1>4, <2>1, MulFacts
<1>6. a + q * c = p * (u + y) + z
  <2>1. PICK w \in Int : w = p * y /\ p * (u + y) = v + w
    <3>1. p * (u + y) = p * u + p * y /\ p * y \in Int
      BY MulFacts
    <3> QED
      BY <1>5, <3>1, Zenon
  <2>2. a = w + z
    BY <1>2, <2>1, Zenon
  <2>3. a + v = v + w + z
    BY <2>2, SMT
  <2> QED
    BY <1>5, <2>1, <2>3, Zenon
<1>7. (a + q * c) \div p = u + y
  <2>1. PICK w \in Int : w = u + y
    OBVIOUS
  <2>2. (p * w + z) \div p = w
    BY ONLY <1>2, <2>1, p \in Nat \ {0}, DivModUnique
  <2> QED
    BY <1>6, <2>1, <2>2
<1>8. PICK f \in Int, m \in Int : f = b * r /\ m = r * (e * h)
  BY MulFacts
<1>9. u = f + d * m
  <2>1. r * (b + g) = r * b + r * g /\ r * b = b * r /\ r * g \in Int
    BY <1>3, MulFacts
  <2>2. g = d * (e * h)
    <3>1. (d * e) * h = d * (e * h)
      BY MulAssoc
    <3> QED
      BY <1>1, <1>3, <3>1, Zenon
  <2>3. r * g = d * m
    <3>1. PICK j \in Int : j = e * h
      BY MulFacts
    <3>2. r * (d * j) = d * (r * j)
      <4>1. r * (d * j) = (r * d) * j /\ d * (r * j) = (d * r) * j /\ r * d = d * r
        BY MulAssoc, MulFacts
      <4> QED
        BY <4>1, Zenon
    <3> QED
      BY <1>8, <2>2, <3>1, <3>2
  <2> QED
    BY <1>3, <1>4, <1>8, <2>1, <2>3
<1>10. (f + d * m + y) % d = (y + f) % d
  <2>1. PICK j \in Int, l \in Nat : j = (y + f) \div d /\ l = (y + f) % d /\ l < d /\ y + f = d * j + l
    <3>1. y + f \in Int
      BY <1>2, <1>8, SMT
    <3> QED
      BY <3>1, DivMod
  <2>2. PICK v1 \in Int, v2 \in Int : v1 = d * m /\ v2 = d * j /\ d * (j + m) = v2 + v1
    <3>1. d * (j + m) = d * j + d * m /\ d * m \in Int /\ d * j \in Int
      BY <1>8, <2>1, MulFacts
    <3> QED
      BY <3>1, Zenon
  <2>3. f + d * m + y = d * (j + m) + l
    <3>1. f + v1 + y = v2 + v1 + l
      <4>1. y + f = v2 + l
        BY <2>1, <2>2, Zenon
      <4> QED
        BY ONLY <4>1, f \in Int, v1 \in Int, y \in Int, v2 \in Int, l \in Nat, SMT
    <3> QED
      BY <2>2, <3>1, Zenon
  <2>4. (d * (j + m) + l) % d = l
    <3>1. PICK w \in Int : w = j + m
      BY <1>8, <2>1
    <3>2. (d * w + l) % d = l
      BY ONLY <2>1, <3>1, d \in Nat \ {0}, DivModUnique
    <3> QED
      BY <3>1, <3>2, Zenon
  <2> QED
    BY <2>1, <2>3, <2>4, Zenon
<1>11. ((a + q * c) \div p) % d = (y + f) % d
  BY <1>7, <1>9, <1>10, Zenon
<1> QED
  BY <1>2, <1>3, <1>8, <1>11, Zenon DEF Joined

LEMMA DivDivAny ==
  \A z \in Int, c \in Nat \ {0}, e \in Nat \ {0} : (z \div c) \div e = z \div (c * e)
  BY DivDiv

LEMMA ByteIs ==
  ASSUME RealSize, NEW v, Packable(v), NEW k \in 0 .. 31
  PROVE  Byte(v, k) = (Value(v) \div 2^(8 * k)) % 2^8
<1>1. ByteBits = 8 /\ W = 21 /\ N = 12
  BY SMT DEF RealSize, RealConstants
<1>2. PICK n \in 0 .. 11, t \in 0 .. 20 : n = (8 * k) \div 21 /\ 8 * k = 21 * n + t
  <2>1. (8 * k) \div 21 \in 0 .. 11 /\ 8 * k - 21 * ((8 * k) \div 21) \in 0 .. 20
    BY SMT
  <2> QED
    BY <2>1, SMT
<1>3. Byte(v, k) = (v[n] \div 2^t + (IF n < 11 THEN v[n + 1] * 2^(21 - t) ELSE 0)) % 2^8
  <2>1. 8 * k < 21 * 12 /\ t = 8 * k - 21 * n /\ (n + 1 < 12 <=> n < 11)
    BY <1>2, SMT
  <2> QED
    BY <1>1, <1>2, <2>1, Zenon DEF Byte
<1>4. PICK h \in Int : Upper(v, n, h)
  BY UpperIs, Zenon
<1>5. v \in [Place -> Int] /\ Value(v) \in Int
  <2>1. v \in [Limbs -> Int]
    BY Zenon DEF Packable
  <2>2. Value(v) \in Int
    BY <2>1, TermsInt, SMT
  <2> QED
    BY <2>1, <2>2, LimbsReal, SMT
<1>6. PICK p \in Nat \ {0}, r \in Nat \ {0}, d \in Nat \ {0} : p = 2^t /\ r = 2^(21 - t) /\ d = 2^(21 * n)
  <2>1. t \in Nat /\ 21 - t \in Nat /\ 21 * n \in Nat
    BY SMT
  <2> QED
    BY <2>1, PowPositive, Zenon
<1>7. 2^(8 * k) = d * p
  <2>1. PICK m \in Nat, l \in Nat : m = 21 * n /\ l = t
    BY SMT
  <2>2. 2^(m + l) = 2^m * 2^l
    BY PowSum, SMT
  <2>3. 8 * k = m + l
    BY <1>2, <2>1, SMT
  <2> QED
    BY <1>6, <2>1, <2>2, <2>3, Zenon
<1>8. Value(v) \div 2^(8 * k) = (Value(v) \div d) \div p
  <2>1. PICK y \in Int : y = Value(v)
    BY <1>5, SMT
  <2>2. (y \div d) \div p = y \div (d * p)
    BY DivDivAny, Zenon
  <2> QED
    BY <1>7, <2>1, <2>2, Zenon
<1>9. Value(v) \div d = v[n] + (IF n < 11 THEN 2097152 * (v[n + 1] + 2097152 * h) ELSE 0)
  <2>1. d = 2^(W * n)
    BY <1>1, <1>6, Zenon
  <2> QED
    BY <1>4, <2>1, SMT DEF Upper
<1>10. n \in Place /\ (n < 11 => n + 1 \in Place) /\ 2^8 = 256
  BY SMT DEF Place
<1>11. PICK a \in Int : a = v[n]
  BY <1>5, <1>10, SMT
<1>12. CASE n < 11
  <2>1. PICK b \in Int : b = v[n + 1]
    BY <1>5, <1>10, <1>12, SMT
  <2>2. Value(v) \div d = a + 2097152 * (b + 2097152 * h)
    BY <1>9, <1>11, <1>12, <2>1, SMT
  <2>3. ((a + 2097152 * (b + 2097152 * h)) \div p) % 256 = (a \div p + b * r) % 256
    <3>1. p * r = 2^21
      <4>1. PICK m \in Nat, l \in Nat : m = t /\ l = 21 - t /\ m + l = 21
        BY SMT
      <4>2. 2^(m + l) = 2^m * 2^l
        BY PowSum, SMT
      <4> QED
        BY <1>6, <4>1, <4>2, Zenon
    <3>2. PICK q \in Nat, e \in Nat, c \in Nat \ {0} :
            q = 2^21 /\ q = 2097152 /\ e = 8192 /\ c = 256 /\ q = c * e
      BY SMT
    <3>3. q = p * r /\ q = c * e
      BY <3>1, <3>2, SMT
    <3>4. Joined(a, b, h, q, p, r, c)
      <4>1. Splits(q, p, r, c, e)
        BY <3>3, Zenon DEF Splits
      <4> QED
        BY <4>1, PutTogether, Zenon
    <3> QED
      BY <3>2, <3>4, SMT DEF Joined
  <2>4. Byte(v, k) = (a \div p + b * r) % 2^8
    BY <1>3, <1>6, <1>11, <1>12, <2>1, SMT
  <2> QED
    BY <1>8, <1>10, <2>2, <2>3, <2>4, SMT
<1>13. CASE ~(n < 11)
  <2>1. PICK y \in Int : y = a \div p
    BY DivMod, SMT
  <2>2. Value(v) \div d = a
    BY <1>9, <1>11, <1>13, SMT
  <2>3. Byte(v, k) = (y + 0) % 2^8
    BY <1>3, <1>6, <1>11, <1>13, <2>1, Zenon
  <2>4. y + 0 = y
    BY SMT
  <2> QED
    BY <1>8, <2>1, <2>2, <2>3, <2>4, Zenon
<1> QED
  BY <1>12, <1>13, SMT

\* The bytes of the packed limbs stand for the value.
LEMMA BytesAre ==
  ASSUME RealSize, NEW v, Packable(v)
  PROVE  Number([k \in 0 .. Bytes - 1 |-> Byte(v, k)]) = Value(v)
<1> DEFINE f == [k \in 0 .. 31 |-> Byte(v, k) * 2^(8 * k)]
<1>1. ByteBits = 8 /\ Bytes = 32 /\ Bytes - 1 = 31
  BY SMT DEF RealSize, RealConstants
<1>2. Number([k \in 0 .. Bytes - 1 |-> Byte(v, k)]) = Total(f, 32)
  <2>1. [k \in 0 .. 31 |-> [j \in 0 .. 31 |-> Byte(v, j)][k] * 2^(8 * k)] = f
    BY Zenon
  <2> QED
    BY <1>1, <2>1, Zenon DEF Number
<1>3. PICK y \in Nat : y = Value(v)
  <2>1. v \in [Limbs -> Int] /\ 0 <= Value(v)
    BY Zenon DEF Packable
  <2>2. Value(v) \in Int
    BY <2>1, TermsInt, SMT
  <2> QED
    BY <2>1, <2>2, SMT
<1>4. DigitTerms(f, 8, y, 32)
  <2> SUFFICES ASSUME NEW k \in 0 .. 32 - 1
               PROVE  f[k] = ((y \div 2^(8 * k)) % 2^8) * 2^(8 * k)
    BY Zenon DEF DigitTerms
  <2>1. k \in 0 .. 31
    BY SMT
  <2>2. Byte(v, k) = (y \div 2^(8 * k)) % 2^8
    BY <1>3, <2>1, ByteIs, Zenon
  <2>3. f[k] = Byte(v, k) * 2^(8 * k)
    BY <2>1, Zenon
  <2> QED
    BY <2>2, <2>3, Zenon
<1> HIDE DEF f
<1>5. Total(f, 32) = y % 2^(8 * 32)
  <2>1. PICK w \in Nat, n \in Nat : w = 8 /\ n = 32
    BY SMT
  <2>2. DigitTerms(f, w, y, n)
    BY <1>4, <2>1, Zenon
  <2>3. Total(f, n) = y % 2^(w * n)
    BY <2>2, DigitsOfNumber, SMT
  <2> QED
    BY <2>1, <2>3, Zenon
<1>6. PICK d \in Nat \ {0} : d = 2^(8 * 32) /\ y < d
  <2>1. PICK m \in Nat, l \in Nat : m = W * 12 /\ l = 4
    BY Weights, SMT
  <2>2. 2^(m + l) = 2^m * 2^l
    BY PowSum, SMT
  <2>3. m + l = 8 * 32
    <3>1. W = 21
      BY SMT DEF RealSize, RealConstants
    <3> QED
      BY <2>1, <3>1, SMT
  <2>4. PICK c \in Nat : c = 2^m /\ c = Wide
    BY <2>1, WeightsReal, SMT DEF Wide
  <2>5. 2^l = 16
    BY <2>1, SMT
  <2>6. y < Order
    BY <1>3, Zenon DEF Packable
  <2>7. y < c * 16
    BY <2>4, <2>6, OrderReal, SMT DEF RealOrder, Wide
  <2>8. PICK e \in Nat \ {0} : e = c * 16
    BY <2>7, SMT
  <2>9. e = 2^(8 * 32)
    BY <2>2, <2>3, <2>4, <2>5, <2>8, Zenon
  <2> QED
    BY <2>7, <2>8, <2>9, Zenon
<1>7. y % d = y
  BY <1>6, SmallDiv
<1> QED
  BY <1>2, <1>3, <1>5, <1>6, <1>7, Zenon

LEMMA PackableThen == RealSize /\ IInv /\ Sized /\ Ranged => (phase \in {"pack", "done"} => Packable(s))
  BY SMT DEF Packable, IInv, Sized, Ranged

\* The bytes, once written, are those of the limbs.
Written == phase = "done" => out = [k \in 0 .. Bytes - 1 |-> Byte(s, k)]

LEMMA WrittenKept == Written /\ [Next]_vars => Written'
<1> SUFFICES ASSUME Written, [Next]_vars PROVE Written'
  BY SMT
<1>1. CASE \E op : Statement(op)
  <2>1. phase' # "done"
    BY <1>1, SMT DEF Statement, Loops, Loop
  <2> QED
    BY <2>1, Zenon DEF Written
<1>2. CASE Pack
  <2>1. out' = [k \in 0 .. Bytes - 1 |-> Byte(s, k)] /\ s' = s
    BY <1>2, Zenon DEF Pack
  <2> QED
    BY <2>1, Zenon DEF Written
<1>3. CASE UNCHANGED vars
  <2>1. phase' = phase /\ s' = s /\ out' = out
    BY <1>3, Zenon DEF vars
  <2> QED
    BY <2>1, Zenon DEF Written
<1> QED
  BY <1>1, <1>2, <1>3, Zenon DEF Next, Fold, CarryRound, CarryFloor, Return

\* Congruent to the number and below L, the value is the residue.
LEMMA Least == RealSize /\ IInv /\ Sized /\ Ranged /\ Written => LeastResidue
<1> SUFFICES ASSUME RealSize, IInv, Sized, Ranged, Written, phase = "done"
             PROVE  Number(out) = x % Order
  BY Zenon DEF LeastResidue
<1>1. Packable(s)
  BY PackableThen, Zenon
<1>2. Number(out) = Value(s)
  BY <1>1, BytesAre, Zenon DEF Written
<1>3. PICK m \in Int : Value(s) = x + m * Order
  BY Zenon DEF IInv
<1>4. PICK d \in Nat \ {0} : d = Order
  BY OrderInt, Zenon
<1>5. PICK y \in Nat : y = Value(s) /\ y < d
  <2>1. s \in [Limbs -> Int] /\ 0 <= Value(s) /\ Value(s) < Order
    BY <1>1, Zenon DEF Packable
  <2>2. Value(s) \in Int
    BY <2>1, TermsInt, SMT
  <2> QED
    BY <1>4, <2>1, <2>2, SMT
<1>6. x = d * (-m) + y
  <2>1. x \in Nat
    BY Zenon DEF IInv
  <2>2. PICK md \in Int : md = m * d /\ d * m = md
    BY MulFacts, SMT
  <2>3. d * (-m) = -(d * m)
    BY SMT
  <2> QED
    BY <1>3, <1>4, <1>5, <2>1, <2>2, <2>3, SMT
<1>7. (d * (-m) + y) % d = y
  <2>1. PICK w \in Int : w = -m
    BY SMT
  <2>2. (d * w + y) % d = y
    BY ONLY <1>5, <2>1, d \in Nat \ {0}, DivModUnique
  <2> QED
    BY <2>1, <2>2, Zenon
<1> QED
  BY <1>2, <1>4, <1>5, <1>6, <1>7, Zenon

\* "s mod l" and "(ab+c) mod l", the comments of sc_reduce.c and sc_muladd.c: for every argument
\* the bytes are the residue below L itself.
THEOREM LeastResidueCorrect ==
  ASSUME RealSize
  PROVE  Spec => []LeastResidue
<1>1. Init => IInv /\ Sized /\ Ranged /\ Written
  <2>1. Init => Written
    BY SMT DEF Init, Begin, Written
  <2> QED
    BY <2>1, Initially, SizedInit, RangedInit, Zenon
<1>2. IInv /\ Sized /\ Ranged /\ Written /\ [Next]_vars => IInv' /\ Sized' /\ Ranged' /\ Written'
  BY Invariance, SizedKept, RangedKept, WrittenKept, Zenon
<1>3. IInv /\ Sized /\ Ranged /\ Written => LeastResidue
  BY Least, Zenon
<1> QED
  BY <1>1, <1>2, <1>3, PTL DEF Spec
=============================================================================
