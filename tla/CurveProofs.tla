---------------------------- MODULE CurveProofs -----------------------------
(***************************************************************************)
(* What the functions on points compute, for every curve whose prime is 5  *)
(* modulo 8 and whose D is not a square.  First the points: that their     *)
(* addition is a group's, with multiples, inverses and square roots in the *)
(* field by Fermat's theorem.  Then that each formula of ge_*.c and        *)
(* ge25519_*.c stands for that addition, and each decoder for the points   *)
(* of a word (PointOps), and that the two scalar multiplications return    *)
(* the multiples they promise (DoubleScalarMult, ScalarMultBase), for      *)
(* digits of any number of bits.  Last, that a curve whose group is cyclic *)
(* is what Ed25519 takes for its points, bytes included.                   *)
(***************************************************************************)
EXTENDS PointOps, DoubleScalarMult, ScalarMultBase, NumberTheorems

\* x is a multiple of P: the element of the field that x stands for is 0.
Zero(x) == x % P = 0

Same(x, y) == x \in Int /\ y \in Int /\ Zero(x - y)

LEMMA Prime == P \in Nat /\ 5 <= P /\ P % 8 = 5 /\ D \in 0 .. P - 1 /\ F = 0 .. P - 1
<1>1. P \in Nat /\ P % 8 = 5 /\ D \in F
  BY FieldAssumption
<1>2. P # 0 /\ P # 1 /\ P # 2 /\ P # 3 /\ P # 4
  BY <1>1
<1> QED
  BY <1>1, <1>2 DEF F

LEMMA ZeroIs ==
  ASSUME NEW x \in Int
  PROVE  Zero(x) <=> \E t \in Int : x = P * t
<1>0. P \in Nat \ {0}
  BY Prime
<1>1. ASSUME Zero(x) PROVE \E t \in Int : x = P * t
  <2>1. x \div P \in Int /\ x = P * (x \div P) + (x % P)
    BY <1>0, DivMod
  <2>2. x = P * (x \div P)
    BY <1>0, <1>1, <2>1 DEF Zero
  <2> QED
    BY <2>1, <2>2
<1>2. ASSUME NEW t \in Int, x = P * t PROVE Zero(x)
  <2>1. (P * t + 0) % P = 0
    BY <1>0, DivModUnique
  <2>2. P * t + 0 = P * t
    BY <1>0
  <2> QED
    BY <1>2, <2>1, <2>2 DEF Zero
<1> QED
  BY <1>1, <1>2

LEMMA ZeroSum ==
  ASSUME NEW x \in Int, NEW y \in Int, Zero(x), Zero(y)
  PROVE  Zero(x + y) /\ Zero(x - y)
<1>1. PICK t \in Int : x = P * t
  BY ZeroIs
<1>2. PICK z \in Int : y = P * z
  BY ZeroIs
<1>3. x + y = P * (t + z) /\ x - y = P * (t - z)
  BY <1>1, <1>2, Prime
<1> QED
  BY <1>3, ZeroIs

LEMMA ZeroTimes ==
  ASSUME NEW x \in Int, NEW c \in Int, Zero(x)
  PROVE  Zero(c * x) /\ Zero(x * c)
<1>1. PICK t \in Int : x = P * t
  BY ZeroIs
<1>2. c * x = P * (c * t) /\ x * c = P * (c * t)
  BY <1>1, Prime
<1> QED
  BY <1>2, ZeroIs

LEMMA ZeroSmall ==
  /\ Zero(0) /\ \A x \in 1 .. P - 1 : ~Zero(x) /\ ~Zero(-x)
  /\ \A x, y \in F : Same(x, y) <=> x = y
<1>1. \A x \in Int : x % P = 0 /\ -P < x /\ x < P => x = 0
  <2> SUFFICES ASSUME NEW x \in Int, x % P = 0, -P < x, x < P PROVE x = 0
    OBVIOUS
  <2>1. PICK t \in Int : x = P * t
    BY ZeroIs DEF Zero
  <2>2. t < 1 /\ -1 < t
    BY <2>1, Prime
  <2> QED
    BY <2>1, <2>2, Prime
<1>2. 0 % P = 0
  BY Prime, SmallDiv
<1>3. \A x \in 1 .. P - 1 : ~Zero(x) /\ ~Zero(-x)
  BY <1>1, Prime DEF Zero
<1>4. ASSUME NEW x \in F, NEW y \in F PROVE Same(x, y) <=> x = y
  <2>1. x \in Int /\ y \in Int /\ x - y \in Int /\ -P < x - y /\ x - y < P
    BY Prime
  <2>2. (x - y) % P = 0 => x - y = 0
    BY <1>1, <2>1
  <2>3. x = y => x - y = 0
    BY <2>1
  <2> QED
    BY <1>2, <2>1, <2>2, <2>3 DEF Zero, Same
<1> QED
  BY <1>2, <1>3, <1>4 DEF Zero

\* The operations of the field are those of the integers, but for multiples of P.
LEMMA Reduced ==
  ASSUME NEW x \in Int
  PROVE  x % P \in F /\ Same(x % P, x) /\ Same(x, x % P)
<1>1. x \div P \in Int /\ x % P \in Nat /\ x % P < P /\ x = P * (x \div P) + (x % P)
  BY Prime, DivMod
<1> DEFINE t == x \div P
           z == x % P
<1>2. t \in Int /\ z \in Int /\ x = P * t + z /\ z \in 0 .. P - 1
  BY <1>1, Prime
<1> HIDE DEF t, z
<1>3. z - x = P * (-t) /\ x - z = P * t /\ -t \in Int /\ z - x \in Int /\ x - z \in Int
  BY <1>2, Prime
<1>4. Zero(z - x) /\ Zero(x - z)
  BY <1>2, <1>3, ZeroIs
<1>5. z \in F /\ Same(z, x) /\ Same(x, z)
  BY <1>2, <1>4, Prime DEF Same
<1> QED
  BY <1>5 DEF z

LEMMA Operations ==
  ASSUME NEW u \in F, NEW v \in F
  PROVE  /\ u (+) v \in F /\ Same(u (+) v, u + v)
         /\ u (-) v \in F /\ Same(u (-) v, u - v)
         /\ u (.) v \in F /\ Same(u (.) v, u * v)
<1>1. u \in Int /\ v \in Int /\ u + v \in Int /\ u - v \in Int /\ u * v \in Int
  BY Prime
<1> QED
  BY <1>1, Reduced DEF (+), (-), (.)

LEMMA SameFacts ==
  /\ \A x \in Int : Same(x, x)
  /\ \A x, y \in Int : Same(x, y) => Same(y, x) /\ (Zero(x) <=> Zero(y))
  /\ \A x, y, z \in Int : Same(x, y) /\ Same(y, z) => Same(x, z)
<1>1. ASSUME NEW x \in Int PROVE Same(x, x)
  BY x - x = 0, ZeroSmall DEF Same
<1>2. ASSUME NEW x \in Int, NEW y \in Int, Same(x, y)
      PROVE  Same(y, x) /\ (Zero(x) <=> Zero(y))
  <2>1. x - y \in Int /\ Zero(x - y)
    BY <1>2 DEF Same
  <2>2. Zero(0 - (x - y)) /\ 0 - (x - y) = y - x
    BY <2>1, ZeroSum, ZeroSmall
  <2>3. Zero(y) => Zero((x - y) + y) /\ (x - y) + y = x
    BY <2>1, ZeroSum
  <2>4. Zero(x) => Zero(x - (x - y)) /\ x - (x - y) = y
    BY <2>1, ZeroSum
  <2> QED
    BY <2>2, <2>3, <2>4 DEF Same
<1>3. ASSUME NEW x \in Int, NEW y \in Int, NEW z \in Int, Same(x, y), Same(y, z)
      PROVE  Same(x, z)
  <2>1. Zero((x - y) + (y - z)) /\ (x - y) + (y - z) = x - z
    BY <1>3, ZeroSum DEF Same
  <2> QED
    BY <2>1 DEF Same
<1> QED
  BY <1>1, <1>2, <1>3

LEMMA Invertible ==
  ASSUME NEW v \in Int, ~Zero(v)
  PROVE  \E w \in F : Same(w * v, 1)
<1> DEFINE S == {n \in 1 .. P - 1 : \E m \in Int : Same(m * v, n)}
<1>1. v % P \in S
  <2>1. v % P \in F /\ Same(v, v % P)
    BY Reduced
  <2>2. v % P # 0
    BY DEF Zero
  <2>3. v % P \in 1 .. P - 1 /\ 1 * v = v
    BY <2>1, <2>2, Prime
  <2>4. Same(1 * v, v % P)
    BY <2>1, <2>3
  <2>5. \E m \in Int : Same(m * v, v % P)
    BY <2>4, 1 \in Int
  <2> QED
    BY <2>3, <2>5, Zenon
<1>2. PICK n \in S : \A k \in S : n <= k
  <2>1. 1 .. P - 1 \subseteq Nat
    BY Prime
  <2>2. S \subseteq Nat /\ S # {}
    BY <1>1, <2>1, Zenon
  <2> QED
    BY <2>2, LeastNat
<1>3. PICK m \in Int : Same(m * v, n)
  BY <1>2
<1>4. n \in 1 .. P - 1 /\ n \in Nat \ {0}
  BY <1>2, Prime
<1> HIDE DEF S
<1>5. n = 1
  <2> SUFFICES ASSUME n # 1 PROVE FALSE
    OBVIOUS
  <2>1. n \in 2 .. P - 1 /\ P % n # 0
    BY <1>4, Prime, FieldAssumption
  <2> DEFINE t == P \div n
             z == P % n
  <2>2. t \in Int /\ z \in 1 .. n - 1 /\ P = n * t + z
    BY <1>4, <2>1, Prime, DivMod
  <2> HIDE DEF t, z
  <2>3. m * v \in Int /\ m * v - n \in Int /\ Zero(m * v - n)
    BY <1>3, <1>4 DEF Same
  <2>4. Zero((-t) * (m * v - n))
    BY <2>2, <2>3, ZeroTimes
  <2>5. (-t) * (m * v - n) = ((-t) * m) * v + n * t /\ (-t) * m \in Int
    BY <1>4, <2>2, <2>3
  <2>6. ((-t) * m) * v - z = (((-t) * m) * v + n * t) - P * 1
    BY <2>2, <2>5, <1>4, Prime
  <2>7. Zero(P * 1) /\ P * 1 \in Int
    BY ZeroIs, Prime
  <2>8. ((-t) * m) * v + n * t \in Int /\ Zero(((-t) * m) * v + n * t)
    BY <1>4, <2>2, <2>4, <2>5
  <2>9. Zero((((-t) * m) * v + n * t) - P * 1)
    BY <2>7, <2>8, ZeroSum
  <2>10. Same(((-t) * m) * v, z) /\ z \in 1 .. P - 1
    BY <1>4, <2>2, <2>6, <2>9 DEF Same
  <2>11. z \in S
    BY <2>5, <2>10 DEF S
  <2> QED
    BY <1>2, <2>2, <2>11, <1>4
<1> DEFINE w == m % P
<1>6. w \in F /\ Same(w, m)
  BY Reduced
<1> HIDE DEF w
<1>9. w \in Int
  BY <1>6, Prime
<1>10. w - m \in Int /\ Zero(w - m)
  BY <1>6, <1>9 DEF Same
<1>11. Zero((w - m) * v)
  BY <1>10, ZeroTimes
<1>7. Zero((w - m) * v) /\ (w - m) * v = w * v - m * v /\ w * v \in Int /\ m * v \in Int
  BY <1>9, <1>11
<1>8. Same(w * v, m * v)
  BY <1>7 DEF Same
<1> QED
  BY <1>3, <1>5, <1>6, <1>7, <1>8, <1>9, SameFacts

LEMMA NoDivisors ==
  ASSUME NEW x \in Int, NEW y \in Int, Zero(x * y)
  PROVE  Zero(x) \/ Zero(y)
<1> SUFFICES ASSUME ~Zero(x) PROVE Zero(y)
  OBVIOUS
<1>1. PICK w \in F : Same(w * x, 1)
  BY Invertible
<1>2. w \in Int /\ w * x \in Int /\ x * y \in Int /\ w * x - 1 \in Int
  BY <1>1, Prime
<1>3. Zero(y * (w * x - 1)) /\ Zero(w * (x * y))
  BY <1>1, <1>2, ZeroTimes DEF Same
<1>4. w * (x * y) - y * (w * x - 1) = y /\ w * (x * y) \in Int /\ y * (w * x - 1) \in Int
  BY <1>2
<1> QED
  BY <1>3, <1>4, ZeroSum

\* A quotient is what gives the numerator when multiplied by the denominator.
LEMMA Quotient ==
  ASSUME NEW u \in F, NEW v \in F, v # 0
  PROVE  /\ Over(u, v) \in F /\ Over(u, v) (.) v = u
         /\ Same(Over(u, v) * v, u)
         /\ \A z \in F : Same(z * v, u) => Over(u, v) = z
<1>1. u \in Int /\ v \in Int /\ ~Zero(v)
  BY ZeroSmall, Prime
<1>2. \A z \in F : z (.) v = u <=> Same(z * v, u)
  <2> SUFFICES ASSUME NEW z \in F PROVE z (.) v = u <=> Same(z * v, u)
    OBVIOUS
  <2>3. z (.) v \in F /\ Same(z (.) v, z * v)
    BY Operations
  <2>1. z \in Int /\ z * v \in Int /\ z (.) v \in F /\ z (.) v \in Int /\ Same(z (.) v, z * v)
    BY <1>1, <2>3, Prime
  <2>2. Same(z (.) v, u) <=> z (.) v = u
    BY <2>1, ZeroSmall
  <2> QED
    BY <1>1, <2>1, <2>2, SameFacts
<1>3. PICK w \in F : Same(w * v, 1)
  BY <1>1, Invertible
<1> DEFINE z == (u * w) % P
<1>9. w \in Int /\ u * w \in Int
  BY <1>1, Prime
<1>10. z \in F /\ Same(z, u * w)
  BY <1>9, Reduced
<1> HIDE DEF z
<1>4. z \in F /\ Same(z, u * w) /\ z \in Int /\ w \in Int
  BY <1>9, <1>10, Prime
<1>5. Same(z * v, u)
  <2>3. z - u * w \in Int /\ w * v - 1 \in Int /\ Zero(z - u * w) /\ Zero(w * v - 1)
    BY <1>1, <1>3, <1>4 DEF Same
  <2>1. Zero(v * (z - u * w)) /\ Zero(u * (w * v - 1))
    BY <1>1, <2>3, ZeroTimes
  <2>2. v * (z - u * w) + u * (w * v - 1) = z * v - u /\ v * (z - u * w) \in Int /\ u * (w * v - 1) \in Int
    BY <1>1, <1>4
  <2>4. z * v \in Int
    BY <1>1, <1>4
  <2> QED
    BY <1>1, <2>1, <2>2, <2>4, ZeroSum DEF Same
<1>6. Over(u, v) = CHOOSE q \in F : q (.) v = u
  <2>1. <<u, v>> \in F \X (F \ {0}) /\ <<u, v>>[1] = u /\ <<u, v>>[2] = v
    BY <1>1
  <2> QED
    BY <2>1, Zenon DEF Over, Quotients
<1>7. Over(u, v) \in F /\ Over(u, v) (.) v = u
  BY <1>2, <1>4, <1>5, <1>6
<1>8. \A q \in F : Same(q * v, u) => Over(u, v) = q
  <2> SUFFICES ASSUME NEW q \in F, Same(q * v, u) PROVE Over(u, v) = q
    OBVIOUS
  <2> DEFINE o == Over(u, v)
  <2>1. o \in F /\ Same(o * v, u) /\ o \in Int /\ q \in Int
    BY <1>2, <1>7, Prime
  <2> HIDE DEF o
  <2>2. Zero((o * v - u) - (q * v - u)) /\ (o * v - u) - (q * v - u) = (o - q) * v /\ o - q \in Int
    BY <1>1, <2>1, ZeroSum DEF Same
  <2>3. Zero(o - q)
    BY <1>1, <2>2, NoDivisors
  <2>4. o = q
    BY <2>1, <2>3, ZeroSmall DEF Same
  <2> QED
    BY <2>4 DEF o
<1> QED
  BY <1>2, <1>7, <1>8
-----------------------------------------------------------------------------
\* For lack of a root of -1, x |-> 1/x, where x and -x count as one, would pair the
\* numbers between 2 and P/2, of which there are 4j + 1.
Near(x, y) == Zero(x * y - 1) \/ Zero(x * y + 1)

LEMMA NearFacts ==
  ASSUME NEW j \in Nat, P = 8 * j + 5
  PROVE  /\ \A x \in 2 .. 4 * j + 2 : \E y \in 2 .. 4 * j + 2 : Near(x, y)
         /\ \A x, y, z \in 2 .. 4 * j + 2 : Near(x, y) /\ Near(x, z) => y = z
         /\ \A x, y \in 2 .. 4 * j + 2 : Near(x, y) => Near(y, x)
         /\ \A x \in 2 .. 4 * j + 2 : Near(x, x) => Zero(x * x + 1)
<1> DEFINE H == 2 .. 4 * j + 2
<1>1. \A x \in H : x \in Int /\ x \in 1 .. P - 1 /\ x - 1 \in 1 .. P - 1 /\ x + 1 \in 1 .. P - 1
                  /\ ~Zero(x) /\ ~Zero(x - 1) /\ ~Zero(x + 1)
  <2>1. \A x \in H : x \in Int /\ x \in 1 .. P - 1 /\ x - 1 \in 1 .. P - 1 /\ x + 1 \in 1 .. P - 1
    OBVIOUS
  <2> QED
    BY <2>1, ZeroSmall
<1>2. ASSUME NEW x \in H, NEW y \in H, NEW z \in H, Near(x, y), Near(x, z) PROVE y = z
  <2>1. x \in Int /\ y \in Int /\ z \in Int /\ x * y \in Int /\ x * z \in Int
    BY <1>1
  <2>2. Zero(x * (y - z)) \/ Zero(x * (y + z))
    <3>1. CASE Zero(x * y - 1) /\ Zero(x * z - 1)
      <4>1. (x * y - 1) - (x * z - 1) = x * (y - z)
        BY <2>1
      <4> QED
        BY <2>1, <3>1, <4>1, ZeroSum
    <3>2. CASE Zero(x * y + 1) /\ Zero(x * z + 1)
      <4>1. (x * y + 1) - (x * z + 1) = x * (y - z)
        BY <2>1
      <4> QED
        BY <2>1, <3>2, <4>1, ZeroSum
    <3>3. CASE Zero(x * y - 1) /\ Zero(x * z + 1)
      <4>1. (x * y - 1) + (x * z + 1) = x * (y + z)
        BY <2>1
      <4> QED
        BY <2>1, <3>3, <4>1, ZeroSum
    <3>4. CASE Zero(x * y + 1) /\ Zero(x * z - 1)
      <4>1. (x * y + 1) + (x * z - 1) = x * (y + z)
        BY <2>1
      <4> QED
        BY <2>1, <3>4, <4>1, ZeroSum
    <3> QED
      BY <1>2, <3>1, <3>2, <3>3, <3>4 DEF Near
  <2>3. Zero(y - z) \/ Zero(y + z)
    <3>1. y - z \in Int /\ y + z \in Int
      BY <2>1
    <3> QED
      BY <1>1, <2>1, <2>2, <3>1, NoDivisors
  <2>4. ~Zero(y + z)
    <3>1. y + z \in 1 .. P - 1
      OBVIOUS
    <3> QED
      BY <3>1, ZeroSmall
  <2>5. y \in F /\ z \in F
    BY <1>1, Prime
  <2> QED
    BY <2>1, <2>3, <2>4, <2>5, ZeroSmall DEF Same
<1>3. ASSUME NEW x \in H PROVE \E y \in H : Near(x, y)
  <2>1. PICK w \in F : Same(w * x, 1)
    BY <1>1, Invertible
  <2>2. w \in 0 .. P - 1 /\ w \in Int /\ x \in Int /\ w * x \in Int /\ Zero(w * x - 1)
    BY <1>1, <2>1, Prime DEF Same
  <2>3. w # 0
    <3>1. w = 0 => w * x - 1 = -1
      BY <2>2
    <3>2. 1 \in 1 .. P - 1
      BY Prime
    <3> QED
      BY <2>2, <3>1, <3>2, ZeroSmall
  <2>4. w # 1 /\ w # P - 1
    <3>1. w = 1 => w * x - 1 = x - 1
      BY <2>2
    <3>2. w = P - 1 => P * x - (w * x - 1) = x + 1
      BY <2>2
    <3>3. Zero(P * x) /\ P * x \in Int
      BY <2>2, ZeroIs, Prime
    <3>4. Zero(P * x - (w * x - 1))
      BY <2>2, <3>3, ZeroSum
    <3> QED
      BY <1>1, <2>2, <3>1, <3>2, <3>4
  <2>5. CASE w <= 4 * j + 2
    <3>1. w \in H /\ x * w = w * x
      BY <2>2, <2>3, <2>4, <2>5
    <3> QED
      BY <2>2, <3>1 DEF Near
  <2>6. CASE w > 4 * j + 2
    <3>1. P - w \in H /\ P * x - (w * x - 1) = x * (P - w) + 1
      BY <2>2, <2>3, <2>4, <2>6
    <3>3. Zero(P * x) /\ P * x \in Int
      BY <2>2, ZeroIs, Prime
    <3>4. Zero(P * x - (w * x - 1))
      BY <2>2, <3>3, ZeroSum
    <3> QED
      BY <3>1, <3>4 DEF Near
  <2> QED
    BY <2>2, <2>5, <2>6
<1>4. ASSUME NEW x \in H, NEW y \in H, Near(x, y) PROVE Near(y, x)
  <2>1. x * y = y * x
    BY <1>1
  <2> QED
    BY <1>4, <2>1 DEF Near
<1>5. ASSUME NEW x \in H, Near(x, x) PROVE Zero(x * x + 1)
  <2> SUFFICES ASSUME Zero(x * x - 1) PROVE FALSE
    BY <1>5 DEF Near
  <2>1. x \in Int /\ x - 1 \in Int /\ x + 1 \in Int /\ x * x - 1 = (x - 1) * (x + 1)
    BY <1>1
  <2> QED
    BY <1>1, <2>1, NoDivisors
<1> QED
  BY <1>2, <1>3, <1>4, <1>5

LEMMA MinusOneIsSquare == \E t \in Int : Zero(t * t + 1)
<1> SUFFICES ASSUME \A t \in Int : ~Zero(t * t + 1) PROVE FALSE
  OBVIOUS
<1>1. PICK j \in Nat : P = 8 * j + 5
  <2>1. P \div 8 \in Int /\ P = 8 * (P \div 8) + (P % 8)
    BY Prime, DivMod
  <2>2. P \div 8 \in Nat /\ P = 8 * (P \div 8) + 5
    BY <2>1, Prime
  <2> QED
    BY <2>2
<1> DEFINE H == 2 .. 4 * j + 2
<1>2. IsFiniteSet(H) /\ Cardinality(H) = 4 * j + 1
  BY FS_Interval
<1> DEFINE f == [x \in H |-> CHOOSE y \in H : Near(x, y)]
           g == [x \in H |-> [k \in 0 .. 2 |-> IF k = 1 THEN f[x] ELSE x]]
<1>3. \A x \in H : x \in Int
  OBVIOUS
<1> HIDE DEF H
<1>4. \A x \in H : f[x] \in H /\ Near(x, f[x])
  BY <1>1, NearFacts DEF H
<1>5. \A x \in H : g[x][0] = x /\ g[x][1] = f[x] /\ g[x][2] = x
  OBVIOUS
<1> HIDE DEF f, g
<1>6. \A x \in H : f[x] # x
  BY <1>1, <1>3, <1>4, NearFacts DEF H
<1>7. \A x \in H : f[f[x]] = x
  BY <1>1, <1>4, NearFacts DEF H
<1>8. Cycles(H, f, 2, g)
  <2>1. \A k \in 0 .. 2 : k = 0 \/ k = 1 \/ k = 2
    OBVIOUS
  <2>2. \A k \in 1 .. 2 - 1 : k = 1
    OBVIOUS
  <2>3. \A k \in 0 .. 2 - 1 : (k = 0 /\ k + 1 = 1) \/ (k = 1 /\ k + 1 = 2)
    OBVIOUS
  <2>4. \A x \in H : \A k \in 0 .. 2 : g[x][k] \in H
    <3> SUFFICES ASSUME NEW x \in H, NEW k \in 0 .. 2 PROVE g[x][k] \in H
      OBVIOUS
    <3> QED
      BY <1>4, <1>5, <2>1
  <2>5. \A x \in H : \A k \in 1 .. 2 - 1 : g[x][k] # x
    BY <1>5, <1>6, <2>2, Zenon
  <2>6. \A x \in H : \A k \in 0 .. 2 - 1 : g[x][k + 1] = f[g[x][k]]
    <3> SUFFICES ASSUME NEW x \in H, NEW k \in 0 .. 2 - 1 PROVE g[x][k + 1] = f[g[x][k]]
      OBVIOUS
    <3>1. f[x] \in H /\ f[f[x]] = x
      BY <1>4, <1>7
    <3> QED
      BY <1>5, <2>3, <3>1
  <2>7. \A x, y \in H : f[x] = f[y] => x = y
    BY <1>7, Zenon
  <2>8. 2 \in Nat \ {0}
    OBVIOUS
  <2> QED
    BY <1>4, <1>5, <2>4, <2>5, <2>6, <2>7, <2>8, Zenon DEF Cycles
<1>9. PICK m \in Nat : Cardinality(H) = 2 * m
  BY <1>2, <1>8, CyclesDivide
<1> QED
  BY <1>2, <1>9

\* D is not a square, so D u^2 = v^2 has no solution but 0.
LEMMA NotSquare ==
  ASSUME NEW u \in Int, NEW v \in Int, Zero(D * (u * u) - v * v)
  PROVE  Zero(u)
<1> SUFFICES ASSUME ~Zero(u) PROVE FALSE
  OBVIOUS
<1>1. PICK w \in F : Same(w * u, 1)
  BY Invertible
<1>2. w \in Int /\ D \in Int /\ D \in F
  BY <1>1, Prime
<1> DEFINE z == (v * w) % P
           t == v * w
<1>3. z \in F /\ Same(z, t) /\ t \in Int
  BY <1>2, Reduced
<1> HIDE DEF z, t
<1>4. z \in Int /\ z * z \in Int
  BY <1>3, Prime
<1> DEFINE g == z - t
           o == w * u - 1
           n == D * (u * u) - v * v
<1>5. Zero(g) /\ Zero(o) /\ Zero(n) /\ g \in Int /\ o \in Int /\ n \in Int
  BY <1>1, <1>2, <1>3, <1>4 DEF Same
<1>6. z * z - D = (z + t) * g + (D * (w * u + 1)) * o - (w * w) * n
  BY <1>2, <1>3, <1>4 DEF t
<1>7. (z + t) \in Int /\ (D * (w * u + 1)) \in Int /\ (w * w) \in Int
  BY <1>2, <1>3, <1>4
<1> HIDE DEF g, o, n
<1>8. Zero((z + t) * g) /\ Zero((D * (w * u + 1)) * o) /\ Zero((w * w) * n)
  BY <1>5, <1>7, ZeroTimes
<1>9. (z + t) * g \in Int /\ (D * (w * u + 1)) * o \in Int /\ (w * w) * n \in Int
  BY <1>5, <1>7
<1>10. Zero((z + t) * g + (D * (w * u + 1)) * o)
  BY <1>8, <1>9, ZeroSum
<1>11. Zero((z + t) * g + (D * (w * u + 1)) * o - (w * w) * n)
  BY <1>8, <1>9, <1>10, ZeroSum
<1>12. Same(z * z, D)
  BY <1>2, <1>4, <1>6, <1>11 DEF Same
<1>13. (z * z) % P \in F /\ Same((z * z) % P, z * z)
  BY <1>4, Reduced
<1>14. (z * z) % P = D
  BY <1>2, <1>4, <1>12, <1>13, SameFacts, ZeroSmall, Prime
<1> QED
  BY <1>3, <1>14, FieldAssumption

\* Sums of multiples of multiples of P.
LEMMA Combined ==
  ASSUME NEW c1 \in Int, NEW z1 \in Int, Zero(z1), NEW c2 \in Int, NEW z2 \in Int, Zero(z2)
  PROVE  /\ Zero(c1 * z1) /\ Zero(c1 * z1 + c2 * z2) /\ Zero(c1 * z1 - c2 * z2)
         /\ c1 * z1 + c2 * z2 \in Int /\ c1 * z1 - c2 * z2 \in Int
<1>1. c1 * z1 \in Int /\ c2 * z2 \in Int /\ Zero(c1 * z1) /\ Zero(c2 * z2)
  BY ZeroTimes
<1> QED
  BY <1>1, ZeroSum

\* The equation of the curve, for any numbers that stand for x and y.
Cross(x, y)  == x * y
SumSq(x, y)  == y * y + x * x
DifSq(x, y)  == y * y - x * x
Beside(x, y) == DifSq(x, y) - 1 - D * (Cross(x, y) * Cross(x, y))
On(x, y)     == x \in Int /\ y \in Int /\ Zero(Beside(x, y))

Kay(x1, y1, x2, y2) == D * (Cross(x1, y1) * Cross(x2, y2))

LEMMA Integers1 ==
  ASSUME NEW x \in Int, NEW y \in Int
  PROVE  /\ Cross(x, y) \in Int /\ SumSq(x, y) \in Int /\ DifSq(x, y) \in Int
         /\ Beside(x, y) \in Int /\ D \in Int
<1>1. D \in Int
  BY Prime
<1> QED
  BY <1>1 DEF Cross, SumSq, DifSq, Beside

LEMMA WouldBeSquare ==
  ASSUME NEW x1, NEW y1, NEW x2, NEW y2, On(x1, y1), On(x2, y2),
         NEW t \in Int, Zero(t * t + 1), NEW o \in {1, -1}, Zero(Kay(x1, y1, x2, y2) - o)
  PROVE  Zero(y2 + t * x2)
<1> DEFINE c1 == x1 * y1
           k == Kay(x1, y1, x2, y2)
           g == k - o
           n == t * t + 1
           b1 == Beside(x1, y1)
           b2 == Beside(x2, y2)
           u == c1 * (y2 + t * x2)
           v == y1 + t * (o * x1)
<1>1. x1 \in Int /\ y1 \in Int /\ x2 \in Int /\ y2 \in Int /\ D \in Int /\ o \in Int
  BY Prime DEF On
<1>2. c1 \in Int /\ k \in Int /\ g \in Int /\ n \in Int /\ u \in Int /\ v \in Int
  BY <1>1 DEF Kay, Cross
<1>3. b1 \in Int /\ b2 \in Int
  BY <1>1, Integers1
<1>4. Zero(g) /\ Zero(n) /\ Zero(b1) /\ Zero(b2)
  BY DEF On
<1>5. D * (u * u) - v * v
        = (((D * (c1 * c1)) * b2 - 1 * b1)
           + ((D * (c1 * c1)) * (x2 * x2) - x1 * x1) * n) + (2 * (t * c1) + (k + o)) * g
  <2>1. CASE o = 1
    BY <1>1, <2>1 DEF Kay, Beside, Cross, DifSq
  <2>2. CASE o = -1
    BY <1>1, <2>2 DEF Kay, Beside, Cross, DifSq
  <2> QED
    BY <2>1, <2>2
<1>6. /\ D * (c1 * c1) \in Int /\ (D * (c1 * c1)) * (x2 * x2) - x1 * x1 \in Int
      /\ 2 * (t * c1) + (k + o) \in Int
  BY <1>1, <1>2
<1> HIDE DEF c1, k, g, n, b1, b2, u, v
<1>12. 1 \in Int
  OBVIOUS
<1>7. Zero((D * (c1 * c1)) * b2 - 1 * b1) /\ (D * (c1 * c1)) * b2 - 1 * b1 \in Int
  BY <1>3, <1>4, <1>6, <1>12, Combined, Zenon
<1>8. Zero(((D * (c1 * c1)) * (x2 * x2) - x1 * x1) * n) /\ Zero((2 * (t * c1) + (k + o)) * g)
  BY <1>2, <1>4, <1>6, ZeroTimes
<1>9. Zero(D * (u * u) - v * v)
  BY <1>1, <1>2, <1>5, <1>6, <1>7, <1>8, ZeroSum
<1>10. Zero(u)
  BY <1>2, <1>9, NotSquare
<1>11. ~Zero(c1)
  <2> SUFFICES ASSUME Zero(c1) PROVE FALSE
    OBVIOUS
  <2>1. k = (D * (x2 * y2)) * c1 /\ D * (x2 * y2) \in Int
    BY <1>1, <1>2 DEF k, c1, Kay, Cross
  <2>2. Zero(k)
    BY <1>2, <2>1, ZeroTimes
  <2>3. Zero(k - g) /\ k - g = o
    BY <1>1, <1>2, <1>4, <2>2, ZeroSum DEF g
  <2>4. 1 \in 1 .. P - 1
    BY Prime
  <2> QED
    BY <2>3, <2>4, ZeroSmall
<1> QED
  BY <1>1, <1>2, <1>10, <1>11, NoDivisors DEF u

\* The addition has no exceptions.
LEMMA Complete ==
  ASSUME NEW x1, NEW y1, NEW x2, NEW y2, On(x1, y1), On(x2, y2)
  PROVE  ~Zero(1 + Kay(x1, y1, x2, y2)) /\ ~Zero(1 - Kay(x1, y1, x2, y2))
<1> DEFINE k == Kay(x1, y1, x2, y2)
<1>1. x1 \in Int /\ y1 \in Int /\ x2 \in Int /\ y2 \in Int /\ D \in Int /\ k \in Int
  BY Prime DEF On, Kay, Cross
<1>2. PICK t \in Int : Zero(t * t + 1)
  BY MinusOneIsSquare
<1>3. ASSUME NEW o \in {1, -1}, Zero(k - o) PROVE FALSE
  <2>1. -t \in Int /\ (-t) * (-t) + 1 = t * t + 1 /\ o \in Int
    BY <1>2
  <2>2. Zero(y2 + t * x2) /\ Zero(y2 + (-t) * x2)
    BY <1>2, <1>3, <2>1, WouldBeSquare
  <2>3. Zero(2 * y2) /\ 2 * y2 \in Int
    <3>1. Zero((y2 + t * x2) + (y2 + (-t) * x2))
      BY <1>1, <1>2, <2>2, ZeroSum
    <3>2. (y2 + t * x2) + (y2 + (-t) * x2) = 2 * y2
      BY <1>1, <1>2
    <3> QED
      BY <1>1, <3>1, <3>2
  <2>4. 2 \in 1 .. P - 1 /\ 1 \in 1 .. P - 1
    BY Prime
  <2>5. Zero(y2)
    BY <1>1, <2>3, <2>4, NoDivisors, ZeroSmall
  <2>6. k = (D * ((x1 * y1) * x2)) * y2 /\ D * ((x1 * y1) * x2) \in Int
    BY <1>1 DEF Kay, Cross
  <2>7. Zero(k)
    BY <1>1, <2>5, <2>6, ZeroTimes
  <2>9. k - o \in Int /\ k - (k - o) = o
    BY <1>1, <2>1
  <2>8. Zero(k - (k - o)) /\ k - (k - o) = o
    BY <1>1, <1>3, <2>7, <2>9, ZeroSum
  <2> QED
    BY <2>4, <2>8, ZeroSmall
<1> HIDE DEF k
<1>4. Zero(1 - k) => Zero(0 - (1 - k)) /\ 0 - (1 - k) = k - 1
  BY <1>1, ZeroSum, ZeroSmall
<1>5. 1 + k = k - (-1)
  BY <1>1
<1>6. ~Zero(k - 1) /\ ~Zero(k - (-1))
  BY <1>3 DEF k
<1> QED
  BY <1>4, <1>5, <1>6 DEF k

LEMMA SameOperations ==
  \A x, y, z, w : Same(x, y) /\ Same(z, w) =>
    Same(x + z, y + w) /\ Same(x - z, y - w) /\ Same(x * z, y * w)
<1> SUFFICES ASSUME NEW x, NEW y, NEW z, NEW w, Same(x, y), Same(z, w)
             PROVE  Same(x + z, y + w) /\ Same(x - z, y - w) /\ Same(x * z, y * w)
  OBVIOUS
<1> DEFINE g == x - y
           k == z - w
<1>1. x \in Int /\ y \in Int /\ z \in Int /\ w \in Int /\ g \in Int /\ k \in Int
      /\ Zero(g) /\ Zero(k)
  BY DEF Same
<1>2. /\ (x + z) - (y + w) = g + k /\ (x - z) - (y - w) = g - k
      /\ x * z - y * w = z * g + y * k
  BY <1>1
<1> HIDE DEF g, k
<1>3. Zero(g + k) /\ Zero(g - k) /\ Zero(z * g + y * k)
  BY <1>1, ZeroSum, Combined
<1>4. x + z \in Int /\ y + w \in Int /\ x - z \in Int /\ y - w \in Int /\ x * z \in Int /\ y * w \in Int
  BY <1>1
<1> QED
  BY <1>2, <1>3, <1>4 DEF Same

\* The sum of two points, as the law of the group defines it, without divisions.
SumX(x1, y1, x2, y2) == x1 * y2 + x2 * y1
SumY(x1, y1, x2, y2) == y1 * y2 + x1 * x2

IsSum(x1, y1, x2, y2, x, y) ==
  /\ Same(x * (1 + Kay(x1, y1, x2, y2)), SumX(x1, y1, x2, y2))
  /\ Same(y * (1 - Kay(x1, y1, x2, y2)), SumY(x1, y1, x2, y2))

\* Mostly computation: what is left of the equation for the sum, times the squares of the
\* denominators, is a combination of the equations for the points.
OfSum(k, s, c) == (c * c) * ((1 + k) * (1 + k)) - (s * s) * ((1 - k) * (1 - k))
                    - ((1 + k) * (1 + k)) * ((1 - k) * (1 - k)) - D * ((s * c) * (s * c))

LEMMA SumReduces ==
  ASSUME NEW x1 \in Int, NEW y1 \in Int, NEW x2 \in Int, NEW y2 \in Int
  PROVE  LET A1 == D * (Cross(x1, y1) * Cross(x1, y1))
             A2 == D * (Cross(x2, y2) * Cross(x2, y2))
             d1 == DifSq(x1, y1)
             d2 == DifSq(x2, y2)
         IN OfSum(Kay(x1, y1, x2, y2), SumX(x1, y1, x2, y2), SumY(x1, y1, x2, y2))
              = (d2 * (1 + A1 * A2) - A2 * (1 + A1 + d1)) * Beside(x1, y1)
                  + ((1 + A1) * (1 + A1 * A2) - A1 * (1 + A2 + d2)) * Beside(x2, y2)
<1> DEFINE a1 == Cross(x1, y1)
           a2 == Cross(x2, y2)
           s1 == SumSq(x1, y1)
           s2 == SumSq(x2, y2)
           d1 == DifSq(x1, y1)
           d2 == DifSq(x2, y2)
           s == SumX(x1, y1, x2, y2)
           c == SumY(x1, y1, x2, y2)
           k == Kay(x1, y1, x2, y2)
           A1 == D * (a1 * a1)
           A2 == D * (a2 * a2)
<1>1. /\ a1 \in Int /\ a2 \in Int /\ s1 \in Int /\ s2 \in Int /\ d1 \in Int /\ d2 \in Int
      /\ s \in Int /\ c \in Int /\ D \in Int
  <2>1. a1 \in Int /\ a2 \in Int /\ s1 \in Int /\ s2 \in Int /\ d1 \in Int /\ d2 \in Int /\ D \in Int
    BY Integers1
  <2>2. s \in Int /\ c \in Int
    BY DEF SumX, SumY
  <2> QED
    BY <2>1, <2>2
<1>2. s * c = a1 * s2 + a2 * s1
  BY DEF SumX, SumY, Cross, SumSq
<1>3. c * c - s * s = d1 * d2
  BY DEF SumX, SumY, DifSq
<1>4. c * c + s * s = s1 * s2 + 4 * (a1 * a2)
  BY DEF SumX, SumY, Cross, SumSq
<1>5. s1 * s1 = d1 * d1 + 4 * (a1 * a1) /\ s2 * s2 = d2 * d2 + 4 * (a2 * a2)
  BY DEF Cross, SumSq, DifSq
<1>6. k = D * (a1 * a2)
  BY DEF Kay
<1>7. Beside(x1, y1) = d1 - 1 - A1 /\ Beside(x2, y2) = d2 - 1 - A2
  BY DEF Beside
<1> HIDE DEF a1, a2, s1, s2, d1, d2, s, c
<1>8. k \in Int /\ A1 \in Int /\ A2 \in Int /\ k * k = A1 * A2
  BY <1>1, <1>6
<1>9. D * ((s * c) * (s * c)) = (A1 * (s2 * s2) + A2 * (s1 * s1)) + 2 * (k * (s1 * s2))
  <2>1. D * ((a1 * s2 + a2 * s1) * (a1 * s2 + a2 * s1))
          = (A1 * (s2 * s2) + A2 * (s1 * s1)) + 2 * ((D * (a1 * a2)) * (s1 * s2))
    BY <1>1
  <2> QED
    BY <1>2, <1>6, <2>1, Zenon
<1>10. A1 * (a2 * a2) = k * (a1 * a2) /\ A2 * (a1 * a1) = k * (a1 * a2)
  BY <1>1, <1>6
<1> HIDE DEF k, A1, A2
<1>11. OfSum(k, s, c) = ((c * c - s * s) * (1 + k * k) + (2 * k) * (c * c + s * s)
                          - (1 - k * k) * (1 - k * k)) - D * ((s * c) * (s * c))
  BY <1>1, <1>8 DEF OfSum
<1>12. (c * c - s * s) * (1 + k * k) = (d1 * d2) * (1 + A1 * A2)
  BY <1>3, <1>8
<1>13. (2 * k) * (c * c + s * s) = 2 * (k * (s1 * s2)) + 8 * (k * (a1 * a2))
  BY <1>1, <1>4, <1>8
<1>14. (1 - k * k) * (1 - k * k) = (1 - A1 * A2) * (1 - A1 * A2)
  BY <1>8
<1>15. /\ A1 * (s2 * s2) = A1 * (d2 * d2) + 4 * (k * (a1 * a2))
       /\ A2 * (s1 * s1) = A2 * (d1 * d1) + 4 * (k * (a1 * a2))
  <2>1. /\ A1 * (d2 * d2 + 4 * (a2 * a2)) = A1 * (d2 * d2) + 4 * (A1 * (a2 * a2))
        /\ A2 * (d1 * d1 + 4 * (a1 * a1)) = A2 * (d1 * d1) + 4 * (A2 * (a1 * a1))
    BY <1>1, <1>8
  <2> QED
    BY <1>5, <1>10, <2>1, Zenon
<1> DEFINE q == k * (a1 * a2)
           w == k * (s1 * s2)
<1>16. q \in Int /\ w \in Int
  BY <1>1, <1>8
<1>17. OfSum(k, s, c) = ((d1 * d2) * (1 + A1 * A2) + (2 * w + 8 * q)
                          - (1 - A1 * A2) * (1 - A1 * A2))
                          - (((A1 * (d2 * d2) + 4 * q) + (A2 * (d1 * d1) + 4 * q)) + 2 * w)
  BY <1>9, <1>11, <1>12, <1>13, <1>14, <1>15, Zenon
<1> HIDE DEF q, w
<1>18. OfSum(k, s, c) = (d2 * (1 + A1 * A2) - A2 * (1 + A1 + d1)) * (d1 - 1 - A1)
                          + ((1 + A1) * (1 + A1 * A2) - A1 * (1 + A2 + d2)) * (d2 - 1 - A2)
  BY <1>1, <1>8, <1>16, <1>17
<1> QED
  BY <1>7, <1>18 DEF k, s, c, A1, A2, d1, d2, a1, a2

LEMMA SameSum ==
  ASSUME NEW k \in Int, NEW s, NEW c, NEW t, NEW w, Same(s, t), Same(c, w)
  PROVE  Same(OfSum(k, s, c), OfSum(k, t, w))
<1> DEFINE m == (1 + k) * (1 + k)
           n == (1 - k) * (1 - k)
<1>1. m \in Int /\ n \in Int /\ m * n \in Int /\ D \in Int
  BY Prime
<1> HIDE DEF m, n
<1>2. Same(m, m) /\ Same(n, n) /\ Same(m * n, m * n) /\ Same(D, D)
  BY <1>1, SameFacts
<1>3. Same((c * c) * m, (w * w) * m) /\ Same((s * s) * n, (t * t) * n)
  BY <1>2, SameOperations
<1>4. Same((s * c) * (s * c), (t * w) * (t * w))
  BY SameOperations
<1>5. Same(D * ((s * c) * (s * c)), D * ((t * w) * (t * w)))
  BY <1>2, <1>4, SameOperations
<1>6. Same((c * c) * m - (s * s) * n, (w * w) * m - (t * t) * n)
  BY <1>3, SameOperations
<1>7. Same(((c * c) * m - (s * s) * n) - m * n, ((w * w) * m - (t * t) * n) - m * n)
  BY <1>2, <1>6, SameOperations
<1>8. Same((((c * c) * m - (s * s) * n) - m * n) - D * ((s * c) * (s * c)),
           (((w * w) * m - (t * t) * n) - m * n) - D * ((t * w) * (t * w)))
  BY <1>5, <1>7, SameOperations
<1> QED
  BY <1>8, Zenon DEF OfSum, m, n

\* The sum of two points is a point.
LEMMA Closed ==
  ASSUME NEW x1, NEW y1, NEW x2, NEW y2, On(x1, y1), On(x2, y2),
         NEW x \in Int, NEW y \in Int, IsSum(x1, y1, x2, y2, x, y)
  PROVE  On(x, y)
<1> DEFINE k == Kay(x1, y1, x2, y2)
           s == SumX(x1, y1, x2, y2)
           c == SumY(x1, y1, x2, y2)
           z == OfSum(k, s, c)
           A1 == D * (Cross(x1, y1) * Cross(x1, y1))
           A2 == D * (Cross(x2, y2) * Cross(x2, y2))
           d1 == DifSq(x1, y1)
           d2 == DifSq(x2, y2)
           f1 == d2 * (1 + A1 * A2) - A2 * (1 + A1 + d1)
           f2 == (1 + A1) * (1 + A1 * A2) - A1 * (1 + A2 + d2)
           b1 == Beside(x1, y1)
           b2 == Beside(x2, y2)
           m == (1 + k) * (1 + k)
           n == (1 - k) * (1 - k)
<1>1. x1 \in Int /\ y1 \in Int /\ x2 \in Int /\ y2 \in Int /\ D \in Int
  BY Prime DEF On
<1>2. k \in Int
  BY <1>1 DEF Kay, Cross
<1>3. z = f1 * b1 + f2 * b2
  BY <1>1, SumReduces
<1>4. f1 \in Int /\ f2 \in Int
  BY <1>1 DEF Cross, DifSq
<1>5. b1 \in Int /\ b2 \in Int /\ Zero(b1) /\ Zero(b2)
  BY <1>1, Integers1 DEF On
<1>6. Zero(z)
  <2> HIDE DEF f1, f2, b1, b2, z
  <2>1. Zero(f1 * b1 + f2 * b2)
    BY <1>4, <1>5, Combined
  <2> QED
    BY <1>3, <2>1
<1>7. OfSum(k, x * (1 + k), y * (1 - k)) = Beside(x, y) * (m * n)
  BY <1>1, <1>2 DEF OfSum, Beside, Cross, DifSq
<1>8. ~Zero(1 + k) /\ ~Zero(1 - k)
  BY Complete
<1>9. Same(x * (1 + k), s) /\ Same(y * (1 - k), c)
  BY DEF IsSum
<1> HIDE DEF k, s, c
<1>10. Same(OfSum(k, x * (1 + k), y * (1 - k)), z)
  BY <1>2, <1>9, SameSum
<1>11. Beside(x, y) \in Int /\ 1 + k \in Int /\ 1 - k \in Int /\ m \in Int /\ n \in Int /\ m * n \in Int
  BY <1>2, Integers1
<1>12. Zero(Beside(x, y) * (m * n))
  BY <1>6, <1>7, <1>10, SameFacts DEF Same
<1>13. ~Zero(m) /\ ~Zero(n)
  BY <1>8, <1>11, NoDivisors
<1> HIDE DEF m, n
<1>14. Zero(Beside(x, y))
  BY <1>11, <1>12, <1>13, NoDivisors
<1> QED
  BY <1>14 DEF On

(***************************************************************************)
(* The addition is associative.  Without divisions, a coordinate of the    *)
(* sum of three points is a numerator over a denominator (TripleOver, for  *)
(* the first two points added first); o is 1 for x and -1 for y.           *)
(***************************************************************************)
Mid(o, k, c, m)  == (1 - k * k) + o * ((D * c) * m)
Split(o, g, k, t) == g - o * (k * t)

\* With A for D a^2, what is left of the difference of the two ways to add.
Part(o, a1, s2, a2, s3, a3, A1, A2, A3) ==
  a1 * (1 - A2 * A3) + o * (A1 * (a3 * s2 + a2 * s3))
Rest(o, g, t, w, a1, s1, a2, s2, a3, s3, A1, A2, A3) ==
  (g * (a2 * (A1 - A3) + o * (a1 * s3 - a3 * s1))
     - o * (t * Part(o, a1, s2, a2, s3, a3, A1, A2, A3)))
     + o * (w * Part(o, a3, s2, a2, s1, a1, A3, A2, A1))

Exchanged(o, g, t, w, a1, s1, a2, s2, a3, s3, k, l) ==
  Split(o, g, k, t) * Mid(o, l, a1, a3 * s2 + a2 * s3)
    - Split(o, g, l, w) * Mid(o, k, a3, a1 * s2 + a2 * s1)
    = (D * a2) * Rest(o, g, t, w, a1, s1, a2, s2, a3, s3,
                      D * (a1 * a1), D * (a2 * a2), D * (a3 * a3))

LEMMA Exchange ==
  ASSUME NEW o \in {1, -1}, NEW g \in Int, NEW t \in Int, NEW w \in Int,
         NEW a1 \in Int, NEW a2 \in Int, NEW a3 \in Int,
         NEW s1 \in Int, NEW s2 \in Int, NEW s3 \in Int,
         NEW k, k = D * (a1 * a2), NEW l, l = D * (a3 * a2)
  PROVE  Exchanged(o, g, t, w, a1, s1, a2, s2, a3, s3, k, l)
<1>1. D \in Int
  BY Prime
<1>2. CASE o = 1
  BY <1>1, <1>2, SMTT(60) DEF Exchanged, Split, Mid, Rest, Part
<1>3. CASE o = -1
  BY <1>1, <1>3, SMTT(60) DEF Exchanged, Split, Mid, Rest, Part
<1> QED
  BY <1>2, <1>3

\* And nothing is left.
RestX(x1, y1, x2, y2, x3, y3) ==
  Rest(1, SumX(x1, y1, x2, y2) * y3 + x3 * SumY(x1, y1, x2, y2),
       SumX(x1, y1, x2, y2) * y3 - x3 * SumY(x1, y1, x2, y2),
       SumX(x3, y3, x2, y2) * y1 - x1 * SumY(x3, y3, x2, y2),
       Cross(x1, y1), SumSq(x1, y1), Cross(x2, y2), SumSq(x2, y2), Cross(x3, y3), SumSq(x3, y3),
       DifSq(x1, y1) - 1, DifSq(x2, y2) - 1, DifSq(x3, y3) - 1)

RestY(x1, y1, x2, y2, x3, y3) ==
  Rest(-1, SumY(x1, y1, x2, y2) * y3 + x3 * SumX(x1, y1, x2, y2),
       SumY(x1, y1, x2, y2) * y3 - x3 * SumX(x1, y1, x2, y2),
       SumY(x3, y3, x2, y2) * y1 - x1 * SumX(x3, y3, x2, y2),
       Cross(x1, y1), SumSq(x1, y1), Cross(x2, y2), SumSq(x2, y2), Cross(x3, y3), SumSq(x3, y3),
       DifSq(x1, y1) - 1, DifSq(x2, y2) - 1, DifSq(x3, y3) - 1)

LEMMA NoRest ==
  ASSUME NEW x1 \in Int, NEW y1 \in Int, NEW x2 \in Int, NEW y2 \in Int, NEW x3 \in Int, NEW y3 \in Int
  PROVE  RestX(x1, y1, x2, y2, x3, y3) = 0 /\ RestY(x1, y1, x2, y2, x3, y3) = 0
<1>1. RestX(x1, y1, x2, y2, x3, y3) = 0
  BY SMTT(60) DEF RestX, Rest, Part, SumX, SumY, Cross, SumSq, DifSq
<1>2. RestY(x1, y1, x2, y2, x3, y3) = 0
  BY SMTT(60) DEF RestY, Rest, Part, SumX, SumY, Cross, SumSq, DifSq
<1> QED
  BY <1>1, <1>2

LEMMA TripleOver ==
  ASSUME NEW x1, NEW y1, NEW x2, NEW y2, NEW x3, NEW y3, On(x1, y1), On(x2, y2), On(x3, y3),
         NEW x4 \in Int, NEW y4 \in Int, IsSum(x1, y1, x2, y2, x4, y4),
         NEW x \in Int, NEW y \in Int, IsSum(x4, y4, x3, y3, x, y)
  PROVE  LET k == Kay(x1, y1, x2, y2)
             s == SumX(x1, y1, x2, y2)
             c == SumY(x1, y1, x2, y2)
         IN /\ ~Zero(Mid(1, k, Cross(x3, y3), s * c))
            /\ ~Zero(Mid(-1, k, Cross(x3, y3), s * c))
            /\ Same(x * Mid(1, k, Cross(x3, y3), s * c),
                    Split(1, s * y3 + x3 * c, k, s * y3 - x3 * c))
            /\ Same(y * Mid(-1, k, Cross(x3, y3), s * c),
                    Split(-1, c * y3 + x3 * s, k, c * y3 - x3 * s))
<1> DEFINE k == Kay(x1, y1, x2, y2)
           s == SumX(x1, y1, x2, y2)
           c == SumY(x1, y1, x2, y2)
           l == Kay(x4, y4, x3, y3)
           z == Cross(x3, y3)
           u == 1 - k * k
           sk == x4 * (1 + k)
           ck == y4 * (1 - k)
<1>1. /\ x1 \in Int /\ y1 \in Int /\ x2 \in Int /\ y2 \in Int /\ x3 \in Int /\ y3 \in Int
      /\ D \in Int /\ On(x4, y4)
  BY Prime, Closed DEF On
<1>2. k \in Int /\ l \in Int /\ z \in Int /\ s \in Int /\ c \in Int
  BY <1>1 DEF Kay, Cross, SumX, SumY
<1>3. ~Zero(1 + k) /\ ~Zero(1 - k) /\ ~Zero(1 + l) /\ ~Zero(1 - l)
  BY <1>1, Complete
<1>4. Same(sk, s) /\ Same(ck, c)
  BY DEF IsSum
<1>5. /\ Same(x * (1 + l), x4 * y3 + x3 * y4)
      /\ Same(y * (1 - l), y4 * y3 + x4 * x3)
  BY DEF IsSum, SumX, SumY
<1>6. l = D * ((x4 * y4) * z)
  BY DEF Kay, Cross
<1>7. u * l = (D * z) * (sk * ck)
  BY <1>1, <1>2, <1>6
<1> HIDE DEF k, s, c, l, z
<1>8. u \in Int /\ sk \in Int /\ ck \in Int /\ u = (1 + k) * (1 - k)
  BY <1>2
<1>9. ~Zero(u)
  BY <1>2, <1>3, <1>8, NoDivisors
<1>10. Same(u * l, (D * z) * (s * c))
  <2>1. Same(sk * ck, s * c)
    BY <1>4, SameOperations
  <2>2. Same(D * z, D * z)
    BY <1>1, <1>2, D * z \in Int, SameFacts
  <2> QED
    BY <1>7, <2>1, <2>2, SameOperations, Zenon
<1> DEFINE w == (D * z) * (s * c)
<1>11. w \in Int /\ Mid(1, k, z, s * c) = u + w /\ Mid(-1, k, z, s * c) = u - w
  BY <1>1, <1>2 DEF Mid
<1>12. Same(u + u * l, u + w) /\ Same(u - u * l, u - w)
  BY <1>8, <1>10, SameFacts, SameOperations
<1>13. u + u * l = u * (1 + l) /\ u - u * l = u * (1 - l)
  BY <1>2, <1>8
<1> HIDE DEF u, w, sk, ck
<1>14. u + w \in Int /\ u - w \in Int /\ 1 + l \in Int /\ 1 - l \in Int
  BY <1>2, <1>8, <1>11
<1>15. Same(u * (1 + l), u + w) /\ Same(u * (1 - l), u - w)
  BY <1>12, <1>13
<1>16. ~Zero(u * (1 + l)) /\ ~Zero(u * (1 - l))
  BY <1>3, <1>8, <1>9, <1>14, NoDivisors
<1>17. ~Zero(u + w) /\ ~Zero(u - w)
  <2>1. u * (1 + l) \in Int /\ u * (1 - l) \in Int
    BY <1>8, <1>14
  <2> QED
    BY <1>14, <1>15, <1>16, <2>1, SameFacts
<1>18. Same(x * (u + w), (s * (1 - k)) * y3 + x3 * (c * (1 + k)))
  <2>1. Same(x, x) /\ Same(u, u) /\ Same(1 + k, 1 + k) /\ Same(1 - k, 1 - k) /\ Same(x3, x3) /\ Same(y3, y3)
    BY <1>1, <1>2, <1>8, SameFacts
  <2>2. Same(x * (u * (1 + l)), x * (u + w))
    BY <1>15, <2>1, SameOperations
  <2>3. Same(u * (x * (1 + l)), u * (x4 * y3 + x3 * y4))
    BY <1>5, <2>1, SameOperations
  <2>4. u * (x * (1 + l)) = x * (u * (1 + l))
    BY <1>2, <1>8
  <2>5. u * (x4 * y3 + x3 * y4) = (sk * (1 - k)) * y3 + x3 * (ck * (1 + k))
    BY <1>1, <1>2 DEF u, sk, ck
  <2>6. Same((sk * (1 - k)) * y3 + x3 * (ck * (1 + k)), (s * (1 - k)) * y3 + x3 * (c * (1 + k)))
    <3>1. Same((sk * (1 - k)) * y3, (s * (1 - k)) * y3) /\ Same(x3 * (ck * (1 + k)), x3 * (c * (1 + k)))
      BY <1>4, <2>1, SameOperations
    <3> QED
      BY <3>1, SameOperations
  <2>7. Same(x * (u * (1 + l)), (s * (1 - k)) * y3 + x3 * (c * (1 + k)))
    BY <2>3, <2>4, <2>5, <2>6, SameFacts DEF Same
  <2> QED
    BY <2>2, <2>7, SameFacts DEF Same
<1>19. Same(y * (u - w), (c * (1 + k)) * y3 + x3 * (s * (1 - k)))
  <2>1. Same(y, y) /\ Same(u, u) /\ Same(1 + k, 1 + k) /\ Same(1 - k, 1 - k) /\ Same(x3, x3) /\ Same(y3, y3)
    BY <1>1, <1>2, <1>8, SameFacts
  <2>2. Same(y * (u * (1 - l)), y * (u - w))
    BY <1>15, <2>1, SameOperations
  <2>3. Same(u * (y * (1 - l)), u * (y4 * y3 + x4 * x3))
    BY <1>5, <2>1, SameOperations
  <2>4. u * (y * (1 - l)) = y * (u * (1 - l))
    BY <1>2, <1>8
  <2>5. u * (y4 * y3 + x4 * x3) = (ck * (1 + k)) * y3 + x3 * (sk * (1 - k))
    BY <1>1, <1>2 DEF u, sk, ck
  <2>6. Same((ck * (1 + k)) * y3 + x3 * (sk * (1 - k)), (c * (1 + k)) * y3 + x3 * (s * (1 - k)))
    <3>1. Same((ck * (1 + k)) * y3, (c * (1 + k)) * y3) /\ Same(x3 * (sk * (1 - k)), x3 * (s * (1 - k)))
      BY <1>4, <2>1, SameOperations
    <3> QED
      BY <3>1, SameOperations
  <2>7. Same(y * (u * (1 - l)), (c * (1 + k)) * y3 + x3 * (s * (1 - k)))
    BY <2>3, <2>4, <2>5, <2>6, SameFacts DEF Same
  <2> QED
    BY <2>2, <2>7, SameFacts DEF Same
<1>20. /\ (s * (1 - k)) * y3 + x3 * (c * (1 + k)) = Split(1, s * y3 + x3 * c, k, s * y3 - x3 * c)
       /\ (c * (1 + k)) * y3 + x3 * (s * (1 - k)) = Split(-1, c * y3 + x3 * s, k, c * y3 - x3 * s)
  BY <1>1, <1>2 DEF Split
<1> QED
  BY <1>11, <1>17, <1>18, <1>19, <1>20 DEF k, s, c, z

LEMMA SamePart ==
  ASSUME NEW o \in Int, NEW a1 \in Int, NEW a2 \in Int, NEW a3 \in Int, NEW s2 \in Int, NEW s3 \in Int,
         NEW A1, NEW A2, NEW A3, NEW d1, NEW d2, NEW d3, Same(A1, d1), Same(A2, d2), Same(A3, d3)
  PROVE  Same(Part(o, a1, s2, a2, s3, a3, A1, A2, A3), Part(o, a1, s2, a2, s3, a3, d1, d2, d3))
<1> DEFINE m == a3 * s2 + a2 * s3
<1>1. m \in Int /\ 1 \in Int
  OBVIOUS
<1> HIDE DEF m
<1>2. Same(o, o) /\ Same(a1, a1) /\ Same(m, m) /\ Same(1, 1)
  BY <1>1, SameFacts
<1>3. Same(a1 * (1 - A2 * A3), a1 * (1 - d2 * d3))
  <2>1. Same(1 - A2 * A3, 1 - d2 * d3)
    BY <1>2, SameOperations
  <2> QED
    BY <1>2, <2>1, SameOperations
<1>4. Same(o * (A1 * m), o * (d1 * m))
  <2>1. Same(A1 * m, d1 * m)
    BY <1>2, SameOperations
  <2> QED
    BY <1>2, <2>1, SameOperations
<1>5. Same(a1 * (1 - A2 * A3) + o * (A1 * m), a1 * (1 - d2 * d3) + o * (d1 * m))
  BY <1>3, <1>4, SameOperations
<1> QED
  BY <1>5, Zenon DEF Part, m

LEMMA SameRest ==
  ASSUME NEW o \in Int, NEW g \in Int, NEW t \in Int, NEW w \in Int,
         NEW a1 \in Int, NEW a2 \in Int, NEW a3 \in Int,
         NEW s1 \in Int, NEW s2 \in Int, NEW s3 \in Int,
         NEW A1, NEW A2, NEW A3, NEW d1, NEW d2, NEW d3, Same(A1, d1), Same(A2, d2), Same(A3, d3)
  PROVE  Same(Rest(o, g, t, w, a1, s1, a2, s2, a3, s3, A1, A2, A3),
              Rest(o, g, t, w, a1, s1, a2, s2, a3, s3, d1, d2, d3))
<1> DEFINE m == o * (a1 * s3 - a3 * s1)
           f == Part(o, a1, s2, a2, s3, a3, A1, A2, A3)
           k == Part(o, a3, s2, a2, s1, a1, A3, A2, A1)
           u == Part(o, a1, s2, a2, s3, a3, d1, d2, d3)
           v == Part(o, a3, s2, a2, s1, a1, d3, d2, d1)
<1>1. m \in Int
  OBVIOUS
<1>2. Same(f, u) /\ Same(k, v)
  BY SamePart
<1> HIDE DEF m, f, k, u, v
<1>3. Same(o, o) /\ Same(g, g) /\ Same(t, t) /\ Same(w, w) /\ Same(a2, a2) /\ Same(m, m)
  BY <1>1, SameFacts
<1>4. Same(g * (a2 * (A1 - A3) + m), g * (a2 * (d1 - d3) + m))
  <2>1. Same(a2 * (A1 - A3), a2 * (d1 - d3))
    <3>1. Same(A1 - A3, d1 - d3)
      BY SameOperations
    <3> QED
      BY <1>3, <3>1, SameOperations
  <2>2. Same(a2 * (A1 - A3) + m, a2 * (d1 - d3) + m)
    BY <1>3, <2>1, SameOperations
  <2> QED
    BY <1>3, <2>2, SameOperations
<1>5. Same(o * (t * f), o * (t * u)) /\ Same(o * (w * k), o * (w * v))
  <2>1. Same(t * f, t * u) /\ Same(w * k, w * v)
    BY <1>2, <1>3, SameOperations
  <2> QED
    BY <1>3, <2>1, SameOperations
<1>6. Same(g * (a2 * (A1 - A3) + m) - o * (t * f), g * (a2 * (d1 - d3) + m) - o * (t * u))
  BY <1>4, <1>5, SameOperations
<1>7. Same((g * (a2 * (A1 - A3) + m) - o * (t * f)) + o * (w * k),
           (g * (a2 * (d1 - d3) + m) - o * (t * u)) + o * (w * v))
  BY <1>5, <1>6, SameOperations
<1> QED
  BY <1>7, Zenon DEF Rest, m, f, k, u, v

\* Two fractions whose products crosswise agree are the same.
LEMMA SameFraction ==
  ASSUME NEW x \in Int, NEW y \in Int, NEW m \in Int, NEW n \in Int, NEW u, NEW v,
         ~Zero(m), ~Zero(n), Same(x * m, u), Same(y * n, v), Zero(u * n - v * m)
  PROVE  Same(x, y)
<1> DEFINE f == x * m - u
           g == y * n - v
           z == u * n - v * m
<1>1. f \in Int /\ g \in Int /\ u \in Int /\ v \in Int /\ z \in Int /\ Zero(f) /\ Zero(g) /\ Zero(z)
  BY DEF Same
<1>2. (x - y) * (m * n) = (n * f - m * g) + z /\ m * n \in Int /\ x - y \in Int
  BY <1>1
<1> HIDE DEF f, g, z
<1>3. Zero(n * f - m * g) /\ n * f - m * g \in Int
  BY <1>1, Combined
<1>4. Zero((x - y) * (m * n))
  BY <1>1, <1>2, <1>3, ZeroSum
<1>5. ~Zero(m * n)
  BY NoDivisors
<1>6. Zero(x - y)
  BY <1>2, <1>4, <1>5, NoDivisors
<1> QED
  BY <1>6 DEF Same

LEMMA Associative ==
  ASSUME NEW x1, NEW y1, NEW x2, NEW y2, NEW x3, NEW y3, On(x1, y1), On(x2, y2), On(x3, y3),
         NEW x4 \in Int, NEW y4 \in Int, IsSum(x1, y1, x2, y2, x4, y4),
         NEW x5 \in Int, NEW y5 \in Int, IsSum(x2, y2, x3, y3, x5, y5),
         NEW x \in Int, NEW y \in Int, IsSum(x4, y4, x3, y3, x, y),
         NEW z \in Int, NEW w \in Int, IsSum(x1, y1, x5, y5, z, w)
  PROVE  Same(x, z) /\ Same(y, w)
<1>1. /\ x1 \in Int /\ y1 \in Int /\ x2 \in Int /\ y2 \in Int /\ x3 \in Int /\ y3 \in Int
      /\ D \in Int
  BY Prime DEF On
<1>21. RestX(x1, y1, x2, y2, x3, y3) = 0 /\ RestY(x1, y1, x2, y2, x3, y3) = 0
  BY ONLY <1>1, NoRest
<1> DEFINE a1 == Cross(x1, y1)
           a2 == Cross(x2, y2)
           a3 == Cross(x3, y3)
           s1 == SumSq(x1, y1)
           s2 == SumSq(x2, y2)
           s3 == SumSq(x3, y3)
           s == SumX(x1, y1, x2, y2)
           c == SumY(x1, y1, x2, y2)
           t == SumX(x3, y3, x2, y2)
           u == SumY(x3, y3, x2, y2)
           k == Kay(x1, y1, x2, y2)
           l == Kay(x3, y3, x2, y2)
           d1 == DifSq(x1, y1)
           d2 == DifSq(x2, y2)
           d3 == DifSq(x3, y3)
           gx == s * y3 + x3 * c
           gy == c * y3 + x3 * s
           vx == s * y3 - x3 * c
           vy == c * y3 - x3 * s
           wx == t * y1 - x1 * u
           wy == u * y1 - x1 * t
<1>2. IsSum(x3, y3, x2, y2, x5, y5) /\ IsSum(x5, y5, x1, y1, z, w)
  <2>1. \A p1, q1, p2, q2 \in Int :
          /\ SumX(p1, q1, p2, q2) = SumX(p2, q2, p1, q1) /\ SumY(p1, q1, p2, q2) = SumY(p2, q2, p1, q1)
          /\ Kay(p1, q1, p2, q2) = Kay(p2, q2, p1, q1)
    BY <1>1 DEF SumX, SumY, Kay, Cross
  <2> QED
    BY <1>1, <2>1 DEF IsSum
<1>3. /\ ~Zero(Mid(1, k, a3, s * c)) /\ ~Zero(Mid(-1, k, a3, s * c))
      /\ Same(x * Mid(1, k, a3, s * c), Split(1, gx, k, vx))
      /\ Same(y * Mid(-1, k, a3, s * c), Split(-1, gy, k, vy))
  BY TripleOver
<1>4. /\ ~Zero(Mid(1, l, a1, t * u)) /\ ~Zero(Mid(-1, l, a1, t * u))
      /\ Same(z * Mid(1, l, a1, t * u), Split(1, t * y1 + x1 * u, l, wx))
      /\ Same(w * Mid(-1, l, a1, t * u), Split(-1, u * y1 + x1 * t, l, wy))
  BY <1>2, TripleOver
<1>5. t * y1 + x1 * u = gx /\ u * y1 + x1 * t = gy
  BY <1>1 DEF SumX, SumY
<1>6. s * c = a1 * s2 + a2 * s1 /\ t * u = a3 * s2 + a2 * s3
  BY <1>1 DEF SumX, SumY, Cross, SumSq
<1>7. k = D * (a1 * a2) /\ l = D * (a3 * a2)
  BY DEF Kay
<1>8. /\ a1 \in Int /\ a2 \in Int /\ a3 \in Int /\ s1 \in Int /\ s2 \in Int /\ s3 \in Int
      /\ d1 \in Int /\ d2 \in Int /\ d3 \in Int
  BY <1>1, Integers1
<1>9. Same(D * (a1 * a1), d1 - 1) /\ Same(D * (a2 * a2), d2 - 1) /\ Same(D * (a3 * a3), d3 - 1)
  <2> SUFFICES ASSUME NEW p, NEW q, On(p, q)
               PROVE  Same(D * (Cross(p, q) * Cross(p, q)), DifSq(p, q) - 1)
    OBVIOUS
  <2>1. p \in Int /\ q \in Int /\ Beside(p, q) \in Int /\ Zero(Beside(p, q))
    BY Integers1 DEF On
  <2>2. Zero(0 - Beside(p, q)) /\ 0 \in Int
    BY <2>1, ZeroSum, ZeroSmall
  <2>3. D * (Cross(p, q) * Cross(p, q)) - (DifSq(p, q) - 1) = 0 - Beside(p, q)
    BY <1>1, <2>1 DEF Beside, Cross, DifSq
  <2>4. D * (Cross(p, q) * Cross(p, q)) \in Int /\ DifSq(p, q) - 1 \in Int
    BY <1>1, <2>1 DEF Cross, DifSq
  <2> QED
    BY <2>2, <2>3, <2>4 DEF Same
<1>10. /\ Rest(1, gx, vx, wx, a1, s1, a2, s2, a3, s3, d1 - 1, d2 - 1, d3 - 1) = 0
       /\ Rest(-1, gy, vy, wy, a1, s1, a2, s2, a3, s3, d1 - 1, d2 - 1, d3 - 1) = 0
  BY <1>21, Zenon DEF RestX, RestY
<1>11. s \in Int /\ c \in Int /\ t \in Int /\ u \in Int
  BY <1>1 DEF SumX, SumY
<1>12. gx \in Int /\ gy \in Int /\ vx \in Int /\ vy \in Int /\ wx \in Int /\ wy \in Int
  BY <1>1, <1>11
<1> DEFINE mx == Mid(1, k, a3, a1 * s2 + a2 * s1)
           my == Mid(-1, k, a3, a1 * s2 + a2 * s1)
           nx == Mid(1, l, a1, a3 * s2 + a2 * s3)
           ny == Mid(-1, l, a1, a3 * s2 + a2 * s3)
<1> HIDE DEF a1, a2, a3, s1, s2, s3, s, c, t, u, d1, d2, d3, gx, gy, vx, vy, wx, wy, k, l
<1>13. ASSUME NEW o \in {1, -1}, NEW g \in Int, NEW v \in Int, NEW m \in Int,
              Rest(o, g, v, m, a1, s1, a2, s2, a3, s3, d1 - 1, d2 - 1, d3 - 1) = 0
       PROVE  Zero(Split(o, g, k, v) * Mid(o, l, a1, a3 * s2 + a2 * s3)
                     - Split(o, g, l, m) * Mid(o, k, a3, a1 * s2 + a2 * s1))
  <2> DEFINE j == Rest(o, g, v, m, a1, s1, a2, s2, a3, s3, D * (a1 * a1), D * (a2 * a2), D * (a3 * a3))
  <2>1. Split(o, g, k, v) * Mid(o, l, a1, a3 * s2 + a2 * s3)
          - Split(o, g, l, m) * Mid(o, k, a3, a1 * s2 + a2 * s1) = (D * a2) * j
    <3>1. Exchanged(o, g, v, m, a1, s1, a2, s2, a3, s3, k, l)
      BY <1>7, <1>8, Exchange
    <3> QED
      BY <3>1, Zenon DEF Exchanged
  <2>2. o \in Int
    OBVIOUS
  <2>3. Same(j, 0)
    BY <1>8, <1>9, <1>13, <2>2, SameRest
  <2> HIDE DEF j
  <2>4. j \in Int /\ Zero(j) /\ D * a2 \in Int
    BY <1>1, <1>8, <2>3, SameFacts, ZeroSmall DEF Same
  <2> QED
    BY <2>1, <2>4, ZeroTimes
<1>14. Zero(Split(1, gx, k, vx) * nx - Split(1, gx, l, wx) * mx)
  BY <1>10, <1>12, <1>13
<1>15. Zero(Split(-1, gy, k, vy) * ny - Split(-1, gy, l, wy) * my)
  BY <1>10, <1>12, <1>13
<1>16. k \in Int /\ l \in Int
  BY <1>1, <1>7, <1>8
<1>17. mx \in Int /\ my \in Int /\ nx \in Int /\ ny \in Int
  BY <1>1, <1>8, <1>16 DEF Mid
<1>18. /\ ~Zero(mx) /\ ~Zero(my) /\ ~Zero(nx) /\ ~Zero(ny)
       /\ Same(x * mx, Split(1, gx, k, vx)) /\ Same(y * my, Split(-1, gy, k, vy))
       /\ Same(z * nx, Split(1, gx, l, wx)) /\ Same(w * ny, Split(-1, gy, l, wy))
  BY <1>3, <1>4, <1>5, <1>6, Zenon
<1> HIDE DEF mx, my, nx, ny
<1>19. Same(x, z)
  BY <1>14, <1>17, <1>18, SameFraction
<1>20. Same(y, w)
  BY <1>15, <1>17, <1>18, SameFraction
<1> QED
  BY <1>19, <1>20
-----------------------------------------------------------------------------
(***************************************************************************)
(* The elements of the field and the points, by the numbers they are.      *)
(***************************************************************************)
Is(u, x) == u \in F /\ Same(u, x)

LEMMA IsOperations ==
  /\ \A u \in F : Is(u, u) /\ u \in Int
  /\ Is(0, 0) /\ Is(1, 1) /\ Is(2, 2) /\ Is(D, D)
  /\ \A u, v, x, y : Is(u, x) /\ Is(v, y) =>
       Is(u (+) v, x + y) /\ Is(u (-) v, x - y) /\ Is(u (.) v, x * y)
<1>1. \A u \in F : Is(u, u) /\ u \in Int
  BY SameFacts, Prime DEF Is
<1>2. 0 \in F /\ 1 \in F /\ 2 \in F /\ D \in F
  BY Prime
<1>3. ASSUME NEW u, NEW v, NEW x, NEW y, Is(u, x), Is(v, y)
      PROVE  Is(u (+) v, x + y) /\ Is(u (-) v, x - y) /\ Is(u (.) v, x * y)
  <2>1. u \in F /\ v \in F /\ Same(u, x) /\ Same(v, y)
    BY <1>3 DEF Is
  <2>2. Same(u + v, x + y) /\ Same(u - v, x - y) /\ Same(u * v, x * y)
    BY <2>1, SameOperations
  <2>3. /\ u (+) v \in F /\ Same(u (+) v, u + v)
        /\ u (-) v \in F /\ Same(u (-) v, u - v)
        /\ u (.) v \in F /\ Same(u (.) v, u * v)
    BY <2>1, Operations
  <2>4. \A c, m, n : Same(c, m) /\ Same(m, n) => Same(c, n)
    BY SameFacts DEF Same
  <2> QED
    BY <2>2, <2>3, <2>4, Zenon DEF Is
<1> QED
  BY <1>1, <1>2, <1>3

LEMMA IsSame ==
  ASSUME NEW u, NEW v, NEW x, NEW y, Is(u, x), Is(v, y)
  PROVE  /\ u = v <=> Same(x, y)
         /\ u = 0 <=> Zero(x)
         /\ x \in Int /\ y \in Int /\ u \in Int
<1>1. u \in F /\ v \in F /\ Same(u, x) /\ Same(v, y) /\ x \in Int /\ y \in Int /\ u \in Int /\ v \in Int
  BY DEF Is, Same
<1>2. u = v <=> Same(u, v)
  BY <1>1, ZeroSmall
<1>3. Same(u, v) <=> Same(x, y)
  BY <1>1, SameFacts
<1>4. 0 \in F /\ 0 \in Int
  BY Prime
<1>5. u = 0 <=> Same(u, 0)
  BY <1>1, <1>4, ZeroSmall
<1>6. Same(u, 0) <=> Zero(x)
  <2>1. Zero(u) <=> Zero(x)
    BY <1>1, SameFacts
  <2>2. u - 0 = u
    BY <1>1
  <2> QED
    BY <1>1, <1>4, <2>1, <2>2 DEF Same
<1> QED
  BY <1>1, <1>2, <1>3, <1>5, <1>6

LEMMA CurveIs ==
  ASSUME NEW x \in F, NEW y \in F
  PROVE  <<x, y>> \in Curve <=> On(x, y)
<1>1. Is(x, x) /\ Is(y, y) /\ Is(1, 1) /\ Is(D, D) /\ x \in Int /\ y \in Int /\ D \in Int
  BY IsOperations, Prime
<1>2. Is(Sq(x), x * x) /\ Is(Sq(y), y * y)
  BY <1>1, IsOperations, Zenon DEF Sq
<1>3. Is(Sq(y) (-) Sq(x), y * y - x * x)
  BY <1>2, IsOperations, Zenon
<1>4. Is(Sq(x) (.) Sq(y), (x * x) * (y * y))
  BY <1>2, IsOperations, Zenon
<1>5. Is(D (.) (Sq(x) (.) Sq(y)), D * ((x * x) * (y * y)))
  BY <1>1, <1>4, IsOperations, Zenon
<1>6. Is(1 (+) (D (.) (Sq(x) (.) Sq(y))), 1 + D * ((x * x) * (y * y)))
  BY <1>1, <1>5, IsOperations, Zenon
<1>7. OnCurve(<<x, y>>) <=> Same(y * y - x * x, 1 + D * ((x * x) * (y * y)))
  BY <1>3, <1>6, IsSame DEF OnCurve
<1>8. (y * y - x * x) - (1 + D * ((x * x) * (y * y))) = Beside(x, y)
  BY <1>1 DEF Beside, Cross, DifSq
<1>9. y * y - x * x \in Int /\ 1 + D * ((x * x) * (y * y)) \in Int
  BY <1>1
<1>10. OnCurve(<<x, y>>) <=> Zero(Beside(x, y))
  BY <1>7, <1>8, <1>9 DEF Same
<1> QED
  BY <1>1, <1>10 DEF Curve, On

LEMMA PointIs ==
  /\ \A p \in Curve : /\ p[1] \in F /\ p[2] \in F /\ p = <<p[1], p[2]>> /\ On(p[1], p[2])
                      /\ p[1] \in Int /\ p[2] \in Int
  /\ Neutral \in Curve
<1>1. ASSUME NEW p \in Curve
      PROVE  /\ p[1] \in F /\ p[2] \in F /\ p = <<p[1], p[2]>> /\ On(p[1], p[2])
             /\ p[1] \in Int /\ p[2] \in Int
  <2>1. p[1] \in F /\ p[2] \in F /\ p = <<p[1], p[2]>>
    BY DEF Curve
  <2>2. On(p[1], p[2])
    BY <2>1, CurveIs
  <2> QED
    BY <2>1, <2>2, Prime
<1>2. Beside(0, 1) = 0 /\ 0 \in F /\ 1 \in F
  BY Prime DEF Beside, Cross, DifSq
<1>3. On(0, 1)
  BY <1>2, ZeroSmall DEF On
<1>4. Neutral \in Curve
  BY <1>2, <1>3, CurveIs DEF Neutral
<1> QED
  BY <1>1, <1>4

LEMMA AddIs ==
  ASSUME NEW p \in Curve, NEW q \in Curve
  PROVE  /\ AffineAdd(p, q) \in Curve
         /\ IsSum(p[1], p[2], q[1], q[2], AffineAdd(p, q)[1], AffineAdd(p, q)[2])
         /\ \A x, y \in F : IsSum(p[1], p[2], q[1], q[2], x, y) => AffineAdd(p, q) = <<x, y>>
<1> DEFINE x1 == p[1]
           y1 == p[2]
           x2 == q[1]
           y2 == q[2]
           k == Kay(x1, y1, x2, y2)
           kk == D (.) ((x1 (.) x2) (.) (y1 (.) y2))
           n == (x1 (.) y2) (+) (y1 (.) x2)
           m == (y1 (.) y2) (+) (x1 (.) x2)
           u == 1 (+) kk
           v == 1 (-) kk
<1>1. /\ x1 \in F /\ y1 \in F /\ x2 \in F /\ y2 \in F /\ On(x1, y1) /\ On(x2, y2)
      /\ x1 \in Int /\ y1 \in Int /\ x2 \in Int /\ y2 \in Int /\ D \in Int
  BY PointIs, Prime
<1>2. Is(x1, x1) /\ Is(y1, y1) /\ Is(x2, x2) /\ Is(y2, y2) /\ Is(1, 1) /\ Is(D, D)
  BY <1>1, IsOperations
<1> HIDE DEF x1, y1, x2, y2
<1>3. Is(x1 (.) x2, x1 * x2) /\ Is(y1 (.) y2, y1 * y2) /\ Is(x1 (.) y2, x1 * y2) /\ Is(y1 (.) x2, y1 * x2)
  BY <1>2, IsOperations, Zenon
<1>4. Is(kk, D * ((x1 * x2) * (y1 * y2)))
  <2>1. Is((x1 (.) x2) (.) (y1 (.) y2), (x1 * x2) * (y1 * y2))
    BY <1>3, IsOperations, Zenon
  <2> QED
    BY <1>2, <2>1, IsOperations, Zenon
<1>5. D * ((x1 * x2) * (y1 * y2)) = k /\ k \in Int
  BY <1>1 DEF Kay, Cross
<1>6. Is(kk, k)
  BY <1>4, <1>5
<1>7. x1 * y2 + y1 * x2 = SumX(x1, y1, x2, y2) /\ y1 * y2 + x1 * x2 = SumY(x1, y1, x2, y2)
  BY <1>1 DEF SumX, SumY
<1>8. Is(n, SumX(x1, y1, x2, y2)) /\ Is(m, SumY(x1, y1, x2, y2))
  <2>1. Is(n, x1 * y2 + y1 * x2) /\ Is(m, y1 * y2 + x1 * x2)
    BY <1>3, IsOperations, Zenon
  <2> QED
    BY <1>7, <2>1
<1> HIDE DEF kk, n, m, k
<1>9. Is(u, 1 + k) /\ Is(v, 1 - k)
  BY <1>2, <1>6, IsOperations, Zenon
<1>10. ~Zero(1 + k) /\ ~Zero(1 - k)
  BY <1>1, Complete DEF k
<1>11. u \in F /\ v \in F /\ n \in F /\ m \in F /\ u # 0 /\ v # 0
  BY <1>8, <1>9, <1>10, IsSame DEF Is
<1> HIDE DEF u, v
<1>12. AffineAdd(p, q) = <<Over(n, u), Over(m, v)>>
  BY Zenon DEF AffineAdd, x1, y1, x2, y2, n, m, u, v, kk
<1>13. ASSUME NEW f, NEW t, NEW g \in F, NEW c \in F, c # 0, Is(g, f), Is(c, t)
       PROVE  Over(g, c) \in F /\ \A z \in F : Same(z * t, f) <=> Over(g, c) = z
  <2>1. /\ Over(g, c) \in F /\ Same(Over(g, c) * c, g)
        /\ \A z \in F : Same(z * c, g) => Over(g, c) = z
    BY <1>13, Quotient
  <2>2. ASSUME NEW z \in F PROVE Same(z * t, f) <=> Same(z * c, g)
    <3>1. Same(z, z) /\ Same(c, t) /\ Same(g, f)
      BY <1>13, IsOperations DEF Is
    <3>2. Same(z * c, z * t)
      BY <3>1, SameOperations
    <3>3. \A w, j : Same(w, j) => w \in Int /\ j \in Int
      BY DEF Same
    <3> QED
      BY <3>1, <3>2, <3>3, SameFacts
  <2> QED
    BY <2>1, <2>2
<1> DEFINE x == Over(n, u)
           y == Over(m, v)
<1>14. /\ x \in F /\ \A z \in F : Same(z * (1 + k), SumX(x1, y1, x2, y2)) <=> x = z
       /\ y \in F /\ \A z \in F : Same(z * (1 - k), SumY(x1, y1, x2, y2)) <=> y = z
  BY <1>8, <1>9, <1>11, <1>13
<1> HIDE DEF x, y
<1>15. IsSum(x1, y1, x2, y2, x, y)
  BY <1>14 DEF IsSum, k
<1>16. AffineAdd(p, q)[1] = x /\ AffineAdd(p, q)[2] = y /\ AffineAdd(p, q) = <<x, y>>
  BY <1>12 DEF x, y
<1>17. On(x, y)
  BY <1>1, <1>14, <1>15, Closed, Prime
<1>18. AffineAdd(p, q) \in Curve
  BY <1>14, <1>16, <1>17, CurveIs
<1>19. \A z, w \in F : IsSum(x1, y1, x2, y2, z, w) => AffineAdd(p, q) = <<z, w>>
  BY <1>14, <1>16 DEF IsSum, k
<1> QED
  BY <1>15, <1>16, <1>18, <1>19 DEF x1, y1, x2, y2

\* The points are a commutative group.
LEMMA Commutative ==
  ASSUME NEW p \in Curve, NEW q \in Curve
  PROVE  AffineAdd(p, q) = AffineAdd(q, p)
<1> DEFINE z == AffineAdd(q, p)
<1>1. z \in Curve /\ IsSum(q[1], q[2], p[1], p[2], z[1], z[2])
  BY AddIs
<1> HIDE DEF z
<1>2. p[1] \in Int /\ p[2] \in Int /\ q[1] \in Int /\ q[2] \in Int /\ D \in Int
  BY PointIs, Prime
<1>3. /\ SumX(p[1], p[2], q[1], q[2]) = SumX(q[1], q[2], p[1], p[2])
      /\ SumY(p[1], p[2], q[1], q[2]) = SumY(q[1], q[2], p[1], p[2])
      /\ Kay(p[1], p[2], q[1], q[2]) = Kay(q[1], q[2], p[1], p[2])
  BY <1>2 DEF SumX, SumY, Kay, Cross
<1>4. IsSum(p[1], p[2], q[1], q[2], z[1], z[2])
  BY <1>1, <1>3 DEF IsSum
<1>5. z[1] \in F /\ z[2] \in F /\ z = <<z[1], z[2]>>
  BY <1>1, PointIs
<1> QED
  BY <1>4, <1>5, AddIs DEF z

LEMMA AddAssociative ==
  ASSUME NEW p \in Curve, NEW q \in Curve, NEW s \in Curve
  PROVE  AffineAdd(AffineAdd(p, q), s) = AffineAdd(p, AffineAdd(q, s))
<1> DEFINE u == AffineAdd(p, q)
           v == AffineAdd(q, s)
           x == AffineAdd(u, s)
           y == AffineAdd(p, v)
<1>1. u \in Curve /\ v \in Curve /\ x \in Curve /\ y \in Curve
  BY AddIs
<1>2. /\ IsSum(p[1], p[2], q[1], q[2], u[1], u[2]) /\ IsSum(q[1], q[2], s[1], s[2], v[1], v[2])
      /\ IsSum(u[1], u[2], s[1], s[2], x[1], x[2]) /\ IsSum(p[1], p[2], v[1], v[2], y[1], y[2])
  BY <1>1, AddIs
<1> HIDE DEF u, v, x, y
<1>3. /\ On(p[1], p[2]) /\ On(q[1], q[2]) /\ On(s[1], s[2])
      /\ u[1] \in Int /\ u[2] \in Int /\ v[1] \in Int /\ v[2] \in Int
      /\ x[1] \in Int /\ x[2] \in Int /\ y[1] \in Int /\ y[2] \in Int
  BY <1>1, PointIs
<1>4. Same(x[1], y[1]) /\ Same(x[2], y[2])
  BY <1>2, <1>3, Associative
<1>5. x[1] \in F /\ x[2] \in F /\ y[1] \in F /\ y[2] \in F /\ x = <<x[1], x[2]>> /\ y = <<y[1], y[2]>>
  BY <1>1, PointIs
<1>6. x[1] = y[1] /\ x[2] = y[2]
  BY <1>4, <1>5, ZeroSmall
<1>7. x = y
  BY <1>5, <1>6, Zenon
<1> QED
  BY <1>7 DEF x, y, u, v

LEMMA AddNeutral ==
  ASSUME NEW p \in Curve
  PROVE  AffineAdd(p, Neutral) = p /\ AffineAdd(Neutral, p) = p
<1>1. p[1] \in F /\ p[2] \in F /\ p[1] \in Int /\ p[2] \in Int /\ p = <<p[1], p[2]>> /\ D \in Int
  BY PointIs, Prime
<1>2. Neutral \in Curve /\ Neutral[1] = 0 /\ Neutral[2] = 1
  BY PointIs DEF Neutral
<1>3. /\ SumX(p[1], p[2], 0, 1) = p[1] /\ SumY(p[1], p[2], 0, 1) = p[2]
      /\ Kay(p[1], p[2], 0, 1) = 0
  BY <1>1 DEF SumX, SumY, Kay, Cross
<1>4. p[1] * (1 + 0) = p[1] /\ p[2] * (1 - 0) = p[2]
  BY <1>1
<1>5. IsSum(p[1], p[2], 0, 1, p[1], p[2])
  BY <1>1, <1>3, <1>4, SameFacts DEF IsSum
<1>6. AffineAdd(p, Neutral) = <<p[1], p[2]>>
  BY <1>1, <1>2, <1>5, AddIs
<1> QED
  BY <1>1, <1>2, <1>6, Commutative

LEMMA AddNegative ==
  ASSUME NEW p \in Curve
  PROVE  AffineNeg(p) \in Curve /\ AffineAdd(p, AffineNeg(p)) = Neutral
<1> DEFINE x == p[1]
           y == p[2]
           n == Neg(x)
<1>1. x \in F /\ y \in F /\ x \in Int /\ y \in Int /\ On(x, y) /\ D \in Int
  BY PointIs, Prime
<1> HIDE DEF x, y
<1>2. Is(n, 0 - x)
  BY <1>1, IsOperations, Zenon DEF Neg
<1>3. n \in F /\ Same(n, 0 - x) /\ n \in Int
  BY <1>2, Prime DEF Is
<1> HIDE DEF n
<1>4. Same(n * n, x * x)
  <2>1. Same(n * n, (0 - x) * (0 - x))
    BY <1>3, SameOperations, Zenon
  <2>2. (0 - x) * (0 - x) = x * x
    BY <1>1
  <2> QED
    BY <2>1, <2>2
<1>5. On(n, y)
  <2>1. Same(y * y, y * y) /\ Same(D, D) /\ Same(1, 1)
    BY <1>1, y * y \in Int, SameFacts
  <2>2. Same((y * y - n * n) - 1, (y * y - x * x) - 1)
    BY <1>4, <2>1, SameOperations, Zenon
  <2>3. Same(D * ((n * n) * (y * y)), D * ((x * x) * (y * y)))
    BY <1>4, <2>1, SameOperations, Zenon
  <2>4. Same(((y * y - n * n) - 1) - D * ((n * n) * (y * y)), ((y * y - x * x) - 1) - D * ((x * x) * (y * y)))
    BY <2>2, <2>3, SameOperations, Zenon
  <2>5. /\ ((y * y - n * n) - 1) - D * ((n * n) * (y * y)) = Beside(n, y)
        /\ ((y * y - x * x) - 1) - D * ((x * x) * (y * y)) = Beside(x, y)
    BY <1>1, <1>3 DEF Beside, Cross, DifSq
  <2> QED
    BY <1>1, <1>3, <2>4, <2>5, SameFacts DEF On, Same
<1>6. AffineNeg(p) = <<n, y>> /\ AffineNeg(p)[1] = n /\ AffineNeg(p)[2] = y
  BY DEF AffineNeg, n, x, y
<1>7. AffineNeg(p) \in Curve
  BY <1>1, <1>3, <1>5, <1>6, CurveIs
<1>8. Zero(n + x)
  <2>1. n - (0 - x) = n + x
    BY <1>1, <1>3
  <2> QED
    BY <1>3, <2>1 DEF Same
<1>9. IsSum(x, y, n, y, 0, 1)
  <2> DEFINE k == Kay(x, y, n, y)
             j == Beside(x, y)
  <2>1. k \in Int /\ SumX(x, y, n, y) = y * (n + x) /\ SumY(x, y, n, y) = y * y + x * n
    BY <1>1, <1>3 DEF Kay, Cross, SumX, SumY
  <2>2. 0 * (1 + k) = 0 /\ 1 * (1 - k) = 1 - k
    BY <2>1
  <2>3. 0 - y * (n + x) = (0 - y) * (n + x) /\ n + x \in Int /\ 0 - y \in Int /\ y * (n + x) \in Int
    BY <1>1, <1>3
  <2>9. Zero((0 - y) * (n + x))
    BY <1>8, <2>3, ZeroTimes
  <2>4. Same(0, y * (n + x))
    BY <2>3, <2>9 DEF Same
  <2> DEFINE g == n + x
             f == 0 - (x + (D * x) * (y * y))
  <2>5. (1 - k) - (y * y + x * n) = f * g - 1 * j
    BY <1>1, <1>3, <2>1 DEF Kay, Cross, Beside, DifSq
  <2>6. f \in Int /\ g \in Int /\ j \in Int /\ Zero(g) /\ Zero(j) /\ 1 \in Int
    BY <1>1, <1>3, <1>8, Integers1 DEF On
  <2> HIDE DEF k, f, g, j
  <2>7. Zero(f * g - 1 * j)
    BY <2>6, Combined
  <2>8. Same(1 - k, y * y + x * n)
    BY <1>1, <1>3, <2>1, <2>5, <2>7 DEF Same
  <2> QED
    BY <2>1, <2>2, <2>4, <2>8 DEF IsSum, k
<1>10. 0 \in F /\ 1 \in F
  BY Prime
<1>11. AffineAdd(p, AffineNeg(p)) = <<0, 1>>
  BY <1>6, <1>7, <1>9, <1>10, AddIs DEF x, y
<1> QED
  BY <1>7, <1>11 DEF Neutral
-----------------------------------------------------------------------------
(***************************************************************************)
(* Multiples of a point, which the number of points takes to 0.            *)
(***************************************************************************)
\* AffineAdd as a function of pairs.
Law == [s \in Curve \X Curve |-> AffineAdd(s[1], s[2])]

LEMMA LawIs == \A p, q \in Curve : Of(Law, p, q) = AffineAdd(p, q)
<1> SUFFICES ASSUME NEW p \in Curve, NEW q \in Curve PROVE Law[<<p, q>>] = AffineAdd(p, q)
  BY DEF Of
<1>1. <<p, q>> \in Curve \X Curve /\ <<p, q>>[1] = p /\ <<p, q>>[2] = q
  OBVIOUS
<1> QED
  BY <1>1, Zenon DEF Law

THEOREM CurveIsGroup == IsGroup(Curve, Law, Neutral)
<1>1. IsFiniteSet(Curve)
  <2>1. IsFiniteSet(F)
    BY Prime, FS_Interval
  <2>2. IsFiniteSet(F \X F)
    BY <2>1, FS_Product
  <2>3. Curve \subseteq F \X F
    BY DEF Curve
  <2> QED
    BY <2>2, <2>3, FS_Subset
<1>2. Neutral \in Curve
  BY PointIs
<1>3. \A p, q \in Curve : AffineAdd(p, q) \in Curve
  BY AddIs
<1>4. \A p, q \in Curve : Of(Law, p, q) \in Curve /\ Of(Law, p, q) = Of(Law, q, p)
  BY <1>3, LawIs, Commutative
<1>5. \A p, q, s \in Curve : Of(Law, Of(Law, p, q), s) = Of(Law, p, Of(Law, q, s))
  BY <1>3, LawIs, AddAssociative
<1>6. \A p \in Curve : Of(Law, p, Neutral) = p /\ \E q \in Curve : Of(Law, p, q) = Neutral
  BY <1>2, LawIs, AddNeutral, AddNegative
<1> QED
  BY <1>1, <1>2, <1>4, <1>5, <1>6, Zenon DEF IsGroup

LEMMA PointsIs == Points \in Nat \ {0}
<1>1. IsFiniteSet(Curve) /\ Neutral \in Curve
  BY CurveIsGroup, Zenon DEF IsGroup
<1> QED
  BY <1>1, FS_CardinalityType, FS_EmptySet DEF Points

\* The table of the multiples, as its recursive definition says.
LEMMA MultiplesIs ==
  ASSUME NEW p \in Curve
  PROVE  /\ \A n \in 0 .. Points - 1 : Multiples[p][n] \in Curve
         /\ Multiples[p][0] = Neutral
         /\ \A n \in 0 .. Points - 2 : Multiples[p][n + 1] = AffineAdd(Multiples[p][n], p)
         /\ AffineAdd(Multiples[p][Points - 1], p) = Neutral
<1> DEFINE N == Points - 1
           Upto(j) == j = [n \in 0 .. N |-> IF n = 0 THEN Neutral ELSE AffineAdd(j[n - 1], p)]
           u == CHOOSE j : Upto(j)
           f == [y \in Curve |-> AffineAdd(y, p)]
<1>1. Points \in Nat \ {0} /\ N \in Nat /\ Points = N + 1
  BY PointsIs
<1>2. \A y \in Curve : f[y] = AffineAdd(y, p) /\ f[y] \in Curve
  BY AddIs
<1>3. Neutral \in Curve
  BY PointIs
<1>4. Multiples[p] = u
  BY Zenon DEF Multiples
<1> HIDE DEF N
<1>5. \E j : Upto(j)
  <2> HIDE DEF f
  <2>0. \A y \in Curve : f[y] \in Curve
    BY <1>2
  <2>1. PICK j : Iterates(Curve, f, Neutral, N, j)
    BY <1>1, <1>3, <2>0, IteratesExist
  <2>2. ASSUME NEW n \in 0 .. N PROVE j[n] = IF n = 0 THEN Neutral ELSE AffineAdd(j[n - 1], p)
    <3>1. CASE n = 0
      BY <2>1, <3>1 DEF Iterates
    <3>2. CASE n # 0
      <4>1. n - 1 \in 0 .. N - 1 /\ n - 1 \in 0 .. N /\ (n - 1) + 1 = n
        BY <1>1, <3>2
      <4>2. j[n - 1] \in Curve /\ j[n] = f[j[n - 1]]
        BY <2>1, <4>1 DEF Iterates
      <4> QED
        BY <1>2, <3>2, <4>2
    <3> QED
      BY <3>1, <3>2
  <2> DEFINE d == [n \in 0 .. N |-> IF n = 0 THEN Neutral ELSE AffineAdd(j[n - 1], p)]
  <2>3. DOMAIN j = 0 .. N /\ j = [n \in DOMAIN j |-> j[n]]
    BY <2>1, Zenon DEF Iterates
  <2>4. j = d
    BY <2>2, <2>3
  <2> QED
    BY <2>4, Zenon
<1>6. Upto(u)
  BY <1>5, Zenon
<1> HIDE DEF u
<1>7. \A n \in 0 .. N : u[n] = IF n = 0 THEN Neutral ELSE AffineAdd(u[n - 1], p)
  BY <1>6, Zenon
<1>8. u[0] = Neutral
  BY <1>1, <1>7
<1>9. \A n \in 0 .. N - 1 : u[n + 1] = AffineAdd(u[n], p)
  <2> SUFFICES ASSUME NEW n \in 0 .. N - 1 PROVE u[n + 1] = AffineAdd(u[n], p)
    OBVIOUS
  <2>1. n + 1 \in 0 .. N /\ n + 1 # 0 /\ (n + 1) - 1 = n
    BY <1>1
  <2> QED
    BY <1>7, <2>1
<1> DEFINE T == {n \in Nat : n <= N => u[n] \in Curve}
<1>10. 0 \in T
  BY <1>3, <1>8
<1>11. ASSUME NEW n \in Nat, n \in T PROVE n + 1 \in T
  <2> SUFFICES ASSUME n + 1 <= N PROVE u[n + 1] \in Curve
    OBVIOUS
  <2>1. n \in 0 .. N - 1 /\ u[n] \in Curve
    BY <1>1, <1>11
  <2> QED
    BY <1>9, <2>1, AddIs
<1> HIDE DEF T
<1>12. \A n \in Nat : n \in T
  BY <1>10, <1>11, Induction
<1>13. \A n \in 0 .. N : u[n] \in Curve
  BY <1>1, <1>12 DEF T
<1>14. AffineAdd(u[N], p) = Neutral
  <2> DEFINE j == [n \in 0 .. N + 1 |-> IF n <= N THEN u[n] ELSE AffineAdd(u[N], p)]
  <2>1. u[N] \in Curve /\ AffineAdd(u[N], p) \in Curve
    BY <1>1, <1>13, AddIs
  <2>2. j[0] = Neutral
    BY <1>1, <1>8
  <2>3. \A n \in 0 .. N + 1 : j[n] \in Curve
    BY <1>13, <2>1
  <2>4. \A n \in 0 .. (N + 1) - 1 : j[n + 1] = Of(Law, j[n], p)
    <3> SUFFICES ASSUME NEW n \in 0 .. (N + 1) - 1 PROVE j[n + 1] = Of(Law, j[n], p)
      OBVIOUS
    <3>1. j[n] = u[n] /\ u[n] \in Curve
      BY <1>1, <1>13
    <3>2. Of(Law, j[n], p) = AffineAdd(u[n], p)
      BY <3>1, LawIs
    <3>3. j[n + 1] = AffineAdd(u[n], p)
      <4>1. CASE n = N
        BY <1>1, <4>1
      <4>2. CASE n # N
        <5>1. n \in 0 .. N - 1 /\ n + 1 \in 0 .. N + 1 /\ n + 1 <= N
          BY <1>1, <4>2
        <5> QED
          BY <1>9, <5>1
      <4> QED
        BY <4>1, <4>2
    <3> QED
      BY <3>2, <3>3
  <2>5. j[N + 1] = AffineAdd(u[N], p)
    BY <1>1
  <2> HIDE DEF j
  <2>6. Cardinality(Curve) = N + 1 /\ N + 1 \in Nat
    BY <1>1 DEF Points
  <2>7. AreMultiples(Curve, Law, Neutral, p, N + 1, j)
    BY <2>2, <2>3, <2>4, <2>6, Zenon DEF AreMultiples
  <2>8. j[Cardinality(Curve)] = Neutral
    <3>1. AreMultiples(Curve, Law, Neutral, p, Cardinality(Curve), j)
      BY <2>6, <2>7, Zenon
    <3> QED
      BY <3>1, CurveIsGroup, Lagrange
  <2> QED
    BY <2>5, <2>6, <2>8
<1>15. N - 1 = Points - 2
  BY <1>1
<1> QED
  BY <1>4, <1>8, <1>9, <1>13, <1>14, <1>15 DEF N

LEMMA TimesNext ==
  ASSUME NEW p \in Curve
  PROVE  /\ Times(0, p) = Neutral /\ Times(1, p) = p
         /\ \A n \in Int : Times(n, p) \in Curve /\ Times(n + 1, p) = AffineAdd(Times(n, p), p)
         /\ \A n, m \in Int : Times(n + Points * m, p) = Times(n, p)
<1>1. Points \in Nat \ {0}
  BY PointsIs
<1> DEFINE j == Multiples[p]
<1>2. /\ \A n \in 0 .. Points - 1 : j[n] \in Curve
      /\ j[0] = Neutral
      /\ \A n \in 0 .. Points - 2 : j[n + 1] = AffineAdd(j[n], p)
      /\ AffineAdd(j[Points - 1], p) = Neutral
  BY MultiplesIs
<1>3. \A n : Times(n, p) = j[n % Points]
  BY DEF Times
<1> HIDE DEF j
<1>4. Times(0, p) = Neutral
  BY <1>1, <1>2, <1>3, SmallDiv
<1>5. ASSUME NEW n \in Int
      PROVE  Times(n, p) \in Curve /\ Times(n + 1, p) = AffineAdd(Times(n, p), p)
  <2> DEFINE k == n % Points
             q == n \div Points
  <2>1. k \in Nat /\ q \in Int /\ k < Points /\ n = Points * q + k
    BY <1>1, DivMod
  <2>2. Times(n, p) = j[k]
    BY <1>3
  <2> HIDE DEF k, q
  <2>3. Times(n, p) \in Curve
    BY <1>1, <1>2, <2>1, <2>2
  <2>4. CASE k < Points - 1
    <3>1. k + 1 \in Nat /\ k + 1 < Points /\ n + 1 = Points * q + (k + 1) /\ k \in 0 .. Points - 2
      BY <1>1, <2>1, <2>4
    <3>2. (n + 1) % Points = k + 1
      BY <1>1, <2>1, <3>1, DivModUnique
    <3>3. Times(n + 1, p) = j[k + 1]
      BY <1>3, <3>2
    <3> QED
      BY <1>2, <2>2, <2>3, <3>1, <3>3
  <2>5. CASE k = Points - 1
    <3>1. 0 \in Nat /\ 0 < Points /\ n + 1 = Points * (q + 1) + 0 /\ q + 1 \in Int
      BY <1>1, <2>1, <2>5
    <3>2. (n + 1) % Points = 0
      BY <1>1, <3>1, DivModUnique
    <3>3. Times(n + 1, p) = Neutral
      BY <1>2, <1>3, <3>2
    <3> QED
      BY <1>2, <2>2, <2>3, <2>5, <3>3
  <2> QED
    BY <1>1, <2>1, <2>4, <2>5
<1>6. Times(1, p) = p
  <2>1. Times(0 + 1, p) = AffineAdd(Neutral, p)
    BY <1>4, <1>5
  <2> QED
    BY <2>1, AddNeutral
<1>7. ASSUME NEW n \in Int, NEW m \in Int PROVE Times(n + Points * m, p) = Times(n, p)
  <2> DEFINE k == n % Points
             q == n \div Points
  <2>1. k \in Nat /\ q \in Int /\ k < Points /\ n = Points * q + k
    BY <1>1, DivMod
  <2>2. Times(n, p) = j[k]
    BY <1>3
  <2> HIDE DEF k, q
  <2>3. n + Points * m = Points * (q + m) + k /\ q + m \in Int
    BY <1>1, <2>1
  <2>4. (n + Points * m) % Points = k
    BY <1>1, <2>1, <2>3, DivModUnique
  <2> QED
    BY <1>3, <2>2, <2>4
<1> QED
  BY <1>4, <1>5, <1>6, <1>7

\* Multiples add up.
LEMMA TimesSum ==
  ASSUME NEW p \in Curve
  PROVE  /\ \A n, m \in Int : Times(n + m, p) = AffineAdd(Times(n, p), Times(m, p))
         /\ \A m \in Int : AffineNeg(Times(m, p)) = Times(-m, p)
<1>1. Points \in Nat \ {0}
  BY PointsIs
<1> DEFINE T == {m \in Nat : \A n \in Int : Times(n + m, p) = AffineAdd(Times(n, p), Times(m, p))}
<1>2. 0 \in T
  <2> SUFFICES ASSUME NEW n \in Int PROVE Times(n + 0, p) = AffineAdd(Times(n, p), Times(0, p))
    BY 0 \in Nat
  <2>1. Times(n, p) \in Curve /\ Times(0, p) = Neutral /\ n + 0 = n
    BY TimesNext
  <2> QED
    BY <2>1, AddNeutral
<1>3. ASSUME NEW m \in Nat, m \in T PROVE m + 1 \in T
  <2> SUFFICES ASSUME NEW n \in Int
               PROVE  Times(n + (m + 1), p) = AffineAdd(Times(n, p), Times(m + 1, p))
    OBVIOUS
  <2>1. m \in Int /\ n + m \in Int /\ n + (m + 1) = (n + m) + 1
    OBVIOUS
  <2>2. /\ Times(n, p) \in Curve /\ Times(m, p) \in Curve
        /\ Times((n + m) + 1, p) = AffineAdd(Times(n + m, p), p)
        /\ Times(m + 1, p) = AffineAdd(Times(m, p), p)
    BY <2>1, TimesNext
  <2>3. Times(n + m, p) = AffineAdd(Times(n, p), Times(m, p))
    BY <1>3
  <2>4. AffineAdd(AffineAdd(Times(n, p), Times(m, p)), p) = AffineAdd(Times(n, p), AffineAdd(Times(m, p), p))
    BY <2>2, AddAssociative
  <2> QED
    BY <2>1, <2>2, <2>3, <2>4
<1> HIDE DEF T
<1>4. \A m \in Nat : m \in T
  BY <1>2, <1>3, Induction
<1>5. ASSUME NEW n \in Int, NEW m \in Int
      PROVE  Times(n + m, p) = AffineAdd(Times(n, p), Times(m, p))
  <2> DEFINE j == m % Points
             q == m \div Points
  <2>1. j \in Nat /\ q \in Int /\ m = Points * q + j
    BY <1>1, DivMod
  <2> HIDE DEF j, q
  <2>2. m = j + Points * q /\ n + m = (n + j) + Points * q /\ j \in Int /\ n + j \in Int
    BY <1>1, <2>1
  <2>3. Times(m, p) = Times(j, p)
    BY <2>1, <2>2, TimesNext
  <2>5. Times(n + m, p) = Times(n + j, p)
    BY <2>1, <2>2, TimesNext
  <2>4. Times(n + j, p) = AffineAdd(Times(n, p), Times(j, p))
    BY <1>4, <2>1 DEF T
  <2> QED
    BY <2>3, <2>4, <2>5
<1>6. ASSUME NEW m \in Int PROVE AffineNeg(Times(m, p)) = Times(-m, p)
  <2>1. -m \in Int /\ -m + m = 0
    OBVIOUS
  <2>2. Times(m, p) \in Curve /\ Times(-m, p) \in Curve /\ Times(0, p) = Neutral
    BY <2>1, TimesNext
  <2>3. AffineAdd(Times(-m, p), Times(m, p)) = Neutral
    BY <1>5, <2>1, <2>2
  <2>4. AffineNeg(Times(m, p)) \in Curve /\ AffineAdd(Times(m, p), AffineNeg(Times(m, p))) = Neutral
    BY <2>2, AddNegative
  <2>5. AffineAdd(AffineAdd(Times(-m, p), Times(m, p)), AffineNeg(Times(m, p)))
          = AffineAdd(Times(-m, p), AffineAdd(Times(m, p), AffineNeg(Times(m, p))))
    BY <2>2, <2>4, AddAssociative
  <2> QED
    BY <2>2, <2>3, <2>4, <2>5, AddNeutral
<1> QED
  BY <1>5, <1>6

\* Multiples of multiples.
LEMMA TimesTimes ==
  ASSUME NEW p \in Curve, NEW m \in Int
  PROVE  \A n \in Int : Times(n * m, p) = Times(n, Times(m, p))
<1>1. Points \in Nat \ {0} /\ Times(m, p) \in Curve
  BY PointsIs, TimesNext
<1> DEFINE T == {n \in Nat : Times(n * m, p) = Times(n, Times(m, p))}
<1>2. 0 \in T
  <2>1. 0 * m = 0 /\ 0 \in Nat
    OBVIOUS
  <2>2. Times(0, p) = Neutral /\ Times(0, Times(m, p)) = Neutral
    BY <1>1, TimesNext
  <2> QED
    BY <2>1, <2>2
<1>3. ASSUME NEW n \in Nat, n \in T PROVE n + 1 \in T
  <2>1. (n + 1) * m = n * m + m /\ n * m \in Int /\ n \in Int /\ n + 1 \in Nat
    OBVIOUS
  <2>2. Times(n * m + m, p) = AffineAdd(Times(n * m, p), Times(m, p))
    BY <2>1, TimesSum
  <2>3. Times(n + 1, Times(m, p)) = AffineAdd(Times(n, Times(m, p)), Times(m, p))
    BY <1>1, <2>1, TimesNext
  <2> QED
    BY <1>3, <2>1, <2>2, <2>3
<1> HIDE DEF T
<1>4. \A n \in Nat : n \in T
  BY <1>2, <1>3, Induction
<1> SUFFICES ASSUME NEW n \in Int PROVE Times(n * m, p) = Times(n, Times(m, p))
  OBVIOUS
<1> DEFINE j == n % Points
           q == n \div Points
<1>5. j \in Nat /\ q \in Int /\ n = Points * q + j
  BY <1>1, DivMod
<1> HIDE DEF j, q
<1>6. /\ n = j + Points * q /\ n * m = j * m + Points * (q * m)
      /\ j \in Int /\ j * m \in Int /\ q * m \in Int
  BY <1>1, <1>5
<1>7. Times(n * m, p) = Times(j * m, p)
  BY <1>6, TimesNext
<1>8. Times(n, Times(m, p)) = Times(j, Times(m, p))
  <2> DEFINE s == Times(m, p)
  <2>1. s \in Curve
    BY <1>1
  <2> HIDE DEF s
  <2>2. Times(j + Points * q, s) = Times(j, s)
    BY <1>5, <1>6, <2>1, TimesNext
  <2> QED
    BY <1>6, <2>2 DEF s
<1>9. Times(j * m, p) = Times(j, Times(m, p))
  BY <1>4, <1>5 DEF T
<1> QED
  BY <1>7, <1>8, <1>9
-----------------------------------------------------------------------------
(***************************************************************************)
(* Representations of points, and the formulas on them.                    *)
(***************************************************************************)
\* What a struct of ge.h says of the point p.
RepP3(u, p) ==
  /\ u \in [X : F, Y : F, Z : F \ {0}, T : F] /\ p \in Curve
  /\ Same(u.X, p[1] * u.Z) /\ Same(u.Y, p[2] * u.Z) /\ Same(u.T, (p[1] * p[2]) * u.Z)

RepP2(u, p) ==
  /\ u \in [X : F, Y : F, Z : F \ {0}] /\ p \in Curve
  /\ Same(u.X, p[1] * u.Z) /\ Same(u.Y, p[2] * u.Z)

RepP1(u, p) ==
  /\ u \in [X : F, Y : F, Z : F \ {0}, T : F \ {0}] /\ p \in Curve
  /\ Same(u.X, p[1] * u.Z) /\ Same(u.Y, p[2] * u.T)

\* x and y are numbers that stand for p.
At(p, x, y) == p \in Curve /\ Is(p[1], x) /\ Is(p[2], y)

LEMMA AtIs ==
  ASSUME NEW p, NEW x, NEW y, At(p, x, y)
  PROVE  /\ x \in Int /\ y \in Int /\ p \in Curve /\ p[1] \in Int /\ p[2] \in Int
         /\ Same(p[1], x) /\ Same(p[2], y)
BY SMT DEF At, Is, Same

LEMMA SameTrans ==
  ASSUME NEW x, NEW y, NEW z, Same(x, y), Same(y, z)
  PROVE  Same(x, z) /\ Same(y, x)
<1>1. x \in Int /\ y \in Int /\ z \in Int
  BY DEF Same
<1> QED
  BY <1>1, SameFacts

LEMMA SameSym ==
  ASSUME NEW x, NEW y, Same(x, y)
  PROVE  Same(y, x)
<1>1. x \in Int /\ y \in Int
  BY DEF Same
<1> QED
  BY <1>1, SameFacts

LEMMA Swapped ==
  ASSUME NEW x \in Int, NEW y \in Int, NEW z \in Int
  PROVE  x * (y * z) = y * (x * z)
OBVIOUS

\* The denominators of a sum are those of the struct, but for a factor.
LEMMA SumRep ==
  ASSUME NEW p, NEW q, NEW x1, NEW y1, NEW x2, NEW y2, At(p, x1, y1), At(q, x2, y2),
         NEW w \in Int, ~Zero(w), NEW t, t = D * ((x1 * y1) * (x2 * y2)),
         NEW u \in [X : F, Y : F, Z : F, T : F],
         Same(u.X, w * (x1 * y2 + x2 * y1)), Same(u.Y, w * (y1 * y2 + x1 * x2)),
         Same(u.Z, w * (1 + t)), Same(u.T, w * (1 - t))
  PROVE  RepP1(u, AffineAdd(p, q))
<1> DEFINE s == AffineAdd(p, q)
           sx == SumX(p[1], p[2], q[1], q[2])
           sy == SumY(p[1], p[2], q[1], q[2])
           ky == Kay(p[1], p[2], q[1], q[2])
<1>1. /\ x1 \in Int /\ y1 \in Int /\ x2 \in Int /\ y2 \in Int /\ p \in Curve /\ q \in Curve
      /\ Same(p[1], x1) /\ Same(p[2], y1) /\ Same(q[1], x2) /\ Same(q[2], y2)
      /\ D \in Int /\ p[1] \in Int /\ p[2] \in Int /\ q[1] \in Int /\ q[2] \in Int
  BY AtIs, Prime
<1>2. /\ s \in Curve /\ s[1] \in Int /\ s[2] \in Int
      /\ Same(s[1] * (1 + ky), sx) /\ Same(s[2] * (1 - ky), sy)
  <2>1. s \in Curve /\ IsSum(p[1], p[2], q[1], q[2], s[1], s[2])
    BY <1>1, AddIs
  <2> HIDE DEF s
  <2> QED
    BY <2>1, PointIs DEF IsSum
<1>3. ~Zero(1 + ky) /\ ~Zero(1 - ky) /\ ky \in Int
  <2>1. On(p[1], p[2]) /\ On(q[1], q[2])
    BY <1>1, PointIs
  <2>2. ky \in Int
    BY <1>1 DEF Kay, Cross
  <2> QED
    BY <2>1, <2>2, Complete
<1>4. Same(ky, t) /\ Same(sx, x1 * y2 + x2 * y1) /\ Same(sy, y1 * y2 + x1 * x2)
  <2>1. Same(D, D)
    BY <1>1, SameFacts
  <2>2. Same(p[1] * p[2], x1 * y1) /\ Same(q[1] * q[2], x2 * y2)
    BY <1>1, SameOperations
  <2>3. Same((p[1] * p[2]) * (q[1] * q[2]), (x1 * y1) * (x2 * y2))
    BY <2>2, SameOperations
  <2>4. Same(D * ((p[1] * p[2]) * (q[1] * q[2])), D * ((x1 * y1) * (x2 * y2)))
    BY <2>1, <2>3, SameOperations
  <2>5. /\ Same(p[1] * q[2], x1 * y2) /\ Same(q[1] * p[2], x2 * y1)
        /\ Same(p[2] * q[2], y1 * y2) /\ Same(p[1] * q[1], x1 * x2)
    BY <1>1, SameOperations
  <2>6. /\ Same(p[1] * q[2] + q[1] * p[2], x1 * y2 + x2 * y1)
        /\ Same(p[2] * q[2] + p[1] * q[1], y1 * y2 + x1 * x2)
    BY <2>5, SameOperations
  <2> QED
    BY <2>4, <2>6 DEF Kay, Cross, SumX, SumY
<1> HIDE DEF s, sx, sy, ky
<1>5. Same(w, w) /\ Same(1, 1) /\ Same(s[1], s[1]) /\ Same(s[2], s[2])
  BY <1>2, 1 \in Int, SameFacts
<1>6. Same(1 + ky, 1 + t) /\ Same(1 - ky, 1 - t)
  BY <1>4, <1>5, SameOperations
<1>7. Same(w * (1 + ky), u.Z) /\ Same(w * (1 - ky), u.T)
  <2>1. Same(w * (1 + ky), w * (1 + t)) /\ Same(w * (1 - ky), w * (1 - t))
    BY <1>5, <1>6, SameOperations
  <2>2. Same(w * (1 + t), u.Z) /\ Same(w * (1 - t), u.T)
    BY SameSym
  <2> QED
    BY <2>1, <2>2, SameTrans
<1>8. u.Z # 0 /\ u.T # 0
  <2>1. 1 + ky \in Int /\ 1 - ky \in Int
    BY <1>3
  <2>2. ~Zero(w * (1 + ky)) /\ ~Zero(w * (1 - ky))
    BY <1>3, <2>1, NoDivisors
  <2>3. w * (1 + ky) \in Int /\ w * (1 - ky) \in Int /\ u.Z \in Int /\ u.T \in Int
    BY <2>1, Prime
  <2>4. ~Zero(u.Z) /\ ~Zero(u.T)
    BY <1>7, <2>2, <2>3, SameFacts
  <2> QED
    BY <2>4, ZeroSmall
<1>9. Same(u.X, s[1] * u.Z)
  <2>1. Same(w * sx, u.X)
    <3>1. Same(w * sx, w * (x1 * y2 + x2 * y1))
      BY <1>4, <1>5, SameOperations
    <3>2. Same(w * (x1 * y2 + x2 * y1), u.X)
      BY SameSym
    <3> QED
      BY <3>1, <3>2, SameTrans
  <2>2. Same(w * (s[1] * (1 + ky)), w * sx)
    BY <1>2, <1>5, SameOperations
  <2>3. w * (s[1] * (1 + ky)) = s[1] * (w * (1 + ky))
    <3>1. 1 + ky \in Int
      BY <1>3
    <3> QED
      BY <1>2, <3>1, Swapped
  <2>4. Same(s[1] * (w * (1 + ky)), s[1] * u.Z)
    BY <1>5, <1>7, SameOperations
  <2> QED
    BY <2>1, <2>2, <2>3, <2>4, SameTrans
<1>10. Same(u.Y, s[2] * u.T)
  <2>1. Same(w * sy, u.Y)
    <3>1. Same(w * sy, w * (y1 * y2 + x1 * x2))
      BY <1>4, <1>5, SameOperations
    <3>2. Same(w * (y1 * y2 + x1 * x2), u.Y)
      BY SameSym
    <3> QED
      BY <3>1, <3>2, SameTrans
  <2>2. Same(w * (s[2] * (1 - ky)), w * sy)
    BY <1>2, <1>5, SameOperations
  <2>3. w * (s[2] * (1 - ky)) = s[2] * (w * (1 - ky))
    <3>1. 1 - ky \in Int
      BY <1>3
    <3> QED
      BY <1>2, <3>1, Swapped
  <2>4. Same(s[2] * (w * (1 - ky)), s[2] * u.T)
    BY <1>5, <1>7, SameOperations
  <2> QED
    BY <2>1, <2>2, <2>3, <2>4, SameTrans
<1> QED
  BY <1>2, <1>8, <1>9, <1>10 DEF RepP1, s

\* Values of the field, by what they are multiples of.
LEMMA SameValues ==
  ASSUME NEW u \in F, NEW v \in F, NEW x, NEW y, Same(u, x), Same(v, y)
  PROVE  /\ u (+) v \in F /\ u (-) v \in F /\ u (.) v \in F
         /\ Same(u (+) v, x + y) /\ Same(u (-) v, x - y) /\ Same(u (.) v, x * y)
<1>1. Is(u, x) /\ Is(v, y)
  BY DEF Is
<1>2. Is(u (+) v, x + y) /\ Is(u (-) v, x - y) /\ Is(u (.) v, x * y)
  BY <1>1, IsOperations, Zenon
<1> QED
  BY <1>2 DEF Is

LEMMA NegIs ==
  ASSUME NEW q, NEW x, NEW y, At(q, x, y)
  PROVE  At(AffineNeg(q), 0 - x, y)
<1>1. q \in Curve /\ Is(q[1], x) /\ Is(q[2], y)
  BY DEF At
<1>2. AffineNeg(q) \in Curve /\ AffineNeg(q)[1] = Neg(q[1]) /\ AffineNeg(q)[2] = q[2]
  BY <1>1, AddNegative DEF AffineNeg
<1>3. Is(Neg(q[1]), 0 - x)
  BY <1>1, IsOperations, Zenon DEF Neg
<1> QED
  BY <1>1, <1>2, <1>3 DEF At

\* What the two products and their difference and sum come to.
LEMMA SumFormula ==
  ASSUME NEW x1 \in Int, NEW y1 \in Int, NEW x2 \in Int, NEW y2 \in Int, NEW z \in Int, NEW j \in Int
  PROVE  /\ (y1 * z + x1 * z) * ((y2 + x2) * j) - (y1 * z - x1 * z) * ((y2 - x2) * j)
              = (2 * (z * j)) * (x1 * y2 + x2 * y1)
         /\ (y1 * z + x1 * z) * ((y2 + x2) * j) + (y1 * z - x1 * z) * ((y2 - x2) * j)
              = (2 * (z * j)) * (y1 * y2 + x1 * x2)
         /\ (y1 * z + x1 * z) * ((y2 - x2) * j) - (y1 * z - x1 * z) * ((y2 + x2) * j)
              = (2 * (z * j)) * (x1 * y2 + (0 - x2) * y1)
         /\ (y1 * z + x1 * z) * ((y2 - x2) * j) + (y1 * z - x1 * z) * ((y2 + x2) * j)
              = (2 * (z * j)) * (y1 * y2 + x1 * (0 - x2))
         /\ 2 * (z * j) + ((2 * D) * (x2 * y2) * j) * ((x1 * y1) * z) = (2 * (z * j)) * (1 + D * ((x1 * y1) * (x2 * y2)))
         /\ 2 * (z * j) - ((2 * D) * (x2 * y2) * j) * ((x1 * y1) * z) = (2 * (z * j)) * (1 - D * ((x1 * y1) * (x2 * y2)))
         /\ 2 * (z * j) - ((2 * D) * (x2 * y2) * j) * ((x1 * y1) * z) = (2 * (z * j)) * (1 + D * ((x1 * y1) * ((0 - x2) * y2)))
         /\ 2 * (z * j) + ((2 * D) * (x2 * y2) * j) * ((x1 * y1) * z) = (2 * (z * j)) * (1 - D * ((x1 * y1) * ((0 - x2) * y2)))
<1>1. D \in Int
  BY Prime
<1>2. /\ (y1 * z + x1 * z) * ((y2 + x2) * j) - (y1 * z - x1 * z) * ((y2 - x2) * j)
           = (2 * (z * j)) * (x1 * y2 + x2 * y1)
      /\ (y1 * z + x1 * z) * ((y2 + x2) * j) + (y1 * z - x1 * z) * ((y2 - x2) * j)
           = (2 * (z * j)) * (y1 * y2 + x1 * x2)
  OBVIOUS
<1>3. /\ (y1 * z + x1 * z) * ((y2 - x2) * j) - (y1 * z - x1 * z) * ((y2 + x2) * j)
           = (2 * (z * j)) * (x1 * y2 + (0 - x2) * y1)
      /\ (y1 * z + x1 * z) * ((y2 - x2) * j) + (y1 * z - x1 * z) * ((y2 + x2) * j)
           = (2 * (z * j)) * (y1 * y2 + x1 * (0 - x2))
  OBVIOUS
<1>4. /\ ((2 * D) * (x2 * y2) * j) * ((x1 * y1) * z) = (2 * (z * j)) * (D * ((x1 * y1) * (x2 * y2)))
      /\ D * ((x1 * y1) * ((0 - x2) * y2)) = - (D * ((x1 * y1) * (x2 * y2)))
  BY <1>1
<1>6. 2 * (z * j) \in Int /\ D * ((x1 * y1) * (x2 * y2)) \in Int
  BY <1>1
<1>7. /\ 2 * (z * j) + ((2 * D) * (x2 * y2) * j) * ((x1 * y1) * z) = (2 * (z * j)) * (1 + D * ((x1 * y1) * (x2 * y2)))
      /\ 2 * (z * j) - ((2 * D) * (x2 * y2) * j) * ((x1 * y1) * z) = (2 * (z * j)) * (1 - D * ((x1 * y1) * (x2 * y2)))
      /\ 2 * (z * j) - ((2 * D) * (x2 * y2) * j) * ((x1 * y1) * z) = (2 * (z * j)) * (1 + D * ((x1 * y1) * ((0 - x2) * y2)))
      /\ 2 * (z * j) + ((2 * D) * (x2 * y2) * j) * ((x1 * y1) * z) = (2 * (z * j)) * (1 - D * ((x1 * y1) * ((0 - x2) * y2)))
  <2> DEFINE w == 2 * (z * j)
             t == D * ((x1 * y1) * (x2 * y2))
  <2>1. w \in Int /\ t \in Int
    BY <1>6
  <2>2. ((2 * D) * (x2 * y2) * j) * ((x1 * y1) * z) = w * t /\ D * ((x1 * y1) * ((0 - x2) * y2)) = -t
    BY <1>4
  <2> HIDE DEF w, t
  <2>3. /\ w + w * t = w * (1 + t) /\ w - w * t = w * (1 - t)
        /\ w - w * t = w * (1 + (-t)) /\ w + w * t = w * (1 - (-t))
    BY <2>1
  <2>4. /\ w + ((2 * D) * (x2 * y2) * j) * ((x1 * y1) * z) = w * (1 + t) /\ w - ((2 * D) * (x2 * y2) * j) * ((x1 * y1) * z) = w * (1 - t)
        /\ w - ((2 * D) * (x2 * y2) * j) * ((x1 * y1) * z) = w * (1 + D * ((x1 * y1) * ((0 - x2) * y2))) /\ w + ((2 * D) * (x2 * y2) * j) * ((x1 * y1) * z) = w * (1 - D * ((x1 * y1) * ((0 - x2) * y2)))
    BY <2>2, <2>3, Zenon
  <2> QED
    BY <2>4 DEF w, t
<1> QED
  BY <1>2, <1>3, <1>7, Zenon

\* The formulas that ge_add, ge_sub, ge_madd and ge_msub share, for a point with Z = e.
LEMMA FormulaRep ==
  ASSUME NEW u, NEW p, RepP3(u, p), NEW q, NEW x2, NEW y2, At(q, x2, y2), NEW j \in Int, ~Zero(j),
         NEW x \in F, NEW l \in F, NEW k \in F, NEW d \in F,
         Same(x, (y2 + x2) * j), Same(l, (y2 - x2) * j), Same(k, (2 * D) * (x2 * y2) * j),
         Same(d, 2 * (u.Z * j))
  PROVE  /\ RepP1(Sum((u.Y (+) u.X) (.) x, (u.Y (-) u.X) (.) l, k (.) u.T, d), AffineAdd(p, q))
         /\ RepP1(Dif((u.Y (+) u.X) (.) l, (u.Y (-) u.X) (.) x, k (.) u.T, d),
                  AffineAdd(p, AffineNeg(q)))
<1> DEFINE x1 == p[1]
           y1 == p[2]
           z == u.Z
           w == 2 * (z * j)
           f == (u.Y (+) u.X) (.) x
           g == (u.Y (-) u.X) (.) l
           m == (u.Y (+) u.X) (.) l
           n == (u.Y (-) u.X) (.) x
           c == k (.) u.T
<1>1. /\ u.X \in F /\ u.Y \in F /\ u.T \in F /\ z \in F /\ z # 0 /\ z \in Int
      /\ Same(u.X, x1 * z) /\ Same(u.Y, y1 * z) /\ Same(u.T, (x1 * y1) * z)
      /\ p \in Curve /\ x1 \in Int /\ y1 \in Int /\ At(p, x1, y1)
      /\ x2 \in Int /\ y2 \in Int /\ q \in Curve /\ D \in Int
  <2>1. p \in Curve /\ x1 \in F /\ y1 \in F /\ x1 \in Int /\ y1 \in Int
    BY PointIs DEF RepP3
  <2>2. At(p, x1, y1)
    BY <2>1, IsOperations DEF At
  <2>3. x2 \in Int /\ y2 \in Int /\ q \in Curve /\ D \in Int
    BY AtIs, Prime
  <2> QED
    BY <2>1, <2>2, <2>3, Prime DEF RepP3
<1> HIDE DEF x1, y1, z
<1>2. ~Zero(w) /\ w \in Int
  <2>4. z \in 1 .. P - 1 /\ 2 \in 1 .. P - 1
    BY <1>1, Prime
  <2>1. ~Zero(z) /\ ~Zero(2)
    BY <2>4, ZeroSmall
  <2>2. z * j \in Int /\ 2 \in Int
    BY <1>1
  <2>3. ~Zero(z * j)
    BY <1>1, <2>1, NoDivisors
  <2> DEFINE v == z * j
  <2> HIDE DEF v
  <2>5. v \in Int /\ ~Zero(v)
    BY <2>2, <2>3 DEF v
  <2>6. ~Zero(2 * v) /\ 2 * v \in Int
    BY <2>1, <2>5, 2 \in Int, NoDivisors
  <2> QED
    BY <2>6 DEF v
<1>3. /\ u.Y (+) u.X \in F /\ Same(u.Y (+) u.X, y1 * z + x1 * z)
      /\ u.Y (-) u.X \in F /\ Same(u.Y (-) u.X, y1 * z - x1 * z)
  BY <1>1, SameValues
<1>4. /\ f \in F /\ Same(f, (y1 * z + x1 * z) * ((y2 + x2) * j))
      /\ g \in F /\ Same(g, (y1 * z - x1 * z) * ((y2 - x2) * j))
      /\ m \in F /\ Same(m, (y1 * z + x1 * z) * ((y2 - x2) * j))
      /\ n \in F /\ Same(n, (y1 * z - x1 * z) * ((y2 + x2) * j))
  BY <1>3, SameValues
<1>5. c \in F /\ Same(c, ((2 * D) * (x2 * y2) * j) * ((x1 * y1) * z))
  BY <1>1, SameValues
<1>6. Same(d, w)
  BY DEF z
<1> HIDE DEF w, f, g, m, n, c
<1> DEFINE t == D * ((x1 * y1) * (x2 * y2))
           o == D * ((x1 * y1) * ((0 - x2) * y2))
<1>7. /\ f (-) g \in F /\ Same(f (-) g, w * (x1 * y2 + x2 * y1))
      /\ f (+) g \in F /\ Same(f (+) g, w * (y1 * y2 + x1 * x2))
      /\ m (-) n \in F /\ Same(m (-) n, w * (x1 * y2 + (0 - x2) * y1))
      /\ m (+) n \in F /\ Same(m (+) n, w * (y1 * y2 + x1 * (0 - x2)))
  <2>1. /\ f (-) g \in F /\ f (+) g \in F /\ m (-) n \in F /\ m (+) n \in F
        /\ Same(f (-) g, (y1 * z + x1 * z) * ((y2 + x2) * j) - (y1 * z - x1 * z) * ((y2 - x2) * j))
        /\ Same(f (+) g, (y1 * z + x1 * z) * ((y2 + x2) * j) + (y1 * z - x1 * z) * ((y2 - x2) * j))
        /\ Same(m (-) n, (y1 * z + x1 * z) * ((y2 - x2) * j) - (y1 * z - x1 * z) * ((y2 + x2) * j))
        /\ Same(m (+) n, (y1 * z + x1 * z) * ((y2 - x2) * j) + (y1 * z - x1 * z) * ((y2 + x2) * j))
    BY <1>4, SameValues
  <2> QED
    BY <1>1, <2>1, SumFormula DEF w
<1>8. /\ d (+) c \in F /\ Same(d (+) c, w * (1 + t)) /\ Same(d (+) c, w * (1 - o))
      /\ d (-) c \in F /\ Same(d (-) c, w * (1 - t)) /\ Same(d (-) c, w * (1 + o))
  <2>1. /\ d (+) c \in F /\ Same(d (+) c, w + ((2 * D) * (x2 * y2) * j) * ((x1 * y1) * z))
        /\ d (-) c \in F /\ Same(d (-) c, w - ((2 * D) * (x2 * y2) * j) * ((x1 * y1) * z))
    BY <1>5, <1>6, SameValues
  <2> QED
    BY <1>1, <2>1, SumFormula DEF w
<1>9. RepP1(Sum(f, g, c, d), AffineAdd(p, q))
  <2> DEFINE v == Sum(f, g, c, d)
  <2>1. /\ v \in [X : F, Y : F, Z : F, T : F]
        /\ v.X = f (-) g /\ v.Y = f (+) g /\ v.Z = d (+) c /\ v.T = d (-) c
    BY <1>7, <1>8 DEF Sum
  <2> HIDE DEF v, t, o
  <2>2. t = D * ((x1 * y1) * (x2 * y2))
    BY DEF t
  <2>3. /\ Same(v.X, w * (x1 * y2 + x2 * y1)) /\ Same(v.Y, w * (y1 * y2 + x1 * x2))
        /\ Same(v.Z, w * (1 + t)) /\ Same(v.T, w * (1 - t))
    BY <1>7, <1>8, <2>1
  <2>4. RepP1(v, AffineAdd(p, q))
    BY ONLY <1>1, <1>2, <2>1, <2>2, <2>3, At(q, x2, y2), SumRep
  <2> QED
    BY <2>4 DEF v
<1>10. RepP1(Dif(m, n, c, d), AffineAdd(p, AffineNeg(q)))
  <2> DEFINE v == Dif(m, n, c, d)
             s == 0 - x2
  <2>1. /\ v \in [X : F, Y : F, Z : F, T : F]
        /\ v.X = m (-) n /\ v.Y = m (+) n /\ v.Z = d (-) c /\ v.T = d (+) c
    BY <1>7, <1>8 DEF Dif
  <2> HIDE DEF v, t, o
  <2>5. At(AffineNeg(q), s, y2)
    BY NegIs
  <2>2. o = D * ((x1 * y1) * (s * y2))
    BY DEF o
  <2>3. /\ Same(v.X, w * (x1 * y2 + s * y1)) /\ Same(v.Y, w * (y1 * y2 + x1 * s))
        /\ Same(v.Z, w * (1 + o)) /\ Same(v.T, w * (1 - o))
    BY <1>7, <1>8, <2>1
  <2> HIDE DEF s
  <2>4. RepP1(v, AffineAdd(p, AffineNeg(q)))
    BY ONLY <1>1, <1>2, <2>1, <2>2, <2>3, <2>5, SumRep
  <2> QED
    BY <2>4 DEF v
<1> QED
  BY <1>9, <1>10 DEF f, g, m, n, c

\* The same for what ge_p3_to_cached prepares and for the entries of tables.
RepCached(c, q) ==
  /\ c \in [YplusX : F, YminusX : F, Z : F \ {0}, T2d : F] /\ q \in Curve
  /\ Same(c.YplusX, (q[2] + q[1]) * c.Z) /\ Same(c.YminusX, (q[2] - q[1]) * c.Z)
  /\ Same(c.T2d, (2 * D) * (q[1] * q[2]) * c.Z)

RepPre(c, q) ==
  /\ c \in [yplusx : F, yminusx : F, xy2d : F] /\ q \in Curve
  /\ Same(c.yplusx, q[2] + q[1]) /\ Same(c.yminusx, q[2] - q[1])
  /\ Same(c.xy2d, (2 * D) * (q[1] * q[2]))

LEMMA AddRep ==
  ASSUME NEW u, NEW p, RepP3(u, p), NEW c, NEW q, RepCached(c, q)
  PROVE  RepP1(GeAdd(u, c), AffineAdd(p, q)) /\ RepP1(GeSub(u, c), AffineAdd(p, AffineNeg(q)))
<1> DEFINE d == (u.Z (.) c.Z) (+) (u.Z (.) c.Z)
           x2 == q[1]
           y2 == q[2]
           j == c.Z
<1>1. u.Z \in F /\ j \in F /\ j \in Int /\ u.Z \in Int /\ j # 0
  BY Prime DEF RepP3, RepCached
<1>2. ~Zero(j)
  <2>1. j \in 1 .. P - 1
    BY <1>1, Prime
  <2> QED
    BY <2>1, ZeroSmall
<1>3. At(q, x2, y2)
  BY PointIs, IsOperations DEF At, RepCached
<1>4. /\ c.YplusX \in F /\ c.YminusX \in F /\ c.T2d \in F
      /\ Same(c.YplusX, (y2 + x2) * j) /\ Same(c.YminusX, (y2 - x2) * j)
      /\ Same(c.T2d, (2 * D) * (x2 * y2) * j)
  BY DEF RepCached
<1>5. d \in F /\ Same(d, 2 * (u.Z * j))
  <2>1. Same(u.Z, u.Z) /\ Same(j, j)
    BY <1>1, SameFacts
  <2>2. u.Z (.) j \in F /\ Same(u.Z (.) j, u.Z * j)
    BY <1>1, <2>1, SameValues
  <2>3. d \in F /\ Same(d, u.Z * j + u.Z * j)
    BY <2>2, SameValues
  <2>4. u.Z * j + u.Z * j = 2 * (u.Z * j)
    <3> DEFINE z == u.Z
    <3> HIDE DEF z, j
    <3>1. z * j + z * j = 2 * (z * j)
      BY <1>1 DEF z
    <3> QED
      BY <3>1 DEF z, j
  <2> QED
    BY <2>3, <2>4, Zenon
<1> HIDE DEF d, x2, y2, j
<1>6. /\ RepP1(Sum((u.Y (+) u.X) (.) c.YplusX, (u.Y (-) u.X) (.) c.YminusX, c.T2d (.) u.T, d), AffineAdd(p, q))
      /\ RepP1(Dif((u.Y (+) u.X) (.) c.YminusX, (u.Y (-) u.X) (.) c.YplusX, c.T2d (.) u.T, d),
                  AffineAdd(p, AffineNeg(q)))
  BY <1>1, <1>2, <1>3, <1>4, <1>5, FormulaRep
<1> QED
  BY <1>6, Zenon DEF GeAdd, GeSub, d, j

LEMMA MaddRep ==
  ASSUME NEW u, NEW p, RepP3(u, p), NEW c, NEW q, RepPre(c, q)
  PROVE  RepP1(GeMadd(u, c), AffineAdd(p, q)) /\ RepP1(GeMsub(u, c), AffineAdd(p, AffineNeg(q)))
<1> DEFINE d == u.Z (+) u.Z
           x2 == q[1]
           y2 == q[2]
<1>1. u.Z \in F /\ u.Z \in Int /\ D \in Int
  BY Prime DEF RepP3
<1>2. ~Zero(1) /\ 1 \in Int
  <2>1. 1 \in 1 .. P - 1
    BY Prime
  <2> QED
    BY <2>1, ZeroSmall
<1>3. At(q, x2, y2) /\ x2 \in Int /\ y2 \in Int
  BY PointIs, IsOperations DEF At, RepPre
<1>4. /\ c.yplusx \in F /\ c.yminusx \in F /\ c.xy2d \in F
      /\ Same(c.yplusx, y2 + x2) /\ Same(c.yminusx, y2 - x2)
      /\ Same(c.xy2d, (2 * D) * (x2 * y2))
  BY DEF RepPre
<1> HIDE DEF x2, y2
<1>5. d \in F /\ Same(d, 2 * (u.Z * 1))
  <2>1. Same(u.Z, u.Z)
    BY <1>1, SameFacts
  <2>2. d \in F /\ Same(d, u.Z + u.Z)
    BY <1>1, <2>1, SameValues
  <2>3. u.Z + u.Z = 2 * (u.Z * 1)
    BY <1>1
  <2> QED
    BY <2>2, <2>3, Zenon
<1> HIDE DEF d
<1>6. /\ Same(c.yplusx, (y2 + x2) * 1) /\ Same(c.yminusx, (y2 - x2) * 1)
      /\ Same(c.xy2d, (2 * D) * (x2 * y2) * 1)
  <2>1. (y2 + x2) * 1 = y2 + x2 /\ (y2 - x2) * 1 = y2 - x2 /\ (2 * D) * (x2 * y2) * 1 = (2 * D) * (x2 * y2)
    BY <1>1, <1>3
  <2> QED
    BY <1>4, <2>1
<1>7. /\ RepP1(Sum((u.Y (+) u.X) (.) c.yplusx, (u.Y (-) u.X) (.) c.yminusx, c.xy2d (.) u.T, d), AffineAdd(p, q))
      /\ RepP1(Dif((u.Y (+) u.X) (.) c.yminusx, (u.Y (-) u.X) (.) c.yplusx, c.xy2d (.) u.T, d),
                  AffineAdd(p, AffineNeg(q)))
  BY <1>2, <1>3, <1>4, <1>5, <1>6, FormulaRep
<1> QED
  BY <1>7, Zenon DEF GeMadd, GeMsub, d

\* Doubling needs no T: the equation of the curve stands for it.
LEMMA DoubleRep ==
  ASSUME NEW u, NEW p \in Curve, u.X \in F, u.Y \in F, u.Z \in F, u.Z # 0,
         Same(u.X, p[1] * u.Z), Same(u.Y, p[2] * u.Z)
  PROVE  RepP1(GeDbl(u), AffineAdd(p, p))
<1> DEFINE x == p[1]
           y == p[2]
           z == u.Z
           w == z * z
           t == D * ((x * y) * (x * y))
           m == Sq(u.Y) (+) Sq(u.X)
           n == Sq(u.Y) (-) Sq(u.X)
           f == Sq(u.X (+) u.Y) (-) m
           g == Sq2(u.Z) (-) n
           v == GeDbl(u)
<1>1. /\ x \in Int /\ y \in Int /\ z \in Int /\ D \in Int /\ w \in Int /\ t \in Int /\ Zero(Beside(x, y)) /\ ~Zero(z)
      /\ At(p, x, y) /\ Same(u.X, x * z) /\ Same(u.Y, y * z) /\ Same(z, z) /\ z \in F
  <2>1. z \in 1 .. P - 1
    BY Prime
  <2>2. x \in Int /\ y \in Int /\ D \in Int /\ Zero(Beside(x, y)) /\ x \in F /\ y \in F
    BY PointIs, Prime DEF On
  <2>3. At(p, x, y)
    BY <2>2, IsOperations DEF At
  <2> QED
    BY <2>1, <2>2, <2>3, ZeroSmall, SameFacts
<1>2. ~Zero(w)
  BY <1>1, NoDivisors
<1>3. v = [X |-> f, Y |-> m, Z |-> n, T |-> g]
  BY Zenon DEF GeDbl
<1>4. /\ Sq(u.X) \in F /\ Same(Sq(u.X), (x * z) * (x * z))
      /\ Sq(u.Y) \in F /\ Same(Sq(u.Y), (y * z) * (y * z))
      /\ Sq(z) \in F /\ Same(Sq(z), z * z)
      /\ u.X (+) u.Y \in F /\ Same(u.X (+) u.Y, x * z + y * z)
  BY <1>1, SameValues DEF Sq
<1>5. Sq(u.X (+) u.Y) \in F /\ Same(Sq(u.X (+) u.Y), (x * z + y * z) * (x * z + y * z))
  BY <1>4, SameValues DEF Sq
<1>6. /\ m \in F /\ Same(m, (y * z) * (y * z) + (x * z) * (x * z))
      /\ n \in F /\ Same(n, (y * z) * (y * z) - (x * z) * (x * z))
  BY <1>4, SameValues
<1>7. Sq2(z) \in F /\ Same(Sq2(z), 2 * (z * z))
  <2>1. 2 \in F /\ Same(2, 2)
    BY Prime, SameFacts
  <2> QED
    BY <1>4, <2>1, SameValues DEF Sq2
<1> HIDE DEF x, y, t, m, n
<1>8. f \in F /\ Same(f, (x * z + y * z) * (x * z + y * z) - ((y * z) * (y * z) + (x * z) * (x * z)))
  BY <1>5, <1>6, SameValues
<1>9. g \in F /\ Same(g, 2 * (z * z) - ((y * z) * (y * z) - (x * z) * (x * z)))
  BY <1>6, <1>7, SameValues DEF z
<1> HIDE DEF z, f, g, w, v
<1>10. /\ (x * z + y * z) * (x * z + y * z) - ((y * z) * (y * z) + (x * z) * (x * z)) = w * (x * y + x * y)
       /\ (y * z) * (y * z) + (x * z) * (x * z) = w * (y * y + x * x)
       /\ (y * z) * (y * z) - (x * z) * (x * z) = w * (1 + t) + w * Beside(x, y)
       /\ 2 * (z * z) - ((y * z) * (y * z) - (x * z) * (x * z)) = w * (1 - t) - w * Beside(x, y)
  BY <1>1 DEF w, t, Beside, Cross, DifSq
<1>11. /\ Same(w * (1 + t) + w * Beside(x, y), w * (1 + t)) /\ Same(w * (1 - t) - w * Beside(x, y), w * (1 - t))
  <2> DEFINE k == Beside(x, y)
             o == w * (1 + t)
             l == w * (1 - t)
  <2>6. k \in Int
    BY <1>1, Integers1
  <2>7. \A c, s \in Int : c * (1 + s) \in Int /\ c * (1 - s) \in Int /\ c * s \in Int
    OBVIOUS
  <2>8. w \in Int /\ t \in Int
    BY <1>1 DEF w, t
  <2>1. k \in Int /\ o \in Int /\ l \in Int /\ w * k \in Int
    BY <2>6, <2>7, <2>8
  <2>2. Zero(w * k)
    BY <1>1, <2>1, ZeroTimes
  <2> HIDE DEF k, o, l
  <2>3. (o + w * k) - o = w * k /\ (l - w * k) - l = 0 - w * k
    BY <1>1, <2>1
  <2>4. Zero(0 - w * k)
    BY <2>1, <2>2, ZeroSum, ZeroSmall
  <2>5. Same(o + w * k, o) /\ Same(l - w * k, l)
    BY <2>1, <2>2, <2>3, <2>4 DEF Same
  <2> QED
    BY <2>5 DEF k, o, l
<1>12. /\ Same(f, w * (x * y + x * y)) /\ Same(m, w * (y * y + x * x))
       /\ Same(n, w * (1 + t)) /\ Same(g, w * (1 - t))
  BY <1>6, <1>8, <1>9, <1>10, <1>11, SameTrans
<1>13. v \in [X : F, Y : F, Z : F, T : F] /\ v.X = f /\ v.Y = m /\ v.Z = n /\ v.T = g
  BY <1>3, <1>6, <1>8, <1>9
<1>14. t = D * ((x * y) * (x * y))
  BY DEF t
<1>15. /\ Same(v.X, w * (x * y + x * y)) /\ Same(v.Y, w * (y * y + x * x))
       /\ Same(v.Z, w * (1 + t)) /\ Same(v.T, w * (1 - t))
  BY <1>12, <1>13
<1>16. RepP1(v, AffineAdd(p, p))
  BY ONLY <1>1, <1>2, <1>13, <1>14, <1>15, SumRep
<1> QED
  BY <1>16 DEF v

\* The conversions between the structs.
LEMMA NotZero ==
  ASSUME NEW u \in F \ {0}, NEW v \in F \ {0}
  PROVE  /\ u \in Int /\ v \in Int /\ ~Zero(u) /\ u (.) v \in F \ {0} /\ Same(u (.) v, u * v)
         /\ Same(u, u) /\ Same(v, v)
<1>1. u \in 1 .. P - 1 /\ v \in 1 .. P - 1
  BY Prime
<1>2. ~Zero(u) /\ ~Zero(v) /\ u \in Int /\ v \in Int
  BY <1>1, ZeroSmall
<1>3. Same(u, u) /\ Same(v, v)
  BY <1>2, SameFacts
<1>4. u (.) v \in F /\ Same(u (.) v, u * v)
  BY <1>3, SameValues
<1>5. ~Zero(u * v) /\ u * v \in Int
  BY <1>2, NoDivisors
<1>6. u (.) v # 0
  <2>1. 0 - u * v \in Int /\ Same(0, u * v) => Zero(0 - u * v) 
    BY <1>5 DEF Same
  <2>2. Same(u (.) v, u * v) => (Zero(u (.) v) <=> Zero(u * v))
    BY <1>5, <1>4, SameFacts, Prime
  <2> QED
    BY <1>4, <1>5, <2>2, ZeroSmall
<1> QED
  BY <1>2, <1>3, <1>4, <1>6

LEMMA ConvertRep ==
  ASSUME NEW u, NEW p, RepP1(u, p)
  PROVE  RepP3(P1P1ToP3(u), p) /\ RepP2(P1P1ToP2(u), p)
<1> DEFINE x == p[1]
           y == p[2]
           f == u.X
           g == u.Y
           z == u.Z
           t == u.T
<1>1. /\ f \in F /\ g \in F /\ z \in F \ {0} /\ t \in F \ {0} /\ x \in Int /\ y \in Int /\ p \in Curve
      /\ Same(f, x * z) /\ Same(g, y * t)
  BY PointIs DEF RepP1
<1>2. P1P1ToP3(u) = [X |-> f (.) t, Y |-> g (.) z, Z |-> z (.) t, T |-> f (.) g]
  BY DEF P1P1ToP3
<1>3. P1P1ToP2(u) = [X |-> f (.) t, Y |-> g (.) z, Z |-> z (.) t]
  BY DEF P1P1ToP2
<1> HIDE DEF f, g, z, t
<1>4. z \in Int /\ t \in Int /\ z (.) t \in F \ {0} /\ Same(z (.) t, z * t) /\ Same(z, z) /\ Same(t, t)
  BY <1>1, NotZero
<1>5. /\ f (.) t \in F /\ Same(f (.) t, (x * z) * t) /\ g (.) z \in F /\ Same(g (.) z, (y * t) * z)
      /\ f (.) g \in F /\ Same(f (.) g, (x * z) * (y * t))
  BY <1>1, <1>4, SameValues
<1> DEFINE o == z (.) t
           l == z * t
<1>6. Same(x, x) /\ Same(y, y) /\ Same(x * y, x * y) /\ Same(l, o)
  <2>1. x * y \in Int
    BY <1>1
  <2> QED
    BY <1>1, <1>4, <2>1, SameFacts, SameSym
<1>7. (x * z) * t = x * l /\ (y * t) * z = y * l /\ (x * z) * (y * t) = (x * y) * l
  BY <1>1, <1>4
<1> HIDE DEF o, l, x, y
<1>8. Same(x * l, x * o) /\ Same(y * l, y * o) /\ Same((x * y) * l, (x * y) * o)
  BY <1>6, SameOperations
<1>9. Same(f (.) t, x * o) /\ Same(g (.) z, y * o) /\ Same(f (.) g, (x * y) * o)
  BY <1>5, <1>7, <1>8, SameTrans
<1> QED
  BY <1>1, <1>2, <1>3, <1>4, <1>5, <1>9 DEF RepP3, RepP2, o, x, y

LEMMA DropRep == \A u, p : RepP3(u, p) => RepP2(P3ToP2(u), p)
BY SMT DEF RepP3, RepP2, P3ToP2

LEMMA TwiceD == 2 (.) D \in F /\ Same(2 (.) D, 2 * D) /\ D \in Int
<1>1. 2 \in F /\ D \in F /\ D \in Int
  BY Prime
<1>2. Same(2, 2) /\ Same(D, D)
  BY <1>1, SameFacts
<1> QED
  BY <1>1, <1>2, SameValues

LEMMA CachedRep ==
  ASSUME NEW u, NEW p, RepP3(u, p)
  PROVE  RepCached(P3ToCached(u), p)
<1> DEFINE x == p[1]
           y == p[2]
           z == u.Z
           k == 2 (.) D
<1>1. /\ u.X \in F /\ u.Y \in F /\ u.T \in F /\ z \in F \ {0} /\ z \in Int /\ x \in Int /\ y \in Int /\ p \in Curve
      /\ Same(u.X, x * z) /\ Same(u.Y, y * z) /\ Same(u.T, (x * y) * z)
  BY PointIs, Prime DEF RepP3
<1>2. P3ToCached(u) = [YplusX |-> u.Y (+) u.X, YminusX |-> u.Y (-) u.X, Z |-> z, T2d |-> u.T (.) k]
  BY DEF P3ToCached
<1> HIDE DEF x, y, z
<1>3. k \in F /\ Same(k, 2 * D) /\ D \in Int
  BY TwiceD
<1> HIDE DEF k
<1>4. /\ u.Y (+) u.X \in F /\ Same(u.Y (+) u.X, y * z + x * z)
      /\ u.Y (-) u.X \in F /\ Same(u.Y (-) u.X, y * z - x * z)
      /\ u.T (.) k \in F /\ Same(u.T (.) k, ((x * y) * z) * (2 * D))
  BY <1>1, <1>3, SameValues
<1>5. y * z + x * z = (y + x) * z /\ y * z - x * z = (y - x) * z /\ ((x * y) * z) * (2 * D) = (2 * D) * (x * y) * z
  BY <1>1, <1>3
<1>6. /\ Same(u.Y (+) u.X, (y + x) * z) /\ Same(u.Y (-) u.X, (y - x) * z)
      /\ Same(u.T (.) k, (2 * D) * (x * y) * z)
  BY <1>4, <1>5, Zenon
<1> QED
  BY <1>1, <1>2, <1>4, <1>6 DEF RepCached, x, y

LEMMA PrecompRep ==
  /\ \A q \in Curve : RepPre(Precomp(q), q)
  /\ RepPre(PreZero, Neutral)
<1>1. ASSUME NEW q \in Curve PROVE RepPre(Precomp(q), q)
  <2> DEFINE x == q[1]
             y == q[2]
             k == 2 (.) D
  <2>1. x \in F /\ y \in F /\ Same(x, x) /\ Same(y, y) /\ k \in F /\ Same(k, 2 * D)
    BY PointIs, SameFacts, TwiceD
  <2>2. Precomp(q) = [yplusx |-> y (+) x, yminusx |-> y (-) x, xy2d |-> k (.) (x (.) y)]
    BY DEF Precomp
  <2> HIDE DEF x, y, k
  <2>3. /\ y (+) x \in F /\ Same(y (+) x, y + x) /\ y (-) x \in F /\ Same(y (-) x, y - x)
        /\ x (.) y \in F /\ Same(x (.) y, x * y)
    BY <2>1, SameValues
  <2>4. k (.) (x (.) y) \in F /\ Same(k (.) (x (.) y), (2 * D) * (x * y))
    BY <2>1, <2>3, SameValues
  <2> QED
    BY <2>2, <2>3, <2>4 DEF RepPre, x, y
<1>2. RepPre(PreZero, Neutral)
  <2>1. 0 \in F /\ 1 \in F /\ D \in Int /\ Neutral \in Curve /\ Neutral[1] = 0 /\ Neutral[2] = 1
    BY Prime, PointIs DEF Neutral
  <2>2. 1 + 0 = 1 /\ 1 - 0 = 1 /\ (2 * D) * (0 * 1) = 0 /\ Same(1, 1) /\ Same(0, 0)
    BY <2>1, SameFacts
  <2>3. PreZero \in [yplusx : F, yminusx : F, xy2d : F] /\ PreZero.yplusx = 1 /\ PreZero.yminusx = 1 /\ PreZero.xy2d = 0
    BY <2>1 DEF PreZero
  <2> QED
    BY <2>1, <2>2, <2>3 DEF RepPre
<1> QED
  BY <1>1, <1>2

LEMMA NegSame ==
  ASSUME NEW u \in F, NEW x, Same(u, x)
  PROVE  Neg(u) \in F /\ Same(Neg(u), 0 - x)
<1>1. 0 \in F /\ Same(0, 0)
  BY Prime, SameFacts
<1> QED
  BY <1>1, SameValues DEF Neg

LEMMA PrecompNegRep ==
  ASSUME NEW c, NEW q, RepPre(c, q)
  PROVE  RepPre(PrecompNeg(c), AffineNeg(q))
<1> DEFINE x == q[1]
           y == q[2]
           n == AffineNeg(q)[1]
<1>1. /\ c.yplusx \in F /\ c.yminusx \in F /\ c.xy2d \in F /\ q \in Curve
      /\ x \in F /\ x \in Int /\ y \in Int /\ D \in Int
      /\ Same(c.yplusx, y + x) /\ Same(c.yminusx, y - x) /\ Same(c.xy2d, (2 * D) * (x * y))
  BY PointIs, Prime DEF RepPre
<1>2. AffineNeg(q) \in Curve /\ n = Neg(x) /\ AffineNeg(q)[2] = y
  BY <1>1, AddNegative DEF AffineNeg
<1>3. Same(n, 0 - x) /\ n \in Int
  BY <1>1, <1>2, NegSame, SameFacts DEF Same
<1>4. PrecompNeg(c) = [yplusx |-> c.yminusx, yminusx |-> c.yplusx, xy2d |-> Neg(c.xy2d)]
  BY DEF PrecompNeg
<1>5. Neg(c.xy2d) \in F /\ Same(Neg(c.xy2d), 0 - (2 * D) * (x * y))
  BY <1>1, NegSame
<1> HIDE DEF x, y, n
<1>6. Same(0 - x, n) /\ Same(y, y) /\ Same(2 * D, 2 * D)
  <2>1. 2 * D \in Int
    BY <1>1
  <2> QED
    BY <1>1, <1>3, <2>1, SameFacts, SameSym
<1>7. Same(y + (0 - x), y + n) /\ Same(y - (0 - x), y - n) /\ Same((2 * D) * ((0 - x) * y), (2 * D) * (n * y))
  BY <1>6, SameOperations
<1>8. y + (0 - x) = y - x /\ y - (0 - x) = y + x /\ (2 * D) * ((0 - x) * y) = 0 - (2 * D) * (x * y)
  BY <1>1
<1>9. Same(c.yminusx, y + n) /\ Same(c.yplusx, y - n) /\ Same(Neg(c.xy2d), (2 * D) * (n * y))
  BY <1>1, <1>5, <1>7, <1>8, SameTrans
<1> QED
  BY <1>1, <1>2, <1>4, <1>5, <1>9 DEF RepPre, n
-----------------------------------------------------------------------------
(***************************************************************************)
(* Powers in the field.                                                    *)
(***************************************************************************)
\* Products.
LEMMA Products ==
  /\ \A u, v \in F : u (.) v \in F /\ u (.) v = v (.) u
  /\ \A u, v, w \in F : (u (.) v) (.) w = u (.) (v (.) w)
  /\ \A u \in F : u (.) 1 = u /\ 1 (.) u = u /\ u (.) 0 = 0 /\ 0 (.) u = 0
  /\ 0 \in F /\ 1 \in F
<1>1. 0 \in F /\ 1 \in F /\ \A u \in F : u \in Int
  BY Prime
<1>2. \A u \in F : Same(u, u)
  BY <1>1, SameFacts
<1>3. ASSUME NEW u \in F, NEW v \in F PROVE u (.) v \in F /\ u (.) v = v (.) u
  <2>1. u * v = v * u
    BY <1>1
  <2> QED
    BY <1>2, <2>1, SameValues DEF (.)
<1>4. ASSUME NEW u \in F, NEW v \in F, NEW w \in F PROVE (u (.) v) (.) w = u (.) (v (.) w)
  <2>1. u (.) v \in F /\ Same(u (.) v, u * v) /\ v (.) w \in F /\ Same(v (.) w, v * w)
    BY <1>2, SameValues
  <2>2. /\ (u (.) v) (.) w \in F /\ Same((u (.) v) (.) w, (u * v) * w)
        /\ u (.) (v (.) w) \in F /\ Same(u (.) (v (.) w), u * (v * w))
    BY <1>2, <2>1, SameValues
  <2>3. (u * v) * w = u * (v * w)
    BY <1>1
  <2>4. Same(u * (v * w), u (.) (v (.) w))
    BY <2>2, SameSym
  <2>5. Same((u (.) v) (.) w, u (.) (v (.) w))
    BY <2>2, <2>3, <2>4, SameTrans
  <2> QED
    BY <2>2, <2>5, ZeroSmall
<1>5. ASSUME NEW u \in F PROVE u (.) 1 = u /\ 1 (.) u = u /\ u (.) 0 = 0 /\ 0 (.) u = 0
  <2>1. u \in Nat /\ u < P /\ P \in Nat \ {0} /\ u * 1 = u /\ 1 * u = u /\ u * 0 = 0 /\ 0 * u = 0 /\ 0 < P
    BY Prime
  <2>2. u % P = u /\ 0 % P = 0
    BY <2>1, SmallDiv
  <2> QED
    BY <2>1, <2>2 DEF (.)
<1> QED
  BY <1>1, <1>3, <1>4, <1>5

\* Powers, as their recursive definition says.
LEMMA PowerIs ==
  ASSUME NEW u \in F
  PROVE  /\ Power(u, 0) = 1 /\ Power(u, 1) = u
         /\ \A n \in Nat : Power(u, n) \in F /\ Power(u, n + 1) = Power(u, n) (.) u
<1> DEFINE Upto(m, j) == j = [k \in 0 .. m |-> IF k = 0 THEN 1 ELSE j[k - 1] (.) u]
           f == [y \in F |-> y (.) u]
<1>1. \A y \in F : f[y] = y (.) u /\ f[y] \in F
  BY Products
<1>2. ASSUME NEW m \in Nat
      PROVE  \E c : Iterates(F, f, 1, m, c) /\ c[m] = Power(u, m)
  <2> DEFINE g == CHOOSE j : Upto(m, j)
  <2> HIDE DEF f
  <2>1. PICK c : Iterates(F, f, 1, m, c)
    <3>1. 1 \in F /\ \A y \in F : f[y] \in F
      BY <1>1, Products
    <3> QED
      BY <3>1, IteratesExist
  <2>2. /\ c \in [0 .. m -> F] /\ c[0] = 1
        /\ \A k \in 0 .. m - 1 : c[k + 1] = f[c[k]]
    BY <2>1 DEF Iterates
  <2>3. ASSUME NEW k \in 0 .. m PROVE c[k] = IF k = 0 THEN 1 ELSE c[k - 1] (.) u
    <3>1. CASE k = 0
      BY <2>2, <3>1
    <3>2. CASE k # 0
      <4>1. k - 1 \in 0 .. m - 1 /\ k - 1 \in 0 .. m /\ (k - 1) + 1 = k
        BY <3>2
      <4>2. c[k - 1] \in F /\ c[k] = f[c[k - 1]]
        BY <2>2, <4>1
      <4> QED
        BY <1>1, <3>2, <4>2
    <3> QED
      BY <3>1, <3>2
  <2>4. Upto(m, c)
    <3> DEFINE d == [k \in 0 .. m |-> IF k = 0 THEN 1 ELSE c[k - 1] (.) u]
    <3>1. DOMAIN c = 0 .. m /\ c = [k \in DOMAIN c |-> c[k]]
      BY <2>2, Zenon
    <3>2. c = d
      BY <2>3, <3>1
    <3> QED
      BY <3>2, Zenon
  <2>5. Upto(m, g)
    BY <2>4, Zenon
  <2>6. Power(u, m) = g[m]
    BY Zenon DEF Power
  <2> HIDE DEF g
  <2>7. \A k \in 0 .. m : g[k] = IF k = 0 THEN 1 ELSE g[k - 1] (.) u
    BY <2>5, Zenon
  <2> DEFINE T == {k \in Nat : k <= m => g[k] = c[k]}
  <2>8. 0 \in T
    BY <2>2, <2>7
  <2>9. ASSUME NEW k \in Nat, k \in T PROVE k + 1 \in T
    <3> SUFFICES ASSUME k + 1 <= m PROVE g[k + 1] = c[k + 1]
      OBVIOUS
    <3>1. k + 1 \in 0 .. m /\ k + 1 # 0 /\ (k + 1) - 1 = k /\ g[k] = c[k]
      BY <2>9
    <3>2. g[k + 1] = g[k] (.) u /\ c[k + 1] = c[k] (.) u
      BY <2>3, <2>7, <3>1
    <3> QED
      BY <3>1, <3>2
  <2> HIDE DEF T
  <2>10. \A k \in Nat : k \in T
    BY <2>8, <2>9, Induction
  <2>11. g[m] = c[m]
    BY <2>10 DEF T
  <2> QED
    BY <2>1, <2>6, <2>11, Zenon
<1> HIDE DEF f
<1>3. Power(u, 0) = 1
  BY <1>2, 0 \in Nat DEF Iterates
<1>4. ASSUME NEW n \in Nat PROVE Power(u, n) \in F /\ Power(u, n + 1) = Power(u, n) (.) u
  <2>0. n + 1 \in Nat
    OBVIOUS
  <2>1. PICK c : Iterates(F, f, 1, n, c) /\ c[n] = Power(u, n)
    BY <1>2
  <2>2. PICK d : Iterates(F, f, 1, n + 1, d) /\ d[n + 1] = Power(u, n + 1)
    BY <1>2, <2>0
  <2>3. /\ c \in [0 .. n -> F] /\ c[0] = 1 /\ \A k \in 0 .. n - 1 : c[k + 1] = f[c[k]]
        /\ d[0] = 1 /\ \A k \in 0 .. (n + 1) - 1 : d[k + 1] = f[d[k]]
    BY <2>1, <2>2 DEF Iterates
  <2> DEFINE T == {k \in Nat : k <= n => c[k] = d[k]}
  <2>4. 0 \in T
    BY <2>3
  <2>5. ASSUME NEW k \in Nat, k \in T PROVE k + 1 \in T
    <3> SUFFICES ASSUME k + 1 <= n PROVE c[k + 1] = d[k + 1]
      OBVIOUS
    <3>1. k \in 0 .. n - 1 /\ k \in 0 .. (n + 1) - 1 /\ c[k] = d[k]
      BY <2>5
    <3> QED
      BY <2>3, <3>1
  <2> HIDE DEF T
  <2>6. \A k \in Nat : k \in T
    BY <2>4, <2>5, Induction
  <2>7. c[n] = d[n] /\ c[n] \in F
    BY <2>3, <2>6 DEF T
  <2>8. d[n + 1] = f[d[n]]
    BY <2>3
  <2> QED
    BY <1>1, <2>1, <2>2, <2>7, <2>8
<1>5. Power(u, 1) = u
  <2>1. Power(u, 0 + 1) = 1 (.) u /\ 0 + 1 = 1
    BY <1>3, <1>4, 0 \in Nat
  <2> QED
    BY <2>1, Products
<1> QED
  BY <1>3, <1>4, <1>5

LEMMA PowerRules ==
  ASSUME NEW u \in F
  PROVE  /\ \A n, m \in Nat : Power(u, n + m) = Power(u, n) (.) Power(u, m)
         /\ \A n, m \in Nat : Power(u, n * m) = Power(Power(u, n), m)
         /\ \A v \in F : \A n \in Nat : Power(u (.) v, n) = Power(u, n) (.) Power(v, n)
<1>1. ASSUME NEW n \in Nat
      PROVE  \A m \in Nat : Power(u, n + m) = Power(u, n) (.) Power(u, m)
  <2> DEFINE T == {m \in Nat : Power(u, n + m) = Power(u, n) (.) Power(u, m)}
  <2>1. 0 \in T
    <3>1. n + 0 = n /\ 0 \in Nat
      OBVIOUS
    <3> QED
      BY <3>1, PowerIs, Products
  <2>2. ASSUME NEW m \in Nat, m \in T PROVE m + 1 \in T
    <3>1. n + (m + 1) = (n + m) + 1 /\ n + m \in Nat /\ m + 1 \in Nat
      OBVIOUS
    <3>2. /\ Power(u, n + (m + 1)) = Power(u, n + m) (.) u
          /\ Power(u, m + 1) = Power(u, m) (.) u
          /\ Power(u, n) \in F /\ Power(u, m) \in F
      BY <3>1, PowerIs
    <3>3. (Power(u, n) (.) Power(u, m)) (.) u = Power(u, n) (.) (Power(u, m) (.) u)
      BY <3>2, Products
    <3> QED
      BY <2>2, <3>1, <3>2, <3>3
  <2> HIDE DEF T
  <2>3. \A m \in Nat : m \in T
    BY <2>1, <2>2, Induction
  <2> QED
    BY <2>3 DEF T
<1>2. ASSUME NEW n \in Nat
      PROVE  \A m \in Nat : Power(u, n * m) = Power(Power(u, n), m)
  <2> DEFINE T == {m \in Nat : Power(u, n * m) = Power(Power(u, n), m)}
  <2>1. Power(u, n) \in F
    BY PowerIs
  <2>2. 0 \in T
    <3>1. n * 0 = 0 /\ 0 \in Nat
      OBVIOUS
    <3> QED
      BY <2>1, <3>1, PowerIs
  <2>3. ASSUME NEW m \in Nat, m \in T PROVE m + 1 \in T
    <3>1. n * (m + 1) = n * m + n /\ n * m \in Nat /\ m + 1 \in Nat
      OBVIOUS
    <3>2. Power(u, n * m + n) = Power(u, n * m) (.) Power(u, n)
      BY <1>1, <3>1
    <3>3. Power(Power(u, n), m + 1) = Power(Power(u, n), m) (.) Power(u, n)
      BY <2>1, PowerIs
    <3> QED
      BY <2>3, <3>1, <3>2, <3>3
  <2> HIDE DEF T
  <2>4. \A m \in Nat : m \in T
    BY <2>2, <2>3, Induction
  <2> QED
    BY <2>4 DEF T
<1>3. ASSUME NEW v \in F
      PROVE  \A n \in Nat : Power(u (.) v, n) = Power(u, n) (.) Power(v, n)
  <2> DEFINE w == u (.) v
             T == {n \in Nat : Power(w, n) = Power(u, n) (.) Power(v, n)}
  <2>1. w \in F
    BY Products
  <2>2. 0 \in T
    BY <2>1, PowerIs, Products, 0 \in Nat
  <2>3. ASSUME NEW n \in Nat, n \in T PROVE n + 1 \in T
    <3> DEFINE x == Power(u, n)
               y == Power(v, n)
    <3>1. /\ x \in F /\ y \in F /\ Power(u, n + 1) = x (.) u /\ Power(v, n + 1) = y (.) v
          /\ Power(w, n + 1) = Power(w, n) (.) w
      BY <2>1, PowerIs
    <3>2. Power(w, n) = x (.) y
      BY <2>3
    <3> HIDE DEF x, y
    <3>3. (x (.) y) (.) (u (.) v) = (x (.) u) (.) (y (.) v)
      <4>1. (x (.) y) (.) (u (.) v) = x (.) (y (.) (u (.) v))
        BY <3>1, Products
      <4>2. y (.) (u (.) v) = (y (.) u) (.) v /\ (y (.) u) (.) v = (u (.) y) (.) v /\ (u (.) y) (.) v = u (.) (y (.) v)
        BY <3>1, Products
      <4>3. x (.) (u (.) (y (.) v)) = (x (.) u) (.) (y (.) v)
        BY <3>1, Products
      <4> QED
        BY <4>1, <4>2, <4>3, Zenon
    <3>4. Power(w, n + 1) = Power(u, n + 1) (.) Power(v, n + 1)
      BY <3>1, <3>2, <3>3 DEF w
    <3> QED
      BY <3>4, n + 1 \in Nat
  <2> HIDE DEF T
  <2>4. \A n \in Nat : n \in T
    BY <2>2, <2>3, Induction
  <2> QED
    BY <2>4 DEF T, w
<1> QED
  BY <1>1, <1>2, <1>3

\* Fermat's theorem, from that of Lagrange.
Units == F \ {0}
Product == [s \in Units \X Units |-> s[1] (.) s[2]]

LEMMA ProductIs == \A u, v \in Units : Of(Product, u, v) = u (.) v
<1> SUFFICES ASSUME NEW u \in Units, NEW v \in Units PROVE Product[<<u, v>>] = u (.) v
  BY DEF Of
<1>1. <<u, v>> \in Units \X Units /\ <<u, v>>[1] = u /\ <<u, v>>[2] = v
  OBVIOUS
<1> QED
  BY <1>1, Zenon DEF Product

LEMMA UnitsAreGroup == IsGroup(Units, Product, 1) /\ Cardinality(Units) = P - 1 /\ P - 1 \in Nat
<1>1. IsFiniteSet(Units) /\ Cardinality(Units) = P - 1 /\ P - 1 \in Nat
  <2>1. Units = 1 .. P - 1
    BY Prime DEF Units
  <2>2. IsFiniteSet(1 .. P - 1) /\ Cardinality(1 .. P - 1) = P - 1
    BY Prime, FS_Interval
  <2> QED
    BY <2>1, <2>2, Prime
<1>2. 1 \in Units
  BY Prime DEF Units
<1>3. \A u, v \in Units : u (.) v \in Units
  BY NotZero DEF Units
<1>4. \A u, v \in Units : Of(Product, u, v) \in Units /\ Of(Product, u, v) = Of(Product, v, u)
  BY <1>3, ProductIs, Products DEF Units
<1>5. \A u, v, w \in Units : Of(Product, Of(Product, u, v), w) = Of(Product, u, Of(Product, v, w))
  <2> SUFFICES ASSUME NEW u \in Units, NEW v \in Units, NEW w \in Units
               PROVE  Of(Product, Of(Product, u, v), w) = Of(Product, u, Of(Product, v, w))
    OBVIOUS
  <2>1. (u (.) v) (.) w = u (.) (v (.) w)
    BY Products DEF Units
  <2> QED
    BY <1>3, <2>1, ProductIs
<1>6. ASSUME NEW u \in Units PROVE Of(Product, u, 1) = u /\ \E v \in Units : Of(Product, u, v) = 1
  <2>1. Of(Product, u, 1) = u
    BY <1>2, ProductIs, Products DEF Units
  <2>2. 1 \in F /\ u \in F /\ u # 0 /\ 0 # 1
    BY Products DEF Units
  <2>3. Over(1, u) \in F /\ Over(1, u) (.) u = 1
    BY <2>2, Quotient
  <2>4. Over(1, u) # 0
    BY <2>2, <2>3, Products
  <2>5. Over(1, u) \in Units /\ u (.) Over(1, u) = 1
    BY <2>2, <2>3, <2>4, Products DEF Units
  <2> QED
    BY <2>1, <2>5, ProductIs
<1> QED
  BY <1>1, <1>2, <1>4, <1>5, <1>6, Zenon DEF IsGroup

LEMMA Fermat ==
  ASSUME NEW u \in F, u # 0
  PROVE  Power(u, P - 1) = 1
<1> DEFINE N == P - 1
           j == [k \in 0 .. N |-> Power(u, k)]
<1>1. N \in Nat /\ u \in Units /\ Cardinality(Units) = N
  BY UnitsAreGroup DEF Units
<1>2. \A k \in 0 .. N : j[k] = Power(u, k)
  OBVIOUS
<1> HIDE DEF N, j
<1>3. \A k \in Nat : Power(u, k) \in Units
  <2> DEFINE T == {k \in Nat : Power(u, k) \in Units}
  <2>1. 0 \in T
    BY PowerIs, Products, 0 \in Nat DEF Units
  <2>2. ASSUME NEW k \in Nat, k \in T PROVE k + 1 \in T
    <3>1. Power(u, k) \in F \ {0} /\ u \in F \ {0} /\ Power(u, k + 1) = Power(u, k) (.) u
      BY <2>2, PowerIs DEF Units
    <3>2. Power(u, k) (.) u \in F \ {0}
      BY <3>1, NotZero
    <3> QED
      BY <3>1, <3>2 DEF Units
  <2> HIDE DEF T
  <2>3. \A k \in Nat : k \in T
    BY <2>1, <2>2, Induction
  <2> QED
    BY <2>3 DEF T
<1>4. \A k \in 0 .. N : j[k] \in Units
  BY <1>1, <1>2, <1>3
<1>5. \A k \in 0 .. N - 1 : j[k + 1] = Of(Product, j[k], u)
  <2> SUFFICES ASSUME NEW k \in 0 .. N - 1 PROVE j[k + 1] = Of(Product, j[k], u)
    OBVIOUS
  <2>1. k \in Nat /\ k \in 0 .. N /\ k + 1 \in 0 .. N
    BY <1>1
  <2>2. j[k] = Power(u, k) /\ j[k + 1] = Power(u, k + 1) /\ Power(u, k + 1) = Power(u, k) (.) u
    BY <1>2, <2>1, PowerIs
  <2>3. Of(Product, j[k], u) = j[k] (.) u
    BY <1>1, <1>4, <2>1, ProductIs
  <2> QED
    BY <2>2, <2>3
<1>6. j[0] = 1 /\ j[N] = Power(u, N)
  BY <1>1, <1>2, PowerIs
<1>7. AreMultiples(Units, Product, 1, u, N, j)
  BY <1>1, <1>4, <1>5, <1>6, Zenon DEF AreMultiples
<1>8. j[Cardinality(Units)] = 1
  <2>1. AreMultiples(Units, Product, 1, u, Cardinality(Units), j)
    BY <1>1, <1>7, Zenon
  <2> QED
    BY <2>1, UnitsAreGroup, Lagrange
<1> QED
  BY <1>1, <1>6, <1>8 DEF N
-----------------------------------------------------------------------------
(***************************************************************************)
(* Inverses, square roots and the two decoders.                            *)
(***************************************************************************)
\* fe_invert inverts what is not 0.
LEMMA InvertIs ==
  ASSUME NEW z \in F
  PROVE  Invert(z) \in F /\ (z # 0 => Invert(z) (.) z = 1)
<1>1. P - 2 \in Nat /\ (P - 2) + 1 = P - 1
  BY Prime
<1>2. Power(z, P - 2) \in F /\ Power(z, (P - 2) + 1) = Power(z, P - 2) (.) z
  BY <1>1, PowerIs
<1>3. z # 0 => Power(z, P - 1) = 1
  BY Fermat
<1> QED
  BY <1>1, <1>2, <1>3 DEF Invert

LEMMA SqrtM1Is == SqrtM1 \in F /\ Sq(SqrtM1) = P - 1
<1>1. PICK t \in Int : Zero(t * t + 1)
  BY MinusOneIsSquare
<1> DEFINE s == t % P
<1>2. s \in F /\ Same(s, t)
  BY Reduced
<1> HIDE DEF s
<1>3. Sq(s) \in F /\ Same(Sq(s), t * t)
  BY <1>2, SameValues DEF Sq
<1>4. P - 1 \in F /\ Same(t * t, P - 1)
  <2>1. P - 1 \in F /\ P \in Int
    BY Prime
  <2>2. Zero(P * 1) /\ P * 1 = P
    BY <2>1, ZeroIs
  <2>3. Zero((t * t + 1) - P) /\ (t * t + 1) - P = t * t - (P - 1)
    BY <1>1, <2>1, <2>2, ZeroSum
  <2> QED
    BY <2>1, <2>3 DEF Same
<1>5. Same(Sq(s), P - 1)
  BY <1>3, <1>4, SameTrans
<1>6. Sq(s) = P - 1
  BY <1>3, <1>4, <1>5, ZeroSmall
<1> QED
  BY <1>2, <1>6 DEF SqrtM1

\* A word is its sign and the rest, of which y is what P leaves.
LEMMA WordIs ==
  /\ Pow2(FieldBits) \in Nat \ {0} /\ Pow2(FieldBits + 1) = 2 * Pow2(FieldBits) /\ P < Pow2(FieldBits)
  /\ \A w \in Words : /\ w \in Nat /\ YOf(w) \in F /\ SignOf(w) \in {0, 1}
                      /\ w % Pow2(FieldBits) \in Nat /\ YOf(w) <= w % Pow2(FieldBits)
                      /\ w = Pow2(FieldBits) * SignOf(w) + (w % Pow2(FieldBits))
<1> DEFINE H == Pow2(FieldBits)
<1>1. FieldBits \in Nat /\ P < H
  BY FieldAssumption
<1>2. H \in Nat \ {0}
  BY <1>1, PowPositive DEF Pow2
<1>3. Pow2(FieldBits + 1) = 2 * H
  BY <1>1, PowNext DEF Pow2
<1> HIDE DEF H
<1>4. ASSUME NEW w \in Words
      PROVE  /\ w \in Nat /\ (w % H) % P \in F /\ w \div H \in {0, 1}
             /\ w % H \in Nat /\ (w % H) % P <= w % H
             /\ w = H * (w \div H) + (w % H)
  <2>1. w \in Nat /\ w < 2 * H
    BY <1>2, <1>3 DEF Words
  <2> DEFINE q == w \div H
             m == w % H
  <2>2. q \in Nat /\ m \in Nat /\ m < H /\ w = H * q + m
    BY <1>2, <2>1, DivMod
  <2> HIDE DEF q, m
  <2>3. q < 2
    <3> SUFFICES ASSUME q >= 2 PROVE FALSE
      BY <2>2
    <3>1. PICK k \in Nat : q = k + 2
      BY <2>2
    <3>2. H * (k + 2) = H * k + 2 * H /\ H * k \in Nat
      BY <1>2, <3>1
    <3>3. H * q = H * k + 2 * H
      BY <3>1, <3>2
    <3> DEFINE l == H * k
               n == H * q
    <3>4. l \in Nat /\ n = l + 2 * H /\ w = n + m
      BY <2>2, <3>2, <3>3
    <3> HIDE DEF l, n
    <3> QED
      BY <1>2, <2>1, <2>2, <3>4
  <2>4. q \in {0, 1}
    BY <2>2, <2>3
  <2>5. m % P \in F /\ m % P <= m
    <3>1. P \in Nat \ {0}
      BY Prime
    <3>2. m \div P \in Nat /\ m % P \in Nat /\ m % P < P /\ m = P * (m \div P) + (m % P)
      BY <2>2, <3>1, DivMod
    <3> DEFINE k == m \div P
               l == m % P
    <3>3. k \in Nat /\ l \in Nat /\ l < P /\ m = P * k + l
      BY <3>2
    <3> HIDE DEF k, l
    <3>4. P * k \in Nat
      BY <3>1, <3>3
    <3>5. l \in F /\ l <= m
      BY <3>1, <3>3, <3>4, Prime
    <3> QED
      BY <3>5 DEF l
  <2> QED
    BY <2>1, <2>2, <2>4, <2>5 DEF q, m
<1> QED
  BY <1>1, <1>2, <1>3, <1>4 DEF H, YOf, SignOf

\* P is odd: of x and -x, one has each sign.
LEMMA Signs ==
  ASSUME NEW x \in F
  PROVE  /\ Neg(x) \in F /\ Neg(Neg(x)) = x /\ (x = 0 => Neg(x) = 0) /\ x % 2 \in {0, 1}
         /\ x # 0 => Neg(x) = P - x /\ Neg(x) # 0 /\ Neg(x) % 2 = 1 - (x % 2)
<1>1. P \in Nat \ {0} /\ x \in Nat /\ x < P /\ x \in Int /\ P % 8 = 5
  BY Prime
<1>2. x = 0 => Neg(x) = 0
  BY <1>1, SmallDiv DEF Neg, (-)
<1>3. ASSUME x # 0
      PROVE  Neg(x) = P - x /\ Neg(x) # 0 /\ Neg(x) % 2 = 1 - (x % 2) /\ Neg(x) \in F /\ Neg(Neg(x)) = x
  <2>1. \A z \in Int : 0 < z /\ z < P => (0 - z) % P = P - z
    <3> SUFFICES ASSUME NEW z \in Int, 0 < z, z < P PROVE (0 - z) % P = P - z
      OBVIOUS
    <3>1. 0 - z = P * (-1) + (P - z) /\ P - z \in Nat /\ P - z < P /\ -1 \in Int
      BY <1>1
    <3> QED
      BY <1>1, <3>1, DivModUnique
  <2>2. Neg(x) = P - x
    BY <1>1, <1>3, <2>1 DEF Neg, (-)
  <2>3. P - x \in Int /\ 0 < P - x /\ P - x < P /\ P - (P - x) = x /\ P - x \in F
    BY <1>1, <1>3, Prime
  <2>4. Neg(P - x) = x
    BY <2>1, <2>3 DEF Neg, (-)
  <2>5. (P - x) % 2 = 1 - (x % 2)
    <3>1. P \div 8 \in Int /\ P = 8 * (P \div 8) + 5
      BY <1>1, DivMod
    <3>2. x \div 2 \in Int /\ x % 2 \in {0, 1} /\ x = 2 * (x \div 2) + (x % 2)
      BY <1>1
    <3> DEFINE k == P \div 8
               l == x \div 2
               m == x % 2
    <3>3. k \in Int /\ P = 8 * k + 5 /\ l \in Int /\ m \in {0, 1} /\ x = 2 * l + m
      BY <3>1, <3>2
    <3> HIDE DEF k, l, m
    <3>4. P - x = 2 * (4 * k + 2 - l) + (1 - m) /\ 4 * k + 2 - l \in Int /\ 1 - m \in Nat /\ 1 - m < 2
      BY <3>3
    <3>5. (P - x) % 2 = 1 - m
      BY <3>4, 2 \in Nat \ {0}, DivModUnique
    <3> QED
      BY <3>5 DEF m
  <2> QED
    BY <1>1, <2>2, <2>3, <2>4, <2>5
<1>4. x % 2 \in {0, 1} /\ 0 \in F
  BY <1>1, Prime
<1> QED
  BY <1>2, <1>3, <1>4

\* The equation of the curve as the decoders solve it: den x^2 = num.
Num(y) == Sq(y) (-) 1
Den(y) == (Sq(y) (.) D) (+) 1

LEMMA NumDen ==
  ASSUME NEW y \in F
  PROVE  /\ Num(y) \in F /\ Same(Num(y), y * y - 1)
         /\ Den(y) \in F /\ Same(Den(y), D * (y * y) + 1) /\ Den(y) # 0
         /\ 1 (+) (Sq(y) (.) D) = Den(y)
<1>1. Same(y, y) /\ 1 \in F /\ Same(1, 1) /\ D \in F /\ Same(D, D) /\ y \in Int /\ D \in Int
  BY Prime, SameFacts
<1>2. Sq(y) \in F /\ Same(Sq(y), y * y)
  BY <1>1, SameValues DEF Sq
<1>3. Num(y) \in F /\ Same(Num(y), y * y - 1) /\ Sq(y) (.) D \in F /\ Same(Sq(y) (.) D, (y * y) * D)
  BY <1>1, <1>2, SameValues DEF Num
<1>4. /\ Den(y) \in F /\ Same(Den(y), (y * y) * D + 1)
  BY <1>1, <1>3, SameValues DEF Den
<1>5. (y * y) * D + 1 = D * (y * y) + 1
  BY <1>1
<1>6. Same(Den(y), D * (y * y) + 1)
  BY <1>4, <1>5, Zenon
<1>7. Den(y) # 0
  <2> SUFFICES ASSUME Den(y) = 0 PROVE FALSE
    OBVIOUS
  <2>1. PICK t \in Int : Zero(t * t + 1)
    BY MinusOneIsSquare
  <2>2. Zero(0) /\ D * (y * y) + 1 \in Int /\ 0 \in Int
    BY <1>1, ZeroSmall
  <2>3. Zero(D * (y * y) + 1)
    BY <1>6, <2>2, SameFacts
  <2>4. Zero((D * (y * y) + 1) - (t * t + 1)) /\ (D * (y * y) + 1) - (t * t + 1) = D * (y * y) - t * t
    BY <1>1, <2>1, <2>2, <2>3, ZeroSum
  <2>5. Zero(D * (y * y) - t * t)
    BY <2>4, Zenon
  <2>6. Zero(y)
    BY <1>1, <2>1, <2>5, NotSquare
  <2>7. Zero(D * (y * y)) /\ D * (y * y) \in Int
    <3>1. Zero(y * y) /\ y * y \in Int
      BY <1>1, <2>6, ZeroTimes
    <3>2. D * (y * y) \in Int
      BY <1>1
    <3> QED
      BY <1>1, <3>1, <3>2, ZeroTimes
  <2>8. Zero((D * (y * y) + 1) - D * (y * y)) /\ (D * (y * y) + 1) - D * (y * y) = 1
    <3> DEFINE c == D * (y * y)
    <3>1. c \in Int /\ Zero(c) /\ Zero(c + 1)
      BY <2>3, <2>7
    <3> HIDE DEF c
    <3>2. (c + 1) - c = 1 /\ c + 1 \in Int
      BY <3>1
    <3>3. Zero((c + 1) - c)
      BY <3>1, <3>2, ZeroSum
    <3> QED
      BY <3>2, <3>3 DEF c
  <2>9. 1 \in 1 .. P - 1
    BY Prime
  <2> QED
    BY <2>8, <2>9, ZeroSmall
<1>8. 1 (+) (Sq(y) (.) D) = Den(y)
  <2> DEFINE c == Sq(y) (.) D
  <2>1. c \in F
    BY <1>3
  <2> HIDE DEF c
  <2>2. 1 + c = c + 1
    BY <2>1, Prime
  <2>3. 1 (+) c = c (+) 1
    BY <2>2 DEF (+)
  <2> QED
    BY <2>3 DEF c, Den
<1> QED
  BY <1>3, <1>4, <1>6, <1>7, <1>8

LEMMA OnIff ==
  ASSUME NEW x \in F, NEW y \in F
  PROVE  <<x, y>> \in Curve <=> Sq(x) (.) Den(y) = Num(y)
<1>1. Same(x, x) /\ x \in Int /\ y \in Int /\ D \in Int
  BY Prime, SameFacts
<1>2. Sq(x) \in F /\ Same(Sq(x), x * x)
  BY <1>1, SameValues DEF Sq
<1>3. Num(y) \in F /\ Same(Num(y), y * y - 1) /\ Den(y) \in F /\ Same(Den(y), D * (y * y) + 1)
  BY NumDen
<1>4. Sq(x) (.) Den(y) \in F /\ Same(Sq(x) (.) Den(y), (x * x) * (D * (y * y) + 1))
  BY <1>2, <1>3, SameValues
<1>5. Sq(x) (.) Den(y) = Num(y) <=> Same((x * x) * (D * (y * y) + 1), y * y - 1)
  <2>1. Is(Sq(x) (.) Den(y), (x * x) * (D * (y * y) + 1)) /\ Is(Num(y), y * y - 1)
    BY <1>3, <1>4 DEF Is
  <2> QED
    BY <2>1, IsSame
<1>6. (x * x) * (D * (y * y) + 1) - (y * y - 1) = 0 - Beside(x, y)
  BY <1>1 DEF Beside, Cross, DifSq
<1>7. /\ (x * x) * (D * (y * y) + 1) \in Int /\ y * y - 1 \in Int /\ Beside(x, y) \in Int
      /\ 0 - (0 - Beside(x, y)) = Beside(x, y)
  BY <1>1, Integers1
<1>8. Zero(Beside(x, y)) <=> Zero(0 - Beside(x, y))
  <2> DEFINE k == Beside(x, y)
  <2>1. k \in Int /\ 0 - (0 - k) = k /\ 0 - k \in Int /\ Zero(0)
    BY <1>7, ZeroSmall
  <2> HIDE DEF k
  <2>2. Zero(k) <=> Zero(0 - k)
    BY <2>1, ZeroSum
  <2> QED
    BY <2>2 DEF k
<1>9. Same((x * x) * (D * (y * y) + 1), y * y - 1) <=> Zero(Beside(x, y))
  BY <1>6, <1>7, <1>8 DEF Same
<1>10. <<x, y>> \in Curve <=> Zero(Beside(x, y))
  BY <1>1, CurveIs DEF On
<1> QED
  BY <1>5, <1>9, <1>10

\* The candidates of the two decoders.
RootRef10(u, v) ==
  LET v3 == Sq(v) (.) v
  IN (Pow22523((Sq(v3) (.) v) (.) u) (.) v3) (.) u

RootAmd64(u, v) ==
  LET v4 == Sq(Sq(v))
      t  == Pow22523(((v4 (.) Sq(v)) (.) u) (.) v)
  IN (((t (.) u) (.) v) (.) v) (.) v

Exponent == (P - 5) \div 8

LEMMA ExponentIs == Exponent \in Nat /\ P - 1 = 2 * (2 * (2 * Exponent + 1))
<1>1. P \div 8 \in Int /\ P = 8 * (P \div 8) + 5
  BY Prime, DivMod
<1> DEFINE k == P \div 8
<1>2. k \in Int /\ P = 8 * k + 5
  BY <1>1
<1> HIDE DEF k
<1>3. k \in Nat /\ P - 5 = 8 * k + 0 /\ P - 1 = 2 * (2 * (2 * k + 1))
  BY <1>2, Prime
<1>4. (P - 5) \div 8 = k
  BY <1>2, <1>3, DivModUnique
<1> QED
  BY <1>3, <1>4 DEF Exponent

LEMMA RootIs ==
  ASSUME NEW u \in F, NEW v \in F
  PROVE  /\ RootRef10(u, v) = RootAmd64(u, v) /\ RootRef10(u, v) \in F
         /\ \E k \in F, j \in F :
              /\ Same(k, ((((v * v) * v) * ((v * v) * v)) * v) * u) /\ j = Power(k, Exponent)
              /\ Same(RootRef10(u, v), (j * ((v * v) * v)) * u)
<1> DEFINE v3 == Sq(v) (.) v
           k == (Sq(v3) (.) v) (.) u
           v4 == Sq(Sq(v))
           l == ((v4 (.) Sq(v)) (.) u) (.) v
           j == Power(k, Exponent)
           x == (j (.) v3) (.) u
           y == (((j (.) u) (.) v) (.) v) (.) v
<1>1. u \in Int /\ v \in Int /\ Same(u, u) /\ Same(v, v)
  BY Prime, SameFacts
<1>2. Sq(v) \in F /\ Same(Sq(v), v * v)
  BY <1>1, SameValues DEF Sq
<1>3. v3 \in F /\ Same(v3, (v * v) * v)
  BY <1>1, <1>2, SameValues
<1> HIDE DEF v3
<1>4. Sq(v3) \in F /\ Same(Sq(v3), ((v * v) * v) * ((v * v) * v))
  BY <1>3, SameValues DEF Sq
<1>5. Sq(v3) (.) v \in F /\ Same(Sq(v3) (.) v, (((v * v) * v) * ((v * v) * v)) * v)
  BY <1>1, <1>4, SameValues
<1>6. k \in F /\ Same(k, ((((v * v) * v) * ((v * v) * v)) * v) * u)
  BY <1>1, <1>5, SameValues
<1>7. v4 \in F /\ Same(v4, (v * v) * (v * v))
  BY <1>2, SameValues DEF Sq
<1> HIDE DEF k, v4
<1>8. v4 (.) Sq(v) \in F /\ Same(v4 (.) Sq(v), ((v * v) * (v * v)) * (v * v))
  BY <1>2, <1>7, SameValues
<1>9. (v4 (.) Sq(v)) (.) u \in F /\ Same((v4 (.) Sq(v)) (.) u, (((v * v) * (v * v)) * (v * v)) * u)
  BY <1>1, <1>8, SameValues
<1>10. l \in F /\ Same(l, ((((v * v) * (v * v)) * (v * v)) * u) * v)
  BY <1>1, <1>9, SameValues
<1> HIDE DEF l
<1>11. ((((v * v) * (v * v)) * (v * v)) * u) * v = ((((v * v) * v) * ((v * v) * v)) * v) * u
  BY <1>1
<1>12. k = l
  <2>1. Is(k, ((((v * v) * v) * ((v * v) * v)) * v) * u) /\ Is(l, ((((v * v) * v) * ((v * v) * v)) * v) * u)
    BY <1>6, <1>10, <1>11 DEF Is
  <2>2. Same(((((v * v) * v) * ((v * v) * v)) * v) * u, ((((v * v) * v) * ((v * v) * v)) * v) * u)
    BY <1>6, SameFacts DEF Same
  <2> QED
    BY <2>1, <2>2, IsSame
<1>13. j \in F /\ Same(j, j) /\ j \in Int
  BY <1>6, ExponentIs, PowerIs, IsOperations DEF Is
<1> HIDE DEF j
<1>14. j (.) v3 \in F /\ Same(j (.) v3, j * ((v * v) * v))
  BY <1>3, <1>13, SameValues
<1>15. x \in F /\ Same(x, (j * ((v * v) * v)) * u)
  BY <1>1, <1>14, SameValues
<1>16. j (.) u \in F /\ Same(j (.) u, j * u)
  BY <1>1, <1>13, SameValues
<1>17. (j (.) u) (.) v \in F /\ Same((j (.) u) (.) v, (j * u) * v)
  BY <1>1, <1>16, SameValues
<1>18. ((j (.) u) (.) v) (.) v \in F /\ Same(((j (.) u) (.) v) (.) v, ((j * u) * v) * v)
  BY <1>1, <1>17, SameValues
<1>19. y \in F /\ Same(y, (((j * u) * v) * v) * v)
  BY <1>1, <1>18, SameValues
<1> HIDE DEF x, y
<1>20. (((j * u) * v) * v) * v = (j * ((v * v) * v)) * u
  BY <1>1, <1>13
<1>21. x = y
  <2>1. Is(x, (j * ((v * v) * v)) * u) /\ Is(y, (j * ((v * v) * v)) * u)
    BY <1>15, <1>19, <1>20 DEF Is
  <2>2. Same((j * ((v * v) * v)) * u, (j * ((v * v) * v)) * u)
    BY <1>15, SameFacts DEF Same
  <2> QED
    BY <2>1, <2>2, IsSame
<1>22. RootRef10(u, v) = x
  BY Zenon DEF RootRef10, x, j, k, v3, Pow22523, Exponent
<1>23. RootAmd64(u, v) = y
  <2>1. j = Power(l, Exponent)
    BY <1>12 DEF j
  <2> QED
    BY <2>1, Zenon DEF RootAmd64, y, l, v4, Pow22523, Exponent
<1>24. j = Power(k, Exponent)
  BY DEF j
<1> QED
  BY <1>6, <1>13, <1>15, <1>21, <1>22, <1>23, <1>24

\* Where there is a root, the square of the candidate is right or the opposite of it.
LEMMA CandidateIs ==
  ASSUME NEW u \in F, NEW v \in F, v # 0, NEW s \in F, Sq(s) (.) v = u
  PROVE  Sq(RootRef10(u, v)) (.) v = u \/ (Sq(RootRef10(u, v)) (.) v) (+) u = 0
<1> DEFINE x == RootRef10(u, v)
           y == Sq(x) (.) v
           l == (((v * v) * v) * ((v * v) * v)) * v
<1>1. PICK k \in F, j \in F : Same(k, l * u) /\ j = Power(k, Exponent) /\ Same(x, (j * ((v * v) * v)) * u)
  BY RootIs
<1>2. /\ u \in Int /\ v \in Int /\ s \in Int /\ k \in Int /\ j \in Int /\ x \in F
      /\ Same(u, u) /\ Same(v, v) /\ Same(s, s) /\ Same(j, j) /\ Same(k, k)
  <2>1. x \in F
    BY RootIs
  <2>2. \A o \in F : o \in Int
    BY Prime
  <2>3. \A o \in Int : Same(o, o)
    BY SameFacts
  <2> HIDE DEF x
  <2> QED
    BY <2>1, <2>2, <2>3
<1> HIDE DEF x
<1> DEFINE g == (j (.) j) (.) k
<1>3. g \in F /\ Same(g, (j * j) * k)
  <2>1. j (.) j \in F /\ Same(j (.) j, j * j)
    BY <1>2, SameValues
  <2> QED
    BY <1>2, <2>1, SameValues
<1>4. y \in F /\ Same(y, g * u)
  <2> DEFINE z == (j * ((v * v) * v)) * u
  <2>1. Sq(x) \in F /\ Same(Sq(x), z * z)
    BY <1>1, <1>2, SameValues DEF Sq
  <2>2. y \in F /\ Same(y, (z * z) * v)
    BY <1>2, <2>1, SameValues
  <2>3. (z * z) * v = ((j * j) * (l * u)) * u
    BY <1>2
  <2>4. Same(((j * j) * (l * u)) * u, g * u)
    <3>1. Same(l * u, k) /\ Same((j * j) * k, g) /\ Same(j * j, j * j)
      BY <1>1, <1>2, <1>3, SameSym, SameOperations
    <3>2. Same((j * j) * (l * u), (j * j) * k)
      BY <3>1, SameOperations
    <3>3. Same((j * j) * (l * u), g)
      BY <3>1, <3>2, SameTrans
    <3> QED
      BY <1>2, <3>3, SameOperations
  <2> HIDE DEF z, y, g, l
  <2> QED
    BY <2>2, <2>3, <2>4, SameTrans
<1>5. CASE u = 0
  <2>1. g * u = 0 /\ 0 \in F
    BY <1>3, <1>5, Prime
  <2>2. y = 0
    BY <1>4, <2>1, ZeroSmall
  <2> QED
    BY <1>5, <2>2 DEF x
<1>6. CASE u # 0
  <2> DEFINE c == Sq(Sq(v)) (.) s
             m == 2 * (2 * Exponent + 1)
  <2>1. s # 0
    <3> SUFFICES ASSUME s = 0 PROVE FALSE
      OBVIOUS
    <3>1. Sq(s) = 0
      BY Products DEF Sq
    <3>2. Sq(s) (.) v = 0
      BY <3>1, Products
    <3> QED
      BY <1>6, <3>2
  <2>2. c \in F /\ c # 0 /\ Same(c, ((v * v) * (v * v)) * s)
    <3>1. Sq(v) \in F \ {0} /\ Same(Sq(v), v * v)
      BY NotZero DEF Sq
    <3>2. Sq(Sq(v)) \in F \ {0} /\ Same(Sq(Sq(v)), (v * v) * (v * v))
      BY <3>1, NotZero, SameValues DEF Sq
    <3> QED
      BY <1>2, <2>1, <3>2, NotZero, SameValues
  <2> HIDE DEF c
  <2>3. k = c (.) c
    <3> DEFINE w == ((v * v) * (v * v)) * s
    <3>1. c (.) c \in F /\ Same(c (.) c, w * w)
      BY <2>2, SameValues
    <3>2. Sq(s) \in F /\ Same(Sq(s), s * s)
      BY <1>2, SameValues DEF Sq
    <3>3. Same(u, (s * s) * v)
      BY <1>2, <3>2, SameValues
    <3>4. l \in Int /\ Same(l, l)
      BY <1>2, SameFacts
    <3>5. Same(l * u, l * ((s * s) * v))
      BY <3>3, <3>4, SameOperations
    <3>6. l * ((s * s) * v) = w * w
      BY <1>2
    <3> HIDE DEF l, w
    <3>7. Same(k, w * w)
      BY <1>1, <3>5, <3>6, SameTrans
    <3>8. Same(k, c (.) c)
      BY <3>1, <3>7, SameSym, SameTrans
    <3> QED
      BY <3>1, <3>8, ZeroSmall
  <2>4. Exponent \in Nat /\ m \in Nat /\ P - 1 = m + m /\ m = 2 * (2 * Exponent + 1)
        /\ 2 * Exponent + 1 \in Nat /\ 2 * Exponent + 1 = (Exponent + Exponent) + 1
        /\ Exponent + Exponent \in Nat
    BY ExponentIs
  <2> HIDE DEF m
  <2>5. g = Power(c, m)
    <3>1. Power(c, 2) = k
      <4>1. Power(c, 1 + 1) = c (.) c
        BY <2>2, 1 \in Nat, PowerIs
      <4> QED
        BY <2>3, <4>1
    <3>2. Power(c, m) = Power(k, 2 * Exponent + 1)
      BY <2>2, <2>4, <3>1, 2 \in Nat, PowerRules
    <3>3. Power(k, (Exponent + Exponent) + 1) = Power(k, Exponent + Exponent) (.) k
      BY <2>4, PowerIs
    <3>4. Power(k, Exponent + Exponent) = j (.) j
      BY <1>1, <2>4, PowerRules
    <3> QED
      BY <2>4, <3>2, <3>3, <3>4
  <2>6. g (.) g = 1
    <3>1. Power(c, m + m) = Power(c, m) (.) Power(c, m)
      BY <2>2, <2>4, PowerRules
    <3>2. Power(c, P - 1) = 1
      BY <2>2, Fermat
    <3> QED
      BY <2>4, <2>5, <3>1, <3>2
  <2> HIDE DEF g
  <2>7. Zero(g - 1) \/ Zero(g + 1)
    <3>1. g \in Int /\ Same(g, g) /\ g - 1 \in Int /\ g + 1 \in Int
      BY <1>3, Prime, SameFacts
    <3>2. Same(1, g * g)
      BY <1>3, <2>6, <3>1, SameValues
    <3>3. Same(g * g, 1)
      BY <3>2, SameSym
    <3>4. g * g - 1 = (g - 1) * (g + 1)
      BY <3>1
    <3>5. Zero((g - 1) * (g + 1))
      BY <3>3, <3>4 DEF Same
    <3> QED
      BY <3>1, <3>5, NoDivisors
  <2>8. g \in Int /\ y \in Int /\ g * u \in Int /\ y - g * u \in Int /\ Zero(y - g * u)
    BY <1>2, <1>3, <1>4, Prime DEF Same
  <2> HIDE DEF y
  <2>9. CASE Zero(g - 1)
    <3>1. Zero(u * (g - 1)) /\ u * (g - 1) = g * u - u
      <4> DEFINE n == g - 1
      <4>1. n \in Int /\ u \in Int /\ g \in Int /\ Zero(n) /\ u * n = g * u - u
        BY <1>2, <2>8, <2>9, Prime
      <4> HIDE DEF n
      <4>2. Zero(u * n)
        BY <4>1, ZeroTimes
      <4> QED
        BY <4>1, <4>2 DEF n
    <3>2. Zero((y - g * u) + (g * u - u)) /\ (y - g * u) + (g * u - u) = y - u
      BY <1>2, <2>8, <3>1, ZeroSum
    <3>3. Same(y, u)
      BY <1>2, <2>8, <3>2 DEF Same
    <3>4. y = u
      BY <1>4, <3>3, ZeroSmall
    <3> QED
      BY <3>4 DEF y, x
  <2>10. CASE Zero(g + 1)
    <3>1. Zero(u * (g + 1)) /\ u * (g + 1) = g * u + u
      <4> DEFINE n == g + 1
      <4>1. n \in Int /\ u \in Int /\ g \in Int /\ Zero(n) /\ u * n = g * u + u
        BY <1>2, <2>8, <2>10, Prime
      <4> HIDE DEF n
      <4>2. Zero(u * n)
        BY <4>1, ZeroTimes
      <4> QED
        BY <4>1, <4>2 DEF n
    <3>2. Zero((y - g * u) + (g * u + u)) /\ (y - g * u) + (g * u + u) = y + u
      BY <1>2, <2>8, <3>1, ZeroSum
    <3>3. y (+) u = 0
      BY <3>2 DEF (+), Zero
    <3> QED
      BY <3>3 DEF y, x
  <2> QED
    BY <2>7, <2>9, <2>10
<1> QED
  BY <1>5, <1>6

\* Both decoders take the candidate, or that times the root of -1.
Candidate(y) == RootRef10(Num(y), Den(y))
Square(y)    == Sq(Candidate(y)) (.) Den(y)
Root(y)      == IF Square(y) = Num(y) THEN Candidate(y) ELSE Candidate(y) (.) SqrtM1
Solvable(y)  == Square(y) = Num(y) \/ Square(y) (+) Num(y) = 0

LEMMA RootSolves ==
  ASSUME NEW y \in F
  PROVE  /\ Root(y) \in F
         /\ Solvable(y) <=> Sq(Root(y)) (.) Den(y) = Num(y)
         /\ Solvable(y) <=> \E s \in F : Sq(s) (.) Den(y) = Num(y)
<1> DEFINE u == Num(y)
           v == Den(y)
           x == Candidate(y)
           c == Square(y)
           t == x (.) SqrtM1
           o == Sq(t) (.) v
<1>1. u \in F /\ v \in F /\ v # 0
  BY NumDen
<1>2. x \in F
  BY <1>1, RootIs DEF Candidate
<1>3. SqrtM1 \in F /\ Sq(SqrtM1) = P - 1 /\ t \in F
  BY <1>2, SqrtM1Is, Products
<1>4. c = Sq(x) (.) v
  BY DEF Square
<1> HIDE DEF u, v, x
<1>5. c \in F /\ u \in Int /\ c \in Int /\ Sq(x) \in F
  <2>1. Sq(x) \in F
    BY <1>2, Products DEF Sq
  <2>2. c \in F
    BY <1>1, <1>4, <2>1, Products
  <2> HIDE DEF c
  <2> QED
    BY <1>1, <2>1, <2>2, Prime
<1> HIDE DEF c
<1>6. o \in F /\ Same(o, 0 - c)
  <2>1. Sq(t) = Sq(SqrtM1) (.) Sq(x)
    <3> DEFINE m == SqrtM1
    <3>1. m \in F
      BY <1>3
    <3> HIDE DEF m
    <3>2. (x (.) m) (.) (x (.) m) = x (.) (m (.) (x (.) m)) /\ x (.) m \in F /\ x (.) m = m (.) x
      BY <1>2, <3>1, Products
    <3>3. m (.) (m (.) x) = (m (.) m) (.) x /\ m (.) m \in F
      BY <1>2, <3>1, Products
    <3>4. x (.) ((m (.) m) (.) x) = ((m (.) m) (.) x) (.) x /\ ((m (.) m) (.) x) (.) x = (m (.) m) (.) (x (.) x)
      <4>1. (m (.) m) (.) x \in F
        BY <1>2, <3>3, Products
      <4> QED
        BY <1>2, <3>3, <4>1, Products
    <3>5. (x (.) m) (.) (x (.) m) = (m (.) m) (.) (x (.) x)
      BY <3>2, <3>3, <3>4, Zenon
    <3> QED
      BY <3>5 DEF m, t, Sq
  <2>2. P - 1 \in F
    BY <1>3, Products DEF Sq
  <2>3. o = (P - 1) (.) c
    <3>1. o = ((P - 1) (.) Sq(x)) (.) v
      BY <1>3, <2>1, Zenon
    <3> DEFINE m == P - 1
               n == Sq(x)
    <3>2. m \in F /\ n \in F /\ c = n (.) v
      BY <1>4, <1>5, <2>2
    <3>3. o = (m (.) n) (.) v
      BY <3>1
    <3> HIDE DEF m, n, o
    <3>4. (m (.) n) (.) v = m (.) (n (.) v)
      BY <1>1, <3>2, Products
    <3>5. o = m (.) c
      BY <3>2, <3>3, <3>4
    <3> QED
      BY <3>5 DEF m
  <2>4. Same(P - 1, P - 1) /\ Same(c, c)
    BY <1>5, <2>2, SameFacts, Prime
  <2>5. o \in F /\ Same(o, (P - 1) * c)
    BY <1>5, <2>2, <2>3, <2>4, SameValues
  <2>6. (P - 1) * c - (0 - c) = P * c /\ (P - 1) * c \in Int /\ 0 - c \in Int
    BY <1>5, Prime
  <2>7. Zero(P * c)
    BY <1>5, <2>6, Prime, ZeroIs
  <2>8. Same((P - 1) * c, 0 - c)
    BY <2>6, <2>7 DEF Same
  <2> HIDE DEF o
  <2> QED
    BY <2>5, <2>8, SameTrans
<1>7. o = u <=> c (+) u = 0
  <2>1. Is(o, 0 - c) /\ Is(u, u)
    BY <1>1, <1>6, IsOperations DEF Is
  <2>2. o = u <=> Same(0 - c, u)
    BY <2>1, IsSame
  <2>3. 0 - c \in Int /\ c + u \in Int /\ (0 - c) - u = 0 - (c + u) /\ 0 - (0 - (c + u)) = c + u /\ 0 - (c + u) \in Int
    BY <1>5
  <2>4. Zero(0 - (c + u)) <=> Zero(c + u)
    <3> DEFINE k == c + u
    <3>1. k \in Int /\ 0 - k \in Int /\ 0 - (0 - k) = k /\ Zero(0)
      BY <2>3, ZeroSmall
    <3> HIDE DEF k
    <3>2. Zero(0 - k) <=> Zero(k)
      BY <3>1, ZeroSum
    <3> QED
      BY <3>2 DEF k
  <2>5. c (+) u = 0 <=> Zero(c + u)
    BY DEF (+), Zero
  <2> QED
    BY <1>5, <2>2, <2>3, <2>4, <2>5 DEF Same
<1>8. Root(y) = IF c = u THEN x ELSE t
  BY Zenon DEF Root, c, u, x, t
<1>9. Solvable(y) <=> (c = u \/ c (+) u = 0)
  BY Zenon DEF Solvable, c, u
<1> HIDE DEF t
<1>10. Solvable(y) <=> Sq(Root(y)) (.) v = u
  BY <1>4, <1>7, <1>8, <1>9
<1>11. ASSUME NEW s \in F, Sq(s) (.) v = u PROVE c = u \/ c (+) u = 0
  <2>1. x = RootRef10(u, v)
    BY DEF x, u, v, Candidate
  <2> QED
    BY <1>1, <1>4, <1>11, <2>1, CandidateIs
<1>12. Root(y) \in F
  BY <1>2, <1>3, <1>8
<1> QED
  BY <1>9, <1>10, <1>11, <1>12 DEF u, v

LEMMA DecodersAre ==
  ASSUME NEW w \in Words
  PROVE  /\ FromBytesNegate(w) = UnpackNeg(w)
         /\ FromBytesNegate(w)
              = IF ~Solvable(YOf(w)) THEN Undecodable
                ELSE Decoded(IF IsNegative(Root(YOf(w))) = SignOf(w) THEN Neg(Root(YOf(w)))
                             ELSE Root(YOf(w)), YOf(w))
<1> DEFINE y == YOf(w)
<1>1. y \in F /\ SignOf(w) \in {0, 1}
  BY WordIs
<1>2. /\ Num(y) \in F /\ Den(y) \in F /\ 1 (+) (Sq(y) (.) D) = Den(y)
      /\ Candidate(y) = RootAmd64(Num(y), Den(y))
  BY <1>1, NumDen, RootIs DEF Candidate
<1>3. Root(y) \in F /\ (Solvable(y) <=> Sq(Root(y)) (.) Den(y) = Num(y))
  BY <1>1, RootSolves
<1>4. IsNegative(Root(y)) = SignOf(w) <=> IsNegative(Root(y)) # 1 - SignOf(w)
  <2>1. IsNegative(Root(y)) \in {0, 1}
    BY <1>3, Signs DEF IsNegative
  <2> QED
    BY <1>1, <2>1
<1> DEFINE r10 == IF ~Solvable(y) THEN Undecodable
                  ELSE Decoded(IF IsNegative(Root(y)) = SignOf(w) THEN Neg(Root(y)) ELSE Root(y), y)
           a64 == IF Sq(Root(y)) (.) Den(y) # Num(y) THEN Undecodable
                  ELSE Decoded(IF IsNegative(Root(y)) # 1 - SignOf(w) THEN Neg(Root(y)) ELSE Root(y), y)
<1>5. r10 = a64
  BY <1>3, <1>4, Zenon
<1>6. FromBytesNegate(w) = r10
  BY Zenon DEF FromBytesNegate, Root, Solvable, Square, Candidate, RootRef10, Num, Den
<1>7. UnpackNeg(w) = a64
  <2> DEFINE x == RootAmd64(Num(y), Den(y))
             z == IF Sq(x) (.) Den(y) # Num(y) THEN x (.) SqrtM1 ELSE x
  <2>1. z = Root(y)
    BY <1>2, Zenon DEF Root, Square
  <2>2. UnpackNeg(w) = IF Sq(z) (.) Den(y) # Num(y) THEN Undecodable
                       ELSE Decoded(IF IsNegative(z) # 1 - SignOf(w) THEN Neg(z) ELSE z, y)
    <3> DEFINE d == 1 (+) (Sq(y) (.) D)
    <3>1. d = Den(y)
      BY <1>2
    <3> HIDE DEF d
    <3>2. UnpackNeg(w) = LET n == Num(y)
                             j == RootAmd64(n, d)
                             f == IF Sq(j) (.) d # n THEN j (.) SqrtM1 ELSE j
                         IN IF Sq(f) (.) d # n THEN Undecodable
                            ELSE Decoded(IF IsNegative(f) # 1 - SignOf(w) THEN Neg(f) ELSE f, y)
      BY Zenon DEF UnpackNeg, RootAmd64, Num, d
    <3> QED
      BY <3>1, <3>2, Zenon
  <2> QED
    BY <2>1, <2>2, Zenon
<1> QED
  BY <1>5, <1>6, <1>7
-----------------------------------------------------------------------------
(***************************************************************************)
(* Points, their coordinates divided out, and words.                       *)
(***************************************************************************)
LEMMA DenotedIs ==
  ASSUME NEW w \in Words
  PROVE  PointsOf(w) = {p \in Curve : p[2] = YOf(w) /\ (p[1] = 0 \/ p[1] % 2 = SignOf(w))}
BY DEF PointsOf, Denoted

\* With one y there are but two x.
LEMMA TwoRoots ==
  ASSUME NEW x \in F, NEW s \in F, NEW y \in F,
         Sq(x) (.) Den(y) = Num(y), Sq(s) (.) Den(y) = Num(y)
  PROVE  s = x \/ s = Neg(x)
<1> DEFINE v == Den(y)
<1>1. v \in F /\ v # 0
  BY NumDen
<1>2. x \in Int /\ s \in Int /\ Same(x, x) /\ Same(s, s) /\ Same(v, v) /\ v \in Int
  BY <1>1, Prime, SameFacts
<1>3. Sq(x) (.) v = Sq(s) (.) v
  OBVIOUS
<1> HIDE DEF v
<1>4. Sq(x) \in F /\ Same(Sq(x), x * x) /\ Sq(s) \in F /\ Same(Sq(s), s * s)
  BY <1>2, SameValues DEF Sq
<1>5. Same(Sq(x) (.) v, (x * x) * v) /\ Same(Sq(s) (.) v, (s * s) * v)
  BY <1>1, <1>2, <1>4, SameValues
<1>6. Same((x * x) * v, (s * s) * v)
  BY <1>3, <1>5, SameTrans, SameSym
<1>7. (x * x) * v - (s * s) * v = ((x - s) * (x + s)) * v /\ (x - s) * (x + s) \in Int
      /\ x - s \in Int /\ x + s \in Int
  BY <1>2
<1>8. Zero(((x - s) * (x + s)) * v)
  BY <1>6, <1>7 DEF Same
<1>9. ~Zero(v)
  BY <1>1, <1>2, ZeroSmall, Prime
<1>10. Zero((x - s) * (x + s))
  BY <1>2, <1>7, <1>8, <1>9, NoDivisors
<1>11. Zero(x - s) \/ Zero(x + s)
  BY <1>7, <1>10, NoDivisors
<1>12. CASE Zero(x - s)
  <2>1. Same(x, s)
    BY <1>2, <1>12 DEF Same
  <2> QED
    BY <2>1, ZeroSmall
<1>13. CASE Zero(x + s)
  <2>1. 0 - x \in Int /\ s - (0 - x) = x + s
    BY <1>2
  <2>2. Same(s, 0 - x)
    BY <1>2, <1>13, <2>1 DEF Same
  <2>3. Neg(x) \in F /\ Same(Neg(x), 0 - x)
    BY <1>2, NegSame
  <2>4. Same(s, Neg(x))
    BY <2>2, <2>3, SameTrans, SameSym
  <2> QED
    BY <2>3, <2>4, ZeroSmall
<1> QED
  BY <1>11, <1>12, <1>13

LEMMA Unique ==
  ASSUME NEW w \in Words, NEW p \in PointsOf(w), NEW q \in PointsOf(w)
  PROVE  p = q
<1>1. /\ p \in Curve /\ p[2] = YOf(w) /\ (p[1] = 0 \/ p[1] % 2 = SignOf(w))
      /\ q \in Curve /\ q[2] = YOf(w) /\ (q[1] = 0 \/ q[1] % 2 = SignOf(w))
  BY DenotedIs
<1> DEFINE x == p[1]
           s == q[1]
           y == p[2]
<1>2. x \in F /\ s \in F /\ y \in F /\ p = <<x, y>> /\ q = <<s, y>>
  BY <1>1, PointIs
<1>3. x = 0 \/ x % 2 = SignOf(w)
  BY <1>1
<1>4. s = 0 \/ s % 2 = SignOf(w)
  BY <1>1
<1>5. SignOf(w) \in {0, 1}
  BY WordIs
<1>6. <<x, y>> \in Curve /\ <<s, y>> \in Curve
  BY <1>1, <1>2
<1> HIDE DEF x, s, y
<1>7. Sq(x) (.) Den(y) = Num(y) /\ Sq(s) (.) Den(y) = Num(y)
  BY <1>2, <1>6, OnIff
<1>8. s = x \/ s = Neg(x)
  BY <1>2, <1>7, TwoRoots
<1>9. ASSUME s = Neg(x) PROVE s = x
  <2>1. CASE x = 0
    BY <1>2, <1>9, <2>1, Signs
  <2>2. CASE x # 0
    <3>1. s # 0 /\ s % 2 = 1 - (x % 2)
      BY <1>2, <1>9, <2>2, Signs
    <3>2. x % 2 = SignOf(w) /\ s % 2 = SignOf(w)
      BY <1>3, <1>4, <2>2, <3>1
    <3>3. SignOf(w) = 1 - SignOf(w)
      BY <3>1, <3>2
    <3> QED
      BY <1>5, <3>3
  <2> QED
    BY <2>1, <2>2
<1> QED
  BY <1>2, <1>8, <1>9

LEMMA PairRep ==
  ASSUME NEW x \in F, NEW y \in F, <<x, y>> \in Curve
  PROVE  RepP3([X |-> x, Y |-> y, Z |-> 1, T |-> x (.) y], <<x, y>>)
<1> DEFINE u == [X |-> x, Y |-> y, Z |-> 1, T |-> x (.) y]
           p == <<x, y>>
<1>1. x \in Int /\ y \in Int /\ Same(x, x) /\ Same(y, y) /\ 1 \in F /\ 1 # 0 /\ x * y \in Int
  BY Prime, SameFacts
<1>2. x (.) y \in F /\ Same(x (.) y, x * y)
  BY <1>1, SameValues
<1>3. u \in [X : F, Y : F, Z : F \ {0}, T : F]
  BY <1>1, <1>2
<1>4. u.X = x /\ u.Y = y /\ u.T = x (.) y /\ p[1] * u.Z = x /\ p[2] * u.Z = y /\ (p[1] * p[2]) * u.Z = x * y
  BY <1>1
<1> QED
  BY <1>1, <1>2, <1>3, <1>4 DEF RepP3

\* Both decoders give the negative of the point that a word stands for, or refuse it because
\* it stands for none.
LEMMA DecodeIs ==
  ASSUME NEW w \in Words
  PROVE  \/ /\ FromBytesNegate(w).ok = TRUE
            /\ \E p \in PointsOf(w) : RepP3(FromBytesNegate(w).point, AffineNeg(p))
         \/ FromBytesNegate(w).ok = FALSE /\ PointsOf(w) = {}
<1> DEFINE y == YOf(w)
           g == Root(y)
           j == SignOf(w)
           x == IF g % 2 = j THEN Neg(g) ELSE g
           d == FromBytesNegate(w)
<1>1. y \in F /\ j \in {0, 1}
  BY WordIs
<1>2. /\ g \in F /\ (Solvable(y) <=> Sq(g) (.) Den(y) = Num(y))
      /\ (Solvable(y) <=> \E s \in F : Sq(s) (.) Den(y) = Num(y))
  BY <1>1, RootSolves
<1>3. d = IF ~Solvable(y) THEN Undecodable ELSE Decoded(x, y)
  BY DecodersAre DEF IsNegative
<1>4. PointsOf(w) = {p \in Curve : p[2] = y /\ (p[1] = 0 \/ p[1] % 2 = j)}
  BY DenotedIs
<1> HIDE DEF y, g, j, d
<1>5. CASE Solvable(y)
  <2>1. <<g, y>> \in Curve
    BY <1>1, <1>2, <1>5, OnIff
  <2>2. Neg(g) \in F /\ Neg(Neg(g)) = g /\ (g = 0 => Neg(g) = 0) /\ g % 2 \in {0, 1}
        /\ (g # 0 => Neg(g) # 0 /\ Neg(g) % 2 = 1 - (g % 2))
    BY <1>2, Signs
  <2>3. <<Neg(g), y>> \in Curve
    <3>1. AffineNeg(<<g, y>>) = <<Neg(g), y>>
      BY DEF AffineNeg
    <3> QED
      BY <2>1, <3>1, AddNegative
  <2>4. x \in F /\ <<x, y>> \in Curve
    BY <1>2, <2>1, <2>2, <2>3
  <2>5. Neg(x) \in F /\ <<Neg(x), y>> \in Curve /\ Neg(Neg(x)) = x
    BY <1>2, <2>1, <2>2, <2>3
  <2>6. Neg(x) = 0 \/ Neg(x) % 2 = j
    <3>1. CASE g % 2 = j
      BY <2>2, <3>1
    <3>2. CASE g % 2 # j
      <4>1. x = g
        BY <3>2
      <4>2. CASE g = 0
        BY <2>2, <4>1, <4>2
      <4>3. CASE g # 0
        <5>1. 1 - (g % 2) = j
          BY <1>1, <2>2, <3>2
        <5> QED
          BY <2>2, <4>1, <4>3, <5>1
      <4> QED
        BY <4>2, <4>3
    <3> QED
      BY <3>1, <3>2
  <2> HIDE DEF x
  <2> DEFINE p == <<Neg(x), y>>
  <2>7. p \in PointsOf(w)
    BY <1>4, <2>5, <2>6
  <2>8. AffineNeg(p) = <<x, y>>
    BY <2>5 DEF AffineNeg
  <2>9. d.ok = TRUE /\ d.point = [X |-> x, Y |-> y, Z |-> 1, T |-> x (.) y]
    BY <1>3, <1>5 DEF Decoded
  <2>10. RepP3(d.point, AffineNeg(p))
    BY <1>1, <2>4, <2>8, <2>9, PairRep
  <2> QED
    BY <2>7, <2>9, <2>10 DEF d
<1>6. CASE ~Solvable(y)
  <2>1. d.ok = FALSE
    BY <1>3, <1>6 DEF Undecodable
  <2>2. ASSUME NEW p \in PointsOf(w) PROVE FALSE
    <3>1. p \in Curve /\ p[2] = y
      BY <1>4
    <3>2. p[1] \in F /\ p = <<p[1], y>>
      BY <3>1, PointIs
    <3>3. Sq(p[1]) (.) Den(y) = Num(y)
      BY <1>1, <3>1, <3>2, OnIff
    <3> QED
      BY <1>2, <1>6, <3>2, <3>3
  <2> QED
    BY <2>1, <2>2 DEF d
<1> QED
  BY <1>5, <1>6

\* The coordinates of a representation, divided out, are those of the point.
LEMMA ValueIs ==
  /\ \A u, p : RepP2(u, p) => <<Over(u.X, u.Z), Over(u.Y, u.Z)>> = p
  /\ \A u, p : RepP3(u, p) => <<Over(u.X, u.Z), Over(u.Y, u.Z)>> = p /\ u.X (.) u.Y = u.Z (.) u.T
  /\ \A u, p : RepP1(u, p) => <<Over(u.X, u.Z), Over(u.Y, u.T)>> = p
<1>1. ASSUME NEW x \in F, NEW z \in F \ {0}, NEW v \in F, Same(v, x * z) PROVE Over(v, z) = x
  <2>1. Same(x * z, v)
    BY <1>1, SameSym
  <2> QED
    BY <2>1, Quotient
<1>2. ASSUME NEW p \in Curve PROVE p[1] \in F /\ p[2] \in F /\ p = <<p[1], p[2]>> /\ p[1] \in Int /\ p[2] \in Int
  BY PointIs
<1>3. ASSUME NEW u, NEW p, RepP2(u, p) PROVE <<Over(u.X, u.Z), Over(u.Y, u.Z)>> = p
  <2>1. u.X \in F /\ u.Y \in F /\ u.Z \in F \ {0} /\ p \in Curve /\ Same(u.X, p[1] * u.Z) /\ Same(u.Y, p[2] * u.Z)
    BY <1>3 DEF RepP2
  <2> QED
    BY <1>1, <1>2, <2>1
<1>4. ASSUME NEW u, NEW p, RepP1(u, p) PROVE <<Over(u.X, u.Z), Over(u.Y, u.T)>> = p
  <2>1. u.X \in F /\ u.Y \in F /\ u.Z \in F \ {0} /\ u.T \in F \ {0} /\ p \in Curve
        /\ Same(u.X, p[1] * u.Z) /\ Same(u.Y, p[2] * u.T)
    BY <1>4 DEF RepP1
  <2> QED
    BY <1>1, <1>2, <2>1
<1>5. ASSUME NEW u, NEW p, RepP3(u, p)
      PROVE  <<Over(u.X, u.Z), Over(u.Y, u.Z)>> = p /\ u.X (.) u.Y = u.Z (.) u.T
  <2>1. u.X \in F /\ u.Y \in F /\ u.Z \in F \ {0} /\ u.T \in F /\ p \in Curve
        /\ Same(u.X, p[1] * u.Z) /\ Same(u.Y, p[2] * u.Z) /\ Same(u.T, (p[1] * p[2]) * u.Z)
    BY <1>5 DEF RepP3
  <2>2. p[1] \in Int /\ p[2] \in Int /\ u.Z \in Int /\ Same(u.Z, u.Z)
    BY <1>2, <2>1, Prime, SameFacts
  <2>3. u.X (.) u.Y \in F /\ Same(u.X (.) u.Y, (p[1] * u.Z) * (p[2] * u.Z))
    BY <2>1, SameValues
  <2>4. u.Z (.) u.T \in F /\ Same(u.Z (.) u.T, u.Z * ((p[1] * p[2]) * u.Z))
    BY <2>1, <2>2, SameValues
  <2>5. (p[1] * u.Z) * (p[2] * u.Z) = u.Z * ((p[1] * p[2]) * u.Z)
    <3> DEFINE k == p[1]
               l == p[2]
               z == u.Z
    <3>1. k \in Int /\ l \in Int /\ z \in Int
      BY <2>2
    <3> HIDE DEF k, l, z
    <3>2. (k * z) * (l * z) = z * ((k * l) * z)
      BY <3>1
    <3> QED
      BY <3>2 DEF k, l, z
  <2>6. Same(u.X (.) u.Y, u.Z * ((p[1] * p[2]) * u.Z))
    BY <2>3, <2>5, Zenon
  <2>7. Same(u.X (.) u.Y, u.Z (.) u.T)
    BY <2>4, <2>6, SameTrans, SameSym
  <2>8. u.X (.) u.Y = u.Z (.) u.T
    BY <2>3, <2>4, <2>7, ZeroSmall
  <2>9. <<Over(u.X, u.Z), Over(u.Y, u.Z)>> = p
    BY <1>1, <1>2, <2>1
  <2> QED
    BY <2>8, <2>9
<1> QED
  BY <1>3, <1>4, <1>5

LEMMA Divided ==
  ASSUME NEW x \in F, NEW z \in F \ {0}, NEW v \in F, Same(v, x * z)
  PROVE  v (.) Invert(z) = x
<1> DEFINE j == Invert(z)
<1>1. j \in F /\ j (.) z = 1
  BY InvertIs
<1> HIDE DEF j
<1>2. j \in Int /\ z \in Int /\ x \in Int /\ Same(j, j) /\ Same(x, x) /\ Same(z, z) /\ 1 \in Int
  BY <1>1, Prime, SameFacts
<1>3. v (.) j \in F /\ Same(v (.) j, (x * z) * j)
  BY <1>1, <1>2, SameValues
<1>4. Same(j (.) z, j * z)
  BY <1>1, <1>2, SameValues
<1>5. Same(j * z, 1)
  BY <1>1, <1>4, SameSym
<1>6. Same(x * (j * z), x * 1)
  BY <1>2, <1>5, SameOperations
<1>7. x * (j * z) = (x * z) * j /\ x * 1 = x
  BY <1>2
<1>8. Same((x * z) * j, x)
  BY <1>6, <1>7, Zenon
<1>9. Same(v (.) j, x)
  BY <1>3, <1>8, SameTrans
<1> QED
  BY <1>3, <1>9, ZeroSmall DEF j

\* Encoding gives the least word that stands for the point.
LEMMA EncodeIs ==
  ASSUME NEW u, NEW p \in Curve, u.X \in F, u.Y \in F, u.Z \in F \ {0},
         Same(u.X, p[1] * u.Z), Same(u.Y, p[2] * u.Z)
  PROVE  /\ ToBytes(u) \in Words /\ PointsOf(ToBytes(u)) = {p}
         /\ \A w \in Words : p \in PointsOf(w) => ToBytes(u) <= w
<1> DEFINE H == Pow2(FieldBits)
           s == p[1] % 2
           y == p[2]
           j == ToBytes(u)
<1>1. p[1] \in F /\ y \in F
  BY PointIs
<1>2. s \in {0, 1}
  BY <1>1, Signs
<1>3. u.X (.) Invert(u.Z) = p[1] /\ u.Y (.) Invert(u.Z) = y
  BY <1>1, Divided
<1>4. j = y + s * H
  BY <1>3 DEF ToBytes, IsNegative
<1>5. H \in Nat \ {0} /\ Pow2(FieldBits + 1) = 2 * H /\ P < H
  BY WordIs
<1>6. y \in Nat /\ y < P /\ P \in Nat \ {0}
  BY <1>1, Prime
<1> HIDE DEF H, s, j
<1>7. s * H = H * s /\ s * H \in {0, H} /\ s \in Nat
  BY <1>2, <1>5
<1>8. j \in Nat /\ j < 2 * H
  BY <1>4, <1>5, <1>6, <1>7
<1>9. j \in Words
  BY <1>5, <1>8 DEF Words, H
<1>10. j % H = y /\ j \div H = s
  <2>1. j = H * s + y /\ y < H /\ s \in Int
    BY <1>4, <1>5, <1>6, <1>7
  <2> QED
    BY <1>5, <1>6, <2>1, <1>8, DivModUnique
<1>11. YOf(j) = y /\ SignOf(j) = s
  <2>1. y % P = y
    BY <1>6, SmallDiv
  <2> QED
    BY <1>10, <2>1 DEF YOf, SignOf, H
<1>12. p \in PointsOf(j)
  BY <1>9, <1>11, DenotedIs DEF s
<1>13. PointsOf(j) = {p}
  BY <1>9, <1>12, Unique
<1>14. ASSUME NEW w \in Words, p \in PointsOf(w) PROVE j <= w
  <2> DEFINE m == w % H
             k == SignOf(w)
  <2>1. YOf(w) = y /\ (p[1] = 0 \/ s = k)
    BY <1>14, DenotedIs DEF s
  <2>2. w \in Nat /\ k \in {0, 1} /\ m \in Nat /\ YOf(w) <= m /\ w = H * k + m
    BY WordIs DEF H
  <2>3. p[1] = 0 => s = 0
    BY DEF s
  <2>4. s <= k
    BY <1>2, <2>1, <2>2, <2>3
  <2> HIDE DEF m, k
  <2>5. H * s <= H * k
    BY <1>2, <1>5, <2>2, <2>4
  <2> QED
    BY <1>4, <1>5, <1>6, <1>7, <2>1, <2>2, <2>5
<1> QED
  BY <1>9, <1>13, <1>14 DEF j
-----------------------------------------------------------------------------
(***************************************************************************)
(* Chains of calls (PointOps).                                             *)
(***************************************************************************)
\* r, in the form f, stands for p.
Stands(f, j, p) ==
  \/ f = "bytes" /\ j \in Words /\ p \in PointsOf(j)
  \/ f = "p3" /\ RepP3(j, p)
  \/ f = "p2" /\ RepP2(j, p)
  \/ f = "p1p1" /\ RepP1(j, p)

ValueOf(f, j) ==
  CASE f = "bytes" -> IF PointsOf(j) = {} THEN Nothing ELSE CHOOSE p \in PointsOf(j) : TRUE
    [] f = "p1p1"  -> <<Over(j.X, j.Z), Over(j.Y, j.T)>>
    [] OTHER       -> <<Over(j.X, j.Z), Over(j.Y, j.Z)>>

OnlyNothing(f, j) == f = "bytes" /\ j \in Words /\ PointsOf(j) = {}

\* The inductive invariant: only bytes may stand for nothing.
Meaningful == OnlyNothing(form, reg) \/ \E p \in Curve : Stands(form, reg, p)

LEMMA ValueStands ==
  /\ \A f, j, p : Stands(f, j, p) => ValueOf(f, j) = p /\ p \in Curve
  /\ \A f, j : OnlyNothing(f, j) => ValueOf(f, j) = Nothing
<1>1. ASSUME NEW f, NEW j, NEW p, Stands(f, j, p) PROVE ValueOf(f, j) = p /\ p \in Curve
  <2>1. CASE f = "bytes"
    <3>1. j \in Words /\ p \in PointsOf(j)
      BY <1>1, <2>1 DEF Stands
    <3>2. p \in Curve
      BY <3>1, DenotedIs
    <3>3. \A q \in PointsOf(j) : q = p
      BY <3>1, Unique
    <3>4. (CHOOSE q \in PointsOf(j) : TRUE) = p
      BY <3>1, <3>3
    <3> QED
      BY <2>1, <3>1, <3>2, <3>4 DEF ValueOf
  <2>2. CASE f = "p1p1"
    <3>1. RepP1(j, p)
      BY <1>1, <2>2 DEF Stands
    <3>2. <<Over(j.X, j.Z), Over(j.Y, j.T)>> = p /\ p \in Curve
      BY <3>1, ValueIs DEF RepP1
    <3> QED
      BY <2>2, <3>2 DEF ValueOf
  <2>3. CASE f \in {"p2", "p3"}
    <3>1. RepP2(j, p) \/ RepP3(j, p)
      BY <1>1, <2>3 DEF Stands
    <3>2. <<Over(j.X, j.Z), Over(j.Y, j.Z)>> = p /\ p \in Curve
      BY <3>1, ValueIs DEF RepP2, RepP3
    <3> QED
      BY <2>3, <3>2 DEF ValueOf
  <2> QED
    BY <1>1, <2>1, <2>2, <2>3 DEF Stands
<1>2. ASSUME NEW f, NEW j, OnlyNothing(f, j) PROVE ValueOf(f, j) = Nothing
  BY <1>2 DEF OnlyNothing, ValueOf
<1> QED
  BY <1>1, <1>2

LEMMA ValueNow == Value = ValueOf(form, reg) /\ Value' = ValueOf(form', reg')
BY DEF Value, ValueOf

LEMMA WordStands ==
  ASSUME NEW w \in Words
  PROVE  OnlyNothing("bytes", w) \/ \E p \in Curve : Stands("bytes", w, p)
<1>1. PointsOf(w) \subseteq Curve
  BY DenotedIs
<1> QED
  BY <1>1 DEF OnlyNothing, Stands

LEMMA FormsAreDistinct ==
  ASSUME NEW f, NEW j, NEW p, Stands(f, j, p)
  PROVE  /\ f = "p3" => RepP3(j, p)
         /\ f = "p2" => RepP2(j, p)
         /\ f = "p1p1" => RepP1(j, p)
         /\ f = "bytes" => j \in Words /\ p \in PointsOf(j)
         /\ f \in {"p2", "p3"} =>
              /\ j.X \in F /\ j.Y \in F /\ j.Z \in F \ {0} /\ p \in Curve
              /\ Same(j.X, p[1] * j.Z) /\ Same(j.Y, p[2] * j.Z)
<1>1. /\ f = "p3" => RepP3(j, p)
      /\ f = "p2" => RepP2(j, p)
      /\ f = "p1p1" => RepP1(j, p)
      /\ f = "bytes" => j \in Words /\ p \in PointsOf(j)
  BY DEF Stands
<1> QED
  BY <1>1 DEF RepP2, RepP3

LEMMA ScaledRep ==
  ASSUME NEW q \in Curve, NEW z \in F \ {0}
  PROVE  RepP3(Scaled(q, z), q)
<1>1. /\ q[1] \in F /\ q[2] \in F /\ q[1] \in Int /\ q[2] \in Int /\ z \in Int
      /\ Same(q[1], q[1]) /\ Same(q[2], q[2]) /\ Same(z, z)
  BY PointIs, Prime, SameFacts
<1>2. /\ q[1] (.) z \in F /\ Same(q[1] (.) z, q[1] * z)
      /\ q[2] (.) z \in F /\ Same(q[2] (.) z, q[2] * z)
      /\ q[1] (.) q[2] \in F /\ Same(q[1] (.) q[2], q[1] * q[2])
  BY <1>1, SameValues
<1>3. (q[1] (.) q[2]) (.) z \in F /\ Same((q[1] (.) q[2]) (.) z, (q[1] * q[2]) * z)
  BY <1>1, <1>2, SameValues
<1> DEFINE s == Scaled(q, z)
<1>4. s = [X |-> q[1] (.) z, Y |-> q[2] (.) z, Z |-> z, T |-> (q[1] (.) q[2]) (.) z]
  BY DEF Scaled
<1> HIDE DEF s
<1>5. s \in [X : F, Y : F, Z : F \ {0}, T : F]
  BY <1>2, <1>3, <1>4
<1>6. s.X = q[1] (.) z /\ s.Y = q[2] (.) z /\ s.Z = z /\ s.T = (q[1] (.) q[2]) (.) z
  BY <1>4
<1>7. Same(s.X, q[1] * s.Z) /\ Same(s.Y, q[2] * s.Z) /\ Same(s.T, (q[1] * q[2]) * s.Z)
  BY <1>2, <1>3, <1>6, Zenon
<1> QED
  BY <1>5, <1>7 DEF RepP3, s

\* Every call on a point computes a point of the group.
Computes(op, p, q) ==
  CASE op = "add"    -> AffineAdd(p, q)
    [] op = "sub"    -> AffineAdd(p, AffineNeg(q))
    [] op = "double" -> AffineAdd(p, p)
    [] op = "negate" -> AffineNeg(p)
    [] OTHER         -> p

Called(p) ==
  \E op \in {"add", "sub", "double", "negate", "copy"}, q \in Curve \cup {Nothing} :
    /\ call' = <<op, q>>
    /\ op \in {"add", "sub"} <=> q # Nothing
    /\ Stands(form', reg', Computes(op, p, q)) /\ Computes(op, p, q) \in Curve

LEMMA CalledBy ==
  ASSUME NEW p, NEW f, NEW j, NEW op \in {"add", "sub", "double", "negate", "copy"},
         NEW q \in Curve \cup {Nothing}, op \in {"add", "sub"} <=> q # Nothing,
         Became(f, j, op, q), Stands(f, j, Computes(op, p, q))
  PROVE  Called(p)
<1>1. form' = f /\ reg' = j /\ call' = <<op, q>>
  BY DEF Became
<1>2. Computes(op, p, q) \in Curve
  BY ValueStands
<1>3. Stands(form', reg', Computes(op, p, q))
  BY <1>1, Zenon
<1> QED
  BY <1>1, <1>2, <1>3 DEF Called

LEMMA SumSteps ==
  ASSUME NEW p, RepP3(reg, p), form = "p3", NEW q \in Operands, NEW z \in F \ {0}
  PROVE  /\ Add(q, z) => Called(p)
         /\ Sub(q, z) => Called(p)
         /\ Madd(q) => Called(p)
         /\ Msub(q) => Called(p)
         /\ NielsAdd2(q) => Called(p)
         /\ NielsSub2(q) => Called(p)
<1>1. q \in Curve /\ q # Nothing /\ Nothing \notin Curve
  BY OperandsAssumption
<1> DEFINE c == P3ToCached(Scaled(q, z))
           t == Precomp(q)
           n == PrecompNeg(Precomp(q))
<1>2. RepCached(c, q) /\ RepPre(t, q) /\ RepPre(n, AffineNeg(q))
  BY <1>1, ScaledRep, CachedRep, PrecompRep, PrecompNegRep
<1> HIDE DEF c, t, n
<1>3. /\ Computes("add", p, q) = AffineAdd(p, q)
      /\ Computes("sub", p, q) = AffineAdd(p, AffineNeg(q))
  BY DEF Computes
<1>4. /\ RepP1(GeAdd(reg, c), AffineAdd(p, q))
      /\ RepP1(GeSub(reg, c), AffineAdd(p, AffineNeg(q)))
      /\ RepP1(GeMadd(reg, t), AffineAdd(p, q))
      /\ RepP1(GeMsub(reg, t), AffineAdd(p, AffineNeg(q)))
      /\ RepP1(GeMadd(reg, n), AffineAdd(p, AffineNeg(q)))
  BY <1>2, AddRep, MaddRep
<1>5. /\ RepP3(P1P1ToP3(GeMadd(reg, t)), AffineAdd(p, q))
      /\ RepP3(P1P1ToP3(GeMadd(reg, n)), AffineAdd(p, AffineNeg(q)))
  BY <1>4, ConvertRep
<1>6. "add" \in {"add", "sub", "double", "negate", "copy"} /\ "sub" \in {"add", "sub", "double", "negate", "copy"}
  OBVIOUS
<1>7. /\ Stands("p1p1", GeAdd(reg, c), Computes("add", p, q))
      /\ Stands("p1p1", GeSub(reg, c), Computes("sub", p, q))
      /\ Stands("p1p1", GeMadd(reg, t), Computes("add", p, q))
      /\ Stands("p1p1", GeMsub(reg, t), Computes("sub", p, q))
      /\ Stands("p3", P1P1ToP3(GeMadd(reg, t)), Computes("add", p, q))
      /\ Stands("p3", P1P1ToP3(GeMadd(reg, n)), Computes("sub", p, q))
  BY <1>3, <1>4, <1>5 DEF Stands
<1>8. ASSUME Add(q, z) PROVE Called(p)
  <2>1. Became("p1p1", GeAdd(reg, c), "add", q)
    BY <1>8 DEF Add, c
  <2> QED
    BY <1>1, <1>6, <1>7, <2>1, CalledBy
<1>9. ASSUME Sub(q, z) PROVE Called(p)
  <2>1. Became("p1p1", GeSub(reg, c), "sub", q)
    BY <1>9 DEF Sub, c
  <2> QED
    BY <1>1, <1>6, <1>7, <2>1, CalledBy
<1>10. ASSUME Madd(q) PROVE Called(p)
  <2>1. Became("p1p1", GeMadd(reg, t), "add", q)
    BY <1>10 DEF Madd, t
  <2> QED
    BY <1>1, <1>6, <1>7, <2>1, CalledBy
<1>11. ASSUME Msub(q) PROVE Called(p)
  <2>1. Became("p1p1", GeMsub(reg, t), "sub", q)
    BY <1>11 DEF Msub, t
  <2> QED
    BY <1>1, <1>6, <1>7, <2>1, CalledBy
<1>12. ASSUME NielsAdd2(q) PROVE Called(p)
  <2>1. Became("p3", P1P1ToP3(GeMadd(reg, t)), "add", q)
    BY <1>12 DEF NielsAdd2, t
  <2> QED
    BY <1>1, <1>6, <1>7, <2>1, CalledBy
<1>13. ASSUME NielsSub2(q) PROVE Called(p)
  <2>1. Became("p3", P1P1ToP3(GeMadd(reg, n)), "sub", q)
    BY <1>13 DEF NielsSub2, n
  <2> QED
    BY <1>1, <1>6, <1>7, <2>1, CalledBy
<1> QED
  BY <1>8, <1>9, <1>10, <1>11, <1>12, <1>13

LEMMA CopySteps ==
  ASSUME NEW p, Stands(form, reg, p)
  PROVE  /\ Double => Called(p)
         /\ ToP3 => Called(p)
         /\ ToP2 => Called(p)
         /\ DropT => Called(p)
         /\ Encode => Called(p)
<1>1. Nothing \in Curve \cup {Nothing} /\ Nothing \notin Curve
  BY OperandsAssumption
<1>2. Computes("double", p, Nothing) = AffineAdd(p, p) /\ Computes("copy", p, Nothing) = p
  BY DEF Computes
<1>3. /\ "double" \in {"add", "sub", "double", "negate", "copy"} /\ "copy" \in {"add", "sub", "double", "negate", "copy"}
      /\ "double" \notin {"add", "sub"} /\ "copy" \notin {"add", "sub"}
  OBVIOUS
<1>4. form \in {"p2", "p3"} =>
        /\ reg.X \in F /\ reg.Y \in F /\ reg.Z \in F \ {0} /\ p \in Curve
        /\ Same(reg.X, p[1] * reg.Z) /\ Same(reg.Y, p[2] * reg.Z)
  BY FormsAreDistinct
<1>5. ASSUME Double PROVE Called(p)
  <2>1. form \in {"p2", "p3"} /\ Became("p1p1", GeDbl(reg), "double", Nothing)
    BY <1>5 DEF Double
  <2>2. RepP1(GeDbl(reg), AffineAdd(p, p))
    BY <1>4, <2>1, DoubleRep
  <2>3. Stands("p1p1", GeDbl(reg), Computes("double", p, Nothing))
    BY <1>2, <2>2 DEF Stands
  <2> QED
    BY <1>1, <1>3, <2>1, <2>3, CalledBy
<1>6. ASSUME ToP3 PROVE Called(p)
  <2>1. form = "p1p1" /\ Became("p3", P1P1ToP3(reg), "copy", Nothing)
    BY <1>6 DEF ToP3
  <2>2. RepP1(reg, p)
    BY <2>1, FormsAreDistinct
  <2>3. Stands("p3", P1P1ToP3(reg), Computes("copy", p, Nothing))
    BY <1>2, <2>2, ConvertRep DEF Stands
  <2> QED
    BY <1>1, <1>3, <2>1, <2>3, CalledBy
<1>7. ASSUME ToP2 PROVE Called(p)
  <2>1. form = "p1p1" /\ Became("p2", P1P1ToP2(reg), "copy", Nothing)
    BY <1>7 DEF ToP2
  <2>2. RepP1(reg, p)
    BY <2>1, FormsAreDistinct
  <2>3. Stands("p2", P1P1ToP2(reg), Computes("copy", p, Nothing))
    BY <1>2, <2>2, ConvertRep DEF Stands
  <2> QED
    BY <1>1, <1>3, <2>1, <2>3, CalledBy
<1>8. ASSUME DropT PROVE Called(p)
  <2>1. form = "p3" /\ Became("p2", P3ToP2(reg), "copy", Nothing)
    BY <1>8 DEF DropT
  <2>2. RepP3(reg, p)
    BY <2>1, FormsAreDistinct
  <2>3. Stands("p2", P3ToP2(reg), Computes("copy", p, Nothing))
    BY <1>2, <2>2, DropRep DEF Stands
  <2> QED
    BY <1>1, <1>3, <2>1, <2>3, CalledBy
<1>9. ASSUME Encode PROVE Called(p)
  <2>1. form \in {"p2", "p3"} /\ Became("bytes", ToBytes(reg), "copy", Nothing)
    BY <1>9 DEF Encode
  <2>2. ToBytes(reg) \in Words /\ PointsOf(ToBytes(reg)) = {p}
    BY <1>4, <2>1, EncodeIs
  <2>3. Stands("bytes", ToBytes(reg), Computes("copy", p, Nothing))
    BY <1>2, <2>2 DEF Stands
  <2> QED
    BY <1>1, <1>3, <2>1, <2>3, CalledBy
<1> QED
  BY <1>5, <1>6, <1>7, <1>8, <1>9

\* A decoder negates the point its bytes stand for, or leaves bytes that stand for none.
Decoding(d) ==
  form = "bytes" /\ IF d.ok THEN Became("p3", d.point, "negate", Nothing)
                    ELSE Became("bytes", reg, "refuse", Nothing)

LEMMA DecodeStep ==
  ASSUME Decoding(FromBytesNegate(reg)), reg \in Words
  PROVE  \/ /\ OnlyNothing(form, reg) /\ call' = <<"refuse", Nothing>>
            /\ form' = form /\ reg' = reg
         \/ \E p \in Curve : Stands(form, reg, p) /\ Called(p)
<1> DEFINE d == FromBytesNegate(reg)
<1>1. form = "bytes"
  BY DEF Decoding
<1>2. PointsOf(reg) \subseteq Curve
  BY DenotedIs
<1>3. CASE d.ok = TRUE /\ \E p \in PointsOf(reg) : RepP3(d.point, AffineNeg(p))
  <2>1. PICK p \in PointsOf(reg) : RepP3(d.point, AffineNeg(p))
    BY <1>3
  <2>2. Became("p3", d.point, "negate", Nothing)
    BY <1>3 DEF Decoding
  <2>3. Computes("negate", p, Nothing) = AffineNeg(p) /\ p \in Curve
    BY <1>2 DEF Computes
  <2>4. Stands("p3", d.point, Computes("negate", p, Nothing))
    BY <2>1, <2>3 DEF Stands
  <2>5. /\ "negate" \in {"add", "sub", "double", "negate", "copy"} /\ "negate" \notin {"add", "sub"}
        /\ Nothing \in Curve \cup {Nothing}
    OBVIOUS
  <2>6. Called(p)
    BY <2>2, <2>4, <2>5, CalledBy
  <2>7. Stands(form, reg, p)
    BY <1>1, <2>1 DEF Stands
  <2> QED
    BY <2>3, <2>6, <2>7
<1>4. CASE d.ok = FALSE /\ PointsOf(reg) = {}
  <2>1. Became("bytes", reg, "refuse", Nothing)
    BY <1>4 DEF Decoding
  <2> QED
    BY <1>1, <1>4, <2>1 DEF Became, OnlyNothing
<1> QED
  BY <1>3, <1>4, DecodeIs

Received == \E w \in Words : Became("bytes", w, "receive", Nothing)
Refused  == /\ OnlyNothing(form, reg) /\ call' = <<"refuse", Nothing>>
            /\ form' = form /\ reg' = reg

LEMMA PointStep ==
  ASSUME Meaningful, PointNext
  PROVE  Received \/ Refused \/ \E p \in Curve : Stands(form, reg, p) /\ Called(p)
<1>1. ASSUME form = "bytes" PROVE reg \in Words
  BY <1>1 DEF Meaningful, OnlyNothing, Stands
<1>2. ASSUME form # "bytes" PROVE \E p \in Curve : Stands(form, reg, p)
  BY <1>2 DEF Meaningful, OnlyNothing
<1>3. CASE \E w \in Words : Receive(w)
  BY <1>3 DEF Receive, Received
<1>4. CASE DecodeRef10
  <2>1. Decoding(FromBytesNegate(reg)) /\ form = "bytes"
    BY <1>4 DEF DecodeRef10, Decoding
  <2>2. reg \in Words
    BY <1>1, <2>1
  <2> QED
    BY <2>1, <2>2, DecodeStep DEF Refused
<1>5. CASE DecodeAmd64
  <2>1. Decoding(UnpackNeg(reg)) /\ form = "bytes"
    BY <1>5 DEF DecodeAmd64, Decoding
  <2>2. reg \in Words
    BY <1>1, <2>1
  <2>3. Decoding(FromBytesNegate(reg))
    BY <2>1, <2>2, DecodersAre
  <2> QED
    BY <2>2, <2>3, DecodeStep DEF Refused
<1>6. ASSUME NEW q \in Operands, NEW z \in F \ {0},
             Add(q, z) \/ Sub(q, z) \/ Madd(q) \/ Msub(q) \/ NielsAdd2(q) \/ NielsSub2(q)
      PROVE  \E p \in Curve : Stands(form, reg, p) /\ Called(p)
  <2>1. form = "p3"
    BY <1>6 DEF Add, Sub, Madd, Msub, NielsAdd2, NielsSub2
  <2>2. PICK p \in Curve : Stands(form, reg, p)
    BY <1>2, <2>1
  <2>3. RepP3(reg, p)
    BY <2>1, <2>2, FormsAreDistinct
  <2> QED
    BY <1>6, <2>1, <2>2, <2>3, SumSteps
<1>7. ASSUME Double \/ ToP3 \/ ToP2 \/ DropT \/ Encode
      PROVE  \E p \in Curve : Stands(form, reg, p) /\ Called(p)
  <2>1. form # "bytes"
    BY <1>7 DEF Double, ToP3, ToP2, DropT, Encode
  <2>2. PICK p \in Curve : Stands(form, reg, p)
    BY <1>2, <2>1
  <2> QED
    BY <1>7, <2>2, CopySteps
<1>8. Scalings \subseteq F \ {0} /\ 1 \in F \ {0}
  BY OperandsAssumption, Prime
<1>9. ASSUME NEW q \in Operands, Madd(q) \/ Msub(q) \/ NielsAdd2(q) \/ NielsSub2(q)
      PROVE  \E p \in Curve : Stands(form, reg, p) /\ Called(p)
  BY <1>6, <1>8, <1>9
<1>10. ASSUME NEW q \in Operands, NEW z \in Scalings, Add(q, z) \/ Sub(q, z)
       PROVE  \E p \in Curve : Stands(form, reg, p) /\ Called(p)
  BY <1>6, <1>8, <1>10
<1> QED
  BY <1>3, <1>4, <1>5, <1>7, <1>9, <1>10 DEF PointNext

LEMMA MeaningfulKept ==
  ASSUME Meaningful, [PointNext]_pointVars
  PROVE  Meaningful'
<1>1. ASSUME PointNext PROVE Meaningful'
  <2>1. CASE Received
    <3>1. PICK w \in Words : form' = "bytes" /\ reg' = w
      BY <2>1 DEF Received, Became
    <3>2. OnlyNothing(form', reg') \/ \E p \in Curve : Stands(form', reg', p)
      BY <3>1, WordStands
    <3> QED
      BY <3>2 DEF Meaningful
  <2>2. CASE Refused
    BY <2>2 DEF Refused, OnlyNothing, Meaningful
  <2>3. CASE \E p \in Curve : Stands(form, reg, p) /\ Called(p)
    <3>1. \E s \in Curve : Stands(form', reg', s)
      BY <2>3 DEF Called
    <3> QED
      BY <3>1 DEF Meaningful
  <2> QED
    BY <1>1, <2>1, <2>2, <2>3, PointStep
<1>2. ASSUME UNCHANGED pointVars PROVE Meaningful'
  <2>1. form' = form /\ reg' = reg
    BY <1>2 DEF pointVars
  <2> QED
    BY <2>1 DEF Meaningful
<1> QED
  BY <1>1, <1>2

\* What reg holds has a meaning after any calls.
THEOREM PointInvariance == PointSpec => []Meaningful
<1>1. ASSUME PointInit PROVE Meaningful
  BY <1>1, WordStands DEF PointInit, Meaningful
<1> QED
  BY <1>1, MeaningfulKept, PTL DEF PointSpec

\* ge.h's representations, of a point of the curve in every form, after any calls.
THEOREM RepresentsCorrect == PointSpec => []Represents
<1>1. ASSUME Meaningful PROVE Represents
  <2>1. CASE OnlyNothing(form, reg)
    BY <2>1 DEF OnlyNothing, Represents
  <2>2. ASSUME NEW p \in Curve, Stands(form, reg, p) PROVE Represents
    <3>1. ValueOf(form, reg) = p
      BY <2>2, ValueStands
    <3>2. Value \in Curve
      BY <3>1, ValueNow
    <3>3. CASE form = "bytes"
      BY <2>2, <3>3, FormsAreDistinct DEF Represents
    <3>4. CASE form = "p3"
      <4>1. RepP3(reg, p)
        BY <2>2, <3>4, FormsAreDistinct
      <4>2. reg.X (.) reg.Y = reg.Z (.) reg.T /\ reg \in [X : F, Y : F, Z : F \ {0}, T : F]
        BY <4>1, ValueIs DEF RepP3
      <4> QED
        BY <3>2, <3>4, <4>2 DEF Represents
    <3>5. CASE form = "p2"
      <4>1. reg \in [X : F, Y : F, Z : F \ {0}]
        BY <2>2, <3>5, FormsAreDistinct DEF RepP2
      <4> QED
        BY <3>2, <3>5, <4>1 DEF Represents
    <3>6. CASE form = "p1p1"
      <4>1. reg \in [X : F, Y : F, Z : F \ {0}, T : F \ {0}]
        BY <2>2, <3>6, FormsAreDistinct DEF RepP1
      <4> QED
        BY <3>2, <3>6, <4>1 DEF Represents
    <3> QED
      BY <2>2, <3>3, <3>4, <3>5, <3>6 DEF Stands
  <2> QED
    BY <1>1, <2>1, <2>2 DEF Meaningful
<1> QED
  BY <1>1, PointInvariance, PTL

\* Whatever the bytes, ge_frombytes_negate_vartime and ge25519_unpackneg_vartime say the same
\* of them, and refuse just what stands for no point.
THEOREM DecodersCorrect == PointSpec => []DecodersAgree
<1>1. ASSUME Meaningful PROVE DecodersAgree
  <2> SUFFICES ASSUME form = "bytes"
               PROVE  /\ FromBytesNegate(reg) = UnpackNeg(reg)
                      /\ FromBytesNegate(reg).ok <=> Value # Nothing
                      /\ \A p, q \in PointsOf(reg) : p = q
    BY DEF DecodersAgree
  <2>1. reg \in Words
    BY <1>1 DEF Meaningful, OnlyNothing, Stands
  <2>2. Nothing \notin Curve /\ PointsOf(reg) \subseteq Curve
    BY <2>1, OperandsAssumption, DenotedIs
  <2>3. PointsOf(reg) = {} => Value = Nothing
    BY <2>1, ValueStands, ValueNow DEF OnlyNothing
  <2>4. ASSUME NEW p \in PointsOf(reg) PROVE Value \in Curve
    <3>1. Stands("bytes", reg, p)
      BY <2>1, <2>4 DEF Stands
    <3> QED
      BY <3>1, ValueStands, ValueNow
  <2>5. FromBytesNegate(reg).ok \in BOOLEAN
    BY <2>1, DecodeIs
  <2>6. FromBytesNegate(reg).ok <=> PointsOf(reg) # {}
    BY <2>1, DecodeIs
  <2> QED
    BY <2>1, <2>2, <2>3, <2>4, <2>6, DecodersAre, Unique
<1> QED
  BY <1>1, PointInvariance, PTL

\* Encoding is canonical: of the words that stand for a point, the least is written.
THEOREM EncodingCorrect == PointSpec => EncodingIsCanonical
<1>1. ASSUME Meaningful, [PointNext]_pointVars, Encode, NEW w \in Words, PointsOf(w) = PointsOf(reg')
      PROVE  reg' <= w
  <2>1. form \in {"p2", "p3"} /\ reg' = ToBytes(reg)
    BY <1>1 DEF Encode, Became
  <2>2. PICK p \in Curve : Stands(form, reg, p)
    BY <1>1, <2>1 DEF Meaningful, OnlyNothing
  <2>3. /\ reg.X \in F /\ reg.Y \in F /\ reg.Z \in F \ {0}
        /\ Same(reg.X, p[1] * reg.Z) /\ Same(reg.Y, p[2] * reg.Z)
    BY <2>1, <2>2, FormsAreDistinct
  <2>4. PointsOf(ToBytes(reg)) = {p} /\ \A v \in Words : p \in PointsOf(v) => ToBytes(reg) <= v
    BY <2>3, EncodeIs
  <2> QED
    BY <1>1, <2>1, <2>4
<1>2. ASSUME Meaningful, [PointNext]_pointVars
      PROVE  [Encode => \A w \in Words : PointsOf(w) = PointsOf(reg') => reg' <= w]_pointVars
  BY <1>1, <1>2
<1> QED
  BY <1>2, PointInvariance, PTL DEF EncodingIsCanonical, PointSpec

LEMMA GroupStep ==
  ASSUME Meaningful, PointNext
  PROVE  Group!Next
<1>1. Nothing \notin Curve
  BY OperandsAssumption
<1>2. CASE Received
  <2>1. PICK w \in Words : form' = "bytes" /\ reg' = w /\ call' = <<"receive", Nothing>>
    BY <1>2 DEF Received, Became
  <2>2. ValueOf("bytes", w) \in Curve \cup {Nothing}
    BY WordStands, ValueStands
  <2>3. Value' \in Curve \cup {Nothing}
    BY <2>1, <2>2, ValueNow
  <2> QED
    BY <2>1, <2>3 DEF Group!Next, Group!Receive
<1>3. CASE Refused
  <2>1. Value = Nothing /\ Value' = Nothing /\ call' = <<"refuse", Nothing>>
    BY <1>3, ValueStands, ValueNow DEF Refused
  <2> QED
    BY <2>1 DEF Group!Next, Group!Refuse
<1>4. ASSUME NEW p \in Curve, Stands(form, reg, p), Called(p) PROVE Group!Next
  <2>1. PICK op \in {"add", "sub", "double", "negate", "copy"}, q \in Curve \cup {Nothing} :
          /\ call' = <<op, q>>
          /\ op \in {"add", "sub"} <=> q # Nothing
          /\ Stands(form', reg', Computes(op, p, q)) /\ Computes(op, p, q) \in Curve
    BY <1>4 DEF Called
  <2>2. Value = p /\ Value' = Computes(op, p, q)
    BY <1>4, <2>1, ValueStands, ValueNow
  <2>3. Value # Nothing
    BY <1>1, <2>2
  <2>4. call' \in ({"add", "sub"} \X Curve) \cup ({"double", "negate", "copy"} \X {Nothing})
    BY <2>1
  <2>5. Value' = Group!Outcome(call')
    <3>1. call'[1] = op /\ call'[2] = q
      BY <2>1
    <3> QED
      BY <2>1, <2>2, <3>1 DEF Group!Outcome, Computes
  <2> QED
    BY <2>3, <2>4, <2>5 DEF Group!Next, Group!Compute
<1> QED
  BY <1>2, <1>3, <1>4, PointStep

\* The functions on representations, on encodings and between them implement the group of the
\* curve's points: each call maps to a step of CurveGroup with the operation it stands for.
THEOREM ImplementsGroup == PointSpec => GroupSpec
<1>1. ASSUME PointInit PROVE Group!Init
  <2>1. form = "bytes" /\ reg \in Words /\ call = <<"receive", Nothing>>
    BY <1>1 DEF PointInit
  <2>2. Value \in Curve \cup {Nothing}
    BY <2>1, WordStands, ValueStands, ValueNow
  <2> QED
    BY <2>1, <2>2 DEF Group!Init
<1>2. ASSUME Meaningful, [PointNext]_pointVars PROVE [Group!Next]_<<Value, call>>
  <2>1. CASE PointNext
    BY <1>2, <2>1, GroupStep
  <2>2. CASE UNCHANGED pointVars
    BY <2>2 DEF pointVars, Value
  <2> QED
    BY <1>2, <2>1, <2>2
<1> QED
  BY <1>1, <1>2, PointInvariance, PTL DEF PointSpec, GroupSpec, Group!Spec
-----------------------------------------------------------------------------
(***************************************************************************)
(* The digits of slide (DoubleScalarMult).                                 *)
(***************************************************************************)
Terms(d) == [k \in Positions |-> d[k] * 2^k]

\* A digit that has been passed, and how many places after it are 0.
Digit(x, m) == x = 0 \/ (x % 2 = 1 /\ x \in -m .. m)
Gap(m)      == IF m = 15 THEN 4 ELSE 6

\* Digits d of the scalar s when slide is at place n, and c places beyond it, with m for the
\* largest digit.  The sums alone would not do: that a carry finds a 0 to stop at follows
\* from the distance between the digits passed, which bounds what they can take away.
SlideAt(d, n, c, m, s) ==
  /\ d \in [Positions -> Int]
  /\ n \in 0 .. Bits /\ c \in 1 .. Reach + 1
  /\ c > 1 => n < Bits /\ d[n] # 0
  /\ \A k \in Positions : n < k \/ (n = k /\ c = 1) => d[k] \in {0, 1}
  /\ \A k \in Positions : k < n \/ (n = k /\ c > 1) => Digit(d[k], m)
  /\ \A j, k \in Positions : j < n /\ j < k /\ k <= j + Gap(m) /\ d[j] # 0 => d[k] = 0
  /\ \A k \in Positions : n < k /\ k < n + c => d[k] = 0
  /\ Total(Terms(d), Bits) = s

Scalar == 0 .. 2^(Bits - SpareBits) - 1
MaxA == 2 * ASize - 1
MaxB == 2 * BSize - 1

IInv ==
  /\ lib \in {"ref10", "amd64"} /\ a \in Scalar /\ b \in Scalar
  /\ pc \in {"slide_a", "slide_b", "table", "skip", "ladder", "done"}
  /\ IF pc = "slide_a" THEN SlideAt(aslide, at, by, MaxA, a) /\ SlideAt(bslide, 0, 1, MaxB, b)
     ELSE IF pc = "slide_b" THEN SlideAt(aslide, Bits, 1, MaxA, a) /\ SlideAt(bslide, at, by, MaxB, b)
     ELSE SlideAt(aslide, Bits, 1, MaxA, a) /\ SlideAt(bslide, Bits, 1, MaxB, b)
-----------------------------------------------------------------------------
LEMMA Sizes ==
  /\ Bits \in Nat /\ SpareBits \in 1 .. Bits /\ Reach \in Nat /\ 6 <= Reach
  /\ Positions = 0 .. Bits - 1 /\ \A k : k \in Positions <=> k \in Nat /\ k < Bits
BY LadderAssumption DEF SlideA!BitsAssumption, Positions

LEMMA TermsInt ==
  ASSUME NEW d \in [Positions -> Int]
  PROVE  \A k \in 0 .. Bits - 1 : Terms(d)[k] = d[k] * 2^k /\ Terms(d)[k] \in Int
<1> SUFFICES ASSUME NEW k \in 0 .. Bits - 1
             PROVE  Terms(d)[k] = d[k] * 2^k /\ Terms(d)[k] \in Int
  OBVIOUS
<1>1. k \in Positions /\ k \in Nat /\ d[k] \in Int
  BY Sizes
<1>2. 2^k \in Int
  BY <1>1, PowPositive
<1>3. Terms(d)[k] = d[k] * 2^k
  BY <1>1 DEF Terms
<1> QED
  BY <1>1, <1>2, <1>3, MulFacts

\* Where digits are 0 a sum does not grow.
LEMMA ZerosAdd ==
  ASSUME NEW d \in [Positions -> Int], NEW p \in 0 .. Bits, NEW q \in p .. Bits,
         \A k \in p .. q - 1 : d[k] = 0
  PROVE  Total(Terms(d), q) = Total(Terms(d), p)
<1> DEFINE f == Terms(d)
           t == Total(f, p)
           j == [k \in p .. q |-> t]
<1>1. p \in Nat /\ q \in Nat /\ p \in 0 .. q /\ q \in 0 .. Bits /\ Bits \in Nat
  BY Sizes
<1>2. \A k \in 0 .. Bits - 1 : f[k] \in Int
  BY TermsInt
<1>3. \A k \in 0 .. q - 1 : f[k] \in Int
  BY <1>1, <1>2
<1>4. t \in Int
  <2>1. \A k \in 0 .. p - 1 : f[k] \in Int
    BY <1>1, <1>2
  <2> HIDE DEF f
  <2> QED
    BY <1>1, <2>1, TotalNext
<1>5. \A k \in p .. q - 1 : f[k] = 0
  <2> SUFFICES ASSUME NEW k \in p .. q - 1 PROVE f[k] = 0
    OBVIOUS
  <2>1. k \in 0 .. Bits - 1 /\ d[k] = 0 /\ k \in Nat
    BY <1>1
  <2>2. f[k] = 0 * 2^k
    BY <2>1, TermsInt
  <2>3. 2^k \in Int
    BY <2>1, PowPositive
  <2> HIDE DEF f
  <2> QED
    BY <2>2, <2>3
<1> HIDE DEF f, t
<1>6. j[p] = Total(f, p)
  BY <1>1 DEF t
<1>7. \A k \in p .. q - 1 : j[k + 1] = j[k] + f[k]
  BY <1>1, <1>4, <1>5
<1>8. j[q] = t
  BY <1>1
<1> HIDE DEF j
<1>9. Total(f, q) = j[q]
  BY <1>1, <1>3, <1>6, <1>7, TotalReaches
<1> QED
  BY <1>1, <1>8, <1>9 DEF f, t

\* What has been passed cannot take away a whole 2^n: a digit is below 2^w in size, and the
\* w digits before it are 0.
LEMMA LowSum ==
  ASSUME NEW d, NEW n \in Nat, NEW c \in Nat, NEW m \in {15, 63}, NEW s,
         SlideAt(d, n, c, m, s),
         n < Bits, d[n] # 0
  PROVE  Total(Terms(d), n) \in Int /\ -(2^n) < Total(Terms(d), n)
<1>w. PICK w \in Nat : w = Gap(m) /\ w <= 6 /\ m = 2^w - 1 /\ w > 0
  <2>1. Gap(m) \in Nat /\ Gap(m) <= 6 /\ m = 2^Gap(m) - 1 /\ Gap(m) > 0
    BY SMT DEF Gap
  <2> QED
    BY <2>1
<1> DEFINE f == Terms(d)
           Low(k) == Total(f, k) \in Int /\ -(2^(k + w)) < Total(f, k)
           S == {k \in 0 .. n : \A j \in 0 .. k : Low(j)}
<1>t. /\ n \in Nat /\ Bits \in Nat /\ d \in [Positions -> Int]
      /\ \A k : k \in Positions <=> k \in Nat /\ k < Bits
  BY Sizes DEF SlideAt
<1>1. \A k \in 0 .. Bits - 1 : f[k] = d[k] * 2^k /\ f[k] \in Int
  BY <1>t, TermsInt
<1>2. /\ Total(f, 0) = 0
      /\ \A k \in 0 .. n : Total(f, k) \in Int
      /\ \A k \in 0 .. n - 1 : Total(f, k + 1) = Total(f, k) + f[k]
  <2>1. \A k \in 0 .. Bits - 1 : f[k] \in Int
    BY <1>1
  <2> HIDE DEF f
  <2>2. /\ \A k \in 0 .. Bits - 1 : Total(f, k) \in Int /\ Total(f, k + 1) = Total(f, k) + f[k]
    BY <1>t, <2>1, TotalNext
  <2>3. Total(f, 0) = 0
    <3>1. \A k \in 0 .. 0 - 1 : f[k] \in Int
      OBVIOUS
    <3> QED
      BY <3>1, TotalNext
  <2> QED
    BY <1>t, <2>2, <2>3
\* before a digit that is not 0, w places are 0
<1>3. ASSUME NEW k \in 0 .. n, d[k] # 0, \A j \in 0 .. k : j = k \/ Low(j)
      PROVE  -(2^k) < Total(f, k)
  <2> DEFINE p == IF w <= k THEN k - w ELSE 0
  <2>1. p \in 0 .. k /\ k \in 0 .. Bits /\ k \in p .. Bits
    BY <1>t, <1>w
  <2>2. \A j \in p .. k - 1 : d[j] = 0
    <3> SUFFICES ASSUME NEW j \in p .. k - 1, d[j] # 0 PROVE FALSE
      OBVIOUS
    <3>1. j \in Positions /\ k \in Positions /\ j < n /\ j < k /\ k <= j + w
      BY <1>t, <1>w, <2>1
    <3> QED
      BY <1>w, <1>3, <3>1 DEF SlideAt
  <2>3. Total(f, k) = Total(f, p)
    BY <1>t, <2>1, <2>2, ZerosAdd
  <2>4. 2^k \in Nat \ {0}
    BY <1>t, PowPositive
  <2>5. CASE w <= k
    <3>1. p + w = k /\ p < k
      BY <1>t, <1>w, <2>5
    <3>2. Low(p)
      BY <1>3, <2>1, <3>1
    <3> QED
      BY <2>3, <3>1, <3>2
  <2>6. CASE ~(w <= k)
    <3>1. p = 0
      BY <2>6
    <3> QED
      BY <1>2, <2>3, <2>4, <3>1
  <2> QED
    BY <2>5, <2>6
<1>4. 0 \in S
  <2>1. 2^(0 + w) \in Nat \ {0}
    BY <1>w, PowPositive
  <2> HIDE DEF f
  <2> QED
    BY <1>2, <1>t, <2>1
<1>5. ASSUME NEW k \in 0 .. n - 1, k \in S
      PROVE  k + 1 \in S
  <2>1. Low(k) /\ \A j \in 0 .. k : Low(j)
    BY <1>5
  <2>2. Total(f, k + 1) = Total(f, k) + f[k] /\ f[k] = d[k] * 2^k /\ Total(f, k) \in Int
        /\ Total(f, k + 1) \in Int
    BY <1>1, <1>2, <1>t
  <2>3. k + w \in Nat /\ (k + 1) + w = (k + w) + 1 /\ k \in Nat
    BY <1>w, <1>t
  <2>4. 2^((k + 1) + w) = 2 * 2^(k + w) /\ 2^(k + w) \in Nat \ {0} /\ 2^k \in Nat \ {0}
    BY <2>3, PowNext, PowPositive
  <2>5. 2^(k + w) = 2^k * 2^w
    <3>1. k \in Nat
      BY <1>t
    <3> QED
      BY <3>1, PowSum
  <2>6. Low(k + 1)
    <3>1. CASE d[k] = 0
      <4>1. f[k] = 0
        BY <2>2, <2>4, <3>1
      <4> HIDE DEF f
      <4> QED
        BY <2>1, <2>2, <2>4, <4>1
    <3>2. CASE d[k] # 0
      <4>1. -(2^k) < Total(f, k)
        BY <1>3, <2>1, <3>2, <1>t
      <4>2. d[k] \in Int /\ -m <= d[k]
        BY <1>t, <3>2 DEF SlideAt, Digit
      <4>3. -m * 2^k <= d[k] * 2^k
        <5>1. \A x, y \in Int, z \in Nat : x <= y => x * z <= y * z
          BY SMT
        <5> QED
          BY <2>4, <4>2, <5>1
      <4>4. -m * 2^k = 2^k - 2^(k + w)
        <5>1. \A x, y \in Int : -(x - 1) * y = y - y * x
          BY SMT
        <5>2. 2^w \in Int
          BY <1>w, PowPositive
        <5> QED
          BY <1>w, <2>4, <2>5, <5>1, <5>2
      <4> DEFINE y == d[k] * 2^k
                 z == -m * 2^k
      <4>5. y \in Int /\ z \in Int /\ z <= y /\ z = 2^k - 2^(k + w) /\ f[k] = y
        BY <2>2, <2>4, <4>2, <4>3, <4>4, MulFacts
      <4> HIDE DEF f, y, z
      <4> QED
        BY <2>2, <2>4, <4>1, <4>5
    <3> QED
      BY <3>1, <3>2
  <2> HIDE DEF Low
  <2> QED
    BY <2>1, <2>6, <1>t
<1> HIDE DEF S
<1>6. \A k \in 0 .. n : k \in S
  BY <1>4, <1>5, <1>t, InductionTo
<1>7. \A j \in 0 .. n : Low(j)
  BY <1>6, <1>t DEF S
<1>8. n \in 0 .. n
  BY <1>t
<1> QED
  BY <1>2, <1>3, <1>7, <1>8

\* Where digits are 1 a sum grows as powers of 2 do.
LEMMA OnesAdd ==
  ASSUME NEW d \in [Positions -> Int], NEW p \in 0 .. Bits, NEW q \in p .. Bits,
         \A k \in p .. q - 1 : d[k] = 1
  PROVE  Total(Terms(d), q) = Total(Terms(d), p) + (2^q - 2^p)
<1> DEFINE f == Terms(d)
           t == Total(f, p)
           j == [k \in p .. q |-> t + (2^k - 2^p)]
<1>1. p \in Nat /\ q \in Nat /\ p \in 0 .. q /\ q \in 0 .. Bits /\ Bits \in Nat
  BY Sizes
<1>2. \A k \in 0 .. Bits - 1 : f[k] \in Int
  BY TermsInt
<1>3. \A k \in 0 .. q - 1 : f[k] \in Int
  BY <1>1, <1>2
<1>4. t \in Int
  <2>1. \A k \in 0 .. p - 1 : f[k] \in Int
    BY <1>1, <1>2
  <2> HIDE DEF f
  <2> QED
    BY <1>1, <2>1, TotalNext
<1>5. \A k \in p .. q - 1 : f[k] = 2^k
  <2> SUFFICES ASSUME NEW k \in p .. q - 1 PROVE f[k] = 2^k
    OBVIOUS
  <2>1. k \in 0 .. Bits - 1 /\ d[k] = 1 /\ k \in Nat
    BY <1>1
  <2>2. f[k] = 1 * 2^k
    BY <2>1, TermsInt
  <2>3. 2^k \in Int
    BY <2>1, PowPositive
  <2> HIDE DEF f
  <2> QED
    BY <2>2, <2>3
<1>6. \A k \in Nat : 2^k \in Int /\ 2^(k + 1) = 2 * 2^k
  BY PowNext
<1> HIDE DEF f, t
<1>7. j[p] = Total(f, p)
  BY <1>1, <1>4, <1>6 DEF t
<1>8. \A k \in p .. q - 1 : j[k + 1] = j[k] + f[k]
  <2> SUFFICES ASSUME NEW k \in p .. q - 1 PROVE j[k + 1] = j[k] + f[k]
    OBVIOUS
  <2>1. j[k] = t + (2^k - 2^p) /\ j[k + 1] = t + (2^(k + 1) - 2^p) /\ k \in Nat
    BY <1>1
  <2>2. f[k] = 2^k /\ 2^k \in Int /\ 2^p \in Int /\ 2^(k + 1) = 2 * 2^k
    BY <1>1, <1>5, <1>6, <2>1
  <2> HIDE DEF j
  <2> QED
    BY <1>4, <2>1, <2>2
<1>9. j[q] = t + (2^q - 2^p)
  BY <1>1
<1> HIDE DEF j
<1>10. Total(f, q) = j[q]
  BY <1>1, <1>3, <1>7, <1>8, TotalReaches
<1> QED
  BY <1>1, <1>9, <1>10 DEF f, t
-----------------------------------------------------------------------------
\* What every step needs of where it is.
Place(d, n, c, m) ==
  /\ n \in Nat /\ c \in Nat /\ 1 <= c /\ n \in Positions /\ d \in [Positions -> Int]
  /\ d[n] \in -m .. m /\ d[n] % 2 = 1
  /\ \A k \in Positions : n < k => d[k] \in {0, 1}

LEMMA AtPlace ==
  ASSUME NEW d, NEW n \in Nat, NEW c \in Nat, NEW m \in {15, 63}, NEW s,
         SlideAt(d, n, c, m, s), n < Bits, d[n] # 0
  PROVE  Place(d, n, c, m)
<1>1. n \in Nat /\ c \in Nat /\ 1 <= c /\ n \in Positions /\ d \in [Positions -> Int]
  BY Sizes DEF SlideAt
<1>2. CASE c = 1
  <2>1. d[n] \in {0, 1}
    BY <1>1, <1>2 DEF SlideAt
  <2> QED
    BY <1>1, <2>1, d[n] # 0, m \in {15, 63} DEF SlideAt, Place
<1>3. CASE c > 1
  <2>1. Digit(d[n], m)
    BY <1>1, <1>3 DEF SlideAt
  <2> QED
    BY <1>1, <2>1, d[n] # 0, m \in {15, 63} DEF SlideAt, Digit, Place
<1> QED
  BY <1>1, <1>2, <1>3

\* On to the next place.
LEMMA NextKeeps ==
  ASSUME NEW d, NEW n \in Nat, NEW c \in Nat, NEW m \in {15, 63}, NEW s,
         SlideAt(d, n, c, m, s), n < Bits,
         d[n] # 0 => c > Gap(m) \/ n + c >= Bits
  PROVE  SlideAt(d, n + 1, 1, m, s)
<1>1. /\ n \in Nat /\ c \in Nat /\ n + 1 \in 0 .. Bits /\ 1 \in 1 .. Reach + 1
      /\ d \in [Positions -> Int] /\ Total(Terms(d), Bits) = s
      /\ \A k : k \in Positions <=> k \in Nat /\ k < Bits
  BY Sizes DEF SlideAt
<1>2. \A k \in Positions : n + 1 < k \/ n + 1 = k => d[k] \in {0, 1}
  BY <1>1 DEF SlideAt
<1>3. \A k \in Positions : k < n + 1 => Digit(d[k], m)
  <2> SUFFICES ASSUME NEW k \in Positions, k < n + 1 PROVE Digit(d[k], m)
    OBVIOUS
  <2>1. CASE k < n \/ c > 1
    BY <1>1, <2>1 DEF SlideAt
  <2>2. CASE k = n /\ c = 1
    <3>1. d[k] \in {0, 1}
      BY <2>2 DEF SlideAt
    <3> QED
      BY <3>1 DEF Digit
  <2> QED
    BY <1>1, <2>1, <2>2 DEF SlideAt
<1>4. ASSUME NEW j \in Positions, NEW k \in Positions,
             j < n + 1, j < k, k <= j + Gap(m), d[j] # 0
      PROVE  d[k] = 0
  <2>1. CASE j < n
    BY <1>4, <2>1 DEF SlideAt
  <2>2. CASE j = n
    <3>1. k < n + c
      <4>1. k \in Nat /\ k < Bits /\ k <= n + Gap(m) /\ Gap(m) \in Nat /\ d[n] # 0 /\ Bits \in Nat
        BY <1>1, <1>4, <2>2, Sizes DEF Gap
      <4> QED
        BY <1>1, <4>1
    <3>2. n < k
      BY <1>4, <2>2
    <3> QED
      BY <3>1, <3>2 DEF SlideAt
  <2> QED
    BY <1>1, <2>1, <2>2, <1>4
<1> QED
  BY <1>1, <1>2, <1>3, <1>4 DEF SlideAt

LEMMA SkipKeeps ==
  ASSUME NEW d, NEW n \in Nat, NEW c \in Nat, NEW m \in {15, 63}, NEW s,
         SlideAt(d, n, c, m, s),
         n < Bits, d[n] # 0, c <= Reach, n + c < Bits, d[n + c] = 0
  PROVE  SlideAt(d, n, c + 1, m, s)
<1>1. /\ n \in Nat /\ c \in Nat /\ c + 1 \in 1 .. Reach + 1 /\ d \in [Positions -> Int]
      /\ \A k : k \in Positions <=> k \in Nat /\ k < Bits
  BY Sizes DEF SlideAt
<1>2. \A k \in Positions : n < k \/ (n = k /\ c + 1 = 1) => d[k] \in {0, 1}
  BY <1>1 DEF SlideAt
<1>3. \A k \in Positions : k < n \/ (n = k /\ c + 1 > 1) => Digit(d[k], m)
  <2>1. Place(d, n, c, m)
    BY AtPlace
  <2>2. Digit(d[n], m)
    BY <2>1 DEF Digit, Place
  <2> QED
    BY <2>2 DEF SlideAt
<1>4. \A k \in Positions : n < k /\ k < n + (c + 1) => d[k] = 0
  BY <1>1 DEF SlideAt
<1> QED
  BY <1>1, <1>2, <1>3, <1>4 DEF SlideAt

\* A bit that is 1 and can neither be added nor subtracted is beyond the gap.
LEMMA StopKeeps ==
  ASSUME NEW d, NEW n \in Nat, NEW c \in Nat, NEW m \in {15, 63}, NEW s,
         SlideAt(d, n, c, m, s),
         n < Bits, d[n] # 0, d[n + c] = 1,
         d[n] + d[n + c] * 2^c > m, d[n] - d[n + c] * 2^c < -m
  PROVE  SlideAt(d, n + 1, 1, m, s)
<1>1. Place(d, n, c, m)
  BY AtPlace
<1>4. c \in Nat /\ 1 <= c /\ d[n] \in -m .. m
  BY <1>1 DEF Place
<1>2. 2^c \in Int /\ d[n + c] * 2^c = 2^c
  BY <1>4, PowPositive
<1>3. c > Gap(m)
  <2> SUFFICES ASSUME c <= Gap(m) PROVE FALSE
    BY <1>4 DEF Gap
  <2>2. 2^4 = 16 /\ 2^6 = 64
    BY SMT
  <2>3. 2^c <= m + 1
    <3>1. Gap(m) \in Nat /\ 2^Gap(m) = m + 1
      BY <2>2 DEF Gap
    <3> QED
      BY <1>4, <3>1, PowMono
  <2>4. d[n] + 2^c > m /\ d[n] - 2^c < -m
    BY <1>2
  <2> QED
    BY <1>2, <1>4, <2>3, <2>4
<1> QED
  BY <1>3, NextKeeps

\* A digit that takes a bit at its right distance stays odd.
LEMMA OddStays ==
  ASSUME NEW x \in Int, NEW c \in Nat, 1 <= c, x % 2 = 1
  PROVE  /\ (x + 2^c) % 2 = 1 /\ x + 2^c # 0
         /\ (x - 2^c) % 2 = 1 /\ x - 2^c # 0
<1>1. 2^c = 2 * 2^(c - 1) /\ 2^(c - 1) \in Nat
  BY Even
<1> DEFINE y == 2^(c - 1)
<1>2. y \in Int /\ 2^c = 2 * y
  BY <1>1
<1> HIDE DEF y
<1> QED
  BY <1>2

LEMMA AddKeeps ==
  ASSUME NEW d, NEW n \in Nat, NEW c \in Nat, NEW m \in {15, 63}, NEW s,
         SlideAt(d, n, c, m, s),
         n < Bits, d[n] # 0, c <= Reach, n + c < Bits,
         d[n] + d[n + c] * 2^c <= m
  PROVE  SlideAt([d EXCEPT ![n] = @ + d[n + c] * 2^c, ![n + c] = 0], n, c + 1, m, s)
<1>1. Place(d, n, c, m)
  BY AtPlace
<1>2. /\ n \in Nat /\ c \in Nat /\ 1 <= c /\ c + 1 \in 1 .. Reach + 1 /\ n \in Positions
      /\ n + c \in Positions /\ n + c \in Nat /\ d \in [Positions -> Int] /\ Bits \in Nat
      /\ n < n + c
      /\ \A k : k \in Positions <=> k \in Nat /\ k < Bits
  BY <1>1, Sizes DEF SlideAt, Place
<1>3. d[n] \in -m .. m /\ d[n] % 2 = 1 /\ d[n] \in Int /\ d[n + c] \in {0, 1}
  BY <1>1, <1>2 DEF Place
<1>4. 2^c \in Nat
  BY <1>2, PowPositive
<1> DEFINE x == d[n + c] * 2^c
           l == [d EXCEPT ![n] = @ + x, ![n + c] = 0]
<1>5. x = 0 \/ x = 2^c
  BY <1>3, <1>4
<1>6. x \in Nat /\ d[n] + x <= m
  BY <1>4, <1>5
<1>7. x * 2^n = d[n + c] * 2^(n + c)
  <2>1. 2^(n + c) = 2^n * 2^c /\ 2^n \in Nat
    BY <1>2, PowSum, PowPositive
  <2>2. CASE d[n + c] = 0
    BY <1>4, <2>1, <2>2
  <2>3. CASE d[n + c] = 1
    BY <1>4, <2>1, <2>3
  <2> QED
    BY <1>3, <2>2, <2>3
<1> HIDE DEF x
<1>8. Digit(d[n] + x, m) /\ d[n] + x # 0
  <2>1. (d[n] + x) % 2 = 1 /\ d[n] + x # 0
    <3>1. CASE x = 0
      BY <1>3, <3>1
    <3>2. CASE x = 2^c
      <4>1. (d[n] + 2^c) % 2 = 1 /\ d[n] + 2^c # 0
        BY <1>2, <1>3, OddStays
      <4> QED
        BY <3>2, <4>1
    <3> QED
      BY <1>5, <3>1, <3>2
  <2> QED
    BY <2>1, <1>3, <1>6 DEF Digit
<1>9. /\ l \in [Positions -> Int] /\ l[n] = d[n] + x /\ l[n + c] = 0
      /\ \A k \in Positions : k # n /\ k # n + c => l[k] = d[k]
  BY <1>2, <1>3, <1>6
<1> HIDE DEF l
<1>10. Total(Terms(l), Bits) = Total(Terms(d), Bits)
  <2> DEFINE f == Terms(d)
             g == Terms(l)
             z == x * 2^n
  <2>1. \A k \in 0 .. Bits - 1 : f[k] = d[k] * 2^k /\ f[k] \in Int
    BY <1>2, TermsInt
  <2>2. \A k \in 0 .. Bits - 1 : g[k] = l[k] * 2^k /\ g[k] \in Int
    BY <1>9, TermsInt
  <2>3. n \in 0 .. Bits - 1 /\ n + c \in 0 .. Bits - 1
    BY <1>2
  <2>4. 2^n \in Nat /\ 2^(n + c) \in Nat
    BY <1>2, PowPositive
  <2>5. z \in Int
    BY <1>6, <2>4, MulFacts
  <2>6. g[n] = f[n] + z
    <3>1. (d[n] + x) * 2^n = d[n] * 2^n + x * 2^n
      BY <1>3, <1>6, <2>4, MulFacts
    <3> QED
      BY <1>9, <2>1, <2>2, <2>3, <3>1
  <2>7. g[n + c] = f[n + c] - z
    <3>1. g[n + c] = 0 * 2^(n + c) /\ f[n + c] = z
      BY <1>7, <1>9, <2>1, <2>2, <2>3
    <3>2. g[n + c] = 0
      BY <2>4, <3>1
    <3> HIDE DEF f, g, z
    <3> QED
      BY <2>5, <3>1, <3>2
  <2>8. \A k \in 0 .. Bits - 1 : k # n /\ k # n + c => g[k] = f[k]
    BY <1>2, <1>9, <2>1, <2>2
  <2>9. \A k \in 0 .. Bits - 1 : f[k] \in Int
    BY <2>1
  <2> HIDE DEF f, g, z
  <2>10. Total(g, Bits) = Total(f, Bits)
    BY <1>2, <2>3, <2>5, <2>6, <2>7, <2>8, <2>9, TotalMoved
  <2> QED
    BY <2>10 DEF f, g
<1>11. Total(Terms(l), Bits) = s
  BY <1>10 DEF SlideAt
<1>12. \A k \in Positions : n < k \/ (n = k /\ c + 1 = 1) => l[k] \in {0, 1}
  <2> SUFFICES ASSUME NEW k \in Positions, n < k PROVE l[k] \in {0, 1}
    BY <1>2
  <2>1. d[k] \in {0, 1}
    BY <1>1 DEF Place
  <2>2. k # n
    BY <1>2
  <2> QED
    BY <1>9, <2>1, <2>2
<1>13. \A k \in Positions : k < n \/ (n = k /\ c + 1 > 1) => Digit(l[k], m)
  <2> SUFFICES ASSUME NEW k \in Positions, k < n \/ n = k PROVE Digit(l[k], m)
    OBVIOUS
  <2>1. CASE k < n
    <3>1. l[k] = d[k]
      BY <1>2, <1>9, <2>1
    <3> QED
      BY <2>1, <3>1 DEF SlideAt
  <2>2. CASE n = k
    BY <1>8, <1>9, <2>2
  <2> QED
    BY <2>1, <2>2
<1>14. ASSUME NEW j \in Positions, NEW k \in Positions,
              j < n, j < k, k <= j + Gap(m), l[j] # 0
       PROVE  l[k] = 0
  <2>1. l[j] = d[j]
    BY <1>2, <1>9, <1>14
  <2>2. d[k] = 0
    BY <1>14, <2>1 DEF SlideAt
  <2>3. k # n
    BY <2>2
  <2> QED
    BY <1>9, <2>2, <2>3
<1>15. \A k \in Positions : n < k /\ k < n + (c + 1) => l[k] = 0
  <2> SUFFICES ASSUME NEW k \in Positions, n < k, k < n + (c + 1) PROVE l[k] = 0
    OBVIOUS
  <2>1. k = n + c \/ k < n + c
    BY <1>2
  <2>2. k < n + c => d[k] = 0
    BY DEF SlideAt
  <2> QED
    BY <1>2, <1>9, <2>1, <2>2
<1>16. n \in 0 .. Bits /\ (c + 1 > 1 => n < Bits /\ l[n] # 0)
  BY <1>2, <1>8, <1>9
<1>17. SlideAt(l, n, c + 1, m, s)
  BY <1>2, <1>9, <1>11, <1>12, <1>13, <1>14, <1>15, <1>16 DEF SlideAt
<1> QED
  BY <1>17 DEF l, x

\* The bit that is carried finds a 0: were all the bits from there on 1, the digits would be
\* worth more than half of 2^Bits, and no scalar is.
LEMMA CarryStops ==
  ASSUME NEW d, NEW n \in Nat, NEW c \in Nat, NEW m \in {15, 63}, NEW s,
         SlideAt(d, n, c, m, s), s \in Scalar,
         n < Bits, d[n] # 0, n + c < Bits, d[n + c] = 1, d[n] + 2^c > m, d[n] - 2^c >= -m
  PROVE  \E p \in n + c .. Bits - 1 : d[p] = 0 /\ \A k \in n + c .. p - 1 : d[k] = 1
<1>1. Place(d, n, c, m)
  BY AtPlace
<1>2. /\ n \in Nat /\ c \in Nat /\ 1 <= c /\ d \in [Positions -> Int] /\ Bits \in Nat /\ n < n + c
      /\ n + c \in Nat /\ SpareBits \in 1 .. Bits /\ d[n] \in Int
      /\ \A k : k \in Positions <=> k \in Nat /\ k < Bits
  BY <1>1, Sizes DEF Place
<1> DEFINE q == n + c
           Z == {k \in q .. Bits - 1 : d[k] = 0}
           f == Terms(d)
<1>3. \A k \in q .. Bits - 1 : d[k] = 0 \/ d[k] = 1
  BY <1>1, <1>2 DEF Place
<1>4. ASSUME Z = {} PROVE FALSE
  <2>1. \A k \in q .. Bits - 1 : d[k] = 1
    BY <1>3, <1>4
  <2>2. Total(f, Bits) = Total(f, q) + (2^Bits - 2^q)
    <3>1. q \in 0 .. Bits /\ Bits \in q .. Bits
      BY <1>2
    <3> HIDE DEF q
    <3> QED
      BY <1>2, <2>1, <3>1, OnesAdd
  <2>3. Total(f, q) = Total(f, n + 1)
    <3>1. n + 1 \in 0 .. Bits /\ q \in n + 1 .. Bits
      BY <1>2
    <3>2. \A k \in n + 1 .. q - 1 : d[k] = 0
      BY <1>2 DEF SlideAt
    <3> HIDE DEF q
    <3> QED
      BY <1>2, <3>1, <3>2, ZerosAdd
  <2>4. Total(f, n + 1) = Total(f, n) + f[n] /\ f[n] = d[n] * 2^n
    <3>1. \A k \in 0 .. Bits - 1 : f[k] = d[k] * 2^k /\ f[k] \in Int
      BY <1>2, TermsInt
    <3>2. \A k \in 0 .. Bits - 1 : f[k] \in Int
      BY <3>1
    <3>3. n \in 0 .. Bits - 1
      BY <1>2
    <3> HIDE DEF f
    <3> QED
      BY <1>2, <3>1, <3>2, <3>3, TotalNext
  <2>5. Total(f, n) \in Int /\ -(2^n) < Total(f, n)
    BY LowSum
  <2>6. 2^n \in Nat \ {0} /\ 2^c \in Nat /\ 2^q \in Nat /\ 2^Bits \in Nat
    BY <1>2, PowPositive
  <2>7. 1 <= d[n]
    <3>1. 2^c <= m \/ 2^c > m
      BY <2>6
    <3> DEFINE y == 2^c
    <3>2. y \in Nat /\ d[n] + y > m /\ d[n] - y >= -m
      BY <2>6
    <3> HIDE DEF y
    <3> QED
      BY <1>2, <3>2
  <2>8. f[n] \in Int /\ 2^n <= f[n]
    <3>1. \A x \in Int, y \in Nat : 1 <= x => x * y \in Int /\ y <= x * y
      BY SMT
    <3> HIDE DEF f
    <3> QED
      BY <1>2, <2>4, <2>6, <2>7, <3>1
  <2>9. 2^q <= 2^(Bits - 1) /\ 2^(Bits - SpareBits) <= 2^(Bits - 1)
    <3>1. q \in Nat /\ Bits - 1 \in Nat /\ q <= Bits - 1 /\ Bits - SpareBits \in Nat
          /\ Bits - SpareBits <= Bits - 1
      BY <1>2
    <3> HIDE DEF q
    <3> QED
      BY <3>1, PowMono
  <2>10. 2^Bits = 2 * 2^(Bits - 1) /\ 2^(Bits - 1) \in Nat /\ 2^(Bits - SpareBits) \in Nat
    BY <1>2, Even, PowPositive
  <2>11. Total(f, Bits) = s /\ s \in Nat /\ s < 2^(Bits - SpareBits)
    BY <2>10 DEF SlideAt, Scalar
  <2> DEFINE x == 2^n
             y == 2^q
             z == 2^(Bits - 1)
             w == 2^(Bits - SpareBits)
             t == Total(f, n)
             u == f[n]
  <2>12. s = (t + u) + (2 * z - y) /\ s < w /\ s \in Nat
    BY <2>2, <2>3, <2>4, <2>10, <2>11
  <2>13. /\ t \in Int /\ u \in Int /\ x \in Nat /\ y \in Nat /\ z \in Nat /\ w \in Nat
         /\ -x < t /\ x <= u /\ y <= z /\ w <= z
    BY <2>5, <2>6, <2>8, <2>9, <2>10
  <2> HIDE DEF x, y, z, w, t, u
  <2> QED
    BY <2>12, <2>13
<1>5. Z # {} /\ Z \subseteq Nat
  BY <1>2, <1>4
<1>6. PICK p \in Z : \A k \in Z : p <= k
  BY <1>5, LeastNat
<1>7. p \in q .. Bits - 1 /\ d[p] = 0
  OBVIOUS
<1>8. \A k \in q .. p - 1 : d[k] = 1
  BY <1>2, <1>3, <1>6, <1>7
<1> QED
  BY <1>7, <1>8

LEMMA SubtractKeeps ==
  ASSUME NEW d, NEW n \in Nat, NEW c \in Nat, NEW m \in {15, 63}, NEW s,
         SlideAt(d, n, c, m, s),
         n < Bits, d[n] # 0, c <= Reach, n + c < Bits, d[n + c] = 1,
         d[n] + 2^c > m, d[n] - 2^c >= -m,
         NEW p \in n + c .. Bits - 1, d[p] = 0, \A k \in n + c .. p - 1 : d[k] = 1,
         NEW l \in [Positions -> Int], l[n] = d[n] - 2^c, l[p] = 1,
         \A k \in n + c .. p - 1 : l[k] = 0,
         \A k \in Positions : k < n \/ (n < k /\ k < n + c) \/ p < k => l[k] = d[k]
  PROVE  SlideAt(l, n, c + 1, m, s)
<1>1. Place(d, n, c, m)
  BY AtPlace
<1> DEFINE q == n + c
<1>2. /\ n \in Nat /\ c \in Nat /\ 1 <= c /\ c + 1 \in 1 .. Reach + 1 /\ n \in Positions
      /\ p \in Nat /\ q \in Nat /\ p < Bits /\ q < Bits /\ d \in [Positions -> Int] /\ Bits \in Nat
      /\ n < q /\ q <= p /\ d[n] \in Int
      /\ \A k : k \in Positions <=> k \in Nat /\ k < Bits
  <2>1. /\ n \in Nat /\ c \in Nat /\ 1 <= c /\ n \in Positions /\ d \in [Positions -> Int]
        /\ d[n] \in Int
    BY <1>1 DEF Place
  <2>2. Bits \in Nat /\ Reach \in Nat /\ \A k : k \in Positions <=> k \in Nat /\ k < Bits
    BY Sizes
  <2>3. c + 1 \in 1 .. Reach + 1 /\ n < q /\ q \in Nat
    BY <2>1, <2>2
  <2>4. p \in Nat /\ p < Bits /\ q <= p /\ q < Bits
    BY <2>1, <2>2
  <2> QED
    BY <2>1, <2>2, <2>3, <2>4
<1>3. q # p
  OBVIOUS
<1>4. d[n] \in -m .. m /\ d[n] % 2 = 1
  BY <1>1 DEF Place
<1>5. 2^c \in Nat
  BY <1>2, PowPositive
<1>6. Digit(l[n], m) /\ l[n] # 0
  <2>1. l[n] % 2 = 1 /\ l[n] # 0
    <3>1. (d[n] - 2^c) % 2 = 1 /\ d[n] - 2^c # 0
      BY <1>2, <1>4, OddStays
    <3> QED
      BY <3>1
  <2>2. l[n] \in Int /\ l[n] <= d[n] /\ l[n] >= -m
    BY <1>2, <1>5
  <2>3. l[n] \in -m .. m
    BY <1>4, <2>2
  <2> QED
    BY <2>1, <2>3 DEF Digit
<1>7. Total(Terms(l), Bits) = Total(Terms(d), Bits)
  <2> DEFINE f == Terms(d)
             g == Terms(l)
             x == -(2^q)
  <2>1. \A k \in 0 .. Bits - 1 : f[k] = d[k] * 2^k /\ f[k] \in Int
    BY <1>2, TermsInt
  <2>2. \A k \in 0 .. Bits - 1 : g[k] = l[k] * 2^k /\ g[k] \in Int
    BY TermsInt
  <2>3. \A k \in 0 .. Bits - 1 : f[k] \in Int
    BY <2>1
  <2>4. \A k \in 0 .. Bits - 1 : g[k] \in Int
    BY <2>2
  <2>5. 2^n \in Nat /\ 2^q \in Nat /\ 2^p \in Nat /\ 2^q = 2^n * 2^c /\ x \in Int
    BY <1>2, PowPositive, PowSum
  <2>6. \A k \in 0 .. Bits - 1 : k < n \/ (n < k /\ k < q) \/ p < k => g[k] = f[k]
    BY <1>2, <2>1, <2>2
  <2>7. g[n] = f[n] + x
    <3>1. (d[n] - 2^c) * 2^n = d[n] * 2^n - 2^n * 2^c
      BY <1>2, <1>5, <2>5, MulFacts
    <3>2. n \in 0 .. Bits - 1 /\ f[n] \in Int
      BY <1>2, <2>3
    <3> HIDE DEF q
    <3> QED
      BY <2>1, <2>2, <2>5, <3>1, <3>2
  <2>8. g[p] = f[p] + 2^p
    <3>1. p \in 0 .. Bits - 1 /\ 1 * 2^p = 2^p /\ 0 * 2^p = 0
      BY <1>2, <2>5
    <3> HIDE DEF f, g
    <3> QED
      BY <2>1, <2>2, <2>5, <3>1
  <2> HIDE DEF f, g, x
  <2>9. /\ \A k \in 0 .. Bits - 1 : Total(f, k) \in Int /\ Total(f, k + 1) = Total(f, k) + f[k]
        /\ \A k \in 0 .. Bits - 1 : Total(g, k) \in Int /\ Total(g, k + 1) = Total(g, k) + g[k]
        /\ Total(f, 0) = 0 /\ Total(g, 0) = 0
    <3>1. \A k \in 0 .. Bits - 1 : Total(f, k) \in Int /\ Total(f, k + 1) = Total(f, k) + f[k]
      BY <1>2, <2>3, TotalNext
    <3>2. \A k \in 0 .. Bits - 1 : Total(g, k) \in Int /\ Total(g, k + 1) = Total(g, k) + g[k]
      BY <1>2, <2>4, TotalNext
    <3>3. Total(f, 0) = 0
      <4>1. \A k \in 0 .. 0 - 1 : f[k] \in Int
        OBVIOUS
      <4> QED
        BY <4>1, TotalNext
    <3>4. Total(g, 0) = 0
      <4>1. \A k \in 0 .. 0 - 1 : g[k] \in Int
        OBVIOUS
      <4> QED
        BY <4>1, TotalNext
    <3> QED
      BY <3>1, <3>2, <3>3, <3>4
\* below n the sums are the same; n takes 2^(n + c) away
  <2>10. Total(g, n) = Total(f, n)
    <3>1. \A k \in 0 .. n - 1 : f[k] \in Int
      BY <1>2, <2>3
    <3>2. \A k \in 0 .. n - 1 : g[k] = f[k]
      BY <1>2, <2>6
    <3>3. n \in Nat
      BY <1>2
    <3> HIDE DEF q
    <3> QED
      BY <3>1, <3>2, <3>3, TotalSame
  <2>11. Total(g, n + 1) = Total(f, n + 1) + x
    <3>1. n \in 0 .. Bits - 1 /\ f[n] \in Int /\ Total(f, n) \in Int
      BY <1>2, <2>3, <2>9
    <3> QED
      BY <2>5, <2>7, <2>9, <2>10, <3>1
  <2>12. Total(g, q) = Total(f, q) + x
    <3>1. n + 1 \in 0 .. q
      BY <1>2
    <3>2. \A k \in n + 1 .. q - 1 : g[k] = f[k]
      BY <1>2, <2>6
    <3>3. \A k \in 0 .. q - 1 : f[k] \in Int
      BY <1>2, <2>3
    <3>4. \A k \in 0 .. q - 1 : g[k] \in Int
      BY <1>2, <2>4
    <3> HIDE DEF q
    <3> QED
      BY <1>2, <2>5, <2>11, <3>1, <3>2, <3>3, <3>4, TotalTail
\* to the 0 it passes what was 1, and there what was taken is back
  <2>13. Total(f, p) = Total(f, q) + (2^p - 2^q) /\ Total(g, p) = Total(g, q)
    <3>1. q \in 0 .. Bits /\ p \in q .. Bits
      BY <1>2
    <3>2. \A k \in q .. p - 1 : d[k] = 1
      OBVIOUS
    <3>3. \A k \in q .. p - 1 : l[k] = 0
      OBVIOUS
    <3> HIDE DEF q
    <3>4. Total(f, p) = Total(f, q) + (2^p - 2^q)
      BY <1>2, <3>1, <3>2, OnesAdd DEF f
    <3>5. Total(g, p) = Total(g, q)
      BY <3>1, <3>3, ZerosAdd DEF g
    <3> QED
      BY <3>4, <3>5
  <2>14. Total(g, p + 1) = Total(f, p + 1) + 0
    <3>1. p \in 0 .. Bits - 1 /\ f[p] \in Int /\ Total(f, p) \in Int /\ Total(f, q) \in Int
      BY <1>2, <2>3, <2>9
    <3>2. x = -(2^q)
      BY DEF x
    <3>3. Total(g, p) = Total(f, p) - 2^p
      BY <2>5, <2>12, <2>13, <3>1, <3>2
    <3>4. Total(g, p + 1) = Total(g, p) + g[p] /\ Total(f, p + 1) = Total(f, p) + f[p]
      BY <2>9, <3>1
    <3> QED
      BY <2>5, <2>8, <3>1, <3>3, <3>4
  <2>15. Total(g, Bits) = Total(f, Bits) + 0
    <3>1. p + 1 \in 0 .. Bits
      BY <1>2
    <3>2. \A k \in p + 1 .. Bits - 1 : g[k] = f[k]
      BY <1>2, <2>6
    <3> QED
      BY <1>2, <2>3, <2>4, <2>14, <3>1, <3>2, TotalTail, SMTT(30)
  <2>16. Total(f, Bits) \in Int
    BY <1>2, <2>3, TotalNext
  <2> QED
    BY <2>15, <2>16 DEF f, g
<1>8. Total(Terms(l), Bits) = s
  BY <1>7 DEF SlideAt
<1>9. \A k \in Positions : n < k \/ (n = k /\ c + 1 = 1) => l[k] \in {0, 1}
  <2> SUFFICES ASSUME NEW k \in Positions, n < k PROVE l[k] \in {0, 1}
    BY <1>2
  <2>1. d[k] \in {0, 1}
    BY <1>1 DEF Place
  <2>2. k < q \/ k \in q .. p - 1 \/ k = p \/ p < k
    BY <1>2
  <2> HIDE DEF q
  <2> QED
    BY <2>1, <2>2 DEF q
<1>10. \A k \in Positions : k < n \/ (n = k /\ c + 1 > 1) => Digit(l[k], m)
  <2> SUFFICES ASSUME NEW k \in Positions, k < n \/ n = k PROVE Digit(l[k], m)
    OBVIOUS
  <2>1. CASE k < n
    <3>1. l[k] = d[k]
      BY <2>1
    <3> QED
      BY <2>1, <3>1 DEF SlideAt
  <2>2. CASE n = k
    BY <1>6, <2>2
  <2> QED
    BY <2>1, <2>2
<1>11. ASSUME NEW j \in Positions, NEW k \in Positions,
              j < n, j < k, k <= j + Gap(m), l[j] # 0
       PROVE  l[k] = 0
  <2>1. l[j] = d[j] /\ Gap(m) \in Nat
    BY <1>11 DEF Gap
  <2>2. d[k] = 0
    BY <1>11, <2>1 DEF SlideAt
  <2>3. k < n
    <3> SUFFICES ASSUME n <= k PROVE FALSE
      BY <1>2
    <3>1. n \in Positions /\ j < n /\ n <= j + Gap(m) /\ d[j] # 0
      BY <1>2, <1>11, <2>1
    <3> QED
      BY <3>1 DEF SlideAt
  <2> QED
    BY <2>2, <2>3
<1>12. \A k \in Positions : n < k /\ k < n + (c + 1) => l[k] = 0
  <2> SUFFICES ASSUME NEW k \in Positions, n < k, k < n + (c + 1) PROVE l[k] = 0
    OBVIOUS
  <2>1. k \in q .. p - 1 \/ k < q
    BY <1>2, <1>3
  <2>2. k < q => d[k] = 0 /\ l[k] = d[k]
    BY DEF SlideAt
  <2> QED
    BY <2>1, <2>2
<1>13. n \in 0 .. Bits /\ (c + 1 > 1 => n < Bits /\ l[n] # 0)
  BY <1>2, <1>6
<1> QED
  BY <1>2, <1>8, <1>9, <1>10, <1>11, <1>12, <1>13 DEF SlideAt

\* The bits of a scalar.
LEMMA StartSlide ==
  ASSUME NEW s \in Scalar, NEW m \in {15, 63}, NEW d,
         d = [k \in 0 .. Bits - 1 |-> (s \div 2^k) % 2]
  PROVE  SlideAt(d, 0, 1, m, s)
<1>1. /\ Bits \in Nat /\ SpareBits \in 1 .. Bits /\ Reach \in Nat /\ 0 \in 0 .. Bits
      /\ 1 \in 1 .. Reach + 1 /\ Positions = 0 .. Bits - 1
  BY Sizes
<1>2. s \in Nat /\ s < 2^Bits
  <2>1. 2^(Bits - SpareBits) \in Nat /\ 2^Bits \in Nat /\ 2^(Bits - SpareBits) <= 2^Bits
    <3>1. Bits - SpareBits \in Nat /\ Bits - SpareBits <= Bits
      BY <1>1
    <3> QED
      BY <1>1, <3>1, PowMono, PowPositive
  <2> QED
    BY <2>1 DEF Scalar
<1>3. \A k \in Positions : d[k] = (s \div 2^k) % 2 /\ s \div 2^k \in Int
  <2> SUFFICES ASSUME NEW k \in Positions PROVE d[k] = (s \div 2^k) % 2 /\ s \div 2^k \in Int
    OBVIOUS
  <2>1. k \in 0 .. Bits - 1 /\ k \in Nat
    BY <1>1
  <2>2. 2^k \in Nat \ {0}
    BY <2>1, PowPositive
  <2> QED
    BY <1>2, <2>1, <2>2
<1>4. \A k \in Positions : d[k] \in {0, 1}
  <2>1. \A x \in Int : x % 2 \in {0, 1}
    OBVIOUS
  <2> QED
    BY <1>3, <2>1
<1>5. d \in [Positions -> Int]
  BY <1>1, <1>4
<1>6. Total(Terms(d), Bits) = s
  <2> DEFINE f == Terms(d)
  <2>1. \A k \in 0 .. Bits - 1 : f[k] = ((s \div 2^k) % 2) * 2^k
    <3> SUFFICES ASSUME NEW k \in 0 .. Bits - 1 PROVE f[k] = ((s \div 2^k) % 2) * 2^k
      OBVIOUS
    <3>1. f[k] = d[k] * 2^k /\ d[k] = (s \div 2^k) % 2
      BY <1>1, <1>3, <1>5, TermsInt
    <3> HIDE DEF f
    <3> QED
      BY <3>1
  <2> HIDE DEF f
  <2>2. ASSUME NEW w \in Nat, w = 1
        PROVE  Total(f, Bits) = s % 2^(w * Bits)
    <3>1. 2^w = 2 /\ \A k \in 0 .. Bits - 1 : w * k = k
      BY <1>1, <2>2
    <3>2. DigitTerms(f, w, s, Bits)
      BY <2>1, <3>1 DEF DigitTerms
    <3> QED
      BY <1>1, <1>2, <3>2, DigitsOfNumber
  <2>5. Total(f, Bits) = s % 2^Bits
    <3>1. Total(f, Bits) = s % 2^(1 * Bits) /\ 1 * Bits = Bits
      BY <1>1, <2>2
    <3> QED
      BY <3>1
  <2>3. 2^Bits \in Nat \ {0}
    BY <1>1, PowPositive
  <2>4. s % 2^Bits = s
    BY <1>2, <2>3
  <2> QED
    BY <2>4, <2>5 DEF f
<1> HIDE DEF Positions
<1> QED
  BY <1>1, <1>4, <1>5, <1>6 DEF SlideAt

\* A carry is what SubtractKeeps takes it for.
LEMMA CarriedA ==
  ASSUME NEW d, NEW q \in Nat, NEW p \in q .. Bits - 1, d[p] = 0, \A k \in q .. p - 1 : d[k] # 0
  PROVE  SlideA!Carried(d, q) =
           [k \in Positions |-> IF k = p THEN 1 ELSE IF k \in q .. p THEN 0 ELSE d[k]]
<1> DEFINE zeros == {k \in q .. Bits - 1 : d[k] = 0}
<1>1. p \in zeros /\ \A k \in zeros : p <= k
  BY Sizes
<1>2. zeros # {} /\ SlideA!Min(zeros) = p
  <2>1. \A x \in zeros : (\A y \in zeros : x <= y) => x = p
    BY <1>1, Sizes
  <2> QED
    BY <1>1, <2>1 DEF SlideA!Min
<1> QED
  BY <1>2 DEF SlideA!Carried, SlideA!Positions, Positions

LEMMA SameCarried == ASSUME NEW d, NEW q PROVE SlideB!Carried(d, q) = SlideA!Carried(d, q)
  BY DEF SlideA!Carried, SlideB!Carried, SlideA!Positions, SlideB!Positions, SlideA!Min, SlideB!Min

\* The form in which the code subtracts.
CarriesTo(d, n, c, j) ==
  \A p \in n + c .. Bits - 1 :
    d[p] = 0 /\ (\A k \in n + c .. p - 1 : d[k] = 1) =>
      j = [k \in Positions |-> IF k = p THEN 1 ELSE IF k \in n + c .. p THEN 0
                               ELSE IF k = n THEN d[n] - 2^c ELSE d[k]]

LEMMA CarryKeeps ==
  ASSUME NEW d, NEW n \in Nat, NEW c \in Nat, NEW m \in {15, 63}, NEW s,
         SlideAt(d, n, c, m, s), s \in Scalar,
         n < Bits, d[n] # 0, c <= Reach, n + c < Bits, d[n + c] = 1,
         d[n] + 2^c > m, d[n] - 2^c >= -m,
         NEW j, CarriesTo(d, n, c, j)
  PROVE  SlideAt(j, n, c + 1, m, s)
<1>1. Place(d, n, c, m)
  BY AtPlace
<1>2. /\ n \in Nat /\ c \in Nat /\ 1 <= c /\ n + c \in Nat /\ n < n + c /\ n \in Positions
      /\ Bits \in Nat /\ d \in [Positions -> Int] /\ 2^c \in Int
      /\ \A k : k \in Positions <=> k \in Nat /\ k < Bits
  BY <1>1, Sizes, PowPositive DEF Place
<1>3. PICK p \in n + c .. Bits - 1 : d[p] = 0 /\ \A k \in n + c .. p - 1 : d[k] = 1
  BY CarryStops
<1>4. j = [k \in Positions |-> IF k = p THEN 1 ELSE IF k \in n + c .. p THEN 0
                               ELSE IF k = n THEN d[n] - 2^c ELSE d[k]]
  BY <1>3 DEF CarriesTo
<1>5. p \in Positions /\ p \in Nat /\ n < p
  BY <1>2
<1>6. \A k \in Positions : j[k] = IF k = p THEN 1 ELSE IF k \in n + c .. p THEN 0
                                  ELSE IF k = n THEN d[n] - 2^c ELSE d[k]
  BY <1>4, Zenon
<1>7. j \in [Positions -> Int]
  <2>1. \A k \in Positions : (IF k = p THEN 1 ELSE IF k \in n + c .. p THEN 0
                              ELSE IF k = n THEN d[n] - 2^c ELSE d[k]) \in Int
    BY <1>2
  <2> QED
    BY <1>4, <2>1
<1>8. j[n] = d[n] - 2^c /\ j[p] = 1
  BY <1>2, <1>5, <1>6
<1>9. \A k \in n + c .. p - 1 : j[k] = 0
  BY <1>2, <1>5, <1>6
<1>10. \A k \in Positions : k < n \/ (n < k /\ k < n + c) \/ p < k => j[k] = d[k]
  BY <1>2, <1>5, <1>6
<1>11. d[p] = 0
  BY <1>3
<1>12. \A k \in n + c .. p - 1 : d[k] = 1
  BY <1>3
<1> QED
  BY <1>7, <1>8, <1>9, <1>10, <1>11, <1>12, SubtractKeeps

\* One step of slide, on digits.
Loops(d, n, c) == n < Bits /\ d[n] # 0 /\ c <= Reach /\ n + c < Bits

SlideStep(d, n, c, m, k, j, l) ==
  \/ /\ n < Bits /\ ~Loops(d, n, c)
     /\ k = d /\ j = n + 1 /\ l = 1
  \/ /\ Loops(d, n, c) /\ d[n + c] = 0
     /\ k = d /\ j = n /\ l = c + 1
  \/ /\ Loops(d, n, c) /\ d[n] + d[n + c] * 2^c <= m
     /\ k = [d EXCEPT ![n] = @ + d[n + c] * 2^c, ![n + c] = 0] /\ j = n /\ l = c + 1
  \/ /\ Loops(d, n, c) /\ d[n + c] # 0
     /\ d[n] + d[n + c] * 2^c > m /\ d[n] - d[n + c] * 2^c >= -m
     /\ k = SlideA!Carried([d EXCEPT ![n] = @ - d[n + c] * 2^c], n + c) /\ j = n /\ l = c + 1
  \/ /\ Loops(d, n, c) /\ d[n + c] # 0
     /\ d[n] + d[n + c] * 2^c > m /\ d[n] - d[n + c] * 2^c < -m
     /\ k = d /\ j = n + 1 /\ l = 1

Stepping(d, n, c, m, s, k, j, l) ==
  /\ n \in Nat /\ c \in Nat /\ m \in {15, 63} /\ s \in Scalar
  /\ SlideAt(d, n, c, m, s) /\ SlideStep(d, n, c, m, k, j, l)

LEMMA StepKeeps ==
  ASSUME NEW d, NEW n, NEW c, NEW m, NEW s, NEW o, NEW j, NEW l, Stepping(d, n, c, m, s, o, j, l)
  PROVE  SlideAt(o, j, l, m, s)
<1> SUFFICES ASSUME n \in Nat, c \in Nat, m \in {15, 63}, s \in Scalar,
                    SlideAt(d, n, c, m, s), SlideStep(d, n, c, m, o, j, l)
             PROVE  SlideAt(o, j, l, m, s)
  BY DEF Stepping
<1>1. /\ d \in [Positions -> Int] /\ Bits \in Nat /\ 1 <= c /\ c <= Reach + 1 /\ Reach \in Nat /\ 6 <= Reach
      /\ \A k : k \in Positions <=> k \in Nat /\ k < Bits
  BY Sizes DEF SlideAt
<1>2. CASE n < Bits /\ ~Loops(d, n, c) /\ o = d /\ j = n + 1 /\ l = 1
  <2>1. d[n] # 0 => c > Gap(m) \/ n + c >= Bits
    BY <1>1, <1>2 DEF Gap, Loops
  <2>2. SlideAt(d, n + 1, 1, m, s)
    BY <1>2, <2>1, NextKeeps
  <2> QED
    BY <1>2, <2>2
<1>3. CASE Loops(d, n, c) /\ d[n + c] = 0 /\ o = d /\ j = n /\ l = c + 1
  BY <1>3, SkipKeeps DEF Loops
<1>4. CASE /\ Loops(d, n, c) /\ d[n] + d[n + c] * 2^c <= m
           /\ o = [d EXCEPT ![n] = @ + d[n + c] * 2^c, ![n + c] = 0] /\ j = n /\ l = c + 1
  <2>1. n < Bits /\ d[n] # 0 /\ c <= Reach /\ n + c < Bits /\ d[n] + d[n + c] * 2^c <= m
    BY <1>4 DEF Loops
  <2>2. SlideAt([d EXCEPT ![n] = @ + d[n + c] * 2^c, ![n + c] = 0], n, c + 1, m, s)
    BY <2>1, AddKeeps
  <2> QED
    BY <1>4, <2>2
<1>5. ASSUME Loops(d, n, c), d[n + c] # 0
      PROVE  d[n + c] = 1 /\ d[n + c] * 2^c = 2^c /\ n + c \in Nat /\ n < n + c /\ n \in Positions
  <2>1. Place(d, n, c, m)
    BY <1>5, AtPlace DEF Loops
  <2>2. d[n + c] = 1 /\ n + c \in Nat /\ n < n + c /\ n \in Positions
    BY <1>1, <1>5, <2>1 DEF Place, Loops
  <2>3. 2^c \in Int
    BY PowPositive
  <2> QED
    BY <2>2, <2>3
<1>6. CASE /\ Loops(d, n, c) /\ d[n + c] # 0
           /\ d[n] + d[n + c] * 2^c > m /\ d[n] - d[n + c] * 2^c >= -m
           /\ o = SlideA!Carried([d EXCEPT ![n] = @ - d[n + c] * 2^c], n + c) /\ j = n /\ l = c + 1
  <2> DEFINE q == n + c
             y == 2^c
             v == [d EXCEPT ![n] = @ - y]
  <2>1. /\ d[q] = 1 /\ d[n] + y > m /\ d[n] - y >= -m /\ o = SlideA!Carried(v, q)
        /\ q \in Nat /\ n < q /\ n \in Positions
    BY <1>5, <1>6
  <2>2. ASSUME NEW p \in q .. Bits - 1, d[p] = 0 /\ \A k \in q .. p - 1 : d[k] = 1
        PROVE  o = [k \in Positions |-> IF k = p THEN 1 ELSE IF k \in q .. p THEN 0
                                      ELSE IF k = n THEN d[n] - y ELSE d[k]]
    <3>1. \A k \in Positions : v[k] = IF k = n THEN d[n] - y ELSE d[k]
      BY <1>1
    <3> HIDE DEF q, y, v
    <3>2. p \in Positions /\ p # n /\ v[p] = 0
      BY <1>1, <2>1, <2>2, <3>1
    <3>3. \A k \in q .. p - 1 : v[k] # 0
      <4> SUFFICES ASSUME NEW k \in q .. p - 1 PROVE v[k] # 0
        OBVIOUS
      <4>1. k \in Positions /\ k # n
        BY <1>1, <2>1, <2>2
      <4> QED
        BY <2>2, <3>1, <4>1
    <3>4. o = [k \in Positions |-> IF k = p THEN 1 ELSE IF k \in q .. p THEN 0 ELSE v[k]]
      BY <2>1, <3>2, <3>3, CarriedA
    <3> QED
      BY <3>1, <3>4
  <2>3. /\ n < Bits /\ d[n] # 0 /\ c <= Reach /\ n + c < Bits /\ d[n + c] = 1
        /\ d[n] + 2^c > m /\ d[n] - 2^c >= -m
    BY <1>6, <2>1 DEF Loops
  <2>4. CarriesTo(d, n, c, o)
    BY <2>2 DEF CarriesTo
  <2> HIDE DEF q, y, v
  <2>5. SlideAt(o, n, c + 1, m, s)
    BY <2>3, <2>4, CarryKeeps
  <2> QED
    BY <1>6, <2>5
<1>7. CASE /\ Loops(d, n, c) /\ d[n + c] # 0
           /\ d[n] + d[n + c] * 2^c > m /\ d[n] - d[n + c] * 2^c < -m
           /\ o = d /\ j = n + 1 /\ l = 1
  <2>1. SlideAt(d, n + 1, 1, m, s)
    BY <1>5, <1>7, StopKeeps DEF Loops
  <2> QED
    BY <1>7, <2>1
<1> QED
  BY <1>2, <1>3, <1>4, <1>6, <1>7 DEF SlideStep

LEMMA SlideAKeeps ==
  ASSUME lib \in {"ref10", "amd64"}, a \in Scalar, SlideAt(aslide, at, by, MaxA, a),
         \/ SlideA!NextDigit \/ SlideA!Skip \/ SlideA!AddBit \/ SlideA!SubtractBit
         \/ SlideA!Stop
  PROVE  SlideAt(aslide', at', by', MaxA, a)
<1>1. MaxA \in {15, 63} /\ at \in Nat /\ by \in Nat
  BY DEF MaxA, ASize, BSize, SlideAt
<1>2. SlideStep(aslide, at, by, MaxA, aslide', at', by')
  BY SameCarried DEF SlideStep, Loops, MaxA, SlideA!Looping, SlideA!Shifted,
     SlideA!NextDigit, SlideA!Skip, SlideA!AddBit, SlideA!SubtractBit, SlideA!Stop
<1>3. Stepping(aslide, at, by, MaxA, a, aslide', at', by')
  BY <1>1, <1>2 DEF Stepping
<1> QED
  BY <1>3, StepKeeps

LEMMA SlideBKeeps ==
  ASSUME lib \in {"ref10", "amd64"}, b \in Scalar, SlideAt(bslide, at, by, MaxB, b),
         \/ SlideB!NextDigit \/ SlideB!Skip \/ SlideB!AddBit \/ SlideB!SubtractBit
         \/ SlideB!Stop
  PROVE  SlideAt(bslide', at', by', MaxB, b)
<1>1. MaxB \in {15, 63} /\ at \in Nat /\ by \in Nat
  BY DEF MaxB, ASize, BSize, SlideAt
<1>2. SlideStep(bslide, at, by, MaxB, bslide', at', by')
  BY SameCarried DEF SlideStep, Loops, MaxB, SlideB!Looping, SlideB!Shifted,
     SlideB!NextDigit, SlideB!Skip, SlideB!AddBit, SlideB!SubtractBit, SlideB!Stop
<1>3. Stepping(bslide, at, by, MaxB, b, bslide', at', by')
  BY <1>1, <1>2 DEF Stepping
<1> QED
  BY <1>3, StepKeeps
-----------------------------------------------------------------------------
LEMMA MaxIs == lib \in {"ref10", "amd64"} => MaxA \in {15, 63} /\ MaxB \in {15, 63}
BY DEF MaxA, MaxB, ASize, BSize

LEMMA Initially == Init => IInv
<1> SUFFICES ASSUME Init PROVE IInv
  OBVIOUS
<1>1. lib \in {"ref10", "amd64"} /\ pc = "slide_a" /\ at = 0 /\ by = 1
  BY DEF Init
<1>2. a \in Scalar /\ b \in Scalar
  BY LadderAssumption DEF Init, Scalar, Pow2
<1>3. /\ aslide = [k \in 0 .. Bits - 1 |-> (a \div 2^k) % 2]
      /\ bslide = [k \in 0 .. Bits - 1 |-> (b \div 2^k) % 2]
  BY DEF Init, SlideA!BitsOf, SlideA!Bit, SlideA!Positions, SlideB!BitsOf, SlideB!Bit, SlideB!Positions
<1>4. MaxA \in {15, 63} /\ MaxB \in {15, 63}
  BY <1>1, MaxIs
<1>5. SlideAt(aslide, 0, 1, MaxA, a)
  BY <1>2, <1>3, <1>4, StartSlide, Zenon
<1>6. SlideAt(bslide, 0, 1, MaxB, b)
  BY <1>2, <1>3, <1>4, StartSlide, Zenon
<1> QED
  BY <1>1, <1>2, <1>5, <1>6 DEF IInv

\* Digits that are all passed stay as they are, and a loop that ends leaves them so.
LEMMA Passed ==
  ASSUME NEW d, NEW c, NEW m \in {15, 63}, NEW s, SlideAt(d, Bits, c, m, s)
  PROVE  SlideAt(d, Bits, 1, m, s)
<1>1. c = 1
  BY Sizes DEF SlideAt
<1> QED
  BY <1>1

LEMMA Invariance == IInv /\ [Next]_vars => IInv'
<1> SUFFICES ASSUME IInv, [Next]_vars PROVE IInv'
  OBVIOUS
<1>1. lib \in {"ref10", "amd64"} /\ a \in Scalar /\ b \in Scalar
  BY DEF IInv
<1>2. CASE SlidingA
  <2>1. /\ pc = "slide_a" /\ pc' = pc /\ UNCHANGED <<lib, a, b, bslide>>
        /\ SlideAt(aslide, at, by, MaxA, a) /\ SlideAt(bslide, 0, 1, MaxB, b)
    BY <1>2 DEF SlidingA, IInv
  <2>2. \/ SlideA!NextDigit \/ SlideA!Skip \/ SlideA!AddBit \/ SlideA!SubtractBit \/ SlideA!Stop
    BY <1>2 DEF SlidingA
  <2>3. SlideAt(aslide', at', by', MaxA, a)
    BY <1>1, <2>1, <2>2, SlideAKeeps
  <2> QED
    BY <1>1, <2>1, <2>3 DEF IInv, MaxA, MaxB, ASize, BSize
<1>3. CASE SlidingB
  <2>1. /\ pc = "slide_b" /\ pc' = pc /\ UNCHANGED <<lib, a, b, aslide>>
        /\ SlideAt(bslide, at, by, MaxB, b) /\ SlideAt(aslide, Bits, 1, MaxA, a)
    BY <1>3 DEF SlidingB, IInv
  <2>2. \/ SlideB!NextDigit \/ SlideB!Skip \/ SlideB!AddBit \/ SlideB!SubtractBit \/ SlideB!Stop
    BY <1>3 DEF SlidingB
  <2>3. SlideAt(bslide', at', by', MaxB, b)
    BY <1>1, <2>1, <2>2, SlideBKeeps
  <2> QED
    BY <1>1, <2>1, <2>3 DEF IInv, MaxA, MaxB, ASize, BSize
<1>4. CASE Slid
  <2>1. at = Bits /\ at' = 0 /\ by' = 1 /\ UNCHANGED <<lib, a, b, aslide, bslide>>
        /\ MaxA \in {15, 63} /\ MaxB \in {15, 63} /\ MaxA' = MaxA /\ MaxB' = MaxB
    BY <1>1, <1>4, MaxIs DEF Slid, MaxA, MaxB, ASize, BSize
  <2>2. CASE pc = "slide_a"
    <3>1. pc' = "slide_b" /\ SlideAt(aslide, Bits, by, MaxA, a) /\ SlideAt(bslide, 0, 1, MaxB, b)
      BY <1>4, <2>1, <2>2 DEF Slid, IInv
    <3>2. SlideAt(aslide, Bits, 1, MaxA, a)
      BY <2>1, <3>1, Passed
    <3> QED
      BY <1>1, <2>1, <3>1, <3>2 DEF IInv
  <2>3. CASE pc = "slide_b"
    <3>1. pc' = "table" /\ SlideAt(aslide, Bits, 1, MaxA, a) /\ SlideAt(bslide, Bits, by, MaxB, b)
      BY <1>4, <2>1, <2>3 DEF Slid, IInv
    <3>2. SlideAt(bslide, Bits, 1, MaxB, b)
      BY <2>1, <3>1, Passed
    <3> QED
      BY <1>1, <2>1, <3>1, <3>2 DEF IInv
  <2> QED
    BY <1>4, <2>2, <2>3 DEF Slid
\* the rest does not touch the digits
<1>5. ASSUME UNCHANGED <<lib, a, b, aslide, bslide>>,
             pc \in {"table", "skip", "ladder", "done"}, pc' \in {"table", "skip", "ladder", "done"}
      PROVE  IInv'
  BY <1>5 DEF IInv, MaxA, MaxB, ASize, BSize
<1>6. CASE FillTable
  BY <1>5, <1>6 DEF FillTable, slideVars
<1>7. CASE SkipZero
  BY <1>5, <1>7 DEF SkipZero, slideVars
<1>8. CASE FirstDigit
  BY <1>5, <1>8 DEF FirstDigit, slideVars
<1>9. CASE Ladder
  BY <1>5, <1>9 DEF Ladder, slideVars
<1>10. CASE Return
  BY <1>5, <1>10 DEF Return, slideVars
<1>11. CASE UNCHANGED vars
  BY <1>11 DEF IInv, vars, slideVars, MaxA, MaxB, ASize, BSize
<1> QED
  BY <1>2, <1>3, <1>4, <1>6, <1>7, <1>8, <1>9, <1>10, <1>11 DEF Next, Returned

THEOREM Inductive == Spec => []IInv
<1> QED
  BY Initially, Invariance, PTL DEF Spec
-----------------------------------------------------------------------------
LEMMA ValueFollows == IInv => ValuePreserved
<1> SUFFICES ASSUME IInv PROVE ValuePreserved
  OBVIOUS
<1>1. ASSUME pc = "slide_a" PROVE SlideA!ValuePreserved
  <2>1. Total(Terms(aslide), Bits) = a
    BY <1>1 DEF IInv, SlideAt
  <2>2. SlideA!Total(Terms(aslide), Bits) = Total(Terms(aslide), Bits)
    BY DEF SlideA!Total, Total
  <2>3. SlideA!Sum = SlideA!Total(Terms(aslide), Bits)
    BY DEF SlideA!Sum, SlideA!Positions, Terms, Positions
  <2> QED
    BY <2>1, <2>2, <2>3 DEF SlideA!ValuePreserved
<1>2. ASSUME pc = "slide_b" PROVE SlideB!ValuePreserved
  <2>1. Total(Terms(bslide), Bits) = b
    BY <1>2 DEF IInv, SlideAt
  <2>2. SlideB!Total(Terms(bslide), Bits) = Total(Terms(bslide), Bits)
    BY DEF SlideB!Total, Total
  <2>3. SlideB!Sum = SlideB!Total(Terms(bslide), Bits)
    BY DEF SlideB!Sum, SlideB!Positions, Terms, Positions
  <2> QED
    BY <2>1, <2>2, <2>3 DEF SlideB!ValuePreserved
<1> QED
  BY <1>1, <1>2 DEF ValuePreserved

\* The digits are the scalar at every step: a carry is never lost beyond the last bit.
THEOREM ValueKept == Spec => []ValuePreserved
<1> QED
  BY Inductive, ValueFollows, PTL

\* What slide promises of the digits at a place.
Fits(d, n, c, m) ==
  /\ \A k \in Positions : IF k >= n + (IF c > 1 THEN 1 ELSE 0) THEN d[k] \in {0, 1}
                          ELSE d[k] = 0 \/ (d[k] % 2 = 1 /\ d[k] \in -m .. m)
  /\ n = Bits => \A j, k \in Positions : j < k /\ d[j] # 0 /\ d[k] # 0 =>
                   k - j >= (IF m = 15 THEN 5 ELSE 7)

LEMMA FitsFollow ==
  ASSUME NEW d, NEW n, NEW c, NEW m \in {15, 63}, NEW s, SlideAt(d, n, c, m, s)
  PROVE  Fits(d, n, c, m)
<1>1. n \in Nat /\ c \in Nat /\ 1 <= c /\ Bits \in Nat
      /\ \A k : k \in Positions <=> k \in Nat /\ k < Bits
  BY Sizes DEF SlideAt
<1>2. ASSUME NEW k \in Positions
      PROVE  IF k >= n + (IF c > 1 THEN 1 ELSE 0) THEN d[k] \in {0, 1}
             ELSE d[k] = 0 \/ (d[k] % 2 = 1 /\ d[k] \in -m .. m)
  <2>1. CASE k >= n + (IF c > 1 THEN 1 ELSE 0)
    <3>1. n < k \/ (n = k /\ c = 1)
      BY <1>1, <2>1
    <3>2. d[k] \in {0, 1}
      BY <3>1 DEF SlideAt
    <3> QED
      BY <2>1, <3>2
  <2>2. CASE ~(k >= n + (IF c > 1 THEN 1 ELSE 0))
    <3>1. k < n \/ (n = k /\ c > 1)
      BY <1>1, <2>2
    <3>2. Digit(d[k], m)
      BY <3>1 DEF SlideAt
    <3> QED
      BY <2>2, <3>2 DEF Digit
  <2> QED
    BY <2>1, <2>2
<1>3. ASSUME n = Bits, NEW j \in Positions, NEW k \in Positions, j < k, d[j] # 0, d[k] # 0
      PROVE  k - j >= (IF m = 15 THEN 5 ELSE 7)
  <2>1. j < n /\ j \in Nat /\ k \in Nat
    BY <1>1, <1>3
  <2>2. ~(k <= j + Gap(m))
    BY <1>3, <2>1 DEF SlideAt
  <2> QED
    BY <2>1, <2>2 DEF Gap
<1> QED
  BY <1>1, <1>2, <1>3 DEF Fits

LEMMA IndexFollows == IInv => DigitsIndexTables
<1> SUFFICES ASSUME IInv PROVE DigitsIndexTables
  OBVIOUS
<1>1. MaxA \in {15, 63} /\ MaxB \in {15, 63}
  BY MaxIs DEF IInv
<1>3. ASSUME pc = "slide_a" PROVE SlideA!DigitsIndexTables /\ SlideA!DigitsSparse
  <2>1. SlideAt(aslide, at, by, MaxA, a)
    BY <1>3 DEF IInv
  <2>2. Fits(aslide, at, by, MaxA)
    BY <1>1, <2>1, FitsFollow
  <2> QED
    BY <2>2, Zenon DEF Fits, SlideA!DigitsIndexTables, SlideA!DigitsSparse, SlideA!Positions, Positions, MaxA
<1>4. ASSUME pc = "slide_b" PROVE SlideB!DigitsIndexTables /\ SlideB!DigitsSparse
  <2>1. SlideAt(bslide, at, by, MaxB, b)
    BY <1>4 DEF IInv
  <2>2. Fits(bslide, at, by, MaxB)
    BY <1>1, <2>1, FitsFollow
  <2> QED
    BY <2>2, Zenon DEF Fits, SlideB!DigitsIndexTables, SlideB!DigitsSparse, SlideB!Positions, Positions, MaxB
<1> QED
  BY <1>3, <1>4 DEF DigitsIndexTables

\* Digits are bits until they are passed, then 0 or odd and no more than the largest digit,
\* and in the end most of them are 0.
THEOREM DigitsFit == Spec => []DigitsIndexTables
<1> QED
  BY Inductive, IndexFollows, PTL
-----------------------------------------------------------------------------
\* What the ladder may rely on: it reads digits that exist, that are the scalars, and whose
\* odd multiples are in the tables.
LadderReads ==
  /\ pc \in {"table", "skip", "ladder", "done"} => ValueFrom(aslide, 0) = a /\ ValueFrom(bslide, 0) = b
  /\ pc \in {"skip", "ladder"} /\ i >= 0 =>
       /\ i \in Positions
       /\ aslide[i] # 0 => (Abs(aslide[i]) \div 2) + 1 \in 1 .. ASize
       /\ bslide[i] # 0 => (Abs(bslide[i]) \div 2) + 1 \in 1 .. BSize

LEMMA DigitReached ==
  ASSUME NEW n \in 1 .. 32, NEW x \in -(2 * n - 1) .. 2 * n - 1
  PROVE  (Abs(x) \div 2) + 1 \in 1 .. n
BY DEF Abs

LEMMA ReadsFollow == IInv /\ i \in -1 .. Bits - 1 => LadderReads
<1> SUFFICES ASSUME IInv, i \in -1 .. Bits - 1 PROVE LadderReads
  OBVIOUS
<1>1. MaxA \in {15, 63} /\ MaxB \in {15, 63} /\ ASize \in 1 .. 32 /\ BSize \in 1 .. 32
  BY MaxIs DEF IInv, ASize, BSize
<1>2. ASSUME NEW d, NEW m, NEW s, SlideAt(d, Bits, 1, m, s)
      PROVE  ValueFrom(d, 0) = s /\ \A k \in Positions : Digit(d[k], m)
  <2>1. Bits \in Nat /\ d \in [Positions -> Int] /\ \A k : k \in Positions <=> k \in Nat /\ k < Bits
    BY <1>2, Sizes DEF SlideAt
  <2>2. Terms(d) = [j \in 0 .. Bits - 1 - 0 |-> d[0 + j] * 2 ^ j]
    BY <2>1 DEF Terms, Positions
  <2>3. ValueFrom(d, 0) = Total(Terms(d), Bits - 0)
    BY <2>2 DEF ValueFrom
  <2>4. \A k \in Positions : Digit(d[k], m)
    BY <1>2, <2>1 DEF SlideAt
  <2>5. Bits - 0 = Bits /\ Total(Terms(d), Bits) = s
    BY <1>2, <2>1 DEF SlideAt
  <2> QED
    BY <2>3, <2>4, <2>5
<1>3. ASSUME pc \in {"table", "skip", "ladder", "done"}
      PROVE  SlideAt(aslide, Bits, 1, MaxA, a) /\ SlideAt(bslide, Bits, 1, MaxB, b)
  BY <1>3 DEF IInv
<1>4. ASSUME pc \in {"skip", "ladder"}, i >= 0
      PROVE  /\ i \in Positions
             /\ aslide[i] # 0 => (Abs(aslide[i]) \div 2) + 1 \in 1 .. ASize
             /\ bslide[i] # 0 => (Abs(bslide[i]) \div 2) + 1 \in 1 .. BSize
  <2>1. i \in Positions
    BY <1>4, Sizes
  <2>2. Digit(aslide[i], MaxA) /\ Digit(bslide[i], MaxB)
    BY <1>2, <1>3, <1>4, <2>1
  <2>3. aslide[i] # 0 => aslide[i] \in -(2 * ASize - 1) .. 2 * ASize - 1
    BY <2>2 DEF Digit, MaxA
  <2>4. bslide[i] # 0 => bslide[i] \in -(2 * BSize - 1) .. 2 * BSize - 1
    BY <2>2 DEF Digit, MaxB
  <2> QED
    BY <1>1, <2>1, <2>3, <2>4, DigitReached
<1> QED
  BY <1>2, <1>3, <1>4 DEF LadderReads

\* No digit leads beyond a table, and none of a scalar is lost.
THEOREM LadderReadsDigits == Spec => []LadderReads
<1>1. Init => i \in -1 .. Bits - 1
  BY Sizes DEF Init
<1>2. i \in -1 .. Bits - 1 /\ [Next]_vars => (i \in -1 .. Bits - 1)'
  BY Sizes DEF Next, vars, slideVars, SlidingA, SlidingB, Slid, FillTable, SkipZero, BothZero,
     FirstDigit, Ladder, Return, Returned
<1>3. Spec => [](i \in -1 .. Bits - 1)
  BY <1>1, <1>2, PTL DEF Spec
<1> QED
  BY <1>3, Inductive, ReadsFollow, PTL
-----------------------------------------------------------------------------
(***************************************************************************)
(* The ladder over them.                                                   *)
(***************************************************************************)
\* What the digits from one on say, by the one below.
LEMMA ValueFromNext ==
  ASSUME NEW d \in [Positions -> Int]
  PROVE  /\ ValueFrom(d, Bits) = 0
         /\ \A k \in Positions : /\ ValueFrom(d, k) \in Int /\ ValueFrom(d, k + 1) \in Int
                                 /\ ValueFrom(d, k) = 2 * ValueFrom(d, k + 1) + d[k]
<1>1. Bits \in Nat /\ \A k : k \in Positions <=> k \in Nat /\ k < Bits
  BY Sizes
<1>2. ASSUME NEW k \in 0 .. Bits
      PROVE  ValueFrom(d, k) \in Int /\ (k = Bits => ValueFrom(d, k) = 0)
  <2> DEFINE f == [j \in 0 .. Bits - 1 - k |-> d[k + j] * 2 ^ j]
             n == Bits - k
  <2>1. n \in Nat /\ (k = Bits => n = 0)
    BY <1>1
  <2>2. \A j \in 0 .. n - 1 : f[j] \in Int
    <3> SUFFICES ASSUME NEW j \in 0 .. n - 1 PROVE f[j] \in Int
      OBVIOUS
    <3>1. k + j \in Positions /\ j \in Nat /\ j \in 0 .. Bits - 1 - k
      BY <1>1
    <3>2. d[k + j] \in Int /\ 2 ^ j \in Int
      BY <3>1, PowNext
    <3>3. f[j] = d[k + j] * 2 ^ j
      BY <3>1
    <3> QED
      BY <3>2, <3>3, MulFacts
  <2>3. ValueFrom(d, k) = Total(f, n)
    BY DEF ValueFrom
  <2> HIDE DEF f, n
  <2> QED
    BY <2>1, <2>2, <2>3, TotalNext
<1>3. ASSUME NEW k \in Positions
      PROVE  ValueFrom(d, k) = 2 * ValueFrom(d, k + 1) + d[k]
  <2> DEFINE f == [j \in 0 .. Bits - 1 - k |-> d[k + j] * 2 ^ j]
             g == [j \in 0 .. Bits - 1 - (k + 1) |-> d[(k + 1) + j] * 2 ^ j]
             n == Bits - k
             m == Bits - (k + 1)
             t == [j \in 0 .. n |-> IF j = 0 THEN 0 ELSE d[k] + 2 * Total(g, j - 1)]
  <2>1. n \in Nat /\ m \in Nat /\ n = m + 1 /\ k \in Nat /\ k < Bits /\ d[k] \in Int
    BY <1>1
  <2>2. \A j \in 0 .. n - 1 : f[j] = d[k + j] * 2 ^ j /\ f[j] \in Int
    <3> SUFFICES ASSUME NEW j \in 0 .. n - 1 PROVE f[j] = d[k + j] * 2 ^ j /\ f[j] \in Int
      OBVIOUS
    <3>1. k + j \in Positions /\ j \in Nat /\ j \in 0 .. Bits - 1 - k
      BY <1>1
    <3>2. d[k + j] \in Int /\ 2 ^ j \in Int
      BY <3>1, PowNext
    <3>3. f[j] = d[k + j] * 2 ^ j
      BY <3>1
    <3> QED
      BY <3>2, <3>3, MulFacts
  <2>3. \A j \in 0 .. m - 1 : g[j] \in Int /\ f[j + 1] = 2 * g[j]
    <3> SUFFICES ASSUME NEW j \in 0 .. m - 1 PROVE g[j] \in Int /\ f[j + 1] = 2 * g[j]
      OBVIOUS
    <3>1. /\ (k + 1) + j \in Positions /\ j \in Nat /\ j \in 0 .. Bits - 1 - (k + 1)
          /\ k + (j + 1) = (k + 1) + j /\ j + 1 \in 0 .. n - 1
      BY <1>1
    <3>2. d[(k + 1) + j] \in Int /\ 2 ^ j \in Int /\ 2 ^ (j + 1) = 2 * 2 ^ j
      BY <3>1, PowNext
    <3>3. g[j] = d[(k + 1) + j] * 2 ^ j /\ f[j + 1] = d[(k + 1) + j] * 2 ^ (j + 1)
      BY <2>2, <3>1
    <3> DEFINE x == d[(k + 1) + j]
               y == 2 ^ j
    <3>4. x \in Int /\ y \in Int /\ g[j] = x * y /\ f[j + 1] = x * (2 * y)
      BY <3>2, <3>3
    <3> HIDE DEF x, y, f, g
    <3>5. x * (2 * y) = 2 * (x * y) /\ x * y \in Int
      BY <3>4
    <3> QED
      BY <3>4, <3>5
  <2>4. f[0] = d[k]
    <3>1. 0 \in 0 .. n - 1 /\ k + 0 = k /\ 2 ^ 0 = 1 /\ d[k] * 1 = d[k]
      BY <2>1
    <3>2. f[0] = d[k + 0] * 2 ^ 0
      BY <2>2, <3>1
    <3> QED
      BY <3>1, <3>2
  <2>5. ValueFrom(d, k) = Total(f, n) /\ ValueFrom(d, k + 1) = Total(g, m)
    BY DEF ValueFrom
  <2> HIDE DEF f, g, n, m
  <2>6. Total(g, 0) = 0 /\ \A j \in 0 .. m : Total(g, j) \in Int
    <3>1. \A j \in 0 .. m - 1 : Total(g, j) \in Int
      BY <2>1, <2>3, TotalNext
    <3>2. Total(g, m) \in Int
      BY <2>1, <2>3, TotalNext
    <3>3. Total(g, 0) = 0
      <4>1. 0 \in Nat /\ \A j \in 0 .. 0 - 1 : g[j] \in Int
        OBVIOUS
      <4> QED
        BY <4>1, TotalNext
    <3> QED
      BY <2>1, <3>1, <3>2, <3>3
  <2>7. t[0] = 0
    BY <2>1
  <2>8. \A j \in 0 .. n - 1 : t[j + 1] = t[j] + f[j]
    <3> SUFFICES ASSUME NEW j \in 0 .. n - 1 PROVE t[j + 1] = t[j] + f[j]
      OBVIOUS
    <3>1. j \in 0 .. n /\ j + 1 \in 0 .. n /\ j + 1 # 0 /\ (j + 1) - 1 = j /\ j \in 0 .. m
      BY <2>1
    <3>2. t[j + 1] = d[k] + 2 * Total(g, j)
      BY <3>1
    <3>3. CASE j = 0
      <4> HIDE DEF t
      <4>1. t[j] = 0 /\ f[j] = d[k] /\ Total(g, j) = 0
        BY <2>4, <2>6, <2>7, <3>3, Zenon
      <4> QED
        BY <2>1, <3>2, <4>1
    <3>4. CASE j # 0
      <4> DEFINE l == j - 1
      <4>1. l \in 0 .. m - 1 /\ l + 1 = j
        BY <2>1, <3>4
      <4>2. t[j] = d[k] + 2 * Total(g, l)
        BY <3>1, <3>4
      <4> HIDE DEF l, t
      <4>3. Total(g, l + 1) = Total(g, l) + g[l] /\ Total(g, l) \in Int
        BY <2>1, <2>3, <4>1, TotalNext
      <4>4. f[l + 1] = 2 * g[l] /\ g[l] \in Int
        BY <2>3, <4>1
      <4> QED
        BY <2>1, <3>2, <4>1, <4>2, <4>3, <4>4
    <3> QED
      BY <3>3, <3>4
  <2>9. t[n] = d[k] + 2 * Total(g, m)
    <3>1. n \in 0 .. n /\ n # 0 /\ n - 1 = m
      BY <2>1
    <3> QED
      BY <3>1
  <2> HIDE DEF t
  <2>10. \A j \in 0 .. n - 1 : f[j] \in Int
    BY <2>2
  <2>11. Total(f, n) = t[n]
    BY <2>1, <2>7, <2>8, <2>10, TotalIs
  <2> QED
    BY <2>1, <2>5, <2>6, <2>9, <2>11
<1>4. \A k \in Positions : k \in 0 .. Bits /\ k + 1 \in 0 .. Bits
  BY <1>1
<1> QED
  BY <1>1, <1>2, <1>3, <1>4

\* A representation is determined by its point and its Z.
LEMMA RepIsScaled ==
  ASSUME NEW u, NEW p, RepP3(u, p)
  PROVE  u = [X |-> p[1] (.) u.Z, Y |-> p[2] (.) u.Z, Z |-> u.Z, T |-> (p[1] (.) p[2]) (.) u.Z]
<1>1. /\ u \in [X : F, Y : F, Z : F \ {0}, T : F]
      /\ u.X \in F /\ u.Y \in F /\ u.Z \in F \ {0} /\ u.T \in F /\ p \in Curve
      /\ Same(u.X, p[1] * u.Z) /\ Same(u.Y, p[2] * u.Z) /\ Same(u.T, (p[1] * p[2]) * u.Z)
  BY DEF RepP3
<1>2. /\ p[1] \in F /\ p[2] \in F /\ Same(p[1], p[1]) /\ Same(p[2], p[2]) /\ Same(u.Z, u.Z)
  BY <1>1, PointIs, Prime, SameFacts
<1>3. /\ p[1] (.) u.Z \in F /\ Same(p[1] (.) u.Z, p[1] * u.Z)
      /\ p[2] (.) u.Z \in F /\ Same(p[2] (.) u.Z, p[2] * u.Z)
      /\ p[1] (.) p[2] \in F /\ Same(p[1] (.) p[2], p[1] * p[2])
  BY <1>1, <1>2, SameValues
<1>4. (p[1] (.) p[2]) (.) u.Z \in F /\ Same((p[1] (.) p[2]) (.) u.Z, (p[1] * p[2]) * u.Z)
  BY <1>1, <1>2, <1>3, SameValues
<1>5. u.X = p[1] (.) u.Z
  <2>1. Same(u.X, p[1] (.) u.Z)
    BY <1>1, <1>3, SameTrans, SameSym
  <2> QED
    BY <1>1, <1>3, <2>1, ZeroSmall
<1>6. u.Y = p[2] (.) u.Z
  <2>1. Same(u.Y, p[2] (.) u.Z)
    BY <1>1, <1>3, SameTrans, SameSym
  <2> QED
    BY <1>1, <1>3, <2>1, ZeroSmall
<1>7. u.T = (p[1] (.) p[2]) (.) u.Z
  <2>1. Same(u.T, (p[1] (.) p[2]) (.) u.Z)
    BY <1>1, <1>4, SameTrans, SameSym
  <2> QED
    BY <1>1, <1>4, <2>1, ZeroSmall
<1>8. u = [X |-> u.X, Y |-> u.Y, Z |-> u.Z, T |-> u.T]
  BY <1>1
<1> QED
  BY <1>5, <1>6, <1>7, <1>8

LEMMA CachedNegRep ==
  ASSUME NEW c, NEW q, RepCached(c, q)
  PROVE  RepCached(CachedNeg(c), AffineNeg(q))
<1> DEFINE x == q[1]
           y == q[2]
           z == c.Z
           n == AffineNeg(q)[1]
<1>1. /\ c.YplusX \in F /\ c.YminusX \in F /\ c.T2d \in F /\ z \in F \ {0} /\ z \in Int /\ q \in Curve
      /\ x \in F /\ x \in Int /\ y \in Int /\ D \in Int
      /\ Same(c.YplusX, (y + x) * z) /\ Same(c.YminusX, (y - x) * z)
      /\ Same(c.T2d, (2 * D) * (x * y) * z)
  BY PointIs, Prime DEF RepCached
<1>2. AffineNeg(q) \in Curve /\ n = Neg(x) /\ AffineNeg(q)[2] = y
  BY <1>1, AddNegative DEF AffineNeg
<1>3. Same(n, 0 - x) /\ n \in Int
  BY <1>1, <1>2, NegSame, SameFacts DEF Same
<1>4. CachedNeg(c) = [YplusX |-> c.YminusX, YminusX |-> c.YplusX, Z |-> z, T2d |-> Neg(c.T2d)]
  BY DEF CachedNeg
<1>5. Neg(c.T2d) \in F /\ Same(Neg(c.T2d), 0 - (2 * D) * (x * y) * z)
  BY <1>1, NegSame
<1> HIDE DEF x, y, n, z
<1>6. Same(0 - x, n) /\ Same(y, y) /\ Same(2 * D, 2 * D) /\ Same(z, z)
  <2>1. 2 * D \in Int
    BY <1>1
  <2> QED
    BY <1>1, <1>3, <2>1, SameFacts, SameSym
<1>7. Same(y + (0 - x), y + n) /\ Same(y - (0 - x), y - n) /\ Same((2 * D) * ((0 - x) * y), (2 * D) * (n * y))
  BY <1>6, SameOperations
<1>8. /\ Same((y + (0 - x)) * z, (y + n) * z) /\ Same((y - (0 - x)) * z, (y - n) * z)
      /\ Same((2 * D) * ((0 - x) * y) * z, (2 * D) * (n * y) * z)
  BY <1>6, <1>7, SameOperations
<1>9. /\ (y + (0 - x)) * z = (y - x) * z /\ (y - (0 - x)) * z = (y + x) * z
      /\ (2 * D) * ((0 - x) * y) * z = 0 - (2 * D) * (x * y) * z
  BY <1>1
<1>10. Same(c.YminusX, (y + n) * z) /\ Same(c.YplusX, (y - n) * z) /\ Same(Neg(c.T2d), (2 * D) * (n * y) * z)
  BY <1>1, <1>5, <1>8, <1>9, SameTrans
<1> QED
  BY <1>1, <1>2, <1>4, <1>5, <1>10 DEF RepCached, n

\* [2](p + q) + s + t, as the ladder adds it up, is ([2]p + s) + ([2]q + t).
LEMMA LadderAdds ==
  ASSUME NEW p \in Curve, NEW q \in Curve, NEW s \in Curve, NEW t \in Curve
  PROVE  AffineAdd(AffineAdd(AffineAdd(AffineAdd(p, q), AffineAdd(p, q)), s), t)
           = AffineAdd(AffineAdd(AffineAdd(p, p), s), AffineAdd(AffineAdd(q, q), t))
<1> DEFINE f == Law
<1>1. \A x, y \in Curve : Of(f, x, y) = AffineAdd(x, y)
  BY LawIs
<1>2. \A x, y \in Curve : AffineAdd(x, y) \in Curve
  BY AddIs
<1>3. /\ \A x, y \in Curve : Of(f, x, y) \in Curve /\ Of(f, x, y) = Of(f, y, x)
      /\ \A x, y, z \in Curve : Of(f, Of(f, x, y), z) = Of(f, x, Of(f, y, z))
  <2>1. IsGroup(Curve, f, Neutral)
    BY CurveIsGroup
  <2> HIDE DEF f
  <2>2. \A x, y \in Curve : Of(f, x, y) \in Curve /\ Of(f, x, y) = Of(f, y, x)
    BY <2>1, Zenon DEF IsGroup
  <2>3. \A x, y, z \in Curve : Of(f, Of(f, x, y), z) = Of(f, x, Of(f, y, z))
    BY <2>1, Zenon DEF IsGroup
  <2> QED
    BY <2>2, <2>3
<1> HIDE DEF f
<1> DEFINE pp == Of(f, p, p)
           qq == Of(f, q, q)
           pq == Of(f, p, q)
<1>4. pp \in Curve /\ qq \in Curve /\ pq \in Curve
  BY <1>3
<1>5. Of(f, pq, pq) = Of(f, pp, qq)
  <2>1. Of(f, pq, pq) = Of(f, p, Of(f, q, pq))
    BY <1>3, <1>4
  <2>2. Of(f, q, pq) = Of(f, pq, q) /\ Of(f, pq, q) = Of(f, p, qq)
    BY <1>3, <1>4
  <2>3. Of(f, p, Of(f, p, qq)) = Of(f, pp, qq)
    BY <1>3, <1>4
  <2> QED
    BY <2>1, <2>2, <2>3, Zenon
<1>6. /\ Of(f, p, q) = pq /\ Of(f, p, p) = pp /\ Of(f, q, q) = qq
  OBVIOUS
<1> HIDE DEF pp, qq, pq
<1> DEFINE ps == Of(f, pp, s)
           qt == Of(f, qq, t)
           pq2 == Of(f, pp, qq)
           all == Of(f, pq2, s)
<1>7. ps \in Curve /\ qt \in Curve /\ pq2 \in Curve /\ all \in Curve
  BY <1>3, <1>4
<1>8. Of(f, all, t) = Of(f, ps, qt)
  <2>1. all = Of(f, pp, Of(f, qq, s))
    BY <1>3, <1>4
  <2>2. Of(f, qq, s) = Of(f, s, qq)
    BY <1>3, <1>4
  <2>3. Of(f, pp, Of(f, s, qq)) = Of(f, ps, qq)
    BY <1>3, <1>4
  <2>4. all = Of(f, ps, qq)
    BY <2>1, <2>2, <2>3, Zenon
  <2> HIDE DEF ps, all
  <2>5. Of(f, Of(f, ps, qq), t) = Of(f, ps, qt)
    BY <1>3, <1>4, <1>7
  <2> QED
    BY <2>4, <2>5, Zenon
<1>9. /\ AffineAdd(p, q) = pq /\ AffineAdd(p, p) = pp /\ AffineAdd(q, q) = qq
      /\ AffineAdd(pq, pq) = Of(f, pq, pq)
      /\ AffineAdd(pp, s) = ps /\ AffineAdd(qq, t) = qt
  BY <1>1, <1>4, <1>6
<1>10. AffineAdd(pq2, s) = all
  BY <1>1, <1>7
<1> HIDE DEF ps, qt, pq2, all
<1>11. AffineAdd(all, t) = Of(f, all, t) /\ AffineAdd(ps, qt) = Of(f, ps, qt)
  BY <1>1, <1>7
<1>12. AffineAdd(pq, pq) = pq2
  BY <1>5, <1>9 DEF pq2
<1> QED
  BY <1>8, <1>9, <1>10, <1>11, <1>12, Zenon

\* Entry k of a table of odd multiples is of [2k - 1]p.
Tabled(t, p) ==
  \A k \in 1 .. ASize : \E u : RepP3(u, Times(2 * k - 1, p)) /\ t[k] = P3ToCached(u)

Cacheds == [YplusX : F, YminusX : F, Z : F, T2d : F]

LEMMA GeAddFields ==
  ASSUME NEW u \in [X : F, Y : F, Z : F, T : F], NEW c \in Cacheds
  PROVE  P3ToCached(P1P1ToP3(GeAdd(u, c))) \in Cacheds
<1>1. \A x, y \in F : x (+) y \in F /\ x (-) y \in F /\ x (.) y \in F
  BY Operations
<1>2. 2 \in F /\ D \in F
  BY Prime
<1>3. /\ u.X \in F /\ u.Y \in F /\ u.Z \in F /\ u.T \in F
      /\ c.YplusX \in F /\ c.YminusX \in F /\ c.Z \in F /\ c.T2d \in F
  BY DEF Cacheds
<1> DEFINE g == GeAdd(u, c)
           v == P1P1ToP3(g)
<1>4. g.X \in F /\ g.Y \in F /\ g.Z \in F /\ g.T \in F
  BY <1>1, <1>3 DEF GeAdd, Sum
<1> HIDE DEF g
<1>5. v.X \in F /\ v.Y \in F /\ v.Z \in F /\ v.T \in F
  BY <1>1, <1>4 DEF P1P1ToP3
<1> HIDE DEF v
<1>6. P3ToCached(v) = [YplusX |-> v.Y (+) v.X, YminusX |-> v.Y (-) v.X, Z |-> v.Z, T2d |-> v.T (.) (2 (.) D)]
  BY DEF P3ToCached
<1>7. v.Y (+) v.X \in F /\ v.Y (-) v.X \in F /\ 2 (.) D \in F
  BY <1>1, <1>2, <1>5
<1>8. v.T (.) (2 (.) D) \in F
  BY <1>1, <1>5, <1>7
<1>9. P3ToCached(v) \in Cacheds
  BY <1>5, <1>6, <1>7, <1>8 DEF Cacheds
<1> QED
  BY <1>9 DEF v, g

LEMMA AsP3Rep == ASSUME NEW p \in Curve PROVE RepP3(AsP3(p), p)
<1>1. p[1] \in F /\ p[2] \in F /\ p = <<p[1], p[2]>>
  BY PointIs
<1>2. RepP3([X |-> p[1], Y |-> p[2], Z |-> 1, T |-> p[1] (.) p[2]], <<p[1], p[2]>>)
  BY <1>1, PairRep
<1> QED
  BY <1>1, <1>2 DEF AsP3

LEMMA TableFilled ==
  ASSUME A \in Curve
  PROVE  Tabled(OddMultiples, A)
<1> DEFINE first == P3ToCached(AsP3(A))
           A2 == P1P1ToP3(GeDbl(AsP3(A)))
           next(c) == P3ToCached(P1P1ToP3(GeAdd(A2, c)))
           Upto(t) == t = [k \in 1 .. ASize |-> IF k = 1 THEN first ELSE next(t[k - 1])]
           u == CHOOSE t : Upto(t)
           f == [c \in Cacheds |-> next(c)]
           N == 7
<1>1. RepP3(AsP3(A), A)
  BY AsP3Rep
<1>2. RepP3(A2, AffineAdd(A, A))
  <2>1. RepP1(GeDbl(AsP3(A)), AffineAdd(A, A))
    BY <1>1, DoubleRep DEF RepP3
  <2> QED
    BY <2>1, ConvertRep
<1>3. A2 \in [X : F, Y : F, Z : F, T : F]
  BY <1>2 DEF RepP3
<1>4. first \in Cacheds
  BY <1>1, CachedRep DEF RepCached, Cacheds
<1>5. OddMultiples = u
  BY Zenon DEF OddMultiples
<1> HIDE DEF first, A2
<1>6. \A c \in Cacheds : f[c] = next(c) /\ f[c] \in Cacheds
  BY <1>3, GeAddFields
<1>7. N \in Nat /\ ASize = N + 1
  BY DEF ASize
<1> HIDE DEF N
<1>8. \E t : Upto(t)
  <2> HIDE DEF f, next
  <2>0. \A c \in Cacheds : f[c] \in Cacheds
    BY <1>6
  <2>1. PICK g : Iterates(Cacheds, f, first, N, g)
    BY <1>4, <1>7, <2>0, IteratesExist
  <2> DEFINE t == [k \in 1 .. ASize |-> g[k - 1]]
             d == [k \in 1 .. ASize |-> IF k = 1 THEN first ELSE next(t[k - 1])]
  <2>2. ASSUME NEW k \in 1 .. ASize PROVE t[k] = IF k = 1 THEN first ELSE next(t[k - 1])
    <3>1. CASE k = 1
      <4>1. t[k] = g[0]
        BY <3>1
      <4> QED
        BY <2>1, <3>1, <4>1 DEF Iterates
    <3>2. CASE k # 1
      <4> DEFINE j == k - 2
      <4>1. j \in 0 .. N - 1 /\ j \in 0 .. N /\ j + 1 = k - 1 /\ k - 1 \in 1 .. ASize /\ (k - 1) - 1 = j
        BY <1>7, <3>2
      <4>2. t[k] = g[j + 1] /\ t[k - 1] = g[j]
        BY <4>1
      <4> HIDE DEF j, t
      <4>3. g[j] \in Cacheds /\ g[j + 1] = f[g[j]]
        BY <2>1, <4>1 DEF Iterates
      <4>4. g[j + 1] = next(g[j])
        BY <1>6, <4>3
      <4> QED
        BY <3>2, <4>2, <4>4
    <3> QED
      BY <3>1, <3>2
  <2>3. t = d
    <3> HIDE DEF t
    <3>1. t = [k \in 1 .. ASize |-> t[k]]
      BY DEF t
    <3> QED
      BY <2>2, <3>1
  <2> QED
    BY <2>3, Zenon
<1>9. Upto(u)
  BY <1>8, Zenon
<1> HIDE DEF u, f
<1>10. \A k \in 1 .. ASize : u[k] = IF k = 1 THEN first ELSE next(u[k - 1])
  <2> HIDE DEF next
  <2> QED
    BY <1>9, Zenon
<1>11. u[1] = first /\ \A k \in 1 .. N : u[k + 1] = next(u[k])
  <2> HIDE DEF next
  <2>1. u[1] = first
    BY <1>7, <1>10
  <2>2. \A k \in 1 .. N : k + 1 \in 1 .. ASize /\ k + 1 # 1 /\ (k + 1) - 1 = k
    BY <1>7
  <2>3. ASSUME NEW k \in 1 .. N PROVE u[k + 1] = next(u[k])
    BY <1>10, <2>2
  <2> QED
    BY <2>1, <2>3
<1> DEFINE Right(k) == \E v : RepP3(v, Times(2 * k - 1, A)) /\ u[k] = P3ToCached(v)
           T == {n \in Nat : n <= N => Right(n + 1)}
<1>12. Right(1)
  <2>1. Times(2 * 1 - 1, A) = A
    BY TimesNext
  <2> QED
    BY <1>1, <1>11, <2>1 DEF first
<1>13. ASSUME NEW k \in 1 .. N, Right(k) PROVE Right(k + 1)
  <2>1. PICK v : RepP3(v, Times(2 * k - 1, A)) /\ u[k] = P3ToCached(v)
    BY <1>13
  <2> DEFINE n == 2 * k - 1
             w == P1P1ToP3(GeAdd(A2, u[k]))
  <2>2. n \in Int /\ 2 * (k + 1) - 1 = 2 + n /\ 2 \in Int /\ 1 \in Int /\ 2 = 1 + 1
    BY <1>7
  <2>3. RepCached(u[k], Times(n, A))
    BY <2>1, CachedRep
  <2>4. RepP3(w, AffineAdd(AffineAdd(A, A), Times(n, A)))
    BY <1>2, <2>3, AddRep, ConvertRep
  <2> HIDE DEF n
  <2>5. Times(2, A) = AffineAdd(A, A)
    <3>1. Times(1 + 1, A) = AffineAdd(Times(1, A), Times(1, A)) /\ Times(1, A) = A
      BY <2>2, TimesSum, TimesNext
    <3> QED
      BY <2>2, <3>1
  <2>6. Times(2 + n, A) = AffineAdd(Times(2, A), Times(n, A))
    BY <2>2, TimesSum
  <2>7. RepP3(w, Times(2 * (k + 1) - 1, A))
    BY <2>2, <2>4, <2>5, <2>6, Zenon
  <2>8. u[k + 1] = P3ToCached(w)
    BY <1>11
  <2> QED
    BY <2>7, <2>8
<1> HIDE DEF Right
<1>14. 0 \in T
  BY <1>12
<1>15. ASSUME NEW n \in Nat, n \in T PROVE n + 1 \in T
  <2> SUFFICES ASSUME n + 1 <= N PROVE Right((n + 1) + 1)
    OBVIOUS
  <2>1. n <= N /\ n + 1 \in 1 .. N
    BY <1>7
  <2>2. Right(n + 1)
    BY <1>15, <2>1
  <2> QED
    BY <1>13, <2>1, <2>2
<1> HIDE DEF T
<1>16. \A n \in Nat : n \in T
  BY <1>14, <1>15, Induction
<1>17. \A k \in 1 .. ASize : Right(k)
  <2> SUFFICES ASSUME NEW k \in 1 .. ASize PROVE Right(k)
    OBVIOUS
  <2>1. k - 1 \in Nat /\ k - 1 <= N /\ (k - 1) + 1 = k
    BY <1>7
  <2> QED
    BY <1>16, <2>1 DEF T
<1> QED
  BY <1>5, <1>17 DEF Right, Tabled

LEMMA OddEntry ==
  ASSUME NEW n \in 1 .. 32, NEW x, x # 0, Digit(x, 2 * n - 1)
  PROVE  /\ x \in Int /\ Abs(x) \in Nat /\ (Abs(x) \div 2) + 1 \in 1 .. n
         /\ 2 * ((Abs(x) \div 2) + 1) - 1 = Abs(x)
<1>1. x \in -(2 * n - 1) .. 2 * n - 1 /\ x % 2 = 1 /\ x \in Int
  BY DEF Digit
<1>2. (Abs(x) \div 2) + 1 \in 1 .. n
  BY <1>1, DigitReached
<1>3. Abs(x) \in Nat /\ (x > 0 => Abs(x) = x) /\ (x < 0 => Abs(x) = -x)
  BY <1>1 DEF Abs
<1> DEFINE q == x \div 2
<1>4. q \in Int /\ x = 2 * q + 1
  <2>1. 2 \in Nat \ {0}
    OBVIOUS
  <2>2. x = 2 * (x \div 2) + (x % 2) /\ x \div 2 \in Int
    BY <1>1, <2>1, DivMod
  <2> QED
    BY <1>1, <2>2
<1> HIDE DEF q
<1> DEFINE y == Abs(x)
<1>5. \E k \in Int : y = 2 * k + 1
  <2>1. CASE x > 0
    BY <1>3, <1>4, <2>1
  <2>2. CASE x < 0
    <3>1. y = 2 * (-q - 1) + 1 /\ -q - 1 \in Int
      BY <1>3, <1>4, <2>2
    <3> QED
      BY <3>1
  <2> QED
    BY <1>1, <2>1, <2>2
<1>6. PICK k \in Int : y = 2 * k + 1
  BY <1>5
<1>7. y \div 2 = k
  <2>1. 2 \in Nat \ {0} /\ 1 \in Nat /\ 1 < 2
    OBVIOUS
  <2>2. (2 * k + 1) \div 2 = k
    BY <2>1, DivModUnique
  <2> QED
    BY <1>6, <2>2
<1>8. 2 * ((y \div 2) + 1) - 1 = y
  BY <1>6, <1>7
<1> QED
  BY <1>1, <1>2, <1>3, <1>8

\* An entry's negative is the multiple of the negative digit.
LEMMA SignedMultiple ==
  ASSUME NEW p \in Curve, NEW x \in Int
  PROVE  /\ x > 0 => Times(Abs(x), p) = Times(x, p)
         /\ x < 0 => AffineNeg(Times(Abs(x), p)) = Times(x, p)
         /\ x = 0 => Times(x, p) = Neutral
<1>1. (x > 0 => Abs(x) = x) /\ (x < 0 => Abs(x) = -x /\ -x \in Int /\ -(-x) = x)
  BY DEF Abs
<1>2. Times(0, p) = Neutral /\ \A m \in Int : AffineNeg(Times(m, p)) = Times(-m, p)
  BY TimesNext, TimesSum
<1>3. ASSUME x < 0 PROVE AffineNeg(Times(Abs(x), p)) = Times(x, p)
  <2>1. AffineNeg(Times(-x, p)) = Times(-(-x), p)
    BY <1>1, <1>2, <1>3
  <2> QED
    BY <1>1, <1>3, <2>1
<1> QED
  BY <1>1, <1>2, <1>3

LEMMA WithARep ==
  ASSUME A \in Curve, Tabled(table, A), NEW t, NEW p, RepP1(t, p), NEW x, Digit(x, MaxA)
  PROVE  RepP1(WithA(t, x), AffineAdd(p, Times(x, A)))
<1> DEFINE u == P1P1ToP3(t)
           k == (Abs(x) \div 2) + 1
           c == table[k]
<1>1. RepP3(u, p) /\ p \in Curve
  BY ConvertRep DEF RepP1
<1>2. CASE x = 0
  <2>1. AffineAdd(p, Times(x, A)) = p
    BY <1>1, <1>2, TimesNext, AddNeutral
  <2> QED
    BY <1>2, <2>1 DEF WithA
<1>3. CASE x # 0
  <2>1. ASize \in 1 .. 32 /\ MaxA = 2 * ASize - 1
    BY DEF ASize, MaxA
  <2>2. x \in Int /\ k \in 1 .. ASize /\ 2 * k - 1 = Abs(x)
    BY <1>3, <2>1, OddEntry
  <2>3. PICK v : RepP3(v, Times(2 * k - 1, A)) /\ c = P3ToCached(v)
    BY <2>2 DEF Tabled
  <2>4. RepCached(c, Times(Abs(x), A))
    BY <2>2, <2>3, CachedRep
  <2>5. WithA(t, x) = IF x > 0 THEN GeAdd(u, c)
                      ELSE IF lib = "ref10" THEN GeSub(u, c) ELSE GeAdd(u, CachedNeg(c))
    BY <1>3 DEF WithA
  <2> HIDE DEF u, k, c
  <2>6. CASE x > 0
    <3>1. Times(Abs(x), A) = Times(x, A)
      BY <2>2, <2>6, SignedMultiple
    <3>2. RepP1(GeAdd(u, c), AffineAdd(p, Times(Abs(x), A)))
      BY <1>1, <2>4, AddRep
    <3> QED
      BY <2>5, <2>6, <3>1, <3>2
  <2>7. CASE x < 0
    <3>1. AffineNeg(Times(Abs(x), A)) = Times(x, A)
      BY <2>2, <2>7, SignedMultiple
    <3>2. RepP1(GeSub(u, c), AffineAdd(p, AffineNeg(Times(Abs(x), A))))
      BY <1>1, <2>4, AddRep
    <3>3. RepCached(CachedNeg(c), AffineNeg(Times(Abs(x), A)))
      BY <2>4, CachedNegRep
    <3>4. RepP1(GeAdd(u, CachedNeg(c)), AffineAdd(p, AffineNeg(Times(Abs(x), A))))
      BY <1>1, <3>3, AddRep
    <3>5. WithA(t, x) = GeSub(u, c) \/ WithA(t, x) = GeAdd(u, CachedNeg(c))
      BY <2>2, <2>5, <2>7
    <3> QED
      BY <3>1, <3>2, <3>4, <3>5
  <2> QED
    BY <1>3, <2>2, <2>6, <2>7
<1> QED
  BY <1>2, <1>3

LEMMA WithBRep ==
  ASSUME lib \in {"ref10", "amd64"}, NEW t, NEW p, RepP1(t, p), NEW x, Digit(x, MaxB)
  PROVE  RepP1(WithB(t, x), AffineAdd(p, Times(x, B)))
<1> DEFINE u == P1P1ToP3(t)
           k == (Abs(x) \div 2) + 1
           c == BaseMultiples[k]
<1>1. RepP3(u, p) /\ p \in Curve /\ B \in Curve
  BY ConvertRep, BaseAssumption DEF RepP1
<1>2. CASE x = 0
  <2>1. AffineAdd(p, Times(x, B)) = p
    BY <1>1, <1>2, TimesNext, AddNeutral
  <2> QED
    BY <1>2, <2>1 DEF WithB
<1>3. CASE x # 0
  <2>1. BSize \in 1 .. 32 /\ MaxB = 2 * BSize - 1
    BY DEF BSize, MaxB
  <2>2. x \in Int /\ k \in 1 .. BSize /\ 2 * k - 1 = Abs(x) /\ Abs(x) \in Int
    <3> DEFINE n == BSize
    <3>1. n \in 1 .. 32 /\ Digit(x, 2 * n - 1)
      BY <2>1
    <3> HIDE DEF n
    <3>2. x \in Int /\ Abs(x) \in Nat /\ k \in 1 .. n /\ 2 * k - 1 = Abs(x)
      BY <1>3, <3>1, OddEntry
    <3> QED
      BY <3>2 DEF n
  <2>3. c = Precomp(Times(Abs(x), B))
    <3>1. k \in 1 .. 32
      BY <2>1, <2>2
    <3>2. c = Precomp(Times(2 * k - 1, B))
      BY <3>1 DEF BaseMultiples
    <3> QED
      BY <2>2, <3>2
  <2>4. RepPre(c, Times(Abs(x), B))
    <3>1. Times(Abs(x), B) \in Curve
      BY <1>1, <2>2, TimesNext
    <3> QED
      BY <2>3, <3>1, PrecompRep
  <2>5. WithB(t, x) = IF x > 0 THEN GeMadd(u, c)
                      ELSE IF lib = "ref10" THEN GeMsub(u, c) ELSE GeMadd(u, PrecompNeg(c))
    BY <1>3 DEF WithB
  <2> HIDE DEF u, k, c
  <2>6. CASE x > 0
    <3>1. Times(Abs(x), B) = Times(x, B)
      BY <1>1, <2>2, <2>6, SignedMultiple
    <3>2. RepP1(GeMadd(u, c), AffineAdd(p, Times(Abs(x), B)))
      BY <1>1, <2>4, MaddRep
    <3> QED
      BY <2>5, <2>6, <3>1, <3>2
  <2>7. CASE x < 0
    <3>1. AffineNeg(Times(Abs(x), B)) = Times(x, B)
      BY <1>1, <2>2, <2>7, SignedMultiple
    <3>2. RepP1(GeMsub(u, c), AffineAdd(p, AffineNeg(Times(Abs(x), B))))
      BY <1>1, <2>4, MaddRep
    <3>3. RepPre(PrecompNeg(c), AffineNeg(Times(Abs(x), B)))
      BY <2>4, PrecompNegRep
    <3>4. RepP1(GeMadd(u, PrecompNeg(c)), AffineAdd(p, AffineNeg(Times(Abs(x), B))))
      BY <1>1, <3>3, MaddRep
    <3>5. WithB(t, x) = GeMsub(u, c) \/ WithB(t, x) = GeMadd(u, PrecompNeg(c))
      BY <2>2, <2>5, <2>7
    <3> QED
      BY <3>1, <3>2, <3>4, <3>5
  <2> QED
    BY <1>3, <2>2, <2>6, <2>7
<1> QED
  BY <1>2, <1>3

\* The point that the digits from one on of both scalars say.
PointFrom(k) == AffineAdd(Times(ValueFrom(aslide, k), A), Times(ValueFrom(bslide, k), B))

LEMMA LadderStep ==
  ASSUME A \in Curve, B \in Curve, aslide \in [Positions -> Int], bslide \in [Positions -> Int],
         NEW k \in Positions
  PROVE  /\ PointFrom(k + 1) \in Curve
         /\ PointFrom(k) = AffineAdd(AffineAdd(AffineAdd(PointFrom(k + 1), PointFrom(k + 1)),
                                               Times(aslide[k], A)), Times(bslide[k], B))
<1>1. /\ ValueFrom(aslide, k + 1) \in Int /\ ValueFrom(bslide, k + 1) \in Int
      /\ ValueFrom(aslide, k) = 2 * ValueFrom(aslide, k + 1) + aslide[k]
      /\ ValueFrom(bslide, k) = 2 * ValueFrom(bslide, k + 1) + bslide[k]
      /\ aslide[k] \in Int /\ bslide[k] \in Int
  BY ValueFromNext
<1>2. ASSUME NEW p \in Curve, NEW v \in Int, NEW x \in Int
      PROVE  /\ Times(v, p) \in Curve /\ Times(x, p) \in Curve
             /\ Times(2 * v + x, p) = AffineAdd(AffineAdd(Times(v, p), Times(v, p)), Times(x, p))
  <2>1. 2 * v + x = (v + v) + x /\ v + v \in Int
    OBVIOUS
  <2>2. Times((v + v) + x, p) = AffineAdd(Times(v + v, p), Times(x, p))
    BY <2>1, TimesSum
  <2>3. Times(v + v, p) = AffineAdd(Times(v, p), Times(v, p))
    BY TimesSum
  <2>4. Times(v, p) \in Curve /\ Times(x, p) \in Curve
    BY TimesNext
  <2> QED
    BY <2>1, <2>2, <2>3, <2>4, Zenon
<1> DEFINE p == Times(ValueFrom(aslide, k + 1), A)
           q == Times(ValueFrom(bslide, k + 1), B)
           s == Times(aslide[k], A)
           t == Times(bslide[k], B)
<1>3. p \in Curve /\ q \in Curve /\ s \in Curve /\ t \in Curve
  BY <1>1, <1>2
<1>4. PointFrom(k + 1) = AffineAdd(p, q)
  BY DEF PointFrom
<1>5. PointFrom(k) = AffineAdd(AffineAdd(AffineAdd(p, p), s), AffineAdd(AffineAdd(q, q), t))
  BY <1>1, <1>2 DEF PointFrom
<1> HIDE DEF p, q
<1> QED
  BY <1>3, <1>4, <1>5, LadderAdds, AddIs

\* What the ladder keeps: r stands for what the digits from the one above i on say, and as
\* long as it is neutral these are all 0.
LInv ==
  /\ A \in Curve /\ i \in -1 .. Bits - 1
  /\ pc \in {"slide_a", "slide_b", "table"} => i = Bits - 1
  /\ pc \in {"slide_a", "slide_b", "table", "skip"} => r = P2Zero
  /\ pc \in {"skip", "ladder"} => Tabled(table, A)
  /\ pc = "skip" => ValueFrom(aslide, i + 1) = 0 /\ ValueFrom(bslide, i + 1) = 0
  /\ pc \in {"ladder", "done"} => RepP2(r, PointFrom(i + 1))
  /\ pc = "done" => i = -1

LEMMA DigitsRead ==
  ASSUME IInv, pc \in {"table", "skip", "ladder", "done"}
  PROVE  /\ aslide \in [Positions -> Int] /\ bslide \in [Positions -> Int]
         /\ \A k \in Positions : Digit(aslide[k], MaxA) /\ Digit(bslide[k], MaxB)
         /\ lib \in {"ref10", "amd64"}
<1>1. lib \in {"ref10", "amd64"} /\ SlideAt(aslide, Bits, 1, MaxA, a) /\ SlideAt(bslide, Bits, 1, MaxB, b)
  BY DEF IInv
<1>2. \A k \in Positions : k < Bits
  BY Sizes
<1>3. ASSUME NEW d, NEW m, NEW s, SlideAt(d, Bits, 1, m, s)
      PROVE  d \in [Positions -> Int] /\ \A k \in Positions : Digit(d[k], m)
  BY <1>2, <1>3 DEF SlideAt
<1> QED
  BY <1>1, <1>3

\* One iteration of the ladder.
LEMMA LadderKeeps ==
  ASSUME IInv, LInv, Ladder
  PROVE  RepP2(r', PointFrom(i' + 1)) /\ i' \in -1 .. Bits - 1
<1>1. /\ pc = "ladder" /\ i >= 0 /\ i' = i - 1 /\ i \in -1 .. Bits - 1 /\ Bits \in Nat
      /\ r' = P1P1ToP2(WithB(WithA(GeDbl(r), aslide[i]), bslide[i]))
  BY Sizes DEF Ladder, LInv
<1>2. i \in Positions /\ i' + 1 = i /\ i' \in -1 .. Bits - 1
  BY <1>1, Sizes
<1>3. /\ aslide \in [Positions -> Int] /\ bslide \in [Positions -> Int]
      /\ Digit(aslide[i], MaxA) /\ Digit(bslide[i], MaxB) /\ lib \in {"ref10", "amd64"}
  BY <1>1, <1>2, DigitsRead
<1>4. A \in Curve /\ B \in Curve /\ Tabled(table, A) /\ RepP2(r, PointFrom(i + 1))
  BY <1>1, BaseAssumption DEF LInv
<1> DEFINE p == PointFrom(i + 1)
           x == aslide[i]
           y == bslide[i]
           t == GeDbl(r)
           u == WithA(t, x)
           v == WithB(u, y)
           p2 == AffineAdd(p, p)
           p3 == AffineAdd(p2, Times(x, A))
           p4 == AffineAdd(p3, Times(y, B))
<1>5. PointFrom(i) = p4 /\ p \in Curve
  BY <1>2, <1>3, <1>4, LadderStep
<1>6. RepP1(t, p2)
  <2> HIDE DEF p
  <2>1. /\ RepP2(r, p) /\ p \in Curve /\ r.X \in F /\ r.Y \in F /\ r.Z \in F /\ r.Z # 0
        /\ Same(r.X, p[1] * r.Z) /\ Same(r.Y, p[2] * r.Z)
    BY <1>4 DEF RepP2, p
  <2> QED
    BY <2>1, DoubleRep
<1> HIDE DEF t, p2
<1>7. RepP1(u, p3)
  <2>1. Digit(x, MaxA)
    BY <1>3
  <2> HIDE DEF x
  <2> QED
    BY <1>4, <1>6, <2>1, WithARep
<1> HIDE DEF u, p3
<1>8. RepP1(v, p4)
  <2>1. Digit(y, MaxB)
    BY <1>3
  <2> HIDE DEF y
  <2> QED
    BY <1>3, <1>7, <2>1, WithBRep
<1>9. r' = P1P1ToP2(v)
  BY <1>1 DEF u, t
<1> HIDE DEF v, p4
<1>10. RepP2(r', p4)
  BY <1>8, <1>9, ConvertRep
<1> QED
  BY <1>2, <1>5, <1>10

LEMMA LadderInitially == Init => LInv
<1> SUFFICES ASSUME Init PROVE LInv
  OBVIOUS
<1>1. A \in Curve /\ pc = "slide_a" /\ i = Bits - 1 /\ r = P2Zero
  BY LadderAssumption DEF Init
<1> QED
  BY <1>1, Sizes DEF LInv

LEMMA LadderInvariance == IInv /\ LInv /\ [Next]_vars => LInv'
<1> SUFFICES ASSUME IInv, LInv, [Next]_vars PROVE LInv'
  OBVIOUS
<1>1. A \in Curve /\ i \in -1 .. Bits - 1 /\ Bits \in Nat
  BY Sizes DEF LInv
<1>2. CASE SlidingA \/ SlidingB \/ Slid
  <2>1. /\ UNCHANGED <<A, i, r>> /\ pc \in {"slide_a", "slide_b"}
        /\ pc' \in {"slide_a", "slide_b", "table"}
    BY <1>2 DEF SlidingA, SlidingB, Slid
  <2> QED
    BY <2>1 DEF LInv
<1>3. CASE FillTable
  <2>1. /\ pc = "table" /\ pc' = "skip" /\ UNCHANGED <<A, aslide, bslide, i, r>>
        /\ table' = OddMultiples
    BY <1>3 DEF FillTable, slideVars
  <2>2. i = Bits - 1 /\ r = P2Zero /\ i + 1 = Bits
    BY <1>1, <2>1 DEF LInv
  <2>3. aslide \in [Positions -> Int] /\ bslide \in [Positions -> Int]
    BY <2>1, DigitsRead
  <2>4. ValueFrom(aslide, i + 1) = 0 /\ ValueFrom(bslide, i + 1) = 0
    BY <2>2, <2>3, ValueFromNext
  <2>5. Tabled(table', A)
    BY <1>1, <2>1, TableFilled
  <2>6. Tabled(table', A')
    BY <2>1, <2>5
  <2>7. Tabled(table, A)'
    BY <2>6 DEF Tabled, ASize
  <2> QED
    BY <1>1, <2>1, <2>2, <2>4, <2>7 DEF LInv, ValueFrom
<1>4. CASE SkipZero
  <2>1. /\ pc = "skip" /\ UNCHANGED <<A, aslide, bslide, table, pc, r>> /\ i' = i - 1
        /\ i >= 0 /\ aslide[i] = 0 /\ bslide[i] = 0
    BY <1>4 DEF SkipZero, BothZero, slideVars
  <2>2. i \in Positions /\ i' + 1 = i /\ i' \in -1 .. Bits - 1
    BY <1>1, <2>1, Sizes
  <2>3. aslide \in [Positions -> Int] /\ bslide \in [Positions -> Int]
    BY <2>1, DigitsRead
  <2>4. ValueFrom(aslide, i + 1) = 0 /\ ValueFrom(bslide, i + 1) = 0 /\ r = P2Zero /\ Tabled(table, A)
    BY <2>1 DEF LInv
  <2>5. ValueFrom(aslide, i) = 0 /\ ValueFrom(bslide, i) = 0
    <3>1. /\ ValueFrom(aslide, i) = 2 * ValueFrom(aslide, i + 1) + aslide[i]
          /\ ValueFrom(bslide, i) = 2 * ValueFrom(bslide, i + 1) + bslide[i]
      BY <2>2, <2>3, ValueFromNext
    <3>2. 2 * 0 + 0 = 0
      OBVIOUS
    <3> QED
      BY <2>1, <2>4, <3>1, <3>2
  <2>6. ValueFrom(aslide, i' + 1) = 0 /\ ValueFrom(bslide, i' + 1) = 0
    BY <2>2, <2>5
  <2> QED
    BY <1>1, <2>1, <2>2, <2>4, <2>6 DEF LInv, ValueFrom, Tabled
<1>5. CASE FirstDigit
  <2>1. /\ pc = "skip" /\ pc' = "ladder" /\ UNCHANGED <<A, aslide, bslide, table, i, r>>
    BY <1>5 DEF FirstDigit, slideVars
  <2>2. ValueFrom(aslide, i + 1) = 0 /\ ValueFrom(bslide, i + 1) = 0 /\ r = P2Zero /\ Tabled(table, A)
    BY <2>1 DEF LInv
  <2>3. PointFrom(i + 1) = Neutral /\ Neutral \in Curve
    <3>1. Times(0, A) = Neutral /\ Times(0, B) = Neutral /\ Neutral \in Curve
      BY <1>1, BaseAssumption, TimesNext, PointIs
    <3>2. AffineAdd(Neutral, Neutral) = Neutral
      BY <3>1, AddNeutral
    <3> QED
      BY <2>2, <3>1, <3>2 DEF PointFrom
  <2>4. RepP2(r, PointFrom(i + 1))
    <3>1. 0 \in F /\ 1 \in F /\ Same(0, 0 * 1) /\ Same(1, 1 * 1)
      <4>1. Same(0, 0) /\ Same(1, 1) /\ 0 * 1 = 0 /\ 1 * 1 = 1
        BY SameFacts
      <4> QED
        BY <4>1, Prime
    <3> QED
      BY <2>2, <2>3, <3>1 DEF RepP2, P2Zero, Neutral
  <2>5. PointFrom(i + 1)' = PointFrom(i + 1)
    BY <2>1 DEF PointFrom, ValueFrom
  <2>6. RepP2(r, PointFrom(i + 1))'
    BY <2>1, <2>4, <2>5 DEF RepP2
  <2>7. Tabled(table, A)'
    BY <2>1, <2>2 DEF Tabled, ASize
  <2> QED
    BY <1>1, <2>1, <2>6, <2>7 DEF LInv
<1>6. CASE Ladder
  <2>1. /\ pc = "ladder" /\ UNCHANGED <<A, aslide, bslide, table, pc>>
    BY <1>6 DEF Ladder, slideVars
  <2>2. RepP2(r', PointFrom(i' + 1)) /\ i' \in -1 .. Bits - 1
    BY <1>6, LadderKeeps
  <2>3. PointFrom(i' + 1) = PointFrom(i + 1)'
    BY <2>1 DEF PointFrom, ValueFrom
  <2>4. Tabled(table, A)
    BY <2>1 DEF LInv
  <2>5. Tabled(table, A)'
    BY <2>1, <2>4 DEF Tabled, ASize
  <2>6. RepP2(r, PointFrom(i + 1))'
    BY <2>2, <2>3 DEF RepP2
  <2> QED
    BY <1>1, <2>1, <2>2, <2>5, <2>6 DEF LInv
<1>7. CASE Return
  <2>1. /\ pc = "ladder" /\ pc' = "done" /\ UNCHANGED <<A, aslide, bslide, i, r>> /\ i < 0
    BY <1>7 DEF Return, slideVars
  <2>2. RepP2(r, PointFrom(i + 1)) /\ i = -1
    BY <1>1, <2>1 DEF LInv
  <2>3. PointFrom(i + 1)' = PointFrom(i + 1)
    BY <2>1 DEF PointFrom, ValueFrom
  <2>4. RepP2(r, PointFrom(i + 1))'
    BY <2>1, <2>2, <2>3 DEF RepP2
  <2> QED
    BY <1>1, <2>1, <2>2, <2>4 DEF LInv
<1>8. CASE UNCHANGED vars
  <2>1. UNCHANGED <<A, aslide, bslide, table, pc, i, r>>
    BY <1>8 DEF vars, slideVars
  <2>2. PointFrom(i + 1)' = PointFrom(i + 1)
    BY <2>1 DEF PointFrom, ValueFrom
  <2>3. RepP2(r, PointFrom(i + 1)) => RepP2(r, PointFrom(i + 1))'
    BY <2>1, <2>2 DEF RepP2
  <2>4. Tabled(table, A) => Tabled(table, A)'
    BY <2>1 DEF Tabled, ASize
  <2>5. ValueFrom(aslide, i + 1)' = ValueFrom(aslide, i + 1) /\ ValueFrom(bslide, i + 1)' = ValueFrom(bslide, i + 1)
    BY <2>1 DEF ValueFrom
  <2> QED
    BY <2>1, <2>3, <2>4, <2>5 DEF LInv
<1> QED
  BY <1>2, <1>3, <1>4, <1>5, <1>6, <1>7, <1>8 DEF Next, Returned

LEMMA SumFollows == IInv /\ LInv => LadderSum
<1> SUFFICES ASSUME IInv, LInv PROVE LadderSum
  OBVIOUS
<1>1. ASSUME pc = "skip", NEW k \in 1 .. ASize
      PROVE  LET z == table[k].Z
                 p == Times(2 * k - 1, A)
             IN z # 0 /\ table[k] = P3ToCached([X |-> p[1] (.) z, Y |-> p[2] (.) z, Z |-> z,
                                               T |-> (p[1] (.) p[2]) (.) z])
  <2> DEFINE p == Times(2 * k - 1, A)
  <2>1. PICK u : RepP3(u, p) /\ table[k] = P3ToCached(u)
    BY <1>1 DEF LInv, Tabled
  <2>2. table[k].Z = u.Z /\ u.Z # 0
    BY <2>1 DEF P3ToCached, RepP3
  <2> HIDE DEF p
  <2>3. u = [X |-> p[1] (.) u.Z, Y |-> p[2] (.) u.Z, Z |-> u.Z, T |-> (p[1] (.) p[2]) (.) u.Z]
    BY <2>1, RepIsScaled
  <2>4. table[k] = P3ToCached([X |-> p[1] (.) u.Z, Y |-> p[2] (.) u.Z, Z |-> u.Z,
                               T |-> (p[1] (.) p[2]) (.) u.Z])
    BY <2>1, <2>3, Zenon
  <2> QED
    BY <2>2, <2>4, Zenon DEF p
<1>2. ASSUME pc \in {"ladder", "done"}
      PROVE  LET value == <<Over(r.X, r.Z), Over(r.Y, r.Z)>>
             IN /\ r.Z # 0
                /\ value = AffineAdd(Times(ValueFrom(aslide, i + 1), A),
                                     Times(ValueFrom(bslide, i + 1), B))
                /\ pc = "done" => value = AffineAdd(Times(a, A), Times(b, B))
  <2>1. RepP2(r, PointFrom(i + 1)) /\ r.Z # 0
    BY <1>2 DEF LInv, RepP2
  <2>2. <<Over(r.X, r.Z), Over(r.Y, r.Z)>> = PointFrom(i + 1)
    BY <2>1, ValueIs
  <2>3. ASSUME pc = "done" PROVE PointFrom(i + 1) = AffineAdd(Times(a, A), Times(b, B))
    <3>1. i + 1 = 0 /\ i \in -1 .. Bits - 1
      BY <2>3 DEF LInv
    <3>2. ValueFrom(aslide, 0) = a /\ ValueFrom(bslide, 0) = b
      BY <2>3, <3>1, ReadsFollow DEF LadderReads
    <3> QED
      BY <3>1, <3>2 DEF PointFrom
  <2> QED
    BY <2>1, <2>2, <2>3 DEF PointFrom
<1> QED
  BY <1>1, <1>2 DEF LadderSum, TableIsOdd

\* In both libraries the table holds the odd multiples of A, the point in r is at each digit
\* the sum of what the digits used so far say of A and of B, and the one returned is
\* [a]A + [b]B (ge_double_scalarmult_vartime, ge25519_double_scalarmult_vartime).
THEOREM LadderCorrect == Spec => []LadderSum
<1>1. Spec => [](IInv /\ LInv)
  BY Initially, Invariance, LadderInitially, LadderInvariance, PTL DEF Spec
<1> QED
  BY <1>1, SumFollows, PTL
-----------------------------------------------------------------------------
(***************************************************************************)
(* ge_scalarmult_base (ScalarMultBase): the digits of the recoding.        *)
(***************************************************************************)
Weighed(d) == [k \in Places |-> d[k] * 2^(W * k)]

\* Digits d of the number s when the recoding is at place n with c to carry.  A digit and its
\* carry are never more than the radix, since a carry from a digit that was cut leaves none
\* from the half; and the last has room for both, as scalars are less than half of what the
\* digits hold.
RecodedAt(d, n, c, s) ==
  /\ d \in [Places -> Int] /\ n \in Places /\ c \in {0, 1}
  /\ \A k \in Places : k < n => -(2^W \div 2) <= d[k] /\ d[k] <= 2^W \div 2
  /\ \A k \in Places : n < k => 0 <= d[k] /\ d[k] < 2^W
  /\ 0 <= d[n] /\ d[n] + c <= 2^W
  /\ n < Digits - 1 => d[Digits - 1] < 2^W \div 2
  /\ n = Digits - 1 => d[n] + c <= 2^W \div 2
  /\ Total(Weighed(d), Digits) + c * 2^(W * n) = s

Recoded(d, s) ==
  /\ d \in [Places -> Int]
  /\ \A k \in Places : -(2^W \div 2) <= d[k] /\ d[k] <= 2^W \div 2
  /\ Total(Weighed(d), Digits) = s

BaseInv ==
  /\ a \in 0 .. 2^(W * Digits - 1) - 1
  /\ pc = "recode" => RecodedAt(e, i, carry, a)
  /\ pc # "recode" => Recoded(e, a)

LEMMA BaseSizes ==
         /\ W \in Nat /\ 1 <= W /\ Digits \in Nat /\ 2 <= Digits
         /\ BaseScalars \subseteq 0 .. 2^(W * Digits - 1) - 1
         /\ \A k : k \in Places <=> k \in Nat /\ k < Digits
         /\ 2^W \in Nat /\ 2^W \div 2 \in Nat /\ 2 * (2^W \div 2) = 2^W /\ 1 <= 2^W \div 2
         /\ \A k \in Nat : W * k \in Nat /\ 2^(W * k) \in Nat /\ 2^(W * (k + 1)) = 2^W * 2^(W * k)
<1>1. /\ W \in Nat \ {0} /\ Digits \in Nat \ {0} /\ Digits % 2 = 0
      /\ BaseScalars \subseteq 0 .. 2^(W * Digits - 1) - 1
  BY DigitsAssumption, Zenon DEF Pow2
<1>2. W \in Nat /\ 1 <= W /\ Digits \in Nat /\ 2 <= Digits
  BY <1>1
<1>3. \A k : k \in Places <=> k \in Nat /\ k < Digits
  BY <1>2 DEF Places
<1>4. 2^W \in Nat /\ 2^W \div 2 \in Nat /\ 2 * (2^W \div 2) = 2^W /\ 1 <= 2^W \div 2
  <2>1. W - 1 \in Nat /\ 2^W = 2 * 2^(W - 1)
    BY <1>1, Even
  <2>2. 2^(W - 1) \in Nat \ {0}
    BY <2>1, PowPositive
  <2> DEFINE x == 2^(W - 1)
  <2>3. x \in Nat \ {0} /\ 2^W = 2 * x
    BY <2>1, <2>2
  <2> HIDE DEF x
  <2> QED
    BY <2>3
<1>5. ASSUME NEW k \in Nat
      PROVE  W * k \in Nat /\ 2^(W * k) \in Nat /\ 2^(W * (k + 1)) = 2^W * 2^(W * k)
  <2>1. W * k \in Nat /\ W * (k + 1) = W + W * k
    BY <1>2, MulNat, MulFacts
  <2>2. 2^(W + W * k) = 2^W * 2^(W * k)
    BY <1>2, <2>1, PowSum, Zenon
  <2>3. 2^(W * k) \in Nat
    BY <2>1, PowPositive
  <2> QED
    BY <2>1, <2>2, <2>3
<1> QED
  BY <1>1, <1>2, <1>3, <1>4, <1>5

LEMMA WeighedInt ==
  ASSUME NEW d \in [Places -> Int]
  PROVE  \A k \in 0 .. Digits - 1 : Weighed(d)[k] = d[k] * 2^(W * k) /\ Weighed(d)[k] \in Int
<1> SUFFICES ASSUME NEW k \in 0 .. Digits - 1
             PROVE  Weighed(d)[k] = d[k] * 2^(W * k) /\ Weighed(d)[k] \in Int
  OBVIOUS
<1>1. k \in Places /\ k \in Nat /\ d[k] \in Int
  BY DEF Places
<1>2. 2^(W * k) \in Int
  BY <1>1, BaseSizes
<1>3. Weighed(d)[k] = d[k] * 2^(W * k)
  BY <1>1 DEF Weighed
<1> QED
  BY <1>1, <1>2, <1>3, MulFacts

\* One digit is cut to x, u of its excess goes to the next and v is carried.
Cut(d, f, n, c, x, u, v) ==
  /\ x \in Int /\ u \in {0, 1} /\ v \in {0, 1} /\ u + v <= 1
  /\ d[n] + c = x + (u + v) * 2^W /\ -(2^W \div 2) <= x /\ x <= 2^W \div 2
  /\ f \in [Places -> Int] /\ f[n] = x /\ f[n + 1] = d[n + 1] + u
  /\ \A k \in Places : k # n /\ k # n + 1 => f[k] = d[k]

LEMMA RecodeKeeps ==
  ASSUME NEW d, NEW n, NEW c, NEW s \in Int, RecodedAt(d, n, c, s),
         n < Digits - 1, NEW f, NEW x, NEW u, NEW v, Cut(d, f, n, c, x, u, v)
  PROVE  RecodedAt(f, n + 1, v, s)
<1>0. /\ x \in Int /\ u \in {0, 1} /\ v \in {0, 1} /\ u + v <= 1
      /\ d[n] + c = x + (u + v) * 2^W /\ -(2^W \div 2) <= x /\ x <= 2^W \div 2
      /\ f \in [Places -> Int] /\ f[n] = x /\ f[n + 1] = d[n + 1] + u
      /\ \A k \in Places : k # n /\ k # n + 1 => f[k] = d[k]
  BY Zenon DEF Cut
<1> USE <1>0
<1> DEFINE R == 2^W
           Half == R \div 2
           Q == 2^(W * n)
           Old == Weighed(d)
           New == Weighed(f)
<1>1. /\ d \in [Places -> Int] /\ n \in Nat /\ n \in Places /\ n + 1 \in Places /\ c \in {0, 1} /\ Digits \in Nat
      /\ \A k : k \in Places <=> k \in Nat /\ k < Digits
  BY BaseSizes DEF RecodedAt
<1>2. R \in Nat /\ Half \in Nat /\ 2 * Half = R /\ 1 <= Half /\ Q \in Nat /\ 2^(W * (n + 1)) = R * Q
  BY <1>1, BaseSizes
<1>3. \A k \in 0 .. Digits - 1 : Old[k] = d[k] * 2^(W * k) /\ Old[k] \in Int
  BY <1>1, WeighedInt
<1>4. \A k \in 0 .. Digits - 1 : New[k] = f[k] * 2^(W * k) /\ New[k] \in Int
  BY WeighedInt
<1>5. Old \in [0 .. Digits - 1 -> Int]
  BY <1>3 DEF Weighed, Places
<1>6. d[n] \in Int /\ d[n + 1] \in Int /\ R * Q \in Int /\ Q \in Int
  BY <1>1, <1>2, MulFacts
<1>y. PICK y \in Int : y = (x - d[n]) * Q
  BY <1>6, MulFacts
<1>z. PICK z \in Int : z = u * (R * Q)
  BY <1>6, MulFacts
<1> DEFINE Between == [Old EXCEPT ![n] = Old[n] + y]
<1>7. x * Q = d[n] * Q + y
  BY <1>6, <1>y, MulFacts
<1>8. Total(New, Digits) = (Total(Old, Digits) + y) + z
  <2>1. New[n] = Old[n] + y
    BY <1>1, <1>3, <1>4, <1>7
  <2>2. New[n + 1] = Old[n + 1] + z
    <3>1. (d[n + 1] + u) * (R * Q) = d[n + 1] * (R * Q) + z
      BY <1>6, <1>z, MulFacts
    <3>2. n + 1 \in 0 .. Digits - 1
      BY <1>1
    <3> HIDE DEF R, Q
    <3>3. New[n + 1] = (d[n + 1] + u) * (R * Q) /\ Old[n + 1] = d[n + 1] * (R * Q)
      BY <1>2, <1>3, <1>4, <3>2
    <3> QED
      BY <3>1, <3>3
  <2>3. \A k \in 0 .. Digits - 1 : k # n /\ k # n + 1 => New[k] = Old[k]
    <3> SUFFICES ASSUME NEW k \in 0 .. Digits - 1, k # n /\ k # n + 1 PROVE New[k] = Old[k]
      OBVIOUS
    <3>1. f[k] = d[k]
      BY <1>1
    <3> HIDE DEF Old, New
    <3> QED
      BY <1>3, <1>4, <3>1
  <2>4. n \in 0 .. Digits - 1 /\ n + 1 \in 0 .. Digits - 1 /\ n + 1 # n
    BY <1>1
  <2>5. \A k \in 0 .. Digits - 1 : Old[k] \in Int
    BY <1>3
  <2> HIDE DEF Old, New
  <2>6. Between[n] = Old[n] + y /\ \A k \in 0 .. Digits - 1 : k # n => Between[k] = Old[k]
    BY <1>5, <2>4
  <2>7. \A k \in 0 .. Digits - 1 : Between[k] \in Int
    BY <1>7, <2>4, <2>5, <2>6
  <2> HIDE DEF Between
  <2>8. Total(Between, Digits) = Total(Old, Digits) + y
    <3>1. Bumped(Old, Between, Digits, n, y)
      BY <1>y, <2>4, <2>5, <2>6 DEF Bumped
    <3>2. Digits \in Nat
      BY <1>1
    <3> QED
      BY ONLY <3>1, <3>2, BumpedTotal, Zenon
  <2>9. New[n + 1] = Between[n + 1] + z
    BY <2>2, <2>4, <2>6
  <2>10. \A k \in 0 .. Digits - 1 : k # n + 1 => New[k] = Between[k]
    BY <2>1, <2>3, <2>4, <2>6
  <2>11. Total(New, Digits) = Total(Between, Digits) + z
    <3>1. Bumped(Between, New, Digits, n + 1, z)
      BY <1>z, <2>4, <2>7, <2>9, <2>10 DEF Bumped
    <3>2. Digits \in Nat
      BY <1>1
    <3> QED
      BY ONLY <3>1, <3>2, BumpedTotal, Zenon
  <2> QED
    BY <2>8, <2>11
<1>9. Total(New, Digits) + v * 2^(W * (n + 1)) = s
  <2>1. Total(Old, Digits) + c * Q = s
    BY DEF RecodedAt
  <2>2. Total(Old, Digits) \in Int
    <3>1. \A k \in 0 .. Digits - 1 : Old[k] \in Int
      BY <1>3
    <3> HIDE DEF Old
    <3> QED
      BY <1>1, <3>1, TotalNext
  <2>3. (y + z) + v * (R * Q) = c * Q
    <3>1. x - d[n] = c - (u + v) * R
      BY <1>1, <1>2, <1>6
    <3> DEFINE l == R
               m == Q
    <3>2. l \in Int /\ m \in Int
      BY <1>2
    <3> HIDE DEF l, m
    <3>3. (c - (u + v) * l) * m + u * (l * m) + v * (l * m) = c * m
      <4>1. (u = 0 /\ v = 0) \/ (u = 0 /\ v = 1) \/ (u = 1 /\ v = 0)
        OBVIOUS
      <4>2. c \in Int
        BY <1>1
      <4>3. (c - l) * m = c * m - l * m /\ l * m \in Int /\ c * m \in Int
        BY <3>2, <4>2, MulFacts
      <4> QED
        BY <3>2, <4>1, <4>2, <4>3
    <3> QED
      BY <1>y, <1>z, <3>1, <3>3 DEF l, m
  <2>4. v * (R * Q) \in Int /\ c * Q \in Int
    BY <1>1, <1>6, MulFacts
  <2> DEFINE t == Total(Old, Digits)
             w == v * (R * Q)
             l == c * Q
  <2>5. t + l = s /\ (y + z) + w = l /\ t \in Int /\ w \in Int /\ l \in Int
    BY <2>1, <2>2, <2>3, <2>4
  <2>6. Total(New, Digits) = (t + y) + z /\ v * 2^(W * (n + 1)) = w
    BY <1>2, <1>8
  <2> HIDE DEF t, w, l, New
  <2>7. Total(New, Digits) + w = s
    BY <1>7, <2>5, <2>6
  <2> QED
    BY <2>6, <2>7
<1>10. \A k \in Places : k < n + 1 => -Half <= f[k] /\ f[k] <= Half
  BY <1>1 DEF RecodedAt
<1>11. \A k \in Places : n + 1 < k => 0 <= f[k] /\ f[k] < R
  BY <1>1 DEF RecodedAt
<1>12. 0 <= d[n + 1] /\ d[n + 1] < R /\ (n + 1 = Digits - 1 => d[n + 1] < Half)
  BY <1>1 DEF RecodedAt
<1>13. 0 <= f[n + 1] /\ f[n + 1] + v <= R /\ (n + 1 = Digits - 1 => f[n + 1] + v <= Half)
  <2> HIDE DEF R, Half
  <2> QED
    BY <1>2, <1>6, <1>12
<1>14. n + 1 < Digits - 1 => f[Digits - 1] < Half
  <2> SUFFICES ASSUME n + 1 < Digits - 1 PROVE f[Digits - 1] < Half
    OBVIOUS
  <2>1. Digits - 1 \in Places /\ Digits - 1 # n /\ Digits - 1 # n + 1
    BY <1>1
  <2>2. d[Digits - 1] < Half
    BY DEF RecodedAt
  <2> QED
    BY <2>1, <2>2
<1> QED
  BY <1>1, <1>9, <1>10, <1>11, <1>13, <1>14 DEF RecodedAt

LEMMA BaseInitially ==
  ASSUME BaseInit
  PROVE  BaseInv
<1>1. /\ a \in BaseScalars /\ carry = 0 /\ i = 0 /\ pc = "recode"
      /\ e = [k \in 0 .. Digits - 1 |-> (a \div 2^(W * k)) % 2^W]
  BY DEF BaseInit, Places, Radix, Pow2
<1>2. /\ W \in Nat /\ 1 <= W /\ Digits \in Nat /\ 2 <= Digits
      /\ BaseScalars \subseteq 0 .. 2^(W * Digits - 1) - 1
      /\ \A k : k \in Places <=> k \in Nat /\ k < Digits
      /\ 2^W \in Nat /\ 2^W \div 2 \in Nat /\ 2 * (2^W \div 2) = 2^W /\ 1 <= 2^W \div 2
  BY BaseSizes
<1>3. \A k \in Nat : W * k \in Nat /\ 2^(W * k) \in Nat \ {0}
  BY <1>2, BaseSizes, PowPositive
<1>4. a \in 0 .. 2^(W * Digits - 1) - 1
  BY <1>1, <1>2
<1>5. \A k \in Places : e[k] = (a \div 2^(W * k)) % 2^W
  BY <1>1 DEF Places
<1>6. 2^W \in Nat \ {0} /\ 2^(W * Digits - 1) \in Nat
  <2>1. W * Digits \in Nat /\ W * 1 <= W * Digits
    BY <1>2, MulNat
  <2>2. W * Digits - 1 \in Nat
    BY <1>2, <2>1
  <2> QED
    BY <1>2, <2>2, PowPositive
<1>7. a \in Nat
  BY <1>4, <1>6
<1>8. \A k \in Places : e[k] \in Nat /\ e[k] < 2^W
  <2> SUFFICES ASSUME NEW k \in Places PROVE e[k] \in Nat /\ e[k] < 2^W
    OBVIOUS
  <2>1. PICK q \in Nat \ {0} : q = 2^(W * k)
    BY <1>2, <1>3
  <2>2. a \div q \in Nat
    <3>1. a \in Int
      BY <1>7
    <3> QED
      BY ONLY <1>7, <3>1, <2>1, DivMod
  <2> QED
    BY <1>5, <1>6, <2>1, <2>2, DivMod
<1>9. Total(Weighed(e), Digits) = a
  <2>1. \A k \in 0 .. Digits - 1 : Weighed(e)[k] = ((a \div 2^(W * k)) % 2^W) * 2^(W * k)
    BY <1>5 DEF Weighed, Places
  <2>2. Total(Weighed(e), Digits) = a % 2^(W * Digits)
    <3>1. PICK w \in Nat, n \in Nat, x \in Nat : w = W /\ n = Digits /\ x = a
      BY <1>2, <1>7
    <3>2. PICK f : f = Weighed(e)
      OBVIOUS
    <3>3. DigitTerms(f, w, x, n)
      BY <2>1, <3>1, <3>2 DEF DigitTerms
    <3>4. Total(f, n) = x % 2^(w * n)
      BY <3>1, <3>3, DigitsOfNumber
    <3> QED
      BY <3>1, <3>2, <3>4
  <2>3. a < 2^(W * Digits)
    <3>1. W * Digits - 1 \in Nat /\ W * Digits \in Nat /\ W * Digits - 1 <= W * Digits
      <4>1. W * Digits \in Nat /\ W * 1 <= W * Digits
        BY <1>2, MulNat
      <4> QED
        BY <1>2, <4>1
    <3>2. 2^(W * Digits - 1) <= 2^(W * Digits)
      BY <3>1, PowMono
    <3> QED
      BY <1>2, <1>3, <1>4, <1>6, <3>2
  <2>4. PICK q \in Nat \ {0} : q = 2^(W * Digits)
    BY <1>2, <1>3
  <2> QED
    BY <1>7, <2>2, <2>3, <2>4, SmallDiv
<1>10. e[Digits - 1] < 2^W \div 2
  <2>1. PICK n \in Nat : n = Digits - 1
    BY <1>2
  <2>2. PICK q \in Nat \ {0} : q = 2^(W * n)
    BY <1>3
  <2>3. PICK y \in Nat : y = 2^W \div 2
    BY <1>2
  <2>4. 2^(W * Digits - 1) = y * q
    <3>1. PICK w \in Nat : w = W - 1
      BY <1>2
    <3>2. PICK m \in Nat : m = W * n
      BY <1>2, <1>3
    <3>3. W * Digits - 1 = w + m
      <4>1. W * (n + 1) = W * n + W * 1
        BY <1>2, MulFacts
      <4> QED
        BY <1>2, <2>1, <3>1, <3>2, <4>1
    <3>4. 2^(w + m) = 2^w * 2^m
      BY PowSum
    <3>5. 2^w = y
      <4>1. 2^(w + 1) = 2 * 2^w /\ 2^w \in Nat
        BY PowNext
      <4>2. W = w + 1
        BY <1>2, <3>1
      <4> QED
        BY <1>2, <2>3, <4>1, <4>2
    <3> QED
      BY <2>2, <3>2, <3>3, <3>4, <3>5
  <2>5. a < q * y
    BY <1>4, <1>7, <2>4, MulFacts
  <2>6. PICK x \in Nat : x = a \div q
    BY <1>7, DivMod
  <2>7. q * x <= a
    BY <1>7, <2>6, DivMod
  <2>8. x < y
    <3> SUFFICES ASSUME y <= x PROVE FALSE
      OBVIOUS
    <3>1. q * y <= q * x /\ q * y \in Nat /\ q * x \in Nat
      BY MulNat
    <3> QED
      BY <1>7, <2>5, <2>7, <3>1
  <2>9. x < 2^W
    BY <1>2, <2>3, <2>8
  <2>10. x % 2^W = x
    BY <1>6, <2>9, SmallDiv
  <2>11. n \in Places /\ e[n] = (a \div 2^(W * n)) % 2^W
    BY <1>2, <1>5, <2>1
  <2> QED
    BY <2>1, <2>2, <2>3, <2>6, <2>8, <2>10, <2>11
<1>11. RecodedAt(e, 0, 0, a)
  <2>1. e \in [Places -> Int] /\ 0 \in Places
    BY <1>1, <1>2, <1>8 DEF Places
  <2>2. 0 <= e[0] /\ e[0] + 0 <= 2^W
    BY <1>2, <1>8, <2>1
  <2>3. Total(Weighed(e), Digits) + 0 * 2^(W * 0) = a
    <3>1. PICK q \in Nat : q = 2^(W * 0)
      BY <1>3
    <3> QED
      BY <1>7, <1>9, <3>1
  <2> QED
    BY <1>2, <1>8, <1>10, <2>1, <2>2, <2>3 DEF RecodedAt
<1> QED
  BY <1>1, <1>4, <1>11 DEF BaseInv

\* What an iteration of the recoding finds.
LEMMA RecodeFinds ==
  ASSUME BaseInv, pc = "recode", i < Digits - 1
  PROVE  /\ i \in Nat /\ i \in Places /\ i + 1 \in Places /\ e \in [Places -> Int]
         /\ carry \in {0, 1} /\ e[i] + carry \in Nat /\ e[i] + carry <= 2^W
         /\ e[i + 1] \in Int /\ a \in Int /\ RecodedAt(e, i, carry, a)
<1>1. RecodedAt(e, i, carry, a) /\ a \in 0 .. 2^(W * Digits - 1) - 1
  BY DEF BaseInv
<1>2. Digits \in Nat /\ \A k : k \in Places <=> k \in Nat /\ k < Digits
  BY BaseSizes
<1>3. e \in [Places -> Int] /\ i \in Places /\ carry \in {0, 1} /\ 0 <= e[i] /\ e[i] + carry <= 2^W
  BY <1>1 DEF RecodedAt
<1>4. i \in Nat /\ i + 1 \in Places
  BY <1>2, <1>3
<1>5. e[i] \in Int /\ e[i + 1] \in Int
  BY <1>3, <1>4
<1> QED
  BY <1>1, <1>3, <1>4, <1>5

LEMMA Ref10Keeps ==
  ASSUME BaseInv, RecodeRef10
  PROVE  BaseInv'
<1> DEFINE d == e[i] + carry
           R == 2^W
           Half == R \div 2
           c == (d + Half) \div R
           x == d - c * R
<1>1. /\ pc = "recode" /\ i < Digits - 1 /\ e' = [e EXCEPT ![i] = x] /\ carry' = c
      /\ i' = i + 1 /\ a' = a /\ pc' = pc
  BY DEF RecodeRef10, Radix, Pow2
<1>2. /\ i \in Nat /\ i \in Places /\ i + 1 \in Places /\ e \in [Places -> Int]
      /\ d \in Nat /\ d <= R
      /\ e[i + 1] \in Int /\ a \in Int /\ RecodedAt(e, i, carry, a)
  BY <1>1, RecodeFinds
<1>3. R \in Nat /\ Half \in Nat /\ 2 * Half = R /\ 1 <= Half
  BY BaseSizes
<1>4. c \in {0, 1} /\ x \in Int /\ d = x + (0 + c) * R /\ -Half <= x /\ x <= Half
  <2> DEFINE y == d + Half
  <2>1. y \in Nat /\ y < 2 * R
    BY <1>2, <1>3
  <2>2. y \in Int /\ R \in Nat \ {0}
    BY <2>1, <1>3
  <2> HIDE DEF y, R, Half, d
  <2>3. PICK q \in Nat, w \in Nat : q = y \div R /\ y = R * q + w /\ w < R
    BY <2>1, <2>2, DivMod
  <2>4. q \in {0, 1}
    <3> SUFFICES ASSUME 2 <= q PROVE FALSE
      BY <2>3
    <3>1. R * 2 <= R * q /\ R * q \in Nat
      BY <2>2, <2>3, MulNat
    <3> QED
      BY <2>1, <2>2, <2>3, <3>1
  <2>5. y = d + Half /\ c = q
    BY <2>3 DEF y
  <2> HIDE DEF c
  <2>6. CASE q = 0
    BY <1>2, <1>3, <2>3, <2>5, <2>6
  <2>7. CASE q = 1
    BY <1>2, <1>3, <2>3, <2>5, <2>7
  <2> QED
    BY <2>4, <2>6, <2>7
<1> HIDE DEF x, c, d
<1>5. /\ e' \in [Places -> Int] /\ e'[i] = x /\ e'[i + 1] = e[i + 1] + 0
      /\ \A k \in Places : k # i /\ k # i + 1 => e'[k] = e[k]
  BY <1>1, <1>2, <1>4
<1>6. RecodedAt(e', i + 1, c, a)
  <2>1. e[i] + carry = x + (0 + c) * 2^W
    BY <1>4 DEF d
  <2>2. Cut(e, e', i, carry, x, 0, c)
    BY <1>4, <1>5, <2>1 DEF Cut
  <2> QED
    BY <1>1, <1>2, <2>2, RecodeKeeps, Zenon
<1> QED
  BY <1>1, <1>6 DEF BaseInv

LEMMA Amd64Keeps ==
  ASSUME BaseInv, RecodeAmd64
  PROVE  BaseInv'
<1> DEFINE d == e[i] + carry
           R == 2^W
           Half == R \div 2
           u == d \div R
           m == d % R
           v == m \div Half
           x == m - v * R
<1>1. /\ pc = "recode" /\ i < Digits - 1 /\ e' = [e EXCEPT ![i] = x, ![i + 1] = @ + u] /\ carry' = v
      /\ i' = i + 1 /\ a' = a /\ pc' = pc
  BY DEF RecodeAmd64, Radix, Pow2
<1>2. /\ i \in Nat /\ i \in Places /\ i + 1 \in Places /\ e \in [Places -> Int]
      /\ d \in Nat /\ d <= R
      /\ e[i + 1] \in Int /\ a \in Int /\ RecodedAt(e, i, carry, a)
  BY <1>1, RecodeFinds
<1>3. R \in Nat /\ Half \in Nat /\ 2 * Half = R /\ 1 <= Half
  BY BaseSizes
<1>4. /\ u \in {0, 1} /\ v \in {0, 1} /\ u + v <= 1
      /\ x \in Int /\ d = x + (u + v) * R /\ -Half <= x /\ x <= Half
  <2>1. d \in Int /\ R \in Nat \ {0} /\ Half \in Nat \ {0}
    BY <1>2, <1>3
  <2> HIDE DEF R, Half, d
  <2>2. u \in Nat /\ m \in Nat /\ m < R /\ d = R * u + m
    BY <1>2, <2>1, DivMod
  <2> HIDE DEF u, m
  <2>3. v \in Nat /\ m = Half * v + (m % Half) /\ m % Half \in Nat /\ m % Half < Half
    BY <2>1, <2>2, DivMod
  <2> HIDE DEF v
  <2>4. u \in {0, 1}
    <3> SUFFICES ASSUME 2 <= u PROVE FALSE
      BY <2>2
    <3>1. R * 2 <= R * u /\ R * u \in Nat
      BY <2>1, <2>2, MulNat
    <3> QED
      BY <1>2, <2>1, <2>2, <3>1
  <2>5. v \in {0, 1}
    <3> SUFFICES ASSUME 2 <= v PROVE FALSE
      BY <2>3
    <3>1. Half * 2 <= Half * v /\ Half * v \in Nat
      BY <2>1, <2>3, MulNat
    <3> QED
      BY <1>3, <2>1, <2>2, <2>3, <3>1
  <2>6. CASE u = 0 /\ v = 0
    BY <1>3, <2>1, <2>2, <2>3, <2>6
  <2>7. CASE u = 0 /\ v = 1
    BY <1>3, <2>1, <2>2, <2>3, <2>7
  <2>8. CASE u = 1
    <3>1. m = 0
      BY <1>2, <2>1, <2>2, <2>8
    <3>2. v = 0
      <4> SUFFICES ASSUME v = 1 PROVE FALSE
        BY <2>5
      <4> QED
        BY <1>3, <2>3, <3>1
    <3> QED
      BY <1>3, <2>1, <2>2, <2>8, <3>1, <3>2
  <2> QED
    BY <2>4, <2>5, <2>6, <2>7, <2>8
<1> HIDE DEF x, u, v, m, d
<1>5. /\ e' \in [Places -> Int] /\ e'[i] = x /\ e'[i + 1] = e[i + 1] + u
      /\ \A k \in Places : k # i /\ k # i + 1 => e'[k] = e[k]
  <2>1. i + 1 # i
    BY <1>2
  <2>2. [e EXCEPT ![i] = x] \in [Places -> Int] /\ [e EXCEPT ![i] = x][i + 1] = e[i + 1]
    BY <1>2, <1>4, <2>1
  <2>3. e[i + 1] + u \in Int
    BY <1>2, <1>4
  <2> QED
    BY <1>1, <1>2, <1>4, <2>1, <2>2, <2>3
<1>6. RecodedAt(e', i + 1, v, a)
  <2>1. e[i] + carry = x + (u + v) * 2^W
    BY <1>4 DEF d
  <2>2. Cut(e, e', i, carry, x, u, v)
    BY <1>4, <1>5, <2>1 DEF Cut
  <2> QED
    BY <1>1, <1>2, <2>2, RecodeKeeps, Zenon
<1> QED
  BY <1>1, <1>6 DEF BaseInv

LEMMA LastKeeps ==
  ASSUME BaseInv, LastDigit
  PROVE  BaseInv'
<1>1. /\ pc = "recode" /\ i = Digits - 1 /\ e' = [e EXCEPT ![i] = @ + carry] /\ a' = a /\ pc' # "recode"
  BY DEF LastDigit, Go
<1>2. RecodedAt(e, i, carry, a) /\ a \in 0 .. 2^(W * Digits - 1) - 1
  BY <1>1 DEF BaseInv
<1>3. /\ Digits \in Nat /\ \A k : k \in Places <=> k \in Nat /\ k < Digits
      /\ 2^W \div 2 \in Nat
  BY BaseSizes
<1>4. /\ e \in [Places -> Int] /\ i \in Places /\ carry \in {0, 1}
      /\ \A k \in Places : k < i => -(2^W \div 2) <= e[k] /\ e[k] <= 2^W \div 2
      /\ 0 <= e[i] /\ e[i] + carry <= 2^W \div 2
      /\ Total(Weighed(e), Digits) + carry * 2^(W * i) = a
  BY <1>1, <1>2 DEF RecodedAt
<1>5. /\ e' \in [Places -> Int] /\ e'[i] = e[i] + carry
      /\ \A k \in Places : k # i => e'[k] = e[k]
  BY <1>1, <1>4
<1>6. \A k \in Places : -(2^W \div 2) <= e'[k] /\ e'[k] <= 2^W \div 2
  <2> SUFFICES ASSUME NEW k \in Places PROVE -(2^W \div 2) <= e'[k] /\ e'[k] <= 2^W \div 2
    OBVIOUS
  <2>1. CASE k = i
    BY <1>3, <1>4, <1>5, <2>1
  <2>2. CASE k # i
    BY <1>1, <1>3, <1>4, <1>5, <2>2
  <2> QED
    BY <2>1, <2>2
<1>7. Total(Weighed(e'), Digits) = a
  <2>1. PICK q \in Nat : q = 2^(W * i)
    BY <1>3, <1>4, BaseSizes
  <2>2. PICK y \in Int : y = carry * q
    BY <1>4, MulFacts
  <2>3. \A k \in 0 .. Digits - 1 : Weighed(e)[k] = e[k] * 2^(W * k) /\ Weighed(e)[k] \in Int
    BY <1>4, WeighedInt
  <2>4. \A k \in 0 .. Digits - 1 : Weighed(e')[k] = e'[k] * 2^(W * k)
    BY <1>5, WeighedInt
  <2>5. i \in 0 .. Digits - 1 /\ e[i] \in Int /\ Digits \in Nat
    BY <1>3, <1>4
  <2>6. Weighed(e')[i] = Weighed(e)[i] + y
    <3>1. (e[i] + carry) * q = e[i] * q + y
      BY <1>4, <2>2, <2>5, MulFacts
    <3> QED
      BY <1>5, <2>1, <2>3, <2>4, <2>5, <3>1
  <2>7. \A k \in 0 .. Digits - 1 : k # i => Weighed(e')[k] = Weighed(e)[k]
    <3> SUFFICES ASSUME NEW k \in 0 .. Digits - 1, k # i PROVE Weighed(e')[k] = Weighed(e)[k]
      OBVIOUS
    <3>1. e'[k] = e[k]
      BY <1>5 DEF Places
    <3> QED
      BY <2>3, <2>4, <3>1
  <2>8. Bumped(Weighed(e), Weighed(e'), Digits, i, y)
    BY <2>2, <2>3, <2>5, <2>6, <2>7 DEF Bumped
  <2>9. Total(Weighed(e'), Digits) = Total(Weighed(e), Digits) + y
    BY ONLY <2>5, <2>8, BumpedTotal, ZenonT(30)
  <2> QED
    BY <1>4, <2>1, <2>2, <2>9
<1>8. Recoded(e', a)
  BY <1>5, <1>6, <1>7 DEF Recoded
<1> QED
  BY <1>1, <1>2, <1>8 DEF BaseInv

LEMMA BaseStepKeeps ==
  ASSUME BaseInv, [BaseNext]_baseVars
  PROVE  BaseInv'
<1>1. CASE RecodeRef10
  BY <1>1, Ref10Keeps
<1>2. CASE RecodeAmd64
  BY <1>2, Amd64Keeps
<1>3. CASE LastDigit
  BY <1>3, LastKeeps
<1>4. ASSUME pc # "recode", pc' # "recode", e' = e, a' = a
      PROVE  BaseInv'
  BY <1>4 DEF BaseInv
<1>5. CASE AddOdd \/ OddEnds \/ DoubleOdd \/ AddEven \/ EvenEnds
  BY <1>4, <1>5, Zenon DEF AddOdd, OddEnds, DoubleOdd, AddEven, EvenEnds, Go
<1>6. CASE FirstEntry \/ AddNext \/ AllEnd
  BY <1>4, <1>6, Zenon DEF FirstEntry, AddNext, AllEnd, Go
<1>7. CASE UNCHANGED baseVars
  BY <1>7 DEF baseVars, BaseInv
<1> QED
  BY <1>1, <1>2, <1>3, <1>5, <1>6, <1>7 DEF BaseNext, BaseReturned

\* The recoding of both libraries never leaves the scalar: at each of its steps the digits
\* and the carry have the value of a, and a digit that has been recoded has an entry in its
\* table (ge_scalarmult_base, ge25519_scalarmult_base with sc25519_window4).
THEOREM BaseDigitsKept == BaseSpec => []DigitsAreScalar
<1>1. BaseInv => DigitsAreScalar
  <2> SUFFICES ASSUME BaseInv PROVE DigitsAreScalar
    OBVIOUS
  <2>3. 2^W \div 2 \in Nat /\ Digits \in Nat
    BY BaseSizes
  <2>4. CASE pc = "recode"
    <3>1. RecodedAt(e, i, carry, a)
      BY <2>4 DEF BaseInv
    <3>2. Total(Weighed(e), Digits) + carry * 2^(W * i) = a
      BY <3>1 DEF RecodedAt
    <3>3. \A k \in Places : k < i => Abs(e[k]) <= 2^W \div 2
      <4> SUFFICES ASSUME NEW k \in Places, k < i PROVE Abs(e[k]) <= 2^W \div 2
        OBVIOUS
      <4>1. e[k] \in Int /\ -(2^W \div 2) <= e[k] /\ e[k] <= 2^W \div 2
        BY <3>1 DEF RecodedAt
      <4> QED
        BY <2>3, <4>1 DEF Abs
    <3>4. Radix = 2^W /\ Pow2(W * i) = 2^(W * i)
      BY DEF Radix, Pow2
    <3>5. [k \in Places |-> e[k] * Pow2(W * k)] = Weighed(e)
      BY Zenon DEF Weighed, Pow2
    <3> QED
      BY <2>4, <3>2, <3>3, <3>4, <3>5, Zenon DEF DigitsAreScalar
  <2>5. CASE pc # "recode"
    <3>1. Recoded(e, a)
      BY <2>5 DEF BaseInv
    <3>2. Total(Weighed(e), Digits) = a
      BY <3>1 DEF Recoded
    <3>3. a \in Int
      BY DEF BaseInv
    <3>4. \A k \in Places : Abs(e[k]) <= 2^W \div 2
      <4> SUFFICES ASSUME NEW k \in Places PROVE Abs(e[k]) <= 2^W \div 2
        OBVIOUS
      <4>1. e[k] \in Int /\ -(2^W \div 2) <= e[k] /\ e[k] <= 2^W \div 2
        BY <3>1 DEF Recoded
      <4> QED
        BY <2>3, <4>1 DEF Abs
    <3>5. Radix = 2^W /\ a + 0 = a
      BY <3>3 DEF Radix, Pow2
    <3>6. [k \in Places |-> e[k] * Pow2(W * k)] = Weighed(e)
      BY Zenon DEF Weighed, Pow2
    <3> QED
      BY <2>5, <3>2, <3>4, <3>5, <3>6, Zenon DEF DigitsAreScalar
  <2> QED
    BY <2>4, <2>5
<1>2. BaseInit => BaseInv
  BY BaseInitially
<1>3. BaseInv /\ [BaseNext]_baseVars => BaseInv'
  BY BaseStepKeeps
<1> QED
  BY <1>1, <1>2, <1>3, PTL DEF BaseSpec
-----------------------------------------------------------------------------
(***************************************************************************)
(* The additions and the doublings between them.                           *)
(***************************************************************************)
\* The digits of a table for every other digit, of weights as that table gives them.
Odds(d)  == [k \in Places |-> IF k % 2 = 1 THEN d[k] * 2^(W * (k - 1)) ELSE 0]
Evens(d) == [k \in Places |-> IF k % 2 = 0 THEN d[k] * 2^(W * k) ELSE 0]

\* The point whose multiple n is.
Multiple(u, n) == n \in Int /\ RepP3(u, Times(n, B))

\* An entry of a table is the multiple of its digit.
LEMMA EntryRep ==
  ASSUME NEW n \in Int, NEW d \in Int, Abs(d) <= Radix \div 2
  PROVE  RepPre(Entry(n, d), Times(d * n, B))
<1>1. B \in Curve
  BY BaseAssumption
<1>2. (d < 0 => Abs(d) = -d) /\ (d >= 0 => Abs(d) = d) /\ Abs(d) \in Nat
  BY DEF Abs
<1>3. Radix \div 2 \in Int
  BY BaseSizes DEF Radix, Pow2
<1>4. CASE d = 0
  <2>1. Abs(d) \notin 1 .. Radix \div 2
    BY <1>2, <1>4
  <2>2. Entry(n, d) = PreZero
    BY <1>4, <2>1 DEF Entry
  <2>3. d * n = 0
    BY <1>4
  <2> QED
    BY <1>1, <2>2, <2>3, PrecompRep, TimesNext
<1>5. CASE d > 0
  <2>1. Abs(d) \in 1 .. Radix \div 2 /\ Abs(d) = d /\ ~(d < 0)
    BY <1>2, <1>3, <1>5
  <2>2. Entry(n, d) = Precomp(Times(d * n, B))
    BY <2>1 DEF Entry
  <2>3. d * n \in Int
    BY MulFacts
  <2> QED
    BY <1>1, <2>2, <2>3, PrecompRep, TimesNext
<1>6. CASE d < 0
  <2>1. Abs(d) \in 1 .. Radix \div 2 /\ Abs(d) = -d
    BY <1>2, <1>3, <1>6
  <2>2. Entry(n, d) = PrecompNeg(Precomp(Times(Abs(d) * n, B)))
    BY <1>6, <2>1 DEF Entry
  <2>3. Abs(d) * n = -(d * n) /\ d * n \in Int /\ -(d * n) \in Int /\ -(-(d * n)) = d * n
    BY <2>1
  <2> DEFINE m == -(d * n)
             p == Times(m, B)
  <2>4. Entry(n, d) = PrecompNeg(Precomp(p)) /\ m \in Int /\ -m = d * n
    BY <2>2, <2>3
  <2> HIDE DEF m
  <2>5. p \in Curve /\ AffineNeg(p) = Times(-m, B)
    BY <1>1, <2>4, TimesNext, TimesSum
  <2> HIDE DEF p
  <2>6. RepPre(PrecompNeg(Precomp(p)), AffineNeg(p))
    BY <2>5, PrecompRep, PrecompNegRep
  <2> QED
    BY <2>4, <2>5, <2>6
<1> QED
  BY <1>4, <1>5, <1>6

\* An addition of an entry.
LEMMA EntryAdds ==
  ASSUME NEW u, NEW m, Multiple(u, m), NEW n \in Int, NEW d \in Int, Abs(d) <= Radix \div 2
  PROVE  Multiple(P1P1ToP3(GeMadd(u, Entry(n, d))), m + d * n)
<1>1. m \in Int /\ RepP3(u, Times(m, B)) /\ B \in Curve
  BY BaseAssumption DEF Multiple
<1> DEFINE t == d * n
           c == Entry(n, d)
<1>2. RepPre(c, Times(t, B))
  BY EntryRep
<1>3. t \in Int
  BY MulFacts
<1> HIDE DEF t, c
<1>4. RepP1(GeMadd(u, c), AffineAdd(Times(m, B), Times(t, B)))
  BY <1>1, <1>2, MaddRep
<1>5. Times(m + t, B) = AffineAdd(Times(m, B), Times(t, B)) /\ m + t \in Int
  BY <1>1, <1>3, TimesSum
<1>6. RepP3(P1P1ToP3(GeMadd(u, c)), Times(m + t, B))
  BY <1>4, <1>5, ConvertRep
<1> QED
  BY <1>5, <1>6 DEF Multiple, c, t

\* A sum of digits is another after each of them.
LEMMA SumsNext ==
  ASSUME NEW d \in [Places -> Int]
  PROVE  \A f \in {Odds(d), Evens(d), Weighed(d)} :
           /\ Total(f, 0) = 0 /\ Total(f, Digits) \in Int
           /\ \A k \in Places : f[k] \in Int /\ Total(f, k) \in Int /\ Total(f, k + 1) = Total(f, k) + f[k]
<1>1. Digits \in Nat /\ W \in Nat /\ \A k : k \in Places <=> k \in Nat /\ k < Digits
  BY BaseSizes
<1>2. ASSUME NEW k \in Places
      PROVE  Odds(d)[k] \in Int /\ Evens(d)[k] \in Int /\ Weighed(d)[k] \in Int
  <2>1. k \in Nat /\ d[k] \in Int /\ 2^(W * k) \in Int
    BY <1>1, BaseSizes
  <2>2. d[k] * 2^(W * k) \in Int
    BY <2>1, MulFacts
  <2>3. ASSUME k % 2 = 1 PROVE d[k] * 2^(W * (k - 1)) \in Int
    <3>1. k - 1 \in Nat
      BY <2>1, <2>3
    <3>2. 2^(W * (k - 1)) \in Int
      BY <3>1, BaseSizes
    <3> QED
      BY <2>1, <3>2, MulFacts
  <2> QED
    BY <2>2, <2>3 DEF Odds, Evens, Weighed
<1>3. ASSUME NEW f, \A k \in Places : f[k] \in Int
      PROVE  /\ Total(f, 0) = 0 /\ Total(f, Digits) \in Int
             /\ \A k \in Places : f[k] \in Int /\ Total(f, k) \in Int /\ Total(f, k + 1) = Total(f, k) + f[k]
  <2>1. \A k \in 0 .. Digits - 1 : f[k] \in Int
    BY <1>1, <1>3
  <2>2. 0 \in Nat /\ \A k \in 0 .. 0 - 1 : f[k] \in Int
    OBVIOUS
  <2>3. Total(f, 0) = 0
    BY <2>2, TotalNext
  <2>4. Total(f, Digits) \in Int /\ \A k \in 0 .. Digits - 1 : Total(f, k) \in Int /\ Total(f, k + 1) = Total(f, k) + f[k]
    BY <1>1, <2>1, TotalNext
  <2>5. \A k \in Places : k \in 0 .. Digits - 1
    BY <1>1
  <2> QED
    BY <1>3, <2>3, <2>4, <2>5
<1> QED
  BY <1>2, <1>3

\* The odd digits, moved up by the doublings, and the even ones are all.
LEMMA OddsAndEvens ==
  ASSUME NEW d \in [Places -> Int]
  PROVE  2^W * Total(Odds(d), Digits) + Total(Evens(d), Digits) = Total(Weighed(d), Digits)
<1>1. Digits \in Nat /\ W \in Nat /\ 2^W \in Int /\ \A k : k \in Places <=> k \in Nat /\ k < Digits
  BY BaseSizes
<1>2. ASSUME NEW k \in 0 .. Digits - 1
      PROVE  /\ Evens(d)[k] \in Int /\ Odds(d)[k] \in Int
             /\ Weighed(d)[k] = Evens(d)[k] + 2^W * Odds(d)[k]
  <2>1. k \in Places /\ k \in Nat /\ d[k] \in Int
    BY <1>1
  <2>2. Evens(d)[k] \in Int /\ Odds(d)[k] \in Int /\ Weighed(d)[k] = d[k] * 2^(W * k) /\ Weighed(d)[k] \in Int
    BY <2>1, SumsNext DEF Weighed
  <2>3. CASE k % 2 = 0
    <3>1. Evens(d)[k] = Weighed(d)[k] /\ Odds(d)[k] = 0
      BY <2>1, <2>2, <2>3 DEF Evens, Odds
    <3> QED
      BY <1>1, <2>2, <3>1
  <2>4. CASE k % 2 = 1
    <3> DEFINE x == d[k]
               y == 2^(W * (k - 1))
               z == 2^W
    <3>1. k - 1 \in Nat /\ (k - 1) + 1 = k
      BY <2>1, <2>4
    <3>2. 2^(W * k) = z * y /\ y \in Int /\ z \in Int /\ x \in Int
      <4>1. \A m \in Nat : 2^(W * m) \in Int /\ 2^(W * (m + 1)) = 2^W * 2^(W * m)
        BY BaseSizes
      <4> DEFINE l == k - 1
      <4>2. l \in Nat /\ l + 1 = k
        BY <3>1
      <4> HIDE DEF l
      <4>3. 2^(W * l) \in Int /\ 2^(W * (l + 1)) = 2^W * 2^(W * l)
        BY <4>1, <4>2
      <4>4. 2^(W * k) = 2^W * 2^(W * l)
        BY <4>2, <4>3
      <4> QED
        BY <1>1, <2>1, <4>3, <4>4 DEF l
    <3>3. Evens(d)[k] = 0 /\ Odds(d)[k] = x * y
      BY <2>1, <2>4 DEF Evens, Odds
    <3>4. Weighed(d)[k] = x * (z * y)
      BY <2>2, <3>2
    <3> HIDE DEF x, y, z
    <3>5. x * (z * y) = 0 + z * (x * y)
      BY <3>2
    <3> QED
      BY <2>2, <3>3, <3>4, <3>5 DEF z
  <2>5. k % 2 = 0 \/ k % 2 = 1
    BY <2>1
  <2> QED
    BY <2>2, <2>3, <2>4, <2>5
<1> DEFINE f == Evens(d)
           g == Odds(d)
           s == Weighed(d)
           c == 2^W
<1>3. \A k \in 0 .. Digits - 1 : f[k] \in Int /\ g[k] \in Int /\ s[k] = f[k] + c * g[k]
  BY <1>2
<1>4. c \in Int
  BY <1>1
<1>5. Total(f, Digits) \in Int /\ Total(g, Digits) \in Int
  BY SumsNext
<1> HIDE DEF f, g, s, c
<1>6. Total(s, Digits) = Total(f, Digits) + c * Total(g, Digits)
  BY <1>1, <1>3, <1>4, TotalLinear
<1>7. c * Total(g, Digits) \in Int
  BY <1>4, <1>5, MulFacts
<1> QED
  BY <1>5, <1>6, <1>7 DEF f, g, s, c

\* What the additions and the doublings keep: h is the multiple of B that the digits used so
\* far say; in ref10 those at odd places count for less until the doublings.
PInv ==
  /\ pc = "recode" => h = P3Zero
  /\ pc = "odd" => /\ i \in Nat /\ i % 2 = 1 /\ i - 1 <= Digits
                   /\ Multiple(h, Total(Odds(e), i - 1))
  /\ pc = "double" => /\ i \in 0 .. W - 1
                      /\ i = 0 => Multiple(h, Total(Odds(e), Digits))
                      /\ i > 0 => RepP2(h, Times(2^i * Total(Odds(e), Digits), B))
  /\ pc = "even" => /\ i \in Nat /\ i % 2 = 0 /\ i <= Digits
                    /\ Multiple(h, 2^W * Total(Odds(e), Digits) + Total(Evens(e), i))
  /\ pc = "all" => i \in 1 .. Digits /\ Multiple(h, Total(Weighed(e), i))
  /\ pc = "done" => Multiple(h, a)

LEMMA DigitsUsed ==
  ASSUME BaseInv, pc # "recode"
  PROVE  /\ e \in [Places -> Int] /\ Total(Weighed(e), Digits) = a
         /\ \A k \in Places : e[k] \in Int /\ Abs(e[k]) <= Radix \div 2
<1>1. Recoded(e, a)
  BY DEF BaseInv
<1>2. Radix \div 2 \in Int /\ Radix = 2^W
  BY BaseSizes DEF Radix, Pow2
<1>3. ASSUME NEW k \in Places PROVE e[k] \in Int /\ Abs(e[k]) <= Radix \div 2
  <2>1. e[k] \in Int /\ -(2^W \div 2) <= e[k] /\ e[k] <= 2^W \div 2
    BY <1>1 DEF Recoded
  <2> DEFINE x == e[k]
             m == Radix \div 2
  <2>2. x \in Int /\ m \in Int /\ -m <= x /\ x <= m
    BY <1>2, <2>1
  <2> HIDE DEF x, m
  <2>3. Abs(x) <= m
    BY <2>2 DEF Abs
  <2> QED
    BY <2>2, <2>3 DEF x, m
<1> QED
  BY <1>1, <1>3 DEF Recoded

LEMMA ZeroIsMultiple == Multiple(P3Zero, 0)
<1>1. Times(0, B) = Neutral /\ Neutral \in Curve
  BY BaseAssumption, TimesNext, PointIs
<1>2. 0 \in F /\ 1 \in F /\ Same(0, 0 * 1) /\ Same(1, 1 * 1) /\ Same(0, (0 * 1) * 1)
  <2>1. Same(0, 0) /\ Same(1, 1) /\ 0 * 1 = 0 /\ 1 * 1 = 1 /\ (0 * 1) * 1 = 0
    BY SameFacts
  <2> QED
    BY <2>1, Prime
<1> QED
  BY <1>1, <1>2 DEF Multiple, RepP3, P3Zero, Neutral

LEMMA LastStarts ==
  ASSUME BaseInv, PInv, LastDigit, BaseInv'
  PROVE  PInv'
<1>1. /\ pc = "recode" /\ h = P3Zero /\ h' = h
      /\ (pc' = "odd" /\ i' = 1) \/ (pc' = "first" /\ i' = 0)
  BY DEF LastDigit, PInv, Go
<1>2. CASE pc' = "odd" /\ i' = 1
  <2>1. e' \in [Places -> Int] /\ Digits \in Nat /\ 0 <= Digits
    BY <1>2, BaseSizes DEF BaseInv, Recoded
  <2>2. Total(Odds(e'), 0) = 0
    BY <2>1, SumsNext
  <2>3. i' \in Nat /\ i' % 2 = 1 /\ i' - 1 = 0 /\ i' - 1 <= Digits
    BY <1>2, <2>1
  <2>4. Multiple(h', Total(Odds(e'), i' - 1))
    BY <1>1, <2>2, <2>3, ZeroIsMultiple
  <2> QED
    BY <1>2, <2>3, <2>4 DEF PInv, Multiple, Odds
<1>3. CASE pc' = "first"
  BY <1>3 DEF PInv
<1> QED
  BY <1>1, <1>2, <1>3

LEMMA OddKeeps ==
  ASSUME BaseInv, PInv, AddOdd
  PROVE  PInv'
<1>1. /\ pc = "odd" /\ pc' = pc /\ i < Digits /\ i' = i + 2 /\ e' = e
      /\ h' = P1P1ToP3(GeMadd(h, Select(i \div 2, e[i])))
      /\ i \in Nat /\ i % 2 = 1 /\ Multiple(h, Total(Odds(e), i - 1))
  BY DEF AddOdd, PInv
<1>2. /\ W \in Nat /\ Digits \in Nat /\ Digits % 2 = 0
      /\ \A k : k \in Places <=> k \in Nat /\ k < Digits
  BY BaseSizes, DigitsAssumption
<1>3. e \in [Places -> Int] /\ e[i] \in Int /\ Abs(e[i]) <= Radix \div 2 /\ i \in Places
  BY <1>1, <1>2, DigitsUsed
<1>4. i - 1 \in Places /\ (i - 1) % 2 = 0 /\ (i - 1) + 1 = i /\ 2 * (i \div 2) = i - 1 /\ i \div 2 \in Nat
  BY <1>1, <1>2
<1> DEFINE n == 2^(W * (i - 1))
           x == e[i]
           f == Odds(e)
<1>5. Select(i \div 2, e[i]) = Entry(n, x)
  <2>1. 2 * W * (i \div 2) = W * (i - 1)
    <3> DEFINE q == i \div 2
    <3>1. q \in Nat /\ 2 * q = i - 1
      BY <1>4
    <3> HIDE DEF q
    <3>2. 2 * W * q = W * (2 * q)
      BY <1>2, <3>1
    <3> QED
      BY <3>1, <3>2 DEF q
  <2> QED
    BY <2>1, Zenon DEF Select, Pow2
<1>6. n \in Int
  BY <1>1, <1>4, BaseSizes, <1>2
<1>7. /\ f[i - 1] = 0 /\ f[i] = x * n /\ Total(f, i) = Total(f, i - 1) + f[i - 1]
      /\ Total(f, i + 1) = Total(f, i) + f[i] /\ Total(f, i - 1) \in Int
  <2>1. f[i - 1] = 0 /\ f[i] = x * n
    BY <1>1, <1>3, <1>4 DEF Odds
  <2>2. \A k \in Places : Total(f, k) \in Int /\ Total(f, k + 1) = Total(f, k) + f[k]
    BY <1>3, SumsNext
  <2> HIDE DEF f
  <2>3. Total(f, (i - 1) + 1) = Total(f, i - 1) + f[i - 1] /\ Total(f, i - 1) \in Int
    BY <1>4, <2>2
  <2> QED
    BY <1>3, <1>4, <2>1, <2>2, <2>3
<1> HIDE DEF n, x, f
<1>8. Multiple(P1P1ToP3(GeMadd(h, Entry(n, x))), Total(f, i - 1) + x * n)
  BY <1>1, <1>3, <1>6, EntryAdds DEF f, x
<1>9. Total(f, i + 1) = Total(f, i - 1) + x * n
  BY <1>7
<1>10. i' \in Nat /\ i' % 2 = 1 /\ i' - 1 = i + 1 /\ i' - 1 <= Digits
  BY <1>1, <1>2
<1>11. Multiple(h', Total(Odds(e'), i' - 1))
  BY <1>1, <1>5, <1>8, <1>9, <1>10, Zenon DEF f
<1> QED
  BY <1>1, <1>10, <1>11 DEF PInv, Multiple, Odds

LEMMA EvenKeeps ==
  ASSUME BaseInv, PInv, AddEven
  PROVE  PInv'
<1> DEFINE m == 2^W * Total(Odds(e), Digits)
<1>1. /\ pc = "even" /\ pc' = pc /\ i < Digits /\ i' = i + 2 /\ e' = e
      /\ h' = P1P1ToP3(GeMadd(h, Select(i \div 2, e[i])))
      /\ i \in Nat /\ i % 2 = 0 /\ Multiple(h, m + Total(Evens(e), i))
  BY DEF AddEven, PInv
<1>2. /\ W \in Nat /\ Digits \in Nat /\ Digits % 2 = 0 /\ 2^W \in Int
      /\ \A k : k \in Places <=> k \in Nat /\ k < Digits
  BY BaseSizes, DigitsAssumption
<1>3. e \in [Places -> Int] /\ e[i] \in Int /\ Abs(e[i]) <= Radix \div 2 /\ i \in Places
  BY <1>1, <1>2, DigitsUsed
<1>4. i + 1 \in Places /\ (i + 1) % 2 = 1 /\ (i + 1) + 1 = i + 2 /\ 2 * (i \div 2) = i /\ i \div 2 \in Nat
  BY <1>1, <1>2
<1> DEFINE n == 2^(W * i)
           x == e[i]
           f == Evens(e)
<1>5. Select(i \div 2, e[i]) = Entry(n, x)
  <2>1. 2 * W * (i \div 2) = W * i
    <3> DEFINE q == i \div 2
    <3>1. q \in Nat /\ 2 * q = i
      BY <1>4
    <3> HIDE DEF q
    <3>2. 2 * W * q = W * (2 * q)
      BY <1>2, <3>1
    <3> QED
      BY <3>1, <3>2 DEF q
  <2> QED
    BY <2>1, Zenon DEF Select, Pow2
<1>6. n \in Int
  BY <1>1, <1>2, BaseSizes
<1>7. /\ f[i + 1] = 0 /\ f[i] = x * n /\ Total(f, i + 2) = Total(f, i + 1) + f[i + 1]
      /\ Total(f, i + 1) = Total(f, i) + f[i] /\ Total(f, i) \in Int
  <2>1. f[i + 1] = 0 /\ f[i] = x * n
    BY <1>1, <1>3, <1>4 DEF Evens
  <2>2. \A k \in Places : Total(f, k) \in Int /\ Total(f, k + 1) = Total(f, k) + f[k]
    BY <1>3, SumsNext
  <2> HIDE DEF f
  <2>3. Total(f, (i + 1) + 1) = Total(f, i + 1) + f[i + 1]
    BY <1>4, <2>2
  <2> QED
    BY <1>3, <1>4, <2>1, <2>2, <2>3
<1>8. m \in Int
  <2>1. Total(Odds(e), Digits) \in Int
    BY <1>3, SumsNext
  <2> QED
    BY <1>2, <2>1, MulFacts
<1> HIDE DEF m, n, x, f
<1>9. Multiple(P1P1ToP3(GeMadd(h, Entry(n, x))), (m + Total(f, i)) + x * n)
  BY <1>1, <1>3, <1>6, EntryAdds DEF f, x
<1>10. x * n \in Int
  BY <1>3, <1>6, MulFacts DEF x
<1>11. m + Total(f, i + 2) = (m + Total(f, i)) + x * n
  BY <1>7, <1>8, <1>10
<1>12. i' \in Nat /\ i' % 2 = 0 /\ i' <= Digits
  BY <1>1, <1>2
<1>13. Multiple(h', m + Total(Evens(e), i'))
  BY <1>1, <1>5, <1>9, <1>11, Zenon DEF f
<1>14. Multiple(h', 2^W * Total(Odds(e'), Digits) + Total(Evens(e'), i'))
  BY <1>1, <1>13, Zenon DEF m
<1> QED
  BY <1>1, <1>12, <1>14 DEF PInv, Multiple, Odds, Evens

\* A doubling, in which T is not read.
LEMMA DoubledIs ==
  ASSUME NEW u, NEW n \in Int, RepP2(u, Times(n, B)) \/ RepP3(u, Times(n, B))
  PROVE  /\ RepP2(P1P1ToP2(GeDbl(u)), Times(2 * n, B))
         /\ RepP3(P1P1ToP3(GeDbl(u)), Times(2 * n, B)) /\ 2 * n \in Int
<1> DEFINE p == Times(n, B)
<1>1. p \in Curve /\ Times(2 * n, B) = AffineAdd(p, p) /\ 2 * n \in Int
  <2>1. 2 * n = n + n /\ 2 * n \in Int /\ B \in Curve
    BY BaseAssumption
  <2>2. Times(n + n, B) = AffineAdd(p, p) /\ p \in Curve
    BY <2>1, TimesSum, TimesNext
  <2> QED
    BY <2>1, <2>2
<1> HIDE DEF p
<1>2. /\ u.X \in F /\ u.Y \in F /\ u.Z \in F /\ u.Z # 0
      /\ Same(u.X, p[1] * u.Z) /\ Same(u.Y, p[2] * u.Z)
  BY DEF RepP2, RepP3, p
<1>3. RepP1(GeDbl(u), AffineAdd(p, p))
  BY <1>1, <1>2, DoubleRep
<1> QED
  BY <1>1, <1>3, ConvertRep

LEMMA DoubleKeeps ==
  ASSUME BaseInv, PInv, DoubleOdd
  PROVE  PInv'
<1> DEFINE m == Total(Odds(e), Digits)
           n == 2^i * m
<1>1. /\ pc = "double" /\ e' = e /\ i \in 0 .. W - 1 /\ W \in Nat /\ 1 <= W
      /\ i = 0 => Multiple(h, m)
      /\ i > 0 => RepP2(h, Times(n, B))
      /\ h' = IF i < W - 1 THEN P1P1ToP2(GeDbl(h)) ELSE P1P1ToP3(GeDbl(h))
      /\ IF i < W - 1 THEN pc' = "double" /\ i' = i + 1 ELSE pc' = "even" /\ i' = 0
  BY BaseSizes DEF DoubleOdd, PInv, Go
<1>2. m \in Int /\ e \in [Places -> Int]
  BY <1>1, DigitsUsed, SumsNext
<1>3. i \in Nat /\ 2^i \in Int /\ 2^(i + 1) = 2 * 2^i
  BY <1>1, PowNext
<1>4. n \in Int /\ 2 * n = 2^(i + 1) * m
  <2> DEFINE x == 2^i
  <2>1. x \in Int /\ 2^(i + 1) = 2 * x
    BY <1>3
  <2> HIDE DEF x, m
  <2>2. x * m \in Int /\ 2 * (x * m) = (2 * x) * m
    BY <1>2, <2>1
  <2> QED
    BY <2>1, <2>2 DEF x
<1>5. RepP2(h, Times(n, B)) \/ RepP3(h, Times(n, B))
  <2>1. CASE i = 0
    <3>1. n = m
      BY <1>2, <2>1
    <3> QED
      BY <1>1, <2>1, <3>1 DEF Multiple
  <2> QED
    BY <1>1, <2>1
<1> HIDE DEF n, m
<1>6. /\ RepP2(P1P1ToP2(GeDbl(h)), Times(2 * n, B)) /\ RepP3(P1P1ToP3(GeDbl(h)), Times(2 * n, B))
      /\ 2 * n \in Int
  BY <1>4, <1>5, DoubledIs
<1>7. CASE i < W - 1
  <2>1. pc' = "double" /\ i' \in 0 .. W - 1 /\ i' > 0 /\ i' = i + 1
    BY <1>1, <1>7
  <2>2. RepP2(h', Times(2^(i + 1) * m, B))
    BY <1>1, <1>4, <1>6, <1>7
  <2>3. RepP2(h', Times(2^i' * Total(Odds(e'), Digits), B))
    BY <1>1, <2>1, <2>2, Zenon DEF m
  <2> QED
    BY <2>1, <2>3 DEF PInv, RepP2, Odds
<1>8. CASE ~(i < W - 1)
  <2>1. pc' = "even" /\ i' = 0 /\ i + 1 = W
    BY <1>1, <1>8
  <2>2. RepP3(h', Times(2^W * m, B)) /\ 2^W * m \in Int
    BY <1>1, <1>4, <1>6, <1>8, <2>1
  <2>3. Total(Evens(e), 0) = 0 /\ 0 <= Digits /\ Digits \in Nat
    BY <1>2, SumsNext, BaseSizes
  <2>4. 2^W * m + Total(Evens(e), 0) = 2^W * m
    BY <2>2, <2>3
  <2>5. Multiple(h', 2^W * m + Total(Evens(e), 0))
    BY <2>2, <2>4, Zenon DEF Multiple
  <2>6. Multiple(h', 2^W * Total(Odds(e'), Digits) + Total(Evens(e'), i'))
    BY <1>1, <2>1, <2>5, Zenon DEF m
  <2> QED
    BY <2>1, <2>3, <2>6 DEF PInv, Multiple, Odds, Evens
<1> QED
  BY <1>7, <1>8

LEMMA OddEndKeeps ==
  ASSUME BaseInv, PInv, OddEnds
  PROVE  PInv'
<1>1. /\ pc = "odd" /\ i >= Digits /\ pc' = "double" /\ i' = 0 /\ h' = h /\ e' = e
      /\ i \in Nat /\ i % 2 = 1 /\ i - 1 <= Digits /\ Multiple(h, Total(Odds(e), i - 1))
  BY DEF OddEnds, PInv, Go
<1>2. Digits \in Nat /\ Digits % 2 = 0 /\ W \in Nat /\ 1 <= W
  BY BaseSizes, DigitsAssumption
<1>3. i - 1 = Digits
  BY <1>1, <1>2
<1>4. Multiple(h', Total(Odds(e'), Digits))
  BY <1>1, <1>3, Zenon
<1>5. i' \in 0 .. W - 1 /\ i' = 0 /\ ~(i' > 0)
  BY <1>1, <1>2
<1> QED
  BY <1>1, <1>4, <1>5 DEF PInv, Multiple, Odds

LEMMA EvenEndKeeps ==
  ASSUME BaseInv, PInv, EvenEnds
  PROVE  PInv'
<1>1. /\ pc = "even" /\ i >= Digits /\ pc' = "done" /\ h' = h /\ a' = a /\ e \in [Places -> Int]
      /\ i \in Nat /\ i <= Digits /\ Multiple(h, 2^W * Total(Odds(e), Digits) + Total(Evens(e), i))
      /\ Total(Weighed(e), Digits) = a
  BY DigitsUsed DEF EvenEnds, PInv, Go
<1>2. i = Digits
  BY <1>1, BaseSizes
<1>3. Multiple(h, a)
  <2>1. Multiple(h, 2^W * Total(Odds(e), Digits) + Total(Evens(e), Digits))
    BY <1>1, <1>2, Zenon
  <2>2. 2^W * Total(Odds(e), Digits) + Total(Evens(e), Digits) = a
    BY <1>1, OddsAndEvens, Zenon
  <2> QED
    BY <2>1, <2>2, Zenon
<1> QED
  BY <1>1, <1>3 DEF PInv, Multiple

LEMMA AllEndKeeps ==
  ASSUME BaseInv, PInv, AllEnd
  PROVE  PInv'
<1>1. /\ pc = "all" /\ i >= Digits /\ pc' = "done" /\ h' = h /\ a' = a
      /\ i \in 1 .. Digits /\ Multiple(h, Total(Weighed(e), i)) /\ Total(Weighed(e), Digits) = a
  BY DigitsUsed DEF AllEnd, PInv, Go
<1>2. i = Digits
  BY <1>1, BaseSizes
<1>3. Multiple(h, a)
  BY <1>1, <1>2, Zenon
<1> QED
  BY <1>1, <1>3 DEF PInv, Multiple

LEMMA AllKeeps ==
  ASSUME BaseInv, PInv, AddNext
  PROVE  PInv'
<1>1. /\ pc = "all" /\ pc' = pc /\ i < Digits /\ i' = i + 1 /\ e' = e
      /\ h' = P1P1ToP3(GeMadd(h, ChooseT(i, e[i])))
      /\ i \in 1 .. Digits /\ Multiple(h, Total(Weighed(e), i))
  BY DEF AddNext, PInv
<1>2. Digits \in Nat /\ \A k : k \in Places <=> k \in Nat /\ k < Digits
  BY BaseSizes
<1>3. i \in Places /\ i > 0 /\ i' \in 1 .. Digits
  BY <1>1, <1>2
<1>4. e \in [Places -> Int] /\ e[i] \in Int /\ Abs(e[i]) <= Radix \div 2
  BY <1>1, <1>3, DigitsUsed
<1> DEFINE n == 2^(W * i)
           x == e[i]
           f == Weighed(e)
<1>5. ChooseT(i, e[i]) = Entry(n, x)
  BY <1>3 DEF ChooseT, Pow2
<1>6. n \in Int
  BY <1>2, <1>3, BaseSizes
<1>7. Total(f, i + 1) = Total(f, i) + x * n
  <2>1. f[i] = x * n
    BY <1>3 DEF Weighed
  <2> QED
    BY <1>3, <1>4, <2>1, SumsNext
<1> HIDE DEF n, x, f
<1>8. Multiple(P1P1ToP3(GeMadd(h, Entry(n, x))), Total(f, i) + x * n)
  BY <1>1, <1>4, <1>6, EntryAdds DEF f, x
<1>9. Multiple(h', Total(Weighed(e'), i'))
  BY <1>1, <1>5, <1>7, <1>8, Zenon DEF f
<1> QED
  BY <1>1, <1>3, <1>9 DEF PInv, Multiple, Weighed

LEMMA FirstKeeps ==
  ASSUME BaseInv, PInv, FirstEntry
  PROVE  PInv'
<1> DEFINE c == Entry(Pow2(W * 0), e[0])
           t == ChooseT(0, e[0])
           p == Times(e[0], B)
           v == Over(c.xy2d, D)
<1>1. /\ pc = "first" /\ pc' = "all" /\ i' = 1 /\ e' = e
      /\ h' = [X |-> t.yplusx (-) t.yminusx, Y |-> t.yplusx (+) t.yminusx, Z |-> 2, T |-> t.xy2d]
  BY DEF FirstEntry, Go
<1>2. 0 \in Places /\ Digits \in Nat /\ 2 <= Digits /\ W \in Nat
  BY BaseSizes
<1>3. e \in [Places -> Int] /\ e[0] \in Int /\ Abs(e[0]) <= Radix \div 2
  BY <1>1, <1>2, DigitsUsed
<1>4. RepPre(c, p) /\ Total(Weighed(e), 1) = e[0]
  <2>1. Pow2(W * 0) = 1 /\ 1 \in Int /\ W * 0 = 0 /\ 2^0 = 1
    <3>1. W * 0 = 0 /\ 2^0 = 1 /\ 1 \in Int
      BY <1>2
    <3> QED
      BY <3>1, Zenon DEF Pow2
  <2>2. RepPre(c, Times(e[0] * 1, B))
    BY <1>3, <2>1, EntryRep
  <2>3. e[0] * 1 = e[0]
    BY <1>3
  <2>4. Weighed(e)[0] = e[0] * 1
    BY <1>2, <2>1 DEF Weighed
  <2>5. Total(Weighed(e), 0) = 0 /\ Total(Weighed(e), 0 + 1) = Total(Weighed(e), 0) + Weighed(e)[0]
    BY <1>2, <1>3, SumsNext
  <2>6. Total(Weighed(e), 0 + 1) = 0 + e[0]
    BY <2>3, <2>4, <2>5, Zenon
  <2> QED
    BY <1>3, <2>2, <2>3, <2>6
<1>5. /\ c \in [yplusx : F, yminusx : F, xy2d : F] /\ p \in Curve
      /\ Same(c.yplusx, p[2] + p[1]) /\ Same(c.yminusx, p[2] - p[1])
      /\ Same(c.xy2d, (2 * D) * (p[1] * p[2]))
  BY <1>4 DEF RepPre
<1>6. t = [c EXCEPT !.xy2d = Over(@, D)]
  BY DEF ChooseT
<1>7. t.yplusx = c.yplusx /\ t.yminusx = c.yminusx /\ t.xy2d = v
  <2> HIDE DEF c, t
  <2> QED
    BY <1>5, <1>6 DEF v
<1> HIDE DEF c, t, p
<1>8. /\ c.yplusx \in F /\ c.yminusx \in F /\ c.xy2d \in F
      /\ p[1] \in Int /\ p[2] \in Int /\ p[1] \in F /\ p[2] \in F
  BY <1>5, PointIs
<1>9. D \in F /\ D # 0 /\ D \in Int
  BY FieldAssumption, Prime
<1>10. v \in F /\ Same(v, (p[1] * p[2]) * 2)
  <2> DEFINE w == 2 (.) (p[1] (.) p[2])
             x == p[1]
             y == p[2]
  <2>1. 2 \in F /\ x \in F /\ y \in F /\ Same(2, 2) /\ Same(x, x) /\ Same(y, y) /\ Same(D, D)
    BY <1>8, <1>9, Prime, SameFacts
  <2>2. x (.) y \in F /\ Same(x (.) y, x * y)
    BY <2>1, SameValues
  <2>3. w \in F /\ Same(w, 2 * (x * y))
    BY <2>1, <2>2, SameValues
  <2> HIDE DEF w
  <2>4. Same(w * D, (2 * (x * y)) * D)
    BY <1>9, <2>1, <2>3, SameOperations
  <2>5. (2 * (x * y)) * D = (2 * D) * (x * y) /\ 2 * (x * y) = (x * y) * 2
    <3> HIDE DEF x, y
    <3>1. x \in Int /\ y \in Int
      BY <1>8 DEF x, y
    <3> QED
      BY <1>9, <3>1
  <2>6. Same(c.xy2d, (2 * (x * y)) * D)
    BY <1>5, <2>5, Zenon
  <2>7. Same(w * D, c.xy2d)
    BY <2>4, <2>6, SameTrans, SameSym
  <2>8. v = w
    BY <1>8, <1>9, <2>3, <2>7, Quotient
  <2> QED
    BY <2>3, <2>5, <2>8
<1> HIDE DEF v
<1>11. /\ c.yplusx (-) c.yminusx \in F /\ Same(c.yplusx (-) c.yminusx, p[1] * 2)
       /\ c.yplusx (+) c.yminusx \in F /\ Same(c.yplusx (+) c.yminusx, p[2] * 2)
  <2>1. /\ c.yplusx (-) c.yminusx \in F /\ c.yplusx (+) c.yminusx \in F
        /\ Same(c.yplusx (-) c.yminusx, (p[2] + p[1]) - (p[2] - p[1]))
        /\ Same(c.yplusx (+) c.yminusx, (p[2] + p[1]) + (p[2] - p[1]))
    BY <1>5, <1>8, SameValues
  <2>2. (p[2] + p[1]) - (p[2] - p[1]) = p[1] * 2 /\ (p[2] + p[1]) + (p[2] - p[1]) = p[2] * 2
    BY <1>8
  <2> QED
    BY <2>1, <2>2
<1>12. 2 \in F \ {0}
  BY Prime
<1>13. RepP3(h', p)
  <2>1. h' = [X |-> c.yplusx (-) c.yminusx, Y |-> c.yplusx (+) c.yminusx, Z |-> 2, T |-> v]
    BY <1>1, <1>7, Zenon
  <2> DEFINE x == c.yplusx (-) c.yminusx
             y == c.yplusx (+) c.yminusx
  <2>2. x \in F /\ y \in F /\ Same(x, p[1] * 2) /\ Same(y, p[2] * 2)
    BY <1>11
  <2>3. h' = [X |-> x, Y |-> y, Z |-> 2, T |-> v]
    BY <2>1
  <2> HIDE DEF x, y
  <2> QED
    BY <1>5, <1>10, <1>12, <2>2, <2>3 DEF RepP3
<1>14. Multiple(h', Total(Weighed(e'), i'))
  BY <1>1, <1>3, <1>4, <1>13 DEF Multiple, p
<1>15. i' \in 1 .. Digits
  BY <1>1, <1>2
<1> QED
  BY <1>1, <1>14, <1>15 DEF PInv, Multiple, Weighed

LEMMA PointKeeps ==
  ASSUME BaseInv, PInv, [BaseNext]_baseVars
  PROVE  PInv'
<1>1. CASE RecodeRef10 \/ RecodeAmd64
  BY <1>1 DEF RecodeRef10, RecodeAmd64, PInv
<1>2. CASE UNCHANGED baseVars
  BY <1>2 DEF PInv, baseVars, Multiple, RepP3, RepP2, Odds, Evens, Weighed
<1> QED
  BY <1>1, <1>2, BaseStepKeeps, LastStarts, OddKeeps, OddEndKeeps, DoubleKeeps, EvenKeeps, EvenEndKeeps,
     FirstKeeps, AllKeeps, AllEndKeeps DEF BaseNext, BaseReturned

LEMMA PointKept == BaseSpec => [](BaseInv /\ PInv)
<1>1. BaseInit => PInv
  BY DEF BaseInit, PInv
<1> QED
  BY <1>1, BaseInitially, BaseStepKeeps, PointKeeps, PTL DEF BaseSpec

\* ge_scalarmult_base and ge25519_scalarmult_base return the multiple of the base point that
\* the scalar says, as a point in extended coordinates: by two tables of digits and doublings
\* between them in one library, and by a table for every digit in the other.
THEOREM BaseMultiple == BaseSpec => []ResultIsMultiple
<1>1. ASSUME PInv PROVE ResultIsMultiple
  <2>1. ASSUME pc = "done"
        PROVE  /\ h.Z # 0 /\ h.X (.) h.Y = h.Z (.) h.T
               /\ <<Over(h.X, h.Z), Over(h.Y, h.Z)>> = Times(a, B)
    <3>1. RepP3(h, Times(a, B))
      BY <1>1, <2>1 DEF PInv, Multiple
    <3>2. h.Z # 0
      BY <3>1 DEF RepP3
    <3> QED
      BY <3>1, <3>2, ValueIs
  <2> QED
    BY <2>1 DEF ResultIsMultiple
<1> QED
  BY <1>1, PointKept, PTL

\* Wherever T is read it is the product that the other coordinates say: after the first entry,
\* which is made by hand, and after the doublings that leave none.
THEOREM BaseExtended == BaseSpec => []ExtendedWhenRead
<1>1. ASSUME PInv PROVE ExtendedWhenRead
  <2>1. ASSUME pc \in {"odd", "even", "all"}
        PROVE  h.Z # 0 /\ h.X (.) h.Y = h.Z (.) h.T
    <3>1. PICK p : RepP3(h, p)
      BY <1>1, <2>1 DEF PInv, Multiple
    <3>2. h.Z # 0
      BY <3>1 DEF RepP3
    <3> QED
      BY <3>1, <3>2, ValueIs
  <2> QED
    BY <2>1 DEF ExtendedWhenRead
<1> QED
  BY <1>1, PointKept, PTL
-----------------------------------------------------------------------------
(***************************************************************************)
(* The points of Ed25519.tla are those of a curve, by their index: the     *)
(* factor of a generator.  Its Encode, Decode, BaseMul, Negate and         *)
(* DoubleMul are the functions of Edwards on points with that index.       *)
(***************************************************************************)
\* What Ed25519 has and a curve leaves free.
CONSTANTS Hash(_), SkAt, PkAt, SigAt, MsgAt, MsgLens, RandomWords, AppWords
VARIABLES mem, ret, keys, made

Indices == 0 .. Points - 1

Generates(g) == B = Times(8, g) /\ \A p \in Curve : \E k \in Indices : Times(k, g) = p

\* The group is cyclic and B eight times a generator, as the base point of Curve25519 is.
Cyclic == (\E g \in Curve : Generates(g)) /\ Points % 8 = 0

Generator == CHOOSE g \in Curve : Generates(g)

PointAt(k) == Times(k, Generator)
IndexOf(p) == CHOOSE k \in Indices : PointAt(k) = p

\* The bytes of the point with index k, and the index of the point that bytes decode to.
\* What the decoders return is the negative.
EncodeAt(k) == ToBytes(Scaled(PointAt(k), 1))
DecodeAt(w) ==
  IF FromBytesNegate(w).ok THEN IndexOf(AffineNeg(ValueOf("p3", FromBytesNegate(w).point))) ELSE -1

\* 8E is a word's bound, 8L the number of points.
Api == INSTANCE Ed25519 WITH
         E <- Pow2(FieldBits - 2), L <- Points \div 8, Encode <- EncodeAt, Decode <- DecodeAt

\* A generator reaches as many points as there are indices, so each by one of them.
LEMMA IndexIs ==
  ASSUME Cyclic
  PROVE  /\ Generator \in Curve /\ B = Times(8, Generator)
         /\ \A k \in Int : PointAt(k) \in Curve
         /\ \A p \in Curve : IndexOf(p) \in Indices /\ PointAt(IndexOf(p)) = p
         /\ \A k \in Indices : IndexOf(PointAt(k)) = k
<1>1. Generator \in Curve /\ Generates(Generator)
  BY DEF Cyclic, Generator
<1>2. Points \in Nat \ {0}
  BY PointsIs
<1>3. \A k \in Int : PointAt(k) \in Curve
  BY <1>1, TimesNext DEF PointAt
<1>4. \A p \in Curve : \E k \in Indices : PointAt(k) = p
  BY <1>1 DEF Generates, PointAt
<1>5. \A p \in Curve : IndexOf(p) \in Indices /\ PointAt(IndexOf(p)) = p
  BY <1>4 DEF IndexOf
<1>6. \A k \in Indices : k \in Int
  BY <1>2 DEF Indices
<1> DEFINE f == [k \in Indices |-> PointAt(k)]
<1>7. f \in Surjection(Indices, Curve)
  BY <1>3, <1>4, <1>6 DEF Surjection
<1>8. IsFiniteSet(Indices) /\ Cardinality(Indices) = Points
  BY <1>2, FS_Interval DEF Indices
<1>9. f \in Injection(Indices, Curve)
  BY <1>7, <1>8, FS_Surjection DEF Points
<1>10. \A j, k \in Indices : PointAt(j) = PointAt(k) => j = k
  <2>1. \A j, k \in Indices : f[j] = f[k] => j = k
    BY <1>9, Zenon DEF Injection, IsInjective
  <2>2. \A k \in Indices : f[k] = PointAt(k)
    OBVIOUS
  <2> QED
    BY <2>1, <2>2
<1>11. \A k \in Indices : IndexOf(PointAt(k)) = k
  BY <1>3, <1>5, <1>6, <1>10
<1> QED
  BY <1>1, <1>3, <1>5, <1>11 DEF Generates

LEMMA NegNeg ==
  ASSUME NEW p \in Curve
  PROVE  AffineNeg(p) \in Curve /\ AffineNeg(AffineNeg(p)) = p
<1>1. p[1] \in F /\ p = <<p[1], p[2]>>
  BY PointIs
<1>2. Neg(Neg(p[1])) = p[1]
  BY <1>1, Signs
<1> QED
  BY <1>1, <1>2, AddNegative DEF AffineNeg

LEMMA TimesOne == ASSUME NEW x \in F PROVE x (.) 1 = x
<1>1. x \in Nat /\ x < P /\ P \in Nat \ {0} /\ x * 1 = x
  BY Prime
<1> QED
  BY <1>1, SmallDiv DEF (.)

\* Bytes do not depend on the representation, whatever its Z.
LEMMA EncodedAt ==
  ASSUME NEW p \in Curve, NEW u, RepP3(u, p)
  PROVE  ToBytes(u) \in Words /\ PointsOf(ToBytes(u)) = {p} /\ ToBytes(u) = ToBytes(Scaled(p, 1))
<1>1. p[1] \in F /\ p[2] \in F /\ p[1] \in Int /\ p[2] \in Int
  BY PointIs
<1>2. 1 \in F \ {0} /\ p[1] (.) 1 = p[1] /\ p[2] (.) 1 = p[2] /\ p[1] * 1 = p[1] /\ p[2] * 1 = p[2]
  BY <1>1, Prime, TimesOne
<1>3. Same(p[1], p[1] * 1) /\ Same(p[2], p[2] * 1)
  BY <1>1, <1>2, SameFacts
<1> DEFINE v == Scaled(p, 1)
<1>4. v.X = p[1] /\ v.Y = p[2] /\ v.Z = 1
  BY <1>2 DEF Scaled
<1> HIDE DEF v
<1>5. /\ ToBytes(v) \in Words /\ PointsOf(ToBytes(v)) = {p}
      /\ \A w \in Words : p \in PointsOf(w) => ToBytes(v) <= w
  <2>1. v.X \in F /\ v.Y \in F /\ v.Z \in F \ {0} /\ Same(v.X, p[1] * v.Z) /\ Same(v.Y, p[2] * v.Z)
    BY <1>1, <1>2, <1>3, <1>4
  <2> QED
    BY <2>1, EncodeIs
<1>6. /\ ToBytes(u) \in Words /\ PointsOf(ToBytes(u)) = {p}
      /\ \A w \in Words : p \in PointsOf(w) => ToBytes(u) <= w
  <2>1. u.X \in F /\ u.Y \in F /\ u.Z \in F \ {0} /\ Same(u.X, p[1] * u.Z) /\ Same(u.Y, p[2] * u.Z)
    BY DEF RepP3
  <2> QED
    BY <2>1, EncodeIs
<1>7. ToBytes(u) <= ToBytes(v) /\ ToBytes(v) <= ToBytes(u)
  BY <1>5, <1>6
<1>8. ToBytes(u) \in Nat /\ ToBytes(v) \in Nat
  BY <1>5, <1>6, WordIs
<1> QED
  BY <1>6, <1>7, <1>8 DEF v

LEMMA UnitScaled == ASSUME NEW p \in Curve PROVE RepP3(Scaled(p, 1), p)
<1>1. p[1] \in F /\ p[2] \in F /\ p[1] \in Int /\ p[2] \in Int /\ p = <<p[1], p[2]>>
  BY PointIs
<1>2. p[1] (.) 1 = p[1] /\ p[2] (.) 1 = p[2]
  BY <1>1, TimesOne
<1>3. p[1] (.) p[2] \in F
  BY <1>1, SameFacts, SameValues
<1>4. (p[1] (.) p[2]) (.) 1 = p[1] (.) p[2]
  BY <1>3, TimesOne
<1> QED
  BY <1>1, <1>2, <1>4, PairRep DEF Scaled

\* Decoding refuses just the words that stand for no point.
LEMMA DecodedAt ==
  ASSUME Cyclic, NEW w \in Words
  PROVE  \/ /\ FromBytesNegate(w).ok = TRUE /\ DecodeAt(w) \in Indices
            /\ PointAt(DecodeAt(w)) \in PointsOf(w)
            /\ RepP3(FromBytesNegate(w).point, AffineNeg(PointAt(DecodeAt(w))))
         \/ FromBytesNegate(w).ok = FALSE /\ DecodeAt(w) = -1 /\ PointsOf(w) = {}
<1> DEFINE d == FromBytesNegate(w)
<1>1. CASE d.ok = TRUE /\ \E p \in PointsOf(w) : RepP3(d.point, AffineNeg(p))
  <2>1. PICK p \in PointsOf(w) : RepP3(d.point, AffineNeg(p))
    BY <1>1
  <2>2. p \in Curve
    BY DenotedIs
  <2>3. ValueOf("p3", d.point) = AffineNeg(p)
    BY <2>1, ValueStands DEF Stands
  <2>4. DecodeAt(w) = IndexOf(p)
    BY <1>1, <2>2, <2>3, NegNeg DEF DecodeAt
  <2> QED
    BY <1>1, <2>1, <2>2, <2>4, IndexIs
<1>2. CASE d.ok = FALSE /\ PointsOf(w) = {}
  BY <1>2 DEF DecodeAt
<1> QED
  BY <1>1, <1>2, DecodeIs

\* The sizes of Ed25519, in terms of the curve.
LEMMA ApiSizes ==
  ASSUME Points % 8 = 0
  PROVE  Api!Words = Words /\ Api!N = Points /\ Api!Points = Indices /\ Api!NoPoint = -1
<1>1. FieldBits \in Nat /\ P < Pow2(FieldBits) /\ 5 <= P /\ P \in Nat
  BY FieldAssumption, Prime
<1>2. Pow2(0) = 1 /\ Pow2(1) = 2
  BY PowNext DEF Pow2
<1>3. FieldBits # 0 /\ FieldBits # 1
  BY <1>1, <1>2
<1>4. FieldBits - 2 \in Nat
  BY <1>1, <1>3
<1> DEFINE n == FieldBits - 2
<1>5. Pow2(n + 1) = 2 * Pow2(n) /\ Pow2((n + 1) + 1) = 2 * Pow2(n + 1)
      /\ Pow2(((n + 1) + 1) + 1) = 2 * Pow2((n + 1) + 1) /\ Pow2(n) \in Nat
  BY <1>4, PowNext, PowPositive DEF Pow2
<1>6. ((n + 1) + 1) + 1 = FieldBits + 1
  BY <1>1
<1>7. Pow2(FieldBits + 1) = 8 * Pow2(FieldBits - 2)
  BY <1>5, <1>6
<1>8. Points \in Nat
  BY PointsIs
<1>9. 8 * (Points \div 8) = Points
  BY <1>8
<1> QED
  BY <1>7, <1>9 DEF Api!Words, Api!N, Api!Points, Api!NoPoint, Words, Indices

\* What Ed25519 assumes of ge_p3_tobytes and ge_frombytes_negate_vartime is true of them: bytes
\* decode to the point they were made of, and other words to a point or to none.
THEOREM CodecOfCurve == Cyclic => Api!CodecAssumption
<1> SUFFICES ASSUME Cyclic PROVE Api!CodecAssumption
  OBVIOUS
<1>1. Api!Words = Words /\ Api!Points = Indices /\ Api!NoPoint = -1
  BY ApiSizes DEF Cyclic
<1>2. ASSUME NEW k \in Indices
      PROVE  EncodeAt(k) \in Words /\ DecodeAt(EncodeAt(k)) = k
  <2>1. k \in Int
    BY PointsIs DEF Indices
  <2>2. PointAt(k) \in Curve
    BY <2>1, IndexIs
  <2>3. EncodeAt(k) \in Words /\ PointsOf(EncodeAt(k)) = {PointAt(k)}
    BY <2>2, UnitScaled, EncodedAt DEF EncodeAt
  <2>4. DecodeAt(EncodeAt(k)) \in Indices /\ PointAt(DecodeAt(EncodeAt(k))) = PointAt(k)
    BY <2>3, DecodedAt
  <2> QED
    BY <2>3, <2>4, IndexIs
<1>3. ASSUME NEW w \in Words PROVE DecodeAt(w) \in Indices \cup {-1}
  BY DecodedAt
<1> QED
  BY <1>1, <1>2, <1>3, Zenon DEF Api!CodecAssumption

\* Indices count modulo the number of points.
LEMMA PointAtMod == ASSUME Cyclic, NEW n \in Int PROVE PointAt(n % Points) = PointAt(n)
<1>1. Points \in Nat \ {0}
  BY PointsIs
<1>2. n % Points \in Int /\ n \div Points \in Int /\ n = Points * (n \div Points) + (n % Points)
  BY <1>1, DivMod
<1>3. n = (n % Points) + Points * (n \div Points)
  BY <1>1, <1>2
<1>4. Times((n % Points) + Points * (n \div Points), Generator) = Times(n % Points, Generator)
  BY <1>2, IndexIs, TimesNext
<1> QED
  BY <1>3, <1>4 DEF PointAt

\* The arithmetic of indices in Ed25519 is that of points: BaseMul is a multiple of the base
\* point, Negate what the decoder adds to decoding, and DoubleMul the sum that
\* ge_double_scalarmult_vartime returns (LadderSum); every struct that stands for a point has the
\* bytes of its index.
THEOREM GroupOfCurve ==
  ASSUME Cyclic
  PROVE  /\ \A n \in Int : PointAt(Api!BaseMul(n)) = Times(n, B)
         /\ \A k \in Indices : PointAt(Api!Negate(k)) = AffineNeg(PointAt(k))
         /\ \A j, n \in Int, k \in Indices :
              PointAt(Api!DoubleMul(j, k, n)) = AffineAdd(Times(j, PointAt(k)), Times(n, B))
         /\ \A k \in Indices : \A u : RepP3(u, PointAt(k)) => ToBytes(u) = EncodeAt(k)
         /\ \A w \in Words :
              IF DecodeAt(w) = Api!NoPoint THEN FromBytesNegate(w).ok = FALSE
              ELSE /\ FromBytesNegate(w).ok = TRUE
                   /\ RepP3(FromBytesNegate(w).point, PointAt(Api!Negate(DecodeAt(w))))
<1>1. Api!N = Points /\ Api!NoPoint = -1 /\ Points \in Nat \ {0} /\ Indices \subseteq Nat
  BY ApiSizes, PointsIs DEF Cyclic, Indices
<1>2. Generator \in Curve /\ B = Times(8, Generator)
  BY IndexIs
<1>3. \A n \in Int : PointAt(8 * n) = Times(n, B) /\ PointAt(n * 8) = Times(n, B)
  <2>1. ASSUME NEW n \in Int PROVE Times(n * 8, Generator) = Times(n, Times(8, Generator)) /\ 8 * n = n * 8
    BY <1>2, TimesTimes
  <2> QED
    BY <1>2, <2>1 DEF PointAt
<1>4. ASSUME NEW n \in Int PROVE PointAt(Api!BaseMul(n)) = Times(n, B)
  <2>1. 8 * n \in Int
    OBVIOUS
  <2>2. PointAt((8 * n) % Points) = PointAt(8 * n)
    BY <2>1, PointAtMod
  <2> QED
    BY <1>1, <1>3, <2>2 DEF Api!BaseMul
<1>5. ASSUME NEW k \in Indices PROVE PointAt(Api!Negate(k)) = AffineNeg(PointAt(k))
  <2>1. k \in Int /\ Points - k \in Int /\ -k \in Int /\ Points - k = -k + Points * 1
    BY <1>1
  <2>2. PointAt((Points - k) % Points) = PointAt(Points - k)
    BY <2>1, PointAtMod
  <2>3. Times(-k + Points * 1, Generator) = Times(-k, Generator)
    BY <1>2, <2>1, TimesNext
  <2>4. AffineNeg(Times(k, Generator)) = Times(-k, Generator)
    BY <1>2, <2>1, TimesSum
  <2> QED
    BY <1>1, <2>1, <2>2, <2>3, <2>4 DEF Api!Negate, PointAt
<1>6. ASSUME NEW j \in Int, NEW n \in Int, NEW k \in Indices
      PROVE  PointAt(Api!DoubleMul(j, k, n)) = AffineAdd(Times(j, PointAt(k)), Times(n, B))
  <2>1. k \in Int /\ j * k \in Int /\ n * 8 \in Int /\ j * k + n * 8 \in Int
    BY <1>1
  <2>2. PointAt((j * k + n * 8) % Points) = PointAt(j * k + n * 8)
    BY <2>1, PointAtMod
  <2>3. PointAt(j * k + n * 8) = AffineAdd(PointAt(j * k), PointAt(n * 8))
    BY <1>2, <2>1, TimesSum DEF PointAt
  <2>4. PointAt(j * k) = Times(j, PointAt(k))
    BY <1>2, <2>1, TimesTimes DEF PointAt
  <2> QED
    BY <1>1, <1>3, <2>2, <2>3, <2>4 DEF Api!DoubleMul
<1>7. ASSUME NEW k \in Indices, NEW u, RepP3(u, PointAt(k)) PROVE ToBytes(u) = EncodeAt(k)
  <2>1. PointAt(k) \in Curve
    BY <1>1, IndexIs
  <2> QED
    BY <1>7, <2>1, EncodedAt DEF EncodeAt
<1>8. ASSUME NEW w \in Words
      PROVE  IF DecodeAt(w) = -1 THEN FromBytesNegate(w).ok = FALSE
             ELSE /\ FromBytesNegate(w).ok = TRUE
                  /\ RepP3(FromBytesNegate(w).point, PointAt(Api!Negate(DecodeAt(w))))
  <2>1. CASE DecodeAt(w) = -1
    <3>1. -1 \notin Indices
      BY <1>1
    <3> QED
      BY <2>1, <3>1, DecodedAt
  <2>2. CASE DecodeAt(w) # -1
    <3>1. /\ FromBytesNegate(w).ok = TRUE /\ DecodeAt(w) \in Indices
          /\ RepP3(FromBytesNegate(w).point, AffineNeg(PointAt(DecodeAt(w))))
      BY <2>2, DecodedAt
    <3> QED
      BY <2>2, <3>1, <1>5
  <2> QED
    BY <2>1, <2>2
<1> QED
  BY <1>1, <1>4, <1>5, <1>6, <1>7, <1>8
=============================================================================
