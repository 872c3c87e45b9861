-------------------------- MODULE FieldLimbsProofs --------------------------
(***************************************************************************)
(* No call of fe_* overflows at the size of fe.h, every element keeps      *)
(* within the bounds that the comments of fe_mul.c and the others promise, *)
(* and stands for the number modulo 2^255 - 19 that it should.  Its bytes  *)
(* are those of that number, and what fe_isnegative, fe_isnonzero and      *)
(* crypto_verify_32 return is true of it.                                  *)
(***************************************************************************)
EXTENDS FieldLimbs, NumberTheorems, TLAPS

\* The constants of ref10; of int64 only that it holds more than 4 * 10^18.
RealSize ==
  /\ N = 10
  /\ W = [k \in 0 .. 9 |-> IF k % 2 = 1 THEN 25 ELSE 26]
  /\ Radix = [k \in 0 .. 9 |-> IF k % 2 = 1 THEN 33554432 ELSE 67108864]
  /\ Red = 19 /\ ByteBits = 8 /\ Bytes = 32
  /\ Unit = 33889976 /\ MulBound = 110729625 /\ ToBytesBound = 73819750
  /\ IntMax = 2147483647
  /\ LongMax \in Nat /\ 4000000000000000000 <= LongMax

\* The largest a limb before carries may be, after a carry into it, and so on.
Raw     == 3500000000000000000
Filled  == 3600000000000000000
Loaded3 == 3000000000000
Tidy(k)    == IF Odd(k) THEN 16777216 ELSE 33554432
Settled(k) == IF Odd(k) THEN 16944988 ELSE 33889976

\* What bounds the limbs before the p-th carry of a product, limb by limb.
MulSize(p) ==
  [k \in 0 .. 9 |->
    CASE k = 0 -> IF p <= 1 THEN Raw ELSE IF p = 12 THEN Loaded3 ELSE Tidy(0)
      [] k = 1 -> IF p <= 1 THEN Raw ELSE IF p <= 3 THEN Filled
                  ELSE IF p <= 12 THEN Tidy(1) ELSE Settled(1)
      [] k = 2 -> IF p <= 3 THEN Raw ELSE IF p <= 5 THEN Filled ELSE Tidy(2)
      [] k = 3 -> IF p <= 5 THEN Raw ELSE IF p <= 7 THEN Filled ELSE Tidy(3)
      [] k = 4 -> IF p <= 2 THEN Raw
                  ELSE IF p <= 7 THEN Tidy(4) ELSE IF p <= 9 THEN Loaded3 ELSE Tidy(4)
      [] k = 5 -> IF p <= 2 THEN Raw ELSE IF p <= 4 THEN Filled
                  ELSE IF p <= 9 THEN Tidy(5) ELSE Settled(5)
      [] k = 6 -> IF p <= 4 THEN Raw ELSE IF p <= 6 THEN Filled ELSE Tidy(6)
      [] k = 7 -> IF p <= 6 THEN Raw ELSE IF p <= 8 THEN Filled ELSE Tidy(7)
      [] k = 8 -> IF p <= 8 THEN Raw ELSE IF p <= 10 THEN Filled ELSE Tidy(8)
      [] OTHER -> IF p <= 10 THEN Raw ELSE IF p <= 11 THEN Filled ELSE Tidy(9)]

\* The same of fe_frombytes, from the numbers of up to four bytes that are loaded.
Read == 4294967296

FromBytesSize(p) ==
  [k \in 0 .. 9 |->
    CASE k = 9        -> IF p <= 1 THEN Read ELSE IF p <= 10 THEN Tidy(9) ELSE Settled(9)
      [] k % 2 = 0    -> IF p <= k \div 2 + 1 THEN Read
                         ELSE IF p <= k \div 2 + 6 THEN Loaded3 ELSE Tidy(k)
      [] OTHER        -> IF p <= (k + 3) \div 2 THEN Read
                         ELSE IF p <= (k + 11) \div 2 THEN Tidy(k) ELSE Settled(k)]

In(v, k, b) == -b <= v[k] /\ v[k] <= b

LEMMA OrdersReal ==
  ASSUME RealSize
  PROVE  /\ DOMAIN MulOrder = 1 .. 12
         /\ MulOrder[1] = 0 /\ MulOrder[2] = 4 /\ MulOrder[3] = 1 /\ MulOrder[4] = 5
         /\ MulOrder[5] = 2 /\ MulOrder[6] = 6 /\ MulOrder[7] = 3 /\ MulOrder[8] = 7
         /\ MulOrder[9] = 4 /\ MulOrder[10] = 8 /\ MulOrder[11] = 9 /\ MulOrder[12] = 0
         /\ DOMAIN FromBytesOrder = 1 .. 10
         /\ FromBytesOrder[1] = 9 /\ FromBytesOrder[2] = 1 /\ FromBytesOrder[3] = 3
         /\ FromBytesOrder[4] = 5 /\ FromBytesOrder[5] = 7 /\ FromBytesOrder[6] = 0
         /\ FromBytesOrder[7] = 2 /\ FromBytesOrder[8] = 4 /\ FromBytesOrder[9] = 6
         /\ FromBytesOrder[10] = 8
  BY SMT DEF RealSize, MulOrder, FromBytesOrder, Odd, Half

LEMMA CarriedReal ==
  ASSUME RealSize, NEW v \in [0 .. 9 -> Int], NEW n \in 0 .. 9, NEW c \in Int
  PROVE  /\ Carried(v, n, c) \in [0 .. 9 -> Int]
         /\ Carried(v, n, c)[n] = v[n] - c * Radix[n]
         /\ n < 9 => Carried(v, n, c)[n + 1] = v[n + 1] + c
         /\ n = 9 => Carried(v, n, c)[0] = v[0] + c * 19
         /\ \A k \in 0 .. 9 :
              k # n /\ k # n + 1 /\ ~(n = 9 /\ k = 0) => Carried(v, n, c)[k] = v[k]
<1>1. Limbs = 0 .. 9 /\ N = 10 /\ Red = 19 /\ Radix[n] \in Int
  BY SMT DEF RealSize, Limbs
<1> QED
  BY <1>1, SMT DEF Carried

\* The rounding carry out of a limb x, and what it leaves.
LEMMA CarryRounds ==
  ASSUME RealSize, NEW n \in 0 .. 9, NEW x \in Int
  PROVE  LET c == (x + Radix[n] \div 2) \div Radix[n]
         IN /\ c \in Int
            /\ -Tidy(n) <= x - c * Radix[n] /\ x - c * Radix[n] <= Tidy(n)
<1>1. CASE n % 2 = 1
  <2>1. Radix[n] = 33554432 /\ Radix[n] \div 2 = 16777216 /\ Tidy(n) = 16777216
    BY <1>1, SMT DEF RealSize, Tidy, Odd
  <2> QED
    BY <2>1, SMT
<1>2. CASE n % 2 # 1
  <2>1. Radix[n] = 67108864 /\ Radix[n] \div 2 = 33554432 /\ Tidy(n) = 33554432
    BY <1>2, SMT DEF RealSize, Tidy, Odd
  <2> QED
    BY <2>1, SMT
<1> QED
  BY <1>1, <1>2

Far  == 110000000000
Near == 90000

LEMMA CarrySize ==
  ASSUME RealSize, NEW n \in 0 .. 9, NEW x \in Int
  PROVE  LET c == (x + Radix[n] \div 2) \div Radix[n]
         IN /\ -Filled <= x /\ x <= Filled => -Far <= c /\ c <= Far
            /\ -Loaded3 <= x /\ x <= Loaded3 => -Near <= c /\ c <= Near
<1>1. CASE n % 2 = 1
  <2>1. Radix[n] = 33554432 /\ Radix[n] \div 2 = 16777216
    BY <1>1, SMT DEF RealSize
  <2> QED
    BY <2>1, SMT DEF Filled, Far, Loaded3, Near
<1>2. CASE n % 2 # 1
  <2>1. Radix[n] = 67108864 /\ Radix[n] \div 2 = 33554432
    BY <1>2, SMT DEF RealSize
  <2> QED
    BY <2>1, SMT DEF Filled, Far, Loaded3, Near
<1> QED
  BY <1>1, <1>2

\* How far a carry out of a limb of that size reaches.
Reach(b) == IF b <= Loaded3 THEN Near ELSE Far

\* Where s bounds the limbs before a carry out of limb n, t bounds them after it.
Fits(s, t, n) ==
  /\ \A k \in 0 .. 9 : s[k] \in Nat /\ t[k] \in Nat
  /\ s[n] <= Filled
  /\ Tidy(n) <= t[n]
  /\ n < 9 => s[n + 1] + Reach(s[n]) <= t[n + 1]
  /\ n = 9 => s[0] + 19 * Reach(s[n]) <= t[0]
  /\ \A k \in 0 .. 9 : k # n /\ k # n + 1 /\ ~(n = 9 /\ k = 0) => s[k] <= t[k]

LEMMA MulFits ==
  ASSUME RealSize
  PROVE  \A p \in 1 .. 12 : Fits(MulSize(p), MulSize(p + 1), MulOrder[p])
<1> USE DEF Fits, MulSize, Reach, Tidy, Settled, Raw, Filled, Loaded3, Far, Near, Odd
<1>1. Fits(MulSize(1), MulSize(2), 0) BY SMT
<1>2. Fits(MulSize(2), MulSize(3), 4) BY SMT
<1>3. Fits(MulSize(3), MulSize(4), 1) BY SMT
<1>4. Fits(MulSize(4), MulSize(5), 5) BY SMT
<1>5. Fits(MulSize(5), MulSize(6), 2) BY SMT
<1>6. Fits(MulSize(6), MulSize(7), 6) BY SMT
<1>7. Fits(MulSize(7), MulSize(8), 3) BY SMT
<1>8. Fits(MulSize(8), MulSize(9), 7) BY SMT
<1>9. Fits(MulSize(9), MulSize(10), 4) BY SMT
<1>10. Fits(MulSize(10), MulSize(11), 8) BY SMT
<1>11. Fits(MulSize(11), MulSize(12), 9) BY SMT
<1>12. Fits(MulSize(12), MulSize(13), 0) BY SMT
<1>13. \A p \in 1 .. 12 :
        p = 1 \/ p = 2 \/ p = 3 \/ p = 4 \/ p = 5 \/ p = 6 \/ p = 7 \/ p = 8 \/ p = 9 \/ p = 10
        \/ p = 11 \/ p = 12
  BY SMT
<1> HIDE DEF Fits, MulSize
<1> QED
  BY <1>1, <1>2, <1>3, <1>4, <1>5, <1>6, <1>7, <1>8, <1>9, <1>10, <1>11, <1>12, <1>13,
     OrdersReal, SMT

LEMMA FromBytesFits ==
  ASSUME RealSize
  PROVE  \A p \in 1 .. 10 : Fits(FromBytesSize(p), FromBytesSize(p + 1), FromBytesOrder[p])
<1> USE DEF Fits, FromBytesSize, Reach, Tidy, Settled, Filled, Loaded3, Far, Near, Odd, Read
<1>1. Fits(FromBytesSize(1), FromBytesSize(2), 9) BY SMT
<1>2. Fits(FromBytesSize(2), FromBytesSize(3), 1) BY SMT
<1>3. Fits(FromBytesSize(3), FromBytesSize(4), 3) BY SMT
<1>4. Fits(FromBytesSize(4), FromBytesSize(5), 5) BY SMT
<1>5. Fits(FromBytesSize(5), FromBytesSize(6), 7) BY SMT
<1>6. Fits(FromBytesSize(6), FromBytesSize(7), 0) BY SMT
<1>7. Fits(FromBytesSize(7), FromBytesSize(8), 2) BY SMT
<1>8. Fits(FromBytesSize(8), FromBytesSize(9), 4) BY SMT
<1>9. Fits(FromBytesSize(9), FromBytesSize(10), 6) BY SMT
<1>10. Fits(FromBytesSize(10), FromBytesSize(11), 8) BY SMT
<1>11. \A p \in 1 .. 10 :
        p = 1 \/ p = 2 \/ p = 3 \/ p = 4 \/ p = 5 \/ p = 6 \/ p = 7 \/ p = 8 \/ p = 9 \/ p = 10
  BY SMT
<1> HIDE DEF Fits, FromBytesSize
<1> QED
  BY <1>1, <1>2, <1>3, <1>4, <1>5, <1>6, <1>7, <1>8, <1>9, <1>10, <1>11,
     OrdersReal, SMT

LEMMA CarryKeepsBounds ==
  ASSUME RealSize, NEW s, NEW t, NEW n \in 0 .. 9, Fits(s, t, n),
         NEW v \in [0 .. 9 -> Int], \A k \in 0 .. 9 : In(v, k, s[k])
  PROVE  LET u == Carried(v, n, (v[n] + Radix[n] \div 2) \div Radix[n])
         IN u \in [0 .. 9 -> Int] /\ \A k \in 0 .. 9 : In(u, k, t[k])
<1> DEFINE c == (v[n] + Radix[n] \div 2) \div Radix[n]
           u == Carried(v, n, c)
<1>1. v[n] \in Int
  OBVIOUS
<1>2. c \in Int /\ -Tidy(n) <= v[n] - c * Radix[n] /\ v[n] - c * Radix[n] <= Tidy(n)
  BY <1>1, CarryRounds
<1>3. /\ -Filled <= v[n] /\ v[n] <= Filled => -Far <= c /\ c <= Far
      /\ -Loaded3 <= v[n] /\ v[n] <= Loaded3 => -Near <= c /\ c <= Near
  BY <1>1, CarrySize
<1> HIDE DEF c
<1>4. /\ u \in [0 .. 9 -> Int]
      /\ u[n] = v[n] - c * Radix[n]
      /\ n < 9 => u[n + 1] = v[n + 1] + c
      /\ n = 9 => u[0] = v[0] + c * 19
      /\ \A k \in 0 .. 9 : k # n /\ k # n + 1 /\ ~(n = 9 /\ k = 0) => u[k] = v[k]
  <2>1. c \in Int
    BY <1>2
  <2> QED
    BY <2>1, CarriedReal, ZenonT(30)
<1> HIDE DEF u
<1> DEFINE reach == Reach(s[n])
<1>5. reach \in Nat /\ -reach <= c /\ c <= reach
  BY <1>1, <1>2, <1>3, SMT DEF Reach, Fits, In, Filled, Loaded3, Far, Near
<1> HIDE DEF reach
<1>6. ASSUME NEW k \in 0 .. 9
      PROVE  In(u, k, t[k])
  <2>1. v[k] \in Int /\ s[k] \in Nat /\ t[k] \in Nat /\ In(v, k, s[k])
    BY DEF Fits
  <2>2. CASE k = n
    <3>1. Tidy(n) <= t[n] BY DEF Fits
    <3>2. u[k] = v[n] - c * Radix[n] BY <1>4, <2>2
    <3>3. Tidy(n) \in Nat /\ u[k] \in Int BY <1>4, SMT DEF Tidy
    <3> HIDE DEF Tidy
    <3> QED BY <1>2, <2>1, <2>2, <3>1, <3>2, <3>3, SMT DEF In
  <2>3. CASE k = n + 1
    <3>1. s[k] + reach <= t[k] BY <2>3, SMT DEF Fits, reach
    <3> QED BY <1>2, <1>4, <1>5, <2>1, <2>3, <3>1, SMT DEF In
  <2>4. CASE k = 0 /\ n = 9
    <3>1. s[k] + 19 * reach <= t[k] BY <2>4, SMT DEF Fits, reach
    <3> QED BY <1>2, <1>4, <1>5, <2>1, <2>4, <3>1, SMT DEF In
  <2>5. CASE k # n /\ k # n + 1 /\ ~(n = 9 /\ k = 0)
    <3>1. s[k] <= t[k] BY <2>5, SMT DEF Fits
    <3>2. u[k] = v[k] BY <1>4, <2>5
    <3> QED BY <2>1, <3>1, <3>2, SMT DEF In
  <2> QED
    BY <2>2, <2>3, <2>4, <2>5
<1> QED
  BY <1>4, <1>6 DEF u, c

LEMMA SumOfTen ==
  ASSUME NEW t, DOMAIN t = 0 .. 9
  PROVE  Sum(t) = t[0] + t[1] + t[2] + t[3] + t[4] + t[5] + t[6] + t[7] + t[8] + t[9]
  BY SMT DEF Sum

LEMMA ProductBound ==
  ASSUME NEW x \in Int, NEW y \in Int, NEW a \in Nat, NEW b \in Nat,
         -a <= x, x <= a, -b <= y, y <= b
  PROVE  -(a * b) <= x * y /\ x * y <= a * b
<1>1. CASE x >= 0 /\ y >= 0
  BY <1>1, SMT
<1>2. CASE x >= 0 /\ y < 0
  BY <1>2, SMT
<1>3. CASE x < 0 /\ y >= 0
  BY <1>3, SMT
<1>4. CASE x < 0 /\ y < 0
  BY <1>4, SMT
<1> QED
  BY <1>1, <1>2, <1>3, <1>4, SMT

\* The i-th term of limb k of a product.
Term(f, g, k, i) ==
  LET j == (k - i) % N
  IN (IF Odd(i) /\ Odd(j) THEN 2 ELSE 1) * (IF i > k THEN Red ELSE 1) * f[i] * g[j]

Fitting(f) ==
  /\ f \in [0 .. 9 -> Int]
  /\ \A k \in 0 .. 9 : IF Odd(k) THEN In(f, k, 55364812) ELSE In(f, k, 110729625)

LEMMA TermBound ==
  ASSUME RealSize, NEW f, NEW g, Fitting(f), Fitting(g), NEW k \in 0 .. 9, NEW i \in 0 .. 9
  PROVE  /\ Term(f, g, k, i) \in Int
         /\ LET b == IF Odd(i) \/ Odd(k) THEN 116479972548154500 ELSE 232959947200171875
            IN -b <= Term(f, g, k, i) /\ Term(f, g, k, i) <= b
<1> DEFINE j == (k - i) % 10
           A(n) == IF Odd(n) THEN 55364812 ELSE 110729625
<1>1. j \in 0 .. 9
  BY SMT
<1>2. f[i] \in Int /\ g[j] \in Int /\ In(f, i, A(i)) /\ In(g, j, A(j))
  BY <1>1 DEF Fitting
<1>3. Odd(j) <=> ~(Odd(i) <=> Odd(k))
  BY SMT DEF Odd
<1>4. A(i) \in Nat /\ A(j) \in Nat
  BY SMT
<1> HIDE DEF j
<1>5. -(A(i) * A(j)) <= f[i] * g[j] /\ f[i] * g[j] <= A(i) * A(j) /\ f[i] * g[j] \in Int
  BY <1>2, <1>4, ProductBound, SMT DEF In
<1> DEFINE xy == f[i] * g[j]
<1>6. Term(f, g, k, i) =
        IF Odd(i) /\ Odd(j) THEN IF i > k THEN 38 * xy ELSE 2 * xy
        ELSE IF i > k THEN 19 * xy ELSE xy
  <2>1. Term(f, g, k, i) =
        (IF Odd(i) /\ Odd(j) THEN 2 ELSE 1) * (IF i > k THEN 19 ELSE 1) * f[i] * g[j]
    BY DEF Term, RealSize, j
  <2> QED
    BY <1>2, <2>1, SMT
<1> HIDE DEF xy
<1>7. xy \in Int
  BY <1>5 DEF xy
<1>8. CASE Odd(i) /\ Odd(j)
  <2>1. -3065262407795344 <= xy /\ xy <= 3065262407795344
    BY <1>5, <1>8, SMT DEF xy
  <2> QED
    BY <1>3, <1>6, <1>7, <1>8, <2>1, SMT
<1>9. CASE ~Odd(i) /\ ~Odd(j)
  <2>1. -12261049852640625 <= xy /\ xy <= 12261049852640625
    BY <1>5, <1>9, SMT DEF xy
  <2> QED
    BY <1>3, <1>6, <1>7, <1>9, <2>1, SMT
<1>10. CASE Odd(i) /\ ~Odd(j)
  <2>1. -6130524870955500 <= xy /\ xy <= 6130524870955500
    BY <1>5, <1>10, SMT DEF xy
  <2> QED
    BY <1>3, <1>6, <1>7, <1>10, <2>1, SMT
<1>11. CASE ~Odd(i) /\ Odd(j)
  <2>1. -6130524870955500 <= xy /\ xy <= 6130524870955500
    BY <1>5, <1>11, SMT DEF xy
  <2> QED
    BY <1>3, <1>6, <1>7, <1>11, <2>1, SMT
<1> QED
  BY <1>8, <1>9, <1>10, <1>11

LEMMA ProductRaw ==
  ASSUME RealSize, NEW f, NEW g, Fitting(f), Fitting(g)
  PROVE  /\ Product(f, g) \in [0 .. 9 -> Int]
         /\ \A k \in 0 .. 9 : In(Product(f, g), k, 1750000000000000000)
<1>1. ASSUME NEW k \in 0 .. 9
      PROVE  Product(f, g)[k] = Sum([i \in 0 .. 9 |-> Term(f, g, k, i)])
  BY SMT DEF Product, Term, Limbs, RealSize
<1>2. ASSUME NEW k \in 0 .. 9
      PROVE  /\ Product(f, g)[k] \in Int
             /\ In(Product(f, g), k, 1750000000000000000)
  <2> DEFINE t == [i \in 0 .. 9 |-> Term(f, g, k, i)]
  <2>1. Sum(t) = t[0] + t[1] + t[2] + t[3] + t[4] + t[5] + t[6] + t[7] + t[8] + t[9]
    BY SumOfTen
  <2>2. \A i \in 0 .. 9 :
          /\ t[i] \in Int
          /\ LET b == IF Odd(i) \/ Odd(k) THEN 116479972548154500 ELSE 232959947200171875
             IN -b <= t[i] /\ t[i] <= b
    BY TermBound
  <2>3. Product(f, g)[k] = Sum(t)
    BY <1>1
  <2> HIDE DEF t
  <2>4. CASE Odd(k)
    BY <2>1, <2>2, <2>3, <2>4, SMT DEF In
  <2>5. CASE ~Odd(k)
    <3>1. Odd(1) /\ Odd(3) /\ Odd(5) /\ Odd(7) /\ Odd(9)
      BY SMT DEF Odd
    <3> QED
      BY <2>1, <2>2, <2>3, <2>5, <3>1, SMT DEF In
  <2> QED
    BY <2>4, <2>5
<1>3. DOMAIN Product(f, g) = 0 .. 9 /\ Product(f, g) = [k \in 0 .. 9 |-> Product(f, g)[k]]
  BY SMT DEF Product, Limbs, RealSize
<1> QED
  BY <1>2, <1>3

\* The same of a square, where a pair of limbs occurs once.
SquareTerm(f, k, i) ==
  LET j == (k - i) % N
  IN IF i > j THEN 0
     ELSE (IF i < j THEN 2 ELSE 1) * (IF Odd(i) /\ Odd(j) THEN 2 ELSE 1)
          * (IF i > k THEN Red ELSE 1) * f[i] * f[j]

LEMMA PairOnce ==
  ASSUME RealSize, NEW f \in [0 .. 9 -> Int],
         NEW k \in 0 .. 9, NEW i \in 0 .. 9, NEW j \in 0 .. 9, (k - i) % 10 = j
  PROVE  /\ i # j =>
              SquareTerm(f, k, i) + SquareTerm(f, k, j) = Term(f, f, k, i) + Term(f, f, k, j)
         /\ i = j => SquareTerm(f, k, i) = Term(f, f, k, i)
         /\ SquareTerm(f, k, i) \in Int /\ Term(f, f, k, i) \in Int
<1> DEFINE xy == f[i] * f[j]
<1>1. xy \in Int /\ f[i] \in Int /\ f[j] \in Int /\ f[j] * f[i] = xy
  BY SMT
<1>2. (k - j) % 10 = i /\ (i > k <=> j > k)
  BY SMT
<1>3. /\ Term(f, f, k, i) =
           (IF Odd(i) /\ Odd(j) THEN 2 ELSE 1) * (IF i > k THEN 19 ELSE 1) * f[i] * f[j]
      /\ Term(f, f, k, j) =
           (IF Odd(j) /\ Odd(i) THEN 2 ELSE 1) * (IF j > k THEN 19 ELSE 1) * f[j] * f[i]
  BY <1>2 DEF Term, RealSize
<1>4. /\ SquareTerm(f, k, i) = IF i > j THEN 0 ELSE
           (IF i < j THEN 2 ELSE 1) * (IF Odd(i) /\ Odd(j) THEN 2 ELSE 1)
           * (IF i > k THEN 19 ELSE 1) * f[i] * f[j]
      /\ SquareTerm(f, k, j) = IF j > i THEN 0 ELSE
           (IF j < i THEN 2 ELSE 1) * (IF Odd(j) /\ Odd(i) THEN 2 ELSE 1)
           * (IF j > k THEN 19 ELSE 1) * f[j] * f[i]
  BY <1>2 DEF SquareTerm, RealSize
<1> DEFINE n == (IF Odd(i) /\ Odd(j) THEN 2 ELSE 1) * (IF i > k THEN 19 ELSE 1)
<1>5. n \in Int
  BY SMT
<1>6. Term(f, f, k, i) = n * xy /\ Term(f, f, k, j) = n * xy
  BY <1>1, <1>2, <1>3, SMT
<1>7. /\ SquareTerm(f, k, i) = IF i > j THEN 0 ELSE IF i < j THEN 2 * (n * xy) ELSE n * xy
      /\ SquareTerm(f, k, j) = IF j > i THEN 0 ELSE IF j < i THEN 2 * (n * xy) ELSE n * xy
  BY <1>1, <1>2, <1>4, SMT
<1>8. n * xy \in Int
  BY <1>1, <1>5, SMT
<1> HIDE DEF n, xy
<1> QED
  BY <1>6, <1>7, <1>8, SMT

\* fe_sq computes the limbs that fe_mul computes for two equal arguments, before any
\* carry, with little more than half of the products.
THEOREM SquareIsProduct ==
  ASSUME RealSize, NEW f \in [0 .. 9 -> Int]
  PROVE  Square(f) = Product(f, f)
<1> DEFINE s(k) == [i \in 0 .. 9 |-> SquareTerm(f, k, i)]
           t(k) == [i \in 0 .. 9 |-> Term(f, f, k, i)]
<1>1. /\ Square(f) = [k \in 0 .. 9 |-> Sum(s(k))]
      /\ Product(f, f) = [k \in 0 .. 9 |-> Sum(t(k))]
  BY SMT DEF Square, Product, SquareTerm, Term, Limbs, RealSize
<1>2. ASSUME NEW k \in 0 .. 9
      PROVE  Sum(s(k)) = Sum(t(k))
  <2> DEFINE S(i) == SquareTerm(f, k, i)
             T(i) == Term(f, f, k, i)
  <2>1. /\ Sum(s(k)) = S(0) + S(1) + S(2) + S(3) + S(4) + S(5) + S(6) + S(7) + S(8) + S(9)
        /\ Sum(t(k)) = T(0) + T(1) + T(2) + T(3) + T(4) + T(5) + T(6) + T(7) + T(8) + T(9)
    <3>1. DOMAIN s(k) = 0 .. 9 /\ DOMAIN t(k) = 0 .. 9
      OBVIOUS
    <3>2. \A i \in 0 .. 9 : s(k)[i] = S(i) /\ t(k)[i] = T(i)
      OBVIOUS
    <3> HIDE DEF s, t, S, T
    <3> QED
      BY <3>1, <3>2, SumOfTen, SMT
  <2>2. \A i, j \in 0 .. 9 :
          i + j = k \/ i + j = k + 10 =>
            /\ i # j => S(i) + S(j) = T(i) + T(j)
            /\ i = j => S(i) = T(i)
            /\ S(i) \in Int /\ T(i) \in Int
    <3>1. \A i, j \in 0 .. 9 : i + j = k \/ i + j = k + 10 => (k - i) % 10 = j
      BY SMT
    <3> QED
      BY <3>1, PairOnce
  <2> HIDE DEF s, t, S, T
  <2>3. /\ S(0) \in Int /\ T(0) \in Int /\ S(1) \in Int /\ T(1) \in Int
        /\ S(2) \in Int /\ T(2) \in Int /\ S(3) \in Int /\ T(3) \in Int
        /\ S(4) \in Int /\ T(4) \in Int /\ S(5) \in Int /\ T(5) \in Int
        /\ S(6) \in Int /\ T(6) \in Int /\ S(7) \in Int /\ T(7) \in Int
        /\ S(8) \in Int /\ T(8) \in Int /\ S(9) \in Int /\ T(9) \in Int
    <3>1. \A i \in 0 .. 9 : \E j \in 0 .. 9 : i + j = k \/ i + j = k + 10
      BY SMT
    <3>2. \A i \in 0 .. 9 : S(i) \in Int /\ T(i) \in Int
      BY <2>2, <3>1
    <3> QED
      BY <3>2, SMT
  <2>4. CASE k = 0
    <3>1. /\ S(0) = T(0) /\ S(1) + S(9) = T(1) + T(9)
          /\ S(2) + S(8) = T(2) + T(8) /\ S(3) + S(7) = T(3) + T(7)
          /\ S(4) + S(6) = T(4) + T(6) /\ S(5) = T(5)
      BY <2>2, <2>4, SMT
    <3>2. S(1) + S(2) + S(8) + S(9) = T(1) + T(2) + T(8) + T(9)
      BY <2>3, <3>1, SMT
    <3>3. (S(3) + S(7)) + (S(4) + S(6)) = (T(3) + T(7)) + (T(4) + T(6))
      BY <2>3, <3>1, SMT
    <3> QED
      BY <2>1, <2>3, <3>1, <3>2, <3>3, SMT
  <2>5. CASE k = 1
    <3>1. /\ S(0) + S(1) = T(0) + T(1) /\ S(2) + S(9) = T(2) + T(9)
          /\ S(3) + S(8) = T(3) + T(8) /\ S(4) + S(7) = T(4) + T(7)
          /\ S(5) + S(6) = T(5) + T(6)
      BY <2>2, <2>5, SMT
    <3> QED
      BY <2>1, <2>3, <3>1, SMT
  <2>6. CASE k = 2
    <3>1. /\ S(0) + S(2) = T(0) + T(2) /\ S(1) = T(1)
          /\ S(3) + S(9) = T(3) + T(9) /\ S(4) + S(8) = T(4) + T(8)
          /\ S(5) + S(7) = T(5) + T(7) /\ S(6) = T(6)
      BY <2>2, <2>6, SMT
    <3>2. S(0) + S(2) + S(3) + S(4) + S(5) + S(7) + S(8) + S(9) =
          T(0) + T(2) + T(3) + T(4) + T(5) + T(7) + T(8) + T(9)
      BY <2>3, <3>1, SMT
    <3> QED
      BY <2>1, <2>3, <3>1, <3>2, SMT
  <2>7. CASE k = 3
    <3>1. /\ S(0) + S(3) = T(0) + T(3) /\ S(1) + S(2) = T(1) + T(2)
          /\ S(4) + S(9) = T(4) + T(9) /\ S(5) + S(8) = T(5) + T(8)
          /\ S(6) + S(7) = T(6) + T(7)
      BY <2>2, <2>7, SMT
    <3> QED
      BY <2>1, <2>3, <3>1, SMT
  <2>8. CASE k = 4
    <3>1. /\ S(0) + S(4) = T(0) + T(4) /\ S(1) + S(3) = T(1) + T(3)
          /\ S(2) = T(2) /\ S(5) + S(9) = T(5) + T(9)
          /\ S(6) + S(8) = T(6) + T(8) /\ S(7) = T(7)
      BY <2>2, <2>8, SMT
    <3> QED
      BY <2>1, <2>3, <3>1, SMT
  <2>9. CASE k = 5
    <3>1. /\ S(0) + S(5) = T(0) + T(5) /\ S(1) + S(4) = T(1) + T(4)
          /\ S(2) + S(3) = T(2) + T(3) /\ S(6) + S(9) = T(6) + T(9)
          /\ S(7) + S(8) = T(7) + T(8)
      BY <2>2, <2>9, SMT
    <3> QED
      BY <2>1, <2>3, <3>1, SMT
  <2>10. CASE k = 6
    <3>1. /\ S(0) + S(6) = T(0) + T(6) /\ S(1) + S(5) = T(1) + T(5)
          /\ S(2) + S(4) = T(2) + T(4) /\ S(3) = T(3)
          /\ S(7) + S(9) = T(7) + T(9) /\ S(8) = T(8)
      BY <2>2, <2>10, SMT
    <3> QED
      BY <2>1, <2>3, <3>1, SMT
  <2>11. CASE k = 7
    <3>1. /\ S(0) + S(7) = T(0) + T(7) /\ S(1) + S(6) = T(1) + T(6)
          /\ S(2) + S(5) = T(2) + T(5) /\ S(3) + S(4) = T(3) + T(4)
          /\ S(8) + S(9) = T(8) + T(9)
      BY <2>2, <2>11, SMT
    <3> QED
      BY <2>1, <2>3, <3>1, SMT
  <2>12. CASE k = 8
    <3>1. /\ S(0) + S(8) = T(0) + T(8) /\ S(1) + S(7) = T(1) + T(7)
          /\ S(2) + S(6) = T(2) + T(6) /\ S(3) + S(5) = T(3) + T(5)
          /\ S(4) = T(4) /\ S(9) = T(9)
      BY <2>2, <2>12, SMT
    <3> QED
      BY <2>1, <2>3, <3>1, SMT
  <2>13. CASE k = 9
    <3>1. /\ S(0) + S(9) = T(0) + T(9) /\ S(1) + S(8) = T(1) + T(8)
          /\ S(2) + S(7) = T(2) + T(7) /\ S(3) + S(6) = T(3) + T(6)
          /\ S(4) + S(5) = T(4) + T(5)
      BY <2>2, <2>13, SMT
    <3> QED
      BY <2>1, <2>3, <3>1, SMT
  <2> QED
    BY <2>4, <2>5, <2>6, <2>7, <2>8, <2>9, <2>10, <2>11, <2>12, <2>13, SMT
<1> QED
  BY <1>1, <1>2
-----------------------------------------------------------------------------
\* Where the limbs begin: the bit, and the byte.
LEMMA WeightsReal ==
  ASSUME RealSize
  PROVE  /\ Weight(0) = 0
         /\ Weight(1) = 26
         /\ Weight(2) = 51
         /\ Weight(3) = 77
         /\ Weight(4) = 102
         /\ Weight(5) = 128
         /\ Weight(6) = 153
         /\ Weight(7) = 179
         /\ Weight(8) = 204
         /\ Weight(9) = 230
         /\ Bits = 255
<1> DEFINE d(k, j) == IF j \in 0 .. k - 1 THEN W[j] ELSE 0
<1>1. \A k \in 0 .. 10 :
        Weight(k) = d(k, 0) + d(k, 1) + d(k, 2) + d(k, 3) + d(k, 4) + d(k, 5) + d(k, 6)
                    + d(k, 7) + d(k, 8) + d(k, 9)
  BY SMT DEF Weight, Sum
<1>2. \A k, j \in 0 .. 10 :
        d(k, j) = IF j < k THEN IF j % 2 = 1 THEN 25 ELSE 26 ELSE 0
  BY SMT DEF RealSize
<1> HIDE DEF d
<1>3. Bits = Weight(10)
  BY DEF Bits, RealSize
<1> QED
  BY <1>1, <1>2, <1>3, SMT
LEMMA StartsReal ==
  ASSUME RealSize
  PROVE  /\ Start(0) = 0
         /\ Start(1) = 4
         /\ Start(2) = 7
         /\ Start(3) = 10
         /\ Start(4) = 13
         /\ Start(5) = 16
         /\ Start(6) = 20
         /\ Start(7) = 23
         /\ Start(8) = 26
         /\ Start(9) = 29
  BY WeightsReal, SMT DEF Start, RealSize

\* What is left of a number when it is cut at both ends and shifted.
LEMMA CutBounded ==
  ASSUME NEW n \in Nat, NEW from \in Nat, NEW m \in Nat, NEW f \in Nat, m > 0, m * f <= Read
  PROVE  ((n \div 2^from) % m) * f \in 0 .. Read
<1>1. 2^from \in Nat /\ 2^from > 0
  BY PowPositive
<1> DEFINE d == n \div 2^from
<1>2. d % m \in 0 .. m - 1
  BY <1>1, SMT
<1> DEFINE r == d % m
<1> HIDE DEF r
<1>3. r \in 0 .. m - 1
  BY <1>2 DEF r
<1>4. 0 <= r * f /\ r * f <= m * f /\ r * f \in Int /\ m * f \in Int
  BY <1>3, SMT
<1>5. Read \in Int
  BY SMT DEF Read
<1> HIDE DEF Read
<1>6. r * f \in 0 .. Read
  BY <1>4, <1>5, SMT
<1> QED
  BY <1>6 DEF r

\* load_3 and load_4 and the shifts of fe_frombytes: no limb is longer than 32 bits.
LEMMA LoadedBounded ==
  ASSUME RealSize, NEW n \in Nat
  PROVE  Loaded(n) \in [0 .. 9 -> Int] /\ \A k \in 0 .. 9 : In(Loaded(n), k, Read)
<1> DEFINE from(k) == 8 * Start(k)
           size(k) == (IF k = 9 THEN 255 ELSE 8 * Start(k + 1)) - from(k)
           limb(k) == ((n \div 2^from(k)) % 2^size(k)) * 2^(from(k) - Weight(k))
<1>1. Loaded(n) = [k \in 0 .. 9 |-> limb(k)]
  BY WeightsReal, SMT DEF Loaded, Limbs, RealSize
<1>2. limb(0) \in 0 .. Read
  <2>1. from(0) = 0 /\ size(0) = 32 /\ from(0) - Weight(0) = 0
    BY StartsReal, WeightsReal, SMT
  <2> HIDE DEF from, size
  <2>2. 2^size(0) = 2^32 /\ 2^(from(0) - Weight(0)) = 2^0
    BY <2>1, Zenon
  <2>3. /\ 2^size(0) \in Nat /\ 2^size(0) > 0 /\ 2^(from(0) - Weight(0)) \in Nat
        /\ 2^size(0) * 2^(from(0) - Weight(0)) <= Read
    BY <2>2, SMT DEF Read
  <2>4. from(0) \in Nat
    BY <2>1, SMT
  <2> QED
    BY <2>3, <2>4, CutBounded, Zenon
<1>3. limb(1) \in 0 .. Read
  <2>1. from(1) = 32 /\ size(1) = 24 /\ from(1) - Weight(1) = 6
    BY StartsReal, WeightsReal, SMT
  <2> HIDE DEF from, size
  <2>2. 2^size(1) = 2^24 /\ 2^(from(1) - Weight(1)) = 2^6
    BY <2>1, Zenon
  <2>3. /\ 2^size(1) \in Nat /\ 2^size(1) > 0 /\ 2^(from(1) - Weight(1)) \in Nat
        /\ 2^size(1) * 2^(from(1) - Weight(1)) <= Read
    BY <2>2, SMT DEF Read
  <2>4. from(1) \in Nat
    BY <2>1, SMT
  <2> QED
    BY <2>3, <2>4, CutBounded, Zenon
<1>4. limb(2) \in 0 .. Read
  <2>1. from(2) = 56 /\ size(2) = 24 /\ from(2) - Weight(2) = 5
    BY StartsReal, WeightsReal, SMT
  <2> HIDE DEF from, size
  <2>2. 2^size(2) = 2^24 /\ 2^(from(2) - Weight(2)) = 2^5
    BY <2>1, Zenon
  <2>3. /\ 2^size(2) \in Nat /\ 2^size(2) > 0 /\ 2^(from(2) - Weight(2)) \in Nat
        /\ 2^size(2) * 2^(from(2) - Weight(2)) <= Read
    BY <2>2, SMT DEF Read
  <2>4. from(2) \in Nat
    BY <2>1, SMT
  <2> QED
    BY <2>3, <2>4, CutBounded, Zenon
<1>5. limb(3) \in 0 .. Read
  <2>1. from(3) = 80 /\ size(3) = 24 /\ from(3) - Weight(3) = 3
    BY StartsReal, WeightsReal, SMT
  <2> HIDE DEF from, size
  <2>2. 2^size(3) = 2^24 /\ 2^(from(3) - Weight(3)) = 2^3
    BY <2>1, Zenon
  <2>3. /\ 2^size(3) \in Nat /\ 2^size(3) > 0 /\ 2^(from(3) - Weight(3)) \in Nat
        /\ 2^size(3) * 2^(from(3) - Weight(3)) <= Read
    BY <2>2, SMT DEF Read
  <2>4. from(3) \in Nat
    BY <2>1, SMT
  <2> QED
    BY <2>3, <2>4, CutBounded, Zenon
<1>6. limb(4) \in 0 .. Read
  <2>1. from(4) = 104 /\ size(4) = 24 /\ from(4) - Weight(4) = 2
    BY StartsReal, WeightsReal, SMT
  <2> HIDE DEF from, size
  <2>2. 2^size(4) = 2^24 /\ 2^(from(4) - Weight(4)) = 2^2
    BY <2>1, Zenon
  <2>3. /\ 2^size(4) \in Nat /\ 2^size(4) > 0 /\ 2^(from(4) - Weight(4)) \in Nat
        /\ 2^size(4) * 2^(from(4) - Weight(4)) <= Read
    BY <2>2, SMT DEF Read
  <2>4. from(4) \in Nat
    BY <2>1, SMT
  <2> QED
    BY <2>3, <2>4, CutBounded, Zenon
<1>7. limb(5) \in 0 .. Read
  <2>1. from(5) = 128 /\ size(5) = 32 /\ from(5) - Weight(5) = 0
    BY StartsReal, WeightsReal, SMT
  <2> HIDE DEF from, size
  <2>2. 2^size(5) = 2^32 /\ 2^(from(5) - Weight(5)) = 2^0
    BY <2>1, Zenon
  <2>3. /\ 2^size(5) \in Nat /\ 2^size(5) > 0 /\ 2^(from(5) - Weight(5)) \in Nat
        /\ 2^size(5) * 2^(from(5) - Weight(5)) <= Read
    BY <2>2, SMT DEF Read
  <2>4. from(5) \in Nat
    BY <2>1, SMT
  <2> QED
    BY <2>3, <2>4, CutBounded, Zenon
<1>8. limb(6) \in 0 .. Read
  <2>1. from(6) = 160 /\ size(6) = 24 /\ from(6) - Weight(6) = 7
    BY StartsReal, WeightsReal, SMT
  <2> HIDE DEF from, size
  <2>2. 2^size(6) = 2^24 /\ 2^(from(6) - Weight(6)) = 2^7
    BY <2>1, Zenon
  <2>3. /\ 2^size(6) \in Nat /\ 2^size(6) > 0 /\ 2^(from(6) - Weight(6)) \in Nat
        /\ 2^size(6) * 2^(from(6) - Weight(6)) <= Read
    BY <2>2, SMT DEF Read
  <2>4. from(6) \in Nat
    BY <2>1, SMT
  <2> QED
    BY <2>3, <2>4, CutBounded, Zenon
<1>9. limb(7) \in 0 .. Read
  <2>1. from(7) = 184 /\ size(7) = 24 /\ from(7) - Weight(7) = 5
    BY StartsReal, WeightsReal, SMT
  <2> HIDE DEF from, size
  <2>2. 2^size(7) = 2^24 /\ 2^(from(7) - Weight(7)) = 2^5
    BY <2>1, Zenon
  <2>3. /\ 2^size(7) \in Nat /\ 2^size(7) > 0 /\ 2^(from(7) - Weight(7)) \in Nat
        /\ 2^size(7) * 2^(from(7) - Weight(7)) <= Read
    BY <2>2, SMT DEF Read
  <2>4. from(7) \in Nat
    BY <2>1, SMT
  <2> QED
    BY <2>3, <2>4, CutBounded, Zenon
<1>10. limb(8) \in 0 .. Read
  <2>1. from(8) = 208 /\ size(8) = 24 /\ from(8) - Weight(8) = 4
    BY StartsReal, WeightsReal, SMT
  <2> HIDE DEF from, size
  <2>2. 2^size(8) = 2^24 /\ 2^(from(8) - Weight(8)) = 2^4
    BY <2>1, Zenon
  <2>3. /\ 2^size(8) \in Nat /\ 2^size(8) > 0 /\ 2^(from(8) - Weight(8)) \in Nat
        /\ 2^size(8) * 2^(from(8) - Weight(8)) <= Read
    BY <2>2, SMT DEF Read
  <2>4. from(8) \in Nat
    BY <2>1, SMT
  <2> QED
    BY <2>3, <2>4, CutBounded, Zenon
<1>11. limb(9) \in 0 .. Read
  <2>1. from(9) = 232 /\ size(9) = 23 /\ from(9) - Weight(9) = 2
    BY StartsReal, WeightsReal, SMT
  <2> HIDE DEF from, size
  <2>2. 2^size(9) = 2^23 /\ 2^(from(9) - Weight(9)) = 2^2
    BY <2>1, Zenon
  <2>3. /\ 2^size(9) \in Nat /\ 2^size(9) > 0 /\ 2^(from(9) - Weight(9)) \in Nat
        /\ 2^size(9) * 2^(from(9) - Weight(9)) <= Read
    BY <2>2, SMT DEF Read
  <2>4. from(9) \in Nat
    BY <2>1, SMT
  <2> QED
    BY <2>3, <2>4, CutBounded, Zenon
<1> HIDE DEF limb
<1>12. ASSUME NEW k \in 0 .. 9
       PROVE  limb(k) \in 0 .. Read
  BY <1>2, <1>3, <1>4, <1>5, <1>6, <1>7, <1>8, <1>9, <1>10, <1>11, SMT
<1> QED
  <2>1. ASSUME NEW k \in 0 .. 9
        PROVE  limb(k) \in Int /\ 0 <= limb(k) /\ limb(k) <= Read
    <3>1. limb(k) \in 0 .. Read
      BY <1>12
    <3>2. Read \in Int
      BY SMT DEF Read
    <3> QED
      BY <3>1, <3>2, SMT
  <2> QED
    BY <1>1, <2>1, SMT DEF In, Read
-----------------------------------------------------------------------------
\* The inductive invariant.  f and g are elements with limbs as large as counted; a
\* function that runs has limbs as large as its next statement allows.
Elements ==
  /\ DOMAIN element \subseteq {"f", "g"} /\ DOMAIN bound = DOMAIN element
  /\ \A r \in DOMAIN element : element[r] \in [0 .. 9 -> Int] /\ bound[r] \in 0 .. MulBound

Room(p, k) == IF p < 10 THEN 73819750 ELSE IF k = p - 10 THEN 73823750 ELSE 73821750

Products == {"mul", "sq", "sq2"}
Writers  == {"tobytes", "isnegative", "isnonzero"}

Running ==
  /\ call \in {"none", "frombytes"} \cup Products \cup Writers
  /\ dest \in {"f", "g"} /\ h \in [0 .. 9 -> Int]
  /\ call \in Products => pc \in 1 .. 13 /\ \A k \in 0 .. 9 : In(h, k, MulSize(pc)[k])
  /\ call = "frombytes" => pc \in 1 .. 11 /\ \A k \in 0 .. 9 : In(h, k, FromBytesSize(pc)[k])
  /\ call \in Writers =>
       pc \in 0 .. 20 /\ q \in -100 .. 100 /\ \A k \in 0 .. 9 : In(h, k, Room(pc, k))

Inv == Elements /\ WithinBounds /\ Running

LEMMA LimbsReal ==
  ASSUME RealSize
  PROVE  Limbs = 0 .. 9
  BY SMT DEF RealSize, Limbs

\* A limb of an element whose even limbs b bounds.
Sized(v, k, b) ==
  LET size == IF Odd(k) THEN 2 * v[k] ELSE v[k] IN -b <= size /\ size <= b

LEMMA SizedFitting ==
  ASSUME NEW v \in [0 .. 9 -> Int], NEW b \in Nat, b <= 110729625,
         \A k \in 0 .. 9 : Sized(v, k, b)
  PROVE  Fitting(v)
<1> SUFFICES ASSUME NEW k \in 0 .. 9
             PROVE  IF Odd(k) THEN In(v, k, 55364812) ELSE In(v, k, 110729625)
  BY DEF Fitting
<1>1. v[k] \in Int /\ Sized(v, k, b)
  OBVIOUS
<1> QED
  BY <1>1, SMT DEF Sized, In

LEMMA ElementSized ==
  ASSUME RealSize, Elements, WithinBounds, NEW r \in DOMAIN element
  PROVE  /\ element[r] \in [0 .. 9 -> Int] /\ bound[r] \in Nat /\ bound[r] <= 110729625
         /\ \A k \in 0 .. 9 : Sized(element[r], k, bound[r])
<1>1. Limbs = 0 .. 9 /\ MulBound = 110729625
  BY LimbsReal DEF RealSize
<1>2. element[r] \in [0 .. 9 -> Int] /\ bound[r] \in 0 .. MulBound
  BY DEF Elements
<1>3. \A k \in 0 .. 9 : Sized(element[r], k, bound[r])
  BY <1>1 DEF WithinBounds, Sized
<1>4. bound[r] \in Nat /\ bound[r] <= 110729625
  <2> DEFINE most == 110729625
  <2>0. most \in Int
    BY SMT
  <2>2. MulBound = most
    BY <1>1, SMT
  <2> HIDE DEF most
  <2>1. \A b \in 0 .. most : b \in Nat /\ b <= most
    BY <2>0, SMT
  <2>3. bound[r] \in Nat /\ bound[r] <= most
    BY <1>2, <2>1, <2>2, Zenon
  <2> QED
    BY <2>3, SMT DEF most
<1> QED
  BY <1>2, <1>3, <1>4

LEMMA ElementFits ==
  ASSUME RealSize, Elements, WithinBounds, NEW r \in DOMAIN element
  PROVE  Fitting(element[r])
  BY ElementSized, SizedFitting

LEMMA PutKeeps ==
  ASSUME RealSize, Elements, WithinBounds, NEW r \in {"f", "g"},
         NEW v \in [0 .. 9 -> Int], NEW b \in 0 .. MulBound, \A k \in 0 .. 9 : Sized(v, k, b),
         element' = Put(element, r, v), bound' = Put(bound, r, b)
  PROVE  Elements' /\ WithinBounds'
<1>1. DOMAIN element' = DOMAIN element \cup {r} /\ DOMAIN bound' = DOMAIN element'
  BY DEF Put, Elements
<1>2. ASSUME NEW x \in DOMAIN element'
      PROVE  /\ x = r => element'[x] = v /\ bound'[x] = b
             /\ x # r => x \in DOMAIN element /\ element'[x] = element[x] /\ bound'[x] = bound[x]
  BY <1>1 DEF Put, Elements
<1>3. ASSUME NEW x \in DOMAIN element'
      PROVE  /\ element'[x] \in [0 .. 9 -> Int] /\ bound'[x] \in 0 .. MulBound
             /\ \A k \in 0 .. 9 : Sized(element'[x], k, bound'[x])
  BY <1>2, ElementSized DEF Elements
<1>4. Limbs = 0 .. 9
  BY LimbsReal
<1>5. Elements'
  BY <1>1, <1>3 DEF Elements
<1>6. WithinBounds'
  BY <1>3, <1>4 DEF WithinBounds, Sized
<1> QED
  BY <1>5, <1>6

LEMMA InitInv ==
  ASSUME RealSize, Init
  PROVE  Inv
<1>1. DOMAIN element = {} /\ DOMAIN bound = {}
  BY DEF Init
<1>2. Elements /\ WithinBounds
  BY <1>1 DEF Elements, WithinBounds
<1>3. Running
  <2>1. h \in [0 .. 9 -> Int]
    BY SMT DEF Init, Zero, Limbs, RealSize
  <2> QED
    BY <2>1 DEF Init, Running, Products, Writers
<1> QED
  BY <1>2, <1>3 DEF Inv

\* A step that leaves the elements alone keeps what is said of them.
LEMMA ElementsUnchanged ==
  ASSUME Elements, WithinBounds, UNCHANGED <<element, bound>>
  PROVE  Elements' /\ WithinBounds'
  BY DEF Elements, WithinBounds

LEMMA RunningUnchanged ==
  ASSUME Running, UNCHANGED <<call, dest, h, q, pc>>
  PROVE  Running'
  BY DEF Running
\* The functions without carries, and the copies.
LEMMA SimpleKeeps ==
  ASSUME RealSize, Inv, NEW r \in {"f", "g"}, NEW v \in [0 .. 9 -> Int], NEW value, NEW b \in Nat,
         b <= 110729625, \A k \in 0 .. 9 : Sized(v, k, b), Simple(r, v, value, b)
  PROVE  Inv'
<1>1. b \in 0 .. MulBound
  <2>1. MulBound \in Int /\ b <= MulBound
    BY SMT DEF RealSize
  <2> QED
    BY <2>1, SMT
<1>2. Elements' /\ WithinBounds'
  BY <1>1, PutKeeps DEF Simple, Inv
<1>3. Running'
  BY RunningUnchanged DEF Simple, Inv
<1> QED
  BY <1>2, <1>3 DEF Inv

LEMMA ReadySized ==
  ASSUME RealSize, Inv, Ready, NEW r \in {"f", "g"}
  PROVE  /\ element[r] \in [0 .. 9 -> Int] /\ bound[r] \in Nat /\ bound[r] <= 110729625
         /\ \A k \in 0 .. 9 : Sized(element[r], k, bound[r])
  BY ElementSized DEF Inv, Ready

LEMMA AddSubKeep ==
  ASSUME RealSize, Inv, Add \/ Sub
  PROVE  Inv'
<1> DEFINE f == element["f"]
           g == element["g"]
           b == bound["f"] + bound["g"]
           plus  == [k \in Limbs |-> f[k] + g[k]]
           minus == [k \in Limbs |-> f[k] - g[k]]
<1>1. Ready /\ b <= MulBound
  BY DEF Add, Sub
<1>2. /\ f \in [0 .. 9 -> Int] /\ bound["f"] \in Nat /\ \A k \in 0 .. 9 : Sized(f, k, bound["f"])
      /\ g \in [0 .. 9 -> Int] /\ bound["g"] \in Nat /\ \A k \in 0 .. 9 : Sized(g, k, bound["g"])
  BY <1>1, ReadySized
<1>3. b \in Nat /\ b <= 110729625
  BY <1>1, <1>2, SMT DEF RealSize
<1>4. Limbs = 0 .. 9
  BY LimbsReal
<1>5. plus \in [0 .. 9 -> Int] /\ minus \in [0 .. 9 -> Int]
  BY <1>2, <1>4, SMT
<1>6. ASSUME NEW k \in 0 .. 9
      PROVE  Sized(plus, k, b) /\ Sized(minus, k, b)
  <2>1. /\ f[k] \in Int /\ g[k] \in Int
        /\ Sized(f, k, bound["f"]) /\ Sized(g, k, bound["g"])
        /\ plus[k] = f[k] + g[k] /\ minus[k] = f[k] - g[k]
    BY <1>2, <1>4
  <2> HIDE DEF plus, minus, f, g
  <2> QED
    BY <1>2, <2>1, SMT DEF Sized
<1>7. \E value : Simple("f", plus, value, b) \/ Simple("f", minus, value, b)
  BY DEF Add, Sub
<1> HIDE DEF plus, minus, b
<1> QED
  BY <1>3, <1>5, <1>6, <1>7, SimpleKeeps

LEMMA NegKeeps ==
  ASSUME RealSize, Inv, Neg
  PROVE  Inv'
<1> DEFINE f == element["f"]
           b == bound["f"]
           minus == [k \in Limbs |-> -f[k]]
<1>1. /\ f \in [0 .. 9 -> Int] /\ b \in Nat /\ b <= 110729625
      /\ \A k \in 0 .. 9 : Sized(f, k, b)
  BY ReadySized DEF Neg
<1>2. Limbs = 0 .. 9
  BY LimbsReal
<1>3. minus \in [0 .. 9 -> Int]
  BY <1>1, <1>2, SMT
<1>4. ASSUME NEW k \in 0 .. 9
      PROVE  Sized(minus, k, b)
  <2>1. f[k] \in Int /\ Sized(f, k, b) /\ minus[k] = -f[k]
    BY <1>1, <1>2
  <2> HIDE DEF minus, f, b
  <2> QED
    BY <1>1, <2>1, SMT DEF Sized
<1>5. Simple("f", minus, -residue["f"], b)
  BY DEF Neg
<1> HIDE DEF minus, b
<1> QED
  BY <1>1, <1>3, <1>4, <1>5, SimpleKeeps

LEMMA CopyKeeps ==
  ASSUME RealSize, Inv, Copy \/ Cmov
  PROVE  Inv'
<1>1. Ready
  BY DEF Copy, Cmov
<1>2. PICK r \in {"f", "g"}, to \in {"f", "g"} : Simple(to, element[r], residue[r], bound[r])
  BY DEF Copy, Cmov
<1> QED
  BY <1>1, <1>2, ReadySized, SimpleKeeps

LEMMA ConstantKeeps ==
  ASSUME RealSize, Inv, Fe0 \/ Fe1
  PROVE  Inv'
<1>1. Limbs = 0 .. 9
  BY LimbsReal
<1>2. /\ Zero \in [0 .. 9 -> Int] /\ One \in [0 .. 9 -> Int]
      /\ \A k \in 0 .. 9 : Zero[k] = 0 /\ One[k] = IF k = 0 THEN 1 ELSE 0
  BY <1>1, SMT DEF Zero, One
<1>3. \A k \in 0 .. 9 : Sized(Zero, k, 0) /\ Sized(One, k, 1)
  <2> HIDE DEF Zero, One
  <2> QED
    BY <1>2, SMT DEF Sized, Odd
<1>4. 0 \in Nat /\ 1 \in Nat /\ 0 <= 110729625 /\ 1 <= 110729625
  BY SMT
<1>5. Simple("f", Zero, 0, 0) \/ Simple("f", One, 1, 1)
  BY DEF Fe0, Fe1
<1> QED
  BY <1>2, <1>3, <1>4, <1>5, SimpleKeeps
\* A product begins with limbs that the first carry may find.
LEMMA ProductBegins ==
  ASSUME RealSize, Inv, NEW name \in Products, NEW v \in [0 .. 9 -> Int], NEW value,
         \A k \in 0 .. 9 : In(v, k, Raw), Begin(name, "f", v, value)
  PROVE  Inv'
<1>1. Elements' /\ WithinBounds'
  BY ElementsUnchanged DEF Begin, Inv
<1>2. \A k \in 0 .. 9 : MulSize(1)[k] = Raw
  BY SMT DEF MulSize, Raw
<1>3. /\ name \notin Writers /\ name # "frombytes" /\ name # "none"
      /\ h' = v /\ pc' = 1 /\ call' = name /\ dest' = "f"
  BY DEF Begin, Products, Writers
<1>4. pc' \in 1 .. 13
  BY <1>3, SMT
<1>5. Running'
  BY <1>2, <1>3, <1>4, Zenon DEF Running, In
<1> QED
  BY <1>1, <1>5 DEF Inv

LEMMA ProductsKeep ==
  ASSUME RealSize, Inv, Mul \/ Sq \/ Sq2
  PROVE  Inv'
<1> DEFINE f == element["f"]
           g == element["g"]
<1>1. Ready
  BY DEF Mul, Sq, Sq2
<1>2. Fitting(f) /\ Fitting(g) /\ f \in [0 .. 9 -> Int]
  <2>1. "f" \in DOMAIN element /\ "g" \in DOMAIN element
    BY <1>1 DEF Ready
  <2> QED
    BY <2>1, ElementFits DEF Inv, Fitting
<1>3. /\ Product(f, g) \in [0 .. 9 -> Int] /\ Product(f, f) \in [0 .. 9 -> Int]
      /\ \A k \in 0 .. 9 : /\ In(Product(f, g), k, 1750000000000000000)
                           /\ In(Product(f, f), k, 1750000000000000000)
  BY <1>2, ProductRaw
<1>4. Square(f) = Product(f, f)
  BY <1>2, SquareIsProduct
<1>5. ASSUME NEW v \in [0 .. 9 -> Int], \A k \in 0 .. 9 : In(v, k, 1750000000000000000)
      PROVE  /\ \A k \in 0 .. 9 : In(v, k, Raw)
             /\ Doubled(v) \in [0 .. 9 -> Int] /\ \A k \in 0 .. 9 : In(Doubled(v), k, Raw)
  <2>1. Doubled(v) = [k \in 0 .. 9 |-> v[k] + v[k]]
    BY LimbsReal DEF Doubled
  <2>2. ASSUME NEW k \in 0 .. 9
        PROVE  In(v, k, Raw) /\ Doubled(v)[k] \in Int /\ In(Doubled(v), k, Raw)
    <3>1. v[k] \in Int /\ In(v, k, 1750000000000000000) /\ Doubled(v)[k] = v[k] + v[k]
      BY <1>5, <2>1
    <3> QED
      BY <3>1, SMT DEF In, Raw
  <2> QED
    BY <2>1, <2>2
<1>6. CASE Mul
  <2>1. Begin("mul", "f", Product(f, g), TimesMod(residue["f"], residue["g"]))
    BY <1>6 DEF Mul
  <2> QED
    BY <1>3, <1>5, <2>1, ProductBegins DEF Products
<1>7. CASE Sq
  <2>1. Begin("sq", "f", Product(f, f), TimesMod(residue["f"], residue["f"]))
    BY <1>4, <1>7 DEF Sq
  <2> QED
    BY <1>3, <1>5, <2>1, ProductBegins DEF Products
<1>8. CASE Sq2
  <2>1. \E value : Begin("sq2", "f", Doubled(Product(f, f)), value)
    BY <1>4, <1>8 DEF Sq2
  <2> QED
    BY <1>3, <1>5, <2>1, ProductBegins DEF Products
<1> QED
  BY <1>6, <1>7, <1>8

LEMMA FromBytesKeeps ==
  ASSUME RealSize, FieldAssumption, Inv, FromBytes
  PROVE  Inv'
<1>1. PICK r \in {"f", "g"}, n \in Inputs : Begin("frombytes", r, Loaded(n), (n % 2^Bits) % P)
  BY DEF FromBytes
<1>2. n \in Nat
  BY DEF FieldAssumption
<1>3. Loaded(n) \in [0 .. 9 -> Int] /\ \A k \in 0 .. 9 : In(Loaded(n), k, Read)
  BY <1>2, LoadedBounded
<1>4. Elements' /\ WithinBounds'
  BY <1>1, ElementsUnchanged DEF Begin, Inv
<1>5. \A k \in 0 .. 9 : FromBytesSize(1)[k] = Read
  BY SMTT(30) DEF FromBytesSize
<1>6. h' = Loaded(n) /\ pc' = 1 /\ call' = "frombytes" /\ dest' = r
  BY <1>1 DEF Begin
<1>7. pc' \in 1 .. 11
  BY <1>6, SMT
<1>8. Running'
  BY <1>3, <1>5, <1>6, <1>7, Zenon DEF Running, In, Products, Writers
<1> QED
  BY <1>4, <1>8 DEF Inv

LEMMA CarryKeeps ==
  ASSUME RealSize, Inv, Carry
  PROVE  Inv'
<1>1. Elements' /\ WithinBounds'
  BY ElementsUnchanged DEF Carry, Inv
<1>2. h \in [0 .. 9 -> Int] /\ call' = call /\ dest' = dest
  BY DEF Carry, Inv, Running
<1>3. CASE call \in Products
  <2>1. Order = MulOrder /\ call # "frombytes" /\ call \notin Writers
    BY <1>3 DEF Order, Products, Writers
  <2>2. pc \in 1 .. 12 /\ \A k \in 0 .. 9 : In(h, k, MulSize(pc)[k])
    BY <1>3, <2>1, OrdersReal DEF Carry, Inv, Running
  <2> DEFINE n == MulOrder[pc]
  <2>3. n \in 0 .. 9 /\ Fits(MulSize(pc), MulSize(pc + 1), n)
    <3>1. \A p \in 1 .. 12 : MulOrder[p] \in 0 .. 9
      BY OrdersReal, SMT
    <3> QED
      BY <2>2, <3>1, MulFits
  <2>4. h' = Carried(h, n, (h[n] + Radix[n] \div 2) \div Radix[n]) /\ pc' = pc + 1
    BY <2>1 DEF Carry
  <2> HIDE DEF n
  <2>5. h' \in [0 .. 9 -> Int] /\ \A k \in 0 .. 9 : In(h', k, MulSize(pc')[k])
    BY <1>2, <2>2, <2>3, <2>4, CarryKeepsBounds, Zenon
  <2>6. pc' \in 1 .. 13
    BY <2>2, <2>4, SMT
  <2>7. Running'
    BY <1>2, <1>3, <2>1, <2>5, <2>6, Zenon DEF Running, Inv, In
  <2> QED
    BY <1>1, <2>7 DEF Inv
<1>4. CASE call = "frombytes"
  <2>1. Order = FromBytesOrder /\ call \notin Products /\ call \notin Writers
    BY <1>4 DEF Order, Products, Writers
  <2>2. pc \in 1 .. 10 /\ \A k \in 0 .. 9 : In(h, k, FromBytesSize(pc)[k])
    BY <1>4, <2>1, OrdersReal DEF Carry, Inv, Running
  <2> DEFINE n == FromBytesOrder[pc]
  <2>3. n \in 0 .. 9 /\ Fits(FromBytesSize(pc), FromBytesSize(pc + 1), n)
    <3>1. \A p \in 1 .. 10 : FromBytesOrder[p] \in 0 .. 9
      BY OrdersReal, SMT
    <3> QED
      BY <2>2, <3>1, FromBytesFits
  <2>4. h' = Carried(h, n, (h[n] + Radix[n] \div 2) \div Radix[n]) /\ pc' = pc + 1
    BY <2>1 DEF Carry
  <2> HIDE DEF n
  <2>5. h' \in [0 .. 9 -> Int] /\ \A k \in 0 .. 9 : In(h', k, FromBytesSize(pc')[k])
    BY <1>2, <2>2, <2>3, <2>4, CarryKeepsBounds, Zenon
  <2>6. pc' \in 1 .. 11
    BY <2>2, <2>4, SMT
  <2>7. Running'
    BY <1>2, <1>4, <2>1, <2>5, <2>6, Zenon DEF Running, Inv, In
  <2> QED
    BY <1>1, <2>7 DEF Inv
<1> QED
  BY <1>3, <1>4 DEF Carry, Multiplying, Products

LEMMA StoreKeeps ==
  ASSUME RealSize, Inv, Store
  PROVE  Inv'
<1>1. /\ h \in [0 .. 9 -> Int] /\ dest \in {"f", "g"} /\ call' = "none"
      /\ h' = h /\ dest' = dest
      /\ element' = Put(element, dest, h) /\ bound' = Put(bound, dest, Unit)
  BY DEF Store, Inv, Running
<1>2. \A k \in 0 .. 9 : In(h, k, Settled(k))
  <2>1. CASE call \in Products
    <3>1. Order = MulOrder
      BY <2>1 DEF Order, Products
    <3>2. pc \in 1 .. 13 /\ pc \notin 1 .. 12 /\ \A k \in 0 .. 9 : In(h, k, MulSize(pc)[k])
      BY <2>1, <3>1, OrdersReal DEF Store, Inv, Running
    <3>3. pc = 13
      BY <3>2, SMT
    <3>4. ASSUME NEW k \in 0 .. 9
          PROVE  MulSize(13)[k] \in Int /\ MulSize(13)[k] <= Settled(k) /\ Settled(k) \in Int
      BY SMT DEF MulSize, Settled, Tidy, Odd
    <3> QED
      BY <1>1, <3>2, <3>3, <3>4, SMT DEF In
  <2>2. CASE call = "frombytes"
    <3>1. Order = FromBytesOrder
      BY <2>2 DEF Order
    <3>2. pc \in 1 .. 11 /\ pc \notin 1 .. 10 /\ \A k \in 0 .. 9 : In(h, k, FromBytesSize(pc)[k])
      BY <2>2, <3>1, OrdersReal DEF Store, Inv, Running
    <3>3. pc = 11
      BY <3>2, SMT
    <3>4. ASSUME NEW k \in 0 .. 9
          PROVE  /\ FromBytesSize(11)[k] \in Int /\ FromBytesSize(11)[k] <= Settled(k)
                 /\ Settled(k) \in Int
      BY SMT DEF FromBytesSize, Settled, Tidy, Odd
    <3> QED
      BY <1>1, <3>2, <3>3, <3>4, SMT DEF In
  <2> QED
    BY <2>1, <2>2 DEF Store, Multiplying, Products
<1>3. ASSUME NEW k \in 0 .. 9
      PROVE  Sized(h, k, Unit)
  <2>1. h[k] \in Int /\ In(h, k, Settled(k)) /\ Unit = 33889976
    BY <1>1, <1>2 DEF RealSize
  <2> QED
    BY <2>1, SMT DEF Sized, In, Settled
<1>4. Unit \in 0 .. MulBound
  <2>1. Unit \in Int /\ MulBound \in Int /\ 0 <= Unit /\ Unit <= MulBound
    BY SMT DEF RealSize
  <2> QED
    BY <2>1, SMT
<1>5. Elements' /\ WithinBounds'
  BY <1>1, <1>3, <1>4, PutKeeps DEF Inv
<1>6. Running'
  BY <1>1 DEF Running, Products, Writers
<1> QED
  BY <1>5, <1>6 DEF Inv
\* More than a limb in fe_tobytes, with a carry, and all that is left of it after one.
Small == 80000000
Kept  == 67108864

\* The carries of fe_tobytes, and the steps of its estimate, are small.
LEMMA FloorReal ==
  ASSUME RealSize, NEW n \in 0 .. 9, NEW x \in Int, -Small <= x, x <= Small
  PROVE  /\ x \div Radix[n] \in Int /\ -3 <= x \div Radix[n] /\ x \div Radix[n] <= 3
         /\ 0 <= x - (x \div Radix[n]) * Radix[n]
         /\ x - (x \div Radix[n]) * Radix[n] <= Kept
<1>1. CASE n % 2 = 1
  <2>1. Radix[n] = 33554432
    BY <1>1, SMT DEF RealSize
  <2> QED
    BY <2>1, SMT DEF Small, Kept
<1>2. CASE n % 2 # 1
  <2>1. Radix[n] = 67108864
    BY <1>2, SMT DEF RealSize
  <2> QED
    BY <2>1, SMT DEF Small, Kept
<1> QED
  BY <1>1, <1>2

LEMMA ToBytesKeeps ==
  ASSUME RealSize, Inv, ToBytes
  PROVE  Inv'
<1>1. /\ "f" \in DOMAIN element /\ bound["f"] <= ToBytesBound /\ call' \in Writers
      /\ h' = element["f"] /\ pc' = 0 /\ dest' = dest
      /\ q' = (Red * h'[N - 1] + Radix[N - 1] \div 2) \div Radix[N - 1]
  BY DEF ToBytes, Writers
<1>2. Elements' /\ WithinBounds'
  BY ElementsUnchanged DEF ToBytes, Inv
<1>3. /\ h' \in [0 .. 9 -> Int] /\ bound["f"] \in Nat
      /\ \A k \in 0 .. 9 : Sized(h', k, bound["f"])
  BY <1>1, ElementSized DEF Inv
<1>4. bound["f"] <= 73819750
  BY <1>1, SMT DEF RealSize
<1>5. ASSUME NEW k \in 0 .. 9
      PROVE  In(h', k, Room(0, k))
  <2>1. h'[k] \in Int /\ Sized(h', k, bound["f"])
    BY <1>3
  <2> QED
    BY <1>3, <1>4, <2>1, SMT DEF Sized, In, Room
<1>6. q' \in -100 .. 100
  <2>1. q' = (19 * h'[9] + Radix[9] \div 2) \div Radix[9]
    <3>1. N - 1 = 9 /\ Red = 19
      BY SMT DEF RealSize
    <3> QED
      BY <1>1, <3>1
  <2>2. h'[9] \in Int /\ -36909875 <= h'[9] /\ h'[9] <= 36909875
    <3>1. Odd(9)
      BY SMT DEF Odd
    <3>2. h'[9] \in Int /\ Sized(h', 9, bound["f"])
      BY <1>3
    <3> QED
      BY <1>3, <1>4, <3>1, <3>2, SMT DEF Sized
  <2>3. Radix[9] = 33554432
    BY SMT DEF RealSize
  <2> QED
    BY <2>1, <2>2, <2>3, SMT
<1>7. pc' \in 0 .. 20
  BY <1>1, SMT
<1>8. Running'
  BY <1>1, <1>3, <1>5, <1>6, <1>7, Zenon DEF Running, Inv, In, Products, Writers
<1> QED
  BY <1>2, <1>8 DEF Inv

LEMMA QuotientKeeps ==
  ASSUME RealSize, Inv, Quotient
  PROVE  Inv'
<1>1. /\ call \in Writers /\ call' = call /\ dest' = dest /\ pc' = pc + 1
      /\ q' = (h[pc] + q) \div Radix[pc]
      /\ h' = IF pc = 9 THEN [h EXCEPT ![0] = @ + 19 * q'] ELSE h
  <2>1. N - 1 = 9 /\ Red = 19
    BY SMT DEF RealSize
  <2> QED
    BY <2>1 DEF Quotient, Writing, Writers
<1>2. pc \in 0 .. 9
  BY LimbsReal DEF Quotient
<1>3. /\ h \in [0 .. 9 -> Int] /\ q \in -100 .. 100 /\ dest \in {"f", "g"}
      /\ \A k \in 0 .. 9 : In(h, k, Room(pc, k))
  BY <1>1 DEF Inv, Running
<1>4. Elements' /\ WithinBounds'
  BY ElementsUnchanged DEF Quotient, Inv
<1>5. \A k \in 0 .. 9 : h[k] \in Int /\ In(h, k, 73819750)
  BY <1>2, <1>3, SMT DEF Room
<1>6. q' \in Int /\ -3 <= q' /\ q' <= 3
  <2>1. h[pc] + q \in Int /\ -Small <= h[pc] + q /\ h[pc] + q <= Small
    BY <1>2, <1>3, <1>5, SMT DEF In, Small
  <2> QED
    BY <1>1, <1>2, <2>1, FloorReal
<1>7. h' \in [0 .. 9 -> Int]
  BY <1>1, <1>3, <1>6, SMT
<1>8. ASSUME NEW k \in 0 .. 9
      PROVE  In(h', k, Room(pc', k))
  <2>1. CASE pc = 9 /\ k = 0
    <3>1. h'[0] = h[0] + 19 * q' /\ pc' = 10
      BY <1>1, <1>3, <2>1, SMT
    <3>2. h[0] \in Int /\ In(h, 0, 73819750)
      BY <1>5
    <3> QED
      BY <1>6, <2>1, <3>1, <3>2, SMT DEF In, Room
  <2>2. CASE ~(pc = 9 /\ k = 0)
    <3>1. h'[k] = h[k]
      BY <1>1, <1>3, <2>2
    <3>2. h[k] \in Int /\ In(h, k, 73819750)
      BY <1>5
    <3> QED
      BY <1>1, <1>2, <3>1, <3>2, SMT DEF In, Room
  <2> QED
    BY <2>1, <2>2
<1>9. pc' \in 0 .. 20 /\ q' \in -100 .. 100
  BY <1>1, <1>2, <1>6, SMT
<1>10. Running'
  BY <1>1, <1>3, <1>7, <1>8, <1>9, Zenon DEF Running, In, Products, Writers
<1> QED
  BY <1>4, <1>10 DEF Inv

LEMMA CarryFloorKeeps ==
  ASSUME RealSize, Inv, CarryFloor
  PROVE  Inv'
<1> DEFINE n == pc - 10
           c == h[n] \div Radix[n]
<1>1. /\ call \in Writers /\ call' = call /\ dest' = dest /\ pc' = pc + 1 /\ q' = q
      /\ pc \in 10 .. 19
      /\ h' = [k \in 0 .. 9 |->
                IF k = n THEN h[k] - c * Radix[n] ELSE IF k = n + 1 THEN h[k] + c ELSE h[k]]
  <2>1. N = 10 /\ 2 * N - 1 = 19 /\ Limbs = 0 .. 9
    BY LimbsReal, SMT DEF RealSize
  <2> QED
    BY <2>1 DEF CarryFloor, Writing, Writers
<1>2. n \in 0 .. 9
  BY <1>1, SMT
<1>3. /\ h \in [0 .. 9 -> Int] /\ q \in -100 .. 100 /\ dest \in {"f", "g"}
      /\ \A k \in 0 .. 9 : In(h, k, Room(pc, k))
  BY <1>1 DEF Inv, Running
<1>4. Elements' /\ WithinBounds'
  BY ElementsUnchanged DEF CarryFloor, Inv
<1>5. /\ c \in Int /\ -3 <= c /\ c <= 3
      /\ 0 <= h[n] - c * Radix[n] /\ h[n] - c * Radix[n] <= Kept
      /\ h[n] - c * Radix[n] \in Int
  <2>1. h[n] \in Int /\ -Small <= h[n] /\ h[n] <= Small
    <3>1. h[n] \in Int /\ In(h, n, Room(pc, n))
      BY <1>2, <1>3
    <3> QED
      BY <1>1, <3>1, SMT DEF In, Room, Small
  <2>2. Radix[n] \in Int
    BY <1>2, SMT DEF RealSize
  <2>3. /\ c \in Int /\ -3 <= c /\ c <= 3
        /\ 0 <= h[n] - c * Radix[n] /\ h[n] - c * Radix[n] <= Kept
    BY <1>2, <2>1, FloorReal
  <2> HIDE DEF c, n
  <2>4. h[n] - c * Radix[n] \in Int
    BY <2>1, <2>2, <2>3, SMT
  <2> QED
    BY <2>3, <2>4
<1> HIDE DEF c
<1>6. ASSUME NEW k \in 0 .. 9
      PROVE  h'[k] \in Int /\ In(h', k, Room(pc', k))
  <2>1. h[k] \in Int /\ In(h, k, Room(pc, k))
    BY <1>3
  <2>2. CASE k = n
    <3>1. h'[k] = h[n] - c * Radix[n]
      BY <1>1, <2>2
    <3> DEFINE rest == h[n] - c * Radix[n]
    <3>2. h'[k] = rest /\ rest \in Int /\ 0 <= rest /\ rest <= Kept
      BY <1>5, <3>1
    <3> HIDE DEF rest
    <3> QED
      BY <1>1, <3>2, SMT DEF In, Room, Kept
  <2>3. CASE k = n + 1
    <3>1. h'[k] = h[k] + c /\ k # pc - 10 /\ k = pc' - 10 /\ pc >= 10 /\ pc' >= 10
      BY <1>1, <2>3, SMT
    <3> QED
      BY <1>1, <1>5, <2>1, <3>1, SMT DEF In, Room
  <2>4. CASE k # n /\ k # n + 1
    <3>1. h'[k] = h[k]
      BY <1>1, <2>4
    <3> QED
      BY <1>1, <2>1, <2>4, <3>1, SMT DEF In, Room
  <2> QED
    BY <2>2, <2>3, <2>4
<1>7. h' \in [0 .. 9 -> Int]
  BY <1>1, <1>6
<1>8. pc' \in 0 .. 20
  BY <1>1, SMT
<1>9. Running'
  BY <1>1, <1>3, <1>6, <1>7, <1>8, Zenon DEF Running, In, Products, Writers
<1> QED
  BY <1>4, <1>9 DEF Inv

LEMMA NextKeeps ==
  ASSUME RealSize, FieldAssumption, Inv, [Next]_vars
  PROVE  Inv'
<1>1. CASE UNCHANGED <<element, bound, call, dest, h, q, pc>>
  BY <1>1, ElementsUnchanged, RunningUnchanged DEF Inv
<1>2. Pack \/ VerifyByte \/ VerifyReturn \/ Finished \/ UNCHANGED vars
        => UNCHANGED <<element, bound, call, dest, h, q, pc>>
  BY DEF Pack, VerifyByte, VerifyReturn, Finished, vars, field
<1> QED
  BY <1>1, <1>2, FromBytesKeeps, ProductsKeep, AddSubKeep, NegKeeps, CopyKeeps, ConstantKeeps,
     CarryKeeps, StoreKeeps, ToBytesKeeps, QuotientKeeps, CarryFloorKeeps DEF Next

\* The strengthened invariant of FieldLimbs holds of every run, at the size of fe.h.
THEOREM Invariant ==
  ASSUME RealSize
  PROVE  Spec => []Inv
<1>1. Init => Inv
  BY InitInv
<1>2. Inv /\ [Next]_vars => Inv'
  BY FieldAssumption, NextKeeps
<1> QED
  BY <1>1, <1>2, PTL DEF Spec

\* fe_mul.c, fe_sq.c, fe_sq2.c and fe_frombytes.c keep the bounds of their postconditions,
\* and every sum of their results those that are counted for it, however the calls follow
\* one another and whatever is read.
THEOREM BoundsKept ==
  ASSUME RealSize
  PROVE  Spec => []WithinBounds
<1>1. Inv => WithinBounds
  BY DEF Inv
<1> QED
  BY <1>1, Invariant, PTL
LEMMA SizesFilled ==
  ASSUME NEW k \in 0 .. 9
  PROVE  /\ \A p \in 1 .. 13 : MulSize(p)[k] \in Nat /\ MulSize(p)[k] <= Filled
         /\ \A p \in 1 .. 11 : FromBytesSize(p)[k] \in Nat /\ FromBytesSize(p)[k] <= Filled
<1>1. \A p \in 1 .. 13 : MulSize(p)[k] \in Nat /\ MulSize(p)[k] <= Filled
  BY SMT DEF MulSize, Raw, Filled, Loaded3, Tidy, Settled, Odd
<1>2. \A p \in 1 .. 11 : FromBytesSize(p)[k] \in Nat /\ FromBytesSize(p)[k] <= Filled
  BY SMT DEF FromBytesSize, Read, Filled, Loaded3, Tidy, Settled, Odd
<1> QED
  BY <1>1, <1>2

LEMMA InvFits ==
  ASSUME RealSize, Inv
  PROVE  NoOverflow
<1>1. Limbs = 0 .. 9
  BY LimbsReal
<1>2. ASSUME NEW r \in DOMAIN element, NEW k \in Limbs
      PROVE  LET size == (IF Odd(k) THEN 2 * Red ELSE Red) * element[r][k]
             IN -IntMax <= size /\ size <= IntMax
  <2>1. /\ element[r][k] \in Int /\ Red = 19 /\ IntMax = 2147483647
        /\ IF Odd(k) THEN In(element[r], k, 55364812) ELSE In(element[r], k, 110729625)
    BY <1>1, ElementFits DEF Inv, Fitting, RealSize
  <2> QED
    BY <2>1, SMT DEF In
<1>3. ASSUME Multiplying, NEW k \in Limbs
      PROVE  -LongMax <= h[k] /\ h[k] + Radix[k] \div 2 <= LongMax
  <2>1. h[k] \in Int /\ In(h, k, Filled)
    <3>1. h[k] \in Int /\ k \in 0 .. 9
      BY <1>1 DEF Inv, Running
    <3>2. CASE call \in Products
      <4>1. pc \in 1 .. 13 /\ In(h, k, MulSize(pc)[k])
        BY <3>1, <3>2 DEF Inv, Running
      <4>2. MulSize(pc)[k] \in Nat /\ MulSize(pc)[k] <= Filled
        BY <3>1, <4>1, SizesFilled
      <4> QED
        BY <3>1, <4>1, <4>2, SMT DEF In, Filled
    <3>3. CASE call = "frombytes"
      <4>1. pc \in 1 .. 11 /\ In(h, k, FromBytesSize(pc)[k])
        BY <3>1, <3>3 DEF Inv, Running
      <4>2. FromBytesSize(pc)[k] \in Nat /\ FromBytesSize(pc)[k] <= Filled
        BY <3>1, <4>1, SizesFilled
      <4> QED
        BY <3>1, <4>1, <4>2, SMT DEF In, Filled
    <3> QED
      BY <1>3, <3>2, <3>3 DEF Multiplying, Products
  <2>2. /\ Radix[k] \in Int /\ Radix[k] <= 67108864
        /\ LongMax \in Int /\ 4000000000000000000 <= LongMax
    BY <1>1, SMT DEF RealSize
  <2> QED
    BY <2>1, <2>2, SMT DEF In, Filled
<1>4. ASSUME Writing, NEW k \in Limbs
      PROVE  -IntMax <= h[k] + q /\ h[k] + q <= IntMax
  <2>1. call \in Writers
    BY <1>4 DEF Writing, Writers
  <2>2. /\ h[k] \in Int /\ In(h, k, Room(pc, k)) /\ q \in -100 .. 100
        /\ k \in 0 .. 9 /\ pc \in 0 .. 20
    BY <1>1, <2>1 DEF Inv, Running
  <2>3. IntMax = 2147483647
    BY DEF RealSize
  <2> QED
    BY <2>2, <2>3, SMT DEF In, Room
<1> QED
  BY <1>2, <1>3, <1>4 DEF NoOverflow

\* At the size of fe.h nothing in fe_* leaves its integer type: the multiples by 19 and 38
\* of fe_mul.c fit into an int32, its sums of products and their carries into an int64
\* that holds 4 * 10^18, and the estimate of fe_tobytes.c into an int32, however the calls
\* follow one another as long as the arguments keep to the documented bounds.
THEOREM NothingOverflows ==
  ASSUME RealSize
  PROVE  Spec => []NoOverflow
<1>1. Inv => NoOverflow
  BY InvFits
<1> QED
  BY <1>1, Invariant, PTL
-----------------------------------------------------------------------------
\* The number that limbs stand for, and congruence modulo p.
Place(k)  == 2^Weight(k)
Terms(v)  == [k \in 0 .. 9 |-> v[k] * Place(k)]
Value(v)  == Total(Terms(v), 10)
Cong(a, b) == a \in Int /\ b \in Int /\ \E m \in Int : a = b + m * P

LEMMA ModulusReal ==
  ASSUME RealSize
  PROVE  /\ Bits = 255 /\ P \in Nat \ {0} /\ 19 < P /\ 2^Bits = P + 19 /\ 2^Bits \in Nat \ {0}
         /\ Digits = 64
<1>1. Bits = 255 /\ Red = 19
  BY WeightsReal, SMT DEF RealSize
<1>2. PICK b \in Nat \ {0} : b = 2^255
  BY PowPositive, 255 \in Nat
<1>3. 64 <= b
  <2>1. 2^6 <= 2^255
    BY PowMono, 6 \in Nat, 255 \in Nat, 6 <= 255
  <2>2. 2^6 = 64
    BY SMT
  <2> QED
    BY ONLY <1>2, <2>1, <2>2
<1>4. P = b - 19
  BY <1>1, <1>2 DEF P
<1>5. Digits = 64
  BY <1>1 DEF Digits
<1>6. 2^Bits = b
  BY <1>1, <1>2
<1>7. P \in Nat \ {0} /\ 19 < P /\ b = P + 19
  <2>1. b \in Nat
    OBVIOUS
  <2> QED
    BY ONLY <1>3, <1>4, <2>1
<1> QED
  BY ONLY <1>1, <1>5, <1>6, <1>7, b \in Nat \ {0}, Zenon

LEMMA WeightForm ==
  ASSUME RealSize
  PROVE  \A k \in 0 .. 9 : Weight(k) = 25 * k + (k + 1) \div 2
<1> SUFFICES ASSUME NEW k \in 0 .. 9 PROVE Weight(k) = 25 * k + (k + 1) \div 2
  OBVIOUS
<1>1. k = 0 \/ k = 1 \/ k = 2 \/ k = 3 \/ k = 4 \/ k = 5 \/ k = 6 \/ k = 7 \/ k = 8 \/ k = 9
  OBVIOUS
<1> QED
  BY <1>1, WeightsReal

LEMMA PlacesReal ==
  ASSUME RealSize
  PROVE  /\ \A k \in 0 .. 9 : Weight(k) \in Nat /\ Place(k) \in Nat \ {0}
         /\ \A k \in 0 .. 8 : Place(k + 1) = Radix[k] * Place(k)
         /\ 2^Bits = Radix[9] * Place(9)
         /\ Place(0) = 1
<1>1. \A k \in 0 .. 9 : Weight(k) \in Nat
  BY WeightForm
<1>2. \A k \in 0 .. 9 : Place(k) \in Nat \ {0}
  BY <1>1, PowPositive DEF Place
<1>3. ASSUME NEW k \in 0 .. 9, NEW n \in Nat, n = IF k % 2 = 1 THEN 25 ELSE 26
      PROVE  2^(n + Weight(k)) = Radix[k] * Place(k)
  <2>1. PICK w \in Nat : w = Weight(k)
    BY <1>1
  <2>2. 2^(n + w) = 2^n * 2^w
    BY ONLY <2>1, <1>3, PowSum
  <2>3. Radix[k] = IF k % 2 = 1 THEN 33554432 ELSE 67108864
    BY SMT DEF RealSize
  <2>4. 2^25 = 33554432 /\ 2^26 = 67108864
    BY SMT
  <2>5. 2^n = Radix[k]
    <3>1. CASE k % 2 = 1
      BY <3>1, <1>3, <2>3, <2>4
    <3>2. CASE k % 2 # 1
      BY <3>2, <1>3, <2>3, <2>4
    <3> QED
      BY <3>1, <3>2
  <2> QED
    BY <2>1, <2>2, <2>5 DEF Place
<1>4. ASSUME NEW k \in 0 .. 8
      PROVE  Place(k + 1) = Radix[k] * Place(k)
  <2>1. PICK n \in Nat : n = IF k % 2 = 1 THEN 25 ELSE 26
    OBVIOUS
  <2>2. Weight(k + 1) = n + Weight(k)
    BY <2>1, WeightForm
  <2> QED
    BY <1>3, <2>1, <2>2 DEF Place
<1>5. 2^Bits = Radix[9] * Place(9)
  <2>1. Bits = 25 + Weight(9)
    BY WeightsReal
  <2> QED
    BY <1>3, <2>1
<1>6. Place(0) = 1
  BY WeightsReal, 2^0 = 1 DEF Place
<1> QED
  BY <1>1, <1>2, <1>4, <1>5, <1>6
-----------------------------------------------------------------------------
LEMMA CongSame ==
  ASSUME P \in Nat \ {0}, NEW a \in Int, NEW b \in Int
  PROVE  /\ Cong(a, a)
         /\ Cong(a, b) => Cong(b, a) /\ a % P = b % P
         /\ Cong(a % P, a)
<1>1. PICK d \in Nat \ {0} : d = P
  OBVIOUS
<1>2. Cong(a, a)
  BY <1>1, a = a + 0 * P DEF Cong
<1>3. ASSUME Cong(a, b) PROVE Cong(b, a) /\ a % P = b % P
  <2>1. PICK m \in Int : a = b + m * P
    BY <1>3 DEF Cong
  <2>2. b = a + (-m) * P /\ -m \in Int
    BY <1>1, <2>1
  <2>3. PICK u \in Int, w \in Nat : w = b % d /\ w < d /\ b = d * u + w
    BY DivMod
  <2>4. PICK z \in Int : z = u + m
    OBVIOUS
  <2>5. a = d * z + w
    BY <1>1, <2>1, <2>3, <2>4, MulFacts
  <2>6. (d * z + w) % d = w
    BY ONLY <2>3, <2>4, DivModUnique, <1>1
  <2> QED
    BY <1>1, <2>2, <2>3, <2>5, <2>6 DEF Cong
<1>4. Cong(a % P, a)
  <2>1. PICK u \in Int, w \in Nat : w = a % d /\ w < d /\ a = d * u + w
    BY DivMod
  <2>2. w = a + (-u) * d /\ -u \in Int
    BY <1>1, <2>1, MulFacts
  <2>3. a % P = w /\ w \in Int
    BY <1>1, <2>1
  <2> QED
    BY <1>1, <2>2, <2>3 DEF Cong
<1> QED
  BY <1>2, <1>3, <1>4

LEMMA CongTrans ==
  ASSUME P \in Nat \ {0}, NEW a, NEW b, NEW c, Cong(a, b), Cong(b, c)
  PROVE  Cong(a, c)
<1>1. PICK m \in Int : a = b + m * P
  BY DEF Cong
<1>2. PICK n \in Int : b = c + n * P
  BY DEF Cong
<1>3. a \in Int /\ b \in Int /\ c \in Int
  BY DEF Cong
<1>4. m + n \in Int /\ (m + n) * P = m * P + n * P /\ m * P \in Int /\ n * P \in Int
  OBVIOUS
<1>5. a = c + (m + n) * P
  BY <1>1, <1>2, <1>3, <1>4
<1> QED
  BY <1>3, <1>4, <1>5 DEF Cong

LEMMA CongSum ==
  ASSUME P \in Nat \ {0}, NEW a, NEW b, NEW c, NEW d, Cong(a, b), Cong(c, d)
  PROVE  Cong(a + c, b + d) /\ Cong(a - c, b - d)
<1>1. PICK m \in Int : a = b + m * P
  BY DEF Cong
<1>2. PICK n \in Int : c = d + n * P
  BY DEF Cong
<1>3. a \in Int /\ b \in Int /\ c \in Int /\ d \in Int
  BY DEF Cong
<1>4. /\ m + n \in Int /\ (m + n) * P = m * P + n * P /\ m * P \in Int /\ n * P \in Int
      /\ m - n \in Int /\ (m - n) * P = m * P - n * P
  OBVIOUS
<1>5. a + c = b + d + (m + n) * P /\ a - c = b - d + (m - n) * P
  BY <1>1, <1>2, <1>3, <1>4
<1>6. a + c \in Int /\ b + d \in Int /\ a - c \in Int /\ b - d \in Int
  BY <1>3
<1> QED
  BY ONLY <1>4, <1>5, <1>6, Zenon DEF Cong

LEMMA CongProduct ==
  ASSUME P \in Nat \ {0}, NEW a, NEW b, NEW c, NEW d, Cong(a, b), Cong(c, d)
  PROVE  Cong(a * c, b * d)
<1>1. PICK m \in Int : a = b + m * P
  BY DEF Cong
<1>2. PICK n \in Int : c = d + n * P
  BY DEF Cong
<1>3. a \in Int /\ b \in Int /\ c \in Int /\ d \in Int /\ P \in Int
  BY DEF Cong
<1>4. a * c = b * c + (m * c) * P
  <2>1. a * c = (b + m * P) * c
    BY <1>1
  <2>2. (b + m * P) * c = b * c + (m * P) * c
    BY <1>3
  <2>3. (m * P) * c = (m * c) * P
    BY <1>3
  <2> QED
    BY <2>1, <2>2, <2>3
<1>5. b * c = b * d + (b * n) * P
  <2>1. b * c = b * (d + n * P)
    BY <1>2
  <2>2. b * (d + n * P) = b * d + b * (n * P)
    BY <1>3
  <2>3. b * (n * P) = (b * n) * P
    BY <1>3, MulAssoc
  <2> QED
    BY <2>1, <2>2, <2>3
<1>6. PICK u \in Int, w \in Int : u = m * c /\ w = b * n
  BY <1>3
<1>7. (u + w) * P = u * P + w * P /\ u * P \in Int /\ w * P \in Int
  BY <1>3
<1>8. b * d \in Int /\ a * c \in Int
  BY <1>3
<1>9. a * c = b * d + (u + w) * P
  BY <1>4, <1>5, <1>6, <1>7, <1>8
<1>10. u + w \in Int
  BY <1>6
<1> QED
  BY ONLY <1>8, <1>9, <1>10, Zenon DEF Cong

\* Sums whose terms are congruent.
AllCong(f, g, n) == \A k \in 0 .. n - 1 : Cong(f[k], g[k])

LEMMA CongTotal ==
  ASSUME P \in Nat \ {0}, NEW n \in Nat, NEW f, NEW g, AllCong(f, g, n)
  PROVE  Cong(Total(f, n), Total(g, n))
<1>1. \A k \in 0 .. n - 1 : f[k] \in Int /\ g[k] \in Int /\ \E m \in Int : f[k] = g[k] + m * P
  BY Zenon DEF AllCong, Cong
<1> DEFINE e == [k \in 0 .. n - 1 |-> CHOOSE m \in Int : f[k] = g[k] + m * P]
<1>2. \A k \in 0 .. n - 1 : e[k] \in Int /\ f[k] = g[k] + e[k] * P
  BY <1>1, Zenon
<1> HIDE DEF e
<1>3. \A k \in 0 .. n - 1 : f[k] = g[k] + P * e[k]
  BY <1>2
<1>4. P \in Int
  OBVIOUS
<1>5. Total(f, n) = Total(g, n) + P * Total(e, n)
  <2>1. \A k \in 0 .. n - 1 : g[k] \in Int /\ e[k] \in Int /\ f[k] = g[k] + P * e[k]
    BY <1>1, <1>2, <1>3
  <2> QED
    BY ONLY <1>4, <2>1, n \in Nat, TotalLinear
<1>6. Total(f, n) \in Int /\ Total(g, n) \in Int /\ Total(e, n) \in Int
  <2>1. \A k \in 0 .. n - 1 : f[k] \in Int
    BY <1>1
  <2>2. \A k \in 0 .. n - 1 : g[k] \in Int
    BY <1>1
  <2>3. \A k \in 0 .. n - 1 : e[k] \in Int
    BY <1>2
  <2> QED
    BY ONLY <2>1, <2>2, <2>3, n \in Nat, TotalNext
<1>7. P * Total(e, n) = Total(e, n) * P
  BY <1>6
<1> QED
  BY <1>5, <1>6, <1>7 DEF Cong
-----------------------------------------------------------------------------
\* Horner's rule computes products modulo p.
Rest(b, j) == b \div 2^(4 * (64 - j))

LEMMA RestSteps ==
  ASSUME RealSize, NEW b \in Nat, b < P
  PROVE  /\ Rest(b, 0) = 0 /\ Rest(b, 64) = b
         /\ \A j \in 0 .. 64 : Rest(b, j) \in Nat
         /\ \A j \in 1 .. 64 : Rest(b, j) = 16 * Rest(b, j - 1) + (Rest(b, j) % 16)
                               /\ Rest(b, j) % 16 \in Nat
<1>1. \A j \in 0 .. 64 : Rest(b, j) \in Nat
  <2> SUFFICES ASSUME NEW j \in 0 .. 64 PROVE Rest(b, j) \in Nat
    OBVIOUS
  <2>1. PICK n \in Nat : n = 4 * (64 - j)
    OBVIOUS
  <2>2. PICK d \in Nat \ {0} : d = 2^n
    BY PowPositive
  <2>3. b \div d \in Nat
    BY DivMod
  <2> QED
    BY <2>1, <2>2, <2>3 DEF Rest
<1>2. Rest(b, 0) = 0
  <2>1. PICK d \in Nat \ {0} : d = 2^256
    BY PowPositive, 256 \in Nat
  <2>2. 2^255 <= 2^256
    BY PowMono, 255 \in Nat, 256 \in Nat, 255 <= 256
  <2>3. b < d
    <3>1. PICK c \in Nat : c = 2^255
      BY PowPositive, 255 \in Nat
    <3>2. c = P + 19 /\ P \in Nat
      BY <3>1, ModulusReal
    <3> QED
      <4>1. c <= d
        BY ONLY <2>1, <2>2, <3>1, Zenon
      <4> QED
        BY ONLY <3>2, <4>1, b < P, b \in Nat, c \in Nat, d \in Nat \ {0}
  <2>4. b \div d = 0
    BY <2>3, SmallDiv
  <2> QED
    BY <2>1, <2>4, 4 * (64 - 0) = 256 DEF Rest
<1>3. Rest(b, 64) = b
  BY 4 * (64 - 64) = 0, 2^0 = 1, b \div 1 = b DEF Rest
<1>4. ASSUME NEW j \in 1 .. 64
      PROVE  /\ Rest(b, j) = 16 * Rest(b, j - 1) + (Rest(b, j) % 16)
             /\ Rest(b, j) % 16 \in Nat
  <2>1. PICK n \in Nat : n = 4 * (64 - j)
    OBVIOUS
  <2>2. PICK d \in Nat \ {0} : d = 2^n
    BY PowPositive
  <2>3. 2^(n + 4) = d * 16
    <3>1. 2^(n + 4) = 2^n * 2^4
      BY PowSum, 4 \in Nat
    <3>2. 2^4 = 16
      BY SMT
    <3> QED
      BY <2>2, <3>1, <3>2
  <2>4. Rest(b, j) = b \div d
    BY <2>1, <2>2 DEF Rest
  <2>5. Rest(b, j - 1) = b \div (d * 16)
    <3>1. 4 * (64 - (j - 1)) = n + 4
      BY <2>1
    <3> QED
      BY <2>3, <3>1 DEF Rest
  <2>6. (b \div d) \div 16 = b \div (d * 16)
    <3>1. PICK c \in Nat \ {0} : c = 16
      OBVIOUS
    <3>2. PICK m \in Int : m = b
      OBVIOUS
    <3>3. (m \div d) \div c = m \div (d * c)
      BY ONLY c \in Nat \ {0}, m \in Int, d \in Nat \ {0}, DivDiv
    <3> QED
      BY <3>1, <3>2, <3>3
  <2>7. PICK z \in Int : z = b \div d
    BY DivMod
  <2>8. z % 16 \in Nat /\ z = 16 * (z \div 16) + (z % 16)
    BY <2>7
  <2> QED
    BY <2>4, <2>5, <2>6, <2>7, <2>8
<1> QED
  BY <1>1, <1>2, <1>3, <1>4

LEMMA TimesModIs ==
  ASSUME RealSize, NEW a \in Int, NEW b \in Nat, b < P
  PROVE  TimesMod(a, b) = (a * b) % P
<1>p. P \in Nat \ {0} /\ Digits = 64
  BY ModulusReal
<1> DEFINE F == [j \in 0 .. 64 |-> (a * Rest(b, j)) % P]
           Steps(g) == g = [j \in 0 .. Digits |->
                             IF j = 0 THEN 0
                             ELSE (16 * g[j - 1] + ((b \div 2^(4 * (Digits - j))) % 16) * a) % P]
           u == CHOOSE g : Steps(g)
<1>1. F[0] = 0 /\ F[64] = (a * b) % P
  <2>1. a * 0 = 0
    OBVIOUS
  <2>2. 0 % P = 0
    <3>1. 0 \in Nat
      OBVIOUS
    <3>2. PICK d \in Nat \ {0} : d = P
      BY <1>p
    <3>3. 0 < d
      OBVIOUS
    <3>4. 0 % d = 0
      BY ONLY <3>1, d \in Nat \ {0}, <3>3, SmallDiv
    <3> QED
      BY <3>2, <3>4
  <2>3. Rest(b, 0) = 0 /\ Rest(b, 64) = b
    BY RestSteps
  <2> QED
    BY <2>1, <2>2, <2>3
<1>2. ASSUME NEW j \in 1 .. 64
      PROVE  F[j] = (16 * F[j - 1] + (Rest(b, j) % 16) * a) % P
  <2>1. PICK m \in Nat, n \in Nat, k \in Nat :
          m = Rest(b, j) /\ n = Rest(b, j - 1) /\ k = Rest(b, j) % 16 /\ m = 16 * n + k
    <3>1. Rest(b, j) \in Nat /\ Rest(b, j - 1) \in Nat /\ Rest(b, j) % 16 \in Nat
          /\ Rest(b, j) = 16 * Rest(b, j - 1) + (Rest(b, j) % 16)
      <4>1. j \in 0 .. 64 /\ j - 1 \in 0 .. 64
        OBVIOUS
      <4> QED
        BY <4>1, RestSteps
    <3> QED
      BY <3>1
  <2>2. F[j] = (a * m) % P /\ F[j - 1] = (a * n) % P
    <3>1. j \in 0 .. 64 /\ j - 1 \in 0 .. 64
      OBVIOUS
    <3>2. F[j] = (a * Rest(b, j)) % P /\ F[j - 1] = (a * Rest(b, j - 1)) % P
      BY <3>1
    <3> QED
      BY <2>1, <3>2
  <2>3. a * m = 16 * (a * n) + k * a
    <3>1. a * (16 * n + k) = a * (16 * n) + a * k
      OBVIOUS
    <3>2. a * (16 * n) = 16 * (a * n) /\ a * k = k * a
      OBVIOUS
    <3> QED
      BY <2>1, <3>1, <3>2
  <2>4. PICK t \in Int, w \in Int : t = a * n /\ w = k * a
    OBVIOUS
  <2>5. Cong(t % P, t) /\ Cong(w, w) /\ Cong(16, 16) /\ t % P \in Int
    <3>1. 16 \in Int /\ t \in Int /\ w \in Int
      OBVIOUS
    <3>2. Cong(t % P, t) /\ Cong(w, w) /\ Cong(16, 16)
      BY ONLY <1>p, <3>1, CongSame
    <3> QED
      BY <3>2 DEF Cong
  <2>6. Cong(16 * (t % P), 16 * t)
    BY ONLY <1>p, <2>5, CongProduct
  <2>7. Cong(16 * (t % P) + w, 16 * t + w)
    BY ONLY <1>p, <2>5, <2>6, CongSum
  <2>8. 16 * (t % P) + w \in Int /\ 16 * t + w \in Int
    BY <2>4, <2>5
  <2>9. (16 * (t % P) + w) % P = (16 * t + w) % P
    <3>1. PICK l \in Int, z \in Int : l = 16 * (t % P) + w /\ z = 16 * t + w
      BY <2>8
    <3>2. Cong(l, z)
      BY <2>7, <3>1
    <3>3. l % P = z % P
      BY ONLY <1>p, l \in Int, z \in Int, <3>2, CongSame
    <3> QED
      BY <3>1, <3>3
  <2> QED
    BY <2>1, <2>2, <2>3, <2>4, <2>9
<1>f. F = [j \in 0 .. 64 |-> F[j]]
  OBVIOUS
<1> HIDE DEF F
<1>3. Steps(F)
  <2>1. \A j \in 0 .. 64 : F[j] = IF j = 0 THEN 0
                             ELSE (16 * F[j - 1] + (Rest(b, j) % 16) * a) % P
    BY <1>1, <1>2
  <2>2. F = [j \in 0 .. 64 |-> IF j = 0 THEN 0
                             ELSE (16 * F[j - 1] + (Rest(b, j) % 16) * a) % P]
    BY <1>f, <2>1
  <2> QED
    BY <1>p, <2>2, Zenon DEF Rest
<1>4. Steps(u)
  <2> HIDE DEF Steps
  <2> QED
    BY <1>3, Zenon
<1>5. TimesMod(a, b) = u[Digits]
  BY DEF TimesMod
<1> HIDE DEF u
<1>6. u[0] = 0 /\ \A j \in 1 .. 64 : u[j] = (16 * u[j - 1] + (Rest(b, j) % 16) * a) % P
  <2>1. u = [j \in 0 .. 64 |-> IF j = 0 THEN 0
                             ELSE (16 * u[j - 1] + (Rest(b, j) % 16) * a) % P]
    BY <1>p, <1>4, Zenon DEF Rest
  <2>2. \A j \in 0 .. 64 : u[j] = IF j = 0 THEN 0
                             ELSE (16 * u[j - 1] + (Rest(b, j) % 16) * a) % P
    BY <2>1, Zenon
  <2> QED
    BY <2>2
<1> DEFINE S == {j \in 0 .. 64 : u[j] = F[j]}
<1>7. 0 \in S
  BY <1>1, <1>6
<1>8. ASSUME NEW j \in 0 .. 64 - 1, j \in S
      PROVE  j + 1 \in S
  <2>1. j + 1 \in 1 .. 64 /\ (j + 1) - 1 = j
    OBVIOUS
  <2>2. u[j + 1] = (16 * u[j] + (Rest(b, j + 1) % 16) * a) % P
    BY <1>6, <2>1
  <2>3. F[j + 1] = (16 * F[j] + (Rest(b, j + 1) % 16) * a) % P
    BY <1>2, <2>1
  <2> QED
    BY <1>8, <2>1, <2>2, <2>3
<1> HIDE DEF S
<1>9. \A j \in 0 .. 64 : j \in S
  BY <1>7, <1>8, InductionTo, 64 \in Nat
<1>10. u[64] = F[64]
  BY <1>9 DEF S
<1> QED
  BY <1>p, <1>1, <1>5, <1>10
-----------------------------------------------------------------------------
LEMMA SumIsTotal ==
  ASSUME NEW t \in [0 .. 9 -> Int]
  PROVE  Sum(t) = Total(t, 10) /\ Total(t, 10) \in Int
<1>1. /\ \A k \in 0 .. 10 - 1 : t[k] \in Int
      /\ 10 \in Nat
  OBVIOUS
<1>2. /\ Total(t, 10) \in Int /\ Total(t, 0) = 0
      /\ \A k \in 0 .. 9 : Total(t, k) \in Int /\ Total(t, k + 1) = Total(t, k) + t[k]
  <2>1. /\ Total(t, 10) \in Int
        /\ \A k \in 0 .. 10 - 1 : Total(t, k) \in Int /\ Total(t, k + 1) = Total(t, k) + t[k]
    BY ONLY <1>1, TotalNext
  <2>2. Total(t, 0) = 0
    <3>1. 0 \in Nat /\ \A k \in 0 .. 0 - 1 : t[k] \in Int
      OBVIOUS
    <3> QED
      BY ONLY <3>1, TotalNext
  <2> QED
    BY <2>1, <2>2
<1>3. /\ Total(t, 1) = t[0] /\ Total(t, 2) = Total(t, 1) + t[1] /\ Total(t, 3) = Total(t, 2) + t[2]
      /\ Total(t, 4) = Total(t, 3) + t[3] /\ Total(t, 5) = Total(t, 4) + t[4]
      /\ Total(t, 6) = Total(t, 5) + t[5] /\ Total(t, 7) = Total(t, 6) + t[6]
      /\ Total(t, 8) = Total(t, 7) + t[7] /\ Total(t, 9) = Total(t, 8) + t[8]
      /\ Total(t, 10) = Total(t, 9) + t[9]
  BY <1>2
<1>4. Sum(t) = t[0] + t[1] + t[2] + t[3] + t[4] + t[5] + t[6] + t[7] + t[8] + t[9]
  BY SumOfTen
<1> QED
  BY <1>1, <1>2, <1>3, <1>4

LEMMA ValueInt ==
  ASSUME RealSize, NEW v \in [0 .. 9 -> Int]
  PROVE  /\ Terms(v) \in [0 .. 9 -> Int] /\ Value(v) \in Int
         /\ \A k \in 0 .. 9 : Terms(v)[k] = v[k] * Place(k)
<1>1. \A k \in 0 .. 9 : v[k] * Place(k) \in Int
  <2> SUFFICES ASSUME NEW k \in 0 .. 9 PROVE v[k] * Place(k) \in Int
    OBVIOUS
  <2>1. v[k] \in Int /\ Place(k) \in Int
    BY PlacesReal
  <2> QED
    BY <2>1, MulFacts
<1>2. Terms(v) \in [0 .. 9 -> Int] /\ \A k \in 0 .. 9 : Terms(v)[k] = v[k] * Place(k)
  BY <1>1 DEF Terms
<1>3. Value(v) \in Int
  BY <1>2, SumIsTotal DEF Value
<1> QED
  BY <1>2, <1>3

LEMMA ResidueIs ==
  ASSUME RealSize, NEW v \in [0 .. 9 -> Int]
  PROVE  Residue(v) = Value(v) % P
<1>p. P \in Nat \ {0}
  BY ModulusReal
<1> DEFINE t == [k \in 0 .. 9 |-> TimesMod(2^Weight(k), v[k] % P)]
<1>1. \A k \in 0 .. 9 : t[k] \in Int /\ Cong(t[k], Terms(v)[k])
  <2> SUFFICES ASSUME NEW k \in 0 .. 9 PROVE t[k] \in Int /\ Cong(t[k], Terms(v)[k])
    OBVIOUS
  <2>1. PICK w \in Int, z \in Int : w = Place(k) /\ z = v[k]
    BY PlacesReal
  <2>2. z % P \in Nat /\ z % P < P
    BY <1>p, DivMod
  <2>3. TimesMod(w, z % P) = (w * (z % P)) % P
    BY <2>2, TimesModIs
  <2>4. t[k] = (w * (z % P)) % P
    BY <2>1, <2>3 DEF Place
  <2>5. PICK c \in Int : c = w * (z % P)
    BY <2>2
  <2>6. Cong(c % P, c)
    BY ONLY <1>p, <2>5, CongSame
  <2>7. Cong(w, w) /\ Cong(z % P, z)
    BY ONLY <1>p, <2>1, <2>2, CongSame
  <2>8. Cong(w * (z % P), w * z)
    BY ONLY <1>p, <2>7, CongProduct
  <2>9. Cong(c % P, w * z)
    BY ONLY <1>p, <2>5, <2>6, <2>8, CongTrans
  <2>10. w * z = Terms(v)[k]
    BY <2>1, ValueInt
  <2> QED
    BY <2>4, <2>5, <2>9, <2>10 DEF Cong
<1>2. t \in [0 .. 9 -> Int]
  BY <1>1
<1>3. Residue(v) = Sum(t) % P
  BY LimbsReal DEF Residue
<1> HIDE DEF t
<1>4. AllCong(t, Terms(v), 10)
  BY <1>1 DEF AllCong
<1>5. Cong(Total(t, 10), Value(v))
  BY <1>p, <1>4, CongTotal, 10 \in Nat DEF Value
<1>6. Sum(t) = Total(t, 10) /\ Sum(t) \in Int /\ Value(v) \in Int
  BY <1>2, SumIsTotal, ValueInt
<1>7. PICK c \in Int, d \in Int : c = Sum(t) /\ d = Value(v)
  BY <1>6
<1>8. Cong(c, d)
  BY <1>5, <1>6, <1>7
<1>9. c % P = d % P
  BY ONLY <1>p, <1>8, c \in Int, d \in Int, CongSame
<1> QED
  BY <1>3, <1>7, <1>9
-----------------------------------------------------------------------------
\* No carry changes the number modulo p.
LEMMA CarryValue ==
  ASSUME RealSize, NEW v \in [0 .. 9 -> Int], NEW n \in 0 .. 9, NEW c \in Int
  PROVE  /\ Cong(Value(Carried(v, n, c)), Value(v))
         /\ n < 9 => Value(Carried(v, n, c)) = Value(v)
<1>p. P \in Nat \ {0} /\ 2^Bits = P + 19
  BY ModulusReal
<1> DEFINE u == Carried(v, n, c)
<1>1. /\ u \in [0 .. 9 -> Int]
      /\ u[n] = v[n] - c * Radix[n]
      /\ n < 9 => u[n + 1] = v[n + 1] + c
      /\ n = 9 => u[0] = v[0] + c * 19
      /\ \A k \in 0 .. 9 : k # n /\ k # n + 1 /\ ~(n = 9 /\ k = 0) => u[k] = v[k]
  BY CarriedReal
<1> HIDE DEF u
<1>2. /\ \A k \in 0 .. 9 : Terms(v)[k] = v[k] * Place(k) /\ Terms(v)[k] \in Int
      /\ \A k \in 0 .. 9 : Terms(u)[k] = u[k] * Place(k) /\ Terms(u)[k] \in Int
      /\ Value(v) \in Int /\ Value(u) \in Int
  BY <1>1, ValueInt
<1>3. PICK w \in Int, z \in Int : w = Place(n) /\ z = Radix[n]
  <2>1. Place(n) \in Int
    BY PlacesReal
  <2>2. Radix[n] \in Int
    BY SMT DEF RealSize
  <2> QED
    BY <2>1, <2>2
<1>4. PICK l \in Int : l = c * (z * w)
  OBVIOUS
<1>5. Terms(u)[n] = Terms(v)[n] - l
  <2>1. Terms(u)[n] = (v[n] - c * z) * w /\ Terms(v)[n] = v[n] * w /\ v[n] \in Int
    BY <1>1, <1>2, <1>3
  <2>2. (v[n] - c * z) * w = v[n] * w - (c * z) * w
    BY <2>1
  <2>3. (c * z) * w = c * (z * w)
    OBVIOUS
  <2> QED
    BY <1>4, <2>1, <2>2, <2>3
<1>6. CASE n < 9
  <2>1. PICK m \in 0 .. 9 : m = n + 1
    BY <1>6
  <2>2. Place(m) = z * w
    <3>1. n \in 0 .. 8
      BY <1>6
    <3> QED
      BY <1>3, <2>1, <3>1, PlacesReal
  <2>3. Terms(u)[m] = Terms(v)[m] + l
    <3>1. Terms(u)[m] = (v[m] + c) * (z * w) /\ Terms(v)[m] = v[m] * (z * w) /\ v[m] \in Int
      BY <1>1, <1>2, <1>6, <2>1, <2>2
    <3>2. PICK j \in Int : j = z * w
      OBVIOUS
    <3>3. (v[m] + c) * j = v[m] * j + c * j
      BY <3>1
    <3> QED
      BY <1>4, <3>1, <3>2, <3>3
  <2>4. \A k \in 0 .. 9 : k # n /\ k # m => Terms(u)[k] = Terms(v)[k]
    BY <1>1, <1>2, <2>1
  <2>5. MovedTo(Terms(v), Terms(u), 10, n, m, -l)
    <3>1. \A k \in 0 .. 10 - 1 : Terms(v)[k] \in Int
      BY <1>2
    <3>2. \A k \in 0 .. 10 - 1 : k # n /\ k # m => Terms(u)[k] = Terms(v)[k]
      BY <2>4
    <3>3. Terms(u)[n] = Terms(v)[n] + (-l) /\ Terms(u)[m] = Terms(v)[m] - (-l)
      BY <1>2, <1>5, <2>3
    <3>4. n \in 0 .. 10 - 1 /\ m \in 0 .. 10 - 1 /\ n < m /\ -l \in Int
      BY <1>6, <2>1
    <3> QED
      BY ONLY <3>1, <3>2, <3>3, <3>4, Zenon DEF MovedTo
  <2>6. Value(u) = Value(v)
    <3>1. 10 \in Nat
      OBVIOUS
    <3>2. Total(Terms(u), 10) = Total(Terms(v), 10)
      BY ONLY <2>5, <3>1, MovedTotal, Zenon
    <3> QED
      BY <3>2 DEF Value
  <2> QED
    BY <1>p, <1>2, <2>6, CongSame DEF u
<1>7. CASE n = 9
  <2>1. z * w = P + 19
    BY <1>p, <1>3, <1>7, PlacesReal
  <2>2. Terms(u)[0] = Terms(v)[0] + c * 19
    <3>1. Terms(u)[0] = u[0] * 1 /\ Terms(v)[0] = v[0] * 1 /\ u[0] = v[0] + c * 19 /\ v[0] \in Int
      BY <1>1, <1>2, <1>7, PlacesReal
    <3> QED
      BY <3>1
  <2> DEFINE g == [k \in 0 .. 9 |-> IF k = 0 THEN Terms(u)[0] ELSE Terms(v)[k]]
  <2>3. Bumped(Terms(v), g, 10, 0, c * 19)
    <3>1. \A k \in 0 .. 10 - 1 : Terms(v)[k] \in Int
      BY <1>2
    <3>2. \A k \in 0 .. 10 - 1 : k # 0 => g[k] = Terms(v)[k]
      OBVIOUS
    <3>3. 0 \in 0 .. 10 - 1 /\ c * 19 \in Int /\ g[0] = Terms(v)[0] + c * 19
      BY <2>2
    <3> HIDE DEF g
    <3> QED
      BY ONLY <3>1, <3>2, <3>3, Zenon DEF Bumped
  <2>4. Bumped(g, Terms(u), 10, 9, -l)
    <3>1. \A k \in 0 .. 10 - 1 : g[k] \in Int
      BY <1>2
    <3>2. \A k \in 0 .. 10 - 1 : k # 9 => Terms(u)[k] = g[k]
      BY <1>1, <1>2, <1>7
    <3>3. 9 \in 0 .. 10 - 1 /\ -l \in Int
      OBVIOUS
    <3>4. g[9] = Terms(v)[9] /\ Terms(v)[9] \in Int
      BY <1>2
    <3>5. Terms(u)[9] = g[9] + (-l)
      BY <1>5, <1>7, <3>4
    <3> HIDE DEF g
    <3> QED
      BY ONLY <3>1, <3>2, <3>3, <3>5, Zenon DEF Bumped
  <2> HIDE DEF g
  <2>5. Value(u) = Value(v) + c * 19 + (-l)
    <3>1. 10 \in Nat
      OBVIOUS
    <3>2. Total(g, 10) = Total(Terms(v), 10) + c * 19
      BY ONLY <2>3, <3>1, BumpedTotal, Zenon
    <3>3. Total(Terms(u), 10) = Total(g, 10) + (-l)
      BY ONLY <2>4, <3>1, BumpedTotal, Zenon
    <3> QED
      BY <3>2, <3>3 DEF Value
  <2>6. l = c * P + c * 19
    BY <1>p, <1>4, <2>1
  <2>7. Value(u) = Value(v) + (-c) * P /\ -c \in Int
    <3>1. c * P \in Int /\ (-c) * P = -(c * P)
      BY <1>p
    <3> QED
      BY <1>2, <2>5, <2>6, <3>1
  <2>8. Cong(Value(u), Value(v))
    BY <1>2, <2>7 DEF Cong
  <2> QED
    BY <1>7, <2>8 DEF u
<1> QED
  BY <1>6, <1>7
-----------------------------------------------------------------------------
\* A place that two odd limbs share is half a bit too high for each.
Both(i, j) == IF Odd(i) /\ Odd(j) THEN 1 ELSE 0

LEMMA WeightSum ==
  ASSUME RealSize, NEW i \in 0 .. 9, NEW j \in 0 .. 9, NEW k \in 0 .. 9
  PROVE  /\ k = i + j => Weight(i) + Weight(j) = Both(i, j) + Weight(k)
         /\ k = i + j - 10 => Weight(i) + Weight(j) = 255 + (Both(i, j) + Weight(k))
<1>1. /\ Weight(i) = 25 * i + (i + 1) \div 2 /\ Weight(j) = 25 * j + (j + 1) \div 2
      /\ Weight(k) = 25 * k + (k + 1) \div 2
  BY WeightForm
<1> QED
  BY <1>1 DEF Odd, Both

\* What a product of two limbs counts in the limb of the result that it is added to.
LEMMA PlaceProduct ==
  ASSUME RealSize, NEW i \in 0 .. 9, NEW j \in 0 .. 9, NEW k \in 0 .. 9, k = (i + j) % 10
  PROVE  Cong(Place(k) * ((IF Odd(i) /\ Odd(j) THEN 2 ELSE 1) * (IF i > k THEN Red ELSE 1)),
              Place(i) * Place(j))
<1>p. P \in Nat \ {0} /\ 2^Bits = P + 19 /\ Bits = 255 /\ Red = 19
  <2>1. Red = 19
    BY SMT DEF RealSize
  <2> QED
    BY <2>1, ModulusReal, Zenon
<1>1. PICK a \in Nat, b \in Nat, c \in Nat : a = Weight(i) /\ b = Weight(j) /\ c = Weight(k)
  BY PlacesReal
<1>2. PICK o \in {0, 1} : o = Both(i, j)
  BY DEF Both
<1>3. Place(i) * Place(j) = 2^(a + b)
  <2>1. 2^(a + b) = 2^a * 2^b
    BY PowSum
  <2> QED
    BY <1>1, <2>1 DEF Place
<1>4. PICK t \in Int : t = 2^(o + c) /\ t = (IF Odd(i) /\ Odd(j) THEN 2 ELSE 1) * Place(k)
  <2>1. PICK z \in Nat : z = Place(k) /\ z = 2^c
    BY <1>1, PowPositive DEF Place
  <2>2. CASE o = 1
    <3>1. 2^(c + 1) = 2 * 2^c
      BY PowNext
    <3>2. o + c = c + 1
      BY <2>2
    <3> QED
      BY <1>2, <2>1, <2>2, <3>1, <3>2 DEF Both
  <2>3. CASE o = 0
    <3>1. o + c = c
      BY <2>3
    <3> QED
      BY <1>2, <2>1, <2>3, <3>1 DEF Both
  <2> QED
    BY <2>2, <2>3
<1>5. Place(k) \in Int /\ Place(i) * Place(j) \in Int
  <2>1. Place(k) \in Int /\ Place(i) \in Int /\ Place(j) \in Int
    BY PlacesReal
  <2> QED
    BY <2>1, MulFacts
<1>6. CASE i + j <= 9
  <2>1. k = i + j /\ ~(i > k)
    BY <1>6
  <2>2. a + b = o + c
    <3>1. Weight(i) + Weight(j) = Both(i, j) + Weight(k)
      BY <2>1, WeightSum
    <3> QED
      BY <1>1, <1>2, <3>1
  <2>3. Place(i) * Place(j) = t
    BY <1>3, <1>4, <2>2
  <2>4. Place(k) * ((IF Odd(i) /\ Odd(j) THEN 2 ELSE 1) * (IF i > k THEN Red ELSE 1)) = t
    BY <1>4, <1>5, <2>1
  <2> QED
    BY <1>p, <2>3, <2>4, CongSame
<1>7. CASE i + j >= 10
  <2>1. k = i + j - 10 /\ i > k
    BY <1>7
  <2>2. a + b = 255 + (o + c)
    <3>1. Weight(i) + Weight(j) = 255 + (Both(i, j) + Weight(k))
      BY <2>1, WeightSum
    <3> QED
      BY <1>1, <1>2, <3>1
  <2>3. 2^(a + b) = (P + 19) * t
    <3>1. PICK n \in Nat : n = o + c
      OBVIOUS
    <3>2. 2^(255 + n) = 2^255 * 2^n
      BY PowSum, 255 \in Nat
    <3> QED
      BY <1>p, <1>4, <2>2, <3>1, <3>2
  <2>4. Place(k) * ((IF Odd(i) /\ Odd(j) THEN 2 ELSE 1) * (IF i > k THEN Red ELSE 1)) = 19 * t
    BY <1>p, <1>4, <1>5, <2>1
  <2>5. (P + 19) * t = P * t + 19 * t /\ P * t = t * P /\ P * t \in Int
    BY <1>p
  <2>6. 19 * t = (P + 19) * t + (-t) * P /\ -t \in Int
    BY <1>p, <2>5
  <2>7. 19 * t \in Int /\ (P + 19) * t \in Int
    BY <1>p, <2>5
  <2>8. Cong(19 * t, (P + 19) * t)
    BY ONLY <2>6, <2>7, Zenon DEF Cong
  <2> QED
    BY <1>3, <2>3, <2>4, <2>8
<1> QED
  BY <1>6, <1>7

Rotated(t, i) == [j \in 0 .. 9 |-> t[(i + j) % 10]]

LEMMA RotatedTotal ==
  ASSUME NEW t \in [0 .. 9 -> Int], NEW i \in 0 .. 9
  PROVE  /\ Rotated(t, i) \in [0 .. 9 -> Int]
         /\ Total(Rotated(t, i), 10) = Total(t, 10)
<1> DEFINE u == Rotated(t, i)
<1>1. \A j \in 0 .. 9 : u[j] = t[IF i + j < 10 THEN i + j ELSE i + j - 10]
  <2> SUFFICES ASSUME NEW j \in 0 .. 9 PROVE u[j] = t[IF i + j < 10 THEN i + j ELSE i + j - 10]
    OBVIOUS
  <2>1. (i + j) % 10 = IF i + j < 10 THEN i + j ELSE i + j - 10
    OBVIOUS
  <2> QED
    BY <2>1 DEF Rotated
<1>2. u \in [0 .. 9 -> Int]
  <2>1. \A j \in 0 .. 9 : (i + j) % 10 \in 0 .. 9
    OBVIOUS
  <2> QED
    BY <2>1 DEF Rotated
<1>3. \A k \in 0 .. 9 : t[k] \in Int /\ u[k] \in Int
  BY <1>2
<1>4. DOMAIN t = 0 .. 9 /\ DOMAIN u = 0 .. 9
  BY <1>2
<1>5. /\ Total(t, 10) = t[0] + t[1] + t[2] + t[3] + t[4] + t[5] + t[6] + t[7] + t[8] + t[9]
      /\ Total(u, 10) = u[0] + u[1] + u[2] + u[3] + u[4] + u[5] + u[6] + u[7] + u[8] + u[9]
  <2>1. Sum(t) = Total(t, 10) /\ Sum(u) = Total(u, 10)
    BY <1>2, SumIsTotal
  <2> HIDE DEF u
  <2> QED
    BY <1>4, <2>1, SumOfTen
<1> HIDE DEF u
<1>6. i = 0 \/ i = 1 \/ i = 2 \/ i = 3 \/ i = 4 \/ i = 5 \/ i = 6 \/ i = 7 \/ i = 8 \/ i = 9
  OBVIOUS
<1>7. /\ i = 0 => Total(u, 10) = Total(t, 10)
      /\ i = 1 => Total(u, 10) = Total(t, 10)
      /\ i = 2 => Total(u, 10) = Total(t, 10)
      /\ i = 3 => Total(u, 10) = Total(t, 10)
      /\ i = 4 => Total(u, 10) = Total(t, 10)
  BY <1>1, <1>3, <1>5, SMTT(30)
<1>8. /\ i = 5 => Total(u, 10) = Total(t, 10)
      /\ i = 6 => Total(u, 10) = Total(t, 10)
      /\ i = 7 => Total(u, 10) = Total(t, 10)
      /\ i = 8 => Total(u, 10) = Total(t, 10)
      /\ i = 9 => Total(u, 10) = Total(t, 10)
  BY <1>1, <1>3, <1>5, SMTT(30)
<1> QED
  BY <1>2, <1>6, <1>7, <1>8 DEF u

LEMMA TermInt ==
  ASSUME RealSize, NEW f \in [0 .. 9 -> Int], NEW g \in [0 .. 9 -> Int],
         NEW k \in 0 .. 9, NEW i \in 0 .. 9, NEW j \in 0 .. 9, k = (i + j) % 10
  PROVE  /\ Term(f, g, k, i) \in Int
         /\ Place(k) * Term(f, g, k, i) \in Int
         /\ Cong(Place(k) * Term(f, g, k, i), Terms(f)[i] * Terms(g)[j])
<1>p. P \in Nat \ {0} /\ N = 10 /\ Red = 19
  <2>1. Red = 19 /\ N = 10
    BY SMT DEF RealSize
  <2> QED
    BY <2>1, ModulusReal, Zenon
<1> DEFINE c == (IF Odd(i) /\ Odd(j) THEN 2 ELSE 1) * (IF i > k THEN Red ELSE 1)
<1>1. c \in Int
  BY <1>p
<1>2. (k - i) % 10 = j
  OBVIOUS
<1>3. Term(f, g, k, i) = (c * f[i]) * g[j]
  BY <1>p, <1>2 DEF Term
<1>4. Cong(Place(k) * c, Place(i) * Place(j))
  BY PlaceProduct
<1> HIDE DEF c
<1>5. PICK a \in Int, b \in Int, l \in Int, m \in Int, n \in Int :
        a = f[i] /\ b = g[j] /\ l = Place(i) /\ m = Place(j) /\ n = Place(k)
  <2>1. f[i] \in Int /\ g[j] \in Int
    OBVIOUS
  <2>2. Place(i) \in Int /\ Place(j) \in Int /\ Place(k) \in Int
    BY PlacesReal
  <2> QED
    BY ONLY <2>1, <2>2, Zenon
<1>6. (c * a) * b = c * (a * b)
  BY <1>1
<1>7. PICK t \in Int : t = a * b
  OBVIOUS
<1>8. Term(f, g, k, i) = c * t
  BY <1>3, <1>5, <1>6, <1>7
<1>9. n * (c * t) = (n * c) * t /\ c * t \in Int /\ n * (c * t) \in Int
  BY <1>1
<1>10. Cong((n * c) * t, (l * m) * t)
  <2>1. Cong(t, t)
    BY ONLY <1>p, t \in Int, CongSame
  <2>2. Cong(n * c, l * m)
    BY <1>4, <1>5
  <2> QED
    BY ONLY <1>p, <2>1, <2>2, CongProduct
<1>11. (l * m) * t = Terms(f)[i] * Terms(g)[j]
  <2>1. Terms(f)[i] = a * l /\ Terms(g)[j] = b * m
    BY <1>5, ValueInt
  <2>2. (l * m) * (a * b) = (a * l) * (b * m)
    <3>1. (l * m) * (a * b) = l * (m * (a * b))
      BY MulAssoc, a * b \in Int
    <3>2. m * (a * b) = a * (b * m)
      OBVIOUS
    <3>3. PICK e \in Int : e = b * m
      OBVIOUS
    <3>4. l * (a * e) = (a * l) * e
      OBVIOUS
    <3> QED
      BY <3>1, <3>2, <3>3, <3>4
  <2> QED
    BY <1>7, <2>1, <2>2
<1> QED
  BY <1>5, <1>8, <1>9, <1>10, <1>11

Scheme(f, g) == [k \in 0 .. 9 |-> [i \in 0 .. 9 |-> Place(k) * Term(f, g, k, i)]]

LEMMA SchemeInt ==
  ASSUME RealSize, NEW f \in [0 .. 9 -> Int], NEW g \in [0 .. 9 -> Int]
  PROVE  /\ IsTable(Scheme(f, g), 10, 10)
         /\ \A k, i \in 0 .. 9 : Term(f, g, k, i) \in Int
         /\ \A k, i \in 0 .. 9 : Scheme(f, g)[k][i] = Place(k) * Term(f, g, k, i)
<1>1. ASSUME NEW k \in 0 .. 9, NEW i \in 0 .. 9
      PROVE  Term(f, g, k, i) \in Int /\ Place(k) * Term(f, g, k, i) \in Int
  <2>1. PICK j \in 0 .. 9 : j = (k - i) % 10
    OBVIOUS
  <2>2. k = (i + j) % 10
    BY <2>1
  <2> QED
    BY <2>2, TermInt
<1>2. \A k, i \in 0 .. 9 : Scheme(f, g)[k][i] = Place(k) * Term(f, g, k, i)
  BY DEF Scheme
<1>3. \A k \in 0 .. 10 - 1 : \A i \in 0 .. 10 - 1 : Scheme(f, g)[k][i] \in Int
  BY <1>1, <1>2
<1> QED
  BY <1>1, <1>2, <1>3, Zenon DEF IsTable

LEMMA ColumnValue ==
  ASSUME RealSize, NEW f \in [0 .. 9 -> Int], NEW g \in [0 .. 9 -> Int], NEW i \in 0 .. 9
  PROVE  /\ Total(Column(Scheme(f, g), 10, i), 10) \in Int
         /\ Cong(Total(Column(Scheme(f, g), 10, i), 10), Value(g) * Terms(f)[i])
<1>p. P \in Nat \ {0}
  BY ModulusReal
<1> DEFINE t == Column(Scheme(f, g), 10, i)
           u == Rotated(t, i)
           z == [j \in 0 .. 9 |-> Terms(f)[i] * Terms(g)[j]]
<1>1. t \in [0 .. 9 -> Int]
  <2>1. \A k \in 0 .. 9 : Scheme(f, g)[k][i] \in Int
    BY SchemeInt DEF IsTable
  <2> QED
    BY <2>1 DEF Column
<1>2. u \in [0 .. 9 -> Int] /\ Total(u, 10) = Total(t, 10) /\ Total(t, 10) \in Int
  <2> HIDE DEF t
  <2> QED
    BY <1>1, RotatedTotal, SumIsTotal
<1>3. ASSUME NEW j \in 0 .. 9
      PROVE  Cong(u[j], z[j])
  <2>1. PICK k \in 0 .. 9 : k = (i + j) % 10
    OBVIOUS
  <2>2. u[j] = t[k]
    BY <2>1 DEF Rotated
  <2>3. t[k] = Scheme(f, g)[k][i]
    BY DEF Column
  <2>4. Scheme(f, g)[k][i] = Place(k) * Term(f, g, k, i)
    BY DEF Scheme
  <2>5. Cong(Place(k) * Term(f, g, k, i), Terms(f)[i] * Terms(g)[j])
    BY <2>1, TermInt
  <2>6. z[j] = Terms(f)[i] * Terms(g)[j]
    OBVIOUS
  <2> HIDE DEF u, z, t
  <2> QED
    BY <2>2, <2>3, <2>4, <2>5, <2>6
<1>4. Terms(f)[i] \in Int /\ \A j \in 0 .. 9 : Terms(g)[j] \in Int
  BY ValueInt
<1>5. ScaledBy(z, 10, Terms(g), Terms(f)[i])
  BY <1>4 DEF ScaledBy
<1> HIDE DEF u, z, t
<1>6. Total(z, 10) = Terms(f)[i] * Value(g)
  <2>1. Total(z, 10) = Terms(f)[i] * Total(Terms(g), 10)
    BY ONLY <1>5, ScaledTotal, 10 \in Nat
  <2> QED
    BY <2>1 DEF Value
<1>7. Cong(Total(u, 10), Total(z, 10))
  <2>1. AllCong(u, z, 10)
    BY <1>3 DEF AllCong
  <2> QED
    BY ONLY <1>p, <2>1, CongTotal, 10 \in Nat
<1>8. Terms(f)[i] * Value(g) = Value(g) * Terms(f)[i]
  BY <1>4, ValueInt
<1> QED
  BY <1>2, <1>6, <1>7, <1>8 DEF t

LEMMA ProductIsSum ==
  ASSUME RealSize, NEW f \in [0 .. 9 -> Int], NEW g \in [0 .. 9 -> Int], NEW k \in 0 .. 9
  PROVE  /\ Product(f, g)[k] \in Int
         /\ Total(Scheme(f, g)[k], 10) = Product(f, g)[k] * Place(k)
<1> DEFINE t == [i \in 0 .. 9 |-> Term(f, g, k, i)]
<1>1. Product(f, g)[k] = Sum(t)
  BY SMT DEF Product, Term, Limbs, RealSize
<1>2. t \in [0 .. 9 -> Int]
  BY SchemeInt
<1>3. ScaledBy(Scheme(f, g)[k], 10, t, Place(k))
  <2>1. Place(k) \in Int
    BY PlacesReal
  <2>2. \A i \in 0 .. 9 : Scheme(f, g)[k][i] = Place(k) * t[i]
    BY SchemeInt
  <2> HIDE DEF t
  <2> QED
    BY <1>2, <2>1, <2>2 DEF ScaledBy
<1> HIDE DEF t
<1>4. Total(Scheme(f, g)[k], 10) = Place(k) * Total(t, 10)
  BY ONLY <1>3, ScaledTotal, 10 \in Nat
<1>5. Sum(t) = Total(t, 10) /\ Total(t, 10) \in Int
  BY <1>2, SumIsTotal
<1>6. Place(k) * Total(t, 10) = Total(t, 10) * Place(k)
  BY <1>5, PlacesReal
<1> QED
  BY <1>1, <1>4, <1>5, <1>6

LEMMA ProductValue ==
  ASSUME RealSize, NEW f \in [0 .. 9 -> Int], NEW g \in [0 .. 9 -> Int]
  PROVE  /\ Product(f, g) \in [0 .. 9 -> Int]
         /\ Cong(Value(Product(f, g)), Value(f) * Value(g))
<1>p. P \in Nat \ {0}
  BY ModulusReal
<1>1. Product(f, g) \in [0 .. 9 -> Int]
  <2>1. \A k \in 0 .. 9 : Product(f, g)[k] \in Int
    BY ProductIsSum
  <2>2. Product(f, g) = [k \in 0 .. 9 |-> Product(f, g)[k]]
    BY LimbsReal DEF Product
  <2> QED
    BY <2>1, <2>2
<1> DEFINE v == Terms(Product(f, g))
           c == [i \in 0 .. 9 |-> Total(Column(Scheme(f, g), 10, i), 10)]
           z == [i \in 0 .. 9 |-> Value(g) * Terms(f)[i]]
<1>2. RowSums(v, 10, Scheme(f, g), 10)
  <2>1. \A k \in 0 .. 9 : v[k] = Total(Scheme(f, g)[k], 10)
    <3> SUFFICES ASSUME NEW k \in 0 .. 9 PROVE v[k] = Total(Scheme(f, g)[k], 10)
      OBVIOUS
    <3>1. v[k] = Product(f, g)[k] * Place(k)
      BY DEF Terms
    <3>2. Total(Scheme(f, g)[k], 10) = Product(f, g)[k] * Place(k)
      BY ProductIsSum
    <3> HIDE DEF v
    <3> QED
      BY <3>1, <3>2
  <2> HIDE DEF v
  <2> QED
    BY <2>1 DEF RowSums
<1>3. ColumnSums(c, 10, Scheme(f, g), 10)
  BY DEF ColumnSums
<1> HIDE DEF c
<1>4. Total(v, 10) = Total(c, 10)
  <2>1. IsTable(Scheme(f, g), 10, 10)
    BY SchemeInt
  <2> HIDE DEF v
  <2> QED
    BY ONLY <1>2, <1>3, <2>1, SwappedTotal, 10 \in Nat
<1>5. AllCong(c, z, 10)
  <2> SUFFICES ASSUME NEW i \in 0 .. 10 - 1 PROVE Cong(c[i], z[i])
    BY Zenon DEF AllCong
  <2>1. Cong(Total(Column(Scheme(f, g), 10, i), 10), Value(g) * Terms(f)[i])
    BY ColumnValue
  <2> QED
    BY <2>1 DEF c
<1>6. Value(g) \in Int /\ Value(f) \in Int /\ \A i \in 0 .. 9 : Terms(f)[i] \in Int
  BY ValueInt
<1>7. ScaledBy(z, 10, Terms(f), Value(g))
  BY <1>6 DEF ScaledBy
<1> HIDE DEF z
<1>8. Total(z, 10) = Value(g) * Value(f)
  <2>1. Total(z, 10) = Value(g) * Total(Terms(f), 10)
    BY ONLY <1>7, ScaledTotal, 10 \in Nat
  <2> QED
    BY <2>1 DEF Value
<1>9. Cong(Total(c, 10), Total(z, 10))
  BY ONLY <1>p, <1>5, CongTotal, 10 \in Nat
<1>10. Value(g) * Value(f) = Value(f) * Value(g)
  BY <1>6
<1> QED
  BY <1>1, <1>4, <1>8, <1>9, <1>10 DEF Value

\* Where the bytes of a limb begin and the last ones end.
Cut(k) == IF k = 10 THEN 255 ELSE 8 * Start(k)

LEMMA CutsReal ==
  ASSUME RealSize
  PROVE  /\ Cut(0) = 0 /\ Cut(10) = 255
         /\ \A k \in 0 .. 10 : Cut(k) \in Nat
         /\ \A k \in 0 .. 9 : Cut(k) - Weight(k) \in Nat /\ Cut(k + 1) - Cut(k) \in Nat
<1>1. Cut(0) = 0 /\ Cut(1) = 32 /\ Cut(2) = 56 /\ Cut(3) = 80 /\ Cut(4) = 104 /\ Cut(5) = 128
      /\ Cut(6) = 160 /\ Cut(7) = 184 /\ Cut(8) = 208 /\ Cut(9) = 232 /\ Cut(10) = 255
  BY StartsReal DEF Cut
<1>2. \A k \in 0 .. 10 : k = 0 \/ k = 1 \/ k = 2 \/ k = 3 \/ k = 4 \/ k = 5 \/ k = 6 \/ k = 7
                         \/ k = 8 \/ k = 9 \/ k = 10
  OBVIOUS
<1> HIDE DEF Cut
<1>3. \A k \in 0 .. 10 : Cut(k) \in Nat
  BY <1>1, <1>2
<1>4. \A k \in 0 .. 9 : Cut(k) - Weight(k) \in Nat
  BY <1>1, <1>2, WeightsReal
<1>5. \A k \in 0 .. 9 : Cut(k + 1) - Cut(k) \in Nat
  BY <1>1, <1>2
<1> QED
  BY <1>1, <1>3, <1>4, <1>5

\* load_3 and load_4 take every bit of the bytes once, but for the last one.
LEMMA LoadedValue ==
  ASSUME RealSize, NEW n \in Nat
  PROVE  Cong(Value(Loaded(n)), (n % 2^Bits) % P)
<1>p. P \in Nat \ {0} /\ Bits = 255 /\ 2^255 \in Nat \ {0}
  BY ModulusReal
<1> DEFINE g == [k \in 0 .. 10 |-> n % 2^Cut(k)]
<1>1. Loaded(n) \in [0 .. 9 -> Int]
  BY LoadedBounded
<1>2. \A k \in 0 .. 9 :
        Loaded(n)[k] = ((n \div 2^Cut(k)) % 2^(Cut(k + 1) - Cut(k))) * 2^(Cut(k) - Weight(k))
  <2>1. Limbs = 0 .. 9 /\ ByteBits = 8 /\ N - 1 = 9
    BY SMT DEF Limbs, RealSize
  <2> SUFFICES ASSUME NEW k \in 0 .. 9
               PROVE  Loaded(n)[k] = ((n \div 2^Cut(k)) % 2^(Cut(k + 1) - Cut(k)))
                                     * 2^(Cut(k) - Weight(k))
    OBVIOUS
  <2>2. Cut(k) = 8 * Start(k)
    BY DEF Cut
  <2>3. Cut(k + 1) = IF k = 9 THEN Bits ELSE 8 * Start(k + 1)
    BY <1>p DEF Cut
  <2>4. Loaded(n)[k] =
          ((n \div 2^(8 * Start(k)))
           % 2^((IF k = 9 THEN Bits ELSE 8 * Start(k + 1)) - 8 * Start(k)))
          * 2^(8 * Start(k) - Weight(k))
    BY <2>1, Zenon DEF Loaded
  <2> QED
    BY <2>2, <2>3, <2>4, Zenon
<1>3. g[0] = 0
  <2>1. n % 1 = 0
    OBVIOUS
  <2>2. 2^0 = 1
    OBVIOUS
  <2>3. Cut(0) = 0
    BY CutsReal
  <2>4. g[0] = n % 2^Cut(0)
    OBVIOUS
  <2> HIDE DEF g
  <2> QED
    BY ONLY <2>1, <2>2, <2>3, <2>4
<1>4. ASSUME NEW k \in 0 .. 9
      PROVE  g[k + 1] = g[k] + Terms(Loaded(n))[k]
  <2>1. PICK c \in Nat, s \in Nat, w \in Nat, u \in Nat :
          c = Cut(k) /\ s = Cut(k + 1) - Cut(k) /\ w = Weight(k) /\ u = Cut(k) - Weight(k)
    <3>1. Cut(k) \in Nat /\ Cut(k + 1) - Cut(k) \in Nat /\ Cut(k) - Weight(k) \in Nat
      BY CutsReal
    <3>2. Weight(k) \in Nat
      BY PlacesReal
    <3> QED
      BY ONLY <3>1, <3>2, Zenon
  <2>2. PICK a \in Nat \ {0}, b \in Nat \ {0} : a = 2^c /\ b = 2^s
    <3>1. 2^c \in Nat \ {0} /\ 2^s \in Nat \ {0}
      BY PowPositive
    <3> QED
      BY ONLY <3>1, Zenon
  <2>3. 2^u * 2^w = a /\ 2^u \in Nat /\ 2^w \in Nat
    <3>1. 2^(u + w) = 2^u * 2^w
      BY PowSum
    <3>2. u + w = c
      <4>1. Cut(k) \in Int /\ Weight(k) \in Int
        BY <2>1
      <4> QED
        BY <2>1, <4>1
    <3> QED
      BY <2>2, <3>1, <3>2, PowPositive
  <2>4. 2^Cut(k + 1) = a * b
    <3>1. 2^(c + s) = 2^c * 2^s
      BY PowSum
    <3>2. Cut(k + 1) = c + s
      <4>1. Cut(k) \in Int /\ Cut(k + 1) \in Int
        BY CutsReal
      <4> QED
        BY <2>1, <4>1
    <3> QED
      BY <2>2, <3>1, <3>2
  <2>5. n % (a * b) = a * ((n \div a) % b) + (n % a)
    <3>1. n \in Int
      OBVIOUS
    <3> QED
      BY ONLY <3>1, a \in Nat \ {0}, b \in Nat \ {0}, DivDiv
  <2>6. PICK d \in Nat, e \in Nat : d = (n \div a) % b /\ e = n % a
    <3>1. n \div a \in Int /\ n % a \in Nat
      BY DivMod
    <3>2. (n \div a) % b \in Nat
      BY <3>1, DivMod
    <3> QED
      BY ONLY <3>1, <3>2, Zenon
  <2>7. Loaded(n)[k] = d * 2^u
    BY <1>2, <2>1, <2>2, <2>6
  <2>8. Terms(Loaded(n))[k] = (d * 2^u) * 2^w
    BY <2>1, <2>7 DEF Terms, Place
  <2>9. (d * 2^u) * 2^w = d * a
    <3>1. PICK y \in Nat, z \in Nat : y = 2^u /\ z = 2^w
      BY <2>3
    <3>2. (d * y) * z = d * (y * z)
      OBVIOUS
    <3> QED
      BY <2>3, <3>1, <3>2
  <2>10. d * a = a * d /\ d * a \in Nat
    OBVIOUS
  <2>11. g[k + 1] = a * d + e
    <3>1. g[k + 1] = n % (a * b)
      BY <2>4
    <3> QED
      BY <2>5, <2>6, <3>1
  <2>12. g[k] = e
    BY <2>1, <2>2, <2>6
  <2> QED
    BY <2>8, <2>9, <2>10, <2>11, <2>12
<1>5. g[10] = n % 2^Bits
  <2>1. Cut(10) = Bits
    BY <1>p, CutsReal
  <2>2. g[10] = n % 2^Cut(10)
    OBVIOUS
  <2> HIDE DEF g
  <2> QED
    BY ONLY <2>1, <2>2, Zenon
<1>f. g \in [0 .. 10 -> Int]
  <2>1. \A k \in 0 .. 10 : n % 2^Cut(k) \in Int
    <3> SUFFICES ASSUME NEW k \in 0 .. 10 PROVE n % 2^Cut(k) \in Int
      OBVIOUS
    <3>1. PICK d \in Nat \ {0} : d = 2^Cut(k)
      BY CutsReal, PowPositive
    <3> QED
      BY <3>1, DivMod
  <2> QED
    BY <2>1
<1> HIDE DEF g
<1>6. Value(Loaded(n)) = n % 2^Bits
  <2>1. \A k \in 0 .. 10 - 1 : Terms(Loaded(n))[k] \in Int
    BY <1>1, ValueInt
  <2>2. \A k \in 0 .. 10 - 1 : g[k + 1] = g[k] + Terms(Loaded(n))[k]
    BY <1>4
  <2>3. Total(Terms(Loaded(n)), 10) = g[10]
    <3>1. IsPartial(g, Terms(Loaded(n)), 10)
      BY ONLY <1>3, <1>f, <2>2, Zenon DEF IsPartial
    <3> QED
      BY ONLY <3>1, 10 \in Nat, TotalIsPartial
  <2> QED
    BY <1>5, <2>3 DEF Value
<1>7. PICK z \in Int : z = n % 2^Bits
  BY <1>1, <1>6, ValueInt
<1>8. Cong(z % P, z)
  BY ONLY <1>p, z \in Int, CongSame
<1>9. Cong(z, z % P)
  <2>1. PICK y \in Int : y = z % P
    BY <1>8 DEF Cong
  <2>2. Cong(y, z)
    BY <1>8, <2>1
  <2> QED
    BY ONLY <1>p, <2>1, <2>2, z \in Int, y \in Int, CongSame
<1> QED
  BY <1>6, <1>7, <1>9

\* Sums, differences and negatives, limb by limb.
Combines(v, f, g, c) ==
  /\ f \in [0 .. 9 -> Int] /\ g \in [0 .. 9 -> Int] /\ v \in [0 .. 9 -> Int] /\ c \in Int
  /\ \A k \in 0 .. 9 : v[k] = f[k] + c * g[k]

LEMMA CombinedValue ==
  ASSUME RealSize, NEW v, NEW f, NEW g, NEW c, Combines(v, f, g, c)
  PROVE  Value(v) = Value(f) + c * Value(g)
<1>t. /\ f \in [0 .. 9 -> Int] /\ g \in [0 .. 9 -> Int] /\ v \in [0 .. 9 -> Int] /\ c \in Int
      /\ \A k \in 0 .. 9 : v[k] = f[k] + c * g[k]
  BY Zenon DEF Combines
<1>1. /\ \A k \in 0 .. 9 : Terms(f)[k] = f[k] * Place(k) /\ Terms(f)[k] \in Int
      /\ \A k \in 0 .. 9 : Terms(g)[k] = g[k] * Place(k) /\ Terms(g)[k] \in Int
      /\ \A k \in 0 .. 9 : Terms(v)[k] = v[k] * Place(k)
  BY <1>t, ValueInt
<1>2. ASSUME NEW k \in 0 .. 10 - 1
      PROVE  Terms(v)[k] = Terms(f)[k] + c * Terms(g)[k]
  <2>1. PICK a \in Int, b \in Int, w \in Int : a = f[k] /\ b = g[k] /\ w = Place(k)
    <3>1. f[k] \in Int /\ g[k] \in Int /\ Place(k) \in Int
      BY <1>t, PlacesReal
    <3> QED
      BY ONLY <3>1, Zenon
  <2>2. (a + c * b) * w = a * w + c * (b * w)
    <3>1. PICK e \in Int : e = c * b
      BY <1>t
    <3>2. (a + e) * w = a * w + e * w
      OBVIOUS
    <3>3. (c * b) * w = c * (b * w)
      BY <1>t
    <3> QED
      BY <3>1, <3>2, <3>3
  <2>3. v[k] = a + c * b /\ k \in 0 .. 9
    BY <1>t, <2>1
  <2> QED
    BY <1>1, <2>1, <2>2, <2>3
<1>3. \A k \in 0 .. 10 - 1 :
        Terms(f)[k] \in Int /\ Terms(g)[k] \in Int /\ Terms(v)[k] = Terms(f)[k] + c * Terms(g)[k]
  BY <1>1, <1>2
<1> DEFINE s == [k \in 0 .. 9 |-> c * Terms(g)[k]]
<1>4. Total(Terms(v), 10) = Total(Terms(f), 10) + c * Total(Terms(g), 10)
  <2>1. ScaledBy(s, 10, Terms(g), c)
    BY <1>t, <1>3 DEF ScaledBy
  <2>2. Adds(Terms(v), 10, Terms(f), s)
    <3>1. \A k \in 0 .. 10 - 1 : s[k] = c * Terms(g)[k]
      OBVIOUS
    <3> HIDE DEF s
    <3> QED
      BY <1>t, <1>3, <3>1 DEF Adds
  <2> HIDE DEF s
  <2>3. Total(s, 10) = c * Total(Terms(g), 10)
    BY ONLY <2>1, ScaledTotal, 10 \in Nat
  <2>4. Total(Terms(v), 10) = Total(Terms(f), 10) + Total(s, 10)
    BY ONLY <2>2, AddedTotal, 10 \in Nat
  <2> QED
    BY <2>3, <2>4
<1> QED
  BY <1>4 DEF Value

LEMMA ConstantValues ==
  ASSUME RealSize
  PROVE  /\ Zero \in [0 .. 9 -> Int] /\ Value(Zero) = 0
         /\ One \in [0 .. 9 -> Int] /\ Value(One) = 1
<1>1. /\ Zero \in [0 .. 9 -> Int] /\ \A k \in 0 .. 9 : Zero[k] = 0
      /\ One \in [0 .. 9 -> Int] /\ \A k \in 0 .. 9 : One[k] = IF k = 0 THEN 1 ELSE 0
  BY LimbsReal DEF Zero, One
<1>2. \A k \in 0 .. 9 : Terms(Zero)[k] = 0 /\ Terms(One)[k] = IF k = 0 THEN 1 ELSE 0
  <2> SUFFICES ASSUME NEW k \in 0 .. 9
               PROVE  Terms(Zero)[k] = 0 /\ Terms(One)[k] = IF k = 0 THEN 1 ELSE 0
    OBVIOUS
  <2>1. PICK w \in Int : w = Place(k)
    BY PlacesReal
  <2>2. Terms(Zero)[k] = 0 * w /\ Terms(One)[k] = (IF k = 0 THEN 1 ELSE 0) * w
    BY <1>1, <2>1 DEF Terms
  <2>3. k = 0 => w = 1
    BY <2>1, PlacesReal
  <2> QED
    BY <2>2, <2>3
<1>3. Sum(Terms(Zero)) = Value(Zero) /\ Sum(Terms(One)) = Value(One)
  <2>1. Terms(Zero) \in [0 .. 9 -> Int] /\ Terms(One) \in [0 .. 9 -> Int]
    BY <1>1, ValueInt
  <2> QED
    BY <2>1, SumIsTotal DEF Value
<1>4. DOMAIN Terms(Zero) = 0 .. 9 /\ DOMAIN Terms(One) = 0 .. 9
  BY DEF Terms
<1>5. Sum(Terms(Zero)) = 0 /\ Sum(Terms(One)) = 1
  BY <1>2, <1>4, SumOfTen
<1> QED
  BY <1>1, <1>3, <1>5
-----------------------------------------------------------------------------
\* The strengthening that ValueKept needs: residues are reduced, and the limbs of every
\* element and of a running product stand for a number congruent to what is expected.
Stands(v, x) == x \in Nat /\ x < P /\ Cong(Value(v), x)

ElementsStand ==
  /\ DOMAIN residue = DOMAIN element
  /\ \A r \in DOMAIN element : Stands(element[r], residue[r])

ResultStands == Multiplying => Stands(h, want)

ValueInv == Inv /\ ElementsStand /\ ResultStands

LEMMA StandsReduced ==
  ASSUME RealSize, NEW v, NEW x \in Int, Cong(Value(v), x)
  PROVE  Stands(v, x % P)
<1>p. P \in Nat \ {0}
  BY ModulusReal
<1>1. x % P \in Nat /\ x % P < P
  BY <1>p, DivMod
<1>2. Cong(x, x % P)
  <2>1. Cong(x % P, x)
    BY ONLY <1>p, x \in Int, CongSame
  <2>2. x % P \in Int
    BY <1>1
  <2> QED
    BY ONLY <1>p, <2>1, <2>2, x \in Int, CongSame
<1>3. Cong(Value(v), x % P)
  BY ONLY <1>p, <1>2, Cong(Value(v), x), CongTrans
<1> QED
  BY ONLY <1>1, <1>3, Zenon DEF Stands

LEMMA PutStands ==
  ASSUME Elements, ElementsStand, NEW r, NEW v, NEW x, Stands(v, x),
         element' = Put(element, r, v), residue' = Put(residue, r, x)
  PROVE  ElementsStand'
<1>1. DOMAIN element' = DOMAIN element \cup {r} /\ DOMAIN residue' = DOMAIN element'
  BY DEF Put, ElementsStand
<1>2. ASSUME NEW s \in DOMAIN element'
      PROVE  Stands(element'[s], residue'[s])
  BY <1>1, Zenon DEF Put, ElementsStand
<1>3. \A s \in DOMAIN element' : Stands(element[s], residue[s])' <=> Stands(element'[s], residue'[s])
  BY DEF Stands, Cong, Value, Terms, Place
<1> QED
  BY <1>1, <1>2, <1>3 DEF ElementsStand
LEMMA ElementsStay ==
  ASSUME ElementsStand, UNCHANGED <<element, residue>>
  PROVE  ElementsStand'
  BY DEF ElementsStand, Stands, Cong, Value, Terms, Place

LEMMA ResultStays ==
  ASSUME ResultStands, UNCHANGED <<call, h, want>>
  PROVE  ResultStands'
  BY DEF ResultStands, Multiplying, Stands, Cong, Value, Terms, Place

LEMMA SimpleStands ==
  ASSUME RealSize, ValueInv, NEW r, NEW v, NEW x \in Int, NEW b, Cong(Value(v), x),
         Simple(r, v, x, b)
  PROVE  ElementsStand' /\ ResultStands'
<1>1. Stands(v, x % P)
  BY StandsReduced
<1>2. element' = Put(element, r, v) /\ residue' = Put(residue, r, x % P)
  BY DEF Simple
<1>3. ElementsStand'
  BY <1>1, <1>2, PutStands DEF ValueInv, Inv
<1>4. ResultStands'
  BY ResultStays DEF Simple, ValueInv
<1> QED
  BY <1>3, <1>4

LEMMA ReadyStands ==
  ASSUME RealSize, ValueInv, Ready, NEW r \in {"f", "g"}
  PROVE  /\ element[r] \in [0 .. 9 -> Int] /\ Value(element[r]) \in Int
         /\ residue[r] \in Nat /\ residue[r] < P /\ Cong(Value(element[r]), residue[r])
<1>1. element[r] \in [0 .. 9 -> Int]
  BY ReadySized DEF ValueInv
<1>2. r \in DOMAIN element
  BY DEF Ready
<1>3. Stands(element[r], residue[r])
  BY <1>2 DEF ValueInv, ElementsStand
<1> QED
  BY <1>1, <1>3, ValueInt DEF Stands

LEMMA AddSubStand ==
  ASSUME RealSize, ValueInv, Add \/ Sub \/ Neg
  PROVE  ElementsStand' /\ ResultStands'
<1>p. P \in Nat \ {0}
  BY ModulusReal
<1>0. Ready
  BY DEF Add, Sub, Neg
<1> DEFINE f == element["f"]
           g == element["g"]
           plus  == [k \in 0 .. 9 |-> f[k] + g[k]]
           minus == [k \in 0 .. 9 |-> f[k] - g[k]]
           less  == [k \in 0 .. 9 |-> -f[k]]
<1>1. /\ f \in [0 .. 9 -> Int] /\ Value(f) \in Int /\ Cong(Value(f), residue["f"])
      /\ g \in [0 .. 9 -> Int] /\ Value(g) \in Int /\ Cong(Value(g), residue["g"])
  BY <1>0, ReadyStands
<1>2. residue["f"] \in Int /\ residue["g"] \in Int
  BY <1>1 DEF Cong
<1> HIDE DEF f, g
<1>3. Value(plus) = Value(f) + Value(g)
  <2>1. plus \in [0 .. 9 -> Int] /\ \A k \in 0 .. 9 : plus[k] = f[k] + 1 * g[k]
    BY <1>1
  <2> HIDE DEF plus
  <2>c. Combines(plus, f, g, 1)
    BY <1>1, <2>1 DEF Combines
  <2>2. Value(plus) = Value(f) + 1 * Value(g)
    BY <2>c, CombinedValue
  <2> QED
    BY <1>1, <2>2
<1>4. Value(minus) = Value(f) - Value(g)
  <2>1. minus \in [0 .. 9 -> Int] /\ \A k \in 0 .. 9 : minus[k] = f[k] + (-1) * g[k]
    BY <1>1
  <2> HIDE DEF minus
  <2>c. Combines(minus, f, g, -1)
    BY <1>1, <2>1 DEF Combines
  <2>2. Value(minus) = Value(f) + (-1) * Value(g)
    BY <2>c, CombinedValue
  <2> QED
    BY <1>1, <2>2
<1>5. Value(less) = 0 - Value(f)
  <2>1. less \in [0 .. 9 -> Int] /\ \A k \in 0 .. 9 : less[k] = Zero[k] + (-1) * f[k]
    <3>1. \A k \in 0 .. 9 : Zero[k] = 0
      BY LimbsReal DEF Zero
    <3> QED
      BY <1>1, <3>1
  <2> HIDE DEF less
  <2>c. Combines(less, Zero, f, -1)
    BY <1>1, <2>1, ConstantValues DEF Combines
  <2>2. Value(less) = Value(Zero) + (-1) * Value(f)
    BY <2>c, CombinedValue
  <2> QED
    BY <1>1, <2>2, ConstantValues
<1>6. /\ Cong(Value(plus), residue["f"] + residue["g"])
      /\ Cong(Value(minus), residue["f"] - residue["g"])
  <2>1. /\ Cong(Value(f) + Value(g), residue["f"] + residue["g"])
        /\ Cong(Value(f) - Value(g), residue["f"] - residue["g"])
    BY ONLY <1>p, <1>1, CongSum
  <2> QED
    BY ONLY <1>3, <1>4, <2>1
<1>7. Cong(Value(less), -residue["f"])
  <2>1. Cong(0, 0)
    BY ONLY <1>p, 0 \in Int, CongSame
  <2>2. Cong(0 - Value(f), 0 - residue["f"])
    BY ONLY <1>p, <1>1, <2>1, CongSum
  <2>3. 0 - residue["f"] = -residue["f"]
    BY <1>2
  <2> QED
    BY ONLY <1>5, <2>2, <2>3
<1>8. residue["f"] + residue["g"] \in Int /\ residue["f"] - residue["g"] \in Int
      /\ -residue["f"] \in Int
  BY <1>2
<1>9. Limbs = 0 .. 9
  BY LimbsReal
<1>10. CASE Add
  <2>1. \E b : Simple("f", plus, residue["f"] + residue["g"], b)
    BY <1>9, <1>10 DEF Add, f, g
  <2> HIDE DEF plus
  <2> QED
    BY <1>6, <1>8, <2>1, SimpleStands
<1>11. CASE Sub
  <2>1. \E b : Simple("f", minus, residue["f"] - residue["g"], b)
    BY <1>9, <1>11 DEF Sub, f, g
  <2> HIDE DEF minus
  <2> QED
    BY <1>6, <1>8, <2>1, SimpleStands
<1>12. CASE Neg
  <2>1. \E b : Simple("f", less, -residue["f"], b)
    BY <1>9, <1>12 DEF Neg, f
  <2> HIDE DEF less
  <2> QED
    BY <1>7, <1>8, <2>1, SimpleStands
<1> QED
  BY <1>10, <1>11, <1>12

LEMMA CopyStands ==
  ASSUME RealSize, ValueInv, Copy \/ Cmov \/ Fe0 \/ Fe1
  PROVE  ElementsStand' /\ ResultStands'
<1>p. P \in Nat \ {0}
  BY ModulusReal
<1>1. CASE Copy \/ Cmov
  <2>1. Ready
    BY <1>1 DEF Copy, Cmov
  <2>2. PICK r \in {"f", "g"}, to \in {"f", "g"} :
          Simple(to, element[r], residue[r], bound[r])
    BY <1>1 DEF Copy, Cmov
  <2>3. Cong(Value(element[r]), residue[r]) /\ residue[r] \in Int
    BY <2>1, ReadyStands DEF Cong
  <2> QED
    BY <2>2, <2>3, SimpleStands
<1>2. Cong(0, 0) /\ Cong(1, 1)
  BY ONLY <1>p, 0 \in Int, 1 \in Int, CongSame
<1>3. CASE Fe0
  <2>1. Simple("f", Zero, 0, 0) /\ Cong(Value(Zero), 0)
    BY <1>2, <1>3, ConstantValues DEF Fe0
  <2> QED
    BY <2>1, SimpleStands, 0 \in Int
<1>4. CASE Fe1
  <2>1. Simple("f", One, 1, 1) /\ Cong(Value(One), 1)
    BY <1>2, <1>4, ConstantValues DEF Fe1
  <2> QED
    BY <2>1, SimpleStands, 1 \in Int
<1> QED
  BY <1>1, <1>3, <1>4

LEMMA BeginStands ==
  ASSUME RealSize, ValueInv, NEW name, NEW r, NEW v, NEW x,
         Stands(v, x), Begin(name, r, v, x)
  PROVE  ElementsStand' /\ ResultStands'
<1>1. ElementsStand'
  BY ElementsStay DEF Begin, ValueInv
<1>2. h' = v /\ want' = x
  BY DEF Begin
<1>3. Stands(h', want')
  BY <1>2
<1>4. Stands(h, want)' <=> Stands(h', want')
  BY DEF Stands, Cong, Value, Terms, Place
<1>5. ResultStands'
  BY <1>3, <1>4 DEF ResultStands
<1> QED
  BY <1>1, <1>5

LEMMA ProductsStand ==
  ASSUME RealSize, ValueInv, Mul \/ Sq \/ Sq2
  PROVE  ElementsStand' /\ ResultStands'
<1>p. P \in Nat \ {0}
  BY ModulusReal
<1>0. Ready
  BY DEF Mul, Sq, Sq2
<1> DEFINE f == element["f"]
           g == element["g"]
           x == residue["f"]
           y == residue["g"]
<1>1. /\ f \in [0 .. 9 -> Int] /\ x \in Nat /\ x < P /\ Cong(Value(f), x)
      /\ g \in [0 .. 9 -> Int] /\ y \in Nat /\ y < P /\ Cong(Value(g), y)
  BY <1>0, ReadyStands
<1>2. Square(f) = Product(f, f)
  BY <1>1, SquareIsProduct
<1> HIDE DEF f, g, x, y
<1>3. /\ Product(f, g) \in [0 .. 9 -> Int] /\ Cong(Value(Product(f, g)), Value(f) * Value(g))
      /\ Product(f, f) \in [0 .. 9 -> Int] /\ Cong(Value(Product(f, f)), Value(f) * Value(f))
  BY <1>1, ProductValue
<1>4. Cong(Value(f) * Value(g), x * y) /\ Cong(Value(f) * Value(f), x * x)
  BY ONLY <1>p, <1>1, CongProduct
<1>5. Cong(Value(Product(f, g)), x * y) /\ Cong(Value(Product(f, f)), x * x)
  BY ONLY <1>p, <1>3, <1>4, CongTrans
<1>6. x * y \in Int /\ x * x \in Int
  BY <1>1
<1>7. Stands(Product(f, g), (x * y) % P) /\ Stands(Product(f, f), (x * x) % P)
  BY <1>5, <1>6, StandsReduced
<1>8. TimesMod(x, y) = (x * y) % P /\ TimesMod(x, x) = (x * x) % P
  BY <1>1, TimesModIs
<1>9. CASE Mul
  <2>1. Begin("mul", "f", Product(f, g), TimesMod(x, y))
    BY <1>9 DEF Mul, f, g, x, y
  <2> QED
    BY <1>7, <1>8, <2>1, BeginStands
<1>10. CASE Sq
  <2>1. Begin("sq", "f", Product(f, f), TimesMod(x, x))
    BY <1>2, <1>10 DEF Sq, f, x
  <2> QED
    BY <1>7, <1>8, <2>1, BeginStands
<1>11. CASE Sq2
  <2>1. Begin("sq2", "f", Doubled(Product(f, f)), (2 * TimesMod(x, x)) % P)
    BY <1>2, <1>11 DEF Sq2, f, x
  <2>2. PICK v \in [0 .. 9 -> Int], z \in Int : v = Product(f, f) /\ z = TimesMod(x, x)
    <3>1. TimesMod(x, x) \in Int
      <4>1. (x * x) % P \in Int
        BY <1>p, <1>6, DivMod
      <4> QED
        BY <1>8, <4>1
    <3> QED
      BY <1>3, <3>1
  <2>3. Cong(Value(v), z)
    BY <1>7, <1>8, <2>2 DEF Stands
  <2>4. Combines(Doubled(v), v, v, 1)
    <3>1. Doubled(v) \in [0 .. 9 -> Int] /\ \A k \in 0 .. 9 : Doubled(v)[k] = v[k] + 1 * v[k]
      BY LimbsReal DEF Doubled
    <3> QED
      BY <3>1 DEF Combines
  <2>5. Value(Doubled(v)) = Value(v) + 1 * Value(v)
    BY <2>4, CombinedValue
  <2>6. Value(Doubled(v)) = Value(v) + Value(v)
    BY <2>5, ValueInt
  <2>7. Cong(Value(v) + Value(v), z + z)
    BY ONLY <1>p, <2>3, CongSum
  <2>8. Stands(Doubled(v), (2 * z) % P)
    <3>1. PICK u \in Int : u = 2 * z /\ u = z + z
      OBVIOUS
    <3>2. Cong(Value(Doubled(v)), u)
      BY <2>6, <2>7, <3>1
    <3>3. Stands(Doubled(v), u % P)
      BY <3>2, StandsReduced
    <3> QED
      BY <3>1, <3>3
  <2> QED
    BY <2>1, <2>2, <2>8, BeginStands
<1> QED
  BY <1>9, <1>10, <1>11

LEMMA FromBytesStands ==
  ASSUME RealSize, FieldAssumption, ValueInv, FromBytes
  PROVE  ElementsStand' /\ ResultStands'
<1>p. P \in Nat \ {0} /\ 2^Bits \in Nat \ {0}
  BY ModulusReal
<1>1. PICK r \in {"f", "g"}, n \in Inputs : Begin("frombytes", r, Loaded(n), (n % 2^Bits) % P)
  BY DEF FromBytes
<1>2. n \in Nat
  BY DEF FieldAssumption
<1>3. PICK c \in Nat : c = n % 2^Bits
  BY <1>p, <1>2, DivMod
<1>4. c % P \in Nat /\ c % P < P
  <2>1. c \in Int
    OBVIOUS
  <2> QED
    BY ONLY <1>p, <2>1, DivMod
<1>5. Stands(Loaded(n), c % P)
  BY <1>2, <1>3, <1>4, LoadedValue DEF Stands
<1> QED
  BY <1>1, <1>3, <1>5, BeginStands

LEMMA CarryStands ==
  ASSUME RealSize, ValueInv, Carry
  PROVE  ElementsStand' /\ ResultStands'
<1>p. P \in Nat \ {0}
  BY ModulusReal
<1>1. ElementsStand'
  BY ElementsStay DEF Carry, ValueInv
<1>2. PICK n : n = Order[pc]
  OBVIOUS
<1>3. n \in 0 .. 9
  <2>1. pc \in DOMAIN Order
    BY DEF Carry
  <2>2. CASE call = "frombytes"
    <3>1. pc \in 1 .. 10 /\ n = FromBytesOrder[pc]
      BY <1>2, <2>1, <2>2, OrdersReal DEF Order
    <3> QED
      BY <3>1, OrdersReal
  <2>3. CASE call # "frombytes"
    <3>1. pc \in 1 .. 12 /\ n = MulOrder[pc]
      BY <1>2, <2>1, <2>3, OrdersReal DEF Order
    <3> QED
      BY <3>1, OrdersReal
  <2> QED
    BY <2>2, <2>3
<1>4. h \in [0 .. 9 -> Int] /\ Stands(h, want)
  BY DEF Carry, ValueInv, Inv, Running, ResultStands
<1>5. PICK c \in Int : c = (h[n] + Radix[n] \div 2) \div Radix[n]
  BY <1>3, <1>4, CarryRounds
<1>6. h' = Carried(h, n, c) /\ want' = want
  BY <1>2, <1>5 DEF Carry
<1>7. Cong(Value(Carried(h, n, c)), Value(h))
  BY <1>3, <1>4, CarryValue
<1>8. Cong(Value(Carried(h, n, c)), want)
  <2>1. Cong(Value(h), want)
    BY <1>4 DEF Stands
  <2> QED
    BY ONLY <1>p, <1>7, <2>1, CongTrans
<1>9. Stands(Carried(h, n, c), want)
  BY <1>4, <1>8 DEF Stands
<1>10. Stands(h', want')
  BY <1>6, <1>9
<1>11. Stands(h, want)' <=> Stands(h', want')
  BY DEF Stands, Cong, Value, Terms, Place
<1>12. ResultStands'
  BY <1>10, <1>11 DEF ResultStands
<1> QED
  BY <1>1, <1>12

LEMMA StoreStands ==
  ASSUME ValueInv, Store
  PROVE  ElementsStand' /\ ResultStands'
<1>1. Stands(h, want)
  BY DEF Store, ValueInv, ResultStands
<1>2. ElementsStand'
  BY <1>1, PutStands DEF Store, ValueInv, Inv
<1>3. ResultStands'
  BY DEF Store, ResultStands, Multiplying
<1> QED
  BY <1>2, <1>3

LEMMA OthersStand ==
  ASSUME ValueInv, \/ ToBytes \/ Quotient \/ CarryFloor \/ Pack \/ VerifyByte \/ VerifyReturn
                   \/ Finished \/ UNCHANGED vars
  PROVE  ElementsStand' /\ ResultStands'
<1>1. UNCHANGED <<element, residue>>
  BY DEF ToBytes, Quotient, CarryFloor, Pack, VerifyByte, VerifyReturn, Finished, vars, field
<1>2. ElementsStand'
  BY <1>1, ElementsStay DEF ValueInv
<1>3. call' \in Writers => ResultStands'
  BY DEF ResultStands, Multiplying, Writers
<1>4. UNCHANGED <<call, h, want>> => ResultStands'
  BY ResultStays DEF ValueInv
<1>5. call' \in Writers \/ UNCHANGED <<call, h, want>>
  BY DEF ToBytes, Quotient, CarryFloor, Pack, VerifyByte, VerifyReturn, Finished, vars, field,
         Writing, Comparing, Writers
<1> QED
  BY <1>2, <1>3, <1>4, <1>5

LEMMA ValueInvKeeps ==
  ASSUME RealSize, FieldAssumption, ValueInv, [Next]_vars
  PROVE  ValueInv'
<1>1. Inv'
  BY NextKeeps DEF ValueInv
<1>2. ElementsStand' /\ ResultStands'
  BY AddSubStand, CopyStands, ProductsStand, FromBytesStands, CarryStands, StoreStands,
     OthersStand DEF Next
<1> QED
  BY <1>1, <1>2 DEF ValueInv

LEMMA StandsResidue ==
  ASSUME RealSize, NEW v \in [0 .. 9 -> Int], NEW x, Stands(v, x)
  PROVE  Residue(v) = x
<1>p. P \in Nat \ {0}
  BY ModulusReal
<1>1. PICK z \in Nat, w \in Int : z = x /\ w = Value(v) /\ z < P
  BY ValueInt DEF Stands
<1>2. Cong(w, z)
  BY <1>1 DEF Stands
<1>3. w % P = z % P
  BY ONLY <1>p, <1>2, w \in Int, z \in Nat, CongSame
<1>4. z % P = z
  BY <1>p, <1>1, SmallDiv
<1> QED
  BY <1>1, <1>3, <1>4, ResidueIs

\* No carry of fe_mul.c, fe_sq.c, fe_sq2.c and fe_frombytes.c changes the number modulo
\* 2^255 - 19 that the limbs stand for, and products, squares, sums and differences of limbs
\* stand for those of the numbers, normalised or not, however the calls follow one another.
THEOREM ValueCorrect ==
  ASSUME RealSize
  PROVE  Spec => []ValueKept
<1>1. Init => ValueInv
  BY InitInv DEF Init, ValueInv, ElementsStand, ResultStands, Multiplying
<1>2. ValueInv /\ [Next]_vars => ValueInv'
  BY FieldAssumption, ValueInvKeeps
<1>3. ValueInv => ValueKept
  <2> SUFFICES ASSUME ValueInv PROVE ValueKept
    OBVIOUS
  <2>1. \A r \in DOMAIN element : Residue(element[r]) = residue[r]
    BY StandsResidue DEF ValueInv, Inv, Elements, ElementsStand
  <2>2. Multiplying => Residue(h) = want
    BY StandsResidue DEF ValueInv, Inv, Running, ResultStands
  <2> QED
    BY <2>1, <2>2 DEF ValueKept
<1> QED
  BY <1>1, <1>2, <1>3, PTL DEF Spec
-----------------------------------------------------------------------------
\* Limbs that are digits: from 0 on and below their radix.
Digital(v) == v \in [0 .. 9 -> Nat] /\ \A k \in 0 .. 9 : v[k] < Radix[k]

\* The value of the limbs below limb k, and the place where it begins; 10 is the end.
Low(v, k) == Total(Terms(v), k)
Mark(k)   == IF k = 10 THEN 2^Bits ELSE Place(k)

LEMMA MarksReal ==
  ASSUME RealSize
  PROVE  /\ \A k \in 0 .. 10 : Mark(k) \in Nat \ {0}
         /\ \A k \in 0 .. 9 : Mark(k + 1) = Mark(k) * Radix[k] /\ Mark(k) = Place(k)
         /\ \A k \in 0 .. 9 : Radix[k] \in Nat \ {0}
         /\ Mark(0) = 1 /\ Mark(10) = 2^Bits
<1>1. \A k \in 0 .. 9 : Mark(k) = Place(k)
  BY DEF Mark
<1>2. Mark(10) = 2^Bits
  BY Zenon DEF Mark
<1>3. \A k \in 0 .. 10 : Mark(k) \in Nat \ {0}
  <2> SUFFICES ASSUME NEW k \in 0 .. 10 PROVE Mark(k) \in Nat \ {0}
    OBVIOUS
  <2>1. CASE k = 10
    BY <1>2, <2>1, ModulusReal, Zenon
  <2>2. CASE k # 10
    <3>1. k \in 0 .. 9
      BY <2>2
    <3> QED
      BY <1>1, <3>1, PlacesReal, Zenon
  <2> QED
    BY <2>1, <2>2
<1>4. \A k \in 0 .. 9 : Radix[k] \in Nat \ {0}
  BY SMT DEF RealSize
<1>5. ASSUME NEW k \in 0 .. 9
      PROVE  Mark(k + 1) = Mark(k) * Radix[k]
  <2>1. PICK a \in Nat, b \in Nat : a = Mark(k) /\ b = Radix[k]
    <3>1. Mark(k) \in Nat /\ Radix[k] \in Nat
      <4>1. k \in 0 .. 10
        OBVIOUS
      <4>2. Mark(k) \in Nat \ {0} /\ Radix[k] \in Nat \ {0}
        BY <1>3, <1>4, <4>1, Zenon
      <4> QED
        BY <4>2, Zenon
    <3> QED
      BY ONLY <3>1, Zenon
  <2>2. b * a = a * b
    OBVIOUS
  <2>3. CASE k = 9
    <3>1. Mark(9 + 1) = 2^Bits
      BY <1>2
    <3>2. 2^Bits = Radix[9] * Place(9)
      BY PlacesReal
    <3>3. Place(9) = a /\ Radix[9] = b
      BY <1>1, <2>1, <2>3
    <3> QED
      BY <2>1, <2>2, <2>3, <3>1, <3>2, <3>3, Zenon
  <2>4. CASE k # 9
    <3>1. k \in 0 .. 8 /\ k + 1 \in 0 .. 9
      BY <2>4
    <3>2. Place(k + 1) = Radix[k] * Place(k)
      BY <3>1, PlacesReal
    <3>3. Mark(k + 1) = Place(k + 1) /\ a = Place(k)
      BY <1>1, <2>1, <3>1
    <3> QED
      BY <2>1, <2>2, <3>2, <3>3, Zenon
  <2> QED
    BY <2>3, <2>4
<1>6. Mark(0) = 1
  BY <1>1, PlacesReal
<1> QED
  BY <1>1, <1>2, <1>3, <1>4, <1>5, <1>6

LEMMA LowSteps ==
  ASSUME RealSize, NEW v \in [0 .. 9 -> Int]
  PROVE  /\ \A k \in 0 .. 10 : Low(v, k) \in Int
         /\ \A k \in 0 .. 9 : Low(v, k + 1) = Low(v, k) + v[k] * Mark(k)
         /\ Low(v, 0) = 0 /\ Low(v, 10) = Value(v)
<1>1. \A k \in 0 .. 9 : Terms(v)[k] = v[k] * Mark(k) /\ Terms(v)[k] \in Int
  BY ValueInt, MarksReal
<1>2. /\ Total(Terms(v), 10) \in Int
      /\ \A k \in 0 .. 9 : Total(Terms(v), k) \in Int
                           /\ Total(Terms(v), k + 1) = Total(Terms(v), k) + Terms(v)[k]
  <2>1. 10 \in Nat /\ \A k \in 0 .. 10 - 1 : Terms(v)[k] \in Int
    BY <1>1
  <2>2. /\ Total(Terms(v), 10) \in Int
        /\ \A k \in 0 .. 10 - 1 : Total(Terms(v), k) \in Int
                                  /\ Total(Terms(v), k + 1) = Total(Terms(v), k) + Terms(v)[k]
    BY ONLY <2>1, TotalNext
  <2> QED
    BY <2>2
<1>3. Total(Terms(v), 0) = 0
  <2>1. 0 \in Nat /\ \A k \in 0 .. 0 - 1 : Terms(v)[k] \in Int
    OBVIOUS
  <2> QED
    BY ONLY <2>1, TotalNext
<1>4. \A k \in 0 .. 10 : Low(v, k) \in Int
  BY <1>2 DEF Low
<1>5. \A k \in 0 .. 9 : Low(v, k + 1) = Low(v, k) + v[k] * Mark(k)
  BY <1>1, <1>2 DEF Low
<1> QED
  BY <1>3, <1>4, <1>5 DEF Low, Value

LEMMA DigitsBelow ==
  ASSUME RealSize, NEW v, Digital(v)
  PROVE  \A k \in 0 .. 10 : Low(v, k) \in Nat /\ Low(v, k) < Mark(k)
<1> DEFINE S == {k \in 0 .. 10 : Low(v, k) \in Nat /\ Low(v, k) < Mark(k)}
<1>0. v \in [0 .. 9 -> Int] /\ \A k \in 0 .. 9 : v[k] \in Nat /\ v[k] < Radix[k]
  BY DEF Digital
<1>1. 0 \in S
  <2>1. Low(v, 0) = 0 /\ Mark(0) = 1
    BY <1>0, LowSteps, MarksReal
  <2> QED
    BY ONLY <2>1
<1>2. ASSUME NEW k \in 0 .. 10 - 1, k \in S
      PROVE  k + 1 \in S
  <2>0. k \in 0 .. 9 /\ k + 1 \in 0 .. 10
    OBVIOUS
  <2>1. PICK a \in Nat, b \in Nat, d \in Nat, l \in Nat :
          a = Mark(k) /\ b = Radix[k] /\ d = v[k] /\ l = Low(v, k) /\ d < b /\ l < a
    <3>1. Mark(k) \in Nat /\ Radix[k] \in Nat
      BY <2>0, MarksReal
    <3> QED
      BY <1>0, <1>2, <2>0, <3>1
  <2>2. Low(v, k + 1) = l + d * a /\ Mark(k + 1) = a * b
    BY <1>0, <2>0, <2>1, LowSteps, MarksReal
  <2>3. (d + 1) * a <= b * a /\ (d + 1) * a = d * a + a /\ b * a = a * b /\ d * a \in Nat
    <3>1. d + 1 \in Nat /\ d + 1 <= b
      BY <2>1
    <3> QED
      BY <3>1, MulNat
  <2>4. l + d * a \in Nat /\ l + d * a < a * b
    <3>1. PICK y \in Nat, z \in Nat : y = d * a /\ z = a * b
      BY <2>3
    <3>2. y + a <= z
      BY <2>3, <3>1
    <3> QED
      BY <2>1, <3>1, <3>2
  <2> QED
    BY <2>0, <2>2, <2>4
<1> HIDE DEF S
<1>3. \A k \in 0 .. 10 : k \in S
  BY <1>1, <1>2, InductionTo, 10 \in Nat
<1> QED
  BY <1>3 DEF S

\* What is left of the value from a limb on, and the limb as its digit.
Upper(v, k) == Value(v) \div Mark(k)

LEMMA DigitsAre ==
  ASSUME RealSize, NEW v, Digital(v)
  PROVE  /\ \A k \in 0 .. 10 : Upper(v, k) \in Nat
         /\ \A k \in 0 .. 9 : Upper(v, k) = v[k] + Radix[k] * Upper(v, k + 1)
         /\ Upper(v, 10) = 0
<1>0. v \in [0 .. 9 -> Int] /\ \A k \in 0 .. 9 : v[k] \in Nat /\ v[k] < Radix[k]
  BY DEF Digital
<1>1. PICK x \in Nat : x = Value(v) /\ x < Mark(10)
  BY <1>0, DigitsBelow, LowSteps
<1> DEFINE S == {j \in 0 .. 10 : Low(v, 10 - j) = x % Mark(10 - j)}
<1>2. 0 \in S
  <2>1. PICK d \in Nat \ {0} : d = Mark(10)
    BY MarksReal
  <2>2. x % d = x
    BY <1>1, <2>1, SmallDiv
  <2>3. Low(v, 10 - 0) = x /\ Mark(10 - 0) = d
    BY <1>0, <1>1, <2>1, LowSteps
  <2> QED
    BY <2>2, <2>3
<1>3. ASSUME NEW k \in 0 .. 9, Low(v, k + 1) = x % Mark(k + 1)
      PROVE  Low(v, k) = x % Mark(k) /\ Upper(v, k) % Radix[k] = v[k]
  <2>1. PICK a \in Nat \ {0}, b \in Nat \ {0}, d \in Nat, l \in Nat :
          a = Mark(k) /\ b = Radix[k] /\ d = v[k] /\ l = Low(v, k) /\ d < b /\ l < a
    <3>1. Mark(k) \in Nat \ {0} /\ Radix[k] \in Nat \ {0}
      BY MarksReal
    <3>2. Low(v, k) \in Nat /\ Low(v, k) < Mark(k)
      BY DigitsBelow
    <3>3. v[k] \in Nat /\ v[k] < Radix[k]
      BY <1>0
    <3> QED
      BY ONLY <3>1, <3>2, <3>3, Zenon
  <2>2. Low(v, k + 1) = a * d + l
    <3>1. Low(v, k + 1) = l + d * a
      BY <1>0, <2>1, LowSteps
    <3>2. d * a = a * d /\ d * a \in Int
      OBVIOUS
    <3> QED
      BY <3>1, <3>2
  <2>3. Low(v, k + 1) = x % (a * b)
    BY <1>3, <2>1, MarksReal
  <2>4. x % (a * b) = a * ((x \div a) % b) + (x % a)
    <3>1. x \in Int
      OBVIOUS
    <3> QED
      BY ONLY <3>1, a \in Nat \ {0}, b \in Nat \ {0}, DivDiv
  <2>5. PICK e \in Int, m \in Nat : e = (x \div a) % b /\ m = x % a /\ m < a
    <3>1. x \div a \in Int /\ x % a \in Nat /\ x % a < a
      BY DivMod
    <3>2. (x \div a) % b \in Int
      BY <3>1, DivMod
    <3> QED
      BY ONLY <3>1, <3>2, Zenon
  <2>6. a * d + l = a * e + m
    BY <2>2, <2>3, <2>4, <2>5
  <2>7. (a * d + l) \div a = d /\ (a * d + l) % a = l
    <3>1. d \in Int
      OBVIOUS
    <3> QED
      BY ONLY <3>1, <2>1, a \in Nat \ {0}, l \in Nat, DivModUnique
  <2>8. (a * e + m) \div a = e /\ (a * e + m) % a = m
    BY ONLY <2>5, a \in Nat \ {0}, e \in Int, m \in Nat, DivModUnique
  <2>9. d = e /\ l = m
    BY ONLY <2>6, <2>7, <2>8
  <2>10. Upper(v, k) = x \div a
    BY <1>1, <2>1 DEF Upper
  <2> QED
    BY <2>1, <2>5, <2>9, <2>10
<1>4. ASSUME NEW j \in 0 .. 10 - 1, j \in S
      PROVE  j + 1 \in S
  <2>1. PICK k \in 0 .. 9 : k = 10 - (j + 1) /\ k + 1 = 10 - j
    OBVIOUS
  <2>2. Low(v, k + 1) = x % Mark(k + 1)
    BY <1>4, <2>1
  <2>3. Low(v, k) = x % Mark(k)
    BY <1>3, <2>2
  <2> QED
    BY <2>1, <2>3
<1> HIDE DEF S
<1>5. \A j \in 0 .. 10 : j \in S
  BY <1>2, <1>4, InductionTo, 10 \in Nat
<1>6. \A k \in 0 .. 9 : Upper(v, k) % Radix[k] = v[k]
  <2> SUFFICES ASSUME NEW k \in 0 .. 9 PROVE Upper(v, k) % Radix[k] = v[k]
    OBVIOUS
  <2>1. PICK j \in 0 .. 10 : j = 9 - k /\ 10 - j = k + 1
    OBVIOUS
  <2>2. Low(v, k + 1) = x % Mark(k + 1)
    BY <1>5, <2>1 DEF S
  <2> QED
    BY <1>3, <2>2
<1>7. \A k \in 0 .. 10 : Upper(v, k) \in Nat
  <2> SUFFICES ASSUME NEW k \in 0 .. 10 PROVE Upper(v, k) \in Nat
    OBVIOUS
  <2>1. PICK d \in Nat \ {0} : d = Mark(k)
    BY MarksReal
  <2>2. x \div d \in Nat
    BY DivMod
  <2> QED
    BY <1>1, <2>1, <2>2 DEF Upper
<1>8. ASSUME NEW k \in 0 .. 9
      PROVE  Upper(v, k) = v[k] + Radix[k] * Upper(v, k + 1)
  <2>1. PICK a \in Nat \ {0}, b \in Nat \ {0}, u \in Nat :
          a = Mark(k) /\ b = Radix[k] /\ u = Upper(v, k)
    <3>1. Mark(k) \in Nat \ {0} /\ Radix[k] \in Nat \ {0}
      BY MarksReal
    <3>2. Upper(v, k) \in Nat
      BY <1>7
    <3> QED
      BY ONLY <3>1, <3>2, Zenon
  <2>2. Upper(v, k + 1) = u \div b
    <3>1. (x \div a) \div b = x \div (a * b)
      <4>1. x \in Int
        OBVIOUS
      <4> QED
        BY ONLY <4>1, a \in Nat \ {0}, b \in Nat \ {0}, DivDiv
    <3>2. Mark(k + 1) = a * b
      BY <2>1, MarksReal
    <3>3. u = x \div a
      BY <1>1, <2>1 DEF Upper
    <3> QED
      BY <1>1, <3>1, <3>2, <3>3 DEF Upper
  <2>3. u = b * (u \div b) + (u % b) /\ u % b \in Nat /\ u \div b \in Int
    BY DivMod
  <2>4. u % b = v[k]
    BY <1>6, <2>1
  <2>5. PICK y \in Int, z \in Int : y = b * (u \div b) /\ z = u % b
    <3>1. b * (u \div b) \in Int
      BY <2>3
    <3> QED
      BY <2>3, <3>1
  <2>6. u = z + y
    BY <2>3, <2>5
  <2> QED
    BY <2>1, <2>2, <2>4, <2>5, <2>6
<1>9. Upper(v, 10) = 0
  <2>1. PICK d \in Nat \ {0} : d = Mark(10)
    BY MarksReal
  <2>2. x \div d = 0
    BY <1>1, <2>1, SmallDiv
  <2> QED
    BY <1>1, <2>1, <2>2 DEF Upper
<1> QED
  BY <1>7, <1>8, <1>9

\* The limb in which byte b begins.
LimbOf(b) == CHOOSE k \in Limbs :
               Weight(k) <= ByteBits * b /\ (k = N - 1 \/ ByteBits * b < Weight(k + 1))

LEMMA LimbOfByte ==
  ASSUME RealSize, NEW b \in 0 .. 31
  PROVE  /\ LimbOf(b) \in 0 .. 9 /\ 8 * b - Weight(LimbOf(b)) \in Nat
         /\ LimbOf(b) < 9 => W[LimbOf(b)] - (8 * b - Weight(LimbOf(b))) \in Nat \ {0}
<1> DEFINE Holds(k) == Weight(k) <= 8 * b /\ (k = 9 \/ 8 * b < Weight(k + 1))
           u == CHOOSE k \in 0 .. 9 : Holds(k)
<1>0. N = 10 /\ ByteBits = 8 /\ Limbs = 0 .. 9
  BY LimbsReal, SMT DEF RealSize
<1>1. LimbOf(b) = u
  BY <1>0 DEF LimbOf
<1>2. \E k \in 0 .. 9 : Holds(k)
  <2>1. CASE 8 * b < 26
    BY <2>1, WeightsReal
  <2>2. CASE 26 <= 8 * b /\ 8 * b < 51
    BY <2>2, WeightsReal
  <2>3. CASE 51 <= 8 * b /\ 8 * b < 77
    BY <2>3, WeightsReal
  <2>4. CASE 77 <= 8 * b /\ 8 * b < 102
    BY <2>4, WeightsReal
  <2>5. CASE 102 <= 8 * b /\ 8 * b < 128
    BY <2>5, WeightsReal
  <2>6. CASE 128 <= 8 * b /\ 8 * b < 153
    BY <2>6, WeightsReal
  <2>7. CASE 153 <= 8 * b /\ 8 * b < 179
    BY <2>7, WeightsReal
  <2>8. CASE 179 <= 8 * b /\ 8 * b < 204
    BY <2>8, WeightsReal
  <2>9. CASE 204 <= 8 * b /\ 8 * b < 230
    BY <2>9, WeightsReal
  <2>10. CASE 230 <= 8 * b
    BY <2>10, WeightsReal
  <2> QED
    BY <2>1, <2>2, <2>3, <2>4, <2>5, <2>6, <2>7, <2>8, <2>9, <2>10
<1>3. u \in 0 .. 9 /\ Holds(u)
  <2> HIDE DEF Holds
  <2> QED
    BY <1>2, Zenon
<1> HIDE DEF u
<1>4. Weight(u) \in Nat
  BY <1>3, PlacesReal
<1>5. 8 * b - Weight(u) \in Nat
  BY <1>3, <1>4
<1>6. ASSUME u < 9
      PROVE  W[u] - (8 * b - Weight(u)) \in Nat \ {0}
  <2>1. W[u] = IF u % 2 = 1 THEN 25 ELSE 26
    <3>1. u \in 0 .. 9
      BY <1>3
    <3> QED
      BY <3>1, SMT DEF RealSize
  <2>2. Weight(u) = 25 * u + (u + 1) \div 2 /\ Weight(u + 1) = 25 * (u + 1) + (u + 2) \div 2
    BY <1>3, <1>6, WeightForm
  <2>3. 8 * b < Weight(u + 1)
    BY <1>3, <1>6
  <2> QED
    BY <1>3, <1>6, <2>1, <2>2, <2>3
<1> QED
  BY <1>1, <1>3, <1>5, <1>6

\* A digit above s * t does not reach below t.
Above(v, s, t, m) == (v + (s * t) * m) \div s = v \div s + t * m

LEMMA DivAbove ==
  ASSUME NEW v \in Nat, NEW s \in Nat \ {0}, NEW t \in Nat, NEW m \in Nat
  PROVE  Above(v, s, t, m)
<1>1. v \div s \in Nat /\ v % s \in Nat /\ v % s < s /\ v = s * (v \div s) + (v % s)
  BY DivMod
<1>2. PICK a \in Nat, r \in Nat : a = v \div s /\ r = v % s /\ r < s /\ v = s * a + r
  BY <1>1
<1>3. PICK z \in Int, y \in Int : z = t * m /\ y = a + z
  OBVIOUS
<1>4. s * y = s * a + s * z
  BY <1>3, MulFacts
<1>5. s * z = (s * t) * m
  BY <1>3, MulAssoc
<1>6. v + (s * t) * m = s * y + r
  <2>1. PICK c \in Int, d \in Int : c = s * a /\ d = s * z
    OBVIOUS
  <2> QED
    BY <1>2, <1>4, <1>5, <2>1
<1>7. (s * y + r) \div s = y
  BY ONLY <1>2, s \in Nat \ {0}, y \in Int, r \in Nat, DivModUnique
<1> QED
  BY <1>2, <1>3, <1>6, <1>7 DEF Above

LEMMA ModAbove ==
  ASSUME NEW v \in Int, NEW d \in Nat \ {0}, NEW m \in Int
  PROVE  (v + d * m) % d = v % d
<1>1. v \div d \in Int /\ v % d \in Nat /\ v % d < d /\ v = d * (v \div d) + (v % d)
  BY DivMod
<1>2. PICK a \in Int, r \in Nat : a = v \div d /\ r = v % d /\ r < d /\ v = d * a + r
  BY <1>1
<1>3. PICK y \in Int : y = a + m
  OBVIOUS
<1>4. d * y = d * a + d * m
  BY <1>3, MulFacts
<1>5. v + d * m = d * y + r
  <2>1. PICK c \in Int, e \in Int : c = d * a /\ e = d * m
    OBVIOUS
  <2> QED
    BY <1>2, <1>4, <2>1
<1>6. (d * y + r) % d = r
  BY ONLY <1>2, d \in Nat \ {0}, y \in Int, r \in Nat, DivModUnique
<1> QED
  BY <1>2, <1>5, <1>6

\* The statements of fe_tobytes that write bytes write those of the number.
LEMMA BytesAre ==
  ASSUME RealSize, NEW v, Digital(v), NEW b \in 0 .. 31
  PROVE  Byte(v, b) = (Value(v) \div 2^(8 * b)) % 256
<1>0. ByteBits = 8 /\ N = 10 /\ Limbs = 0 .. 9
  BY LimbsReal, SMT DEF RealSize
<1>1. PICK k \in 0 .. 9, n \in Nat, w \in Nat : k = LimbOf(b) /\ n = 8 * b - Weight(k) /\ w = Weight(k)
  <2>1. LimbOf(b) \in 0 .. 9
    BY LimbOfByte
  <2>2. Weight(LimbOf(b)) \in Nat
    BY <2>1, PlacesReal
  <2> QED
    BY <2>1, <2>2, LimbOfByte
<1>2. Byte(v, b) = (v[k] \div 2^n + (IF k < 9 THEN v[k + 1] * 2^(W[k] - n) ELSE 0)) % 2^8
  <2>1. k + 1 < N <=> k < 9
    BY <1>0
  <2>2. Byte(v, b) = (v[k] \div 2^(ByteBits * b - Weight(k))
                      + (IF k + 1 < N THEN v[k + 1] * 2^(W[k] - (ByteBits * b - Weight(k))) ELSE 0))
                     % 2^ByteBits
    <3> DEFINE body(l) ==
                 (v[l] \div 2^(ByteBits * b - Weight(l))
                  + (IF l + 1 < N THEN v[l + 1] * 2^(W[l] - (ByteBits * b - Weight(l))) ELSE 0))
                 % 2^ByteBits
    <3>1. Byte(v, b) = body(LimbOf(b))
      BY Zenon DEF Byte, LimbOf
    <3> QED
      BY <1>1, <3>1, Zenon
  <2> QED
    BY <1>0, <1>1, <2>1, <2>2, Zenon
<1>3. 2^8 = 256
  BY SMT
<1>4. PICK s \in Nat \ {0}, a \in Nat \ {0}, x \in Nat :
        s = 2^n /\ a = Mark(k) /\ a = 2^w /\ x = Value(v)
  <2>1. 2^n \in Nat \ {0} /\ 2^w \in Nat \ {0}
    BY PowPositive
  <2>2. Mark(k) = 2^w
    BY <1>1, MarksReal DEF Place
  <2>3. Value(v) \in Nat
    <3>1. Low(v, 10) \in Nat
      BY DigitsBelow
    <3> QED
      BY <3>1, LowSteps DEF Digital
  <2> QED
    BY <2>1, <2>2, <2>3
<1>5. x \div 2^(8 * b) = Upper(v, k) \div s
  <2>1. 2^(w + n) = 2^w * 2^n
    BY PowSum
  <2>2. 8 * b = w + n
    BY <1>1
  <2>3. (x \div a) \div s = x \div (a * s)
    <3>1. x \in Int
      OBVIOUS
    <3> QED
      BY ONLY <3>1, a \in Nat \ {0}, s \in Nat \ {0}, DivDiv
  <2>4. Upper(v, k) = x \div a
    BY <1>4 DEF Upper
  <2> QED
    BY <1>4, <2>1, <2>2, <2>3, <2>4
<1>6. v[k] \in Nat /\ v[k] \div s \in Nat
  <2>1. v[k] \in Nat
    BY DEF Digital
  <2> QED
    BY <2>1, DivMod
<1>7. CASE k = 9
  <2>1. Upper(v, k) = v[k]
    <3>1. Upper(v, 9) = v[9] + Radix[9] * Upper(v, 9 + 1)
      BY DigitsAre
    <3>2. Upper(v, 9 + 1) = 0
      BY DigitsAre
    <3>3. Radix[9] \in Nat
      BY SMT DEF RealSize
    <3> QED
      BY <1>6, <1>7, <3>1, <3>2, <3>3
  <2>2. Byte(v, b) = (v[k] \div s + 0) % 256
    BY <1>2, <1>3, <1>4, <1>7
  <2> QED
    BY <1>4, <1>5, <1>6, <2>1, <2>2
<1>8. CASE k < 9
  <2>1. PICK m \in Nat, t \in Nat \ {0} : m = W[k] - n /\ t = 2^m
    <3>1. W[k] - n \in Nat
      BY <1>1, <1>8, LimbOfByte
    <3>2. 2^(W[k] - n) \in Nat \ {0}
      BY <3>1, PowPositive
    <3> QED
      BY <3>1, <3>2
  <2>2. Radix[k] = s * t
    <3>1. 2^(n + m) = 2^n * 2^m
      BY PowSum
    <3>2. W[k] \in Nat /\ Radix[k] = 2^W[k]
      <4>1. W[k] = IF k % 2 = 1 THEN 25 ELSE 26
        BY SMT DEF RealSize
      <4>2. Radix[k] = IF k % 2 = 1 THEN 33554432 ELSE 67108864
        BY SMT DEF RealSize
      <4>3. 2^25 = 33554432 /\ 2^26 = 67108864
        BY SMT
      <4> QED
        BY <4>1, <4>2, <4>3
    <3>3. n + m = W[k]
      BY <2>1, <3>2
    <3> QED
      BY <1>4, <2>1, <3>1, <3>2, <3>3
  <2>3. PICK d \in Nat, e \in Nat, g \in Nat, u \in Nat :
          /\ d = v[k] /\ e = v[k + 1] /\ g = Upper(v, k + 1) /\ u = Upper(v, k + 2)
    <3>0. k + 1 \in 0 .. 10 /\ k + 2 \in 0 .. 10 /\ k + 1 \in 0 .. 9
      BY <1>8
    <3>1. Upper(v, k + 1) \in Nat /\ Upper(v, k + 2) \in Nat
      BY <3>0, DigitsAre
    <3>2. v[k] \in Nat /\ v[k + 1] \in Nat
      BY <3>0 DEF Digital
    <3> QED
      BY ONLY <3>1, <3>2, Zenon
  <2>4. Upper(v, k) = d + (s * t) * g
    BY <2>2, <2>3, DigitsAre
  <2>5. (d + (s * t) * g) \div s = d \div s + t * g
    <3>1. Above(d, s, t, g)
      BY DivAbove, t \in Nat
    <3> QED
      BY <3>1 DEF Above
  <2>6. PICK z \in Nat : Radix[k + 1] = 256 * z
    <3>1. Radix[k + 1] = IF (k + 1) % 2 = 1 THEN 33554432 ELSE 67108864
      <4>1. k + 1 \in 0 .. 9
        BY <1>8
      <4> QED
        BY <4>1, SMT DEF RealSize
    <3>2. 33554432 = 256 * 131072 /\ 67108864 = 256 * 262144
      OBVIOUS
    <3>3. Radix[k + 1] = 256 * 131072 \/ Radix[k + 1] = 256 * 262144
      BY <3>1, <3>2
    <3> QED
      BY <3>3
  <2>7. g = e + (256 * z) * u
    <3>1. k + 1 \in 0 .. 9 /\ (k + 1) + 1 = k + 2
      BY <1>8
    <3> QED
      BY <2>3, <2>6, <3>1, DigitsAre
  <2>8. t * g = e * t + 256 * (t * (z * u))
    <3>1. PICK y \in Nat : y = z * u
      OBVIOUS
    <3>2. (256 * z) * u = 256 * y
      BY <3>1
    <3>3. t * (e + 256 * y) = t * e + t * (256 * y)
      OBVIOUS
    <3>4. t * (256 * y) = 256 * (t * y) /\ t * e = e * t
      OBVIOUS
    <3> QED
      BY <2>7, <3>1, <3>2, <3>3, <3>4
  <2>9. PICK y \in Int, c \in Int : y = t * (z * u) /\ c = d \div s + e * t
    <3>1. d \div s \in Nat
      BY <1>6, <2>3
    <3> QED
      BY <3>1
  <2>10. (c + 256 * y) % 256 = c % 256
    <3>1. PICK o \in Nat \ {0} : o = 256
      OBVIOUS
    <3>2. (c + o * y) % o = c % o
      BY ONLY o \in Nat \ {0}, c \in Int, y \in Int, ModAbove
    <3> QED
      BY <3>1, <3>2
  <2>11. Upper(v, k) \div s = c + 256 * y
    <3>1. PICK f \in Int, l \in Int, i \in Int : f = d \div s /\ l = e * t /\ i = t * g
      BY <1>6, <2>3
    <3>2. Upper(v, k) \div s = f + i
      BY <2>4, <2>5, <3>1, Zenon
    <3>3. i = l + 256 * y
      BY <2>8, <2>9, <3>1, Zenon
    <3>4. c = f + l
      BY <2>9, <3>1, Zenon
    <3> QED
      BY ONLY <3>2, <3>3, <3>4, f \in Int, l \in Int, i \in Int, y \in Int
  <2>12. Byte(v, b) = c % 256
    BY <1>2, <1>3, <1>4, <1>8, <2>1, <2>3, <2>9
  <2> QED
    BY <1>4, <1>5, <2>10, <2>11, <2>12
<1> QED
  BY <1>7, <1>8
-----------------------------------------------------------------------------
\* What fe_tobytes estimates: c is the place of the last limb e, l the value of those below it,
\* g the first estimate, x what is left of the value with g when z times 2^255 is taken away.
Estimates(c, l, e, g, z, x) ==
  /\ c \in Nat \ {0} /\ l \in Int /\ e \in Int /\ z \in Int
  /\ -(4 * c) <= l /\ l <= 4 * c
  /\ g = (19 * e + 16777216) \div 33554432 /\ g \in -100 .. 100
  /\ x = l + c * e + g - 33554432 * (c * z) /\ 0 <= x /\ x < 33554432 * c

LEMMA EstimateExact ==
  ASSUME NEW c, NEW l, NEW e, NEW g, NEW z, NEW x, Estimates(c, l, e, g, z, x)
  PROVE  LET y == l + c * e - z * (33554432 * c - 19)
         IN y \in Nat /\ y < 33554432 * c - 19
<1>1. /\ c \in Nat \ {0} /\ l \in Int /\ e \in Int /\ z \in Int /\ g \in Int
      /\ -(4 * c) <= l /\ l <= 4 * c /\ -100 <= g /\ g <= 100
      /\ g = (19 * e + 16777216) \div 33554432
      /\ x = l + c * e + g - 33554432 * (c * z) /\ 0 <= x /\ x < 33554432 * c
  BY SMT DEF Estimates
<1>2. PICK r \in Int : 0 <= r /\ r <= 33554431 /\ 19 * e + 16777216 = 33554432 * g + r
  <2>1. \A t \in Int : /\ t % 33554432 \in Int /\ 0 <= t % 33554432 /\ t % 33554432 <= 33554431
                       /\ t = 33554432 * (t \div 33554432) + (t % 33554432)
    BY SMT
  <2>2. PICK t \in Int : t = 19 * e + 16777216
    BY <1>1, SMT
  <2>3. PICK r \in Int : r = t % 33554432 /\ 0 <= r /\ r <= 33554431
    BY <2>1, <2>2, SMT
  <2>4. t = 33554432 * g + r
    BY <1>1, <2>1, <2>2, <2>3, SMT
  <2> QED
    BY <2>2, <2>3, <2>4, SMT
<1>3. PICK ce \in Int, cq \in Int, cg \in Int, cr \in Int :
        ce = c * e /\ cq = c * z /\ cg = c * g /\ cr = c * r
  BY <1>1, SMT
<1>4. 19 * ce + 16777216 * c = 33554432 * cg + cr
  <2>1. c * (19 * e + 16777216) = 19 * (c * e) + 16777216 * c
    BY <1>1, SMT
  <2>2. c * (33554432 * g + r) = 33554432 * (c * g) + c * r
    BY <1>1, SMT
  <2> QED
    BY <1>2, <1>3, <2>1, <2>2, SMT
<1>5. 0 <= cr /\ cr <= 33554431 * c
  <2>1. c \in Nat /\ r \in Nat /\ 33554431 \in Nat
    BY <1>1, <1>2, SMT
  <2>2. r * c <= 33554431 * c /\ c * r = r * c /\ r * c \in Nat
    BY <1>2, <2>1, MulNat, MulFacts, SMT
  <2> QED
    BY <1>3, <2>2, SMT
<1>6. PICK b \in Nat, p \in Int : b = 33554432 * c /\ p = b - 19 /\ 0 < p /\ 0 < b
  BY <1>1, SMT
<1>7. PICK y \in Int : y = l + ce - z * p
  BY <1>1, <1>3, <1>6, SMT
<1>8. y = x - g + 19 * z
  <2>1. z * p = z * b - 19 * z
    BY <1>1, <1>6, SMT
  <2>2. z * b = 33554432 * (c * z)
    BY <1>1, <1>6, SMT
  <2> QED
    BY <1>1, <1>3, <1>7, <2>1, <2>2, SMT
<1>9. PICK cx \in Int, cy \in Int : cx = c * x /\ cy = c * y
  BY <1>1, <1>3, SMT
<1>10. cy = cx - cg + 19 * cq
  <2>1. x \in Int
    BY <1>1, <1>3, SMT
  <2>2. c * (x - g + 19 * z) = c * x - c * g + 19 * (c * z)
    BY <1>1, <2>1, SMT
  <2> QED
    BY <1>3, <1>8, <1>9, <2>2, SMT
<1>11. PICK px \in Int : px = p * x /\ px = 33554432 * cx - 19 * x
  <2>1. x \in Int
    BY <1>1, <1>3, SMT
  <2>2. p * x = 33554432 * (c * x) - 19 * x
    BY <1>1, <1>6, <2>1, SMT
  <2> QED
    BY <1>9, <2>1, <2>2, SMT
<1>12. 33554432 * cy = px + cr - 16777216 * c + 19 * l + 19 * g
  <2>1. x = l + ce + g - 33554432 * cq
    BY <1>1, <1>3, SMT
  <2>2. x \in Int /\ c \in Int /\ l \in Int /\ g \in Int
    BY <1>1, <1>3, SMT
  <2> QED
    BY ONLY <2>2, <1>4, <1>10, <1>11, <2>1, ce \in Int, cq \in Int, cg \in Int, cr \in Int,
            cx \in Int, cy \in Int, px \in Int, SMT
<1>13. PICK pb \in Int : pb = p * b /\ px <= pb - p /\ 0 <= px
  <2>1. x \in Nat /\ p \in Nat /\ b - 1 \in Nat /\ x <= b - 1
    BY <1>1, <1>3, <1>6, SMT
  <2>2. p * x <= p * (b - 1) /\ 0 <= p * x
    BY <2>1, MulNat, SMT
  <2>3. p * (b - 1) = p * b - p
    BY <1>6, SMT
  <2> QED
    BY <1>11, <2>2, <2>3, SMT
<1>14. b * y = 33554432 * cy
  BY <1>1, <1>6, <1>9, SMT
<1>15. -b < b * y /\ b * y < pb
  <2>1. PICK t \in Int : t = b * y /\ t = 33554432 * cy
    BY <1>14, SMT
  <2>2. -b < t /\ t < pb
    BY ONLY <1>1, <1>5, <1>6, <1>12, <1>13, <2>1, cr \in Int, px \in Int, cy \in Int, t \in Int,
            pb \in Int, b \in Nat, p \in Int, SMT
  <2> QED
    BY <2>1, <2>2, SMT
<1>16. 0 <= y
  <2>1. ASSUME y <= -1 PROVE FALSE
    <3>1. -y \in Nat /\ 1 <= -y
      BY <2>1, SMT
    <3>2. b * 1 <= b * (-y)
      BY <1>6, <3>1, MulNat, SMT
    <3>3. b * (-y) = -(b * y) /\ b * y \in Int
      BY SMT
    <3> QED
      BY <1>15, <3>2, <3>3, SMT
  <2> QED
    BY <2>1, SMT
<1>17. y < p
  <2>1. ASSUME p <= y PROVE FALSE
    <3>1. p \in Nat /\ y \in Nat
      BY <1>6, <1>16, SMT
    <3>2. p * b <= y * b
      BY <2>1, <3>1, MulNat, SMT
    <3>3. y * b = b * y /\ b * y \in Int
      BY SMT
    <3> QED
      BY <1>13, <1>15, <3>2, <3>3, SMT
  <2> QED
    BY <2>1, SMT
<1>18. y = l + c * e - z * (33554432 * c - 19)
  BY <1>3, <1>6, <1>7, SMT
<1> QED
  BY <1>6, <1>16, <1>17, <1>18, SMT

\* Limbs that fe_tobytes accepts: no sum of the lower ones goes far beyond the next place.
LEMMA LowBounded ==
  ASSUME RealSize, NEW v \in [0 .. 9 -> Int], \A k \in 0 .. 9 : In(v, k, 73819750)
  PROVE  \A k \in 0 .. 10 : -(4 * Mark(k)) <= Low(v, k) /\ Low(v, k) <= 4 * Mark(k)
<1> DEFINE S == {k \in 0 .. 10 : -(4 * Mark(k)) <= Low(v, k) /\ Low(v, k) <= 4 * Mark(k)}
<1>1. 0 \in S
  <2>1. Low(v, 0) = 0 /\ Mark(0) = 1
    BY LowSteps, MarksReal, SMT
  <2> QED
    BY ONLY <2>1, SMT
<1>2. ASSUME NEW k \in 0 .. 10 - 1, k \in S
      PROVE  k + 1 \in S
  <2>0. k \in 0 .. 9 /\ k + 1 \in 0 .. 10 /\ k \in 0 .. 10
    BY SMT
  <2>1. PICK a \in Nat, b \in Nat, d \in Int, l \in Int :
          a = Mark(k) /\ b = Radix[k] /\ d = v[k] /\ l = Low(v, k)
    <3>1. Mark(k) \in Nat /\ Radix[k] \in Nat
      BY <2>0, MarksReal, SMT
    <3>2. v[k] \in Int /\ Low(v, k) \in Int
      BY <2>0, LowSteps, SMT
    <3> QED
      BY ONLY <3>1, <3>2, Zenon
  <2>2. Low(v, k + 1) = l + d * a /\ Mark(k + 1) = a * b
    <3>1. Low(v, k + 1) = Low(v, k) + v[k] * Mark(k)
      BY <2>0, LowSteps
    <3>2. Mark(k + 1) = Mark(k) * Radix[k]
      BY <2>0, MarksReal
    <3> QED
      BY <2>1, <3>1, <3>2
  <2>3. 33554432 <= b
    <3>1. Radix[k] = IF k % 2 = 1 THEN 33554432 ELSE 67108864
      BY <2>0, SMT DEF RealSize
    <3> QED
      BY <2>1, <3>1, SMT
  <2>4. -73819750 <= d /\ d <= 73819750
    BY <2>0, <2>1, SMT DEF In
  <2>5. -(73819750 * a) <= d * a /\ d * a <= 73819750 * a /\ 33554432 * a <= a * b
    <3>1. 73819750 \in Nat /\ -a <= a /\ a <= a
      BY SMT
    <3>2. -(73819750 * a) <= d * a /\ d * a <= 73819750 * a
      BY ONLY <2>4, <3>1, d \in Int, a \in Nat, ProductBound, SMT
    <3>3. 33554432 * a <= b * a /\ b * a = a * b
      BY <2>3, MulNat, 33554432 \in Nat, SMT
    <3> QED
      BY <3>2, <3>3, SMT
  <2>6. -(4 * a) <= l /\ l <= 4 * a
    BY <1>2, <2>1, SMT
  <2>7. PICK y \in Int, z \in Int : y = d * a /\ z = a * b
    BY SMT
  <2>8. -(4 * z) <= l + y /\ l + y <= 4 * z
    BY <2>5, <2>6, <2>7, SMT
  <2> QED
    BY <2>0, <2>2, <2>7, <2>8, SMT
<1> HIDE DEF S
<1>3. \A k \in 0 .. 10 : k \in S
  BY <1>1, <1>2, InductionTo, 10 \in Nat, SMT
<1> QED
  BY <1>3, SMT DEF S
-----------------------------------------------------------------------------
\* fe_tobytes, statement by statement.  While q is estimated it is the quotient of the limbs
\* passed and of the first estimate; then the number in h is the residue but for a multiple of
\* 2^255, and the limbs carried out of are digits.
First(v) == (19 * v[9] + 16777216) \div 33554432

Rounded(v, p, z) ==
  LET x == Low(v, p) + First(v) - Mark(p) * z IN 0 <= x /\ x < Mark(p)

Over(v, x) == \E m \in Int : Value(v) = x + m * 2^Bits

Clean(v, n) == \A k \in 0 .. 9 : k < n => v[k] \in Nat /\ v[k] < Radix[k]

LEMMA RoundedNext ==
  ASSUME RealSize, NEW v \in [0 .. 9 -> Int], NEW k \in 0 .. 9, NEW z \in Int, Rounded(v, k, z),
         First(v) \in Int
  PROVE  Rounded(v, k + 1, (v[k] + z) \div Radix[k]) /\ (v[k] + z) \div Radix[k] \in Int
<1>1. PICK a \in Nat \ {0}, b \in Nat \ {0}, d \in Int, l \in Int, f \in Int :
        a = Mark(k) /\ b = Radix[k] /\ d = v[k] /\ l = Low(v, k) /\ f = First(v)
  <2>0. k \in 0 .. 10
    OBVIOUS
  <2>1. Mark(k) \in Nat \ {0} /\ Radix[k] \in Nat \ {0}
    BY <2>0, MarksReal
  <2>2. v[k] \in Int /\ Low(v, k) \in Int
    BY <2>0, LowSteps
  <2> QED
    BY <2>1, <2>2, First(v) \in Int, Zenon
<1>2. PICK x \in Int : x = l + f - a * z /\ 0 <= x /\ x < a
  BY <1>1 DEF Rounded
<1>3. PICK y \in Int : y = d + z
  OBVIOUS
<1>4. PICK u \in Int, r \in Nat : u = y \div b /\ r = y % b /\ r < b /\ y = b * u + r
  <2>1. y \div b \in Int /\ y % b \in Nat /\ y % b < b /\ y = b * (y \div b) + (y % b)
    BY DivMod
  <2> QED
    BY <2>1
<1>5. Low(v, k + 1) = l + d * a /\ Mark(k + 1) = a * b
  <2>1. Low(v, k + 1) = Low(v, k) + v[k] * Mark(k)
    BY LowSteps
  <2>2. Mark(k + 1) = Mark(k) * Radix[k]
    BY MarksReal
  <2> QED
    BY <1>1, <2>1, <2>2
<1>6. (l + d * a) + f - (a * b) * u = x + a * r
  <2>1. a * y = a * d + a * z
    BY <1>3, MulFacts
  <2>2. a * y = a * (b * u) + a * r
    <3>1. PICK e \in Int : e = b * u
      OBVIOUS
    <3>2. a * (e + r) = a * e + a * r
      OBVIOUS
    <3> QED
      BY <1>4, <3>1, <3>2
  <2>3. a * (b * u) = (a * b) * u
    BY MulAssoc
  <2>4. d * a = a * d
    OBVIOUS
  <2>5. PICK ad \in Int, az \in Int, abu \in Int, ar \in Int :
          ad = a * d /\ az = a * z /\ abu = (a * b) * u /\ ar = a * r
    OBVIOUS
  <2>6. ad + az = abu + ar
    BY <2>1, <2>2, <2>3, <2>5, Zenon
  <2>7. x = l + f - az
    BY <1>2, <2>5, Zenon
  <2> QED
    BY <2>4, <2>5, <2>6, <2>7
<1>7. 0 <= x + a * r /\ x + a * r < a * b
  <2>1. a \in Nat /\ b \in Nat /\ r + 1 \in Nat /\ r + 1 <= b
    BY <1>4
  <2>2. a * (r + 1) <= a * b /\ a * r \in Nat
    BY <2>1, MulNat
  <2>3. a * (r + 1) = a * r + a
    OBVIOUS
  <2>4. PICK ar \in Nat, ab \in Int : ar = a * r /\ ab = a * b
    BY <2>2
  <2> QED
    BY <1>2, <2>2, <2>3, <2>4
<1>8. (v[k] + z) \div Radix[k] = u
  BY <1>1, <1>3, <1>4
<1>9. Rounded(v, k + 1, u)
  BY <1>1, <1>5, <1>6, <1>7 DEF Rounded
<1> QED
  BY <1>8, <1>9

\* The estimate is the quotient by p, and 19 times it makes the sum 2^255 times it larger
\* than the residue.
LEMMA QuotientExact ==
  ASSUME RealSize, NEW v \in [0 .. 9 -> Int], \A k \in 0 .. 9 : In(v, k, 73819750),
         NEW z \in Int, Rounded(v, 10, z), First(v) \in -100 .. 100, NEW x, Stands(v, x),
         NEW w \in [0 .. 9 -> Int], w[0] = v[0] + 19 * z, \A k \in 1 .. 9 : w[k] = v[k]
  PROVE  Over(w, x)
<1>p. P \in Nat \ {0} /\ 2^Bits = P + 19
  BY ONLY RealSize, ModulusReal, Zenon
<1>1. PICK c \in Nat \ {0}, l \in Int, e \in Int, g \in Int, n \in Int :
        c = Mark(9) /\ l = Low(v, 9) /\ e = v[9] /\ g = First(v) /\ n = Value(v)
  <2>1. Mark(9) \in Nat \ {0}
    BY MarksReal, SMT
  <2>2. Low(v, 9) \in Int /\ v[9] \in Int /\ Value(v) \in Int
    BY LowSteps, ValueInt, 9 \in 0 .. 10, SMT
  <2>3. First(v) \in Int
    BY SMT
  <2> QED
    BY ONLY <2>1, <2>2, <2>3, Zenon
<1>2. n = l + c * e
  <2>1. Low(v, 9 + 1) = Low(v, 9) + v[9] * Mark(9)
    BY LowSteps, SMT
  <2>2. Low(v, 10) = Value(v)
    BY LowSteps, SMT
  <2>3. e * c = c * e
    BY SMT
  <2> QED
    BY <1>1, <2>1, <2>2, <2>3, SMT
<1>3. 2^Bits = 33554432 * c /\ Mark(10) = 33554432 * c
  <2>1. Mark(9 + 1) = Mark(9) * Radix[9] /\ Mark(10) = 2^Bits
    BY MarksReal, SMT
  <2>2. Radix[9] = 33554432
    BY SMT DEF RealSize
  <2>3. c * 33554432 = 33554432 * c
    BY SMT
  <2>4. 9 + 1 = 10
    BY SMT
  <2> QED
    BY ONLY <1>1, <2>1, <2>2, <2>3, c \in Nat \ {0}, SMT
<1>4. PICK r \in Int : r = n + g - (33554432 * c) * z /\ 0 <= r /\ r < 33554432 * c
  <2>1. Low(v, 10) = n
    BY <1>1, LowSteps, SMT
  <2> QED
    BY <1>1, <1>3, <2>1, SMT DEF Rounded
<1>5. Estimates(c, l, e, g, z, r)
  <2>1. -(4 * c) <= l /\ l <= 4 * c
    <3>1. 9 \in 0 .. 10
      BY SMT
    <3> QED
      BY <1>1, <3>1, LowBounded, SMT
  <2>2. g = (19 * e + 16777216) \div 33554432 /\ g \in -100 .. 100
    BY <1>1, SMT DEF First
  <2>3. (33554432 * c) * z = 33554432 * (c * z)
    BY SMT
  <2>4. r = l + c * e + g - 33554432 * (c * z)
    BY ONLY <1>2, <1>4, <2>3, c \in Nat, n \in Int, g \in Int, l \in Int, e \in Int, z \in Int,
            r \in Int, SMT
  <2> QED
    BY ONLY <1>4, <2>1, <2>2, <2>4, c \in Nat \ {0}, l \in Int, e \in Int, z \in Int,
            SMT DEF Estimates
<1>6. PICK y \in Nat : y = n - z * P /\ y < P
  <2>1. P = 33554432 * c - 19
    BY <1>p, <1>3, SMT
  <2>2. LET u == l + c * e - z * (33554432 * c - 19) IN u \in Nat /\ u < 33554432 * c - 19
    BY ONLY <1>5, EstimateExact, SMT
  <2>3. PICK i \in Int : i = 33554432 * c - 19 /\ P = i /\ l + c * e - z * i \in Nat
                        /\ l + c * e - z * i < i
    BY ONLY <2>1, <2>2, c \in Nat, SMT
  <2>4. n - z * P = l + c * e - z * i
    BY ONLY <1>2, <2>3, SMT
  <2> QED
    BY ONLY <2>3, <2>4, SMT
<1>7. y = x
  <2>1. PICK d \in Nat : d = x /\ d < P
    BY SMT DEF Stands
  <2>2. Cong(n, d)
    BY <1>1, <2>1, SMT DEF Stands
  <2>3. Cong(y, n)
    <3>1. n - z * P = n + (-z) * P /\ -z \in Int
      BY <1>p, SMT
    <3>2. y = n + (-z) * P /\ y \in Int /\ n \in Int
      BY <1>6, <3>1, SMT
    <3> QED
      BY ONLY <3>1, <3>2, Zenon DEF Cong
  <2>4. Cong(y, d)
    BY ONLY <1>p, <2>2, <2>3, CongTrans, SMT
  <2>5. y % P = d % P
    <3>1. y \in Int /\ d \in Int
      BY SMT
    <3> QED
      BY ONLY <1>p, <2>4, <3>1, CongSame, SMT
  <2>6. y % P = y /\ d % P = d
    <3>1. PICK b \in Nat \ {0} : b = P
      BY ONLY <1>p, Zenon
    <3>2. y \in Nat /\ d \in Nat /\ y < b /\ d < b
      BY ONLY <1>6, <2>1, <3>1, SMT
    <3> QED
      BY ONLY <3>1, <3>2, b \in Nat \ {0}, SmallDiv, Zenon
  <2> QED
    BY <2>1, <2>5, <2>6, SMT
<1>8. Value(w) = n + 19 * z
  <2>0. /\ \A k \in 0 .. 9 : Terms(v)[k] = v[k] * Place(k) /\ Terms(v)[k] \in Int
        /\ \A k \in 0 .. 9 : Terms(w)[k] = w[k] * Place(k) /\ Terms(w)[k] \in Int
    BY ONLY RealSize, v \in [0 .. 9 -> Int], w \in [0 .. 9 -> Int], ValueInt, Zenon
  <2>1. Terms(w)[0] = Terms(v)[0] + 19 * z
    <3>1. Terms(w)[0] = w[0] * 1 /\ Terms(v)[0] = v[0] * 1 /\ v[0] \in Int
      BY <2>0, PlacesReal, SMT
    <3> QED
      BY <3>1, SMT
  <2>2. Bumped(Terms(v), Terms(w), 10, 0, 19 * z)
    <3>1. \A k \in 0 .. 10 - 1 : Terms(v)[k] \in Int
      BY <2>0, SMT
    <3>2. \A k \in 0 .. 10 - 1 : k # 0 => Terms(w)[k] = Terms(v)[k]
      BY <2>0, SMT
    <3>3. 0 \in 0 .. 10 - 1 /\ 19 * z \in Int
      BY SMT
    <3> QED
      BY ONLY <2>1, <3>1, <3>2, <3>3, Zenon DEF Bumped
  <2>3. Total(Terms(w), 10) = Total(Terms(v), 10) + 19 * z
    <3>1. PICK m \in Nat, k \in Nat, i \in Int : m = 10 /\ k = 0 /\ i = 19 * z
      BY SMT
    <3>2. Bumped(Terms(v), Terms(w), m, k, i)
      BY ONLY <2>2, <3>1, SMT
    <3>3. Total(Terms(w), m) = Total(Terms(v), m) + i
      BY ONLY <3>2, BumpedTotal, SMT
    <3> QED
      BY ONLY <3>1, <3>3, SMT
  <2> QED
    BY <1>1, <2>3, SMT DEF Value
<1>9. Value(w) = x + z * 2^Bits
  <2>1. z * (P + 19) = z * P + 19 * z
    BY <1>p, SMT
  <2>2. PICK i \in Int : i = z * P
    BY <1>p, SMT
  <2>3. y = n - i
    BY ONLY <1>6, <2>2, Zenon
  <2>4. z * 2^Bits = i + 19 * z
    BY ONLY <1>p, <2>1, <2>2, Zenon
  <2> QED
    BY ONLY <1>7, <1>8, <2>3, <2>4, i \in Int, n \in Int, y \in Nat, z \in Int, SMT
<1> QED
  BY <1>9, SMT DEF Over
-----------------------------------------------------------------------------
\* The strengthening that Encodes needs.  Until the estimate is complete, v is the element of
\* residue x that is encoded and z its estimate before statement p; then its number is the
\* residue but for a multiple of 2^255, and the limbs carried out of are digits.
Midway(v, x, p, z) ==
  \/ p < 10 /\ Stands(v, x) /\ First(v) \in -100 .. 100 /\ Rounded(v, p, z)
  \/ p >= 10 /\ x \in Nat /\ x < P /\ Over(v, x) /\ Clean(v, p - 10)

Encoded ==
  /\ out # <<>> => call \in Writers /\ out = Encoding(want)
  /\ Writing => Midway(h, want, pc, q)

\* What Encoded says after a step.
LEMMA EncodedAfter ==
  ASSUME call' \in Writers /\ out' = <<>> => Midway(h', want', pc', q'),
         out' # <<>> => call' \in Writers /\ out' = Encoding(want')
  PROVE  Encoded'
<1>1. Writing' => call' \in Writers /\ out' = <<>>
  BY DEF Writing, Writers
<1>2. (Midway(h, want, pc, q)' <=> Midway(h', want', pc', q'))
      /\ Encoding(want)' = Encoding(want')
  BY Zenon
<1> QED
  BY <1>1, <1>2, Zenon DEF Encoded

LEMMA ToBytesEncoded ==
  ASSUME RealSize, ValueInv, Encoded, ToBytes
  PROVE  Encoded'
<1>1. /\ "f" \in DOMAIN element /\ call = "none" /\ call' \in Writers /\ out' = out
      /\ h' = element["f"] /\ pc' = 0 /\ want' = residue["f"]
      /\ q' = (Red * h'[N - 1] + Radix[N - 1] \div 2) \div Radix[N - 1]
  BY DEF ToBytes, Writers, Idle, verify
<1>2. out = <<>>
  <2>1. "none" \notin Writers
    BY SMT DEF Writers
  <2> QED
    BY <1>1, <2>1 DEF Encoded
<1>3. Stands(h', want')
  BY <1>1 DEF ValueInv, ElementsStand
<1>4. h' \in [0 .. 9 -> Int] /\ q' \in -100 .. 100
  <2>1. Inv'
    BY ToBytesKeeps DEF ValueInv
  <2> QED
    BY <1>1, <2>1, SMT DEF Inv, Running
<1>5. First(h') = q'
  <2>1. N - 1 = 9 /\ Red = 19 /\ Radix[9] = 33554432
    BY SMT DEF RealSize
  <2>2. 33554432 \div 2 = 16777216
    BY SMT
  <2> QED
    BY <1>1, <2>1, <2>2, SMT DEF First
<1>6. Rounded(h', 0, q')
  <2>1. Low(h', 0) = 0 /\ Mark(0) = 1
    BY <1>4, LowSteps, MarksReal, SMT
  <2> QED
    BY <1>4, <1>5, <2>1, SMT DEF Rounded
<1>7. Midway(h', want', pc', q')
  BY <1>1, <1>3, <1>4, <1>5, <1>6, SMT DEF Midway
<1> QED
  BY <1>1, <1>2, <1>7, EncodedAfter

LEMMA QuotientEncoded ==
  ASSUME RealSize, ValueInv, Encoded, Quotient
  PROVE  Encoded'
<1>1. /\ call \in Writers /\ call' = call /\ pc' = pc + 1 /\ out = <<>> /\ out' = out
      /\ want' = want /\ pc \in 0 .. 9 /\ q' = (h[pc] + q) \div Radix[pc]
      /\ h' = IF pc = 9 THEN [h EXCEPT ![0] = @ + 19 * q'] ELSE h
  <2>1. N - 1 = 9 /\ Red = 19 /\ Limbs = 0 .. 9
    BY LimbsReal, SMT DEF RealSize
  <2> QED
    BY <2>1 DEF Quotient, Writing, Writers, verify
<1>2. /\ h \in [0 .. 9 -> Int] /\ q \in Int
      /\ \A k \in 0 .. 9 : In(h, k, 73819750)
  <2>1. h \in [0 .. 9 -> Int] /\ q \in -100 .. 100 /\ \A k \in 0 .. 9 : In(h, k, Room(pc, k))
    BY <1>1 DEF ValueInv, Inv, Running
  <2>2. \A k \in 0 .. 9 : Room(pc, k) = 73819750
    BY <1>1, SMT DEF Room
  <2>3. \A k \in 0 .. 9 : In(h, k, 73819750)
    BY ONLY <2>1, <2>2, SMT
  <2>4. q \in Int
    BY <2>1, SMT
  <2> QED
    BY <2>1, <2>3, <2>4, SMT
<1>3. Stands(h, want) /\ First(h) \in -100 .. 100 /\ Rounded(h, pc, q)
  <2>1. Midway(h, want, pc, q)
    BY DEF Encoded, Quotient
  <2>2. ~(pc >= 10)
    BY <1>1, SMT
  <2> QED
    BY <2>1, <2>2, Zenon DEF Midway
<1>4. First(h) \in Int
  BY <1>3, SMT
<1>5. Rounded(h, pc + 1, q') /\ q' \in Int
  <2>1. /\ Rounded(h, pc + 1, (h[pc] + q) \div Radix[pc])
        /\ (h[pc] + q) \div Radix[pc] \in Int
    <3>1. h \in [0 .. 9 -> Int] /\ q \in Int
      BY <1>2, SMT
    <3>2. pc \in 0 .. 9
      BY <1>1, SMT
    <3> QED
      BY ONLY RealSize, <1>3, <1>4, <3>1, <3>2, RoundedNext, Zenon
  <2> QED
    BY <1>1, <2>1, Zenon
<1>6. CASE pc # 9
  <2>1. h' = h /\ pc' < 10
    BY <1>1, <1>6, SMT
  <2>2. Midway(h', want', pc', q')
    BY <1>1, <1>3, <1>5, <2>1, Zenon DEF Midway
  <2> QED
    BY <1>1, <2>2, EncodedAfter
<1>7. CASE pc = 9
  <2>1. h' \in [0 .. 9 -> Int] /\ h'[0] = h[0] + 19 * q' /\ \A k \in 1 .. 9 : h'[k] = h[k]
    <3>1. h' = [h EXCEPT ![0] = @ + 19 * q']
      BY <1>1, <1>7, SMT
    <3>2. h[0] \in Int
      BY <1>2, SMT
    <3>3. h[0] + 19 * q' \in Int
      BY ONLY <1>5, <3>2, SMT
    <3> QED
      BY <1>2, <3>1, <3>3, SMT
  <2>2. Rounded(h, 10, q')
    <3>1. pc + 1 = 10
      BY <1>7, SMT
    <3> QED
      BY <1>5, <3>1, Zenon
  <2>3. Over(h', want')
    <3>1. Over(h', want)
      BY ONLY RealSize, <1>2, <1>3, <1>5, <2>1, <2>2, QuotientExact, SMT
    <3> QED
      BY <1>1, <3>1, Zenon
  <2>4. Clean(h', pc' - 10)
    BY <1>1, <1>7, SMT DEF Clean
  <2>5. pc' >= 10
    BY <1>1, <1>7, SMT
  <2>6. want' \in Nat /\ want' < P
    BY <1>1, <1>3 DEF Stands
  <2>7. Midway(h', want', pc', q')
    BY <2>3, <2>4, <2>5, <2>6, Zenon DEF Midway
  <2> QED
    BY <1>1, <2>7, EncodedAfter
<1> QED
  BY <1>6, <1>7

\* A carry that rounds down leaves a digit; the last one takes a multiple of 2^255 away.
LEMMA FloorLeavesDigit ==
  ASSUME RealSize, NEW v \in [0 .. 9 -> Int], NEW n \in 0 .. 9, NEW x \in Int, Over(v, x),
         Clean(v, n),
         NEW w \in [0 .. 9 -> Int], NEW c \in Int, c = v[n] \div Radix[n],
         w[n] = v[n] - c * Radix[n], n < 9 => w = Carried(v, n, c),
         \A k \in 0 .. 9 : k # n /\ k # n + 1 => w[k] = v[k]
  PROVE  Over(w, x) /\ Clean(w, n + 1)
<1>1. PICK r \in Nat \ {0}, e \in Int : r = Radix[n] /\ e = v[n]
  <2>1. Radix[n] \in Nat \ {0} /\ v[n] \in Int
    BY MarksReal
  <2> QED
    BY <2>1, Zenon
<1>2. w[n] = e % r /\ e % r \in Nat /\ e % r < r
  <2>1. e \div r \in Int /\ e % r \in Nat /\ e % r < r /\ e = r * (e \div r) + (e % r)
    BY DivMod
  <2>2. c = e \div r /\ w[n] = e - c * r
    BY <1>1
  <2>3. PICK y \in Int, z \in Nat : y = r * c /\ z = e % r /\ z < r
    BY <2>1
  <2>4. c * r = r * c
    OBVIOUS
  <2>5. e = y + z /\ w[n] = e - y
    BY <2>1, <2>2, <2>3, <2>4
  <2> QED
    BY <2>3, <2>5
<1>3. Clean(w, n + 1)
  <2> SUFFICES ASSUME NEW k \in 0 .. 9, k < n + 1 PROVE w[k] \in Nat /\ w[k] < Radix[k]
    BY DEF Clean
  <2>1. CASE k = n
    BY <1>1, <1>2, <2>1
  <2>2. CASE k # n
    <3>1. k < n /\ k # n + 1
      BY <2>2
    <3>2. w[k] = v[k]
      BY <2>2, <3>1
    <3> QED
      BY <3>1, <3>2 DEF Clean
  <2> QED
    BY <2>1, <2>2
<1>4. CASE n < 9
  <2>1. Value(w) = Value(v)
    BY <1>4, CarryValue, Zenon
  <2> QED
    BY <1>3, <2>1, Zenon DEF Over
<1>5. CASE n = 9
  <2>0. /\ \A k \in 0 .. 9 : Terms(v)[k] = v[k] * Place(k) /\ Terms(v)[k] \in Int
        /\ \A k \in 0 .. 9 : Terms(w)[k] = w[k] * Place(k) /\ Terms(w)[k] \in Int
    BY ONLY RealSize, v \in [0 .. 9 -> Int], w \in [0 .. 9 -> Int], ValueInt, Zenon
  <2>1. PICK a \in Int, b \in Int : a = Place(9) /\ b = 2^Bits /\ b = r * a
    <3>1. Place(9) \in Int /\ 2^Bits = Radix[9] * Place(9)
      BY PlacesReal
    <3> QED
      BY <1>1, <1>5, <3>1
  <2>2. PICK i \in Int : i = -(c * b)
    OBVIOUS
  <2>3. Terms(w)[9] = Terms(v)[9] + i
    <3>1. Terms(w)[9] = (e - c * r) * a /\ Terms(v)[9] = e * a
      BY <1>1, <1>5, <2>0, <2>1
    <3>2. (e - c * r) * a = e * a - (c * r) * a
      OBVIOUS
    <3>3. (c * r) * a = c * (r * a)
      OBVIOUS
    <3>4. PICK s \in Int, t \in Int : s = e * a /\ t = c * b
      OBVIOUS
    <3>5. (c * r) * a = t
      BY <2>1, <3>3, <3>4, Zenon
    <3>6. Terms(w)[9] = s - t /\ Terms(v)[9] = s
      BY <3>1, <3>2, <3>4, <3>5, Zenon
    <3>7. i = -t
      BY <2>2, <3>4, Zenon
    <3> QED
      BY <3>6, <3>7
  <2>4. PICK m \in Nat, p \in Nat : m = 10 /\ p = 9
    OBVIOUS
  <2>5. Bumped(Terms(v), Terms(w), m, p, i)
    <3>1. \A k \in 0 .. m - 1 : Terms(v)[k] \in Int
      BY <2>0, <2>4
    <3>2. \A k \in 0 .. m - 1 : k # p => Terms(w)[k] = Terms(v)[k]
      <4> SUFFICES ASSUME NEW k \in 0 .. 9, k # 9 PROVE Terms(w)[k] = Terms(v)[k]
        BY <2>4
      <4>1. w[k] = v[k]
        BY <1>5
      <4> QED
        BY <2>0, <4>1
    <3>3. p \in 0 .. m - 1 /\ i \in Int
      BY <2>4
    <3>4. Terms(w)[p] = Terms(v)[p] + i
      BY <2>3, <2>4
    <3> QED
      BY ONLY <3>1, <3>2, <3>3, <3>4, Zenon DEF Bumped
  <2>6. Total(Terms(w), m) = Total(Terms(v), m) + i
    BY ONLY <2>5, BumpedTotal, SMT
  <2>7. Value(w) = Value(v) + i
    BY <2>4, <2>6 DEF Value
  <2>8. Over(w, x)
    <3>1. PICK d \in Int : Value(v) = x + d * 2^Bits
      BY DEF Over
    <3>2. (d - c) * b = d * b - c * b
      OBVIOUS
    <3>3. PICK s \in Int, t \in Int : s = d * b /\ t = c * b
      OBVIOUS
    <3>4. Value(v) = x + s /\ (d - c) * b = s - t /\ i = -t
      BY <2>1, <2>2, <3>1, <3>2, <3>3, Zenon
    <3>5. Value(w) = x + (d - c) * b
      BY <2>7, <3>3, <3>4
    <3>6. d - c \in Int
      OBVIOUS
    <3> QED
      BY <2>1, <3>5, <3>6, Zenon DEF Over
  <2> QED
    BY <1>3, <2>8
<1> QED
  BY <1>4, <1>5

LEMMA CarryFloorEncoded ==
  ASSUME RealSize, ValueInv, Encoded, CarryFloor
  PROVE  Encoded'
<1> DEFINE n == pc - 10
           c == h[n] \div Radix[n]
<1>1. /\ call \in Writers /\ call' = call /\ pc' = pc + 1 /\ out = <<>> /\ out' = out
      /\ want' = want /\ pc \in 10 .. 19
      /\ h' = [k \in 0 .. 9 |->
                IF k = n THEN h[k] - c * Radix[n] ELSE IF k = n + 1 THEN h[k] + c ELSE h[k]]
  <2>1. N = 10 /\ 2 * N - 1 = 19 /\ Limbs = 0 .. 9
    BY LimbsReal, SMT DEF RealSize
  <2> QED
    BY <2>1 DEF CarryFloor, Writing, Writers, verify
<1>2. h \in [0 .. 9 -> Int] /\ h' \in [0 .. 9 -> Int]
  <2>1. Inv'
    BY CarryFloorKeeps DEF ValueInv
  <2> QED
    BY <2>1 DEF ValueInv, Inv, Running
<1>3. n \in 0 .. 9 /\ n + 1 = pc' - 10 /\ pc' >= 10 /\ pc >= 10 /\ ~(pc < 10)
  BY <1>1, SMT
<1>4. want \in Nat /\ want < P /\ Over(h, want) /\ Clean(h, n)
  <2>1. Midway(h, want, pc, q)
    BY DEF Encoded, CarryFloor
  <2> QED
    BY <1>3, <2>1, Zenon DEF Midway
<1>5. c \in Int
  <2>1. PICK r \in Nat \ {0}, e \in Int : r = Radix[n] /\ e = h[n]
    <3>1. Radix[n] \in Nat \ {0} /\ h[n] \in Int
      BY <1>2, <1>3, MarksReal
    <3> QED
      BY <3>1, Zenon
  <2>2. e \div r \in Int
    BY DivMod
  <2> QED
    BY <2>1, <2>2
<1>6. /\ h'[n] = h[n] - c * Radix[n]
      /\ \A k \in 0 .. 9 : k # n /\ k # n + 1 => h'[k] = h[k]
  BY <1>1, <1>3
<1>7. n < 9 => h' = Carried(h, n, c)
  <2>1. N - 1 = 9 /\ Limbs = 0 .. 9
    BY LimbsReal, SMT DEF RealSize
  <2> QED
    BY <1>1, <2>1 DEF Carried
<1>8. PICK m \in 0 .. 9, d \in Int : m = n /\ d = c
  BY <1>3, <1>5, Zenon
<1>9. d = h[m] \div Radix[m]
  BY <1>8
<1> HIDE DEF n, c
<1>10. Over(h', want) /\ Clean(h', m + 1)
  <2>1. want \in Int
    BY <1>4
  <2> QED
    BY ONLY RealSize, <1>2, <1>4, <1>6, <1>7, <1>8, <1>9, <2>1, FloorLeavesDigit, Zenon
<1>11. Midway(h', want', pc', q')
  BY <1>1, <1>3, <1>4, <1>8, <1>10, Zenon DEF Midway
<1> QED
  BY <1>1, <1>11, EncodedAfter

LEMMA OverIs ==
  ASSUME RealSize, NEW v \in [0 .. 9 -> Int], NEW x \in Nat, x < P, Over(v, x), Clean(v, 10)
  PROVE  Digital(v) /\ Value(v) = x
<1>1. Digital(v)
  <2>1. \A k \in 0 .. 9 : v[k] \in Nat /\ v[k] < Radix[k]
    <3>1. \A k \in 0 .. 9 : k < 10
      OBVIOUS
    <3> QED
      BY <3>1, Zenon DEF Clean
  <2> QED
    BY <2>1 DEF Digital
<1>2. PICK b \in Nat \ {0}, y \in Nat : b = 2^Bits /\ y = Value(v) /\ y < b /\ x < b
  <2>1. Low(v, 10) \in Nat /\ Low(v, 10) < Mark(10)
    BY <1>1, DigitsBelow
  <2>2. Low(v, 10) = Value(v)
    BY LowSteps
  <2>3. Mark(10) = 2^Bits /\ Mark(10) \in Nat \ {0}
    BY MarksReal
  <2>4. P \in Nat \ {0} /\ 2^Bits = P + 19
    BY ModulusReal, Zenon
  <2>5. PICK p \in Nat : p = P /\ 2^Bits = p + 19
    BY <2>4, Zenon
  <2>6. x < p + 19
    BY <2>5
  <2> QED
    BY <2>1, <2>2, <2>3, <2>5, <2>6
<1>3. PICK m \in Int : y = x + m * b
  BY <1>2 DEF Over
<1>4. y = b * m + x
  <2>1. m * b = b * m
    OBVIOUS
  <2>2. PICK i \in Int : i = b * m
    OBVIOUS
  <2> QED
    BY <1>3, <2>1, <2>2
<1>5. y % b = x
  <2>1. x < b
    BY <1>2
  <2>2. (b * m + x) % b = x
    BY ONLY <2>1, b \in Nat \ {0}, m \in Int, x \in Nat, DivModUnique, Zenon
  <2> QED
    BY ONLY <1>4, <2>2, Zenon
<1>6. y % b = y
  BY <1>2, SmallDiv
<1> QED
  BY <1>1, <1>2, <1>5, <1>6

LEMMA PackEncoded ==
  ASSUME RealSize, ValueInv, Encoded, Pack
  PROVE  Encoded'
<1>1. /\ call \in Writers /\ call' = call /\ want' = want /\ pc = 20
      /\ h' = h /\ pc' = pc /\ q' = q
      /\ out' = [b \in 0 .. 31 |-> Byte(h, b)]
  <2>1. 2 * N = 20 /\ Bytes - 1 = 31
    BY SMT DEF RealSize
  <2> QED
    BY <2>1 DEF Pack, Writing, Writers, field
<1>2. h \in [0 .. 9 -> Int]
  BY DEF ValueInv, Inv, Running
<1>3. Midway(h, want, pc, q)
  BY DEF Encoded, Pack
<1>4. want \in Nat /\ want < P /\ Over(h, want) /\ Clean(h, 10)
  <2>1. pc - 10 = 10 /\ ~(pc < 10)
    BY <1>1, SMT
  <2> QED
    BY <1>3, <2>1, Zenon DEF Midway
<1>5. Digital(h) /\ Value(h) = want
  BY <1>2, <1>4, OverIs, Zenon
<1>6. ASSUME NEW b \in 0 .. 31
      PROVE  Byte(h, b) = (want \div 2^(8 * b)) % 256
  <2>1. Byte(h, b) = (Value(h) \div 2^(8 * b)) % 256
    BY <1>5, BytesAre, Zenon
  <2> QED
    BY <1>5, <2>1, Zenon
<1>7. out' = Encoding(want)
  <2>1. ByteBits = 8 /\ Bytes - 1 = 31 /\ 2^8 = 256
    BY SMT DEF RealSize
  <2>2. Encoding(want) = [b \in 0 .. 31 |-> (want \div 2^(8 * b)) % 256]
    BY <2>1, Zenon DEF Encoding
  <2>3. \A b \in 0 .. 31 : Byte(h, b) = (want \div 2^(8 * b)) % 256
    BY <1>6, Zenon
  <2> QED
    BY <1>1, <2>2, <2>3, Zenon
<1>8. Midway(h', want', pc', q')
  BY <1>1, <1>3, Zenon
<1> QED
  BY <1>1, <1>7, <1>8, EncodedAfter

\* The other functions run when nothing has been written, and the comparison of the bytes
\* changes none of them.
LEMMA OthersEncoded ==
  ASSUME Encoded,
         \/ FromBytes \/ Mul \/ Sq \/ Sq2 \/ Add \/ Sub \/ Neg \/ Copy \/ Fe0 \/ Fe1 \/ Cmov
         \/ Carry \/ Store \/ VerifyByte \/ VerifyReturn \/ Finished \/ UNCHANGED vars
  PROVE  Encoded'
<1>1. CASE FromBytes \/ Mul \/ Sq \/ Sq2 \/ Add \/ Sub \/ Neg \/ Copy \/ Fe0 \/ Fe1 \/ Cmov
           \/ Carry \/ Store
  <2>1. /\ call \in {"none", "frombytes", "mul", "sq", "sq2"} /\ out' = out
        /\ call' \in {"none", "frombytes", "mul", "sq", "sq2"}
    BY <1>1 DEF FromBytes, Mul, Sq, Sq2, Add, Sub, Neg, Copy, Fe0, Fe1, Cmov, Carry, Store,
       Ready, Idle, Begin, Simple, Multiplying, verify
  <2>2. call \notin Writers /\ call' \notin Writers
    BY <2>1, SMT DEF Writers
  <2> QED
    BY <2>1, <2>2, EncodedAfter DEF Encoded
<1>2. CASE VerifyByte \/ VerifyReturn \/ Finished \/ UNCHANGED vars
  <2>1. UNCHANGED <<call, out, want, h, pc, q>>
    BY <1>2 DEF VerifyByte, VerifyReturn, Finished, vars, field, verify
  <2>2. out' # <<>> => call' \in Writers /\ out' = Encoding(want')
    BY <2>1, Zenon DEF Encoded
  <2>3. call' \in Writers /\ out' = <<>> => Midway(h', want', pc', q')
    BY <2>1, Zenon DEF Encoded, Writing, Writers
  <2> QED
    BY <2>2, <2>3, EncodedAfter
<1> QED
  BY <1>1, <1>2

EncodedInv == ValueInv /\ Encoded

LEMMA EncodedInvKeeps ==
  ASSUME RealSize, FieldAssumption, EncodedInv, [Next]_vars
  PROVE  EncodedInv'
<1>1. ValueInv'
  BY ValueInvKeeps DEF EncodedInv
<1>2. Encoded'
  BY ToBytesEncoded, QuotientEncoded, CarryFloorEncoded, PackEncoded, OthersEncoded
     DEF Next, EncodedInv
<1> QED
  BY <1>1, <1>2 DEF EncodedInv

LEMMA EncodedInit ==
  ASSUME RealSize, Init
  PROVE  EncodedInv
<1>1. ValueInv
  BY InitInv DEF Init, ValueInv, ElementsStand, ResultStands, Multiplying
<1>2. Encoded
  BY DEF Init, Encoded, Writing
<1> QED
  BY <1>1, <1>2 DEF EncodedInv

\* fe_tobytes writes the residue below 2^255 - 19 that the limbs stand for, at the size of
\* fe.h: its estimate is the quotient by 2^255 - 19 for whatever limbs it accepts, and what
\* the carries that round down leave are the digits of the residue.
THEOREM EncodingCorrect ==
  ASSUME RealSize
  PROVE  Spec => []Encodes
<1>1. Init => EncodedInv
  BY EncodedInit
<1>2. EncodedInv /\ [Next]_vars => EncodedInv'
  BY FieldAssumption, EncodedInvKeeps
<1>3. EncodedInv => Encodes
  BY DEF EncodedInv, Encoded, Encodes
<1> QED
  BY <1>1, <1>2, <1>3, PTL DEF Spec
-----------------------------------------------------------------------------
\* Bytes are told apart by their bits, and numbers below 2^256 by their bytes.
LEMMA BitsTell ==
  ASSUME RealSize, NEW m \in 0 .. 255, NEW n \in 0 .. 255, BitsOf(m) = BitsOf(n)
  PROVE  m = n
<1>1. ByteBits - 1 = 7
  BY SMT DEF RealSize
<1>2. ASSUME NEW k \in 0 .. 8 - 1
      PROVE  (m \div 2^(1 * k)) % 2^1 = (n \div 2^(1 * k)) % 2^1
  <2>1. k \in 0 .. 7 /\ 1 * k = k /\ 2^1 = 2
    OBVIOUS
  <2>2. (m \div 2^k) % 2 = 1 <=> (n \div 2^k) % 2 = 1
    BY <1>1, <2>1, Zenon DEF BitsOf
  <2>3. (m \div 2^k) % 2 \in {0, 1} /\ (n \div 2^k) % 2 \in {0, 1}
    <3>1. PICK c \in Nat \ {0} : c = 2^k
      BY PowPositive
    <3>2. PICK i \in Nat, j \in Nat : i = m \div c /\ j = n \div c
      <4>1. m \in Nat /\ n \in Nat
        OBVIOUS
      <4>2. m \div c \in Nat /\ n \div c \in Nat
        BY <4>1, DivMod
      <4> QED
        BY <4>2, Zenon
    <3>3. i % 2 \in {0, 1} /\ j % 2 \in {0, 1}
      OBVIOUS
    <3> QED
      BY <3>1, <3>2, <3>3, Zenon
  <2>4. (m \div 2^k) % 2 = (n \div 2^k) % 2
    BY <2>2, <2>3
  <2> QED
    BY <2>1, <2>4, Zenon
<1>3. SameDigits(1, m, n, 8)
  BY <1>2, Zenon DEF SameDigits
<1>4. PICK d \in Nat \ {0}, w \in Nat, l \in Nat : w = 1 /\ l = 8 /\ d = 2^(w * l)
  <2>1. 2^(1 * 8) \in Nat \ {0} /\ 1 \in Nat /\ 8 \in Nat
    BY SMT
  <2> QED
    BY <2>1, Zenon
<1>5. m \in Nat /\ n \in Nat /\ m < d /\ n < d
  <2>1. 2^(1 * 8) = 256
    BY SMT
  <2>2. d = 2^(1 * 8)
    BY ONLY <1>4, Zenon
  <2> QED
    BY <2>1, <2>2
<1>6. SameDigits(w, m, n, l)
  BY <1>3, <1>4, Zenon
<1> QED
  BY ONLY <1>4, <1>5, <1>6, d \in Nat \ {0}, w \in Nat, l \in Nat, DigitsTell, Zenon

LEMMA EncodingBytes ==
  ASSUME RealSize, NEW n \in Nat
  PROVE  /\ Encoding(n) = [b \in 0 .. 31 |-> (n \div 2^(8 * b)) % 2^8]
         /\ \A b \in 0 .. 31 : Encoding(n)[b] \in 0 .. 255
<1>1. ByteBits = 8 /\ Bytes - 1 = 31 /\ 2^8 = 256
  BY SMT DEF RealSize
<1>2. Encoding(n) = [b \in 0 .. 31 |-> (n \div 2^(8 * b)) % 2^8]
  BY <1>1, Zenon DEF Encoding
<1>3. ASSUME NEW b \in 0 .. 31
      PROVE  Encoding(n)[b] \in 0 .. 255
  <2>1. PICK c \in Nat \ {0} : c = 2^(8 * b)
    <3>1. 8 * b \in Nat
      OBVIOUS
    <3> QED
      BY <3>1, PowPositive
  <2>2. PICK i \in Nat : i = n \div c
    BY DivMod
  <2>3. Encoding(n)[b] = i % 2^8
    BY <1>2, <2>1, <2>2, Zenon
  <2> QED
    BY <1>1, <2>3
<1> QED
  BY <1>2, <1>3

LEMMA EncodingsTell ==
  ASSUME RealSize, NEW m \in Nat, NEW n \in Nat, m < P, n < P, Encoding(m) = Encoding(n)
  PROVE  m = n
<1>1. PICK d \in Nat \ {0}, w \in Nat, l \in Nat : w = 8 /\ l = 32 /\ d = 2^(w * l)
  <2>1. 8 \in Nat /\ 32 \in Nat /\ 8 * 32 \in Nat
    OBVIOUS
  <2>2. 2^(8 * 32) \in Nat \ {0}
    BY <2>1, PowPositive, Zenon
  <2> QED
    BY <2>1, <2>2, Zenon
<1>2. m < d /\ n < d
  <2>1. PICK p \in Nat, c \in Nat : p = P /\ c = 2^Bits /\ c = p + 19
    <3>1. P \in Nat \ {0} /\ 2^Bits = P + 19
      BY ModulusReal
    <3>2. P + 19 \in Nat
      BY <3>1
    <3> QED
      BY <3>1, <3>2, Zenon
  <2>2. c <= d
    <3>1. PICK i \in Nat, j \in Nat : i = Bits /\ j = w * l /\ i <= j
      <4>1. Bits = 255
        BY ModulusReal
      <4>2. w * l = 256
        BY <1>1
      <4> QED
        BY <4>1, <4>2
    <3>2. 2^i <= 2^j
      BY <3>1, PowMono
    <3> QED
      BY <1>1, <2>1, <3>1, <3>2, Zenon
  <2> QED
    BY <2>1, <2>2
<1>3. ASSUME NEW k \in 0 .. 31
      PROVE  (m \div 2^(8 * k)) % 2^8 = (n \div 2^(8 * k)) % 2^8
  <2>1. /\ Encoding(m) = [b \in 0 .. 31 |-> (m \div 2^(8 * b)) % 2^8]
        /\ Encoding(n) = [b \in 0 .. 31 |-> (n \div 2^(8 * b)) % 2^8]
    BY EncodingBytes, Zenon
  <2>2. Encoding(m)[k] = Encoding(n)[k]
    BY Zenon
  <2> QED
    BY <2>1, <2>2, Zenon
<1>4. SameDigits(w, m, n, l)
  <2>1. 32 - 1 = 31
    OBVIOUS
  <2>2. SameDigits(8, m, n, 32)
    BY <1>3, <2>1, Zenon DEF SameDigits
  <2> QED
    BY <1>1, <2>2, Zenon
<1> QED
  BY ONLY <1>1, <1>2, <1>4, m \in Nat, n \in Nat, d \in Nat \ {0}, w \in Nat, l \in Nat,
          DigitsTell, Zenon
-----------------------------------------------------------------------------
(***************************************************************************)
(* crypto_verify_32, which is called with what fe_tobytes wrote and by     *)
(* ed25519_verify, decides equality, for bytes of any number and size.     *)
(***************************************************************************)
\* The bits collected are those in which the first n bytes differ.
Collected(X, Y, n, S) ==
  \A b \in 0 .. ByteBits - 1 :
    b \in S <=> \E k \in 0 .. n - 1 : b \in Verify32!Xor(X[k], Y[k])

Returned(S) == <<IF ByteBits \in Verify32!Decrement(S) THEN 0 ELSE -1>>

\* Bytes differ when a bit of one of them does, so what is collected at the end tells whether
\* any do; the result does not change any more.
Compared(X, Y, n, S, r) ==
  /\ X \in Verify32!ByteStrings /\ Y \in Verify32!ByteStrings
  /\ n \in 0 .. Bytes /\ S \in Verify32!Byte
  /\ Collected(X, Y, n, S)
  /\ r # <<>> => n = Bytes /\ r = Returned(S)

LEMMA CompareStarts ==
  ASSUME Verify32!VerifyAssumption,
         NEW X \in Verify32!ByteStrings, NEW Y \in Verify32!ByteStrings
  PROVE  Compared(X, Y, 0, {}, <<>>)
<1>1. Collected(X, Y, 0, {})
  BY DEF Collected
<1>2. 0 \in 0 .. Bytes /\ {} \in Verify32!Byte
  BY DEF Verify32!VerifyAssumption, Verify32!Byte
<1> QED
  BY <1>1, <1>2 DEF Compared

LEMMA CompareSteps ==
  ASSUME NEW X, NEW Y, NEW n, NEW S, NEW r, Compared(X, Y, n, S, r), n < Bytes,
         Verify32!VerifyAssumption
  PROVE  Compared(X, Y, n + 1, S \cup Verify32!Xor(X[n], Y[n]), r)
<1> DEFINE T == S \cup Verify32!Xor(X[n], Y[n])
<1>1. n \in 0 .. Bytes - 1 /\ n + 1 \in 0 .. Bytes /\ n # Bytes
  BY DEF Compared, Verify32!VerifyAssumption
<1>2. T \in Verify32!Byte
  BY <1>1 DEF Compared, Verify32!ByteStrings, Verify32!Byte, Verify32!Xor
<1>3. \A k : k \in 0 .. (n + 1) - 1 <=> k \in 0 .. n - 1 \/ k = n
  BY <1>1
<1>4. Collected(X, Y, n + 1, T)
  BY <1>3, Zenon DEF Compared, Collected
<1> QED
  BY <1>1, <1>2, <1>4 DEF Compared

LEMMA CompareReturns ==
  ASSUME NEW X, NEW Y, NEW S, NEW r, Compared(X, Y, Bytes, S, r)
  PROVE  Compared(X, Y, Bytes, S, Returned(S))
  BY DEF Compared

\* The expression at the end, without a branch, tells whether any bit was collected: an
\* unsigned int is wider than a byte, so the borrow of 0 - 1 reaches the bit above.
LEMMA ReturnTellsEmpty ==
  ASSUME Verify32!VerifyAssumption, NEW S \in Verify32!Byte
  PROVE  ByteBits \in Verify32!Decrement(S) <=> S = {}
<1>1. ByteBits \notin S
  BY DEF Verify32!VerifyAssumption, Verify32!Byte
<1>2. ByteBits \in 0 .. WordBits - 1
  BY DEF Verify32!VerifyAssumption
<1>3. (\A c \in S : ByteBits <= c) <=> S = {}
  BY DEF Verify32!VerifyAssumption, Verify32!Byte
<1> QED
  BY <1>1, <1>2, <1>3 DEF Verify32!Decrement, Verify32!Xor

\* Two arrays of bytes that differ nowhere are the same.
LEMMA ComparedDecides ==
  ASSUME Verify32!VerifyAssumption, NEW X, NEW Y, NEW n, NEW S, NEW r, Compared(X, Y, n, S, r),
         r # <<>>
  PROVE  r = <<IF X = Y THEN 0 ELSE -1>>
<1>1. n = Bytes /\ r = Returned(S) /\ S \in Verify32!Byte /\ Collected(X, Y, Bytes, S)
  BY DEF Compared
<1>2. CASE X = Y
  <2>1. S = {}
    BY <1>1, <1>2 DEF Collected, Verify32!Byte, Verify32!Xor
  <2> QED
    BY <1>1, <1>2, <2>1, ReturnTellsEmpty DEF Returned
<1>3. CASE X # Y
  <2>1. ASSUME S = {} PROVE FALSE
    <3>1. ASSUME NEW k \in 0 .. Bytes - 1
          PROVE  X[k] = Y[k]
      <4>1. X[k] \in Verify32!Byte /\ Y[k] \in Verify32!Byte
        BY <3>1 DEF Compared, Verify32!ByteStrings
      <4>2. \A b \in 0 .. ByteBits - 1 : b \notin Verify32!Xor(X[k], Y[k])
        BY <1>1, <2>1, <3>1 DEF Collected
      <4> QED
        BY <4>1, <4>2, Zenon DEF Verify32!Byte, Verify32!Xor
    <3> QED
      BY <1>3, <3>1 DEF Compared, Verify32!ByteStrings
  <2> QED
    BY <1>1, <1>3, <2>1, ReturnTellsEmpty DEF Returned
<1> QED
  BY <1>2, <1>3
-----------------------------------------------------------------------------
\* The strengthening that VerdictTells needs: what the comparison has come to, of bytes of which
\* one side is what was written.
Sets(v) == [b \in 0 .. Bytes - 1 |-> BitsOf(v[b])]

Told ==
  /\ out = <<>> => at = 0 /\ differentbits = {} /\ ret = <<>>
  /\ out # <<>> =>
       /\ want \in Nat /\ want < P
       /\ call = "isnegative" => ret = <<want % 2>>
       /\ call # "isnegative" =>
            /\ \E n \in Nat : other = Encoding(n) /\ (call = "isnonzero" => n = 0)
            /\ Compared(Sets(out), Sets(other), at, differentbits, ret)

LEMMA SetsTell ==
  ASSUME RealSize, NEW m \in Nat, NEW n \in Nat, Sets(Encoding(m)) = Sets(Encoding(n))
  PROVE  Encoding(m) = Encoding(n)
<1>1. Bytes - 1 = 31
  BY SMT DEF RealSize
<1>2. ASSUME NEW b \in 0 .. 31
      PROVE  Encoding(m)[b] = Encoding(n)[b]
  <2>1. BitsOf(Encoding(m)[b]) = BitsOf(Encoding(n)[b])
    BY <1>1, Zenon DEF Sets
  <2>2. PICK i \in 0 .. 255, j \in 0 .. 255 : i = Encoding(m)[b] /\ j = Encoding(n)[b]
    BY EncodingBytes
  <2>3. BitsOf(i) = BitsOf(j)
    BY <2>1, <2>2, Zenon
  <2>4. i = j
    BY <2>3, BitsTell
  <2> QED
    BY <2>2, <2>4
<1>3. /\ Encoding(m) = [b \in 0 .. 31 |-> Encoding(m)[b]]
      /\ Encoding(n) = [b \in 0 .. 31 |-> Encoding(n)[b]]
  BY EncodingBytes, Zenon
<1> QED
  BY <1>2, <1>3, Zenon

LEMMA SetsAreBytes ==
  ASSUME NEW v
  PROVE  Sets(v) \in Verify32!ByteStrings
  BY DEF Sets, BitsOf, Verify32!ByteStrings, Verify32!Byte

LEMMA LowestBit ==
  ASSUME RealSize, NEW n \in Nat
  PROVE  Encoding(n)[0] % 2 = n % 2
<1>1. Encoding(n)[0] = (n \div 2^(8 * 0)) % 2^8
  <2>1. 0 \in 0 .. 31
    OBVIOUS
  <2>2. Encoding(n) = [b \in 0 .. 31 |-> (n \div 2^(8 * b)) % 2^8]
    BY EncodingBytes, Zenon
  <2> QED
    BY <2>1, <2>2, Zenon
<1>2. 8 * 0 = 0 /\ 2^0 = 1 /\ 2^8 = 256
  BY SMT
<1>3. n \div 1 = n /\ (n % 256) % 2 = n % 2
  BY SMT
<1>4. n \div 2^(8 * 0) = n
  BY <1>2, <1>3
<1> QED
  BY <1>1, <1>2, <1>3, <1>4

LEMMA Written ==
  ASSUME RealSize, NEW n \in Nat
  PROVE  Encoding(n) # <<>>
<1>1. DOMAIN Encoding(n) = 0 .. 31
  BY EncodingBytes, Zenon
<1>2. 0 \in 0 .. 31 /\ 0 \notin DOMAIN <<>>
  OBVIOUS
<1> QED
  BY <1>1, <1>2

LEMMA PackTold ==
  ASSUME RealSize, FieldAssumption, Verify32!VerifyAssumption, EncodedInv, Told, Pack
  PROVE  Told'
<1>1. /\ call \in Writers /\ call' = call /\ want' = want /\ out = <<>> /\ pc = 20
      /\ at' = at /\ differentbits' = differentbits
  <2>1. 2 * N = 20
    BY SMT DEF RealSize
  <2> QED
    BY <2>1 DEF Pack, Writing, Writers, field
<1>2. want \in Nat /\ want < P
  <2>1. Midway(h, want, pc, q)
    BY DEF EncodedInv, Encoded, Pack
  <2>2. ~(pc < 10)
    BY <1>1, SMT
  <2> QED
    BY <2>1, <2>2, Zenon DEF Midway
<1>3. out' = Encoding(want) /\ out' # <<>>
  <2>1. Encoded'
    BY PackEncoded DEF EncodedInv
  <2>2. out' # <<>>
    <3>1. out' = [b \in 0 .. 31 |-> Byte(h, b)]
      <4>1. Bytes - 1 = 31
        BY SMT DEF RealSize
      <4> QED
        BY <4>1, Zenon DEF Pack
    <3>2. DOMAIN out' = 0 .. 31 /\ 0 \in 0 .. 31 /\ 0 \notin DOMAIN <<>>
      BY <3>1
    <3> QED
      BY <3>2
  <2>3. out' = Encoding(want')
    BY <2>1, <2>2, Zenon DEF Encoded
  <2> QED
    BY <1>1, <2>2, <2>3, Zenon
<1>4. at = 0 /\ differentbits = {} /\ ret = <<>>
  BY <1>1 DEF Told
<1>5. CASE call = "isnegative"
  <2>1. ret' = <<out'[0] % 2>>
    BY <1>5 DEF Pack
  <2>2. ret' = <<want' % 2>>
    BY <1>1, <1>2, <1>3, <2>1, LowestBit, Zenon
  <2> QED
    BY <1>1, <1>2, <1>3, <1>5, <2>2 DEF Told
<1>6. CASE call # "isnegative"
  <2>1. ret' = <<>>
    BY <1>4, <1>6 DEF Pack
  <2>2. PICK n \in Nat : other' = Encoding(n) /\ (call = "isnonzero" => n = 0)
    <3>1. CASE call = "isnonzero"
      <4>1. other' = Encoding(0) /\ 0 \in Nat
        BY <3>1 DEF Pack
      <4> QED
        BY <4>1, Zenon
    <3>2. CASE call = "tobytes"
      <4>1. other' \in {out'} \cup {Encoding(n) : n \in Others}
        BY <3>2 DEF Pack
      <4>2. Others \subseteq Nat /\ "tobytes" # "isnonzero"
        BY DEF FieldAssumption
      <4> QED
        BY <1>2, <1>3, <3>2, <4>1, <4>2, Zenon
    <3> QED
      BY <1>1, <1>6, <3>1, <3>2 DEF Writers
  <2>3. Compared(Sets(out'), Sets(other'), 0, {}, <<>>)
    BY SetsAreBytes, CompareStarts
  <2>4. Compared(Sets(out'), Sets(other'), at', differentbits', ret')
    BY <1>1, <1>4, <2>1, <2>3, Zenon
  <2> QED
    BY <1>1, <1>2, <1>3, <1>6, <2>2, <2>4, Zenon DEF Told
<1> QED
  BY <1>5, <1>6

LEMMA CompareTold ==
  ASSUME Verify32!VerifyAssumption, EncodedInv, Told, VerifyByte \/ VerifyReturn
  PROVE  Told'
<1>1. /\ call \in {"tobytes", "isnonzero"} /\ out # <<>> /\ UNCHANGED <<call, want, out, other>>
  BY DEF VerifyByte, VerifyReturn, Comparing
<1>2. call # "isnegative"
  BY <1>1
<1>3. /\ want \in Nat /\ want < P
      /\ \E n \in Nat : other = Encoding(n) /\ (call = "isnonzero" => n = 0)
      /\ Compared(Sets(out), Sets(other), at, differentbits, ret)
  BY <1>1, <1>2, Zenon DEF Told
<1>4. Compared(Sets(out), Sets(other), at', differentbits', ret')
  <2>1. CASE VerifyByte
    <3>1. /\ at < Bytes /\ at' = at + 1 /\ ret' = ret
          /\ differentbits' = differentbits \cup Verify32!Xor(Sets(out)[at], Sets(other)[at])
      BY <2>1, Zenon DEF VerifyByte, Verify32!VerifyByte, Sets
    <3> QED
      BY <1>3, <3>1, CompareSteps, Zenon
  <2>2. CASE VerifyReturn
    <3>1. /\ at = Bytes /\ at' = at /\ differentbits' = differentbits
          /\ ret' = Returned(differentbits)
      BY <2>2, Zenon DEF VerifyReturn, Verify32!Return, Verify32!Verdict, Returned
    <3> QED
      BY <1>3, <3>1, CompareReturns, Zenon
  <2> QED
    BY <2>1, <2>2
<1>5. Compared(Sets(out'), Sets(other'), at', differentbits', ret')
  BY <1>1, <1>4, Zenon
<1> QED
  BY <1>1, <1>2, <1>3, <1>5, Zenon DEF Told

LEMMA OthersTold ==
  ASSUME EncodedInv, Told,
         \/ FromBytes \/ Mul \/ Sq \/ Sq2 \/ Add \/ Sub \/ Neg \/ Copy \/ Fe0 \/ Fe1 \/ Cmov
         \/ Carry \/ Store \/ ToBytes \/ Quotient \/ CarryFloor \/ Finished \/ UNCHANGED vars
  PROVE  Told'
<1>1. CASE FromBytes \/ Mul \/ Sq \/ Sq2 \/ Add \/ Sub \/ Neg \/ Copy \/ Fe0 \/ Fe1 \/ Cmov
           \/ Carry \/ Store \/ ToBytes \/ Quotient \/ CarryFloor
  <2>1. UNCHANGED verify
    BY <1>1 DEF FromBytes, Mul, Sq, Sq2, Add, Sub, Neg, Copy, Fe0, Fe1, Cmov, Carry, Store,
       ToBytes, Quotient, CarryFloor, Begin, Simple
  <2>2. call \in {"none", "frombytes", "mul", "sq", "sq2"} \/ out = <<>>
    BY <1>1 DEF FromBytes, Mul, Sq, Sq2, Add, Sub, Neg, Copy, Fe0, Fe1, Cmov, Carry, Store,
       ToBytes, Quotient, CarryFloor, Ready, Idle, Multiplying, Writing
  <2>3. out = <<>>
    <3>1. call \in {"none", "frombytes", "mul", "sq", "sq2"} => call \notin Writers
      BY SMT DEF Writers
    <3> QED
      BY <2>2, <3>1 DEF EncodedInv, Encoded
  <2> QED
    BY <2>1, <2>3 DEF Told, verify
<1>2. CASE Finished \/ UNCHANGED vars
  BY <1>2, Zenon DEF Finished, vars, verify, Told
<1> QED
  BY <1>1, <1>2

\* fe_isnegative tells the parity of the residue, fe_isnonzero whether it is zero, and
\* crypto_verify_32 whether bytes are the encoding of it, at the size of fe.h: no limbs that an
\* element may have and no bytes compared make them tell something else.
THEOREM VerdictsTell ==
  ASSUME RealSize, Verify32!VerifyAssumption
  PROVE  Spec => []VerdictTells
<1>1. Init => EncodedInv /\ Told
  <2>1. Init => EncodedInv
    BY EncodedInit
  <2>2. Init => Told
    BY DEF Init, Told
  <2> QED
    BY <2>1, <2>2
<1>2. EncodedInv /\ Told /\ [Next]_vars => (EncodedInv /\ Told)'
  BY FieldAssumption, EncodedInvKeeps, PackTold, CompareTold, OthersTold DEF Next
<1>3. EncodedInv /\ Told => VerdictTells
  <2> SUFFICES ASSUME EncodedInv, Told, ret # <<>> PROVE VerdictTells
    BY DEF VerdictTells
  <2>1. out # <<>> /\ want \in Nat /\ want < P /\ call \in Writers /\ out = Encoding(want)
    BY DEF Told, EncodedInv, Encoded
  <2>2. CASE call = "isnegative"
    BY <2>1, <2>2 DEF Told, VerdictTells
  <2>3. CASE call # "isnegative"
    <3>1. PICK n \in Nat : other = Encoding(n) /\ (call = "isnonzero" => n = 0)
      BY <2>1, <2>3, Zenon DEF Told
    <3>2. Compared(Sets(out), Sets(other), at, differentbits, ret)
      BY <2>1, <2>3, Zenon DEF Told
    <3>3. ret = <<IF Sets(out) = Sets(other) THEN 0 ELSE -1>>
      BY <3>2, ComparedDecides, Zenon
    <3>4. Sets(out) = Sets(other) <=> other = Encoding(want)
      BY <2>1, <3>1, SetsTell, Zenon
    <3>5. CASE call = "isnonzero"
      <4>1. 0 \in Nat /\ 0 < P
        BY ModulusReal
      <4>2. other = Encoding(want) <=> want = 0
        BY <2>1, <3>1, <3>5, <4>1, EncodingsTell, Zenon
      <4> QED
        BY <3>3, <3>4, <3>5, <4>2 DEF VerdictTells
    <3>6. CASE call # "isnonzero"
      BY <2>3, <3>3, <3>4, <3>6 DEF VerdictTells
    <3> QED
      BY <3>5, <3>6
  <2> QED
    BY <2>2, <2>3
<1> QED
  BY <1>1, <1>2, <1>3, PTL DEF Spec
-----------------------------------------------------------------------------
VARIABLES caller, x, y

Comparison == INSTANCE CryptoVerify WITH Length <- Bytes

\* The invariant of CryptoVerify.
ComparedInv == Compared(x, y, at, differentbits, ret)

\* Whatever 32 bytes are compared, the result is 0 when they are the same and -1 when they
\* differ anywhere.
THEOREM VerdictCorrect ==
  ASSUME Comparison!VerifyAssumption
  PROVE  Comparison!Spec => []Comparison!Decides
<1>0. /\ Verify32!VerifyAssumption
      /\ Verify32!ByteStrings = Comparison!ByteStrings
      /\ \A S, T : Verify32!Xor(S, T) = Comparison!Xor(S, T)
      /\ Returned(differentbits) = <<Comparison!Verdict>>
  BY DEF Comparison!VerifyAssumption, Verify32!VerifyAssumption, Verify32!ByteStrings,
     Comparison!ByteStrings, Verify32!Byte, Comparison!Byte, Verify32!Xor, Comparison!Xor,
     Returned, Comparison!Verdict, Verify32!Decrement, Comparison!Decrement
<1>1. Comparison!Init => ComparedInv
  <2> SUFFICES ASSUME Comparison!Init PROVE ComparedInv
    OBVIOUS
  <2>1. x \in Verify32!ByteStrings /\ y \in Verify32!ByteStrings
    BY <1>0 DEF Comparison!Init, Comparison!ByteStrings, Comparison!zero, Comparison!Byte
  <2> QED
    BY <1>0, <2>1, CompareStarts DEF Comparison!Init, ComparedInv
<1>2. ComparedInv /\ [Comparison!Next]_(Comparison!vars) => ComparedInv'
  <2> SUFFICES ASSUME ComparedInv, [Comparison!Next]_(Comparison!vars)
               PROVE  ComparedInv'
    OBVIOUS
  <2>0. ComparedInv' <=> Compared(x', y', at', differentbits', ret')
    BY Zenon DEF ComparedInv
  <2>1. CASE Comparison!VerifyByte
    <3>1. /\ at < Bytes /\ at' = at + 1 /\ x' = x /\ y' = y /\ ret' = ret
          /\ differentbits' = differentbits \cup Verify32!Xor(x[at], y[at])
      BY <1>0, <2>1 DEF Comparison!VerifyByte
    <3> QED
      BY <1>0, <2>0, <3>1, CompareSteps, Zenon DEF ComparedInv
  <2>2. CASE Comparison!Return
    <3>1. /\ at = Bytes /\ at' = at /\ x' = x /\ y' = y /\ differentbits' = differentbits
          /\ ret' = Returned(differentbits)
      BY <1>0, <2>2, Zenon DEF Comparison!Return
    <3> QED
      BY <2>0, <3>1, CompareReturns, Zenon DEF ComparedInv
  <2>3. CASE UNCHANGED Comparison!vars
    BY <2>0, <2>3, Zenon DEF Comparison!vars, ComparedInv
  <2> QED
    BY <2>1, <2>2, <2>3 DEF Comparison!Next, Comparison!Finished
<1>3. ComparedInv => Comparison!Decides
  BY <1>0, ComparedDecides DEF ComparedInv, Comparison!Decides
<1> QED
  BY <1>1, <1>2, <1>3, PTL DEF Comparison!Spec
=============================================================================
