--------------------------- MODULE NumberTheorems ---------------------------
(***************************************************************************)
(* What the proofs about digits and limbs need of numbers: induction,      *)
(* sums, powers of 2, quotients and remainders.  Induction is over sets of *)
(* naturals: every set that is not empty has a least element.              *)
(***************************************************************************)
EXTENDS Integers, Sums, FiniteSets, FiniteSetTheorems, WellFoundedInduction, TLAPS

LEMMA LeastNat ==
  ASSUME NEW S, S \subseteq Nat, S # {}
  PROVE  \E m \in S : \A n \in S : m <= n
<1> DEFINE R == {ss \in Nat \X Nat : ss[1] < ss[2]}
<1>1. IsWellFoundedOn(R, Nat)
  BY NatLessThanWellFounded DEF OpToRel
<1>2. \A j, k \in Nat : j < k => <<j, k>> \in R
  OBVIOUS
<1> HIDE DEF R
<1>3. PICK m \in S : \A n \in S : <<n, m>> \notin R
  BY <1>1, WFMin
<1>4. \A n \in S : ~(n < m)
  BY <1>2, <1>3
<1> QED
  BY <1>4

LEMMA Induction ==
  ASSUME NEW S, 0 \in S, \A n \in Nat : n \in S => n + 1 \in S
  PROVE  \A n \in Nat : n \in S
<1> SUFFICES ASSUME Nat \ S # {} PROVE FALSE
  OBVIOUS
<1>1. PICK m \in Nat \ S : \A n \in Nat \ S : m <= n
  BY LeastNat
<1>2. m - 1 \in Nat
  BY SMT
<1> QED
  BY <1>1, <1>2, SMT

\* Up to a bound.
LEMMA InductionTo ==
  ASSUME NEW N \in Nat, NEW S, 0 \in S, \A n \in 0 .. N - 1 : n \in S => n + 1 \in S
  PROVE  \A n \in 0 .. N : n \in S
<1> DEFINE T == {n \in Nat : n <= N => n \in S}
<1>1. 0 \in T
  OBVIOUS
<1>2. \A n \in Nat : n \in T => n + 1 \in T
  OBVIOUS
<1> HIDE DEF T
<1>3. \A n \in Nat : n \in T
  BY <1>1, <1>2, Induction
<1> QED
  BY <1>3 DEF T
-----------------------------------------------------------------------------
\* Partial sums exist, and a sum is the last of them.
IsPartial(g, f, n) ==
  /\ g \in [0 .. n -> Int]
  /\ g[0] = 0
  /\ \A k \in 0 .. n - 1 : g[k + 1] = g[k] + f[k]

LEMMA PartialExists ==
  ASSUME NEW n \in Nat, NEW f, \A k \in 0 .. n - 1 : f[k] \in Int
  PROVE  \E g : IsPartial(g, f, n)
<1> DEFINE S == {m \in 0 .. n : \E g : IsPartial(g, f, m)}
<1>1. 0 \in S
  <2>1. IsPartial([k \in 0 .. 0 |-> 0], f, 0)
    BY SMT DEF IsPartial
  <2> QED
    BY <2>1
<1>2. ASSUME NEW m \in 0 .. n - 1, m \in S
      PROVE  m + 1 \in S
  <2>1. PICK g : IsPartial(g, f, m)
    BY <1>2
  <2> DEFINE h == [k \in 0 .. m + 1 |-> IF k = m + 1 THEN g[m] + f[m] ELSE g[k]]
  <2>2. IsPartial(h, f, m + 1)
    BY <2>1, SMT DEF IsPartial
  <2> HIDE DEF h
  <2> QED
    BY <2>2
<1> HIDE DEF S
<1>3. \A m \in 0 .. n : m \in S
  BY <1>1, <1>2, InductionTo
<1> QED
  BY <1>3 DEF S

LEMMA PartialUnique ==
  ASSUME NEW n \in Nat, NEW f, NEW g, NEW h, IsPartial(g, f, n), 
         h[0] = 0, \A k \in 0 .. n - 1 : h[k + 1] = h[k] + f[k]
  PROVE  \A k \in 0 .. n : h[k] = g[k]
<1> DEFINE S == {k \in 0 .. n : h[k] = g[k]}
<1>1. 0 \in S
  BY DEF IsPartial
<1>2. \A k \in 0 .. n - 1 : k \in S => k + 1 \in S
  BY DEF IsPartial
<1> HIDE DEF S
<1>3. \A k \in 0 .. n : k \in S
  BY <1>1, <1>2, InductionTo
<1> QED
  BY <1>3 DEF S

LEMMA TotalIsPartial ==
  ASSUME NEW n \in Nat, NEW f, NEW g, IsPartial(g, f, n)
  PROVE  Total(f, n) = g[n]
<1> DEFINE Upto(h) == h = [k \in 0 .. n |-> IF k = 0 THEN 0 ELSE h[k - 1] + f[k - 1]]
           u == CHOOSE h : Upto(h)
<1>1. Upto(g)
  BY SMT DEF IsPartial
<1>2. Upto(u)
  BY <1>1, Zenon
<1>3. u[0] = 0 /\ \A k \in 0 .. n - 1 : u[k + 1] = u[k] + f[k]
  <2> HIDE DEF u
  <2> QED BY <1>2, SMT
<1>4. Total(f, n) = u[n]
  BY DEF Total
<1> HIDE DEF u
<1>5. \A k \in 0 .. n : u[k] = g[k]
  BY <1>3, PartialUnique
<1> QED
  BY <1>4, <1>5

\* A sum grows by its last term.
LEMMA TotalNext ==
  ASSUME NEW n \in Nat, NEW f, \A k \in 0 .. n - 1 : f[k] \in Int
  PROVE  /\ Total(f, n) \in Int
         /\ n = 0 => Total(f, n) = 0
         /\ \A m \in 0 .. n - 1 : Total(f, m) \in Int /\ Total(f, m + 1) = Total(f, m) + f[m]
<1>1. PICK g : IsPartial(g, f, n)
  BY PartialExists
<1>2. \A m \in 0 .. n : Total(f, m) = g[m]
  <2> SUFFICES ASSUME NEW m \in 0 .. n PROVE Total(f, m) = g[m]
    OBVIOUS
  <2> DEFINE h == [k \in 0 .. m |-> g[k]]
  <2>1. IsPartial(h, f, m)
    BY <1>1, SMT DEF IsPartial
  <2>2. h[m] = g[m]
    OBVIOUS
  <2> HIDE DEF h
  <2> QED
    BY <2>1, <2>2, TotalIsPartial
<1> QED
  BY <1>1, <1>2, SMT DEF IsPartial

\* Only the terms count.
LEMMA TotalSame ==
  ASSUME NEW n \in Nat, NEW f, NEW g,
         \A k \in 0 .. n - 1 : f[k] \in Int, \A k \in 0 .. n - 1 : g[k] = f[k]
  PROVE  Total(g, n) = Total(f, n)
<1>1. PICK h : IsPartial(h, f, n)
  BY PartialExists
<1>2. IsPartial(h, g, n)
  BY <1>1, SMT DEF IsPartial
<1> QED
  BY <1>1, <1>2, TotalIsPartial

\* What is known of the partial sums is known of the sum.
LEMMA TotalIs ==
  ASSUME NEW n \in Nat, NEW f, \A k \in 0 .. n - 1 : f[k] \in Int,
         NEW h, h[0] = 0, \A k \in 0 .. n - 1 : h[k + 1] = h[k] + f[k]
  PROVE  Total(f, n) = h[n]
<1>1. PICK g : IsPartial(g, f, n)
  BY PartialExists
<1> QED
  BY <1>1, TotalIsPartial, PartialUnique, SMT

\* From any place on, a sum follows what grows by the same terms.
LEMMA TotalReaches ==
  ASSUME NEW n \in Nat, NEW f, \A k \in 0 .. n - 1 : f[k] \in Int,
         NEW p \in 0 .. n, NEW h, h[p] = Total(f, p), \A k \in p .. n - 1 : h[k + 1] = h[k] + f[k]
  PROVE  Total(f, n) = h[n]
<1> DEFINE S == {k \in 0 .. n : k >= p => Total(f, k) = h[k]}
<1>1. /\ n = 0 => Total(f, n) = 0
      /\ \A m \in 0 .. n - 1 : Total(f, m + 1) = Total(f, m) + f[m]
  BY TotalNext
<1>2. 0 \in S
  OBVIOUS
<1>3. \A k \in 0 .. n - 1 : k \in S => k + 1 \in S
  <2> SUFFICES ASSUME NEW k \in 0 .. n - 1, k \in S, k + 1 >= p
               PROVE  Total(f, k + 1) = h[k + 1]
    OBVIOUS
  <2>1. CASE k >= p
    BY <1>1, <2>1
  <2>2. CASE k + 1 = p
    BY <2>2
  <2> QED
    BY <2>1, <2>2
<1> HIDE DEF S
<1>4. \A k \in 0 .. n : k \in S
  BY <1>2, <1>3, InductionTo
<1> QED
  BY <1>4 DEF S

\* What one term gives, another may take.
LEMMA TotalMoved ==
  ASSUME NEW n \in Nat, NEW f, \A k \in 0 .. n - 1 : f[k] \in Int,
         NEW x \in Int, NEW p \in 0 .. n - 1, NEW q \in 0 .. n - 1, p < q,
         NEW g, g[p] = f[p] + x, g[q] = f[q] - x,
         \A k \in 0 .. n - 1 : k # p /\ k # q => g[k] = f[k]
  PROVE  Total(g, n) = Total(f, n)
<1>1. PICK s : IsPartial(s, f, n)
  BY PartialExists
<1> DEFINE h == [k \in 0 .. n |-> IF p < k /\ k <= q THEN s[k] + x ELSE s[k]]
<1>2. \A k \in 0 .. n : s[k] \in Int
  BY <1>1 DEF IsPartial
<1>3. s[0] = 0 /\ \A k \in 0 .. n - 1 : s[k + 1] = s[k] + f[k]
  BY <1>1 DEF IsPartial
<1>4. h[0] = 0 /\ h[n] = s[n]
  BY <1>3
<1>5. \A k \in 0 .. n - 1 : g[k] \in Int
  OBVIOUS
<1>6. \A k \in 0 .. n - 1 : h[k + 1] = h[k] + g[k]
  <2> SUFFICES ASSUME NEW k \in 0 .. n - 1 PROVE h[k + 1] = h[k] + g[k]
    OBVIOUS
  <2>1. s[k + 1] = s[k] + f[k] /\ s[k] \in Int /\ s[k + 1] \in Int /\ f[k] \in Int
    BY <1>2, <1>3
  <2>2. /\ h[k] = IF p < k /\ k <= q THEN s[k] + x ELSE s[k]
        /\ h[k + 1] = IF p < k + 1 /\ k + 1 <= q THEN s[k + 1] + x ELSE s[k + 1]
    OBVIOUS
  <2> HIDE DEF h
  <2>3. CASE k = p
    BY <2>1, <2>2, <2>3
  <2>4. CASE k = q
    BY <2>1, <2>2, <2>4
  <2>5. CASE k # p /\ k # q
    <3>1. g[k] = f[k]
      BY <2>5
    <3> QED
      BY <2>1, <2>2, <2>5, <3>1
  <2> QED
    BY <2>3, <2>4, <2>5
<1> HIDE DEF h
<1>7. Total(g, n) = h[n]
  BY <1>4, <1>5, <1>6, TotalIs
<1> QED
  BY <1>1, <1>4, <1>7, TotalIsPartial

\* x of one term of f is in a later one of g.
MovedTo(f, g, n, p, q, x) ==
  /\ p \in 0 .. n - 1 /\ q \in 0 .. n - 1 /\ p < q /\ x \in Int
  /\ \A k \in 0 .. n - 1 : f[k] \in Int
  /\ g[p] = f[p] + x /\ g[q] = f[q] - x
  /\ \A k \in 0 .. n - 1 : k # p /\ k # q => g[k] = f[k]

LEMMA MovedTotal ==
  ASSUME NEW n \in Nat, NEW f, NEW g, NEW p, NEW q, NEW x, MovedTo(f, g, n, p, q, x)
  PROVE  Total(g, n) = Total(f, n)
<1>1. /\ p \in 0 .. n - 1 /\ q \in 0 .. n - 1 /\ p < q /\ x \in Int
      /\ g[p] = f[p] + x /\ g[q] = f[q] - x
  BY Zenon DEF MovedTo
<1>2. \A k \in 0 .. n - 1 : f[k] \in Int
  BY Zenon DEF MovedTo
<1>3. \A k \in 0 .. n - 1 : k # p /\ k # q => g[k] = f[k]
  BY Zenon DEF MovedTo
<1> QED
  BY <1>1, <1>2, <1>3, TotalMoved

\* Sums that differ at one place differ by the same as far as their terms agree.
LEMMA TotalTail ==
  ASSUME NEW n \in Nat, NEW f, NEW g, \A k \in 0 .. n - 1 : f[k] \in Int,
         \A k \in 0 .. n - 1 : g[k] \in Int,
         NEW p \in 0 .. n, NEW x \in Int, Total(g, p) = Total(f, p) + x,
         \A k \in p .. n - 1 : g[k] = f[k]
  PROVE  Total(g, n) = Total(f, n) + x
<1> DEFINE h == [k \in p .. n |-> Total(f, k) + x]
<1>1. p \in Nat /\ p <= n
  OBVIOUS
<1>2. \A k \in 0 .. n - 1 : Total(f, k) \in Int /\ Total(f, k + 1) = Total(f, k) + f[k]
  BY TotalNext
<1>3. h[p] = Total(g, p)
  BY <1>1
<1>4. \A k \in p .. n - 1 : h[k + 1] = h[k] + g[k]
  <2> SUFFICES ASSUME NEW k \in p .. n - 1 PROVE h[k + 1] = h[k] + g[k]
    OBVIOUS
  <2>1. h[k] = Total(f, k) + x /\ h[k + 1] = Total(f, k + 1) + x
    BY <1>1
  <2>2. k \in 0 .. n - 1 /\ g[k] = f[k] /\ f[k] \in Int
    BY <1>1
  <2>3. Total(f, k) \in Int /\ Total(f, k + 1) = Total(f, k) + f[k]
    BY <1>2, <2>2
  <2> HIDE DEF h
  <2> QED
    BY <2>1, <2>2, <2>3
<1>5. h[n] = Total(f, n) + x
  BY <1>1
<1> HIDE DEF h
<1>6. Total(g, n) = h[n]
  BY <1>3, <1>4, TotalReaches
<1> QED
  BY <1>5, <1>6

\* A sum changes by what one term does.
LEMMA TotalBumped ==
  ASSUME NEW n \in Nat, NEW f, NEW g, \A k \in 0 .. n - 1 : f[k] \in Int,
         NEW p \in 0 .. n - 1, NEW x \in Int, g[p] = f[p] + x,
         \A k \in 0 .. n - 1 : k # p => g[k] = f[k]
  PROVE  Total(g, n) = Total(f, n) + x
<1>1. p \in Nat /\ p + 1 \in 0 .. n
  OBVIOUS
<1>2. \A k \in 0 .. n - 1 : g[k] \in Int
  <2> SUFFICES ASSUME NEW k \in 0 .. n - 1 PROVE g[k] \in Int
    OBVIOUS
  <2>1. f[p] \in Int /\ f[k] \in Int
    OBVIOUS
  <2> QED
    BY <2>1
<1>3. Total(g, p) = Total(f, p)
  <2>1. \A k \in 0 .. p - 1 : f[k] \in Int
    BY <1>1
  <2>2. \A k \in 0 .. p - 1 : g[k] = f[k]
    BY <1>1
  <2> QED
    BY <1>1, <2>1, <2>2, TotalSame
<1>4. Total(f, p) \in Int /\ Total(f, p + 1) = Total(f, p) + f[p]
  BY TotalNext
<1>5. Total(g, p + 1) = Total(g, p) + g[p]
  BY <1>2, TotalNext
<1>6. Total(g, p + 1) = Total(f, p + 1) + x
  <2>1. f[p] \in Int
    OBVIOUS
  <2> QED
    BY <1>3, <1>4, <1>5, <2>1
<1>7. \A k \in p + 1 .. n - 1 : g[k] = f[k]
  BY <1>1
<1> QED
  BY <1>1, <1>2, <1>6, <1>7, TotalTail

\* One term of f is x more in g.
Bumped(f, g, n, p, x) ==
  /\ p \in 0 .. n - 1 /\ x \in Int
  /\ \A k \in 0 .. n - 1 : f[k] \in Int
  /\ g[p] = f[p] + x
  /\ \A k \in 0 .. n - 1 : k # p => g[k] = f[k]

LEMMA BumpedTotal ==
  ASSUME NEW n \in Nat, NEW f, NEW g, NEW p, NEW x, Bumped(f, g, n, p, x)
  PROVE  Total(g, n) = Total(f, n) + x
<1>1. p \in 0 .. n - 1 /\ x \in Int /\ g[p] = f[p] + x
  BY Zenon DEF Bumped
<1>2. \A k \in 0 .. n - 1 : f[k] \in Int
  BY Zenon DEF Bumped
<1>3. \A k \in 0 .. n - 1 : k # p => g[k] = f[k]
  BY Zenon DEF Bumped
<1> QED
  BY <1>1, <1>2, <1>3, TotalBumped

\* Sums are linear.
LEMMA TotalLinear ==
  ASSUME NEW n \in Nat, NEW c \in Int, NEW f, NEW g, NEW h,
         \A k \in 0 .. n - 1 : f[k] \in Int /\ g[k] \in Int /\ h[k] = f[k] + c * g[k]
  PROVE  Total(h, n) = Total(f, n) + c * Total(g, n)
<1>1. \A k \in 0 .. n - 1 : f[k] \in Int
  OBVIOUS
<1>2. \A k \in 0 .. n - 1 : g[k] \in Int
  OBVIOUS
<1>3. PICK s : IsPartial(s, f, n)
  BY <1>1, PartialExists
<1>4. PICK t : IsPartial(t, g, n)
  BY <1>2, PartialExists
<1> DEFINE u == [k \in 0 .. n |-> s[k] + c * t[k]]
<1>5. IsPartial(u, h, n)
  <2>1. \A k \in 0 .. n : s[k] \in Int /\ t[k] \in Int
    BY <1>3, <1>4 DEF IsPartial
  <2>2. \A x \in Int : c * x \in Int
    OBVIOUS
  <2>3. u \in [0 .. n -> Int]
    BY <2>1, <2>2
  <2>4. c * 0 = 0
    OBVIOUS
  <2>5. u[0] = 0
    BY <1>3, <1>4, <2>4 DEF IsPartial
  <2>6. \A x, y \in Int : c * (x + y) = c * x + c * y
    OBVIOUS
  <2>7. ASSUME NEW k \in 0 .. n - 1
        PROVE  u[k + 1] = u[k] + h[k]
    <3>1. s[k + 1] = s[k] + f[k] /\ t[k + 1] = t[k] + g[k] /\ h[k] = f[k] + c * g[k]
      BY <1>3, <1>4 DEF IsPartial
    <3>2. u[k] = s[k] + c * t[k] /\ u[k + 1] = s[k + 1] + c * t[k + 1]
      OBVIOUS
    <3>3. s[k] \in Int /\ t[k] \in Int /\ f[k] \in Int /\ g[k] \in Int
      BY <2>1
    <3>4. c * (t[k] + g[k]) = c * t[k] + c * g[k]
      BY <2>6, <3>3
    <3>5. c * t[k] \in Int /\ c * g[k] \in Int
      BY <3>3, <2>2
    <3> HIDE DEF u
    <3> QED BY <3>1, <3>2, <3>3, <3>4, <3>5
  <2> HIDE DEF u
  <2> QED
    BY <2>3, <2>5, <2>7 DEF IsPartial
<1>6. u[n] = s[n] + c * t[n]
  OBVIOUS
<1> HIDE DEF u
<1> QED
  BY <1>3, <1>4, <1>5, <1>6, TotalIsPartial
-----------------------------------------------------------------------------
\* 2^n counts the subsets of n elements, which is how the library knows it.
LEMMA PowNext ==
  ASSUME NEW n \in Nat
  PROVE  2^n \in Nat /\ 2^(n + 1) = 2 * 2^n
<1> DEFINE A == 1 .. n
           x == n + 1
           Ax == {B \cup {x} : B \in SUBSET A}
<1>1. IsFiniteSet(A) /\ Cardinality(A) = n /\ IsFiniteSet(1 .. x) /\ Cardinality(1 .. x) = n + 1
  BY FS_Interval, SMT
<1>2. IsFiniteSet(SUBSET A) /\ Cardinality(SUBSET A) = 2^n /\ Cardinality(SUBSET (1 .. x)) = 2^(n + 1)
  BY <1>1, FS_SUBSET, Zenon
<1>3. Cardinality(SUBSET A) \in Nat
  BY <1>2, FS_CardinalityType
<1>4. x \notin A /\ 1 .. x = A \cup {x}
  BY SMT
<1> HIDE DEF A, x
<1>5. SUBSET (A \cup {x}) = (SUBSET A) \cup Ax
  <2>1. \A B \in SUBSET (A \cup {x}) : x \in B => B = (B \ {x}) \cup {x} /\ B \ {x} \in SUBSET A
    OBVIOUS
  <2>2. \A B \in SUBSET (A \cup {x}) : x \notin B => B \in SUBSET A
    OBVIOUS
  <2>3. SUBSET (A \cup {x}) \subseteq (SUBSET A) \cup Ax
    BY <2>1, <2>2
  <2> QED
    BY <2>3
<1>6. ExistsBijection(SUBSET A, Ax)
  <2> DEFINE f == [B \in SUBSET A |-> B \cup {x}]
  <2>1. f \in [SUBSET A -> Ax]
    BY Zenon
  <2>2. \A B, C \in SUBSET A : f[B] = f[C] => B = C
    <3>1. \A B \in SUBSET A : f[B] \ {x} = B
      BY <1>4
    <3> HIDE DEF f
    <3> QED
      BY <3>1
  <2>3. \A y \in Ax : \E B \in SUBSET A : f[B] = y
    BY Zenon
  <2> HIDE DEF f
  <2> QED
    BY <2>1, <2>2, <2>3, Zenon DEF ExistsBijection, Bijection, Injection, Surjection, IsInjective
<1>7. IsFiniteSet(Ax) /\ Cardinality(Ax) = Cardinality(SUBSET A)
  BY <1>2, <1>6, FS_Bijection
<1>8. (SUBSET A) \cap Ax = {}
  BY <1>4
<1> HIDE DEF Ax
<1>9. Cardinality((SUBSET A) \cup Ax) = Cardinality(SUBSET A) + Cardinality(Ax) - Cardinality({})
  <2> DEFINE SA == SUBSET A
  <2>1. IsFiniteSet(SA) /\ IsFiniteSet(Ax) /\ SA \cap Ax = {}
    BY <1>2, <1>7, <1>8
  <2> HIDE DEF SA
  <2>2. Cardinality(SA \cup Ax) = Cardinality(SA) + Cardinality(Ax) - Cardinality(SA \cap Ax)
    BY <2>1, FS_Union
  <2>3. Cardinality(SA \cup Ax) = Cardinality(SA) + Cardinality(Ax) - Cardinality({})
    BY <2>1, <2>2
  <2> QED
    BY <2>3 DEF SA
<1>10. Cardinality({}) = 0
  BY FS_EmptySet
<1>11. Cardinality((SUBSET A) \cup Ax) = 2^(n + 1)
  BY <1>2, <1>4, <1>5
<1>12. 2^n \in Nat
  BY <1>2, <1>3
<1>13. 2^(n + 1) = 2^n + 2^n - 0
  BY <1>2, <1>7, <1>9, <1>10, <1>11
<1> QED
  BY <1>12, <1>13

LEMMA PowPositive == \A n \in Nat : 2^n \in Nat \ {0}
<1> DEFINE S == {n \in Nat : 2^n \in Nat \ {0}}
<1>1. 0 \in S
  OBVIOUS
<1>2. \A n \in Nat : n \in S => n + 1 \in S
  BY PowNext, SMT
<1> HIDE DEF S
<1>3. \A n \in Nat : n \in S
  BY <1>1, <1>2, Induction
<1> QED
  BY <1>3 DEF S

LEMMA Even ==
  ASSUME NEW c \in Nat \ {0}
  PROVE  2^c = 2 * 2^(c - 1) /\ 2^(c - 1) \in Nat
<1>1. c - 1 \in Nat /\ (c - 1) + 1 = c
  OBVIOUS
<1>2. 2^((c - 1) + 1) = 2 * 2^(c - 1)
  BY <1>1, PowNext
<1> QED
  BY <1>1, <1>2, PowPositive

LEMMA PowSum ==
  ASSUME NEW m \in Nat, NEW n \in Nat
  PROVE  2^(m + n) = 2^m * 2^n
<1> DEFINE S == {k \in Nat : 2^(m + k) = 2^m * 2^k}
<1>1. 0 \in S
  <2>1. 2^m \in Nat /\ 2^0 = 1 /\ m + 0 = m
    BY PowPositive
  <2>2. 2^m * 1 = 2^m
    BY <2>1
  <2> QED
    BY <2>1, <2>2
<1>2. ASSUME NEW k \in Nat, k \in S
      PROVE  k + 1 \in S
  <2>1. 2^(m + k) = 2^m * 2^k
    BY <1>2
  <2>2. 2^((m + k) + 1) = 2 * 2^(m + k) /\ 2^(k + 1) = 2 * 2^k
    BY PowNext
  <2>3. m + (k + 1) = (m + k) + 1
    OBVIOUS
  <2>4. \A x, y \in Nat : 2 * (x * y) = x * (2 * y)
    OBVIOUS
  <2>5. 2^m \in Nat /\ 2^k \in Nat
    BY PowPositive
  <2>6. 2^(m + (k + 1)) = 2^m * 2^(k + 1)
    BY <2>1, <2>2, <2>3, <2>4, <2>5
  <2> QED
    BY <2>6
<1> HIDE DEF S
<1>3. \A k \in Nat : k \in S
  BY <1>1, <1>2, Induction
<1> QED
  BY <1>3 DEF S

LEMMA PowMono ==
  ASSUME NEW m \in Nat, NEW n \in Nat, m <= n
  PROVE  2^m <= 2^n
<1>1. n - m \in Nat /\ m + (n - m) = n
  OBVIOUS
<1>2. 2^n = 2^m * 2^(n - m)
  BY <1>1, PowSum
<1>3. 2^m \in Nat \ {0} /\ 2^(n - m) \in Nat \ {0}
  BY <1>1, PowPositive
<1>4. \A x, y \in Nat \ {0} : x <= x * y
  BY SMT
<1> QED
  BY <1>2, <1>3, <1>4
-----------------------------------------------------------------------------
LEMMA DivMod ==
  ASSUME NEW x \in Int, NEW d \in Nat \ {0}
  PROVE  /\ x \div d \in Int /\ x % d \in Nat /\ x % d < d
         /\ x = d * (x \div d) + (x % d)
         /\ x \in Nat => x \div d \in Nat
  BY SMT

LEMMA DivModUnique ==
  ASSUME NEW d \in Nat \ {0}, NEW q \in Int, NEW r \in Nat, r < d
  PROVE  (d * q + r) \div d = q /\ (d * q + r) % d = r
  BY SMT

LEMMA MulFacts ==
  \A x, y, z \in Int : /\ x * y \in Int /\ x * y = y * x
                       /\ x * (y + z) = x * y + x * z /\ x * (y - z) = x * y - x * z
  BY SMT

LEMMA MulAssoc == \A x, y, z \in Int : x * (y * z) = (x * y) * z
  BY SMT

LEMMA MulNat ==
  \A x, y, z \in Nat : x * y \in Nat /\ (x <= y => x * z <= y * z /\ z * x <= z * y)
  BY SMT

\* Two divisions are one by the product, and the remainder has two digits.
LEMMA DivDiv ==
  ASSUME NEW x \in Int, NEW a \in Nat \ {0}, NEW b \in Nat \ {0}
  PROVE  /\ a * b \in Nat \ {0}
         /\ (x \div a) \div b = x \div (a * b)
         /\ x % (a * b) = a * ((x \div a) % b) + (x % a)
<1> DEFINE y == x \div a
           q == y \div b
           r == y % b
           m == x % a
<1>1. y \in Int /\ m \in Nat /\ m < a /\ x = a * y + m
  BY DivMod
<1>2. q \in Int /\ r \in Nat /\ r < b /\ y = b * q + r
  BY <1>1, DivMod
<1>3. a * b \in Nat \ {0}
  BY SMT
<1> HIDE DEF y, q, r, m
<1>4. x = (a * b) * q + (a * r + m)
  <2>1. a * y = a * (b * q) + a * r
    BY <1>2, MulFacts
  <2>2. a * (b * q) = (a * b) * q
    BY <1>2, MulAssoc
  <2>3. a * r \in Int /\ (a * b) * q \in Int
    BY <1>2, <1>3, MulFacts
  <2> QED
    BY <1>1, <2>1, <2>2, <2>3
<1>5. a * r + m \in Nat /\ a * r + m < a * b
  <2>1. a * r \in Nat /\ a * r <= a * (b - 1) /\ a * (b - 1) = a * b - a
    BY <1>2, MulNat, MulFacts
  <2> QED
    BY <1>1, <1>3, <2>1
<1>6. x \div (a * b) = q /\ x % (a * b) = a * r + m
  <2> DEFINE d == a * b
             s == a * r + m
  <2>1. d \in Nat \ {0} /\ s \in Nat /\ s < d /\ x = d * q + s
    BY <1>3, <1>4, <1>5
  <2> HIDE DEF d, s
  <2>2. (d * q + s) \div d = q /\ (d * q + s) % d = s
    BY <1>2, <2>1, DivModUnique
  <2>3. x \div d = q /\ x % d = s
    BY <2>1, <2>2
  <2> QED
    BY <2>3 DEF d, s
<1> QED
  BY <1>3, <1>6 DEF y, q, r, m

\* Digits above those that are read do not matter.
LEMMA CutBits ==
  ASSUME NEW x \in Nat, NEW a \in Nat \ {0}, NEW b \in Nat \ {0}, NEW c \in Nat \ {0}
  PROVE  ((x % (a * (b * c))) \div a) % b = (x \div a) % b
<1> DEFINE y == x \div a
           d == b * c
           u == y % d
<1>1. d \in Nat \ {0}
  BY DivDiv
<1>2. y \in Nat /\ x % a \in Nat /\ x % a < a
  BY DivMod
<1> HIDE DEF d, y
<1>3. u \in Nat
  BY <1>1, <1>2, DivMod
<1>0. x \in Int /\ y \in Int /\ u \in Int
  BY <1>2, <1>3
<1>4. x % (a * d) = a * u + (x % a)
  BY ONLY <1>0, <1>1, DivDiv, Zenon DEF u, y
<1>7. u = b * ((y \div b) % c) + (y % b)
  BY ONLY <1>0, DivDiv, Zenon DEF d, u
<1> HIDE DEF u
<1>5. PICK w \in Nat : w = x % a /\ w < a
  BY <1>2
<1>6. (a * u + w) \div a = u
  BY ONLY <1>0, <1>5, DivModUnique
<1>8. PICK v \in Nat, z \in Nat : v = (y \div b) % c /\ z = y % b /\ z < b
  <2>1. y \div b \in Int
    BY <1>0, DivMod
  <2>2. y % b \in Nat /\ y % b < b
    BY <1>0, DivMod
  <2>3. (y \div b) % c \in Nat
    BY ONLY <2>1, DivMod
  <2> QED
    BY <2>2, <2>3
<1>9. (b * v + z) % b = z
  <2>1. v \in Int
    OBVIOUS
  <2> QED
    BY ONLY <1>8, <2>1, DivModUnique
<1>10. x % (a * (b * c)) = a * u + w
  BY <1>4, <1>5 DEF d
<1> QED
  BY <1>6, <1>7, <1>8, <1>9, <1>10 DEF y

LEMMA SmallDiv ==
  ASSUME NEW d \in Nat \ {0}, NEW x \in Nat, x < d
  PROVE  x % d = x /\ x \div d = 0
  BY SMT

\* A number is the sum of its digits, w bits each.
DigitTerms(f, w, x, n) ==
  \A k \in 0 .. n - 1 : f[k] = ((x \div 2^(w * k)) % 2^w) * 2^(w * k)

LEMMA DigitsOfNumber ==
  ASSUME NEW w \in Nat, NEW x \in Nat, NEW n \in Nat, NEW f, DigitTerms(f, w, x, n)
  PROVE  Total(f, n) = x % 2^(w * n)
<1> DEFINE h == [k \in 0 .. n |-> x % 2^(w * k)]
<1>1. \A k \in 0 .. n : w * k \in Nat
  BY MulNat
<1>2. 2^w \in Nat \ {0} /\ \A k \in 0 .. n : 2^(w * k) \in Nat \ {0}
  BY <1>1, PowPositive
<1>3. h[0] = 0
  <2>1. w * 0 = 0
    OBVIOUS
  <2>2. 2^0 = 1
    OBVIOUS
  <2>3. x % 1 = 0 /\ 0 \in 0 .. n
    OBVIOUS
  <2>4. h[0] = x % 2^(w * 0)
    BY <2>3, Zenon
  <2> QED
    BY <2>1, <2>2, <2>3, <2>4
<1>4. ASSUME NEW k \in 0 .. n - 1
      PROVE  f[k] \in Int /\ h[k + 1] = h[k] + f[k]
  <2> DEFINE c == 2^(w * k)
             d == 2^w
  <2>1. c \in Nat \ {0} /\ d \in Nat \ {0}
    BY <1>2
  <2>2. w * (k + 1) = w * k + w
    BY SMT
  <2>3. 2^(w * (k + 1)) = c * d
    BY <1>1, <2>2, PowSum
  <2>4. f[k] = ((x \div c) % d) * c
    BY Zenon DEF DigitTerms
  <2>5. h[k] = x % c /\ h[k + 1] = x % (c * d)
    <3>1. k \in 0 .. n /\ k + 1 \in 0 .. n
      OBVIOUS
    <3>2. h[k] = x % 2^(w * k) /\ h[k + 1] = x % 2^(w * (k + 1))
      BY <3>1, Zenon
    <3> QED
      BY <2>3, <3>2
  <2> HIDE DEF c, d, h
  <2>6. x % (c * d) = c * ((x \div c) % d) + (x % c)
    <3>1. x \in Int
      OBVIOUS
    <3>2. /\ c * d \in Nat \ {0}
          /\ (x \div c) \div d = x \div (c * d)
          /\ x % (c * d) = c * ((x \div c) % d) + (x % c)
      BY <2>1, <3>1, DivDiv, Zenon
    <3> QED
      BY <3>2
  <2>7. (x \div c) \in Int /\ x % c \in Int
    BY <2>1, DivMod
  <2>8. (x \div c) % d \in Int
    BY <2>1, <2>7, DivMod
  <2>9. c * ((x \div c) % d) = ((x \div c) % d) * c /\ c * ((x \div c) % d) \in Int
    BY <2>1, <2>8, MulFacts
  <2> QED
    BY <2>4, <2>5, <2>6, <2>7, <2>9
<1>5. h[n] = x % 2^(w * n)
  OBVIOUS
<1> HIDE DEF h
<1>6. \A k \in 0 .. n - 1 : f[k] \in Int
  BY <1>4
<1>7. \A k \in 0 .. n - 1 : h[k + 1] = h[k] + f[k]
  BY <1>4
<1>8. Total(f, n) = h[n]
  BY <1>3, <1>6, <1>7, TotalIs
<1> QED
  BY <1>5, <1>8

\* Numbers of n digits of w bits are the same when their digits are.
SameDigits(w, x, y, n) ==
  \A k \in 0 .. n - 1 : (x \div 2^(w * k)) % 2^w = (y \div 2^(w * k)) % 2^w

LEMMA DigitsTell ==
  ASSUME NEW w \in Nat, NEW n \in Nat, NEW x \in Nat, NEW y \in Nat, NEW d \in Nat \ {0},
         d = 2^(w * n), x < d, y < d, SameDigits(w, x, y, n)
  PROVE  x = y
<1> DEFINE f == [k \in 0 .. n - 1 |-> ((x \div 2^(w * k)) % 2^w) * 2^(w * k)]
<1>1. DigitTerms(f, w, x, n) /\ DigitTerms(f, w, y, n)
  BY Zenon DEF DigitTerms, SameDigits
<1> HIDE DEF f
<1>2. Total(f, n) = x % d /\ Total(f, n) = y % d
  <2>1. Total(f, n) = x % 2^(w * n)
    BY ONLY <1>1, w \in Nat, n \in Nat, x \in Nat, DigitsOfNumber, Zenon
  <2>2. Total(f, n) = y % 2^(w * n)
    BY ONLY <1>1, w \in Nat, n \in Nat, y \in Nat, DigitsOfNumber, Zenon
  <2> QED
    BY ONLY <2>1, <2>2, d = 2^(w * n), Zenon
<1>3. x % d = x /\ y % d = y
  BY ONLY x < d, y < d, x \in Nat, y \in Nat, d \in Nat \ {0}, SmallDiv
<1> QED
  BY <1>2, <1>3, Zenon

\* f is c times g, m places further on, and 0 elsewhere.
ShiftedBy(f, n, g, q, m, c) ==
  /\ m \in Nat /\ q \in Nat /\ m + q <= n /\ c \in Int
  /\ \A k \in 0 .. q - 1 : g[k] \in Int
  /\ \A k \in 0 .. n - 1 : f[k] = IF m <= k /\ k < m + q THEN c * g[k - m] ELSE 0

LEMMA ShiftedTotal ==
  ASSUME NEW n \in Nat, NEW f, NEW g, NEW q, NEW m, NEW c, ShiftedBy(f, n, g, q, m, c)
  PROVE  Total(f, n) = c * Total(g, q)
<1>1. m \in Nat /\ q \in Nat /\ m + q <= n /\ c \in Int
  BY Zenon DEF ShiftedBy
<1>2. \A k \in 0 .. q - 1 : g[k] \in Int
  BY Zenon DEF ShiftedBy
<1>3. \A k \in 0 .. n - 1 : f[k] = IF m <= k /\ k < m + q THEN c * g[k - m] ELSE 0
  BY Zenon DEF ShiftedBy
<1>4. /\ Total(g, q) \in Int
      /\ \A k \in 0 .. q - 1 : Total(g, k) \in Int /\ Total(g, k + 1) = Total(g, k) + g[k]
  BY <1>1, <1>2, TotalNext
<1>5. Total(g, 0) = 0
  BY TotalNext
<1> DEFINE h == [k \in 0 .. n |-> IF k < m THEN 0
                                  ELSE IF k < m + q THEN c * Total(g, k - m) ELSE c * Total(g, q)]
<1>6. \A k \in 0 .. n : /\ k < m => h[k] = 0
                        /\ m <= k /\ k < m + q => h[k] = c * Total(g, k - m)
                        /\ m + q <= k => h[k] = c * Total(g, q)
  BY <1>1
<1>7. \A k \in 0 .. n - 1 : f[k] \in Int
  <2> SUFFICES ASSUME NEW k \in 0 .. n - 1 PROVE f[k] \in Int
    OBVIOUS
  <2>1. CASE m <= k /\ k < m + q
    <3>1. g[k - m] \in Int
      BY <1>1, <1>2, <2>1
    <3>2. f[k] = c * g[k - m]
      BY <1>3, <2>1
    <3> QED
      BY <1>1, <3>1, <3>2, MulFacts
  <2>2. CASE ~(m <= k /\ k < m + q)
    BY <1>3, <2>2
  <2> QED
    BY <2>1, <2>2
<1> HIDE DEF h
<1>8. h[0] = 0
  <2>1. c * 0 = 0 /\ 0 \in 0 .. n
    BY <1>1
  <2>2. CASE 0 < m
    BY <1>6, <2>1, <2>2
  <2>3. CASE ~(0 < m) /\ 0 < m + q
    <3>1. m <= 0 /\ 0 - m = 0
      BY <1>1, <2>3
    <3>2. h[0] = c * Total(g, 0 - m)
      BY <1>6, <2>1, <2>3, <3>1
    <3> QED
      BY <1>5, <2>1, <3>1, <3>2
  <2>4. CASE ~(0 < m + q)
    <3>1. q = 0 /\ m + q <= 0
      BY <1>1, <2>4
    <3>2. h[0] = c * Total(g, q)
      BY <1>6, <2>1, <3>1
    <3> QED
      BY <1>5, <2>1, <3>1, <3>2
  <2> QED
    BY <2>2, <2>3, <2>4, Zenon
<1>9. \A k \in 0 .. n - 1 : h[k + 1] = h[k] + f[k]
  <2> SUFFICES ASSUME NEW k \in 0 .. n - 1 PROVE h[k + 1] = h[k] + f[k]
    OBVIOUS
  <2>1. k \in 0 .. n /\ k + 1 \in 0 .. n
    OBVIOUS
  <2>2. CASE k + 1 < m
    BY <1>1, <1>3, <1>6, <2>1, <2>2
  <2>3. CASE k + 1 = m
    <3>1. h[k] = 0 /\ f[k] = 0
      BY <1>1, <1>3, <1>6, <2>1, <2>3
    <3>2. h[k + 1] = 0
      <4>1. c * 0 = 0
        BY <1>1
      <4>2. CASE q = 0
        BY <1>1, <1>5, <1>6, <2>1, <2>3, <4>1, <4>2
      <4>3. CASE 0 < q
        BY <1>1, <1>5, <1>6, <2>1, <2>3, <4>1, <4>3
      <4> QED
        BY <1>1, <4>2, <4>3
    <3> QED
      BY <3>1, <3>2
  <2>4. CASE m <= k /\ k < m + q
    <3>1. PICK j \in 0 .. q - 1 : j = k - m
      BY <1>1, <2>4
    <3>2. PICK t \in Int : t = Total(g, j)
      BY <1>4
    <3>3. Total(g, j + 1) = t + g[j] /\ g[j] \in Int
      BY <1>2, <1>4, <3>2
    <3>4. c * (t + g[j]) = c * t + c * g[j]
      BY <1>1, <3>3, MulFacts
    <3>5. h[k] = c * t /\ f[k] = c * g[j]
      BY <1>3, <1>6, <2>1, <2>4, <3>1, <3>2
    <3>6. h[k + 1] = c * Total(g, j + 1)
      <4>1. CASE k + 1 < m + q
        BY <1>1, <1>6, <2>1, <2>4, <3>1, <4>1
      <4>2. CASE k + 1 = m + q
        <5>1. h[k + 1] = c * Total(g, q)
          BY <1>1, <1>6, <2>1, <4>2
        <5>2. q = j + 1
          BY <1>1, <3>1, <4>2
        <5> QED
          BY <5>1, <5>2
      <4> QED
        BY <1>1, <2>4, <4>1, <4>2
    <3> QED
      BY <3>3, <3>4, <3>5, <3>6
  <2>5. CASE m + q <= k
    <3>1. c * Total(g, q) \in Int
      BY <1>1, <1>4, MulFacts
    <3> QED
      BY <1>1, <1>3, <1>6, <2>1, <2>5, <3>1
  <2> QED
    BY <1>1, <2>2, <2>3, <2>4, <2>5
<1>10. Total(f, n) = h[n]
  BY <1>7, <1>8, <1>9, TotalIs
<1>11. h[n] = c * Total(g, q)
  BY <1>1, <1>6
<1> QED
  BY <1>10, <1>11

\* Every term of f is c times that of g.
ScaledBy(f, n, g, c) ==
  /\ c \in Int /\ \A k \in 0 .. n - 1 : g[k] \in Int
  /\ \A k \in 0 .. n - 1 : f[k] = c * g[k]

LEMMA ScaledTotal ==
  ASSUME NEW n \in Nat, NEW f, NEW g, NEW c, ScaledBy(f, n, g, c)
  PROVE  Total(f, n) = c * Total(g, n)
<1>1. ShiftedBy(f, n, g, n, 0, c)
  BY DEF ScaledBy, ShiftedBy
<1> QED
  BY <1>1, ShiftedTotal

\* The terms of h are those of f and g together.
Adds(h, n, f, g) ==
  \A k \in 0 .. n - 1 : f[k] \in Int /\ g[k] \in Int /\ h[k] = f[k] + g[k]

LEMMA AddedTotal ==
  ASSUME NEW n \in Nat, NEW f, NEW g, NEW h, Adds(h, n, f, g)
  PROVE  Total(h, n) = Total(f, n) + Total(g, n)
<1>1. \A k \in 0 .. n - 1 : f[k] \in Int /\ g[k] \in Int /\ h[k] = f[k] + 1 * g[k]
  BY DEF Adds
<1>2. Total(h, n) = Total(f, n) + 1 * Total(g, n)
  BY <1>1, TotalLinear
<1>3. \A k \in 0 .. n - 1 : g[k] \in Int
  BY DEF Adds
<1>4. Total(g, n) \in Int
  BY <1>3, TotalNext
<1> QED
  BY <1>2, <1>4

\* A table summed by its rows and by its columns.
Column(t, n, j)      == [k \in 0 .. n - 1 |-> t[k][j]]
RowSums(f, n, t, m)  == \A k \in 0 .. n - 1 : f[k] = Total(t[k], m)
ColumnSums(g, n, t, m) == \A j \in 0 .. m - 1 : g[j] = Total(Column(t, n, j), n)
IsTable(t, n, m)     == \A k \in 0 .. n - 1 : \A j \in 0 .. m - 1 : t[k][j] \in Int

LEMMA SwappedTotal ==
  ASSUME NEW n \in Nat, NEW m \in Nat, NEW t, IsTable(t, n, m),
         NEW f, RowSums(f, n, t, m), NEW g, ColumnSums(g, n, t, m)
  PROVE  Total(f, n) = Total(g, m)
<1> DEFINE part(p) == [k \in 0 .. n - 1 |-> Total(t[k], p)]
           S == {p \in 0 .. m : Total(part(p), n) = Total(g, p)}
<1>1. \A k \in 0 .. n - 1 : /\ \A p \in 0 .. m : Total(t[k], p) \in Int
                            /\ \A p \in 0 .. m - 1 : Total(t[k], p + 1) = Total(t[k], p) + t[k][p]
                            /\ Total(t[k], 0) = 0
  <2> SUFFICES ASSUME NEW k \in 0 .. n - 1
               PROVE  /\ \A p \in 0 .. m : Total(t[k], p) \in Int
                      /\ \A p \in 0 .. m - 1 : Total(t[k], p + 1) = Total(t[k], p) + t[k][p]
                      /\ Total(t[k], 0) = 0
    OBVIOUS
  <2> DEFINE u == t[k]
  <2>1. \A j \in 0 .. m - 1 : u[j] \in Int
    BY DEF IsTable
  <2> HIDE DEF u
  <2>2. /\ Total(u, m) \in Int
        /\ \A p \in 0 .. m - 1 : Total(u, p) \in Int /\ Total(u, p + 1) = Total(u, p) + u[p]
    BY <2>1, TotalNext
  <2>3. Total(u, 0) = 0
    BY TotalNext
  <2>4. \A p \in 0 .. m : Total(u, p) \in Int
    BY <2>2
  <2> QED
    BY <2>2, <2>3, <2>4 DEF u
<1>2. \A p \in 0 .. m - 1 : \A k \in 0 .. n - 1 : Column(t, n, p)[k] = t[k][p] /\ Column(t, n, p)[k] \in Int
  BY DEF IsTable, Column
<1>3. \A p \in 0 .. m - 1 : g[p] \in Int
  <2> SUFFICES ASSUME NEW p \in 0 .. m - 1 PROVE g[p] \in Int
    OBVIOUS
  <2>1. \A k \in 0 .. n - 1 : Column(t, n, p)[k] \in Int
    BY <1>2
  <2>2. Total(Column(t, n, p), n) \in Int
    BY <2>1, TotalNext
  <2> QED
    BY <2>2 DEF ColumnSums
<1>4. \A p \in 0 .. m - 1 : Total(g, p + 1) = Total(g, p) + g[p]
  BY <1>3, TotalNext
<1>5. 0 \in S
  <2>1. ScaledBy(part(0), n, part(0), 0)
    BY <1>1 DEF ScaledBy
  <2>2. Total(part(0), n) = 0 * Total(part(0), n)
    BY <2>1, ScaledTotal
  <2>3. \A k \in 0 .. n - 1 : part(0)[k] \in Int
    BY <1>1
  <2>4. Total(part(0), n) \in Int
    BY <2>3, TotalNext
  <2>5. Total(g, 0) = 0
    BY TotalNext
  <2> QED
    BY <2>2, <2>4, <2>5
<1>6. ASSUME NEW p \in 0 .. m - 1, p \in S
      PROVE  p + 1 \in S
  <2>1. Adds(part(p + 1), n, part(p), Column(t, n, p))
    <3> SUFFICES ASSUME NEW k \in 0 .. n - 1
                 PROVE  /\ part(p)[k] \in Int /\ Column(t, n, p)[k] \in Int
                        /\ part(p + 1)[k] = part(p)[k] + Column(t, n, p)[k]
      BY DEF Adds
    <3>1. p \in 0 .. m /\ Total(t[k], p) \in Int /\ Total(t[k], p + 1) = Total(t[k], p) + t[k][p]
      BY <1>1
    <3> QED
      BY <1>2, <3>1
  <2>2. Total(part(p + 1), n) = Total(part(p), n) + Total(Column(t, n, p), n)
    BY <2>1, AddedTotal
  <2>3. g[p] = Total(Column(t, n, p), n)
    BY DEF ColumnSums
  <2>4. Total(part(p), n) = Total(g, p)
    BY <1>6
  <2>5. Total(g, p + 1) = Total(g, p) + g[p] /\ p + 1 \in 0 .. m
    BY <1>4
  <2> QED
    BY <2>2, <2>3, <2>4, <2>5
<1>7. m \in S
  <2> HIDE DEF S
  <2>1. \A p \in 0 .. m - 1 : p \in S => p + 1 \in S
    BY <1>6
  <2> QED
    BY <1>5, <2>1, InductionTo
<1>8. f = f /\ \A k \in 0 .. n - 1 : part(m)[k] \in Int /\ f[k] = part(m)[k]
  BY <1>1 DEF RowSums
<1>9. Total(f, n) = Total(part(m), n)
  <2> HIDE DEF part
  <2>1. \A k \in 0 .. n - 1 : part(m)[k] \in Int
    BY <1>8
  <2>2. \A k \in 0 .. n - 1 : f[k] = part(m)[k]
    BY <1>8
  <2> QED
    BY <2>1, <2>2, TotalSame
<1> QED
  BY <1>7, <1>9
-----------------------------------------------------------------------------
\* A map f of S whose iterates, g[x] from x, come back to x after n steps and not before.
Cycles(S, f, n, g) ==
  /\ n \in Nat \ {0}
  /\ \A x \in S : f[x] \in S
  /\ \A x, y \in S : f[x] = f[y] => x = y
  /\ \A x \in S : /\ g[x][0] = x /\ g[x][n] = x
                  /\ \A k \in 0 .. n : g[x][k] \in S
                  /\ \A k \in 1 .. n - 1 : g[x][k] # x
                  /\ \A k \in 0 .. n - 1 : g[x][k + 1] = f[g[x][k]]

Cycle(g, n, x) == {g[x][k] : k \in 0 .. n - 1}

LEMMA CycleSize ==
  ASSUME NEW S, NEW f, NEW n, NEW g, Cycles(S, f, n, g), NEW x \in S
  PROVE  /\ Cycle(g, n, x) \subseteq S /\ x \in Cycle(g, n, x)
         /\ IsFiniteSet(Cycle(g, n, x)) /\ Cardinality(Cycle(g, n, x)) = n
         /\ \A y \in S : f[y] \in Cycle(g, n, x) => y \in Cycle(g, n, x)
<1> DEFINE c == g[x]
           O == {c[k] : k \in 0 .. n - 1}
<1>1. /\ n \in Nat \ {0} /\ c[0] = x /\ c[n] = x
      /\ \A k \in 0 .. n : c[k] \in S
      /\ \A k \in 1 .. n - 1 : c[k] # x
      /\ \A k \in 0 .. n - 1 : c[k + 1] = f[c[k]]
      /\ \A y, z \in S : f[y] = f[z] => y = z
  BY DEF Cycles
<1> HIDE DEF c
<1>2. \A j \in 0 .. n - 1 : \A k \in j + 1 .. n - 1 : c[j] # c[k]
  <2> DEFINE T == {j \in Nat : \A k \in j + 1 .. n - 1 : c[j] # c[k]}
  <2>1. 0 \in T
    BY <1>1
  <2>2. ASSUME NEW j \in Nat, j \in T PROVE j + 1 \in T
    <3> SUFFICES ASSUME NEW k \in (j + 1) + 1 .. n - 1, c[j + 1] = c[k] PROVE FALSE
      OBVIOUS
    <3>1. k - 1 \in 0 .. n - 1 /\ j \in 0 .. n - 1 /\ (k - 1) + 1 = k /\ k - 1 \in j + 1 .. n - 1
      BY <1>1
    <3>2. c[k] = f[c[k - 1]] /\ c[j + 1] = f[c[j]] /\ c[k - 1] \in S /\ c[j] \in S
      <4>1. \A m \in 0 .. n - 1 : m \in 0 .. n
        BY <1>1
      <4> QED
        BY <1>1, <3>1, <4>1
    <3>3. c[j] = c[k - 1]
      BY <1>1, <3>2
    <3> QED
      BY <2>2, <3>1, <3>3
  <2> HIDE DEF T
  <2>3. \A j \in Nat : j \in T
    BY <2>1, <2>2, Induction
  <2> QED
    BY <1>1, <2>3 DEF T
<1>3. \A j, k \in 0 .. n - 1 : c[j] = c[k] => j = k
  BY <1>1, <1>2
<1>4. O \subseteq S
  BY <1>1
<1>5. ExistsBijection(0 .. n - 1, O)
  <2> DEFINE b == [k \in 0 .. n - 1 |-> c[k]]
  <2>1. b \in [0 .. n - 1 -> O]
    BY Zenon
  <2>2. \A j, k \in 0 .. n - 1 : b[j] = b[k] => j = k
    BY <1>3, Zenon
  <2>3. \A y \in O : \E k \in 0 .. n - 1 : b[k] = y
    BY Zenon
  <2> HIDE DEF b, O
  <2> QED
    BY <2>1, <2>2, <2>3, Zenon DEF ExistsBijection, Bijection, Injection, Surjection, IsInjective
<1>6. IsFiniteSet(0 .. n - 1) /\ Cardinality(0 .. n - 1) = n
  BY <1>1, FS_Interval
<1>7. IsFiniteSet(O) /\ Cardinality(O) = n
  <2> HIDE DEF O
  <2> QED
    BY <1>5, <1>6, FS_Bijection
<1>8. ASSUME NEW y \in S, f[y] \in O PROVE y \in O
  <2>1. PICK k \in 0 .. n - 1 : f[y] = c[k]
    BY <1>8
  <2>2. PICK m \in 0 .. n - 1 : c[m + 1] = c[k]
    <3>1. CASE k = 0
      <4>1. n - 1 \in 0 .. n - 1 /\ c[(n - 1) + 1] = c[k]
        BY <1>1, <3>1
      <4> QED
        BY <4>1
    <3>2. CASE k # 0
      <4>1. k - 1 \in 0 .. n - 1 /\ c[(k - 1) + 1] = c[k]
        BY <1>1, <3>2
      <4> QED
        BY <4>1
    <3> QED
      BY <3>1, <3>2
  <2>3. c[m + 1] = f[c[m]] /\ c[m] \in S
    BY <1>1
  <2>4. c[m] = y
    BY <1>1, <2>1, <2>2, <2>3
  <2> QED
    BY <2>4
<1>9. x \in O
  <2>1. 0 \in 0 .. n - 1
    BY <1>1
  <2> QED
    BY <1>1, <2>1
<1> QED
  BY <1>4, <1>7, <1>8, <1>9, Zenon DEF c, Cycle

\* The cycles divide S.
LEMMA CyclesDivide ==
  ASSUME NEW S, IsFiniteSet(S), NEW f, NEW n, NEW g, Cycles(S, f, n, g)
  PROVE  Cardinality(S) \in Nat /\ \E m \in Nat : Cardinality(S) = n * m
<1> DEFINE Stable(T) == T \subseteq S /\ \A y \in T : f[y] \in T
           G == {c \in Nat : \A T \in SUBSET S : Stable(T) /\ Cardinality(T) <= c
                                                 => \E m \in Nat : Cardinality(T) = n * m}
<1>1. n \in Nat \ {0} /\ \A x \in S : f[x] \in S
  BY DEF Cycles
<1>2. \A T \in SUBSET S : IsFiniteSet(T) /\ Cardinality(T) \in Nat /\ (Cardinality(T) = 0 <=> T = {})
  BY FS_Subset, FS_CardinalityType, FS_EmptySet
<1>3. 0 \in G
  <2> SUFFICES ASSUME NEW T \in SUBSET S, Cardinality(T) <= 0
               PROVE  \E m \in Nat : Cardinality(T) = n * m
    BY 0 \in Nat
  <2>1. Cardinality(T) = 0 /\ n * 0 = 0
    BY <1>1, <1>2
  <2> QED
    BY <2>1
<1>4. ASSUME NEW c \in Nat, c \in G PROVE c + 1 \in G
  <2> SUFFICES ASSUME NEW T \in SUBSET S, Stable(T), Cardinality(T) <= c + 1
               PROVE  \E m \in Nat : Cardinality(T) = n * m
    OBVIOUS
  <2>1. CASE T = {}
    <3>1. Cardinality(T) = 0 /\ n * 0 = 0
      BY <1>1, <1>2, <2>1
    <3> QED
      BY <3>1
  <2>2. CASE T # {}
    <3>1. PICK x \in T : TRUE
      BY <2>2
    <3>2. x \in S
      BY <3>1
    <3> DEFINE O == Cycle(g, n, x)
    <3>3. /\ O \subseteq S /\ x \in O
          /\ IsFiniteSet(O) /\ Cardinality(O) = n
          /\ \A y \in S : f[y] \in O => y \in O
      BY <3>2, CycleSize
    <3>4. O \subseteq T
      <4> DEFINE K == {k \in Nat : k <= n - 1 => g[x][k] \in T}
      <4>1. 0 \in K
        BY <3>2 DEF Cycles
      <4>2. ASSUME NEW k \in Nat, k \in K PROVE k + 1 \in K
        <5> SUFFICES ASSUME k + 1 <= n - 1 PROVE g[x][k + 1] \in T
          OBVIOUS
        <5>1. k \in 0 .. n - 1 /\ g[x][k] \in T
          BY <1>1, <4>2
        <5>2. g[x][k + 1] = f[g[x][k]]
          BY <3>2, <5>1 DEF Cycles
        <5> QED
          BY <5>1, <5>2
      <4> HIDE DEF K
      <4>3. \A k \in Nat : k \in K
        BY <4>1, <4>2, Induction
      <4> QED
        BY <1>1, <4>3 DEF K, Cycle
    <3> HIDE DEF O
    <3> DEFINE U == T \ O
    <3>5. Stable(U)
      BY <3>3
    <3>6. Cardinality(U) = Cardinality(T) - n
      <4>1. T \cap O = O
        BY <3>4
      <4>2. Cardinality(U) = Cardinality(T) - Cardinality(T \cap O)
        BY <1>2, FS_Difference
      <4> QED
        BY <3>3, <4>1, <4>2
    <3>7. Cardinality(U) <= c /\ U \in SUBSET S /\ Cardinality(T) \in Nat
      BY <1>1, <1>2, <3>6
    <3>8. PICK m \in Nat : Cardinality(U) = n * m
      BY <1>4, <3>5, <3>7
    <3>9. Cardinality(T) = n * (m + 1) /\ m + 1 \in Nat
      BY <1>1, <3>6, <3>7, <3>8
    <3> QED
      BY <3>9
  <2> QED
    BY <2>1, <2>2
<1> HIDE DEF G
<1>5. \A c \in Nat : c \in G
  BY <1>3, <1>4, Induction
<1>6. Stable(S) /\ S \in SUBSET S /\ Cardinality(S) \in Nat
  BY <1>1, <1>2
<1>7. Cardinality(S) <= Cardinality(S)
  BY <1>6
<1> QED
  BY <1>5, <1>6, <1>7 DEF G

\* c is x, f[x], f[f[x]] and so on, N steps of it.
Iterates(S, f, x, N, c) ==
  c \in [0 .. N -> S] /\ c[0] = x /\ \A k \in 0 .. N - 1 : c[k + 1] = f[c[k]]

LEMMA IteratesExist ==
  ASSUME NEW S, NEW f, \A y \in S : f[y] \in S, NEW x \in S, NEW N \in Nat
  PROVE  \E c : Iterates(S, f, x, N, c)
<1> DEFINE Upto(n) == \E c : c \in [0 .. n -> S] /\ c[0] = x /\ \A k \in 0 .. n - 1 : c[k + 1] = f[c[k]]
           T == {n \in Nat : Upto(n)}
<1>1. 0 \in T
  <2> DEFINE c == [k \in 0 .. 0 |-> x]
  <2>1. c \in [0 .. 0 -> S] /\ c[0] = x /\ \A k \in 0 .. 0 - 1 : c[k + 1] = f[c[k]]
    OBVIOUS
  <2> QED
    BY <2>1, 0 \in Nat
<1>2. ASSUME NEW n \in Nat, n \in T PROVE n + 1 \in T
  <2>1. PICK c : c \in [0 .. n -> S] /\ c[0] = x /\ \A k \in 0 .. n - 1 : c[k + 1] = f[c[k]]
    BY <1>2
  <2> DEFINE d == [k \in 0 .. n + 1 |-> IF k = n + 1 THEN f[c[n]] ELSE c[k]]
  <2>2. d \in [0 .. n + 1 -> S]
    BY <2>1
  <2>3. d[0] = x
    BY <2>1
  <2>4. \A k \in 0 .. (n + 1) - 1 : d[k + 1] = f[d[k]]
    BY <2>1
  <2> HIDE DEF d
  <2> QED
    BY <2>2, <2>3, <2>4
<1> HIDE DEF T
<1>3. \A n \in Nat : n \in T
  BY <1>1, <1>2, Induction
<1> QED
  BY <1>3 DEF T, Iterates

\* Commutative groups that are finite.  op is a function of pairs.
Of(op, x, y) == op[<<x, y>>]

IsGroup(G, op, e) ==
  /\ IsFiniteSet(G) /\ e \in G
  /\ \A x, y \in G : Of(op, x, y) \in G /\ Of(op, x, y) = Of(op, y, x)
  /\ \A x, y, z \in G : Of(op, Of(op, x, y), z) = Of(op, x, Of(op, y, z))
  /\ \A x \in G : Of(op, x, e) = x /\ \E y \in G : Of(op, x, y) = e

\* h has the multiples of p up to N, from the neutral element on.
AreMultiples(G, op, e, p, N, h) ==
  /\ p \in G /\ N \in Nat /\ h[0] = e
  /\ \A k \in 0 .. N : h[k] \in G
  /\ \A k \in 0 .. N - 1 : h[k + 1] = Of(op, h[k], p)

LEMMA GroupFacts ==
  ASSUME NEW G, NEW op, NEW e, IsGroup(G, op, e)
  PROVE  /\ \A x, y \in G : Of(op, x, y) \in G /\ Of(op, x, y) = Of(op, y, x)
         /\ \A x, y, z \in G : Of(op, Of(op, x, y), z) = Of(op, x, Of(op, y, z))
         /\ \A x \in G : Of(op, x, e) = x /\ Of(op, e, x) = x
<1>1. \A x, y, z \in G : Of(op, Of(op, x, y), z) = Of(op, x, Of(op, y, z))
  BY Zenon DEF IsGroup
<1>2. \A x, y \in G : Of(op, x, y) \in G /\ Of(op, x, y) = Of(op, y, x)
  BY Zenon DEF IsGroup
<1>3. e \in G /\ \A x \in G : Of(op, x, e) = x
  BY Zenon DEF IsGroup
<1> QED
  BY <1>1, <1>2, <1>3, Zenon

LEMMA Cancel ==
  ASSUME NEW G, NEW op, NEW e, IsGroup(G, op, e), NEW x \in G, NEW y \in G, NEW z \in G,
         Of(op, x, z) = Of(op, y, z)
  PROVE  x = y
<1>1. PICK w \in G : Of(op, z, w) = e
  BY DEF IsGroup
<1>2. Of(op, Of(op, x, z), w) = Of(op, x, Of(op, z, w)) /\ Of(op, Of(op, y, z), w) = Of(op, y, Of(op, z, w))
  BY <1>1, GroupFacts
<1>3. Of(op, x, e) = x /\ Of(op, y, e) = y
  BY <1>1, GroupFacts
<1> QED
  BY <1>1, <1>2, <1>3, SMT

LEMMA MultiplesAdd ==
  ASSUME NEW G, NEW op, NEW e, IsGroup(G, op, e), NEW p, NEW N, NEW h, AreMultiples(G, op, e, p, N, h)
  PROVE  \A m \in Nat : \A n \in Nat : n + m <= N => h[n + m] = Of(op, h[n], h[m])
<1> DEFINE T == {m \in Nat : \A n \in Nat : n + m <= N => h[n + m] = Of(op, h[n], h[m])}
<1>1. /\ p \in G /\ N \in Nat /\ h[0] = e
      /\ \A k \in 0 .. N : h[k] \in G
      /\ \A k \in 0 .. N - 1 : h[k + 1] = Of(op, h[k], p)
  BY Zenon DEF AreMultiples
<1>2. 0 \in T
  <2> SUFFICES ASSUME NEW n \in Nat, n + 0 <= N PROVE h[n + 0] = Of(op, h[n], h[0])
    BY 0 \in Nat
  <2>1. n \in 0 .. N /\ n + 0 = n
    BY <1>1
  <2>2. h[n] \in G
    BY <1>1, <2>1
  <2>3. Of(op, h[n], e) = h[n]
    BY <2>2, Zenon DEF IsGroup
  <2> QED
    BY <1>1, <2>1, <2>3
<1>3. ASSUME NEW m \in Nat, m \in T PROVE m + 1 \in T
  <2> SUFFICES ASSUME NEW n \in Nat, n + (m + 1) <= N
               PROVE  h[n + (m + 1)] = Of(op, h[n], h[m + 1])
    OBVIOUS
  <2>1. n + m <= N /\ n + m \in 0 .. N - 1 /\ m \in 0 .. N - 1 /\ n + (m + 1) = (n + m) + 1
        /\ n \in 0 .. N /\ m \in 0 .. N
    BY <1>1
  <2>2. h[(n + m) + 1] = Of(op, h[n + m], p) /\ h[m + 1] = Of(op, h[m], p) /\ h[n] \in G /\ h[m] \in G
    BY <1>1, <2>1
  <2>3. h[n + m] = Of(op, h[n], h[m])
    BY <1>3, <2>1
  <2>4. Of(op, Of(op, h[n], h[m]), p) = Of(op, h[n], Of(op, h[m], p))
    BY <1>1, <2>2, GroupFacts
  <2> QED
    BY <2>1, <2>2, <2>3, <2>4
<1> HIDE DEF T
<1>4. \A m \in Nat : m \in T
  BY <1>2, <1>3, Induction
<1> QED
  BY <1>4 DEF T

\* Lagrange: as many times p as the group has elements is the neutral element.
LEMMA Lagrange ==
  ASSUME NEW G, NEW op, NEW e, IsGroup(G, op, e), NEW p, NEW h,
         AreMultiples(G, op, e, p, Cardinality(G), h)
  PROVE  h[Cardinality(G)] = e
<1> DEFINE N == Cardinality(G)
<1>1. /\ p \in G /\ N \in Nat /\ h[0] = e
      /\ \A k \in 0 .. N : h[k] \in G
      /\ \A k \in 0 .. N - 1 : h[k + 1] = Of(op, h[k], p)
  BY Zenon DEF AreMultiples
<1>2. IsFiniteSet(G) /\ e \in G
  BY DEF IsGroup
<1>3. \A m \in Nat : \A n \in Nat : n + m <= N => h[n + m] = Of(op, h[n], h[m])
  BY MultiplesAdd
<1>4. \E j, k \in 0 .. N : j < k /\ h[j] = h[k]
  <2> DEFINE b == [k \in 0 .. N |-> h[k]]
  <2>1. b \in [0 .. N -> G]
    BY <1>1, Zenon
  <2>2. IsFiniteSet(0 .. N) /\ Cardinality(0 .. N) = N + 1
    BY <1>1, FS_Interval
  <2>3. N < Cardinality(0 .. N)
    BY <1>1, <2>2
  <2>4. \A k \in 0 .. N : b[k] = h[k]
    BY Zenon
  <2> HIDE DEF b
  <2>5. \E j, k \in 0 .. N : j # k /\ b[j] = b[k]
    BY <1>2, <2>1, <2>2, <2>3, FS_PigeonHole, Zenon
  <2>6. \E j, k \in 0 .. N : j # k /\ h[j] = h[k]
    BY <2>4, <2>5, Zenon
  <2>7. \A j, k \in 0 .. N : j # k => j < k \/ k < j
    BY <1>1
  <2> QED
    BY <2>6, <2>7, Zenon
<1> HIDE DEF N
<1>5. \E n \in 1 .. N : h[n] = e
  <2>1. PICK j \in 0 .. N, k \in 0 .. N : j < k /\ h[j] = h[k]
    BY <1>4
  <2>2. j \in Nat /\ k - j \in Nat /\ (k - j) + j = k /\ (k - j) + j <= N /\ k - j \in 1 .. N /\ k - j \in 0 .. N
    BY <1>1, <2>1
  <2>3. h[k] = Of(op, h[k - j], h[j])
    BY <1>3, <2>2
  <2>4. h[j] \in G /\ h[k - j] \in G
    BY <1>1, <2>1, <2>2
  <2>5. Of(op, h[j], e) = h[j] /\ Of(op, h[j], e) = Of(op, e, h[j])
    BY <1>2, <2>4, Zenon DEF IsGroup
  <2>6. Of(op, h[k - j], h[j]) = Of(op, e, h[j])
    BY <2>1, <2>3, <2>5, Zenon
  <2>7. h[k - j] = e
    BY <1>2, <2>4, <2>6, Cancel, Zenon
  <2> QED
    BY <2>2, <2>7
<1>6. PICK n \in 1 .. N : h[n] = e /\ \A k \in 1 .. N : h[k] = e => n <= k
  <2> DEFINE T == {k \in 1 .. N : h[k] = e}
  <2>1. T \subseteq Nat /\ T # {}
    BY <1>1, <1>5
  <2>2. PICK k \in T : \A l \in T : k <= l
    <3> HIDE DEF T
    <3> QED
      BY <2>1, LeastNat
  <2> QED
    BY <2>2
<1>7. n \in Nat \ {0} /\ n <= N
  BY <1>1, <1>6
<1> DEFINE f == [x \in G |-> Of(op, x, p)]
           g == [x \in G |-> [k \in 0 .. n |-> Of(op, x, h[k])]]
<1>8. Cycles(G, f, n, g)
  <2>1. ASSUME NEW x \in G PROVE f[x] = Of(op, x, p) /\ f[x] \in G
    BY <1>1, Zenon DEF IsGroup
  <2>2. ASSUME NEW x \in G, NEW y \in G, f[x] = f[y] PROVE x = y
    <3>1. Of(op, x, p) = Of(op, y, p)
      BY <2>1, <2>2
    <3> HIDE DEF f
    <3> QED
      BY <1>1, <3>1, Cancel
  <2>3. \A x \in G : \A k \in 0 .. n : g[x][k] = Of(op, x, h[k])
    BY Zenon
  <2>4. \A k \in 0 .. n : k \in 0 .. N
    BY <1>1, <1>6
  <2> HIDE DEF f, g
  <2>5. ASSUME NEW x \in G
        PROVE  /\ g[x][0] = x /\ g[x][n] = x
               /\ \A k \in 0 .. n : g[x][k] \in G
               /\ \A k \in 1 .. n - 1 : g[x][k] # x
               /\ \A k \in 0 .. n - 1 : g[x][k + 1] = f[g[x][k]]
    <3>1. Of(op, x, e) = x /\ Of(op, e, x) = x
      BY <1>2, Zenon DEF IsGroup
    <3>2. 0 \in 0 .. n /\ n \in 0 .. n
      BY <1>7
    <3>3. g[x][0] = x /\ g[x][n] = x
      BY <1>1, <1>6, <2>3, <3>1, <3>2, Zenon
    <3>4. ASSUME NEW k \in 0 .. n PROVE g[x][k] \in G /\ h[k] \in G
      <4>1. h[k] \in G
        BY <1>1, <2>4, Zenon
      <4>2. Of(op, x, h[k]) \in G
        BY <4>1, GroupFacts, Zenon
      <4>3. g[x][k] = Of(op, x, h[k])
        BY <2>3, Zenon
      <4> QED
        BY <4>1, <4>2, <4>3, Zenon
    <3>5. ASSUME NEW k \in 1 .. n - 1, g[x][k] = x PROVE FALSE
      <4>1. k \in 0 .. n /\ k \in 1 .. N /\ ~(n <= k)
        BY <1>1, <1>6
      <4>2. h[k] \in G /\ Of(op, x, h[k]) = x
        BY <2>3, <3>4, <3>5, <4>1, Zenon
      <4>3. Of(op, h[k], x) = Of(op, e, x)
        BY <3>1, <4>2, Zenon DEF IsGroup
      <4>4. h[k] = e
        BY <1>2, <4>2, <4>3, Cancel, Zenon
      <4> QED
        BY <1>6, <4>1, <4>4
    <3>6. ASSUME NEW k \in 0 .. n - 1 PROVE g[x][k + 1] = f[g[x][k]]
      <4>1. k \in 0 .. n /\ k + 1 \in 0 .. n /\ k \in 0 .. N - 1
        BY <1>1, <1>6
      <4>2. h[k] \in G /\ g[x][k] \in G /\ h[k + 1] = Of(op, h[k], p)
        BY <1>1, <3>4, <4>1
      <4>3. Of(op, Of(op, x, h[k]), p) = Of(op, x, Of(op, h[k], p))
        <5>1. \A u, v, w \in G : Of(op, Of(op, u, v), w) = Of(op, u, Of(op, v, w))
          BY Zenon DEF IsGroup
        <5>2. p \in G /\ h[k] \in G
          BY <1>1, <4>2, Zenon
        <5> QED
          BY <5>1, <5>2, Zenon
      <4>4. g[x][k] = Of(op, x, h[k]) /\ g[x][k + 1] = Of(op, x, h[k + 1])
        BY <2>3, <4>1, Zenon
      <4>5. f[g[x][k]] = Of(op, g[x][k], p)
        BY <2>1, <4>2, Zenon
      <4> QED
        BY <4>2, <4>3, <4>4, <4>5, Zenon
    <3> QED
      BY <3>3, <3>4, <3>5, <3>6
  <2> QED
    BY <1>7, <2>1, <2>2, <2>5, Zenon DEF Cycles
<1>9. PICK m \in Nat : N = n * m
  <2> HIDE DEF f, g
  <2> QED
    BY <1>2, <1>8, CyclesDivide DEF N
<1> HIDE DEF f, g
<1> DEFINE T == {t \in Nat : n * t <= N => h[n * t] = e}
<1>10. 0 \in T
  BY <1>1, <1>7
<1>11. ASSUME NEW t \in Nat, t \in T PROVE t + 1 \in T
  <2> SUFFICES ASSUME n * (t + 1) <= N PROVE h[n * (t + 1)] = e
    OBVIOUS
  <2>1. PICK u \in Nat : u = n * t
    BY <1>7
  <2>2. n * (t + 1) = u + n /\ u <= N /\ u + n <= N
    BY <1>1, <1>7, <2>1
  <2>3. h[u] = e
    BY <1>11, <2>1, <2>2
  <2>4. h[u + n] = Of(op, h[u], h[n])
    BY <1>3, <1>7, <2>2
  <2>5. Of(op, e, e) = e
    BY <1>2, Zenon DEF IsGroup
  <2> QED
    BY <1>6, <2>2, <2>3, <2>4, <2>5, Zenon
<1> HIDE DEF T
<1>12. \A t \in Nat : t \in T
  BY <1>10, <1>11, Induction
<1>13. h[n * m] = e
  <2>1. n * m <= N
    BY <1>1, <1>9
  <2> QED
    BY <1>12, <2>1 DEF T
<1> QED
  BY <1>9, <1>13 DEF N
=============================================================================
