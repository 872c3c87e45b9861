--------------------------- MODULE Ed25519Proofs ---------------------------
(***************************************************************************)
(* For every group order, hash function, encoding and layout of buffers:   *)
(* signatures made with a matching pair verify in both libraries, which    *)
(* agree with one another on everything.  The arithmetic modulo L and 8L   *)
(* comes first, one congruence at a time.                                  *)
(***************************************************************************)
EXTENDS Ed25519, SequenceTheorems, TLAPS

LEMMA ModFacts ==
  \A x \in Int, n \in Nat \ {0} :
    x % n \in 0 .. n - 1 /\ x \div n \in Int /\ x = (x \div n) * n + (x % n)
OBVIOUS

LEMMA ModUnique ==
  \A q \in Int, n \in Nat \ {0} : \A r \in 0 .. n - 1 : (q * n + r) % n = r
OBVIOUS

LEMMA IntRing ==
  \A x, y, z \in Int : /\ x * y \in Int
                       /\ x * y = y * x
                       /\ x * (y + z) = x * y + x * z
                       /\ x * (y - z) = x * y - x * z
OBVIOUS

LEMMA IntAssoc == \A x, y, z \in Int : x * (y * z) = (x * y) * z
OBVIOUS

\* Multiples of the modulus do not count.
LEMMA ModShift ==
  ASSUME NEW x \in Int, NEW q \in Int, NEW n \in Nat \ {0}
  PROVE  (x + q * n) % n = x % n
<1> DEFINE d == x \div n
           r == x % n
<1>1. d \in Int /\ r \in 0 .. n - 1 /\ x = d * n + r /\ d * n \in Int /\ q * n \in Int
  BY ModFacts, IntRing
<1>2. (d + q) * n = d * n + q * n /\ d + q \in Int
  BY <1>1, IntRing
<1>3. x + q * n = (d + q) * n + r
  <2> HIDE DEF d, r
  <2> QED BY <1>1, <1>2
<1>4. ((d + q) * n + r) % n = r
  <2> HIDE DEF d, r
  <2> QED BY <1>1, <1>2, ModUnique
<1> QED BY <1>3, <1>4

\* Numbers with the same remainder differ by a multiple of the modulus.
LEMMA ModEqual ==
  ASSUME NEW x \in Int, NEW y \in Int, NEW n \in Nat \ {0}, x % n = y % n
  PROVE  \E q \in Int : x = y + q * n
<1> DEFINE d == x \div n
           e == y \div n
           r == x % n
<1>1. /\ d \in Int /\ e \in Int /\ r \in 0 .. n - 1
      /\ x = d * n + r /\ y = e * n + r
      /\ d * n \in Int /\ e * n \in Int
  BY ModFacts, IntRing
<1>2. (d - e) * n = d * n - e * n /\ d - e \in Int
  BY <1>1, IntRing
<1>3. x = y + (d - e) * n
  <2> HIDE DEF d, e, r
  <2> QED BY <1>1, <1>2
<1> QED BY <1>2, <1>3

LEMMA Orders == L \in Nat \ {0} /\ N \in Nat \ {0} /\ E \in Nat \ {0}
BY GroupAssumption DEF N

\* Eight times a multiple of L is a multiple of 8L.
LEMMA EightTimes ==
  ASSUME NEW x \in Int, NEW y \in Int, NEW q \in Int, x = y + q * L
  PROVE  8 * x = 8 * y + q * N
<1>1. L \in Int /\ q * L \in Int /\ N = 8 * L
  BY Orders, IntRing DEF N
<1>2. q * N = 8 * (q * L)
  <2>1. q * (8 * L) = (q * 8) * L
    BY <1>1, IntAssoc
  <2>2. (8 * q) * L = 8 * (q * L)
    BY <1>1, IntAssoc
  <2>3. q * 8 = 8 * q
    BY IntRing
  <2> QED BY <1>1, <2>1, <2>2, <2>3
<1> DEFINE p == q * L
<1>3. p \in Int /\ x = y + p /\ q * N = 8 * p
  BY <1>1, <1>2
<1> HIDE DEF p
<1> QED BY <1>3

\* Reducing a scalar modulo L does not move a multiple of the base point.
LEMMA BaseMulMod ==
  ASSUME NEW x \in Nat
  PROVE  BaseMul(x % L) = BaseMul(x)
<1> DEFINE r == x % L
           q == x \div L
<1>1. r \in Nat /\ q \in Int /\ x = r + q * L
  <2>1. L \in Nat \ {0} /\ x \in Int
    BY Orders
  <2>2. r \in 0 .. L - 1 /\ q \in Int /\ x = q * L + r /\ q * L \in Int
    BY <2>1, ModFacts, IntRing
  <2> HIDE DEF r, q
  <2> QED BY <2>1, <2>2
<1> HIDE DEF r, q
<1>2. 8 * x = 8 * r + q * N
  BY <1>1, EightTimes
<1>3. 8 * r \in Int /\ N \in Nat \ {0}
  BY <1>1, Orders
<1>4. (8 * r + q * N) % N = (8 * r) % N
  BY <1>1, <1>3, ModShift
<1>5. BaseMul(r) = BaseMul(x)
  BY <1>2, <1>4 DEF BaseMul
<1> QED BY <1>5 DEF r

\* Two responses give the same point just when they agree modulo L.
LEMMA DoubleMulMod ==
  ASSUME NEW h \in Nat, NEW P \in Nat, NEW s \in Nat, NEW t \in Nat
  PROVE  DoubleMul(h, P, s) = DoubleMul(h, P, t) <=> s % L = t % L
<1> DEFINE hP == h * P
<1>0. hP \in Int /\ L \in Nat \ {0} /\ N \in Nat \ {0} /\ N = 8 * L
      /\ DoubleMul(h, P, s) = (hP + 8 * s) % N
      /\ DoubleMul(h, P, t) = (hP + 8 * t) % N
  BY IntRing, Orders DEF DoubleMul, N
<1> HIDE DEF hP
<1>1. ASSUME s % L = t % L PROVE (hP + 8 * s) % N = (hP + 8 * t) % N
  <2>0. s \in Int /\ t \in Int
    OBVIOUS
  <2>1. PICK q \in Int : s = t + q * L
    BY <1>0, <1>1, <2>0, ModEqual
  <2>2. 8 * s = 8 * t + q * N
    BY <2>1, EightTimes
  <2>3. hP + 8 * s = (hP + 8 * t) + q * N /\ hP + 8 * t \in Int
    <3>1. q * N \in Int
      BY <1>0, IntRing
    <3> QED BY <1>0, <2>2, <3>1
  <2>4. ((hP + 8 * t) + q * N) % N = (hP + 8 * t) % N
    BY <1>0, <2>3, ModShift
  <2> QED BY <2>3, <2>4
<1>2. ASSUME (hP + 8 * s) % N = (hP + 8 * t) % N PROVE s % L = t % L
  <2>1. hP + 8 * s \in Int /\ hP + 8 * t \in Int
    BY <1>0
  <2>2. PICK q \in Int : hP + 8 * s = (hP + 8 * t) + q * N
    BY <1>0, <1>2, <2>1, ModEqual
  <2>3. q * N = 8 * (q * L) /\ q * L \in Int
    <3>1. 8 * (q * L) = 8 * 0 + q * N
      <4>1. q * L \in Int /\ q * L = 0 + q * L
        BY <1>0, IntRing
      <4> QED BY <4>1, EightTimes
    <3> QED BY <1>0, <3>1, IntRing
  <2> DEFINE p == q * L
  <2>4. p \in Int /\ hP + 8 * s = hP + 8 * t + 8 * p
    BY <2>2, <2>3
  <2>5. s = t + p
    <3> HIDE DEF p
    <3> QED BY <1>0, <2>4
  <2>6. (t + q * L) % L = t % L
    <3>1. t \in Int
      OBVIOUS
    <3> QED BY <1>0, <3>1, ModShift
  <2> QED BY <2>5, <2>6
<1> QED BY <1>0, <1>1, <1>2

\* The equation verification checks holds of what signing computes: with secret
\* scalar a, nonce r and hash h, [h](-[a]B) + [h a + r]B = [r]B.
LEMMA SigningEquation ==
  ASSUME NEW a \in Nat, NEW h \in Nat, NEW r \in Nat
  PROVE  DoubleMul(h, Negate(BaseMul(a)), (h * a + r) % L) = BaseMul(r)
<1> DEFINE A == BaseMul(a)
           M == Negate(A)
           s == h * a + r
           ha == h * a
<1>0. L \in Nat \ {0} /\ N \in Nat \ {0} /\ N \in Int
  BY Orders
<1>1. ha \in Nat /\ s = ha + r /\ s \in Nat
  <2>1. ha \in Nat
    OBVIOUS
  <2> QED BY <2>1
\* 8 a = u N + A and N - A = v N + M
<1>2. A \in 0 .. N - 1 /\ \E u \in Int : 8 * a = u * N + A
  <2>1. 8 * a \in Int /\ A = (8 * a) % N
    BY DEF BaseMul
  <2> DEFINE x == 8 * a
  <2> HIDE DEF x, A
  <2>2. x % N \in 0 .. N - 1 /\ x \div N \in Int /\ x = (x \div N) * N + (x % N)
    BY <1>0, <2>1, ModFacts DEF x
  <2> QED BY <2>1, <2>2 DEF x
<1>3. PICK u \in Int : 8 * a = u * N + A
  BY <1>2
<1> HIDE DEF A
<1>4. M \in 0 .. N - 1 /\ \E v \in Int : N - A = v * N + M
  <2>1. N - A \in Int /\ M = (N - A) % N
    BY <1>0, <1>2 DEF Negate
  <2> DEFINE x == N - A
  <2> HIDE DEF x, M
  <2>2. x % N \in 0 .. N - 1 /\ x \div N \in Int /\ x = (x \div N) * N + (x % N)
    BY <1>0, <2>1, ModFacts DEF x
  <2> QED BY <2>1, <2>2 DEF x
<1>5. PICK v \in Int : N - A = v * N + M
  BY <1>4
<1> HIDE DEF M
\* h M + 8 (h a + r) = 8 r + (h (1 + u - v)) N
<1>6. h * M + 8 * s = 8 * r + (h * (1 + u - v)) * N
  <2> DEFINE w == 1 + u - v
  <2>1. M = w * N - 8 * a /\ w \in Int
    <3>1. w * N = N + u * N - v * N
      <4>1. N * w = N * (1 + u) - N * v /\ N * (1 + u) = N * 1 + N * u
        BY <1>0, IntRing
      <4>2. N * w = w * N /\ N * u = u * N /\ N * v = v * N /\ N * 1 = N
        BY <1>0, IntRing
      <4>3. N * u \in Int /\ N * v \in Int
        BY <1>0, IntRing
      <4> DEFINE Nu == N * u  Nv == N * v
      <4>4. Nu \in Int /\ Nv \in Int /\ N * w = (N + Nu) - Nv
        BY <4>1, <4>2, <4>3
      <4> HIDE DEF w, Nu, Nv
      <4>5. N * w = N + Nu - Nv
        BY <1>0, <4>4
      <4> QED BY <4>2, <4>5 DEF Nu, Nv
    <3>2. u * N \in Int /\ v * N \in Int
      BY <1>0, IntRing
    <3> QED BY <1>0, <1>2, <1>3, <1>4, <1>5, <3>1, <3>2
  <2> HIDE DEF w
  <2>2. w * N \in Int /\ 8 * a \in Int /\ h \in Int
    BY <1>0, <2>1, IntRing
  <2>3. h * M = h * (w * N) - h * (8 * a)
    BY <2>1, <2>2, IntRing
  <2>4. h * (w * N) = (h * w) * N
    BY <1>0, <2>1, <2>2, IntAssoc
  <2>5. h * (8 * a) = 8 * ha
    <3>1. h * (8 * a) = (h * 8) * a /\ 8 * (h * a) = (8 * h) * a /\ h * 8 = 8 * h
      BY IntAssoc, IntRing
    <3> QED BY <3>1
  <2>6. h * w \in Int /\ (h * w) * N \in Int
    BY <1>0, <2>1, <2>2, IntRing
  <2> DEFINE x == (h * w) * N
  <2>7. x \in Int /\ h * M = x - 8 * ha
    BY <2>3, <2>4, <2>5, <2>6
  <2> HIDE DEF ha, s, x
  <2>8. h * M + 8 * s = 8 * r + x
    BY <1>1, <2>7
  <2> QED BY <2>8 DEF x, w
<1>7. DoubleMul(h, M, s) = BaseMul(r)
  <2>1. h * (1 + u - v) \in Int /\ 8 * r \in Int
    BY IntRing
  <2>2. (8 * r + (h * (1 + u - v)) * N) % N = (8 * r) % N
    BY <1>0, <2>1, ModShift
  <2>3. DoubleMul(h, M, s) = (h * M + 8 * s) % N
    BY IntRing, <1>1 DEF DoubleMul
  <2> QED BY <1>6, <2>2, <2>3 DEF BaseMul
<1>8. s % L \in Nat /\ (s % L) % L = s % L
  <2>1. \A x \in Nat : x % L \in Nat /\ (x % L) % L = x % L
    <3> SUFFICES ASSUME NEW x \in Nat PROVE x % L \in Nat /\ (x % L) % L = x % L
      OBVIOUS
    <3>1. x % L \in 0 .. L - 1
      BY <1>0, ModFacts
    <3>2. (0 * L + (x % L)) % L = x % L
      BY <1>0, <3>1, ModUnique
    <3> DEFINE y == x % L
    <3>3. y \in 0 .. L - 1 /\ (0 * L + y) % L = y /\ 0 * L = 0
      BY <1>0, <3>1, <3>2
    <3> HIDE DEF y
    <3>4. y \in Nat /\ y % L = y
      BY <1>0, <3>3
    <3> QED BY <3>4 DEF y
  <2> HIDE DEF s
  <2> QED BY <1>1, <2>1
<1>9. DoubleMul(h, M, s % L) = DoubleMul(h, M, s)
  <2>1. M \in Nat
    BY <1>0, <1>4
  <2> HIDE DEF s
  <2> QED BY <1>1, <1>8, <2>1, DoubleMulMod
<1> QED BY <1>7, <1>9 DEF M, A

-----------------------------------------------------------------------------
LEMMA SmallMod ==
  ASSUME NEW n \in Nat \ {0}, NEW x \in 0 .. n - 1
  PROVE  x % n = x
<1>1. (0 * n + x) % n = x /\ 0 * n = 0
  BY ModUnique
<1> QED BY <1>1

\* One step of sc25519_from32bytes keeps the residue.
LEMMA SubtractKeeps ==
  ASSUME NEW x \in Nat, NEW j \in Nat
  PROVE  /\ SubtractIfFits(x, j * L) \in Nat
         /\ SubtractIfFits(x, j * L) % L = x % L
<1>0. L \in Nat \ {0} /\ j * L \in Nat
  <2>1. L \in Nat \ {0}
    BY Orders
  <2>2. \A a, b \in Nat : a * b \in Nat
    OBVIOUS
  <2> QED BY <2>1, <2>2
<1> DEFINE c == j * L
<1>1. CASE x >= c
  <2>1. x - c \in Nat
    BY <1>0, <1>1
  <2>2. x = (x - c) + j * L
    <3>1. c \in Int
      BY <1>0
    <3> HIDE DEF c
    <3>2. x = (x - c) + c
      BY <3>1
    <3> QED BY <3>2 DEF c
  <2>3. ((x - c) + j * L) % L = (x - c) % L
    <3>1. x - c \in Int /\ j \in Int
      BY <2>1
    <3> HIDE DEF c
    <3> QED BY <1>0, <3>1, ModShift
  <2>4. SubtractIfFits(x, c) = x - c
    BY <1>1 DEF SubtractIfFits
  <2> HIDE DEF c
  <2> QED BY <2>1, <2>2, <2>3, <2>4 DEF c
<1>2. CASE ~(x >= c)
  BY <1>2 DEF SubtractIfFits
<1> QED BY <1>1, <1>2

\* sc25519_from32bytes reduces every word: the four subtractions suffice.
LEMMA Reduce32Correct ==
  ASSUME NEW w \in Words
  PROVE  Reduce32(w) = w % L
<1> DEFINE x3 == SubtractIfFits(w, 8 * L)
           x2 == SubtractIfFits(x3, 4 * L)
           x1 == SubtractIfFits(x2, 2 * L)
           x0 == SubtractIfFits(x1, 1 * L)
<1>0. w \in Nat /\ w < 16 * L /\ L \in Nat \ {0} /\ 1 * L = L
  BY GroupAssumption DEF Words
<1>1. x3 \in Nat /\ x3 % L = w % L
  BY <1>0, SubtractKeeps
<1>2. x2 \in Nat /\ x2 % L = x3 % L
  <2> HIDE DEF x3
  <2> QED BY <1>1, SubtractKeeps
<1>3. x1 \in Nat /\ x1 % L = x2 % L
  <2> HIDE DEF x2
  <2> QED BY <1>2, SubtractKeeps
<1>4. x0 \in Nat /\ x0 % L = x1 % L
  <2> HIDE DEF x1
  <2> QED BY <1>3, SubtractKeeps
<1>5. x0 < L
  <2>1. x3 < 8 * L
    BY <1>0 DEF SubtractIfFits
  <2>2. x2 < 4 * L
    <3> HIDE DEF x3
    <3> QED BY <1>0, <1>1, <2>1 DEF SubtractIfFits
  <2>3. x1 < 2 * L
    <3> HIDE DEF x2
    <3> QED BY <1>0, <1>2, <2>2 DEF SubtractIfFits
  <2> HIDE DEF x1
  <2> QED BY <1>0, <1>3, <2>3 DEF SubtractIfFits
<1>6. x0 % L = x0
  <2> HIDE DEF x0
  <2> QED BY <1>0, <1>4, <1>5, SmallMod
<1>7. Reduce32(w) = x0
  BY <1>0 DEF Reduce32
<1> HIDE DEF x0, x1, x2, x3
<1> QED BY <1>1, <1>2, <1>3, <1>4, <1>6, <1>7

\* The two masks of the top byte give the same scalar, since bit 254 is set after.
LEMMA ClampAgrees ==
  ASSUME NEW w \in Words
  PROVE  Clamp("ref10", w) = Clamp("amd64", w) /\ Clamp("ref10", w) \in Words
<1> DEFINE c == ClearLow3(w)
<1>1. E \in Nat \ {0} /\ 2 * E \in Nat \ {0} /\ 4 * E \in Nat \ {0}
  BY Orders
<1>2. c \in 0 .. 8 * E - 1
  <2>1. w \in Nat /\ w % 8 \in 0 .. 7 /\ w = (w \div 8) * 8 + (w % 8) /\ w \div 8 \in Int
    BY <1>1, ModFacts DEF Words
  <2> DEFINE d == w \div 8  e == w % 8
  <2>2. c = d * 8 /\ d \in Int /\ e \in 0 .. 7 /\ w = d * 8 + e
    BY <2>1 DEF ClearLow3
  <2> HIDE DEF d, e, c
  <2> QED BY <1>1, <2>1, <2>2 DEF Words
<1> HIDE DEF c
\* c = 2 E q + t
<1>3. PICK q \in 0 .. 3 : \E t \in 0 .. 2 * E - 1 : c = q * (2 * E) + t
  <2>1. CASE c < 2 * E
    BY <1>1, <1>2, <2>1
  <2>2. CASE 2 * E <= c /\ c < 4 * E
    <3>1. c - 2 * E \in 0 .. 2 * E - 1 /\ c = 1 * (2 * E) + (c - 2 * E)
      BY <1>1, <1>2, <2>2
    <3> QED BY <3>1
  <2>3. CASE 4 * E <= c /\ c < 6 * E
    <3>1. c - 4 * E \in 0 .. 2 * E - 1 /\ c = 2 * (2 * E) + (c - 4 * E)
      BY <1>1, <1>2, <2>3
    <3> QED BY <3>1
  <2>4. CASE 6 * E <= c
    <3>1. c - 6 * E \in 0 .. 2 * E - 1 /\ c = 3 * (2 * E) + (c - 6 * E)
      BY <1>1, <1>2, <2>4
    <3> QED BY <3>1
  <2> QED BY <1>1, <1>2, <2>1, <2>2, <2>3, <2>4
<1>4. PICK t \in 0 .. 2 * E - 1 : c = q * (2 * E) + t
  BY <1>3
<1>5. c % (2 * E) = t
  BY <1>1, <1>4, ModUnique
<1>6. c % (4 * E) = IF q \in {0, 2} THEN t ELSE t + 2 * E
  <2>1. CASE q = 0
    <3>1. c = 0 * (4 * E) + t /\ t \in 0 .. 4 * E - 1
      BY <1>1, <1>4, <2>1
    <3> QED BY <1>1, <2>1, <3>1, ModUnique
  <2>2. CASE q = 1
    <3>1. c = 0 * (4 * E) + (t + 2 * E) /\ t + 2 * E \in 0 .. 4 * E - 1
      BY <1>1, <1>4, <2>2
    <3> QED BY <1>1, <2>2, <3>1, ModUnique
  <2>3. CASE q = 2
    <3>1. c = 1 * (4 * E) + t /\ t \in 0 .. 4 * E - 1
      BY <1>1, <1>4, <2>3
    <3> QED BY <1>1, <2>3, <3>1, ModUnique
  <2>4. CASE q = 3
    <3>1. c = 1 * (4 * E) + (t + 2 * E) /\ t + 2 * E \in 0 .. 4 * E - 1
      BY <1>1, <1>4, <2>4
    <3> QED BY <1>1, <2>4, <3>1, ModUnique
  <2> QED BY <2>1, <2>2, <2>3, <2>4
<1>7. SetBit254(t) = t + 2 * E /\ SetBit254(t + 2 * E) = t + 2 * E
  <2>1. t % (4 * E) = t
    <3>1. t \in 0 .. 4 * E - 1
      BY <1>1
    <3> QED BY <1>1, <3>1, SmallMod
  <2>2. (t + 2 * E) % (4 * E) = t + 2 * E
    <3>1. t + 2 * E \in 0 .. 4 * E - 1
      BY <1>1
    <3> QED BY <1>1, <3>1, SmallMod
  <2>3. ~(t >= 2 * E) /\ t + 2 * E >= 2 * E
    BY <1>1
  <2> QED BY <2>1, <2>2, <2>3 DEF SetBit254
<1>8. Clamp("ref10", w) = t + 2 * E
  BY <1>5, <1>7 DEF Clamp, KeepBits, c
<1>9. Clamp("amd64", w) = t + 2 * E
  <2>1. CASE q \in {0, 2}
    BY <1>6, <1>7, <2>1 DEF Clamp, KeepBits, c
  <2>2. CASE q \notin {0, 2}
    BY <1>6, <1>7, <2>2 DEF Clamp, KeepBits, c
  <2> QED BY <2>1, <2>2
<1>10. t + 2 * E \in Words
  BY <1>1 DEF Words
<1> QED BY <1>8, <1>9, <1>10

LEMMA DigestParts ==
  ASSUME NEW x \in Digests
  PROVE  Low(x) \in Words /\ High(x) \in Words
<1> DEFINE W == 8 * E
           h == x \div W
<1>1. W \in Nat \ {0} /\ x \in Nat /\ x < W * W
  <2>1. E \in Nat \ {0} /\ x \in Nat /\ x < 64 * E * E
    BY Orders DEF Digests
  <2>2. 64 * E * E = W * W
    BY <2>1
  <2> QED BY <2>1, <2>2
<1> HIDE DEF W
<1>2. x % W \in 0 .. W - 1 /\ h \in Int /\ x = h * W + (x % W) /\ h * W \in Int
  BY <1>1, ModFacts, IntRing
<1> HIDE DEF h
<1>3. h >= 0
  <2>1. h <= -1 => h * W <= (-1) * W
    BY <1>1, <1>2
  <2> QED BY <1>1, <1>2, <2>1
<1>4. h < W
  <2>1. h >= W => h * W >= W * W
    BY <1>1, <1>2
  <2> QED BY <1>1, <1>2, <2>1
<1> QED BY <1>1, <1>2, <1>3, <1>4 DEF Low, High, Words, W, h

-----------------------------------------------------------------------------
\* The secret scalar of amd64 is that of ref10, reduced.
LEMMA SecretScalarFacts ==
  ASSUME NEW sk \in Words
  PROVE  /\ SecretScalar("ref10", sk) \in Nat
         /\ SecretScalar("amd64", sk) = SecretScalar("ref10", sk) % L
         /\ High(Hash(<<sk>>)) \in Words
<1>1. Hash(<<sk>>) \in Digests
  BY HashAssumption
<1> DEFINE w == Low(Hash(<<sk>>))
<1>2. w \in Words /\ High(Hash(<<sk>>)) \in Words
  BY <1>1, DigestParts
<1> HIDE DEF w
<1>3. Clamp("ref10", w) \in Words /\ Clamp("amd64", w) = Clamp("ref10", w)
  BY <1>2, ClampAgrees
<1>4. SecretScalar("ref10", sk) = Clamp("ref10", w)
  BY DEF SecretScalar, ScalarOf, w
<1>5. SecretScalar("amd64", sk) = Reduce32(Clamp("ref10", w))
  BY <1>3 DEF SecretScalar, ScalarOf, w
<1>6. Clamp("ref10", w) \in Nat
  BY <1>3, Orders DEF Words
<1> QED BY <1>2, <1>3, <1>4, <1>5, <1>6, Reduce32Correct

\* Points have one encoding that the code writes, and it decodes to them.
LEMMA CodecFacts ==
  ASSUME NEW P \in Points
  PROVE  /\ Encode(P) \in Words
         /\ Decode(Encode(P)) = P
         /\ Decode(Encode(P)) # NoPoint
BY CodecAssumption DEF Points, NoPoint

LEMMA PointFacts ==
  /\ \A x \in Nat : BaseMul(x) \in Points
  /\ \A P \in Points : Negate(P) \in Points
  /\ \A h, P, s \in Nat : DoubleMul(h, P, s) \in Points
<1>1. N \in Nat \ {0}
  BY Orders
<1>2. \A x \in Int : x % N \in Points
  BY <1>1, ModFacts DEF Points
<1>3. ASSUME NEW x \in Nat PROVE BaseMul(x) \in Points
  BY <1>2 DEF BaseMul
<1>4. ASSUME NEW P \in Points PROVE Negate(P) \in Points
  <2>1. N - P \in Int
    BY <1>1 DEF Points
  <2> QED BY <1>2, <2>1 DEF Negate
<1>5. ASSUME NEW h \in Nat, NEW P \in Nat, NEW s \in Nat
      PROVE  DoubleMul(h, P, s) \in Points
  <2>1. h * P \in Int
    BY IntRing
  <2>2. h * P + s * 8 \in Int
    <3> DEFINE hP == h * P
    <3>1. hP \in Int
      BY <2>1
    <3> HIDE DEF hP
    <3>2. hP + s * 8 \in Int
      BY <3>1
    <3> QED BY <3>2 DEF hP
  <2> QED BY <1>2, <2>2 DEF DoubleMul
<1> QED BY <1>3, <1>4, <1>5

\* "For every private key there is exactly one possible public key" (ed25519.h:37).
LEMMA OnePublicKey ==
  ASSUME NEW sk \in Words, NEW impl \in Impls
  PROVE  /\ PublicKey(impl, sk) = Encode(BaseMul(SecretScalar("ref10", sk)))
         /\ PublicKey(impl, sk) = Encode(BaseMul(SecretScalar(impl, sk)))
         /\ PublicKey(impl, sk) \in Words
         /\ SecretScalar(impl, sk) \in Nat
         /\ SecretScalar(impl, sk) % L = SecretScalar("ref10", sk) % L
<1> DEFINE a == SecretScalar("ref10", sk)
<1>1. a \in Nat /\ SecretScalar("amd64", sk) = a % L
  BY SecretScalarFacts
<1> HIDE DEF a
<1>2. BaseMul(a % L) = BaseMul(a)
  BY <1>1, BaseMulMod
<1>3. a % L \in 0 .. L - 1 /\ L \in Nat \ {0}
  BY <1>1, Orders, ModFacts
<1>4. (a % L) % L = a % L
  <2> DEFINE r == a % L
  <2> HIDE DEF r
  <2>1. r \in 0 .. L - 1
    BY <1>3 DEF r
  <2>2. r % L = r
    BY <1>3, <2>1, SmallMod
  <2> QED BY <2>2 DEF r
<1>5. Encode(BaseMul(a)) \in Words
  BY <1>1, PointFacts, CodecFacts
<1>6. CASE impl = "ref10"
  BY <1>1, <1>5, <1>6 DEF PublicKey, a
<1>7. CASE impl = "amd64"
  <2>1. SecretScalar(impl, sk) = a % L /\ a % L \in Nat
    BY <1>1, <1>3, <1>7
  <2> QED BY <1>2, <1>4, <1>5, <2>1 DEF PublicKey, a
<1> QED BY <1>6, <1>7 DEF Impls

LEMMA Slots ==
  /\ \A sk \in SkAt : sk \in Addresses
  /\ \A pk \in PkAt : pk \in Addresses
  /\ \A sig \in SigAt : sig \in Addresses /\ sig + 1 \in Addresses /\ sig # sig + 1
  /\ \A sig \in SigAt, a \in SkAt \cup PkAt : a # sig /\ a # sig + 1
  /\ \A sk \in SkAt, pk \in PkAt : sk # pk
  /\ \A msg \in MsgAt, n \in MsgLens : MsgCells(msg, n) \subseteq Addresses
<1>1. ASSUME NEW sig \in SigAt PROVE sig \in Addresses /\ sig + 1 \in Addresses /\ sig # sig + 1
  <2>1. sig \in SigCells(sig) /\ sig + 1 \in SigCells(sig)
    BY DEF SigCells
  <2>2. SigCells(sig) \subseteq Addresses
    BY DEF Addresses
  <2>3. sig \in Nat
    BY LayoutAssumption
  <2> QED BY <2>1, <2>2, <2>3
<1>2. ASSUME NEW sig \in SigAt, NEW a \in SkAt \cup PkAt PROVE a # sig /\ a # sig + 1
  BY LayoutAssumption DEF SigCells
<1>3. \A sk \in SkAt, pk \in PkAt : sk # pk
  BY LayoutAssumption
<1>4. \A a \in SkAt \cup PkAt : a \in Addresses
  BY DEF Addresses
<1>5. \A msg \in MsgAt, n \in MsgLens : MsgCells(msg, n) \subseteq Addresses
  BY DEF Addresses
<1> QED BY <1>1, <1>2, <1>3, <1>4, <1>5

LEMMA TextType ==
  ASSUME NEW m \in [Addresses -> Words], NEW msg \in MsgAt, NEW n \in MsgLens
  PROVE  Text(m, msg, n) \in Texts
<1>1. msg \in Nat /\ n \in Nat
  BY LayoutAssumption
<1>2. ASSUME NEW i \in 1 .. n PROVE m[msg + i - 1] \in Words
  <2>1. msg + i - 1 \in MsgCells(msg, n)
    BY <1>1 DEF MsgCells
  <2> QED BY <2>1, Slots
<1> QED BY <1>2 DEF Text, Texts

LEMMA Reduce64Type ==
  ASSUME NEW x \in Digests
  PROVE  Reduce64(x) \in 0 .. L - 1 /\ Reduce64(x) \in Nat
<1>1. x \in Int /\ L \in Nat \ {0}
  BY Orders DEF Digests
<1> QED BY <1>1, ModFacts DEF Reduce64

LEMMA HramType ==
  ASSUME NEW m \in [Addresses -> Words], NEW sig \in SigAt,
         NEW msg \in MsgAt, NEW n \in MsgLens, NEW pk \in PkAt
  PROVE  Hram(m, sig, msg, n, pk) \in Nat
<1>1. m[sig] \in Words /\ m[pk] \in Words
  BY Slots
<1>2. Hash(<<m[sig], m[pk]>> \o Text(m, msg, n)) \in Digests
  BY <1>1, TextType, HashAssumption
<1> QED BY <1>2, Reduce64Type DEF Hram

\* Verification reads its buffers and nothing else.
LEMMA VerifiesLocally ==
  ASSUME NEW m, NEW k, NEW sig \in SigAt, NEW msg \in MsgAt, NEW n \in MsgLens,
         NEW pk \in PkAt, NEW impl,
         m[sig] = k[sig], m[pk] = k[pk],
         \A a \in MsgCells(msg, n) : m[a] = k[a]
  PROVE  /\ Hram(m, sig, msg, n, pk) = Hram(k, sig, msg, n, pk)
         /\ m[sig + 1] = k[sig + 1] =>
              (Verifies(impl, m, sig, msg, n, pk) <=> Verifies(impl, k, sig, msg, n, pk))
<1>1. ASSUME NEW i \in 1 .. n PROVE m[msg + i - 1] = k[msg + i - 1]
  <2>1. msg + i - 1 \in MsgCells(msg, n)
    BY LayoutAssumption DEF MsgCells
  <2> QED BY <2>1
<1>2. Text(m, msg, n) = Text(k, msg, n)
  BY <1>1 DEF Text
<1>3. Hram(m, sig, msg, n, pk) = Hram(k, sig, msg, n, pk)
  BY <1>2 DEF Hram
<1> QED BY <1>3 DEF Verifies

\* Signing with the reduced scalar gives the same response.
LEMMA ResponseMod ==
  ASSUME NEW h \in Nat, NEW r \in Nat, NEW a \in Nat, NEW b \in Nat, a % L = b % L
  PROVE  (h * a + r) % L = (h * b + r) % L
<1>0. L \in Nat \ {0} /\ a \in Int /\ b \in Int /\ h \in Int
  BY Orders
<1>1. PICK q \in Int : a = b + q * L
  BY <1>0, ModEqual
<1>2. h * a = h * b + (h * q) * L
  <2>1. q * L \in Int
    BY <1>0, IntRing
  <2>2. h * a = h * b + h * (q * L)
    BY <1>0, <1>1, <2>1, IntRing
  <2>3. h * (q * L) = (h * q) * L
    BY <1>0, IntAssoc
  <2> QED BY <2>2, <2>3
<1>3. h * b \in Int /\ h * q \in Int /\ (h * q) * L \in Int
  BY <1>0, IntRing
<1> DEFINE x == h * a  y == h * b  z == (h * q) * L
<1>4. y \in Int /\ z \in Int /\ x = y + z
  BY <1>2, <1>3
<1>5. x + r = (y + r) + z /\ y + r \in Int
  <2> HIDE DEF x, y, z
  <2> QED BY <1>4
<1>6. ((y + r) + (h * q) * L) % L = (y + r) % L
  <2> HIDE DEF y
  <2> QED BY <1>0, <1>3, <1>5, ModShift
<1> QED BY <1>5, <1>6

\* What ed25519_sign leaves in memory.
LEMMA SignedFacts ==
  ASSUME NEW m \in [Addresses -> Words], NEW impl \in Impls, NEW sig \in SigAt,
         NEW msg \in MsgAt, NEW n \in MsgLens, NEW pk \in PkAt, NEW sk \in SkAt
  PROVE  LET m2 == Signed(impl, m, sig, msg, n, pk, sk)
         IN  /\ m2 \in [Addresses -> Words]
             /\ m2[sig + 1] \in 0 .. L - 1
             /\ \A a \in Addresses \ SigCells(sig) : m2[a] = m[a]
             /\ m2 = Signed("ref10", m, sig, msg, n, pk, sk)
             /\ SigCells(sig) \cap MsgCells(msg, n) = {}
                /\ m[pk] = PublicKey(impl, m[sk])
                  => \E h, r \in Nat :
                       /\ h = Hram(m2, sig, msg, n, pk)
                       /\ m2[sig] = Encode(BaseMul(r))
                       /\ m2[sig + 1] = (h * SecretScalar(impl, m[sk]) + r) % L
<1> DEFINE nonce == Reduce64(Hash(<<High(Hash(<<m[sk]>>))>> \o Text(m, msg, n)))
           withR == [m EXCEPT ![sig] = Encode(BaseMul(nonce))]
           hram  == Hram(withR, sig, msg, n, pk)
           a     == SecretScalar(impl, m[sk])
           s     == (hram * a + nonce) % L
           m2    == [withR EXCEPT ![sig + 1] = s]
<1>0. /\ m[sk] \in Words /\ sig \in Addresses /\ sig + 1 \in Addresses /\ sig # sig + 1
      /\ pk \in Addresses /\ pk # sig /\ pk # sig + 1
  BY Slots
<1>1. nonce \in Nat
  <2>1. Hash(<<High(Hash(<<m[sk]>>))>> \o Text(m, msg, n)) \in Digests
    BY <1>0, SecretScalarFacts, TextType, HashAssumption
  <2> QED BY <2>1, Reduce64Type
<1>2. withR \in [Addresses -> Words]
  <2>1. Encode(BaseMul(nonce)) \in Words
    <3> HIDE DEF nonce
    <3> QED BY <1>1, PointFacts, CodecFacts
  <2> HIDE DEF nonce
  <2> QED BY <2>1
<1>3. hram \in Nat
  <2> HIDE DEF withR
  <2> QED BY <1>2, HramType
<1>4. a \in Nat /\ a % L = SecretScalar("ref10", m[sk]) % L
      /\ SecretScalar("ref10", m[sk]) \in Nat
  BY <1>0, OnePublicKey, SecretScalarFacts
<1>5. s \in 0 .. L - 1 /\ s \in Words
  <2> HIDE DEF hram, a, nonce
  <2>1. \A x, y, z \in Nat : (x * y + z) \in Nat
    OBVIOUS
  <2>2. hram * a + nonce \in Int
    BY <1>1, <1>3, <1>4, <2>1
  <2>3. L \in Nat \ {0} /\ E \in Nat /\ L < E
    BY GroupAssumption
  <2>4. s \in 0 .. L - 1
    <3> DEFINE x == hram * a + nonce
    <3> HIDE DEF x
    <3>1. x \in Int
      BY <2>2 DEF x
    <3>2. x % L \in 0 .. L - 1
      BY <2>3, <3>1, ModFacts
    <3> QED BY <3>2 DEF x
  <2> HIDE DEF s
  <2> QED BY <2>3, <2>4 DEF Words
<1>6. m2 = Signed(impl, m, sig, msg, n, pk, sk)
  BY DEF Signed, MulAdd
<1>7. m2 = Signed("ref10", m, sig, msg, n, pk, sk)
  <2>1. s = (hram * SecretScalar("ref10", m[sk]) + nonce) % L
    <3> HIDE DEF hram, nonce, a
    <3> QED BY <1>1, <1>3, <1>4, ResponseMod
  <2> HIDE DEF s
  <2> QED BY <2>1 DEF Signed, MulAdd
<1>8. /\ m2 \in [Addresses -> Words] /\ m2[sig + 1] = s
      /\ m2[sig] = Encode(BaseMul(nonce))
      /\ \A c \in Addresses \ SigCells(sig) : m2[c] = m[c]
      /\ \A c \in Addresses : c # sig + 1 => m2[c] = withR[c]
  <2> HIDE DEF s, nonce
  <2>1. m2 \in [Addresses -> Words] /\ m2[sig + 1] = s
    <3> HIDE DEF withR
    <3> QED BY <1>0, <1>2, <1>5
  <2>2. m2[sig] = Encode(BaseMul(nonce))
    BY <1>0
  <2>3. \A c \in Addresses : c # sig + 1 => m2[c] = withR[c]
    <3> HIDE DEF withR
    <3> QED BY <1>0, <1>2
  <2>4. \A c \in Addresses : c # sig => withR[c] = m[c]
    BY <1>0
  <2>5. \A c \in Addresses \ SigCells(sig) : c # sig /\ c # sig + 1
    BY DEF SigCells
  <2> HIDE DEF m2, withR
  <2> QED BY <2>1, <2>2, <2>3, <2>4, <2>5
<1>9. ASSUME SigCells(sig) \cap MsgCells(msg, n) = {}
      PROVE  hram = Hram(m2, sig, msg, n, pk)
  <2> HIDE DEF withR, m2
  <2>1. \A c \in MsgCells(msg, n) : m2[c] = withR[c]
    <3>1. \A c \in MsgCells(msg, n) : c \in Addresses /\ c # sig + 1
      BY <1>9, Slots DEF SigCells
    <3> QED BY <1>8, <3>1
  <2>2. m2[sig] = withR[sig] /\ m2[pk] = withR[pk]
    BY <1>0, <1>8
  <2> QED BY <2>1, <2>2, VerifiesLocally
<1> HIDE DEF m2, hram, nonce, a
<1>10. m2 = Signed(impl, m, sig, msg, n, pk, sk) /\ s = (hram * a + nonce) % L
       /\ a = SecretScalar(impl, m[sk])
  BY <1>6 DEF a
<1> HIDE DEF s
<1>11. SigCells(sig) \cap MsgCells(msg, n) = {} =>
         \E h, r \in Nat : /\ h = Hram(m2, sig, msg, n, pk)
                           /\ m2[sig] = Encode(BaseMul(r))
                           /\ m2[sig + 1] = (h * a + r) % L
  BY <1>1, <1>3, <1>8, <1>9, <1>10
<1> QED BY <1>5, <1>7, <1>8, <1>10, <1>11

\* A response below L is the scalar both libraries compute with.
LEMMA SmallScalar ==
  ASSUME NEW x \in 0 .. L - 1, NEW impl \in Impls
  PROVE  x \in Words /\ x < E /\ x \in Nat /\ x % L = x /\ ScalarOf(impl, x) = x
<1>1. L \in Nat \ {0} /\ E \in Nat /\ L < E
  BY GroupAssumption
<1>2. x \in Words /\ x < E /\ x \in Nat
  BY <1>1 DEF Words
<1>3. x % L = x
  BY <1>1, SmallMod
<1>4. Reduce32(x) = x
  BY <1>2, <1>3, Reduce32Correct
<1> QED BY <1>2, <1>3, <1>4 DEF ScalarOf

\* What is signed with a matching pair verifies, in either library.
LEMMA SignedThenVerified ==
  ASSUME NEW m \in [Addresses -> Words], NEW impl \in Impls, NEW sig \in SigAt,
         NEW msg \in MsgAt, NEW n \in MsgLens, NEW pk \in PkAt, NEW sk \in SkAt,
         SigCells(sig) \cap MsgCells(msg, n) = {},
         m[pk] = PublicKey(impl, m[sk]),
         NEW other \in Impls
  PROVE  Verifies(other, Signed(impl, m, sig, msg, n, pk, sk), sig, msg, n, pk)
<1> DEFINE m2 == Signed(impl, m, sig, msg, n, pk, sk)
           a  == SecretScalar(impl, m[sk])
<1>1. PICK h \in Nat, r \in Nat : /\ h = Hram(m2, sig, msg, n, pk)
                                  /\ m2[sig] = Encode(BaseMul(r))
                                  /\ m2[sig + 1] = (h * a + r) % L
  BY SignedFacts
<1>2. m2[sig + 1] \in 0 .. L - 1
  BY SignedFacts
<1>3. m2[pk] = m[pk]
  <2>1. pk \in Addresses \ SigCells(sig)
    BY Slots DEF SigCells
  <2> QED BY <2>1, SignedFacts
<1>4. m[sk] \in Words
  BY Slots
<1>5. a \in Nat /\ m[pk] = Encode(BaseMul(a))
  BY <1>4, OnePublicKey
<1> HIDE DEF m2, a
<1>6. Decode(m2[pk]) = BaseMul(a) /\ Decode(m2[pk]) # NoPoint
  BY <1>3, <1>5, PointFacts, CodecFacts
<1>7. m2[sig + 1] < E /\ ScalarOf(other, m2[sig + 1]) = m2[sig + 1]
  BY <1>2, SmallScalar
<1>8. DoubleMul(h, Negate(BaseMul(a)), (h * a + r) % L) = BaseMul(r)
  BY <1>1, <1>5, SigningEquation
<1>9. Verifies(other, m2, sig, msg, n, pk)
  BY <1>1, <1>6, <1>7, <1>8 DEF Verifies
<1> QED BY <1>9 DEF m2

-----------------------------------------------------------------------------
\* A signature that counts as made does not overlap its message and is reduced:
\* what SignedVerifies needs to be inductive, and ResponsesModL to follow.
MadeApart ==
  \A s \in made : /\ SigCells(s.sig) \cap MsgCells(s.msg, s.len) = {}
                  /\ mem[s.sig + 1] \in 0 .. L - 1

IInv == TypeOK /\ KeysMatch /\ MadeApart /\ SignedVerifies

LEMMA InitIInv == Init => IInv
<1> SUFFICES ASSUME Init PROVE IInv
  OBVIOUS
<1>1. 0 \in Words
  BY Orders DEF Words
<1> QED BY <1>1 DEF Init, IInv, TypeOK, KeysMatch, MadeApart, SignedVerifies, ED25519_ERROR

\* Writing some cells keeps what the histories say of the others.
LEMMA Frame ==
  ASSUME IInv, NEW cells, NEW m \in [Addresses -> Words],
         \A a \in Addresses \ cells : m[a] = mem[a]
  PROVE  /\ \A k \in KeysBut(cells), impl \in Impls : m[k[2]] = PublicKey(impl, m[k[1]])
         /\ \A s \in MadeBut(cells) :
              /\ SigCells(s.sig) \cap MsgCells(s.msg, s.len) = {}
              /\ m[s.sig + 1] \in 0 .. L - 1
              /\ \A impl \in Impls : Verifies(impl, m, s.sig, s.msg, s.len, s.pk)
<1>1. ASSUME NEW k \in KeysBut(cells), NEW impl \in Impls
      PROVE  m[k[2]] = PublicKey(impl, m[k[1]])
  <2>1. k \in keys /\ k[1] \in SkAt /\ k[2] \in PkAt /\ k[1] \notin cells /\ k[2] \notin cells
    BY DEF KeysBut, IInv, TypeOK
  <2>2. m[k[1]] = mem[k[1]] /\ m[k[2]] = mem[k[2]]
    BY <2>1, Slots
  <2> QED BY <2>1, <2>2 DEF IInv, KeysMatch
<1>2. ASSUME NEW s \in MadeBut(cells)
      PROVE  /\ SigCells(s.sig) \cap MsgCells(s.msg, s.len) = {}
             /\ m[s.sig + 1] \in 0 .. L - 1
             /\ \A impl \in Impls : Verifies(impl, m, s.sig, s.msg, s.len, s.pk)
  <2>1. /\ s \in made /\ s.sig \in SigAt /\ s.msg \in MsgAt /\ s.len \in MsgLens
        /\ s.pk \in PkAt /\ Reads(s) \cap cells = {}
    BY DEF MadeBut, IInv, TypeOK
  <2>2. \A a \in Reads(s) : m[a] = mem[a]
    <3>1. Reads(s) \subseteq Addresses
      BY <2>1, Slots DEF Reads, SigCells
    <3> QED BY <2>1, <3>1
  <2>3. /\ m[s.sig] = mem[s.sig] /\ m[s.sig + 1] = mem[s.sig + 1] /\ m[s.pk] = mem[s.pk]
        /\ \A a \in MsgCells(s.msg, s.len) : m[a] = mem[a]
    BY <2>2 DEF Reads, SigCells
  <2>4. ASSUME NEW impl \in Impls PROVE Verifies(impl, m, s.sig, s.msg, s.len, s.pk)
    <3>1. Verifies(impl, mem, s.sig, s.msg, s.len, s.pk)
      BY <2>1 DEF IInv, SignedVerifies
    <3> QED BY <2>1, <2>3, <3>1, VerifiesLocally
  <2> QED BY <2>1, <2>3, <2>4 DEF IInv, MadeApart
<1> QED BY <1>1, <1>2

\* Overwriting cells, with nothing added to the histories but a pair that matches.
LEMMA WriteStep ==
  ASSUME IInv, NEW cells, NEW pairs \in SUBSET (SkAt \X PkAt),
         mem' \in [Addresses -> Words],
         \A a \in Addresses \ cells : mem'[a] = mem[a],
         \A k \in pairs, impl \in Impls : mem'[k[2]] = PublicKey(impl, mem'[k[1]]),
         ret' \in {0, 1},
         keys' = KeysBut(cells) \cup pairs,
         made' = MadeBut(cells)
  PROVE  IInv'
<1>1. /\ \A k \in KeysBut(cells), impl \in Impls : mem'[k[2]] = PublicKey(impl, mem'[k[1]])
      /\ \A s \in MadeBut(cells) :
           /\ SigCells(s.sig) \cap MsgCells(s.msg, s.len) = {}
           /\ mem'[s.sig + 1] \in 0 .. L - 1
           /\ \A impl \in Impls : Verifies(impl, mem', s.sig, s.msg, s.len, s.pk)
  BY Frame
<1>2. TypeOK'
  BY DEF IInv, TypeOK, KeysBut, MadeBut
<1>3. KeysMatch'
  BY <1>1 DEF KeysMatch
<1>4. MadeApart'
  BY <1>1 DEF MadeApart
<1>5. SignedVerifies'
  BY <1>1 DEF SignedVerifies
<1> QED BY <1>2, <1>3, <1>4, <1>5 DEF IInv

LEMMA StepIInv == IInv /\ [Next]_vars => IInv'
<1> SUFFICES ASSUME IInv, [Next]_vars PROVE IInv'
  OBVIOUS
<1>0. mem \in [Addresses -> Words] /\ ret \in {0, 1}
  BY DEF IInv, TypeOK
<1>1. ASSUME NEW impl \in Impls, NEW sk \in SkAt, NEW pk \in PkAt,
             CreateKeypair(impl, sk, pk)
      PROVE  IInv'
  <2>1. PICK w \in RandomWords : mem' = [mem EXCEPT ![sk] = w, ![pk] = PublicKey(impl, w)]
    BY <1>1 DEF CreateKeypair
  <2>2. w \in Words /\ sk \in Addresses /\ pk \in Addresses /\ sk # pk
    BY LayoutAssumption, Slots
  <2>3. PublicKey(impl, w) \in Words /\ \A j \in Impls : PublicKey(j, w) = PublicKey(impl, w)
    BY <2>2, OnePublicKey
  <2>4. /\ mem' \in [Addresses -> Words]
        /\ mem'[sk] = w /\ mem'[pk] = PublicKey(impl, w)
        /\ \A a \in Addresses \ {sk, pk} : mem'[a] = mem[a]
    BY <1>0, <2>1, <2>2, <2>3
  <2> DEFINE pairs == {<<sk, pk>>}
             cells == {sk, pk}
  <2>5. \A k \in pairs, j \in Impls : mem'[k[2]] = PublicKey(j, mem'[k[1]])
    BY <2>3, <2>4
  <2>6. /\ keys' = KeysBut(cells) \cup pairs /\ made' = MadeBut(cells) /\ ret' \in {0, 1}
        /\ pairs \in SUBSET (SkAt \X PkAt)
    BY <1>1 DEF CreateKeypair, ED25519_SUCCESS
  <2> HIDE DEF pairs, cells
  <2> QED BY <2>4, <2>5, <2>6, WriteStep DEF cells
<1>2. ASSUME NEW impl \in Impls, NEW sk \in SkAt, NEW pk \in PkAt,
             DerivePublicKey(impl, sk, pk)
      PROVE  IInv'
  <2>1. mem' = [mem EXCEPT ![pk] = PublicKey(impl, mem[sk])]
    BY <1>2 DEF DerivePublicKey
  <2>2. sk \in Addresses /\ pk \in Addresses /\ sk # pk /\ mem[sk] \in Words
    BY <1>0, Slots
  <2>3. /\ PublicKey(impl, mem[sk]) \in Words
        /\ \A j \in Impls : PublicKey(j, mem[sk]) = PublicKey(impl, mem[sk])
    BY <2>2, OnePublicKey
  <2>4. /\ mem' \in [Addresses -> Words]
        /\ mem'[sk] = mem[sk] /\ mem'[pk] = PublicKey(impl, mem[sk])
        /\ \A a \in Addresses \ {pk} : mem'[a] = mem[a]
    BY <1>0, <2>1, <2>2, <2>3
  <2> DEFINE pairs == {<<sk, pk>>}
             cells == {pk}
  <2>5. \A k \in pairs, j \in Impls : mem'[k[2]] = PublicKey(j, mem'[k[1]])
    BY <2>3, <2>4
  <2>6. /\ keys' = KeysBut(cells) \cup pairs /\ made' = MadeBut(cells) /\ ret' \in {0, 1}
        /\ pairs \in SUBSET (SkAt \X PkAt)
    BY <1>0, <1>2 DEF DerivePublicKey
  <2> HIDE DEF pairs, cells
  <2> QED BY <2>4, <2>5, <2>6, WriteStep DEF cells
<1>3. ASSUME NEW impl \in Impls, NEW sk \in SkAt, NEW pk \in PkAt, NEW sig \in SigAt,
             NEW msg \in MsgAt, NEW n \in MsgLens, Sign(impl, sig, msg, n, pk, sk)
      PROVE  IInv'
  <2> DEFINE cells == SigCells(sig)
             new == {s \in {[sig |-> sig, msg |-> msg, len |-> n, pk |-> pk]} :
                       <<sk, pk>> \in keys /\ SigCells(sig) \cap MsgCells(msg, n) = {}}
  <2>1. /\ mem' = Signed(impl, mem, sig, msg, n, pk, sk)
        /\ keys' = KeysBut(cells) /\ made' = MadeBut(cells) \cup new /\ ret' = ret
    BY <1>3 DEF Sign
  <2>2. /\ mem' \in [Addresses -> Words] /\ mem'[sig + 1] \in 0 .. L - 1
        /\ \A a \in Addresses \ cells : mem'[a] = mem[a]
    BY <1>0, <2>1, SignedFacts
  <2>3. ASSUME NEW s \in new
        PROVE  /\ s \in [sig : SigAt, msg : MsgAt, len : MsgLens, pk : PkAt]
               /\ SigCells(s.sig) \cap MsgCells(s.msg, s.len) = {}
               /\ mem'[s.sig + 1] \in 0 .. L - 1
               /\ \A j \in Impls : Verifies(j, mem', s.sig, s.msg, s.len, s.pk)
    <3>1. /\ s = [sig |-> sig, msg |-> msg, len |-> n, pk |-> pk]
          /\ <<sk, pk>> \in keys /\ SigCells(sig) \cap MsgCells(msg, n) = {}
      OBVIOUS
    <3>2. mem[pk] = PublicKey(impl, mem[sk])
      BY <3>1 DEF IInv, KeysMatch
    <3>3. \A j \in Impls : Verifies(j, mem', sig, msg, n, pk)
      BY <1>0, <2>1, <3>1, <3>2, SignedThenVerified
    <3>4. s.sig = sig /\ s.msg = msg /\ s.len = n /\ s.pk = pk
          /\ s \in [sig : SigAt, msg : MsgAt, len : MsgLens, pk : PkAt]
      BY <3>1
    <3> HIDE DEF new
    <3> QED BY <2>2, <3>1, <3>3, <3>4
  <2> HIDE DEF new, cells
  <2>4. /\ \A k \in KeysBut(cells), j \in Impls : mem'[k[2]] = PublicKey(j, mem'[k[1]])
        /\ \A s \in MadeBut(cells) :
             /\ SigCells(s.sig) \cap MsgCells(s.msg, s.len) = {}
             /\ mem'[s.sig + 1] \in 0 .. L - 1
             /\ \A j \in Impls : Verifies(j, mem', s.sig, s.msg, s.len, s.pk)
    BY <2>2, Frame
  <2>5. TypeOK'
    BY <1>0, <2>1, <2>2, <2>3 DEF IInv, TypeOK, KeysBut, MadeBut
  <2>6. KeysMatch'
    BY <2>1, <2>4 DEF KeysMatch
  <2>7. MadeApart'
    BY <2>1, <2>3, <2>4 DEF MadeApart
  <2>8. SignedVerifies'
    BY <2>1, <2>3, <2>4 DEF SignedVerifies
  <2> QED BY <2>5, <2>6, <2>7, <2>8 DEF IInv
<1>4. ASSUME NEW impl \in Impls, NEW pk \in PkAt, NEW sig \in SigAt,
             NEW msg \in MsgAt, NEW n \in MsgLens, Verify(impl, sig, msg, n, pk)
      PROVE  IInv'
  <2>1. UNCHANGED <<mem, keys, made>> /\ ret' \in {0, 1}
    BY <1>4 DEF Verify, ED25519_SIGNATURE_VALID, ED25519_SIGNATURE_INVALID
  <2> QED BY <2>1 DEF IInv, TypeOK, KeysMatch, MadeApart, SignedVerifies
<1>5. ASSUME NEW sk \in SkAt, CreateKeypairFails(sk) PROVE IInv'
  <2>1. PICK w \in RandomWords \cup {mem[sk]} : mem' = [mem EXCEPT ![sk] = w]
    BY <1>5 DEF CreateKeypairFails
  <2>2. w \in Words /\ sk \in Addresses
    BY <1>0, LayoutAssumption, Slots
  <2>3. mem' \in [Addresses -> Words] /\ \A a \in Addresses \ {sk} : mem'[a] = mem[a]
    BY <1>0, <2>1, <2>2
  <2>4. keys' = KeysBut({sk}) \cup {} /\ made' = MadeBut({sk}) /\ ret' \in {0, 1}
    BY <1>5 DEF CreateKeypairFails, ED25519_ERROR
  <2>5. {} \in SUBSET (SkAt \X PkAt)
        /\ \A k \in {}, j \in Impls : mem'[k[2]] = PublicKey(j, mem'[k[1]])
    OBVIOUS
  <2> QED BY <2>3, <2>4, <2>5, WriteStep
<1>6. ASSUME NEW a \in Addresses \ SkAt, AppWrites(a) PROVE IInv'
  <2>1. PICK w \in AppWords : mem' = [mem EXCEPT ![a] = w]
    BY <1>6 DEF AppWrites
  <2>2. w \in Words
    BY LayoutAssumption
  <2>3. mem' \in [Addresses -> Words] /\ \A c \in Addresses \ {a} : mem'[c] = mem[c]
    BY <1>0, <2>1, <2>2
  <2>4. keys' = KeysBut({a}) \cup {} /\ made' = MadeBut({a}) /\ ret' \in {0, 1}
    BY <1>0, <1>6 DEF AppWrites
  <2>5. {} \in SUBSET (SkAt \X PkAt)
        /\ \A k \in {}, j \in Impls : mem'[k[2]] = PublicKey(j, mem'[k[1]])
    OBVIOUS
  <2> QED BY <2>3, <2>4, <2>5, WriteStep
<1>7. CASE UNCHANGED vars
  BY <1>7 DEF vars, IInv, TypeOK, KeysMatch, MadeApart, SignedVerifies
<1> QED
  BY <1>1, <1>2, <1>3, <1>4, <1>5, <1>6, <1>7 DEF Next

THEOREM Invariance == Spec => []IInv
BY InitIInv, StepIInv, PTL DEF Spec

\* Keys, messages and signatures stay words.
THEOREM TypeCorrect == Spec => []TypeOK
<1>1. IInv => TypeOK
  BY DEF IInv
<1> QED BY Invariance, <1>1, PTL

\* A pair that create_keypair or derive_public_key made, and that nothing has
\* overwritten, is a pair for both libraries.
THEOREM KeysCorrect == Spec => []KeysMatch
<1>1. IInv => KeysMatch
  BY DEF IInv
<1> QED BY Invariance, <1>1, PTL

\* What ed25519_sign made with a matching pair, ed25519_verify accepts, in
\* either library, until one of the buffers is overwritten.
THEOREM SignedCorrect == Spec => []SignedVerifies
<1>1. IInv => SignedVerifies
  BY DEF IInv
<1> QED BY Invariance, <1>1, PTL

\* Reducing a word first, as amd64 does, gives the same point.
LEMMA ScalarOfWord ==
  ASSUME NEW impl \in Impls, NEW w \in Words, NEW h \in Nat, NEW P \in Points
  PROVE  /\ P \in Nat /\ w \in Nat /\ ScalarOf(impl, w) \in Nat
         /\ DoubleMul(h, P, ScalarOf(impl, w)) = DoubleMul(h, P, w)
<1>1. P \in Nat /\ w \in Nat /\ L \in Nat \ {0}
  BY Orders DEF Points, Words
<1>2. Reduce32(w) = w % L /\ w % L \in 0 .. L - 1
  BY <1>1, Reduce32Correct, ModFacts
<1> DEFINE r == w % L
<1>3. r \in Nat /\ r % L = w % L
  <2>1. r \in 0 .. L - 1
    BY <1>2
  <2> HIDE DEF r
  <2>2. r \in Nat /\ r % L = r
    BY <1>1, <2>1, SmallMod
  <2> QED BY <2>2 DEF r
<1>4. DoubleMul(h, P, r) = DoubleMul(h, P, w)
  <2> HIDE DEF r
  <2> QED BY <1>1, <1>3, DoubleMulMod
<1> QED BY <1>1, <1>2, <1>3, <1>4 DEF ScalarOf, Impls

\* The R of a signature fixes its response modulo L.
THEOREM ResponsesCorrect == Spec => []ResponsesModL
<1>1. IInv => ResponsesModL
  <2> SUFFICES ASSUME IInv, NEW s \in made, NEW w \in Words, NEW impl \in Impls
               PROVE  Verifies(impl, [mem EXCEPT ![s.sig + 1] = w], s.sig, s.msg, s.len, s.pk)
                        <=> w < E /\ w % L = mem[s.sig + 1]
    BY DEF ResponsesModL
  <2> DEFINE m == [mem EXCEPT ![s.sig + 1] = w]
             h == Hram(mem, s.sig, s.msg, s.len, s.pk)
             M == Negate(Decode(mem[s.pk]))
             S == mem[s.sig + 1]
  <2>1. /\ s.sig \in SigAt /\ s.msg \in MsgAt /\ s.len \in MsgLens /\ s.pk \in PkAt
        /\ mem \in [Addresses -> Words]
    BY DEF IInv, TypeOK
  <2>2. /\ SigCells(s.sig) \cap MsgCells(s.msg, s.len) = {} /\ S \in 0 .. L - 1
    BY DEF IInv, MadeApart
  <2>3. Verifies(impl, mem, s.sig, s.msg, s.len, s.pk)
    BY DEF IInv, SignedVerifies
  <2>4. /\ s.sig \in Addresses /\ s.sig + 1 \in Addresses /\ s.sig # s.sig + 1
        /\ s.pk \in Addresses /\ s.pk # s.sig + 1
        /\ \A a \in MsgCells(s.msg, s.len) : a \in Addresses /\ a # s.sig + 1
    BY <2>1, <2>2, Slots DEF SigCells
  <2>5. /\ m[s.sig] = mem[s.sig] /\ m[s.pk] = mem[s.pk] /\ m[s.sig + 1] = w
        /\ \A a \in MsgCells(s.msg, s.len) : m[a] = mem[a]
    BY <2>1, <2>4
  <2> HIDE DEF m
  <2>6. Hram(m, s.sig, s.msg, s.len, s.pk) = h
    BY <2>1, <2>5, VerifiesLocally
  <2>7. h \in Nat
    BY <2>1, HramType
  <2>8. mem[s.pk] \in Words /\ Decode(mem[s.pk]) # NoPoint
    BY <2>1, <2>3, <2>4 DEF Verifies
  <2>9. M \in Points
    <3>1. Decode(mem[s.pk]) \in Points
      BY <2>8, CodecAssumption
    <3> QED BY <3>1, PointFacts
  <2>10. mem[s.sig] = Encode(DoubleMul(h, M, ScalarOf(impl, S)))
    BY <2>3 DEF Verifies
  <2>11. Verifies(impl, m, s.sig, s.msg, s.len, s.pk)
           <=> w < E /\ mem[s.sig] = Encode(DoubleMul(h, M, ScalarOf(impl, w)))
    BY <2>5, <2>6, <2>8 DEF Verifies
  <2> HIDE DEF h, M, S
  <2>12. /\ ScalarOf(impl, S) = S /\ S \in Nat /\ S % L = S
         /\ DoubleMul(h, M, ScalarOf(impl, w)) = DoubleMul(h, M, w)
         /\ M \in Nat /\ w \in Nat
    BY <2>2, <2>7, <2>9, SmallScalar, ScalarOfWord
  <2>13. DoubleMul(h, M, w) \in Points /\ DoubleMul(h, M, S) \in Points
    BY <2>7, <2>12, PointFacts
  <2>14. Encode(DoubleMul(h, M, w)) = Encode(DoubleMul(h, M, S))
           <=> DoubleMul(h, M, w) = DoubleMul(h, M, S)
    <3>1. Decode(Encode(DoubleMul(h, M, w))) = DoubleMul(h, M, w)
      BY <2>13, CodecFacts
    <3>2. Decode(Encode(DoubleMul(h, M, S))) = DoubleMul(h, M, S)
      BY <2>13, CodecFacts
    <3> QED BY <3>1, <3>2
  <2>15. DoubleMul(h, M, w) = DoubleMul(h, M, S) <=> w % L = S
    BY <2>7, <2>12, DoubleMulMod
  <2>16. Verifies(impl, m, s.sig, s.msg, s.len, s.pk) <=> w < E /\ w % L = S
    BY <2>10, <2>11, <2>12, <2>14, <2>15
  <2> QED BY <2>16 DEF m, S
<1> QED BY Invariance, <1>1, PTL

\* ref10 and amd64 are interchangeable, call by call, on any contents of memory.
THEOREM AgreementCorrect == Spec => []LibrariesAgree
<1>1. IInv => LibrariesAgree
  <2> SUFFICES ASSUME IInv, NEW sig \in SigAt, NEW msg \in MsgAt, NEW n \in MsgLens,
                      NEW pk \in PkAt, NEW sk \in SkAt
               PROVE  /\ PublicKey("ref10", mem[sk]) = PublicKey("amd64", mem[sk])
                      /\ Signed("ref10", mem, sig, msg, n, pk, sk)
                           = Signed("amd64", mem, sig, msg, n, pk, sk)
                      /\ Verifies("ref10", mem, sig, msg, n, pk)
                           <=> Verifies("amd64", mem, sig, msg, n, pk)
    BY DEF LibrariesAgree
  <2>1. mem \in [Addresses -> Words] /\ "ref10" \in Impls /\ "amd64" \in Impls
    BY DEF IInv, TypeOK, Impls
  <2>2. mem[sk] \in Words /\ mem[pk] \in Words /\ mem[sig + 1] \in Words
    BY <2>1, Slots
  <2>3. PublicKey("ref10", mem[sk]) = PublicKey("amd64", mem[sk])
    BY <2>1, <2>2, OnePublicKey
  <2>4. Signed("ref10", mem, sig, msg, n, pk, sk) = Signed("amd64", mem, sig, msg, n, pk, sk)
    BY <2>1, SignedFacts
  <2>5. Verifies("ref10", mem, sig, msg, n, pk) <=> Verifies("amd64", mem, sig, msg, n, pk)
    <3> DEFINE h == Hram(mem, sig, msg, n, pk)
               M == Negate(Decode(mem[pk]))
    <3>1. CASE Decode(mem[pk]) = NoPoint
      BY <3>1 DEF Verifies
    <3>2. CASE Decode(mem[pk]) # NoPoint
      <4>1. h \in Nat
        BY <2>1, HramType
      <4>2. M \in Points
        <5>1. Decode(mem[pk]) \in Points
          BY <2>2, <3>2, CodecAssumption
        <5> QED BY <5>1, PointFacts
      <4> HIDE DEF h, M
      <4>3. DoubleMul(h, M, ScalarOf("ref10", mem[sig + 1]))
              = DoubleMul(h, M, ScalarOf("amd64", mem[sig + 1]))
        BY <2>1, <2>2, <4>1, <4>2, ScalarOfWord
      <4> QED BY <4>3 DEF Verifies, h, M
    <3> QED BY <3>1, <3>2
  <2> QED BY <2>3, <2>4, <2>5
<1> QED BY Invariance, <1>1, PTL
=============================================================================
