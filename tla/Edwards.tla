------------------------------ MODULE Edwards ------------------------------
(***************************************************************************)
(* The curve -x^2 + y^2 = 1 + D x^2 y^2 over the integers modulo P, as in  *)
(* lib/ed25519/ref10/ge.h, and the functions of ge_*.c and ge25519_*.c on  *)
(* it: representations of points, the formulas between them, the encoding  *)
(* of points as bytes and the two decoders.  A field element is its value  *)
(* modulo P; limbs are not represented.                                    *)
(***************************************************************************)
EXTENDS Integers, FiniteSets

CONSTANTS
  P,              \* the prime, 2^255 - 19
  FieldBits,      \* 255: a word has this many bits and the sign
  D               \* the constant of the curve

F == 0 .. P - 1

Pow2(n) == 2 ^ n

\* y^2 - 1 = x^2 (D y^2 + 1) is solvable for x by the method of the decoders if
\* P = 5 mod 8, and the formulas have no exceptions if D is not a square.
ASSUME FieldAssumption ==
  /\ P \in Nat /\ P % 8 = 5 /\ \A n \in 2 .. P - 1 : P % n # 0
  /\ FieldBits \in Nat /\ Pow2(FieldBits - 1) < P /\ P < Pow2(FieldBits)
  /\ D \in F /\ \A x \in F : (x * x) % P # D
-----------------------------------------------------------------------------
\* fe_add, fe_sub, fe_mul, fe_sq, fe_sq2, fe_neg
u (+) v == (u + v) % P
u (-) v == (u - v) % P
u (.) v == (u * v) % P
Sq(u)   == u (.) u
Sq2(u)  == 2 (.) Sq(u)
Neg(u)  == 0 (-) u

Power(u, n) == LET pow[k \in 0 .. n] == IF k = 0 THEN 1 ELSE pow[k - 1] (.) u IN pow[n]

\* fe_invert, fe_pow22523, fe_isnegative
Invert(u)     == Power(u, P - 2)
Pow22523(u)   == Power(u, (P - 5) \div 8)
IsNegative(u) == u % 2
-----------------------------------------------------------------------------
(***************************************************************************)
(* Reference: affine points, the group law, the point that bytes stand     *)
(* for.  D is not a square, so no denominator is 0.                        *)
(***************************************************************************)
Quotients == [f \in F \X (F \ {0}) |-> CHOOSE q \in F : q (.) f[2] = f[1]]
Over(u, v) == Quotients[u, v]

OnCurve(p) == Sq(p[2]) (-) Sq(p[1]) = 1 (+) (D (.) (Sq(p[1]) (.) Sq(p[2])))
Curve      == {p \in F \X F : OnCurve(p)}
Neutral    == <<0, 1>>

AffineAdd(p, q) ==
  LET k == D (.) ((p[1] (.) q[1]) (.) (p[2] (.) q[2]))
  IN <<Over((p[1] (.) q[2]) (+) (p[2] (.) q[1]), 1 (+) k),
       Over((p[2] (.) q[2]) (+) (p[1] (.) q[1]), 1 (-) k)>>

AffineNeg(p) == <<Neg(p[1]), p[2]>>

\* [n]p.  The number of points is a multiple of the order of each.
Points    == Cardinality(Curve)
Multiples == [p \in Curve |->
                LET times[n \in 0 .. Points - 1] ==
                      IF n = 0 THEN Neutral ELSE AffineAdd(times[n - 1], p)
                IN times]
Times(n, p) == Multiples[p][n % Points]

Words     == 0 .. Pow2(FieldBits + 1) - 1
YOf(w)    == (w % Pow2(FieldBits)) % P
SignOf(w) == w \div Pow2(FieldBits)

\* The points a word may stand for: its y, reduced, and the x of its sign.  The
\* sign says nothing where x is 0.
Denoted == [w \in Words |->
              {p \in Curve : p[2] = YOf(w) /\ (p[1] = 0 \/ p[1] % 2 = SignOf(w))}]
PointsOf(w) == Denoted[w]
-----------------------------------------------------------------------------
(***************************************************************************)
(* Representations of points, as records of the structs in ge.h.           *)
(***************************************************************************)
P3Zero   == [X |-> 0, Y |-> 1, Z |-> 1, T |-> 0]
P2Zero   == [X |-> 0, Y |-> 1, Z |-> 1]
PreZero  == [yplusx |-> 1, yminusx |-> 1, xy2d |-> 0]

P3ToP2(p) == [X |-> p.X, Y |-> p.Y, Z |-> p.Z]

P3ToCached(p) ==
  [YplusX |-> p.Y (+) p.X, YminusX |-> p.Y (-) p.X, Z |-> p.Z, T2d |-> p.T (.) (2 (.) D)]

P1P1ToP2(r) == [X |-> r.X (.) r.T, Y |-> r.Y (.) r.Z, Z |-> r.Z (.) r.T]

\* Mutant: T from the factors of Z.
P1P1ToP3WrongT(r) ==
  [X |-> r.X (.) r.T, Y |-> r.Y (.) r.Z, Z |-> r.Z (.) r.T, T |-> r.Z (.) r.T]

P1P1ToP3(r) ==
  [X |-> r.X (.) r.T, Y |-> r.Y (.) r.Z, Z |-> r.Z (.) r.T, T |-> r.X (.) r.Y]

\* What ge_add, ge_sub, ge_madd and ge_msub have in common: A, B, C and D of the
\* formulas, and where C is added.
Sum(A, B, C, DD) == [X |-> A (-) B, Y |-> A (+) B, Z |-> DD (+) C, T |-> DD (-) C]
Dif(A, B, C, DD) == [X |-> A (-) B, Y |-> A (+) B, Z |-> DD (-) C, T |-> DD (+) C]

GeAdd(p, q) ==
  Sum((p.Y (+) p.X) (.) q.YplusX, (p.Y (-) p.X) (.) q.YminusX, q.T2d (.) p.T,
      (p.Z (.) q.Z) (+) (p.Z (.) q.Z))

\* Mutant: the same differences as in ge_add.
GeSubUnswapped(p, q) ==
  Dif((p.Y (+) p.X) (.) q.YplusX, (p.Y (-) p.X) (.) q.YminusX, q.T2d (.) p.T,
      (p.Z (.) q.Z) (+) (p.Z (.) q.Z))

GeSub(p, q) ==
  Dif((p.Y (+) p.X) (.) q.YminusX, (p.Y (-) p.X) (.) q.YplusX, q.T2d (.) p.T,
      (p.Z (.) q.Z) (+) (p.Z (.) q.Z))

GeMadd(p, q) ==
  Sum((p.Y (+) p.X) (.) q.yplusx, (p.Y (-) p.X) (.) q.yminusx, q.xy2d (.) p.T, p.Z (+) p.Z)

GeMsub(p, q) ==
  Dif((p.Y (+) p.X) (.) q.yminusx, (p.Y (-) p.X) (.) q.yplusx, q.xy2d (.) p.T, p.Z (+) p.Z)

\* ge_p2_dbl, and ge_p3_dbl after ge_p3_to_p2.
GeDbl(p) ==
  LET y3 == Sq(p.Y) (+) Sq(p.X)
      z3 == Sq(p.Y) (-) Sq(p.X)
  IN [X |-> Sq(p.X (+) p.Y) (-) y3, Y |-> y3, Z |-> z3, T |-> Sq2(p.Z) (-) z3]

\* The entry of a table for an affine point (base.h, base2.h).
Precomp(p) ==
  [yplusx  |-> p[2] (+) p[1], yminusx |-> p[2] (-) p[1],
   xy2d    |-> (2 (.) D) (.) (p[1] (.) p[2])]

\* Its negative, as select and choose_t compute it.
PrecompNeg(t) == [yplusx |-> t.yminusx, yminusx |-> t.yplusx, xy2d |-> Neg(t.xy2d)]
-----------------------------------------------------------------------------
(***************************************************************************)
(* Encoding and decoding.                                                  *)
(***************************************************************************)
\* ge_tobytes, ge_p3_tobytes, ge25519_pack.
\* Mutant: y is below the power of two, but not reduced.
ToBytesUnfrozen(p) ==
  LET recip == Invert(p.Z)
      y     == p.Y (.) recip
  IN (IF y + P < Pow2(FieldBits) THEN y + P ELSE y)
       + IsNegative(p.X (.) recip) * Pow2(FieldBits)

ToBytes(p) ==
  LET recip == Invert(p.Z)
  IN (p.Y (.) recip) + IsNegative(p.X (.) recip) * Pow2(FieldBits)

SqrtM1 == CHOOSE s \in F : Sq(s) = P - 1

Undecodable == [ok |-> FALSE]
Decoded(x, y) == [ok |-> TRUE, point |-> [X |-> x, Y |-> y, Z |-> 1, T |-> x (.) y]]

\* ge_frombytes_negate_vartime: v x^2 is u or -u; of the two square roots, the one
\* whose sign is not that of the word.
FromBytesNegate(w) ==
  LET y    == YOf(w)
      u    == Sq(y) (-) 1
      v    == (Sq(y) (.) D) (+) 1
      v3   == Sq(v) (.) v
      x    == (Pow22523((Sq(v3) (.) v) (.) u) (.) v3) (.) u
      vxx  == Sq(x) (.) v
      root == IF vxx = u THEN x ELSE x (.) SqrtM1
  IN IF vxx # u /\ vxx (+) u # 0 THEN Undecodable
     ELSE Decoded(IF IsNegative(root) = SignOf(w) THEN Neg(root) ELSE root, y)

\* ge25519_unpackneg_vartime: another order of the products and of the tests.
\* Mutant: the test after the multiplication by sqrt(-1) is that before it.
UnpackNegUnchecked(w) ==
  LET y    == YOf(w)
      num  == Sq(y) (-) 1
      den  == 1 (+) (Sq(y) (.) D)
      den4 == Sq(Sq(den))
      t    == Pow22523(((den4 (.) Sq(den)) (.) num) (.) den)
      x    == (((t (.) num) (.) den) (.) den) (.) den
      root == IF Sq(x) (.) den # num THEN x (.) SqrtM1 ELSE x
  IN Decoded(IF IsNegative(root) # 1 - SignOf(w) THEN Neg(root) ELSE root, y)

UnpackNeg(w) ==
  LET y    == YOf(w)
      num  == Sq(y) (-) 1
      den  == 1 (+) (Sq(y) (.) D)
      den4 == Sq(Sq(den))
      t    == Pow22523(((den4 (.) Sq(den)) (.) num) (.) den)
      x    == (((t (.) num) (.) den) (.) den) (.) den
      root == IF Sq(x) (.) den # num THEN x (.) SqrtM1 ELSE x
  IN IF Sq(root) (.) den # num THEN Undecodable
     ELSE Decoded(IF IsNegative(root) # 1 - SignOf(w) THEN Neg(root) ELSE root, y)
=============================================================================
