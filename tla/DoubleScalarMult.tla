-------------------------- MODULE DoubleScalarMult --------------------------
(***************************************************************************)
(* ge_double_scalarmult_vartime of ref10 and                               *)
(* ge25519_double_scalarmult_vartime of amd64-64-24k-pic: [a]A + [b]B.     *)
(* Both scalars become digits (Slide), then a ladder of doublings and      *)
(* additions of odd multiples goes through them from the top.  One step is *)
(* one iteration of a loop.                                                *)
(***************************************************************************)
EXTENDS ScalarMult, Sequences

CONSTANTS
  Bits,             \* digits of a scalar: 256
  SpareBits, Reach, \* of Slide
  Scalars,          \* pairs of scalars passed
  As                \* points A, as decoded

\* pc is "slide_a", "slide_b", "table", "skip", "ladder" or "done".
VARIABLES
  A, b,             \* the other arguments
  aslide, bslide,   \* slide1, slide2 in amd64
  at, by,           \* i and b of slide
  table,            \* Ai, pre1: A, 3A, 5A, ...
  r

slideVars == <<aslide, bslide, at, by>>
vars == <<lib, A, a, b, pc, slideVars, table, i, r>>

Positions == 0 .. Bits - 1

\* Entries of Ai; of Bi, which amd64 calls pre2.
ASize == 8
BSize == IF lib = "ref10" THEN 8 ELSE 32

\* slide(aslide, a), slide(bslide, b): the last odd multiple is the largest digit.
SlideA == INSTANCE Slide WITH
            max <- 2 * ASize - 1, eager <- (lib = "amd64"), scalar <- a, r <- aslide,
            i <- at, b <- by
SlideB == INSTANCE Slide WITH
            max <- 2 * BSize - 1, eager <- (lib = "amd64"), scalar <- b, r <- bslide,
            i <- at, b <- by

ASSUME LadderAssumption ==
  /\ SlideA!BitsAssumption
  /\ Scalars \subseteq (0 .. Pow2(Bits - SpareBits) - 1) \X (0 .. Pow2(Bits - SpareBits) - 1)
  /\ As \subseteq Curve

AsP3(p) == [X |-> p[1], Y |-> p[2], Z |-> 1, T |-> p[1] (.) p[2]]

\* base2.h, ge25519_base_slide_multiples.data: B, 3B, 5B, ...
BaseMultiples == [k \in 1 .. 32 |-> Precomp(Times(2 * k - 1, B))]

Init ==
  /\ lib \in {"ref10", "amd64"}
  /\ A \in As
  /\ \E s \in Scalars : a = s[1] /\ b = s[2]
  /\ aslide = SlideA!BitsOf(a) /\ bslide = SlideB!BitsOf(b) /\ at = 0 /\ by = 1
  /\ pc = "slide_a" /\ table = <<>>
  /\ i = Bits - 1 /\ r = P2Zero

SlidingA ==
  /\ pc = "slide_a"
  /\ UNCHANGED <<lib, A, a, b, pc, bslide, table, i, r>>
  /\ \/ SlideA!NextDigit \/ SlideA!Skip \/ SlideA!AddBit \/ SlideA!SubtractBit
     \/ SlideA!Stop

SlidingB ==
  /\ pc = "slide_b"
  /\ UNCHANGED <<lib, A, a, b, pc, aslide, table, i, r>>
  /\ \/ SlideB!NextDigit \/ SlideB!Skip \/ SlideB!AddBit \/ SlideB!SubtractBit
     \/ SlideB!Stop

\* slide returns.
Slid ==
  /\ pc \in {"slide_a", "slide_b"} /\ at = Bits
  /\ at' = 0 /\ by' = 1
  /\ pc' = IF pc = "slide_a" THEN "slide_b" ELSE "table"
  /\ UNCHANGED <<lib, A, a, b, aslide, bslide, table, i, r>>

\* Every entry is 2A and the last.
OddMultiples ==
  LET first   == P3ToCached(AsP3(A))
      A2      == P1P1ToP3(GeDbl(AsP3(A)))
      next(c) == P3ToCached(P1P1ToP3(GeAdd(A2, c)))
      entry[k \in 1 .. ASize] == IF k = 1 THEN first ELSE next(entry[k - 1])
  IN entry

FillTable ==
  /\ pc = "table"
  /\ table' = OddMultiples
  /\ pc' = "skip"
  /\ UNCHANGED <<lib, A, a, b, slideVars, i, r>>

\* The first loop over i.
BothZero == i >= 0 /\ aslide[i] = 0 /\ bslide[i] = 0

SkipZero ==
  /\ pc = "skip" /\ BothZero
  /\ i' = i - 1
  /\ UNCHANGED <<lib, A, a, b, slideVars, pc, table, r>>

FirstDigit ==
  /\ pc = "skip" /\ ~BothZero
  /\ pc' = "ladder"
  /\ UNCHANGED <<lib, A, a, b, slideVars, table, i, r>>

CachedNeg(c) ==
  [YplusX |-> c.YminusX, YminusX |-> c.YplusX, Z |-> c.Z, T2d |-> Neg(c.T2d)]

\* amd64 negates the entry and adds it, ref10 subtracts it.
WithA(t, d) ==
  LET u == P1P1ToP3(t)
      c == table[(Abs(d) \div 2) + 1]
  IN IF d = 0 THEN t
     ELSE IF d > 0 THEN GeAdd(u, c)
     ELSE IF lib = "ref10" THEN GeSub(u, c) ELSE GeAdd(u, CachedNeg(c))

WithB(t, d) ==
  LET u == P1P1ToP3(t)
      c == BaseMultiples[(Abs(d) \div 2) + 1]
  IN IF d = 0 THEN t
     ELSE IF d > 0 THEN GeMadd(u, c)
     ELSE IF lib = "ref10" THEN GeMsub(u, c) ELSE GeMadd(u, PrecompNeg(c))

\* The second.  Mutant: a digit of a hides that of b, an else too many.
LadderElse ==
  /\ pc = "ladder" /\ i >= 0
  /\ LET t == GeDbl(r)
     IN r' = P1P1ToP2(IF aslide[i] # 0 THEN WithA(t, aslide[i]) ELSE WithB(t, bslide[i]))
  /\ i' = i - 1
  /\ UNCHANGED <<lib, A, a, b, slideVars, pc, table>>

Ladder ==
  /\ pc = "ladder" /\ i >= 0
  /\ r' = P1P1ToP2(WithB(WithA(GeDbl(r), aslide[i]), bslide[i]))
  /\ i' = i - 1
  /\ UNCHANGED <<lib, A, a, b, slideVars, pc, table>>

Return ==
  /\ pc = "ladder" /\ i < 0
  /\ pc' = "done"
  /\ UNCHANGED <<lib, A, a, b, slideVars, table, i, r>>

Returned == pc = "done" /\ UNCHANGED vars

Next ==
  \/ SlidingA \/ SlidingB \/ Slid
  \/ FillTable \/ SkipZero \/ FirstDigit \/ Ladder \/ Return \/ Returned

Spec == Init /\ [][Next]_vars
-----------------------------------------------------------------------------
\* At every moment the digits are the scalar: a carry is never lost beyond the last bit.
ValuePreserved ==
  /\ pc = "slide_a" => SlideA!ValuePreserved
  /\ pc = "slide_b" => SlideB!ValuePreserved

\* The digits passed are 0 or odd and index the tables of odd multiples, which end at 15
\* and, for b in amd64, at 63; those to come are bits.  What the digits are for: in the
\* end, at most one of any five, or seven, in a row is not 0, so that the ladder seldom
\* adds.
DigitsIndexTables ==
  /\ pc = "slide_a" => SlideA!DigitsIndexTables /\ SlideA!DigitsSparse
  /\ pc = "slide_b" => SlideB!DigitsIndexTables /\ SlideB!DigitsSparse

\* The number whose digits from the one at k upward these are.
ValueFrom(digits, k) == Total([j \in 0 .. Bits - 1 - k |-> digits[k + j] * 2 ^ j], Bits - k)

\* Digits index odd multiples, and additions keep the curve: entry k is the cached form
\* of [2k - 1]A.
TableIsOdd ==
  pc = "skip" => \A k \in 1 .. ASize :
    LET z == table[k].Z
        p == Times(2 * k - 1, A)
    IN z # 0 /\ table[k] = P3ToCached([X |-> p[1] (.) z, Y |-> p[2] (.) z, Z |-> z,
                                      T |-> (p[1] (.) p[2]) (.) z])

\* r is what the digits used so far say, in both libraries; in the end it is [a]A + [b]B.
LadderSum ==
  /\ TableIsOdd
  /\ pc \in {"ladder", "done"} =>
       LET value == <<Over(r.X, r.Z), Over(r.Y, r.Z)>>
       IN /\ r.Z # 0
          /\ value = AffineAdd(Times(ValueFrom(aslide, i + 1), A),
                               Times(ValueFrom(bslide, i + 1), B))
          /\ pc = "done" => value = AffineAdd(Times(a, A), Times(b, B))
=============================================================================
