--------------------------- MODULE AdditionChain ---------------------------
(***************************************************************************)
(* The powers behind square roots and inverses: pow22523.h and pow225521.h *)
(* of ref10, fe25519_pow2523.c and fe25519_invert.c of amd64-64-24k-pic.   *)
(* Each is a list of squarings and products over a few field elements that *)
(* are written over.  An element is represented by its exponent, the power *)
(* of the argument that it is, and an exponent by the positions of its 1   *)
(* bits.  Callers pass the same element as argument and as result.         *)
(***************************************************************************)
EXTENDS Words

VARIABLES
  program,        \* which of the four
  aliased,        \* the result is written to the argument
  pc,             \* instruction, from 1
  i,              \* squarings done in it: the loop counter of the code
  exponent        \* of every element that has been written

vars == <<program, aliased, pc, i, exponent>>

\* dst = src^(2^n), a squaring and a loop of n - 1 squarings; dst = a * b.
\* Mutant: the loop counts from 0.
SquareFromZero(dst, src, n) ==
  [op |-> "square", dst |-> dst, a |-> src, b |-> src, n |-> n + 1]
Square(dst, src, n) == [op |-> "square", dst |-> dst, a |-> src, b |-> src, n |-> n]
Mul(dst, a, b)      == [op |-> "mul", dst |-> dst, a |-> a, b |-> b, n |-> 1]

Pow22523 == <<
  Square("t0", "z", 1),   Square("t1", "t0", 2),   Mul("t1", "z", "t1"),
  Mul("t0", "t0", "t1"),  Square("t0", "t0", 1),   Mul("t0", "t1", "t0"),
  Square("t1", "t0", 5),  Mul("t0", "t1", "t0"),   Square("t1", "t0", 10),
  Mul("t1", "t1", "t0"),  Square("t2", "t1", 20),  Mul("t1", "t2", "t1"),
  Square("t1", "t1", 10), Mul("t0", "t1", "t0"),   Square("t1", "t0", 50),
  Mul("t1", "t1", "t0"),  Square("t2", "t1", 100), Mul("t1", "t2", "t1"),
  Square("t1", "t1", 50), Mul("t0", "t1", "t0"),   Square("t0", "t0", 2),
  Mul("out", "t0", "z")>>

Pow225521 == <<
  Square("t0", "z", 1),   Square("t1", "t0", 2),   Mul("t1", "z", "t1"),
  Mul("t0", "t0", "t1"),  Square("t2", "t0", 1),   Mul("t1", "t1", "t2"),
  Square("t2", "t1", 5),  Mul("t1", "t2", "t1"),   Square("t2", "t1", 10),
  Mul("t2", "t2", "t1"),  Square("t3", "t2", 20),  Mul("t2", "t3", "t2"),
  Square("t2", "t2", 10), Mul("t1", "t2", "t1"),   Square("t2", "t1", 50),
  Mul("t2", "t2", "t1"),  Square("t3", "t2", 100), Mul("t2", "t3", "t2"),
  Square("t2", "t2", 50), Mul("t1", "t2", "t1"),   Square("t1", "t1", 5),
  Mul("out", "t1", "t0")>>

\* What the two programs of amd64 begin with, up to 2^250 - 1 in t.
Fe25519Chain == <<
  Square("z2", "z", 1),      Square("t", "z2", 2),            Mul("z9", "t", "z"),
  Mul("z11", "z9", "z2"),    Square("t", "z11", 1),           Mul("z2_5_0", "t", "z9"),
  Square("t", "z2_5_0", 5),  Mul("z2_10_0", "t", "z2_5_0"),   Square("t", "z2_10_0", 10),
  Mul("z2_20_0", "t", "z2_10_0"), Square("t", "z2_20_0", 20), Mul("t", "t", "z2_20_0"),
  Square("t", "t", 10),      Mul("z2_50_0", "t", "z2_10_0"),  Square("t", "z2_50_0", 50),
  Mul("z2_100_0", "t", "z2_50_0"), Square("t", "z2_100_0", 100), Mul("t", "t", "z2_100_0"),
  Square("t", "t", 50),      Mul("t", "t", "z2_50_0")>>

Fe25519Pow2523 == Fe25519Chain \o <<Square("t", "t", 2), Mul("out", "t", "z")>>
Fe25519Invert  == Fe25519Chain \o <<Square("t", "t", 5), Mul("out", "t", "z11")>>

Programs ==
  [fe_pow22523 |-> Pow22523, fe_invert |-> Pow225521,
   fe25519_pow2523 |-> Fe25519Pow2523, fe25519_invert |-> Fe25519Invert]

Code == Programs[program]
Done == pc > Len(Code)
-----------------------------------------------------------------------------
\* The element a name stands for.
Cell(name) == IF aliased /\ name = "out" THEN "z" ELSE name

Init ==
  /\ program \in DOMAIN Programs
  /\ aliased \in BOOLEAN
  /\ pc = 1 /\ i = 0
  /\ exponent = [z |-> {0}]

Write(name, value) ==
  exponent' = [c \in DOMAIN exponent \cup {Cell(name)} |->
                 IF c = Cell(name) THEN value ELSE exponent[c]]

\* One fe_sq or fe_mul.
Squaring ==
  /\ ~Done /\ Code[pc].op = "square"
  /\ LET in == Code[pc]
         e  == exponent[Cell(IF i = 0 THEN in.a ELSE in.dst)]
     IN /\ Write(in.dst, Plus(e, e))
        /\ IF i + 1 < in.n THEN i' = i + 1 /\ pc' = pc ELSE i' = 0 /\ pc' = pc + 1
  /\ UNCHANGED <<program, aliased>>

Product ==
  /\ ~Done /\ Code[pc].op = "mul"
  /\ LET in == Code[pc]
     IN Write(in.dst, Plus(exponent[Cell(in.a)], exponent[Cell(in.b)]))
  /\ pc' = pc + 1
  /\ UNCHANGED <<program, aliased, i>>

Return == Done /\ UNCHANGED vars

Next == Squaring \/ Product \/ Return
Spec == Init /\ [][Next]_vars
-----------------------------------------------------------------------------
\* 2^252 - 3, which is (p - 5) / 8, and 2^255 - 21, which is p - 2.
Exponent ==
  [fe_pow22523 |-> (0 .. 251) \ {1}, fe25519_pow2523 |-> (0 .. 251) \ {1},
   fe_invert |-> (0 .. 254) \ {2, 4}, fe25519_invert |-> (0 .. 254) \ {2, 4}]

\* Each program computes the power its name or last comment says, in both libraries,
\* also where the result overwrites the argument.
ChainComputes == Done => exponent[Cell("out")] = Exponent[program]
=============================================================================
