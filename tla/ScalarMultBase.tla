--------------------------- MODULE ScalarMultBase ---------------------------
(***************************************************************************)
(* ge_scalarmult_base of ref10 and ge25519_scalarmult_base of              *)
(* amd64-64-24k-pic: [a]B from tables of multiples of B, with a in signed  *)
(* digits.  ref10 has a table for every other digit and doubles between    *)
(* the odd and the even ones; amd64, built without SMALLTABLES, has one    *)
(* for each and none to double.  One step is one iteration of a loop.      *)
(***************************************************************************)
EXTENDS ScalarMult

CONSTANTS
  W,                \* bits of a digit: 4
  Digits,           \* 64
  BaseScalars       \* the scalars passed, below half of what the digits hold

ASSUME DigitsAssumption ==
  /\ W \in Nat \ {0} /\ Digits \in Nat \ {0} /\ Digits % 2 = 0
  /\ BaseScalars \subseteq 0 .. Pow2(W * Digits - 1) - 1

\* pc is "recode", "first", "odd", "double", "even", "all" or "done".
VARIABLES
  carry, e,         \* the array is b in amd64
  h                 \* r in amd64; between doublings ref10's s

baseVars == <<lib, a, pc, i, carry, e, h>>

Radix     == Pow2(W)
Places == 0 .. Digits - 1

BaseInit ==
  /\ lib \in {"ref10", "amd64"}
  /\ a \in BaseScalars
  /\ e = [k \in Places |-> (a \div Pow2(W * k)) % Radix]
  /\ carry = 0 /\ i = 0 /\ pc = "recode" /\ h = P3Zero

Go(label, n) == pc' = label /\ i' = n

\* The digits become signed: ref10 leaves -8 .. 7, with 8 only in the last, and carries 1
\* if a digit is 8 or more.
RecodeRef10 ==
  /\ pc = "recode" /\ lib = "ref10" /\ i < Digits - 1
  /\ LET d == e[i] + carry
         c == (d + Radix \div 2) \div Radix
     IN e' = [e EXCEPT ![i] = d - c * Radix] /\ carry' = c
  /\ i' = i + 1
  /\ UNCHANGED <<lib, a, pc, h>>

\* sc25519_window4 takes a carry of 16 to the next digit first, then one of 8.
\* Mutant: a digit that the carry makes 16 is not cut.
RecodeAmd64Uncut ==
  /\ pc = "recode" /\ lib = "amd64" /\ i < Digits - 1
  /\ LET d == e[i] + carry
         c == d \div (Radix \div 2)
     IN /\ e' = [e EXCEPT ![i] = d - c * Radix]
        /\ carry' = c
  /\ i' = i + 1
  /\ UNCHANGED <<lib, a, pc, h>>

RecodeAmd64 ==
  /\ pc = "recode" /\ lib = "amd64" /\ i < Digits - 1
  /\ LET d == e[i] + carry
         c == (d % Radix) \div (Radix \div 2)
     IN /\ e' = [e EXCEPT ![i] = (d % Radix) - c * Radix, ![i + 1] = @ + d \div Radix]
        /\ carry' = c
  /\ i' = i + 1
  /\ UNCHANGED <<lib, a, pc, h>>

LastDigit ==
  /\ pc = "recode" /\ i = Digits - 1
  /\ e' = [e EXCEPT ![i] = @ + carry] /\ carry' = 0
  /\ IF lib = "ref10" THEN Go("odd", 1) ELSE Go("first", 0)
  /\ UNCHANGED <<lib, a, h>>

\* select: base[pos][|d| - 1], the multiple |d| * 256^pos of B, with the sign of d;
\* the neutral element if d is 0, or has no entry.
Entry(n, d) ==
  LET t == IF Abs(d) \in 1 .. Radix \div 2 THEN Precomp(Times(Abs(d) * n, B)) ELSE PreZero
  IN IF d < 0 THEN PrecompNeg(t) ELSE t

Select(pos, d) == Entry(Pow2(2 * W * pos), d)

\* choose_t: a table for 16^pos.  The first has xy in place of 2dxy, doubled.
ChooseT(pos, d) ==
  LET t == Entry(Pow2(W * pos), d)
  IN IF pos > 0 THEN t ELSE [t EXCEPT !.xy2d = Over(@, D)]

\* The two loops of ref10, over the odd and the even digits.
AddOdd ==
  /\ pc = "odd" /\ i < Digits
  /\ h' = P1P1ToP3(GeMadd(h, Select(i \div 2, e[i])))
  /\ i' = i + 2
  /\ UNCHANGED <<lib, a, pc, carry, e>>

OddEnds == pc = "odd" /\ i >= Digits /\ Go("double", 0) /\ UNCHANGED <<lib, a, carry, e, h>>

\* One of four doublings: by way of p2 until the last.  Mutant: one too few.
DoubleThrice ==
  /\ pc = "double" /\ i < W
  /\ h' = IF i < W - 2 THEN P1P1ToP2(GeDbl(h)) ELSE P1P1ToP3(GeDbl(h))
  /\ IF i < W - 2 THEN Go("double", i + 1) ELSE Go("even", 0)
  /\ UNCHANGED <<lib, a, carry, e>>

DoubleOdd ==
  /\ pc = "double" /\ i < W
  /\ h' = IF i < W - 1 THEN P1P1ToP2(GeDbl(h)) ELSE P1P1ToP3(GeDbl(h))
  /\ IF i < W - 1 THEN Go("double", i + 1) ELSE Go("even", 0)
  /\ UNCHANGED <<lib, a, carry, e>>

AddEven ==
  /\ pc = "even" /\ i < Digits
  /\ h' = P1P1ToP3(GeMadd(h, Select(i \div 2, e[i])))
  /\ i' = i + 2
  /\ UNCHANGED <<lib, a, pc, carry, e>>

EvenEnds == pc = "even" /\ i >= Digits /\ Go("done", i) /\ UNCHANGED <<lib, a, carry, e, h>>

\* amd64: the first entry is made a point with Z = 2 by hand.  Mutant: with Z = 1.
FirstEntryHalved ==
  /\ pc = "first"
  /\ LET t == ChooseT(0, e[0])
     IN h' = [X |-> t.yplusx (-) t.yminusx, Y |-> t.yplusx (+) t.yminusx, Z |-> 1, T |-> t.xy2d]
  /\ Go("all", 1)
  /\ UNCHANGED <<lib, a, carry, e>>

FirstEntry ==
  /\ pc = "first"
  /\ LET t == ChooseT(0, e[0])
     IN h' = [X |-> t.yplusx (-) t.yminusx, Y |-> t.yplusx (+) t.yminusx, Z |-> 2, T |-> t.xy2d]
  /\ Go("all", 1)
  /\ UNCHANGED <<lib, a, carry, e>>

AddNext ==
  /\ pc = "all" /\ i < Digits
  /\ h' = P1P1ToP3(GeMadd(h, ChooseT(i, e[i])))
  /\ i' = i + 1
  /\ UNCHANGED <<lib, a, pc, carry, e>>

AllEnd == pc = "all" /\ i >= Digits /\ Go("done", i) /\ UNCHANGED <<lib, a, carry, e, h>>

BaseReturned == pc = "done" /\ UNCHANGED baseVars

BaseNext ==
  \/ RecodeRef10 \/ RecodeAmd64 \/ LastDigit
  \/ AddOdd \/ OddEnds \/ DoubleOdd \/ AddEven \/ EvenEnds
  \/ FirstEntry \/ AddNext \/ AllEnd \/ BaseReturned

BaseSpec == BaseInit /\ [][BaseNext]_baseVars
-----------------------------------------------------------------------------
\* The digits and the carry are the scalar at every moment of the recoding, and a
\* digit that has been recoded has an entry in its table.
DigitsAreScalar ==
  /\ LET pending == IF pc = "recode" THEN carry * Pow2(W * i) ELSE 0
     IN Total([k \in Places |-> e[k] * Pow2(W * k)], Digits) + pending = a
  /\ \A k \in Places :
       pc # "recode" \/ k < i => Abs(e[k]) <= Radix \div 2

\* Both libraries return [a]B, as a point in extended coordinates.
ResultIsMultiple ==
  pc = "done" => /\ h.Z # 0 /\ h.X (.) h.Y = h.Z (.) h.T
                 /\ <<Over(h.X, h.Z), Over(h.Y, h.Z)>> = Times(a, B)

\* XY = ZT before every addition, which reads T: after the entry that has no T of its
\* own, after doublings that leave none, after tables whose first has another third
\* component.
ExtendedWhenRead ==
  pc \in {"odd", "even", "all"} => h.Z # 0 /\ h.X (.) h.Y = h.Z (.) h.T
=============================================================================
