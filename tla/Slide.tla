------------------------------- MODULE Slide -------------------------------
(***************************************************************************)
(* slide of ref10/ge_double_scalarmult.c and sc25519_slide of              *)
(* amd64-64-24k-pic: the bits of a scalar become signed odd digits, most   *)
(* of them 0, with the same sum.  One step is one iteration of the loop    *)
(* over b.                                                                 *)
(***************************************************************************)
EXTENDS Integers, FiniteSetsExt, Sums

CONSTANTS
  Bits,           \* 256
  SpareBits,      \* the highest bits of every scalar that is passed: 0
  Reach           \* how far a digit collects bits: 6

BitsAssumption ==
  Bits \in Nat /\ SpareBits \in 1 .. Bits /\ Reach \in Nat /\ 6 <= Reach

VARIABLES
  max,            \* the largest digit: 15, or 2^(swindowsize - 1) - 1
  eager,          \* amd64 tries to add a bit before it asks whether it is 0
  scalar, r, i, b

vars == <<max, eager, scalar, r, i, b>>

Positions == 0 .. Bits - 1

Bit(a, k) == (a \div 2 ^ k) % 2

\* for i: r[i] = 1 & (a[i >> 3] >> (i & 7))
BitsOf(a) == [k \in Positions |-> Bit(a, k)]

\* The two callers in amd64 pass 5 and 7 for swindowsize; ref10 has 15.
Variants == {<<15, FALSE>>, <<15, TRUE>>, <<63, TRUE>>}

Init ==
  /\ \E v \in Variants : max = v[1] /\ eager = v[2]
  /\ scalar \in 0 .. 2 ^ (Bits - SpareBits) - 1
  /\ r = BitsOf(scalar)
  /\ i = 0 /\ b = 1

Looping == i < Bits /\ r[i] # 0 /\ b <= Reach /\ i + b < Bits
Shifted == r[i + b] * 2 ^ b

\* for i: the loop over b does not start, or is over.
NextDigit ==
  /\ i < Bits /\ ~Looping
  /\ i' = i + 1 /\ b' = 1
  /\ UNCHANGED <<max, eager, scalar, r>>

Skip ==
  /\ Looping /\ r[i + b] = 0 /\ ~eager
  /\ b' = b + 1
  /\ UNCHANGED <<max, eager, scalar, r, i>>

AddBit ==
  /\ Looping /\ (eager \/ r[i + b] # 0)
  /\ r[i] + Shifted <= max
  /\ r' = [r EXCEPT ![i] = @ + Shifted, ![i + b] = 0]
  /\ b' = b + 1
  /\ UNCHANGED <<max, eager, scalar, i>>

\* The 1 that is subtracted too much is added again at i + b: it is carried through 1s.
\* Mutant: the 1s before the first 0 stay.
CarriedKeepsOnes(digits, from) ==
  LET zeros == {k \in from .. Bits - 1 : digits[k] = 0}
  IN [k \in Positions |-> IF zeros # {} /\ k = Min(zeros) THEN 1 ELSE digits[k]]

Carried(digits, from) ==
  LET zeros == {k \in from .. Bits - 1 : digits[k] = 0}
      stop  == IF zeros = {} THEN Bits ELSE Min(zeros)
  IN [k \in Positions |-> IF k = stop THEN 1
                          ELSE IF k \in from .. stop THEN 0 ELSE digits[k]]

\* Mutant: the difference is not compared with -max.
SubtractBitWide ==
  /\ Looping /\ r[i + b] # 0
  /\ r[i] + Shifted > max
  /\ r' = Carried([r EXCEPT ![i] = @ - Shifted], i + b)
  /\ b' = b + 1
  /\ UNCHANGED <<max, eager, scalar, i>>

SubtractBit ==
  /\ Looping /\ r[i + b] # 0
  /\ r[i] + Shifted > max /\ r[i] - Shifted >= -max
  /\ r' = Carried([r EXCEPT ![i] = @ - Shifted], i + b)
  /\ b' = b + 1
  /\ UNCHANGED <<max, eager, scalar, i>>

\* break
Stop ==
  /\ Looping /\ r[i + b] # 0
  /\ r[i] + Shifted > max /\ r[i] - Shifted < -max
  /\ i' = i + 1 /\ b' = 1
  /\ UNCHANGED <<max, eager, scalar, r>>

Return == i = Bits /\ UNCHANGED vars

Next == NextDigit \/ Skip \/ AddBit \/ SubtractBit \/ Stop \/ Return
Spec == Init /\ [][Next]_vars
-----------------------------------------------------------------------------
Sum == Total([k \in Positions |-> r[k] * 2 ^ k], Bits)

\* At every moment the digits are the scalar: a carry is never lost beyond the last bit.
ValuePreserved == Sum = scalar

\* The digits passed are 0 or odd and index the tables of odd multiples, which end at
\* max; those to come are bits.
DigitsIndexTables ==
  \A k \in Positions :
    IF k >= i + (IF b > 1 THEN 1 ELSE 0) THEN r[k] \in {0, 1}
    ELSE r[k] = 0 \/ (r[k] % 2 = 1 /\ r[k] \in -max .. max)

\* What the digits are for: in the end, at most one of any five, or seven, in a row is
\* not 0, so that the ladder seldom adds.
DigitsSparse ==
  i = Bits => \A j, k \in Positions :
                j < k /\ r[j] # 0 /\ r[k] # 0 => k - j >= (IF max = 15 THEN 5 ELSE 7)
=============================================================================
