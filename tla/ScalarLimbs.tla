---------------------------- MODULE ScalarLimbs ----------------------------
(***************************************************************************)
(* sc_reduce and sc_muladd of ref10: a number of 2N limbs is brought below *)
(* the group order L by folding the limbs above the N-th, since Radix^N is *)
(* a sum of few small multiples of powers of Radix modulo L, and by        *)
(* carrying in between.  Limbs are signed and not normalised until the     *)
(* end.  One step is one statement of the code: a fold or a carry.         *)
(***************************************************************************)
EXTENDS Integers, Sums

CONSTANTS
  N,              \* limbs of a reduced scalar: 12
  W,              \* bits of a limb: 21
  Coef,           \* Radix^N modulo L: 666643, 470296, 654183, -997805, 136657, -683901
  ByteBits,       \* 8
  Bytes,          \* of a scalar: 32
  IntMax,         \* of crypto_int64
  Reduced,        \* arguments of sc_reduce, of 2 * Bytes bytes
  Factors         \* arguments of sc_muladd, of Bytes bytes

VARIABLES
  call,           \* "sc_reduce" or "sc_muladd"
  x,              \* the number the call is to reduce
  phase,          \* a key of Loops, or "pack", "done"
  i,              \* the limb of the next statement
  s,              \* the limbs s0, s1, ..
  out             \* the bytes written, from 0; <<>> before

vars == <<call, x, phase, i, s, out>>

Limbs == 0 .. 2 * N - 1
Half  == N \div 2

Radix    == 2^W
Value(v) == Total([k \in Limbs |-> v[k] * 2^(W * k)], 2 * N)

\* L, the number whose residues the coefficients describe.
Order == Value([k \in Limbs |-> IF k = N THEN 1 ELSE IF k < Half THEN -Coef[k + 1] ELSE 0])

\* The loops go two limbs at a time and fold half of the limbs first.
ASSUME ScalarAssumption ==
  /\ N \in Nat /\ N % 2 = 0 /\ 4 <= N /\ W \in Nat \ {0} /\ ByteBits \in Nat \ {0}
  /\ Coef \in [1 .. Half -> Int] /\ 0 < Order
  /\ Reduced \subseteq Nat /\ Factors \subseteq Nat
-----------------------------------------------------------------------------
\* load_3 and load_4: the bytes from one place on that a limb of the given shift needs.
Load(n, at, shift) ==
  (n \div 2^(ByteBits * at)) % 2^(ByteBits * ((shift + W + ByteBits - 1) \div ByteBits))

\* Limb k of a number of 'limbs' limbs: bytes, shifted, and masked except in the last.
Limb(n, k, limbs) ==
  LET at    == (W * k) \div ByteBits
      shift == (W * k) % ByteBits
  IN IF k = limbs - 1
     THEN (n \div 2^(ByteBits * at)) \div 2^shift
     ELSE (Load(n, at, shift) \div 2^shift) % Radix

\* The limbs of a * b + c before any carry: products by the sum of their places.
Products(a, b, c) ==
  [k \in Limbs |->
    (IF k < N THEN Limb(c, k, N) ELSE 0)
    + Total([j \in 0 .. N - 1 |->
              IF k - j \in 0 .. N - 1 THEN Limb(a, j, N) * Limb(b, k - j, N) ELSE 0], N)]

Begin(label, first) == phase = label /\ i = first

Init ==
  /\ out = <<>>
  /\ \/ /\ call = "sc_reduce" /\ Begin("high", 2 * N - 1)
        /\ x \in Reduced
        /\ s = [k \in Limbs |-> Limb(x, k, 2 * N)]
     \/ /\ call = "sc_muladd" /\ Begin("muleven", 0)
        /\ \E a \in Factors, b \in Factors, c \in Factors :
             x = a * b + c /\ s = Products(a, b, c)

\* The groups of statements in their order: what one does, the limbs it does it to, in
\* steps of 'by', and the group that follows.
Loop(op, first, last, by, next) ==
  [op |-> op, first |-> first, last |-> last, by |-> by, next |-> next]

\* Mutant: one fold of s12 is thought enough, without the floor carries before the second.
LoopsNoFloor ==
  [muleven |-> Loop("round", 0, 2 * N - 2, 2, "mulodd"),
   mulodd  |-> Loop("round", 1, 2 * N - 3, 2, "high"),
   high    |-> Loop("fold", 2 * N - 1, N + Half, -1, "mideven"),
   mideven |-> Loop("round", Half, N + Half - 2, 2, "midodd"),
   midodd  |-> Loop("round", Half + 1, N + Half - 3, 2, "low"),
   low     |-> Loop("fold", N + Half - 1, N, -1, "even"),
   even    |-> Loop("round", 0, N - 2, 2, "odd"),
   odd     |-> Loop("round", 1, N - 1, 2, "top"),
   top     |-> Loop("fold", N, N, -1, "floor2"),
   floor   |-> Loop("floor", 0, N - 1, 1, "top2"),
   top2    |-> Loop("fold", N, N, -1, "floor2"),
   floor2  |-> Loop("floor", 0, N - 2, 1, "pack")]

Loops ==
  [muleven |-> Loop("round", 0, 2 * N - 2, 2, "mulodd"),
   mulodd  |-> Loop("round", 1, 2 * N - 3, 2, "high"),
   high    |-> Loop("fold", 2 * N - 1, N + Half, -1, "mideven"),
   mideven |-> Loop("round", Half, N + Half - 2, 2, "midodd"),
   midodd  |-> Loop("round", Half + 1, N + Half - 3, 2, "low"),
   low     |-> Loop("fold", N + Half - 1, N, -1, "even"),
   even    |-> Loop("round", 0, N - 2, 2, "odd"),
   odd     |-> Loop("round", 1, N - 1, 2, "top"),
   top     |-> Loop("fold", N, N, -1, "floor"),
   floor   |-> Loop("floor", 0, N - 1, 1, "top2"),
   top2    |-> Loop("fold", N, N, -1, "floor2"),
   floor2  |-> Loop("floor", 0, N - 2, 1, "pack")]

\* A statement of a group of the given kind, and on to the next one.
Statement(op) ==
  /\ phase \in DOMAIN Loops /\ Loops[phase].op = op
  /\ IF i = Loops[phase].last
     THEN /\ phase' = Loops[phase].next
          /\ i' = IF phase' \in DOMAIN Loops THEN Loops[phase'].first ELSE 0
     ELSE phase' = phase /\ i' = i + Loops[phase].by
  /\ UNCHANGED <<call, x, out>>

\* Mutant: the coefficients one limb too high.
FoldedHigh(v, n) ==
  [k \in Limbs |->
    IF k = n THEN 0
    ELSE IF k - (n - N) \in 1 .. Half THEN v[k] + v[n] * Coef[k - (n - N)]
    ELSE v[k]]

\* s[i-N] += s[i] * Coef[1], .., s[i] = 0.
Folded(v, n) ==
  [k \in Limbs |->
    IF k = n THEN 0
    ELSE IF k - (n - N) \in 0 .. Half - 1 THEN v[k] + v[n] * Coef[k - (n - N) + 1]
    ELSE v[k]]

\* Mutant: what is carried is subtracted with the shift of the constant that rounds.
CarriedHalf(v, n, c) == [v EXCEPT ![n] = @ - c * (Radix \div 2), ![n + 1] = @ + c]

\* A carry c out of limb n.  Carries are of type crypto_uint64, so that a negative one
\* wraps; the limbs are crypto_int64 and come out as here if they are in its range.
Carried(v, n, c) == [v EXCEPT ![n] = @ - c * Radix, ![n + 1] = @ + c]

Fold       == Statement("fold")  /\ s' = Folded(s, i)
CarryRound == Statement("round") /\ s' = Carried(s, i, (s[i] + Radix \div 2) \div Radix)
CarryFloor == Statement("floor") /\ s' = Carried(s, i, s[i] \div Radix)

\* Byte k of the result: the bits of a limb from 8k on, and those of the next where it
\* ends.  The last limb is not cut: it is Radix if the residue is Radix^N or more.
Byte(v, k) ==
  LET n     == IF ByteBits * k < W * N THEN (ByteBits * k) \div W ELSE N - 1
      shift == ByteBits * k - W * n
  IN (v[n] \div 2^shift + (IF n + 1 < N THEN v[n + 1] * 2^(W - shift) ELSE 0)) % 2^ByteBits

Pack ==
  /\ phase = "pack"
  /\ out' = [k \in 0 .. Bytes - 1 |-> Byte(s, k)]
  /\ phase' = "done"
  /\ UNCHANGED <<call, x, i, s>>

Return == phase = "done" /\ UNCHANGED vars

Next == Fold \/ CarryRound \/ CarryFloor \/ Pack \/ Return
Spec == Init /\ [][Next]_vars
-----------------------------------------------------------------------------
Labels == DOMAIN Loops \cup {"pack", "done"}

\* The number that bytes stand for.
Number(bytes) ==
  Total([k \in 0 .. Bytes - 1 |-> bytes[k] * 2^(ByteBits * k)], Bytes)

\* No statement changes the residue of the limbs: what is dropped is a multiple of L.
ResidueKept == Value(s) % Order = x % Order

\* Nothing leaves crypto_int64: no limb, no product of a fold, no sum that is rounded.
\* (Sums of products have no negative terms, so none is larger than its result.)
NoOverflow ==
  /\ \A k \in Limbs : -IntMax <= s[k] /\ s[k] <= IntMax
  /\ phase \in DOMAIN Loops /\ Loops[phase].op = "fold" =>
       \A k \in 1 .. Half : -IntMax <= s[i] * Coef[k] /\ s[i] * Coef[k] <= IntMax
  /\ phase \in DOMAIN Loops /\ Loops[phase].op = "round" => s[i] + Radix \div 2 <= IntMax

\* "s mod l", the comment of both functions: the bytes are the residue below L itself, not
\* another number of its class, whatever limbs the folds leave negative or too large.
LeastResidue == phase = "done" => Number(out) = x % Order
=============================================================================
