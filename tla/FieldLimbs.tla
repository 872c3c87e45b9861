----------------------------- MODULE FieldLimbs -----------------------------
(***************************************************************************)
(* The field elements of ref10, fe.h: numbers modulo 2^Bits - Red in       *)
(* signed limbs of two alternating widths that are not normalised.         *)
(* Callers hold two elements, read from bytes, and call fe_* on them as    *)
(* long as the limbs stay within what the comments ask for; each           *)
(* multiplication, and the conversion to bytes at the end, runs statement  *)
(* by statement.  An element is not unique: the bytes of fe_tobytes, the   *)
(* parity and the comparison with zero must not depend on its limbs.       *)
(***************************************************************************)
EXTENDS Integers, Sequences

CONSTANTS
  N,              \* limbs: 10
  W,              \* bits of each: 26, 25, 26, 25, ..
  Radix,          \* 2^W[k]
  Red,            \* 2^Bits modulo p: 19
  ByteBits, Bytes,\* of an encoding: 8, 32
  WordBits,       \* of an unsigned int
  Unit,           \* what fe_mul promises of its limbs: 1.01 * 2^25, of odd ones half of it
  MulBound,       \* what fe_mul asks of the limbs: 1.65 * 2^26
  ToBytesBound,   \* what fe_tobytes asks: 1.1 * 2^26
  IntMax, LongMax,\* of crypto_int32 and crypto_int64
  Inputs,         \* encodings that f is read from, as numbers
  Others,         \* encodings that g is read from or that bytes are compared with
  Calls           \* bound on the calls between reading and writing

ASSUME FieldAssumption ==
  /\ N \in {2, 4, 6, 8, 10}
  /\ W \in [0 .. N - 1 -> Nat \ {0}] /\ \A k \in 0 .. N - 1 : Radix[k] = 2^W[k]
  /\ Red \in Nat /\ MulBound \in Nat /\ ToBytesBound \in Nat /\ Unit \in Nat
  /\ Inputs \subseteq Nat /\ Others \subseteq Nat

VARIABLES
  element,        \* f and g, once they are written
  call,           \* the function that runs, or "none"
  dest,           \* its result
  h,              \* its limbs
  q,              \* the quotient of fe_tobytes
  pc,             \* the next statement
  out,            \* the bytes written, <<>> before
  other,          \* what they are compared with
  at, differentbits, ret,   \* of crypto_verify_32
  residue, bound, want,     \* what f and g stand for, how large their even limbs may be,
                            \* and what the running call is to compute
  calls

field == <<h, q, pc, element, residue, bound>>
verify == <<out, other, at, differentbits, ret>>
vars == <<field, verify, call, dest, want, calls>>

Limbs == 0 .. N - 1
Half  == N \div 2
Odd(k) == k % 2 = 1

\* The sum of t[0], .., at most ten terms.
Sum(t) ==
  LET d(k) == IF k \in DOMAIN t THEN t[k] ELSE 0
  IN d(0) + d(1) + d(2) + d(3) + d(4) + d(5) + d(6) + d(7) + d(8) + d(9)

Weight(k) == Sum([j \in 0 .. k - 1 |-> W[j]])
Bits      == Weight(N)
P         == 2^Bits - Red
-----------------------------------------------------------------------------
\* Limb k begins with a byte and takes those up to where the next one begins.
Start(k) == (Weight(k) + ByteBits - 1) \div ByteBits

\* load_3 and load_4, shifted to the place of the limb; the top bit is ignored.
Loaded(n) ==
  [k \in Limbs |->
    LET from == ByteBits * Start(k)
        to   == IF k = N - 1 THEN Bits ELSE ByteBits * Start(k + 1)
    IN ((n \div 2^from) % 2^(to - from)) * 2^(from - Weight(k))]

\* The limbs of f * g before the carries: 2 where both limbs are odd, Red where the
\* product is beyond the last limb.
Product(f, g) ==
  [k \in Limbs |->
    Sum([i \in Limbs |->
      LET j == (k - i) % N
      IN (IF Odd(i) /\ Odd(j) THEN 2 ELSE 1) * (IF i > k THEN Red ELSE 1) * f[i] * g[j]])]

\* fe_sq: every pair of limbs once.
Square(f) ==
  [k \in Limbs |->
    Sum([i \in Limbs |->
      LET j == (k - i) % N
      IN IF i > j THEN 0
         ELSE (IF i < j THEN 2 ELSE 1) * (IF Odd(i) /\ Odd(j) THEN 2 ELSE 1)
              * (IF i > k THEN Red ELSE 1) * f[i] * f[j]])]

Doubled(v) == [k \in Limbs |-> v[k] + v[k]]

\* Mutant: the carries of the last limb and, once more, of the first are left out.
MulOrderShort ==
  [n \in 1 .. N |-> IF Odd(n) THEN n \div 2 ELSE n \div 2 + Half - 2]

\* The order of the carries: two at a time, half of the limbs apart, and the first once
\* more in the end; in fe_frombytes the odd limbs, the last one first, then the even.
MulOrder ==
  [n \in 1 .. N + 2 |->
    IF n = N + 1 THEN N - 1 ELSE IF n = N + 2 THEN 0
    ELSE IF Odd(n) THEN n \div 2 ELSE n \div 2 + Half - 2]

FromBytesOrder ==
  [n \in 1 .. N |->
    IF n = 1 THEN N - 1 ELSE IF n <= Half THEN 2 * n - 3 ELSE 2 * (n - Half - 1)]

Order == IF call = "frombytes" THEN FromBytesOrder ELSE MulOrder

\* Mutant: what leaves the last limb returns as it is.
CarriedPlain(v, n, c) ==
  [k \in Limbs |->
    IF k = n THEN v[k] - c * Radix[n] ELSE IF k = (n + 1) % N THEN v[k] + c ELSE v[k]]

\* A carry c out of limb n; what leaves the last one returns to the first.
Carried(v, n, c) ==
  [k \in Limbs |->
    IF k = n THEN v[k] - c * Radix[n]
    ELSE IF k = n + 1 THEN v[k] + c
    ELSE IF k = 0 /\ n = N - 1 THEN v[k] + c * Red
    ELSE v[k]]

Zero == [k \in Limbs |-> 0]
One  == [k \in Limbs |-> IF k = 0 THEN 1 ELSE 0]
-----------------------------------------------------------------------------
\* Arithmetic modulo P, from the digits of b of four bits, Horner's rule.
Digits == Bits \div 4 + 1

TimesMod(a, b) ==
  LET step[j \in 0 .. Digits] ==
        IF j = 0 THEN 0
        ELSE (16 * step[j - 1] + ((b \div 2^(4 * (Digits - j))) % 16) * a) % P
  IN step[Digits]

\* The residue that limbs stand for.
Residue(v) == Sum([k \in Limbs |-> TimesMod(2^Weight(k), v[k] % P)]) % P
-----------------------------------------------------------------------------
Init ==
  /\ element = [r \in {} |-> Zero] /\ residue = [r \in {} |-> 0] /\ bound = [r \in {} |-> 0]
  /\ call = "none" /\ dest = "f" /\ h = Zero /\ q = 0 /\ pc = 0 /\ want = 0 /\ calls = 0
  /\ out = <<>> /\ other = <<>> /\ at = 0 /\ differentbits = {} /\ ret = <<>>

Put(fun, r, value) == [x \in DOMAIN fun \cup {r} |-> IF x = r THEN value ELSE fun[x]]

\* A call with carries: its limbs before them, and what it is to compute.
Begin(name, r, limbs, value) ==
  /\ call' = name /\ dest' = r /\ h' = limbs /\ pc' = 1 /\ want' = value
  /\ UNCHANGED <<q, element, residue, bound, verify>>

\* A call without carries.
Simple(r, limbs, value, size) ==
  /\ element' = Put(element, r, limbs)
  /\ residue' = Put(residue, r, value % P)
  /\ bound' = Put(bound, r, size)
  /\ UNCHANGED <<call, dest, h, q, pc, want, verify>>

Idle  == call = "none"
Ready == Idle /\ DOMAIN element = {"f", "g"} /\ calls < Calls /\ calls' = calls + 1
Multiplying == call \in {"frombytes", "mul", "sq", "sq2"}
Bounded(r) == bound[r] <= MulBound

FromBytes ==
  /\ Idle
  /\ UNCHANGED calls
  /\ \E r \in {"f", "g"} \ DOMAIN element, n \in Inputs :
       /\ r = "g" => "f" \in DOMAIN element /\ n \in Others
       /\ Begin("frombytes", r, Loaded(n), (n % 2^Bits) % P)

Mul ==
  /\ Ready /\ Bounded("f") /\ Bounded("g")
  /\ Begin("mul", "f",
           Product(element["f"], element["g"]), TimesMod(residue["f"], residue["g"]))

Sq ==
  /\ Ready /\ Bounded("f")
  /\ Begin("sq", "f", Square(element["f"]), TimesMod(residue["f"], residue["f"]))

Sq2 ==
  /\ Ready /\ Bounded("f")
  /\ Begin("sq2", "f",
           Doubled(Square(element["f"])), (2 * TimesMod(residue["f"], residue["f"])) % P)

\* Mutant: sums of any size.
AddUnbounded ==
  /\ Ready
  /\ Simple("f", [k \in Limbs |-> element["f"][k] + element["g"][k]],
            residue["f"] + residue["g"], bound["f"] + bound["g"])

\* fe_add and fe_sub: here their result has to suit fe_mul, as it does in every caller.
Add ==
  /\ Ready /\ bound["f"] + bound["g"] <= MulBound
  /\ Simple("f", [k \in Limbs |-> element["f"][k] + element["g"][k]],
            residue["f"] + residue["g"], bound["f"] + bound["g"])

Sub ==
  /\ Ready /\ bound["f"] + bound["g"] <= MulBound
  /\ Simple("f", [k \in Limbs |-> element["f"][k] - element["g"][k]],
            residue["f"] - residue["g"], bound["f"] + bound["g"])

Neg ==
  /\ Ready
  /\ Simple("f", [k \in Limbs |-> -element["f"][k]], -residue["f"], bound["f"])

Copy ==
  /\ Ready
  /\ Simple("g", element["f"], residue["f"], bound["f"])

Fe0 == Ready /\ Simple("f", Zero, 0, 0)
Fe1 == Ready /\ Simple("f", One, 1, 1)

\* fe_cmov(f, g, b)
Cmov ==
  /\ Ready
  /\ \E b \in {0, 1} :
       LET r == IF b = 1 THEN "g" ELSE "f" IN Simple("f", element[r], residue[r], bound[r])

\* One line of carries.
Carry ==
  /\ Multiplying /\ pc \in DOMAIN Order
  /\ LET n == Order[pc] IN h' = Carried(h, n, (h[n] + Radix[n] \div 2) \div Radix[n])
  /\ pc' = pc + 1
  /\ UNCHANGED <<q, element, residue, bound, verify, call, dest, want, calls>>

Store ==
  /\ Multiplying /\ pc \notin DOMAIN Order
  /\ element' = Put(element, dest, h)
  /\ residue' = Put(residue, dest, want)
  /\ bound' = Put(bound, dest, Unit)
  /\ call' = "none" /\ pc' = 0
  /\ UNCHANGED <<h, q, verify, dest, want, calls>>

\* Mutant: the estimate begins with 0, as if limbs were divided by 2^Bits.
ToBytesByPower ==
  /\ Idle /\ DOMAIN element = {"f", "g"} /\ bound["f"] <= ToBytesBound
  /\ call' \in {"tobytes", "isnegative", "isnonzero"}
  /\ h' = element["f"] /\ want' = residue["f"]
  /\ q' = 0
  /\ pc' = 0
  /\ UNCHANGED <<element, residue, bound, verify, dest, calls>>

\* fe_tobytes, or a function that calls it and looks at the bytes.
ToBytes ==
  /\ Idle /\ DOMAIN element = {"f", "g"} /\ bound["f"] <= ToBytesBound
  /\ call' \in {"tobytes", "isnegative", "isnonzero"}
  /\ h' = element["f"] /\ want' = residue["f"]
  /\ q' = (Red * h'[N - 1] + Radix[N - 1] \div 2) \div Radix[N - 1]
  /\ pc' = 0
  /\ UNCHANGED <<element, residue, bound, verify, dest, calls>>

Writing == call \in {"tobytes", "isnegative", "isnonzero"} /\ out = <<>>

\* The next line of the estimate, and after the last one what it is for.
Quotient ==
  /\ Writing /\ pc \in Limbs
  /\ q' = (h[pc] + q) \div Radix[pc]
  /\ h' = IF pc = N - 1 THEN [h EXCEPT ![0] = @ + Red * q'] ELSE h
  /\ pc' = pc + 1
  /\ UNCHANGED <<element, residue, bound, verify, call, dest, want, calls>>

\* The carries of fe_tobytes; the last one is dropped.
CarryFloor ==
  /\ Writing /\ pc \in N .. 2 * N - 1
  /\ LET n == pc - N
         c == h[n] \div Radix[n]
     IN h' = [k \in Limbs |->
               IF k = n THEN h[k] - c * Radix[n] ELSE IF k = n + 1 THEN h[k] + c ELSE h[k]]
  /\ pc' = pc + 1
  /\ UNCHANGED <<q, element, residue, bound, verify, call, dest, want, calls>>

\* Byte b: the bits of a limb from its place on, and those of the next where it ends.
Byte(v, b) ==
  LET k     == CHOOSE k \in Limbs :
                 Weight(k) <= ByteBits * b /\ (k = N - 1 \/ ByteBits * b < Weight(k + 1))
      shift == ByteBits * b - Weight(k)
  IN (v[k] \div 2^shift + (IF k + 1 < N THEN v[k + 1] * 2^(W[k] - shift) ELSE 0)) % 2^ByteBits

BitsOf(n) == {b \in 0 .. ByteBits - 1 : (n \div 2^b) % 2 = 1}
Encoding(n) == [b \in 0 .. Bytes - 1 |-> (n \div 2^(ByteBits * b)) % 2^ByteBits]

\* The bytes are written; what is done with them: nothing more, the lowest bit, a
\* comparison with zero or, in ed25519_verify, with the bytes of a signature.
Pack ==
  /\ Writing /\ pc = 2 * N
  /\ out' = [b \in 0 .. Bytes - 1 |-> Byte(h, b)]
  /\ IF call = "isnegative" THEN ret' = <<out'[0] % 2>> ELSE ret' = ret
  /\ CASE call = "isnonzero" -> other' = Encoding(0)
       [] call = "tobytes"   -> other' \in {out'} \cup {Encoding(n) : n \in Others}
       [] OTHER              -> other' = other
  /\ UNCHANGED <<field, at, differentbits, call, dest, want, calls>>

Verify32 == INSTANCE CryptoVerify WITH
  Length <- Bytes, caller <- call,
  x <- [b \in 0 .. Bytes - 1 |-> BitsOf(out[b])],
  y <- [b \in 0 .. Bytes - 1 |-> BitsOf(other[b])]

Comparing == call \in {"tobytes", "isnonzero"} /\ out # <<>>

VerifyByte ==
  /\ Comparing /\ UNCHANGED <<field, out, other, call, dest, want, calls>>
  /\ Verify32!VerifyByte

VerifyReturn ==
  /\ Comparing /\ UNCHANGED <<field, out, other, call, dest, want, calls>>
  /\ Verify32!Return


\* A caller stops between two calls.
Finished == (Idle \/ ret # <<>>) /\ UNCHANGED vars

Next ==
  \/ FromBytes \/ Mul \/ Sq \/ Sq2 \/ Add \/ Sub \/ Neg \/ Copy \/ Fe0 \/ Fe1 \/ Cmov
  \/ Carry \/ Store
  \/ ToBytes \/ Quotient \/ CarryFloor \/ Pack \/ VerifyByte \/ VerifyReturn \/ Finished

Spec == Init /\ [][Next]_vars
-----------------------------------------------------------------------------
\* fe_mul.c, fe_sq.c, fe_sq2.c and fe_frombytes.c: no carry, and no call on elements whose
\* limbs are not normalised, changes the number modulo p that the limbs stand for.
ValueKept ==
  /\ \A r \in DOMAIN element : Residue(element[r]) = residue[r]
  /\ Multiplying => Residue(h) = want

\* "Postconditions: |h| bounded by" of fe_mul.c and its likes, which the calls after them
\* rely on: twelve carries are enough, and sums of what they leave are as large as counted.
WithinBounds ==
  \A r \in DOMAIN element : \A k \in Limbs :
    LET size == IF Odd(k) THEN 2 * element[r][k] ELSE element[r][k]
    IN -bound[r] <= size /\ size <= bound[r]

\* "from now on fits into int32" and the like: nothing in fe_* leaves its integer type, neither
\* the multiples of limbs that fe_mul precomputes ("still ok"), nor the limbs of a product
\* with the rounding of a carry, nor the estimate of fe_tobytes.
NoOverflow ==
  /\ \A r \in DOMAIN element : \A k \in Limbs :
       LET size == (IF Odd(k) THEN 2 * Red ELSE Red) * element[r][k]
       IN -IntMax <= size /\ size <= IntMax
  /\ Multiplying => \A k \in Limbs : -LongMax <= h[k] /\ h[k] + Radix[k] \div 2 <= LongMax
  /\ Writing => \A k \in Limbs : -IntMax <= h[k] + q /\ h[k] + q <= IntMax

\* The claim of fe_tobytes.c, q = floor(h / p): whatever limbs an element has come to have,
\* its bytes are those of the residue below p.
Encodes == out # <<>> => out = Encoding(want)

\* fe_isnegative and crypto_verify_32 after fe_tobytes decide about the residue and not about
\* limbs: its parity, whether it is zero, whether its encoding is the one compared with.
VerdictTells ==
  ret # <<>> =>
    ret = CASE call = "isnegative" -> <<want % 2>>
            [] call = "isnonzero"  -> <<IF want = 0 THEN 0 ELSE -1>>
            [] OTHER               -> <<IF other = Encoding(want) THEN 0 ELSE -1>>
=============================================================================
