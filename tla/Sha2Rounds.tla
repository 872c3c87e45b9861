----------------------------- MODULE Sha2Rounds -----------------------------
(***************************************************************************)
(* The compression functions of sha2_sphlib, sha2_round of sha2.c and      *)
(* sha3_round of sha2_big.c, RFUN of md_helper.i.  Neither moves its eight *)
(* working variables along: each step is written with the names one place  *)
(* further round, and changes two of them.  sha2.c keeps sixteen words of  *)
(* the schedule and writes a new one over the oldest; sha2_big.c computes  *)
(* all eighty first.                                                       *)
(***************************************************************************)
EXTENDS Words

CONSTANTS
  Blocks,         \* by the width of a word, what data may hold: sixteen words from 0
  MaxCalls        \* bound on the blocks given to one context

VARIABLES
  kind,           \* which of the four functions
  r,              \* the field val of the context, eight words from 0
  data,           \* the block of the call, or <<>>
  W,              \* the words of W that are written, W00 to W15 for sha2.c
  reg,            \* A to H
  n,              \* words of W, and then steps, that are done
  pc,             \* "idle", "expand" or "step"
  calls

vars == <<kind, r, data, W, reg, n, pc, calls>>

Width == [sha224 |-> 32, sha256 |-> 32, sha384 |-> 64, sha512 |-> 64]
w     == Width[kind]
Big   == w = 64

Table(rows) == [k \in DOMAIN rows |-> Number(rows[k])]

H224 == Table(<<
  <<\hC105, \h9ED8>>, <<\h367C, \hD507>>, <<\h3070, \hDD17>>, <<\hF70E, \h5939>>,
  <<\hFFC0, \h0B31>>, <<\h6858, \h1511>>, <<\h64F9, \h8FA7>>, <<\hBEFA, \h4FA4>>>>)

\* Mutant: two digits in each other's place.
H256_swapped == Table(<<
  <<\h6A09, \hE667>>, <<\hBB67, \hA8E5>>, <<\h3C6E, \hF372>>, <<\hA54F, \hF53A>>,
  <<\h510E, \h527F>>, <<\h9B05, \h688C>>, <<\h1F83, \hD9AB>>, <<\h5BE0, \hCD19>>>>)

H256 == Table(<<
  <<\h6A09, \hE667>>, <<\hBB67, \hAE85>>, <<\h3C6E, \hF372>>, <<\hA54F, \hF53A>>,
  <<\h510E, \h527F>>, <<\h9B05, \h688C>>, <<\h1F83, \hD9AB>>, <<\h5BE0, \hCD19>>>>)

\* The constants of sha2.c, which are written out in the steps unless the footprint is
\* to be small.
K == Table(<<
  <<\h428A, \h2F98>>, <<\h7137, \h4491>>, <<\hB5C0, \hFBCF>>, <<\hE9B5, \hDBA5>>,
  <<\h3956, \hC25B>>, <<\h59F1, \h11F1>>, <<\h923F, \h82A4>>, <<\hAB1C, \h5ED5>>,
  <<\hD807, \hAA98>>, <<\h1283, \h5B01>>, <<\h2431, \h85BE>>, <<\h550C, \h7DC3>>,
  <<\h72BE, \h5D74>>, <<\h80DE, \hB1FE>>, <<\h9BDC, \h06A7>>, <<\hC19B, \hF174>>,
  <<\hE49B, \h69C1>>, <<\hEFBE, \h4786>>, <<\h0FC1, \h9DC6>>, <<\h240C, \hA1CC>>,
  <<\h2DE9, \h2C6F>>, <<\h4A74, \h84AA>>, <<\h5CB0, \hA9DC>>, <<\h76F9, \h88DA>>,
  <<\h983E, \h5152>>, <<\hA831, \hC66D>>, <<\hB003, \h27C8>>, <<\hBF59, \h7FC7>>,
  <<\hC6E0, \h0BF3>>, <<\hD5A7, \h9147>>, <<\h06CA, \h6351>>, <<\h1429, \h2967>>,
  <<\h27B7, \h0A85>>, <<\h2E1B, \h2138>>, <<\h4D2C, \h6DFC>>, <<\h5338, \h0D13>>,
  <<\h650A, \h7354>>, <<\h766A, \h0ABB>>, <<\h81C2, \hC92E>>, <<\h9272, \h2C85>>,
  <<\hA2BF, \hE8A1>>, <<\hA81A, \h664B>>, <<\hC24B, \h8B70>>, <<\hC76C, \h51A3>>,
  <<\hD192, \hE819>>, <<\hD699, \h0624>>, <<\hF40E, \h3585>>, <<\h106A, \hA070>>,
  <<\h19A4, \hC116>>, <<\h1E37, \h6C08>>, <<\h2748, \h774C>>, <<\h34B0, \hBCB5>>,
  <<\h391C, \h0CB3>>, <<\h4ED8, \hAA4A>>, <<\h5B9C, \hCA4F>>, <<\h682E, \h6FF3>>,
  <<\h748F, \h82EE>>, <<\h78A5, \h636F>>, <<\h84C8, \h7814>>, <<\h8CC7, \h0208>>,
  <<\h90BE, \hFFFA>>, <<\hA450, \h6CEB>>, <<\hBEF9, \hA3F7>>, <<\hC671, \h78F2>>>>)

H384 == Table(<<
  <<\hCBBB, \h9D5D, \hC105, \h9ED8>>, <<\h629A, \h292A, \h367C, \hD507>>, <<\h9159, \h015A, \h3070, \hDD17>>,
  <<\h152F, \hECD8, \hF70E, \h5939>>, <<\h6733, \h2667, \hFFC0, \h0B31>>, <<\h8EB4, \h4A87, \h6858, \h1511>>,
  <<\hDB0C, \h2E0D, \h64F9, \h8FA7>>, <<\h47B5, \h481D, \hBEFA, \h4FA4>>>>)

H512 == Table(<<
  <<\h6A09, \hE667, \hF3BC, \hC908>>, <<\hBB67, \hAE85, \h84CA, \hA73B>>, <<\h3C6E, \hF372, \hFE94, \hF82B>>,
  <<\hA54F, \hF53A, \h5F1D, \h36F1>>, <<\h510E, \h527F, \hADE6, \h82D1>>, <<\h9B05, \h688C, \h2B3E, \h6C1F>>,
  <<\h1F83, \hD9AB, \hFB41, \hBD6B>>, <<\h5BE0, \hCD19, \h137E, \h2179>>>>)

K512 == Table(<<
  <<\h428A, \h2F98, \hD728, \hAE22>>, <<\h7137, \h4491, \h23EF, \h65CD>>, <<\hB5C0, \hFBCF, \hEC4D, \h3B2F>>,
  <<\hE9B5, \hDBA5, \h8189, \hDBBC>>, <<\h3956, \hC25B, \hF348, \hB538>>, <<\h59F1, \h11F1, \hB605, \hD019>>,
  <<\h923F, \h82A4, \hAF19, \h4F9B>>, <<\hAB1C, \h5ED5, \hDA6D, \h8118>>, <<\hD807, \hAA98, \hA303, \h0242>>,
  <<\h1283, \h5B01, \h4570, \h6FBE>>, <<\h2431, \h85BE, \h4EE4, \hB28C>>, <<\h550C, \h7DC3, \hD5FF, \hB4E2>>,
  <<\h72BE, \h5D74, \hF27B, \h896F>>, <<\h80DE, \hB1FE, \h3B16, \h96B1>>, <<\h9BDC, \h06A7, \h25C7, \h1235>>,
  <<\hC19B, \hF174, \hCF69, \h2694>>, <<\hE49B, \h69C1, \h9EF1, \h4AD2>>, <<\hEFBE, \h4786, \h384F, \h25E3>>,
  <<\h0FC1, \h9DC6, \h8B8C, \hD5B5>>, <<\h240C, \hA1CC, \h77AC, \h9C65>>, <<\h2DE9, \h2C6F, \h592B, \h0275>>,
  <<\h4A74, \h84AA, \h6EA6, \hE483>>, <<\h5CB0, \hA9DC, \hBD41, \hFBD4>>, <<\h76F9, \h88DA, \h8311, \h53B5>>,
  <<\h983E, \h5152, \hEE66, \hDFAB>>, <<\hA831, \hC66D, \h2DB4, \h3210>>, <<\hB003, \h27C8, \h98FB, \h213F>>,
  <<\hBF59, \h7FC7, \hBEEF, \h0EE4>>, <<\hC6E0, \h0BF3, \h3DA8, \h8FC2>>, <<\hD5A7, \h9147, \h930A, \hA725>>,
  <<\h06CA, \h6351, \hE003, \h826F>>, <<\h1429, \h2967, \h0A0E, \h6E70>>, <<\h27B7, \h0A85, \h46D2, \h2FFC>>,
  <<\h2E1B, \h2138, \h5C26, \hC926>>, <<\h4D2C, \h6DFC, \h5AC4, \h2AED>>, <<\h5338, \h0D13, \h9D95, \hB3DF>>,
  <<\h650A, \h7354, \h8BAF, \h63DE>>, <<\h766A, \h0ABB, \h3C77, \hB2A8>>, <<\h81C2, \hC92E, \h47ED, \hAEE6>>,
  <<\h9272, \h2C85, \h1482, \h353B>>, <<\hA2BF, \hE8A1, \h4CF1, \h0364>>, <<\hA81A, \h664B, \hBC42, \h3001>>,
  <<\hC24B, \h8B70, \hD0F8, \h9791>>, <<\hC76C, \h51A3, \h0654, \hBE30>>, <<\hD192, \hE819, \hD6EF, \h5218>>,
  <<\hD699, \h0624, \h5565, \hA910>>, <<\hF40E, \h3585, \h5771, \h202A>>, <<\h106A, \hA070, \h32BB, \hD1B8>>,
  <<\h19A4, \hC116, \hB8D2, \hD0C8>>, <<\h1E37, \h6C08, \h5141, \hAB53>>, <<\h2748, \h774C, \hDF8E, \hEB99>>,
  <<\h34B0, \hBCB5, \hE19B, \h48A8>>, <<\h391C, \h0CB3, \hC5C9, \h5A63>>, <<\h4ED8, \hAA4A, \hE341, \h8ACB>>,
  <<\h5B9C, \hCA4F, \h7763, \hE373>>, <<\h682E, \h6FF3, \hD6B2, \hB8A3>>, <<\h748F, \h82EE, \h5DEF, \hB2FC>>,
  <<\h78A5, \h636F, \h4317, \h2F60>>, <<\h84C8, \h7814, \hA1F0, \hAB72>>, <<\h8CC7, \h0208, \h1A64, \h39EC>>,
  <<\h90BE, \hFFFA, \h2363, \h1E28>>, <<\hA450, \h6CEB, \hDE82, \hBDE9>>, <<\hBEF9, \hA3F7, \hB2C6, \h7915>>,
  <<\hC671, \h78F2, \hE372, \h532B>>, <<\hCA27, \h3ECE, \hEA26, \h619C>>, <<\hD186, \hB8C7, \h21C0, \hC207>>,
  <<\hEADA, \h7DD6, \hCDE0, \hEB1E>>, <<\hF57D, \h4F7F, \hEE6E, \hD178>>, <<\h06F0, \h67AA, \h7217, \h6FBA>>,
  <<\h0A63, \h7DC5, \hA2C8, \h98A6>>, <<\h113F, \h9804, \hBEF9, \h0DAE>>, <<\h1B71, \h0B35, \h131C, \h471B>>,
  <<\h28DB, \h77F5, \h2304, \h7D84>>, <<\h32CA, \hAB7B, \h40C7, \h2493>>, <<\h3C9E, \hBE0A, \h15C9, \hBEBC>>,
  <<\h431D, \h67C4, \h9C10, \h0D4C>>, <<\h4CC5, \hD4BE, \hCB3E, \h42B6>>, <<\h597F, \h299C, \hFC65, \h7E2A>>,
  <<\h5FCB, \h6FAB, \h3AD6, \hFAEC>>, <<\h6C44, \h198C, \h4A47, \h5817>>>>)

CH(X, Y, Z)    == Xor(Xor(Y, Z) \cap X, Z)
MAJ(X, Y, Z)   == (Y \cap Z) \cup ((Y \cup Z) \cap X)
MAJ64(X, Y, Z) == (X \cap Y) \cup ((X \cup Y) \cap Z)

BSG2_0(x) == Xor(Xor(Rotr(32, x, 2), Rotr(32, x, 13)), Rotr(32, x, 22))
BSG2_1(x) == Xor(Xor(Rotr(32, x, 6), Rotr(32, x, 11)), Rotr(32, x, 25))
SSG2_0(x) == Xor(Xor(Rotr(32, x, 7), Rotr(32, x, 18)), Shr(x, 3))
SSG2_1(x) == Xor(Xor(Rotr(32, x, 17), Rotr(32, x, 19)), Shr(x, 10))
BSG5_0(x) == Xor(Xor(Rotr(64, x, 28), Rotr(64, x, 34)), Rotr(64, x, 39))
BSG5_1(x) == Xor(Xor(Rotr(64, x, 14), Rotr(64, x, 18)), Rotr(64, x, 41))
SSG5_0(x) == Xor(Xor(Rotr(64, x, 1), Rotr(64, x, 8)), Shr(x, 7))
SSG5_1(x) == Xor(Xor(Rotr(64, x, 19), Rotr(64, x, 61)), Shr(x, 6))

\* sph_*_init: the context as any number of blocks finds it.
InitialValue ==
  LET table == [sha224 |-> H224, sha256 |-> H256, sha384 |-> H384, sha512 |-> H512]
  IN [k \in 0 .. 7 |-> table[kind][k + 1]]

Init ==
  /\ kind \in DOMAIN Width
  /\ r = InitialValue
  /\ data = <<>> /\ W = <<>> /\ reg = InitialValue /\ n = 0 /\ pc = "idle" /\ calls = 0

Call ==
  /\ pc = "idle" /\ calls < MaxCalls
  /\ data' \in Blocks[w]
  /\ reg' = r /\ W' = <<>> /\ n' = 0
  /\ pc' = IF Big THEN "expand" ELSE "step"
  /\ calls' = calls + 1
  /\ UNCHANGED <<kind, r>>

\* The register that the n-th step names as its k-th, k = 0 for a and 7 for h.
Role(k) == (k - n) % 8
Reg(k)  == reg[Role(k)]

\* What a step does to d and h.
Turned(T1, T2) ==
  [reg EXCEPT ![Role(3)] = Sum(w, <<@, T1>>), ![Role(7)] = Sum(w, <<T1, T2>>)]

\* Word j of W is set.
Put(j, word) == [k \in DOMAIN W \cup {j} |-> IF k = j THEN word ELSE W[k]]

\* A step of sha2.c, with its word of the schedule.
SHA2_STEP(word) ==
  /\ W' = Put(n % 16, word)
  /\ reg' = Turned(Sum(32, <<Reg(7), BSG2_1(Reg(4)), CH(Reg(4), Reg(5), Reg(6)),
                             K[n + 1], word>>),
                   Sum(32, <<BSG2_0(Reg(0)), MAJ(Reg(0), Reg(1), Reg(2))>>))
  /\ n' = n + 1
  /\ UNCHANGED <<kind, r, data, pc, calls>>

\* The first sixteen read the block, the others the ring.
SHA2_STEP1 == pc = "step" /\ ~Big /\ n < 16 /\ SHA2_STEP(data[n])

SHA2_STEP2 ==
  /\ pc = "step" /\ ~Big /\ 16 <= n /\ n < 64
  /\ SHA2_STEP(Sum(32, <<SSG2_1(W[(n - 2) % 16]), W[(n - 7) % 16],
                         SSG2_0(W[(n - 15) % 16]), W[n % 16]>>))

\* W[i] of sha2_big.c.  Mutant: for W[i - 15], W[i - 14].
ExpandedLate(i) ==
  IF i < 16 THEN data[i]
  ELSE Sum(64, <<SSG5_1(W[i - 2]), W[i - 7], SSG5_0(W[i - 14]), W[i - 16]>>)
Expanded(i) ==
  IF i < 16 THEN data[i]
  ELSE Sum(64, <<SSG5_1(W[i - 2]), W[i - 7], SSG5_0(W[i - 15]), W[i - 16]>>)

Expand ==
  /\ pc = "expand"
  /\ W' = Put(n, Expanded(n))
  /\ IF n = 79 THEN n' = 0 /\ pc' = "step" ELSE n' = n + 1 /\ pc' = pc
  /\ UNCHANGED <<kind, r, data, reg, calls>>

SHA3_STEP ==
  /\ pc = "step" /\ Big /\ n < 80
  /\ reg' = Turned(Sum(64, <<Reg(7), BSG5_1(Reg(4)), CH(Reg(4), Reg(5), Reg(6)),
                             K512[n + 1], W[n]>>),
                   Sum(64, <<BSG5_0(Reg(0)), MAJ64(Reg(0), Reg(1), Reg(2))>>))
  /\ n' = n + 1
  /\ UNCHANGED <<kind, r, data, W, pc, calls>>

Return ==
  /\ pc = "step" /\ n = (IF Big THEN 80 ELSE 64)
  /\ r' = [k \in 0 .. 7 |-> Trunc(w, Plus(r[k], reg[k]))]
  /\ data' = <<>> /\ pc' = "idle" /\ reg' = r' /\ W' = <<>> /\ n' = 0
  /\ UNCHANGED <<kind, calls>>

\* The bound on calls.
Done == pc = "idle" /\ calls = MaxCalls /\ UNCHANGED vars

Next == Call \/ SHA2_STEP1 \/ SHA2_STEP2 \/ Expand \/ SHA3_STEP \/ Return \/ Done
Spec == Init /\ [][Next]_vars
-----------------------------------------------------------------------------
\* The last words of the schedule before W[n], and no word while the code only expands.
Recent ==
  LET m == IF pc = "step" /\ n > 16 THEN 16 ELSE IF pc = "step" THEN n ELSE 0
  IN [j \in 1 .. m |-> W[LET i == n - m + j - 1 IN IF Big THEN i ELSE i % 16]]

Standard ==
  INSTANCE Sha2Standard WITH
    K <- [sha224 |-> K, sha256 |-> K, sha384 |-> K512, sha512 |-> K512],
    H <- r, message <- data,
    v <- IF pc = "step" THEN [k \in 0 .. 7 |-> Reg(k)] ELSE r,
    t <- IF pc = "step" THEN n ELSE 0, recent <- Recent

\* Block after block the value of the context changes as FIPS 180-4 says, in both files:
\* the variables are back under their own names when they are added to r, and the word
\* that a ring of sixteen gives up is not needed any more.
ImplementsStandard == Standard!Spec

\* x holds the first bits, w of them, of the fractional part of the k-th root of p.
IsRoot(x, bits, k, p) ==
  LET whole  == CHOOSE q \in 1 .. 20 : q^k <= p /\ p < (q + 1)^k
      X      == x \cup {b + bits : b \in Number(<<whole>>)}
      scaled == {b + k * bits : b \in Number(<<p>>)}
  IN ~Less(scaled, Power(X, k)) /\ Less(scaled, Power(Plus(X, {0}), k))

IsPrime(p) == p > 1 /\ \A q \in 2 .. p - 1 : p % q # 0

\* The prime that i others precede, for i < 80.
Prime(i) ==
  CHOOSE p \in 2 .. 409 : IsPrime(p) /\ Cardinality({q \in 2 .. p - 1 : IsPrime(q)}) = i

\* The six tables are the ones of FIPS 180-4, which is to say the first bits of the cube
\* roots of the first primes, and for the initial values of square roots; those of
\* sha224 are the low halves of those of sha384.
ConstantsAreRoots ==
  calls = 0 =>
    CASE kind = "sha224" -> \A k \in 0 .. 7 : r[k] = Trunc(32, H384[k + 1])
      [] kind = "sha256" -> /\ \A k \in 0 .. 7  : IsRoot(r[k], 32, 2, Prime(k))
                            /\ \A k \in 0 .. 63 : IsRoot(K[k + 1], 32, 3, Prime(k))
      [] kind = "sha384" -> \A k \in 0 .. 7 : IsRoot(r[k], 64, 2, Prime(k + 8))
      [] kind = "sha512" -> /\ \A k \in 0 .. 7  : IsRoot(r[k], 64, 2, Prime(k))
                            /\ \A k \in 0 .. 79 : IsRoot(K512[k + 1], 64, 3, Prime(k))
=============================================================================
