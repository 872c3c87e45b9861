# A specification of iroha-ed25519

TLA+ models of this library, the TLC configurations that check them on small
instances, and theorems about them that the TLA+ proof system checks.  Paths
are relative to `src/`, the root of the repository.

## 1. The system

The library is `ed25519` (four calls, two implementations), a hash behind
`sha256.h` and `sha512.h` (three implementations) and a source of randomness
behind `randombytes.h` (four implementations).  CMake links one of each.

| Component | State | Operations | Talks to |
|---|---|---|---|
| randombytes backends, `lib/randombytes/*` | locals `source`, `completed`; the process's descriptor table; the kernel's entropy pool | `randombytes(p, len)` | open, read, close; RAND_bytes; BCryptGenRandom |
| SHA-3 sponge, `lib/hash/sha3_brainhub` | `sha3_context`: `saved`, `byteIndex`, `wordIndex`, `capacityWords`, `s` | `sha3_Init*`, `sha3_Update`, `sha3_Finalize`, wrappers `sha256_*`, `sha512_*` | `sha_context.opaque` of the caller |
| SHA-2 of sphlib, `lib/hash/sha2_sphlib` | `buf`, `val`, `count` | init, update, `addbits_and_close`, wrappers | the same |
| SHA-2 of OpenSSL, `lib/hash/sha2_openssl` | none | wrappers | OpenSSL |
| Ed25519 API, `lib/ed25519/*/ed25519.c` | none of its own: the caller's buffers | `ed25519_create_keypair`, `_derive_public_key`, `_sign`, `_verify` | randombytes, sha512, arithmetic |
| ref10 arithmetic, `lib/ed25519/ref10` | limbs | `sc_reduce`, `sc_muladd`, `ge_scalarmult_base`, `ge_double_scalarmult_vartime`, `ge_frombytes_negate_vartime`, `ge_tobytes`, `fe_*` | |
| amd64 arithmetic, `lib/ed25519/amd64-64-24k-pic` | limbs | `sc25519_*`, `ge25519_*`, `fe25519_*`, in C and assembly | |
| `crypto_verify.h` | none | `crypto_verify_32` | |
| build selection, tests, example, benchmark, fuzz, util, tables | | | |

No part of the library keeps state between calls.  What makes it hard is:

- **randombytes**: system calls that deliver less than asked for, or fail half
  way; threads that share one descriptor table and one entropy pool; a busy wait.
- **hash contexts**: messages arrive in pieces of any length; pieces, words and
  blocks end at different places; padding has boundary cases; contexts are reused.
- **Ed25519**: memory is the caller's.  A call reads a buffer, writes another and
  reads the first again; keys and messages are overwritten between calls; key
  generation may fail after half of its work.  Two libraries with different
  clamping, scalar reduction and range of intermediate values must agree to the bit.
- **arithmetic**: limbs that are signed and not normalised, so that an element has many
  forms; carries in an order that keeps every limb in its integer type; reductions that
  are just enough, quotients that are estimated; square roots with two answers, representations of a point that lack what the next formula reads, digits
  that have no entry in a table.

What makes each part correct:

- randombytes: success only with a full buffer; no descriptor leaked, shared or
  closed twice; every call returns.
- hash: the digest is a function of the concatenation of what was fed since init,
  the hash of the standard; distinct messages stay distinct after padding.
- Ed25519: pairs stay pairs; what was signed with a pair verifies, with both
  libraries, as long as its buffers are left alone; the responses accepted are
  characterised; the libraries are interchangeable.
- hash, inside: keccakf and the compression functions are those of the standards, although
  they work in place, along tables, on a ring of words and with names that rotate.
- limbs: no carry changes the number a form stands for, nothing overflows, and what is
  written (bytes, parity, a verdict) depends on the number and not on its form.
- arithmetic: every word decodes to the same point or is refused by both libraries;
  what is encoded is the least encoding; formulas implement the group law; recodings
  keep the value and stay in the tables; the ladders compute what they are named for.

## 2. Modules

| Module | Models | Kind |
|---|---|---|
| `RandomBytes` | what `include/ed25519/ed25519/randombytes.h` promises | abstract specification |
| `RandomDevice` | what `random.c` and `urandom.c` share: open, failing open, failing read, close, return | component |
| `DevRandom` | `lib/randombytes/random/random.c` | component, implements `RandomBytes` |
| `DevUrandom` | `lib/randombytes/urandom/urandom.c` | component |
| `RandomLibrary` | `lib/randombytes/openssl/randombytes.c`, `lib/randombytes/bcryptgen/randombytes.c` | component; the second implements `RandomBytes` |
| `HashStream` | the streaming interface of `sha256.h`, `sha512.h` | abstract specification |
| `Sha3Sponge` | `lib/hash/sha3_brainhub/sha3.c` | component, implements `HashStream` |
| `ShaMd` | `lib/hash/sha2_sphlib/md_helper.i`, as `sha2.c` and `sha2_big.c` include it | component, implements `HashStream` |
| `Words` | words of 32 and 64 bits as sets of the places of their 1 bits: rotations, sums with carries, numbers in hexadecimal | definitions |
| `KeccakF` | `keccakf` of `sha3.c`, loop by loop at its real size, beside the round of FIPS 202 | component |
| `Sha2Standard` | 6.2 and 6.4 of FIPS 180-4: a hash computation step by step | abstract specification |
| `Sha2Rounds` | `sha2_round` of `sha2.c`, `sha3_round` of `sha2_big.c`, their tables and `*_init`, at their real size | component, implements `Sha2Standard` |
| `Ed25519` | both `ed25519.c`, `sc25519_from32bytes.c`, and by their functions `sc_reduce`, `sc_muladd`, `ge_scalarmult_base`, `ge_double_scalarmult_vartime` | component |
| `Edwards` | `ge_*.h`, `ge_frombytes.c`, `ge_tobytes.c` of ref10, `ge25519_*.c` and `.s` of amd64: the formulas as operators, over a field of any size | definitions |
| `CurveGroup` | what these functions do to the point that is represented | abstract specification |
| `PointOps` | a point as it goes through decoding, formulas and encoding, in any order its representation allows | component, implements `CurveGroup` |
| `ScalarMult` | what the scalar multiplications have in common: library, scalar, base point, program counter and index | definitions |
| `Slide` | `slide` of `ge_double_scalarmult.c`, `sc25519_slide.c` | component |
| `DoubleScalarMult` | `ge_double_scalarmult.c`, `ge25519_double_scalarmult.c`: slide twice, the table, the ladder | composes two `Slide` and `Edwards` |
| `ScalarMultBase` | `ge_scalarmult_base.c`; `ge25519_scalarmult_base.c`, `sc25519_window4.c`, `choose_t.s` | component |
| `AdditionChain` | `pow22523.h`, `pow225521.h`, `fe25519_pow2523.c`, `fe25519_invert.c` | component |
| `CryptoVerify` | `crypto_verify.h`, `fe_isnonzero.c` | component |
| `ScalarLimbs` | `sc_reduce.c`, `sc_muladd.c`, statement by statement | component |
| `FieldLimbs` | `fe_*.c` of ref10: `fe_frombytes`, `fe_tobytes`, `fe_mul`, `fe_sq`, `fe_sq2`, `fe_add`, `fe_sub`, `fe_neg`, `fe_copy`, `fe_0`, `fe_1`, `fe_cmov`, `fe_isnegative`, `fe_isnonzero`, carry by carry | composes the limbs with `CryptoVerify` |
| `Sums` | sums of digits and of limbs | definitions |
| `MCEd25519`, `MCShaMd`, `MCPointOps`, `MCDoubleScalarMult`, `MCScalarMultBase`, `MCScalarLimbs`, `MCFieldLimbs` | values for constants | for TLC |
| `MCStraightLine` | runs `AdditionChain`, `KeccakF` or `Sha2Rounds`, which have no constants to choose | for TLC |
| `RandomProofs`, `Ed25519Proofs` | theorems about the modules they are named for | proofs |
| `Sha3SpongeProofs` | theorems about `Sha3Sponge` and, at its end, `KeccakF` alone | proofs |
| `ShaMdProofs` | theorems about `ShaMd` and, at its end, `Sha2Rounds` alone | proofs |
| `CurveProofs` | theorems about `Edwards`, `PointOps` and `CurveGroup`, `DoubleScalarMult` and its two `Slide`, and `ScalarMultBase`; that the points of `Ed25519` are theirs | proofs |
| `ScalarLimbsProofs` | theorems about `ScalarLimbs` | proofs |
| `FieldLimbsProofs` | theorems about `FieldLimbs` and, at its end, `CryptoVerify` alone | proofs |
| `NumberTheorems` | lemmas about sums, powers of two, quotients and remainders, for the proofs above | proofs |

### randombytes

One step is one system call, taken by one of several threads (`pc[c]` names the
call a thread is at).  `openFds` is the process's descriptor table; `open` hands
out the lowest free descriptor, as POSIX says, or fails.  `filled[c]` is the set of
offsets the call wrote; the bytes themselves do not matter.  In `DevRandom`, a
read returns 1 to `pool` bytes, at most what was asked for; with an empty pool it
returns 0 and the loop goes round (`ReadNothing`); `Refill` is the kernel.  In
`DevUrandom` the one read returns any number up to `len`.  `RandomLibrary` has one
step for the library call, which either fills the buffer or leaves any part of it
written and returns one of its failure codes.

`RandomBytes` lets a call write any bytes of its buffer while it runs, and return
non-0 only if all are written.  The mapping is `active[c] = (pc[c] # "idle")`,
`want = len`.

### SHA-3

Bytes are sets of bits, so `|` is union and `^` is symmetric difference, bit for
bit.  keccakf is an unknown permutation: the state is represented by the sequence
`blocks` of what was XORed in before each keccakf since init, and by `block`, what
was XORed in since the last.  (Equality of these is equality of digests for one
particular keccakf only up to its collisions: the model speaks of what is absorbed.)
`sha3_Update` is one step per loop iteration; `pc` names the loop, `todo` its
counter, `left` is what remains of `len`, `fed` the bytes passed to update since
init.  `Sha3` is the definition of FIPS 202 on whole messages: pad, cut into
blocks, absorb.  The refinement mapping to `HashStream` is `msg <- fed`,
`Digest <- Sha3`.  Calls on one context are sequential, as the interface requires;
update and final are called on a context that was initialised.

### SHA-2

`ShaMd` is built like `Sha3Sponge`: `val` is represented by the initial value (`kind`)
and the sequence `blocks` of what the compression function was given; a step is one
iteration of a loop.  `pc` tells the loop of `_short` ("short"), the test of the
alignment ("align") and the loop that takes blocks straight from the data ("blocks");
`rest` is where `_short` returns to.  Whether data is aligned is the application's
choice and is left open (`TakeAligned` or `TakeMisaligned`); a build with
`SPH_UNALIGNED` has no such test.  In the loop "blocks" `count` lags behind, as it
does in the code, which adds `orig_len` at its end.  `Big` chooses between `BE32`, where
the length is one word of twice the size, and `BE64`, where the code closes with
`count >> 61` and `count << 3`; `CountMod` is the width of `count`, 64 bits in both.  The mapping is `msg <- fed`, `Digest <- Sha2`, the
latter being the padding of FIPS 180 on whole messages.

### keccakf and the compression functions

The two contexts above treat what they feed as unknown; these models are what it is.  A
word is the set of the places of its 1 bits, so that `^`, `&`, `|` and rotations are
operations on sets, and `Plus` adds with carries; nothing is scaled down.  `KeccakF` has one
step per lane of the loop rho-pi, which moves the lanes along `keccakf_piln` with one in hand,
per row of chi, and one for theta and for iota.  `Round` is the five steps of FIPS 202, with
offsets, path and constants from their definitions (the walk over the lanes, the shift
register), so that the tables of the code are checked too.  `Sha2Rounds` has one step per
step of the code.  `Role(k)` is the register that the n-th step names as its k-th, since the
code renames the eight variables and moves none; `W` is a ring of sixteen words for
`sha2.c` and an array of eighty for `sha2_big.c`.  `Sha2Standard` moves its variables and
keeps sixteen words of the schedule; the mapping reads them through `Role` and the ring.

### Ed25519

`mem` is the memory the caller's buffers lie in, one word per 32 bytes.  A
private or public key is one word, a signature two (`R`, `S`), a message any
number; a message may lie inside a signature, since nothing in `ed25519.h`
excludes it.  Keys, private and public, do not overlap one another or a signature.
Every call is one step: the library has no shared state, and a buffer being
written by one thread while another reads it is outside of what C defines.  Inside
a step the order of reads and writes of the code is kept (`Signed`: hash, write R,
hash again, write S).

The points are the group Z_8L with base point 8, of order L: Curve25519's group is
cyclic of order 8L, and the base point generates the subgroup of order L.  `Hash`,
`Encode` and `Decode` are parameters; of `Decode` it is assumed only that it inverts
`Encode`, so that words decode to a point in more than one way (the code accepts
y >= p) or not at all; `CodecOfCurve` proves this of `Edwards`.  `E` stands for 2^253: words are below 8E, `sig->data[63] & 224`
is `S < E`, bit 254 is 2E, the masks 63 and 127 keep 2E and 4E.

`keys` and `made` are history variables: the pairs made by a call and the signatures
made with such a pair, until one of the cells concerned is written again.

### Points

In `Edwards` a field element is its value mod `P`; limbs and their bounds are not in
it.  The operators carry the names of the C functions: `GeAdd`, `GeSub`, `GeMadd`,
`GeMsub`, `GeDbl`, `P1P1ToP3`, `FromBytesNegate` (ref10), `UnpackNeg` (amd64), `ToBytes`.
A word is y and the sign bit, so that y may be `P` or more.  `Curve`, `AffineAdd` and
`Times` are the reference: the equation and the addition law in affine coordinates.

`PointOps` holds one register in one of the forms "bytes", "p3", "p2" and "p1p1", and
every function is an action that needs the form its C argument has: in C a p2 cannot
be added to, because it has no T.  `call` is a history variable with the last call and
its operand, which is what `CurveGroup` speaks of.  Operands come with several values of Z,
as results of earlier calls do.

### Scalars

`Slide` starts from the bits of any scalar; ref10 and amd64 differ in when they look
for a zero and in the largest digit.  `Carried` is the loop over k.  `DoubleScalarMult`
is the whole function: it runs `Slide` for a and then for b (`SlideA`, `SlideB`, two
instances over one pair of loop variables), fills the table of odd multiples of A, and
walks down the digits in coordinates.

`ScalarMultBase` contains both recodings into digits of four bits.  ref10's tables are for
every other digit and hold 2dxy; amd64 has a table for each digit, and the entries of
the first hold 2xy instead, since the first addition is replaced by building the
point (X, Y, 2, T) from the entry by hand.  (That the tables in the repository are these
was computed from `ge25519_base_niels.data`; it is an assumption of the model.)

### Limbs

`ScalarLimbs` and `FieldLimbs` have one step per statement of the code that folds or carries.
In `ScalarLimbs` the statements come in groups (`Loops`: what one does, the limbs it does it
to, the group that follows); `x` is the number the call is to reduce.  Limbs are signed
integers; that `crypto_int64` holds them, the products of a fold and the sums that are rounded,
for which the code has no comment, is `NoOverflow`.  L is built from the
coefficients of the folds, as it is in the code: `Radix^N` is `Coef` modulo L.
`Value` is the sum of the limbs by their weights, `Total` of `Sums`.

In `FieldLimbs` a caller has two elements `f` and `g`, reads them from bytes, makes up to
`Calls` calls on them in any order, and writes `f` or asks for its parity, or compares it.
`residue` and `bound` are history: the number mod p an element stands for, and how large its
limbs may be by the comments of the code (`Unit` after a product, sums after `fe_add` and `fe_sub`).
A call is made if `bound` allows what its comment asks for.  One thing differs from the
comments: `fe_add` and `fe_sub` ask for 1.1 * 2^25, but `ge_*` call them on sums already, so what
is required is that their result suits `fe_mul`, 1.65 * 2^26, which is so in every caller.
`Verify32` is an instance of `CryptoVerify` over the bytes that were written.

`AdditionChain` has the real programs at their real size.  An element is represented by
the exponent of the argument that it is, and the exponent by the set of its 1 bits;
`aliased` says that result and argument are the same element, as in `ge_frombytes.c:33`.
`CryptoVerify` has one step per `VERIFY_F`; bytes are sets of bits.

## 3. Runs

| Run | Expect | Question |
|---|---|---|
| `dev_random` | pass | Does `random.c` keep its loop invariant and its descriptors, return, and implement `randombytes.h`? Two threads with two calls each, a buffer of 3 bytes and a pool of 2, so no read fills a buffer and one thread drains what the other waits for. |
| `dev_urandom_short` | violation | Does success mean a full buffer? No: a short read is not noticed (finding 1). |
| `rand_openssl` | violation | Is a failure reported as 0? No: -1 is passed through (finding 2). |
| `sha3_sponge` | pass | Is the context a function of the stream, and the digest SHA-3 of it? Words of 4 bytes, sponge of 3 words, capacity 1 or 2 words, two byte values, messages up to 8 bytes: every cut of every message up to a full block (and, for capacity 2, two full blocks), any reuse of the context. |
| `sha2` | pass | The same for `md_helper.i`, blocks of 4 bytes with words of 1: every cut of every message up to 13 bytes, by the short path or the long one, aligned or not, in a context that was used before or holds junk; messages of 32 and 34 bytes, whose length in bits needs the second word of the closing field. |
| `point_ops` | pass | Do the `ge_*` functions implement the group, do the decoders agree, is what is encoded the least encoding? P = 29, every word, every point as an operand with Z = 1 and another, any order of calls. |
| `double_scalarmult` | pass | Do the digits have the scalar's value at every step, an entry in the tables, and the distance from one another they are there for; is the table right, r at every digit what the digits say, the result [a]A + [b]B? Both libraries, 28 points, every scalar of 10 bits once as a and once as b. |
| `scalarmult_base` | pass | Is the result [a]B, and are the digits a at every step? Both libraries, 44 points, 1024 scalars of four digits. |
| `scalar_limbs` | pass | Are the bytes of `sc_reduce` and `sc_muladd` the least residue, does no fold or carry change the residue, and does nothing leave its integer type? Four limbs of 3 bits, L = 4096 + 13, numbers of 28 bits around multiples of L and powers of the radix, products of extreme factors. |
| `field_limbs` | pass | Do value mod p, bounds and integer types survive every carry of every sequence of up to two calls, and do bytes, parity and verdict depend on the value alone? Four limbs of 7 and 6 bits, p = 2^26 - 3, 23 encodings for f and eight for g. |
| `straight_line` | pass | What has no parameter, at its real size: do the four chains compute p - 2 and (p - 5) / 8, also in place; is each round of keccakf that of FIPS 202; do the compression functions implement FIPS 180-4, with its constants, over sequences of two blocks? |
| `ed25519` | pass | Keys, signatures, responses and the agreement of both libraries on a group of 88 points, with private keys in two places, a message inside the signature and one outside, messages of no or one word. |

`dev_random` and `dev_urandom_short` set `CHECK_DEADLOCK FALSE`: the number of calls is
bounded (`MaxCalls`), and when all are made the threads stop.

The bounds: `MaxCalls` = 2 lets a call follow another in the same thread with stale
`source`, `completed` and `ret`; `MaxFd` limits the table so that open fails for want
of a descriptor.  `MaxMessage` bounds what is fed between init and final; it reaches
the cases where the suffix and the last bit share a byte, and where the message ends
at a block.  In `MCEd25519`, L = 11 and E = 16 are in the relation of the real ones
(E/2 < L < E), so that each of the four subtractions of `sc25519_from32bytes` is
needed for some word; `MCDecode` gives two points a second encoding and makes other
words undecodable; `AppWords` writes both kinds.

`P` is 5 mod 8 and `D` not a square, as in the code: the decoders rest on the first
(a square root is one of two powers), completeness of the addition law on the
second.  With P = 29 the exponent (P-5)/8 of the decoders is 3, and all states of all
functions can be enumerated.  29 and 37 give groups with a subgroup of prime order 7 and
11 and cofactor 4; the points A are of order 4, 7 and 28, as a public key may be of small
or mixed order.  Scalars of `double_scalarmult` have 10 bits in an array of 11: a digit
reaches 6 places, so carries start in the reach of one digit and end beyond; the code has
`SpareBits` = 3 in 256, since a scalar is below 2^253.  `MCScalars` of `scalarmult_base` are
scalars with digits at 0, 7, 8 and 15, where a carry starts or is passed on, and any
last digit.  `MCMessages` contains a message of distinct bytes, which tells places
apart, one that looks like padding, and long ones.

`MCScalarLimbs` keeps the shape of the code with half as many limbs folded at a time (two
instead of six): coefficients of both signs and smaller than a limb, a radix that is no
multiple of the byte, L a little more than a power of the radix, so that numbers exist for
which the first fold of the limb N leaves a negative number and the second is needed; the
mutant without the carries between them is found.  Its `IntMax` = 1023 holds the sums of
products before the first carry and what the folds add to carried limbs, and not what grows
when a carry takes too little out of its limb.  `MCFieldLimbs` keeps alternating widths, a
last limb that returns times `Red`, an encoding one bit longer than p, encodings of p and more,
and `Unit`, `MulBound` and `ToBytesBound` in the relation to the radix that the comments
give; `IntMax` = 511 holds 3 times the largest limb a product accepts and not 4 times, as
the real one holds 19 times.  `Calls` = 2 lets a
product or a reading follow a sum, a copy or a conditional move.  `straight_line` uses, besides
all-0 and all-1 states, one that no symmetry of the tables maps to itself; a wrong entry in a
table or a wrong index in a step changes what it is mapped to.

Type invariants are not run; they are theorems (`RandomProofs`, `Sha3SpongeProofs`,
`ShaMdProofs`, `Ed25519Proofs`); `Elements` in `FieldLimbsProofs` is that of the limbs.

Findings:

1. `lib/randombytes/urandom/urandom.c:12` returns success after a short read, although
   `randombytes.h:11` promises that the buffer is filled.
2. `lib/randombytes/openssl/randombytes.c:5` returns -1 for some failures, although
   `randombytes.h:14` says "0 if failed, non-0 otherwise".

Two comments of the arithmetic are wrong without effect: `fe25519_invert.c:25` gives 2^20 -
2^10 for a loop that reaches 2^10 - 2^5 (`fe25519_pow2523.c:25` has it right), and
`fe_isnonzero.c:5-6` documents 1 for zero and 0 for non-zero where the function returns 0 for
zero and -1 for non-zero, which is what its name and callers want.

## 4. Fairness

`DevRandom`: threads are scheduled (weak fairness of the steps of each thread), entropy
arrives (`Refill`), and a read of a pool that stays non-empty returns some of it.
Failures are never forced, except that an open ends one way or the other.  The number
of calls other threads make is finite, so that they cannot starve a thread for ever;
weak fairness of `ReadSome` is then enough.  `Sha3Sponge`, `ShaMd`: a call of update that began goes on.
The other modules state safety only.  Those of the arithmetic are loops with a fixed number of
iterations and end in a step that repeats for ever, so that TLC's check for deadlock
still shows that no state before the end is stuck.

## 5. Proofs

All theorems are proved for every value of the constants that satisfies the named
assumptions (`DeviceAssumption`, `PoolAssumption`, `SpongeAssumption`,
`BlockAssumption`, `GroupAssumption`, `HashAssumption`, `CodecAssumption`,
`LayoutAssumption`, `FieldAssumption`, `OperandsAssumption`, `BaseAssumption`, `LadderAssumption`,
`DigitsAssumption`, `ScalarAssumption`), and those about `FieldLimbs` and `CryptoVerify` under
`RealSize` and `VerifyAssumption`, which the theorems name.  `RealSize` of `ScalarLimbsProofs`,
which `NothingOverflows` and `LeastResidueCorrect` name, is the constants of `sc_reduce.c` and
`sc_muladd.c` and any arguments of 64 and of 32 bytes: how large limbs become depends on them.  `FieldAssumption` is what
the code's constants are chosen for: a prime that is 5 modulo 8 and a D that is no square.
`BaseAssumption` and `LadderAssumption` put the base point and the points A on the
curve and assume nothing of their order.
`StatesFit` and `InputsFit`, which `KeccakCorrect` and `CompressionCorrect` name, say that
a state is 25 lanes of 64 bits and a block sixteen words of 32 or 64; the tables and rotations
are the code's.

- **RandomProofs.** The inductive invariant is the conjunction of the type
  invariant, `DescriptorsAccounted`, `ReadProgress` and what idle threads have
  returned.  `SuccessMeansFilled` follows from it, and so does step simulation of
  `RandomBytes`.  For `DevUrandom`, an instance over the same variables, the types and
  `DescriptorsAccounted` are inductive; for `RandomLibrary` with `bcryptgen`, step simulation
  of `RandomBytes` needs only that a running call has written nothing yet.
- **Sha3SpongeProofs.** `ContextFollowsStream` is inductive together with the loop
  counters (`LoopsInStep`) and the type.  The place of a byte, block b, word j, byte i,
  is a number in mixed radix (`Position`), and most of the proof is the arithmetic of
  that representation: places are equal only if their components are, and the cursor is
  the next free place.  When `sha3_Finalize` runs, the blocks absorbed are those of the
  padded message, which gives `StreamSpec`.  `PaddingInjective` is about the definition:
  equal padded blocks have equal length, hence the last suffix is at the same place.
  `KeccakCorrect` is about `KeccakF`, for any contents of the lanes.
  *The path.* `keccakf_piln` visits every lane but the first once (`Path`, by the table of its
  inverse), in the order FIPS 202 walks (`VisitIs`), from the lane pi reads to the one it
  writes, and `keccakf_rotc` has the rotation of that lane (`PathIs`, `OffsetIs`).  So in
  `PermInv` the lane in hand is always the next one pi wants, as theta left it, although its
  place has been written over.
  *The rows.* Chi reads in a row only what the rows before did not write; a parity is a sum
  of five lanes (`ParityIs`).
  *The constants.* The shift register of FIPS 202 makes a bit a step; `SevenSteps` says what
  it is after seven, `RegisterRows` lists it where the rounds begin, and `ConstantIs`
  compares the bits with `keccakf_rndc`.
- **ShaMdProofs.** `ContextFollowsStream` speaks of quotients and remainders; `Holds` says the
  same by sums, and `FollowsIff` connects them.  Its three lemmas are what can happen to a
  context: the stream goes on (`HoldsMore`), a copy into the buffer that may complete a block
  (`HoldsCopy`), a block straight from the data (`HoldsDirect`).  To be inductive it needs
  `PathsMeet` and what the loops leave to be done (`CallsGoOn`): in the long path
  `orig_len - len` is a number of blocks, and `count` a multiple of the block length, so
  that the bytes consumed are.  `Layout` and `BytesOfLast` compare what close makes of
  the buffer with the last one or two blocks of the padded message; `LengthExact` is that
  `count >> 61` and `count << 3` are the two words of 8 * count.  `ImplementsStream` follows.
  `PaddingInjective` uses the mark alone: the last block without its length ends in zeros
  after it, so equal padded messages have it at the same place.
  `CompressionCorrect` is about `Sha2Rounds`, for any blocks and any number of them.
  *Registers.* That the n-th step names the registers one place further round is `Roles`: the
  eight names are of eight registers, and after a step register k - 1 is called k.  So the two
  registers that are written get the two sums of the standard and the other six move without
  being moved (`TurnMaps`), and after 64 or 80 steps the names are the first ones again.
  *The schedule.* `RoundsInv` says which words exist, and of `sha2_big.c` that each is what it was
  computed from.  With the ring of sixteen, the word that is overwritten is the one no later
  step reads, and the others are found one place further back (`RingMaps`); `ScheduleMaps`
  joins the two.
  *Operations.* `CH` and `MAJ` of the code save an operation over those of the standard (`ChIs`),
  and sums are in another order (`PlusCommutes`).
- **NumberTheorems.** `Total` is a sum by recursion over a function on an interval.  The
  induction theorems of the library take an operator, so induction is stated here over sets:
  a set of naturals that contains 0 and, with n, n + 1, contains all (`Induction`), since the
  order of the naturals is well-founded.  With it, the recursive function exists and is the
  only one (`PartialExists`, `PartialUnique`), and sums follow a term that changes
  (`BumpedTotal`), an amount that moves from one term to another (`MovedTotal`), a factor, a
  shift, and the exchange of rows and columns (`SwappedTotal`).  The provers know nothing of
  powers with a variable exponent; 2^(n + 1) = 2 * 2^n is proved by counting the subsets of a
  set of n + 1 elements (`PowNext`), and the rest follows.
- **CurveProofs** proves what the functions on points do, from the primality of P up.
  *The group.* Divisions are avoided: coordinates are compared by cross products modulo P
  (`Same`).  If a denominator of the addition law were 0, D would be a square
  (`WouldBeSquare`), so the law is complete (`Complete`); both ways to add three points come
  to one fraction (`TripleOver`, `Associative`), and `CurveIsGroup` follows.  The number
  of points of a finite group kills each of them (Lagrange's theorem, of `NumberTheorems`),
  so that `Times`, which reduces its factor modulo that number, adds and multiplies its factors
  (`TimesSum`, `TimesTimes`).
  *The field.* The same theorem about the units is Fermat's (`Fermat`), and with it the
  powers of the code are inverses (`InvertIs`) and square roots: of the two candidates one
  is a root if there is any (`CandidateIs`, `RootSolves`).  So the two decoders, which
  multiply, raise and test in different orders, are one function (`DecodersAre`).
  *The formulas.* `RepP3`, `RepP2`, `RepP1`, `RepCached` and `RepPre` say that a struct stands for
  a point, whatever its Z, and for P3 that T is there; each formula has a lemma in these
  terms (`AddRep`, `MaddRep`, `DoubleRep`, `ConvertRep`, `CachedRep`...).  In `PointOps`, `Meaningful`
  is inductive: the register stands for a point in the sense of its form.  `Represents`
  and step simulation of `CurveGroup` follow.  Least encodings follow as y is written
  reduced, and the sign bit is 0 where x is (`EncodeIs`).
  *The recodings.* That a carry of `slide` never runs off the end is not inductive: it
  depends on what has been passed.  `SlideAt` says that the digits passed are 0 or odd and
  within the largest, that the 4 (or 6) places after one that is not 0 are 0, that the rest are
  bits, and that the digits have the sum of the scalar.  If all bits from a place on were 1, a
  carry would be lost; but the sum is below 2^253, and the digits below the place cannot take
  away what this lacks (`LowSum`), so there is a 0.  The places
  after a digit are emptied because the loop looks that far ahead (`6 <= Reach`).  From the
  invariant follow `ValuePreserved`, `DigitsIndexTables` and that every digit the ladder uses
  has an entry.  For `ScalarMultBase` the sum goes on over the carry: digits below `i`, the
  carry at `i`, and the digits of the scalar from there on (`RecodedAt`).
  *The ladders.* `LInv` adds to the digits that the table holds the odd multiples of A
  (`TableFilled`) and that, in the ladder, r stands for the sum the digits from i + 1 on say; a
  turn doubles it (`ValueFromNext`) and adds the entries of digit i.  For `ScalarMultBase`, `PInv` says
  that h stands for the multiple of B that the digits used say, those of odd index with a
  smaller weight until the doublings (`OddsAndEvens`), and that it has its T wherever the
  next step reads it.  The first entry amd64 makes by hand has Z = 2 (`FirstKeeps`).  Nothing depends
  on the order of A or B, the number of bits, the radix or the number of digits.
  *The points of the API.* `Ed25519` has numbers modulo 8L for points and assumes of its codec
  what `CodecAssumption` says.  `Api` is that module over the curve: the number of a point is
  the factor of a generator, E is 2^(FieldBits - 2), 8L the number of points.  Where the group is
  cyclic, its order a multiple of 8 and B eight times a generator (`Cyclic`, as for
  Curve25519), `CodecOfCurve` proves `CodecAssumption` of `ToBytes` and `FromBytesNegate`, and
  `GroupOfCurve` that `BaseMul`, `Negate` and `DoubleMul` are the multiples, negatives and sums
  that `DecodersCorrect`, `BaseMultiple` and `LadderCorrect` are about.  `GroupAssumption`, the
  size of L, stays an assumption: it is a fact about one curve.
- **ScalarLimbsProofs.** The residue alone is not an invariant one can reason with: the
  statement proved is that the value is `x` plus a multiple of L.  A fold takes out of limb n
  what `Folding(n)`, L times a power of the radix, says; a carry moves a multiple between two
  terms; limbs read by `load_3` and `load_4` are the digits of the number, whatever is the size
  of a byte; the products of `sc_muladd` sum up to a * b + c by columns.  Which limbs a
  statement is about follows from the group it is in (`At`).
  *Sizes.* `NoOverflow` is not inductive: between two carries limbs are larger than before, and
  a fold multiplies them by up to 2^20.  `Sized` is a table with a row for every statement of
  every group (`MulEven(n)` ... `Floor2(n)`) that bounds each limb.  A lemma for each group
  says that its statement leads from a row to the next (`HighStep`, `EvenBelowStep`...), by
  `FoldFits`, `RoundFits` and `FloorFits`, which say what a fold or a carry of the two kinds
  does to one row.  So the proof is about the order in which the code folds and carries, and
  every row is within 2^63 (`SizedFits`).
  *The least residue.* After the third group of folds and its rounded carries the value is
  within 2^252 of 0 (`TopRange`), whatever was loaded.  The floor carries do not change it and
  leave digits below s12, which is thus 0 or -1 (`TopDigit`); the second fold of it then
  leaves a number in 0 .. L - 1 (`Top2Range`), which the last carries turn into digits.
  `Ranged` adds this to the invariant, `Packable` says that the limbs packed are digits, and
  `BytesAre` that the bytes put together from pieces of two limbs are those of the value.
- **FieldLimbsProofs.** At the size of `fe.h` (`RealSize`) every limb of an element is bounded by
  `bound` (`WithinBounds`) and nothing leaves its integer type (`NoOverflow`), for any
  sequence of calls of any length.  Neither is inductive: between the carries of a product
  limbs are larger than either says.  `Running` adds what bounds each limb before the p-th
  carry (`MulSize`, `FromBytesSize`): raw, with one carry in it, or tidy, by limb and by p.
  `Fits` says when one row of that table follows from another by a carry, `MulFits` and
  `FromBytesFits` that they do in the order of the code, and `ProductBound` that ten products
  of limbs within 1.65 * 2^26 are within the first row.  So the order of the carries is
  what the proof is about.  `SquareIsProduct` is that fe_sq, which multiplies every pair
  of limbs once, computes the limbs of fe_mul before the carries.
  `ValueCorrect` is about the number the limbs stand for.  `Residue` reduces as it goes, since
  TLC's integers have 32 bits; `ResidueIs` shows it to be the sum of `v[k] * 2^Weight(k)`
  modulo p, Horner's rule included (`TimesModIs`).  The invariant `ValueInv` says by
  `Cong` that this sum is what is expected plus a multiple of p: a carry moves a multiple of a
  place between two terms, or from the last to the first, where 2^255 counts as 19
  (`CarryValue`); the products, whose places carry 2 where both limbs are odd
  and 19 beyond the last limb (`PlaceProduct`), sum up by columns (`ProductValue`); the limbs
  loaded take every bit of the bytes once (`LoadedValue`).
  `EncodingCorrect` is the claim of fe_tobytes.c.  Its estimate is inductive only as what it
  rounds: q before statement k is the sum of the limbs passed and of the first estimate,
  rounded down to a multiple of limb k's place (`Rounded`).  After the last statement this
  is the quotient by 2^255 - 19 because limbs within `ToBytesBound` keep the first estimate
  near enough (`EstimateExact`); then 19 q makes the number the residue but for a multiple of
  2^255 (`Over`), which the carry out of the last limb drops, and the limbs carried out of are
  digits (`Clean`).  Digits are cut into bytes of the same number (`BytesAre`).
  `VerdictsTell` joins that with the comparison: byte for byte `Compared` says which bits were
  collected, numbers below p have different bytes (`EncodingsTell`) and bytes different
  bits (`BitsTell`).  Bit 8 of `differentbits - 1` is 1 just if no bit below is
  (`ReturnTellsEmpty`), so `VerdictCorrect` holds of `CryptoVerify` for any number of bytes, of
  bits in a byte, and any wider word.
- **Ed25519Proofs.** The lemmas are the facts of modular arithmetic the algorithm rests
  on: `Reduce32Correct` (four subtractions reduce any word), `ClampAgrees` (the two masks
  give the same clamped scalar), `OnePublicKey`, `SigningEquation`
  ([h]*(-A) + [h*a + r]B = [r]B).  The inductive invariant adds to `KeysMatch` and
  `SignedVerifies` that the buffers of a signature in `made` lie apart (`MadeApart`): a
  signature that overwrote its own message need not verify, so `made` leaves it out and
  the invariant has to say so.

Only model-checked:

- liveness (`CallReturns`, `UpdateEnds`), out of the prover's reach;
- of `straight_line`, what is about fixed values (`ChainComputes`, `ConstantsAreRoots`): the run
  is at the real size and leaves nothing to generalise.  `RoundIsKeccak` and
  `ImplementsStandard` are proved of `KeccakF` and `Sha2Rounds`, which the run composes.

## 6. Not modelled

- The limbs of amd64, four words of 64 bits in registers, in assembly; its functions are in
  the models by their values.  `SMALLTABLES`, which CMake does not define.
- `index_heap.c`, `ge25519_multi_scalarmult.c` and `hram.c` of amd64, which no call reaches.
- OpenSSL; the wrappers `sha256.c`, `sha512.c` forward to the context functions and return 1.
- Of sphlib: extra bits at the end (`addbits_and_close` with n > 0) and the little-endian
  configurations of `md_helper.i`, which the library does not use; in `sph_types.h`, what
  chooses types and byte orders for other machines.
- The contents of the precomputed tables of points.  `base.h` is a constant.
- Threads inside one call, timing, and contexts that are used after final without init.

The hazards no property covers are in `PROJECT.json` with their reasons.

## 7. Plan

Done, in this order: randombytes and its interface; the SHA-3 sponge and the
streaming interface; the Ed25519 API; their proofs; SHA-2's context; points and their
codec; recodings, ladders and chains; the comparison; limbs of scalars and of field elements;
keccakf and the compression functions; the proofs about the comparison, the field's limbs and
SHA-2's context; those about recodings and scalar limbs, with sums; those about the curve, its
encodings and the ladders; those about sizes and the least residue of `sc_reduce` and
`sc_muladd`, and about `keccakf` and the compression functions.  What could follow:

1. A composition of `Ed25519` with a hash context and a randombytes backend: a call
   of sign as the sequence of its hash calls, keys from a backend that lies.
2. The heap of `index_heap.c` and Bos-Coster multiplication.
