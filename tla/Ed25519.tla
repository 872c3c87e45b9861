------------------------------ MODULE Ed25519 ------------------------------
(***************************************************************************)
(* The four calls of include/ed25519/ed25519/ed25519.h as both libraries   *)
(* make them, lib/ed25519/ref10/ed25519.c and                              *)
(* lib/ed25519/amd64-64-24k-pic/ed25519.c, on buffers of one memory that   *)
(* the application passes in, reuses and overwrites.                       *)
(*                                                                         *)
(* Memory is counted in words of 32 bytes, little-endian integers.  The    *)
(* group of Curve25519 points is Z_8L, with the base point (of order L)    *)
(* at 8; Encode and Decode stand for ge_p3_tobytes and ge_frombytes, Hash  *)
(* for the SHA-512 or SHA3-512 of the words fed.  E stands for 2^253:      *)
(* words are 0 .. 8E-1 and L is between E/2 and E, as 2^252 + ... is.      *)
(***************************************************************************)
EXTENDS Integers, Sequences

CONSTANTS
  E, L,              \* 2^253 and the order of the base point
  Hash(_),           \* a sequence of words to a 512-bit number
  Encode(_),         \* a point to the word that encodes it
  Decode(_),         \* a word to the point it decodes to, or NoPoint
  SkAt, PkAt,        \* addresses of private and public keys, one word each
  SigAt,             \* addresses of signatures, two words each: R and S
  MsgAt, MsgLens,    \* addresses and lengths of messages
  RandomWords,       \* what randombytes may leave in a private key
  AppWords           \* what the application may write elsewhere

NoPoint == -1
Words   == 0 .. 8 * E - 1
N       == 8 * L
Points  == 0 .. N - 1

SigCells(sig)    == {sig, sig + 1}
MsgCells(msg, n) == msg .. msg + n - 1

Addresses ==
  SkAt \cup PkAt \cup (UNION {SigCells(sig) : sig \in SigAt})
       \cup (UNION {UNION {MsgCells(msg, n) : n \in MsgLens} : msg \in MsgAt})

\* L < E is why 2^253 bounds a response, E < 2L why four subtractions reduce a word.
ASSUME GroupAssumption ==
  /\ E \in Nat \ {0} /\ L \in Nat \ {0}
  /\ L < E /\ E < 2 * L

\* What is hashed: a private key, a randomizer and a message, R and A and a message.
Digests == 0 .. 64 * E * E - 1
Texts   == UNION {[1 .. n -> Words] : n \in MsgLens}

ASSUME HashAssumption ==
  \A v \in Words :
    /\ Hash(<<v>>) \in Digests
    /\ \A t \in Texts : /\ Hash(<<v>> \o t) \in Digests
                       /\ \A w \in Words : Hash(<<v, w>> \o t) \in Digests

ASSUME CodecAssumption ==
  /\ \A P \in Points : Encode(P) \in Words /\ Decode(Encode(P)) = P
  /\ \A w \in Words : Decode(w) \in Points \cup {NoPoint}

\* Buffers are not shared, except that a message may lie in a signature.
ASSUME LayoutAssumption ==
  /\ SkAt \cup PkAt \cup SigAt \cup MsgAt \cup MsgLens \subseteq Nat
  /\ RandomWords \cup AppWords \subseteq Words
  /\ SkAt \cap PkAt = {}
  /\ \A sig \in SigAt : SigCells(sig) \cap (SkAt \cup PkAt) = {}

Impls == {"ref10", "amd64"}

VARIABLES
  mem,     \* the application's memory
  ret,     \* what the last call that returns something returned
  keys,    \* history: pairs <<sk, pk>> made by a call, not overwritten since
  made     \* history: signatures made with such a pair, likewise

vars == <<mem, ret, keys, made>>

ED25519_ERROR == 0
ED25519_SUCCESS == 1
ED25519_SIGNATURE_INVALID == 0
ED25519_SIGNATURE_VALID == 1
-----------------------------------------------------------------------------
BaseMul(n)         == (8 * n) % N                   \* [n]B
Negate(P)          == (N - P) % N
DoubleMul(h, P, s) == (h * P + s * 8) % N           \* [h]P + [s]B

\* az[0] &= 248, az[31] &= 63 or 127, az[31] |= 64.
ClearLow3(w) == w - (w % 8)
SetBit254(w) == IF w % (4 * E) >= 2 * E THEN w ELSE w + 2 * E
KeepBits(impl) == IF impl = "ref10" THEN 2 * E ELSE 4 * E
Clamp(impl, w) == SetBit254(ClearLow3(w) % KeepBits(impl))

\* sc25519_from32bytes: subtract 8L, 4L, 2L, L, each if it fits.
SubtractIfFits(x, c) == IF x >= c THEN x - c ELSE x
Reduce32(x) ==
  SubtractIfFits(SubtractIfFits(SubtractIfFits(SubtractIfFits(x, 8 * L), 4 * L), 2 * L), L)

\* sc_reduce, sc25519_from64bytes.
Reduce64(x) == x % L

\* sc_muladd; sc25519_mul and sc25519_add.
MulAdd(a, b, c) == (a * b + c) % L

\* ref10 computes with the 32 bytes of a scalar as they are, amd64 reduces them first.
ScalarOf(impl, w) == IF impl = "ref10" THEN w ELSE Reduce32(w)

Low(x)  == x % (8 * E)        \* the first 32 of 64 bytes
High(x) == x \div (8 * E)     \* the last 32 of 64 bytes

SecretScalar(impl, sk) == ScalarOf(impl, Clamp(impl, Low(Hash(<<sk>>))))

PublicKey(impl, sk) == Encode(BaseMul(SecretScalar(impl, sk)))

Text(m, msg, n) == [i \in 1 .. n |-> m[msg + i - 1]]

Hram(m, sig, msg, n, pk) == Reduce64(Hash(<<m[sig], m[pk]>> \o Text(m, msg, n)))

\* Memory after ed25519_sign.  The message is hashed before R is written to the
\* signature and once more after.  Mutant: R is written after the second hash.
SignedLate(impl, m, sig, msg, n, pk, sk) ==
  LET nonce == Reduce64(Hash(<<High(Hash(<<m[sk]>>))>> \o Text(m, msg, n)))
      s     == MulAdd(Hram(m, sig, msg, n, pk), SecretScalar(impl, m[sk]), nonce)
  IN [m EXCEPT ![sig] = Encode(BaseMul(nonce)), ![sig + 1] = s]

Signed(impl, m, sig, msg, n, pk, sk) ==
  LET nonce == Reduce64(Hash(<<High(Hash(<<m[sk]>>))>> \o Text(m, msg, n)))
      withR == [m EXCEPT ![sig] = Encode(BaseMul(nonce))]
      hram  == Hram(withR, sig, msg, n, pk)
      s     == MulAdd(hram, SecretScalar(impl, m[sk]), nonce)
  IN [withR EXCEPT ![sig + 1] = s]

\* What ed25519_verify decides.  Mutants: the mask of sig[63] is 240;
\* A not negated by one of the two libraries.
VerifiesNarrow(impl, m, sig, msg, n, pk) ==
  /\ m[sig + 1] < E \div 2
  /\ Decode(m[pk]) # NoPoint
  /\ m[sig] = Encode(DoubleMul(Hram(m, sig, msg, n, pk), Negate(Decode(m[pk])),
                               ScalarOf(impl, m[sig + 1])))

VerifiesUnnegated(impl, m, sig, msg, n, pk) ==
  /\ m[sig + 1] < E
  /\ Decode(m[pk]) # NoPoint
  /\ m[sig] = Encode(DoubleMul(Hram(m, sig, msg, n, pk),
                               IF impl = "ref10" THEN Negate(Decode(m[pk]))
                                                 ELSE Decode(m[pk]),
                               ScalarOf(impl, m[sig + 1])))

Verifies(impl, m, sig, msg, n, pk) ==
  /\ m[sig + 1] < E                  \* sig->data[63] & 224
  /\ Decode(m[pk]) # NoPoint
  /\ m[sig] = Encode(DoubleMul(Hram(m, sig, msg, n, pk), Negate(Decode(m[pk])),
                               ScalarOf(impl, m[sig + 1])))
-----------------------------------------------------------------------------
\* The buffers a signature's verification reads.
Reads(s) == SigCells(s.sig) \cup MsgCells(s.msg, s.len) \cup {s.pk}

\* What is left of the histories when cells are written.
KeysBut(cells) == {k \in keys : k[1] \notin cells /\ k[2] \notin cells}
MadeBut(cells) == {s \in made : Reads(s) \cap cells = {}}

Init ==
  /\ mem = [a \in Addresses |-> 0]
  /\ ret = ED25519_ERROR
  /\ keys = {} /\ made = {}

\* randombytes returned non-0: sk is random, pk is derived.
\* A mutant derives first and fills sk after.
CreateKeypairEarly(impl, sk, pk) ==
  /\ \E w \in RandomWords :
       mem' = [mem EXCEPT ![sk] = w, ![pk] = PublicKey(impl, mem[sk])]
  /\ ret'  = ED25519_SUCCESS
  /\ keys' = KeysBut({sk, pk}) \cup {<<sk, pk>>}
  /\ made' = MadeBut({sk, pk})

CreateKeypair(impl, sk, pk) ==
  /\ \E w \in RandomWords :
       mem' = [mem EXCEPT ![sk] = w, ![pk] = PublicKey(impl, w)]
  /\ ret'  = ED25519_SUCCESS
  /\ keys' = KeysBut({sk, pk}) \cup {<<sk, pk>>}
  /\ made' = MadeBut({sk, pk})

\* randombytes returned 0: what it wrote of sk stays, pk is left alone.
CreateKeypairFails(sk) ==
  /\ \E w \in RandomWords \cup {mem[sk]} : mem' = [mem EXCEPT ![sk] = w]
  /\ ret'  = ED25519_ERROR
  /\ keys' = KeysBut({sk})
  /\ made' = MadeBut({sk})

DerivePublicKey(impl, sk, pk) ==
  /\ mem'  = [mem EXCEPT ![pk] = PublicKey(impl, mem[sk])]
  /\ keys' = KeysBut({pk}) \cup {<<sk, pk>>}
  /\ made' = MadeBut({pk})
  /\ UNCHANGED ret

\* The signature counts as made if the pair matches and the message was not
\* overwritten by its own signature.
Sign(impl, sig, msg, n, pk, sk) ==
  /\ mem'  = Signed(impl, mem, sig, msg, n, pk, sk)
  /\ keys' = KeysBut(SigCells(sig))
  /\ made' = MadeBut(SigCells(sig)) \cup
       {s \in {[sig |-> sig, msg |-> msg, len |-> n, pk |-> pk]} :
          <<sk, pk>> \in keys /\ SigCells(sig) \cap MsgCells(msg, n) = {}}
  /\ UNCHANGED ret

Verify(impl, sig, msg, n, pk) ==
  /\ ret' = IF Verifies(impl, mem, sig, msg, n, pk)
            THEN ED25519_SIGNATURE_VALID ELSE ED25519_SIGNATURE_INVALID
  /\ UNCHANGED <<mem, keys, made>>

\* The application fills a message, or receives a public key or a signature.  (A
\* private key it brings itself leaves memory as CreateKeypairFails does.)
AppWrites(a) ==
  /\ \E w \in AppWords : mem' = [mem EXCEPT ![a] = w]
  /\ keys' = KeysBut({a})
  /\ made' = MadeBut({a})
  /\ UNCHANGED ret

Next ==
  \/ \E impl \in Impls :
       \/ \E sk \in SkAt, pk \in PkAt :
            \/ CreateKeypair(impl, sk, pk)
            \/ DerivePublicKey(impl, sk, pk)
            \/ \E sig \in SigAt, msg \in MsgAt, n \in MsgLens :
                 Sign(impl, sig, msg, n, pk, sk)
       \/ \E sig \in SigAt, msg \in MsgAt, n \in MsgLens, pk \in PkAt :
            Verify(impl, sig, msg, n, pk)
  \/ \E sk \in SkAt : CreateKeypairFails(sk)
  \/ \E a \in Addresses \ SkAt : AppWrites(a)

Spec == Init /\ [][Next]_vars
-----------------------------------------------------------------------------
TypeOK ==
  /\ mem \in [Addresses -> Words]
  /\ ret \in {0, 1}
  /\ keys \subseteq SkAt \X PkAt
  /\ made \subseteq [sig : SigAt, msg : MsgAt, len : MsgLens, pk : PkAt]

\* A pair made by create_keypair or derive_public_key and not overwritten stays a
\* pair for both libraries, whatever other calls do, failed ones included
\* (ed25519.h:37: "exactly one possible public key").
KeysMatch ==
  \A k \in keys, impl \in Impls : mem[k[2]] = PublicKey(impl, mem[k[1]])

\* A signature made with a matching pair over a message it does not overlap
\* verifies in both libraries for as long as its buffers are left alone.
SignedVerifies ==
  \A s \in made, impl \in Impls : Verifies(impl, mem, s.sig, s.msg, s.len, s.pk)

\* With the R of such a signature, the responses accepted are those below 2^253
\* that are congruent to its S modulo L, and no others.
ResponsesModL ==
  \A s \in made, w \in Words, impl \in Impls :
    LET m == [mem EXCEPT ![s.sig + 1] = w]
    IN  Verifies(impl, m, s.sig, s.msg, s.len, s.pk)
          <=> w < E /\ w % L = mem[s.sig + 1]

\* ref10 and amd64 are interchangeable: on every buffer of the memory, junk
\* included, they derive the same key, sign to the same bytes and agree on
\* whether a signature is valid.
LibrariesAgree ==
  \A sig \in SigAt, msg \in MsgAt, n \in MsgLens, pk \in PkAt, sk \in SkAt :
    /\ PublicKey("ref10", mem[sk]) = PublicKey("amd64", mem[sk])
    /\ Signed("ref10", mem, sig, msg, n, pk, sk) = Signed("amd64", mem, sig, msg, n, pk, sk)
    /\ Verifies("ref10", mem, sig, msg, n, pk) <=> Verifies("amd64", mem, sig, msg, n, pk)
=============================================================================
