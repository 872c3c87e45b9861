---------------------------- MODULE CryptoVerify ----------------------------
(***************************************************************************)
(* include/ed25519/ed25519/crypto_verify.h, the comparison without         *)
(* branches at the end of ed25519_verify, and fe_isnonzero of ref10, which *)
(* compares with zero by it.  One step is one VERIFY_F.                    *)
(***************************************************************************)
EXTENDS Integers, FiniteSets

CONSTANTS
  Length,         \* bytes compared: 32
  ByteBits,       \* bits of a byte: 8
  WordBits        \* bits of an unsigned int

\* What the code has: 32, 8 and 32.
VerifyAssumption ==
  /\ Length \in Nat \ {0} /\ ByteBits \in Nat \ {0} /\ WordBits \in Nat /\ ByteBits < WordBits

VARIABLES
  caller,         \* "verify", or "isnonzero" with y all zero
  x, y,           \* bytes, as sets of bits
  at,             \* the next byte
  differentbits,
  ret             \* what is returned, or <<>>

vars == <<caller, x, y, at, differentbits, ret>>

Byte  == SUBSET (0 .. ByteBits - 1)
ByteStrings == [0 .. Length - 1 -> Byte]
zero  == [k \in 0 .. Length - 1 |-> {}]

Xor(S, T) == (S \ T) \cup (T \ S)

\* An unsigned int less 1: bits below the lowest 1 become 1, that one 0.
Decrement(S) ==
  LET low == {b \in 0 .. WordBits - 1 : \A c \in S : b <= c} IN Xor(S, low)

Init ==
  /\ caller \in {"verify", "isnonzero"}
  /\ x \in ByteStrings
  /\ y \in IF caller = "verify" THEN ByteStrings ELSE {zero}
  /\ at = 0 /\ differentbits = {} /\ ret = <<>>

\* Mutant: the bits of the last byte alone.
VerifyByteForgets ==
  /\ at < Length
  /\ differentbits' = Xor(x[at], y[at])
  /\ at' = at + 1
  /\ UNCHANGED <<caller, x, y, ret>>

VerifyByte ==
  /\ at < Length
  /\ differentbits' = differentbits \cup Xor(x[at], y[at])
  /\ at' = at + 1
  /\ UNCHANGED <<caller, x, y, ret>>

\* (1 & ((differentbits - 1) >> 8)) - 1
Verdict == IF ByteBits \in Decrement(differentbits) THEN 0 ELSE -1

Return ==
  /\ at = Length /\ ret = <<>>
  /\ ret' = <<Verdict>>
  /\ UNCHANGED <<caller, x, y, at, differentbits>>

Finished == ret # <<>> /\ UNCHANGED vars

Next == VerifyByte \/ Return \/ Finished
Spec == Init /\ [][Next]_vars
-----------------------------------------------------------------------------
\* The comment beside the return: differentbits == 0 ? 0 : -1.  Nothing but the order
\* of the bytes matters: equal bytes, 0; bytes that differ anywhere, -1.
Decides == ret # <<>> => ret = <<IF x = y THEN 0 ELSE -1>>
=============================================================================
