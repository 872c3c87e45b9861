------------------------------- MODULE Words -------------------------------
(***************************************************************************)
(* Machine words as the hash functions use them.  A word of w bits is the  *)
(* set of the places, from 0, of its 1 bits, and a number of any size is   *)
(* such a set too.                                                         *)
(***************************************************************************)
EXTENDS Integers, Sequences, FiniteSets

Xor(S, T) == (S \ T) \cup (T \ S)

Not(w, S) == (0 .. w - 1) \ S

\* SPH_T32, SPH_T64.
Trunc(w, S) == S \cap (0 .. w - 1)

\* SPH_ROTR32, SPH_ROTR64 and SHA3_ROTL64, for 0 < n < w, and x >> n.
Rotr(w, S, n) == {(b - n) % w : b \in S}
Rotl(w, S, n) == {(b + n) % w : b \in S}
Shr(S, n)     == {b - n : b \in {c \in S : c >= n}}

\* A number written as a sequence of 16-bit digits, the highest first.
Number(digits) ==
  {b \in 0 .. 16 * Len(digits) - 1 : (digits[Len(digits) - b \div 16] \div 2^(b % 16)) % 2 = 1}

\* The first place after j that is not in U.
Gap(U, j) ==
  CHOOSE e \in j + 1 .. j + Cardinality(U) : e \notin U /\ j + 1 .. e - 1 \subseteq U

\* Where the sum of two numbers has a carry, U being where one of them has a 1 bit and G
\* where both have: from a place in G on, as far as U reaches, and one further.
Carries(U, G) == UNION {j + 1 .. Gap(U, j) : j \in G}

\* Their sum, and the sum of several in a word.
Plus(S, T) ==
  LET C == Carries(S \cup T, S \cap T)
  IN {b \in {c + d : c \in S \cup T, d \in 0 .. 1} : b \in Xor(Xor(S, T), C)}

Sum(w, s) ==
  LET partial[k \in 0 .. Len(s)] == IF k = 0 THEN {} ELSE Plus(s[k], partial[k - 1])
  IN Trunc(w, partial[Len(s)])

\* The product, S being below 2^256: what the 2^e places of S from lo on add to it.
Times(S, T) ==
  LET part[e \in 0 .. 8, lo \in 0 .. 255] ==
        IF e > 0 THEN Plus(part[e - 1, lo], part[e - 1, lo + 2^(e - 1)])
        ELSE IF lo \in S THEN {lo + c : c \in T} ELSE {}
  IN part[8, 0]

Power(S, k) == IF k = 2 THEN Times(S, S) ELSE Times(S, Times(S, S))

\* The highest place where they differ is in T.
Less(S, T) == \E b \in T \ S : \A c \in Xor(S, T) : c <= b
=============================================================================
