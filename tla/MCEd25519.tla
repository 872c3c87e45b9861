----------------------------- MODULE MCEd25519 -----------------------------
\* Ed25519 with a group of 88 points, words of 7 bits, a hash that mixes what it
\* is fed, and encodings of which two points have a second, non-canonical one.
EXTENDS Ed25519

MCHash(q) ==
  LET state[i \in 0 .. Len(q)] ==
        IF i = 0 THEN 77 ELSE (state[i - 1] * 147 + q[i] * 53 + 19) % (64 * E * E)
  IN state[Len(q)]

MCEncode(P) == (3 * P) % (8 * E)

MCDecode(w) ==
  LET P == CHOOSE x \in Words : (3 * x) % (8 * E) = w
  IN IF P < 8 * L THEN P ELSE IF P < 8 * L + 2 THEN P - 8 * L ELSE -1
=============================================================================
