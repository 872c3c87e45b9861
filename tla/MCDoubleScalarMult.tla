------------------------- MODULE MCDoubleScalarMult -------------------------
\* DoubleScalarMult over the field of 29 elements, on a curve of 28 points.
EXTENDS DoubleScalarMult

\* A point of prime order 7; points of order 7, 28 and 4.
MCB  == <<2, 22>>
MCAs == {<<9, 19>>, <<3, 5>>, <<12, 0>>}

\* Every scalar once as a and once as b (373 is odd).
MCScalars ==
  LET n == Pow2(Bits - SpareBits) IN {<<s, (s * 373) % n>> : s \in 0 .. n - 1}
=============================================================================
