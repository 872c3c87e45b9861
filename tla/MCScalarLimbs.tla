--------------------------- MODULE MCScalarLimbs ---------------------------
\* Limbs of 3 bits, 4 of them, bytes of 2 bits.  L is 4096 + 13.
EXTENDS ScalarLimbs

MCCoef == <<3, -2>>
MCOrder == 4109

\* Numbers of 28 bits around multiples of L and around powers of the radix.
MCReduced ==
  {n \in UNION {{k * MCOrder - 1, k * MCOrder, k * MCOrder + 1, k * MCOrder + 4095} : k \in
       (0 .. 40) \cup {m * 653 : m \in 1 .. 100} \cup (65300 .. 65328)}
     \cup {2^k - 1 : k \in 0 .. 28} \cup {2^k : k \in 0 .. 27} : n \in 0 .. 2^28 - 1}

MCFactors == {0, 1, 7, 13, 511, 2048, 4095, 4096, 4108, 4109, 4110, 8217, 10923, 16383}
=============================================================================
