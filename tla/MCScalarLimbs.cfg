SPECIFICATION Spec
CONSTANTS
  N = 4
  W = 3
  Coef <- MCCoef
  ByteBits = 2
  Bytes = 7
  IntMax = 1023
  Reduced <- MCReduced
  Factors <- MCFactors
INVARIANTS
  ResidueKept
  LeastResidue
  NoOverflow
