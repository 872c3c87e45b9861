SPECIFICATION Spec
CONSTANTS
  P = 29
  FieldBits = 5
  D = 2
  Bits = 11
  SpareBits = 1
  Reach = 6
  Scalars <- MCScalars
  As <- MCAs
  B <- MCB
INVARIANTS
  ValuePreserved
  DigitsIndexTables
  LadderSum
