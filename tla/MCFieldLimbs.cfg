SPECIFICATION Spec
CONSTANTS
  N = 4
  W <- MCW
  Radix <- MCRadix
  Red = 3
  ByteBits = 3
  Bytes = 9
  WordBits = 5
  Unit = 70
  MulBound = 140
  ToBytesBound = 140
  IntMax = 511
  LongMax = 262143
  Inputs <- MCInputs
  Others <- MCOthers
  Calls = 2
INVARIANTS
  ValueKept
  WithinBounds
  NoOverflow
  Encodes
  VerdictTells
