SPECIFICATION BaseSpec
CONSTANTS
  P = 37
  FieldBits = 6
  D = 14
  W = 4
  Digits = 4
  BaseScalars <- MCScalars
  B <- MCB
INVARIANTS
  DigitsAreScalar
  ResultIsMultiple
  ExtendedWhenRead
