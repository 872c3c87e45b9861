SPECIFICATION PointSpec
CONSTANTS
  P = 29
  FieldBits = 5
  D = 2
  Operands <- MCOperands
  Scalings = {5}
  Nothing = Nothing
INVARIANTS
  Represents
  DecodersAgree
PROPERTIES
  GroupSpec
  EncodingIsCanonical
