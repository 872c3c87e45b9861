SPECIFICATION Spec
INVARIANTS
  ChainComputes
  ConstantsAreRoots
PROPERTIES
  RoundIsKeccak
  ImplementsStandard
