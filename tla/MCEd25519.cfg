SPECIFICATION Spec
CONSTANTS
  E = 16
  L = 11
  Hash <- MCHash
  Encode <- MCEncode
  Decode <- MCDecode
  SkAt = {0, 1}
  PkAt = {2}
  SigAt = {3}
  MsgAt = {3, 5}
  MsgLens = {0, 1}
  RandomWords = {1, 2}
  AppWords = {8, 80}
INVARIANTS
  KeysMatch
  SignedVerifies
  ResponsesModL
  LibrariesAgree
