SPECIFICATION Spec
CONSTANTS
  BlockLen = 4
  WordLen = 1
  Unaligned = FALSE
  Kinds = {"sha256", "sha384", "sha512"}
  BigKinds = {"sha384", "sha512"}
  Messages <- MCMessages
  Junk <- MCJunk
INVARIANTS
  PathsMeet
  ContextFollowsStream
PROPERTIES
  UpdateEnds
  StreamSpec
