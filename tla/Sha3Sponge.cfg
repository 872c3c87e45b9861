SPECIFICATION Spec
CONSTANTS
  BytesPerWord = 4
  SpongeWords = 3
  Capacities = {1, 2}
  ByteValues = {{}, {1, 2}}
  MaxMessage = 8
INVARIANTS
  LoopsInStep
  ContextFollowsStream
  DigestTellsMessages
PROPERTIES
  UpdateEnds
  StreamSpec
