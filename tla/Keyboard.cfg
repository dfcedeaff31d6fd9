SPECIFICATION FairSpec
CONSTANTS
  Keys = {"lshift", "rshift", "caps", "a", "one", "delete"}
  MaxEvents = 3
INVARIANTS
  TypeOK
  StatusTracksKeys
  CapsFollowsKey
  TypedAsMeant
PROPERTIES
  EveryByteRead
CHECK_DEADLOCK FALSE
