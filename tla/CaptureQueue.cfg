SPECIFICATION Spec
CONSTANTS
  Capacity = 3
  MaxFrames = 8
  NDEBUG = FALSE
INVARIANTS TypeOK ExclusiveOwnership NothingLost
PROPERTIES FetchesInOrder ImplementsDropOldest
