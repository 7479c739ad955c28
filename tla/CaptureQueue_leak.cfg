SPECIFICATION Spec
CONSTANTS
  Capacity = 2
  MaxFrames = 5
  NDEBUG = TRUE
INVARIANTS NothingLost
