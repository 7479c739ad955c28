SPECIFICATION FairSpec
CONSTANTS
  BufferCapacity = 2
  MaxFrames = 4
  MaxOpens = 3
INVARIANTS TypeOK ContextOutlivesThread WrittenWhereSent
PROPERTIES WritesInOrder CallsReturn
