SPECIFICATION RFairSpec
CONSTANTS
  Capacity = 1
  FailedTimes = 0
  ErrorTimes = 0
  BufferCapacity = 1
  MaxFrames = 3
  MaxOpens = 3
  SizeOf <- Sizes
  Hosts <- Targets
  Networks <- Lists
INVARIANTS OnlyQueueLeaks AnnouncedIsSent
PROPERTIES PaintedAlone FirstFrameFits ProgramEnds
