SPECIFICATION FairSpec
CONSTANTS
  Length = 2
  Interval = 0
  MaxTime = 0
  FailedTimes = 3
  ErrorTimes = 1
PROPERTIES RetriesReopen
