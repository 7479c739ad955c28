SPECIFICATION FairSpec
CONSTANTS
  Length = 2
  Interval = 2
  MaxTime = 6
  FailedTimes = 1
  ErrorTimes = 1
PROPERTIES StampsSpaced NoDrift ImplementsCapturer ReopensConfigured
