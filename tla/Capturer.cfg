SPECIFICATION FairSpec
CONSTANTS
  FailedTimes = 3
  ErrorTimes = 3
INVARIANTS InterfaceOutlivesThread DisconnectsAtLimit OutagesReported StopsPromptly
PROPERTIES KeepsTrying
