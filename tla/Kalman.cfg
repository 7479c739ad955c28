SPECIFICATION Spec
CONSTANTS
  Motions <- Moves
  Noises <- Noise
  Sensors <- Rows
  Unit = 2
  Precisions = {1, 2}
  Readings = {0, 3}
  Start <- First
  MaxSteps = 4
INVARIANTS MatchesInformationFilter
PROPERTIES UpdatesShrinkCovariance
