SPECIFICATION DSpec
CONSTANTS
  Tags = {"no_balls_detected", "identify_error", "balls_detected"}
  Quotas = {1, 3, 10}
  Second = 2
  Oldest = 3
  Interval = 2
  MaxRate = 3
INVARIANTS QuotaKept FpsIsRate
PROPERTIES OnePerInterval LastingOutcomeReported
