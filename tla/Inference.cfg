SPECIFICATION Spec
CONSTANTS
  input_cols = 10
  input_rows = 8
  Sizes = {1, 3, 7, 10, 13}
  ChannelCounts = {5, 6}
  AnchorCounts = {1, 5, 6, 9}
INVARIANTS FitsInside ReadsTheirCell BallRestored
