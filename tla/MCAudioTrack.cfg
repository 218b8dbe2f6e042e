CONSTANTS
  Tracks = {"caller", "agent"}
  Rate <- MCRate
  Ticks = 15
  Stamps = {38}
  Sizes = {3, 14}
  MaxChunks = 3
  MaxMs = 2
SPECIFICATION Spec
INVARIANTS
  TimelineKept
  RepliesLaidEndToEnd
CHECK_DEADLOCK FALSE
