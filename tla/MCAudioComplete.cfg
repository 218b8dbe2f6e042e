CONSTANTS
  Tracks = {"caller", "agent"}
  Rate <- MCRate
  Ticks = 15
  Stamps = {20}
  Sizes = {2, 3, 6}
  MaxChunks = 3
  MaxMs = 2
SPECIFICATION Spec
INVARIANTS
  CompleteAudioIsAligned
CHECK_DEADLOCK FALSE
