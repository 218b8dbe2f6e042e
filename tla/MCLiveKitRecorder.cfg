CONSTANTS
  s1 = s1
  s2 = s2
  s3 = s3
  n1 = n1
  Speech = {s1, s2}
  Stream = {n1}
  NoSpeech = NoSpeech
  MaxFrames = 2
  Tolerance = 0
  TailCap = 1
  MaxTurns = 3
  MaxInputs = 2
SPECIFICATION Spec
INVARIANTS
  StreamsFollowIdentity
  NothingWaitsForABoundSpeech
  HeldTurnsHaveStreams
  OwnershipIsTold
  UnnamedMetricsKeepToTheirReply
  WordsReachTheirSpan
  ProvedLossIsReported
SYMMETRY Symmetry
CHECK_DEADLOCK FALSE
