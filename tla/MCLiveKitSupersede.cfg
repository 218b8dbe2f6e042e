CONSTANTS
  s1 = s1
  s2 = s2
  s3 = s3
  n1 = n1
  Speech = {s1, s2, s3}
  Stream = {n1}
  NoSpeech = NoSpeech
  MaxFrames = 1
  Tolerance = 0
  TailCap = 1
  MaxTurns = 2
  MaxInputs = 2
SPECIFICATION Spec
PROPERTIES
  OnlyTheSupersededClose
SYMMETRY Symmetry
CHECK_DEADLOCK FALSE
