CONSTANTS
  Limits = {6, 10, 14, 20}
  Envelopes = {1, 3}
  ToolSizes = {0, 6}
  Fields = {1, 9}
  Contents = {0, 2, 5, 9}
  Escapes = {1, 3}
  MaxMessages = 3
  Margin = 3
  Worthwhile = 4
  Marker = 1
  ToolsNote = 1
  ElidedNote = 2
SPECIFICATION PayloadSpec
INVARIANT CaptureBounded
CHECK_DEADLOCK FALSE
