CONSTANTS
  thread = thread
  end1 = end1
  end2 = end2
  body = body
  socket = socket
  events = events
  loop = loop
  Recorders <- MCRecorders
  Enders <- MCEnders
  Captures <- MCCaptures
  Handles <- MCHandles
  MaxQueued = 1
  MaxHanded = 2
  Nobody = Nobody
  NoWrite = NoWrite
  Stop = Stop
  NoManifest = NoManifest
SPECIFICATION Spec
INVARIANTS
  ManifestCountsAreFinal
  LoopEventsComplete
  StrictPublishesNoLoss
  NoSocketLeftOpen
PROPERTIES
  ManifestNeverReplaced
  EndReturnsUnlessLockKept
CHECK_DEADLOCK FALSE
