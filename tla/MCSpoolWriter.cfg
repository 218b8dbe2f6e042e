CONSTANTS
  recorder = recorder
  app = app
  atexit = atexit
  events = events
  audio = audio
  Threads <- MCThreads
  Timed <- MCTimed
  Files <- MCFiles
  MaxQueued = 2
  MaxHanded = 3
  NoThread = NoThread
  NoWrite = NoWrite
  Stop = Stop
SPECIFICATION Spec
INVARIANTS
  NothingStranded
  AppendOrder
  EveryWriteAccounted
  ClosedMeansSettled
  StrictStopsAtFirstFailure
PROPERTIES
  FilesFrozenAfterClose
  CallsReturn
  ImplementsSpoolLog
