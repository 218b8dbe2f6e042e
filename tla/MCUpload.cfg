CONSTANTS
  events = events
  audio = audio
  Objects <- MCObjects
  Size <- MCSize
  Packed <- MCPacked
  Large = {audio}
  Handshake = 1
  Retries = 1
  MinBudget = 2
  Budgets <- MCBudgets
  Unlimited = Unlimited
  MaxPack = 2
  MaxPause = 1
  MaxOverrun = 1
  MaxUploads = 2
  NotYet = NotYet
SPECIFICATION Spec
INVARIANTS
  OverByTheDeadline
  NothingGarbled
PROPERTIES
  EveryUploadEnds
  ImplementsUploadPromise
CHECK_DEADLOCK FALSE
