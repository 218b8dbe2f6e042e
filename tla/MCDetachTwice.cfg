CONSTANTS
  o1 = o1
  o2 = o2
  x1 = x1
  x2 = x2
  Observers = {o1, o2}
  Wanted <- MCWanted
  Sessions = {x1, x2}
  ObserverOf <- MCObserverOf
  Sockets = {sync, slotted}
  sync = sync
  slotted = slotted
  Uncounted <- MCUncounted
  Slotted = {slotted}
  Unlisted = {}
  MaxObservations = 3
  MaxDetaches = 2
  Calls = {c1}
  c1 = c1
SPECIFICATION Spec
CONSTRAINT OneConnection
INVARIANTS
  FramesCountedOnce
CHECK_DEADLOCK FALSE
