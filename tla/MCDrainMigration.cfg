CONSTANTS
  worker = worker
  sidecar = sidecar
  mover = mover
  stray = stray
  cloud = cloud
  typo = typo
  events = events
  audio = audio
  N = 2
  Workers <- MCWorkers
  Drainers = {mover}
  Records <- MCRecords
  EndpointOf <- MCPointed
  Yes <- MCMovers
  Keep = {}
  Watch <- MCMovers
  Stores <- MCStores
  Founding = {cloud}
  Unshippable = {}
  Objects <- MCObjects
  Manifest = Manifest
  MaxMishaps = 1
  NoReceipt = NoReceipt
  Torn = Torn
  NoEndpoint = NoEndpoint
SPECIFICATION Spec
INVARIANTS
  NoCallLost
CHECK_DEADLOCK FALSE
