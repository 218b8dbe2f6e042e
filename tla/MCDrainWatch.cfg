CONSTANTS
  worker = worker
  sidecar = sidecar
  mover = mover
  stray = stray
  cloud = cloud
  typo = typo
  events = events
  audio = audio
  N = 2
  Workers <- MCWorkers
  Drainers = {sidecar, stray}
  Records <- MCRecords
  EndpointOf <- MCPointed
  Yes = {}
  Keep = {}
  Watch <- MCWatchers
  Stores <- MCStores
  Founding = {cloud}
  Unshippable = {1}
  Objects <- MCObjects
  Manifest = Manifest
  MaxMishaps = 2
  NoReceipt = NoReceipt
  Torn = Torn
  NoEndpoint = NoEndpoint
SPECIFICATION Spec
INVARIANTS
  OnlyKnownHosts
PROPERTIES
  EveryCallDelivered
CHECK_DEADLOCK FALSE
