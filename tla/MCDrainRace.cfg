CONSTANTS
  worker = worker
  sidecar = sidecar
  mover = mover
  stray = stray
  cloud = cloud
  typo = typo
  events = events
  audio = audio
  N = 2
  Workers <- MCWorkers
  Drainers = {sidecar}
  Records <- MCRecords
  EndpointOf <- MCPointed
  Yes = {}
  Keep = {}
  Watch = {sidecar}
  Stores <- MCStores
  Founding = {cloud}
  Unshippable = {}
  Objects <- MCObjects
  Manifest = Manifest
  MaxMishaps = 0
  NoReceipt = NoReceipt
  Torn = Torn
  NoEndpoint = NoEndpoint
SPECIFICATION Spec
INVARIANTS
  CompletionsWhole
CHECK_DEADLOCK FALSE
