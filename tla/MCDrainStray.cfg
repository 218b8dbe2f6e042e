CONSTANTS
  worker = worker
  sidecar = sidecar
  mover = mover
  stray = stray
  cloud = cloud
  typo = typo
  events = events
  audio = audio
  N = 2
  Workers <- MCWorkers
  Drainers = {stray}
  Records <- MCRecords
  EndpointOf <- MCAstray
  Yes = {}
  Keep = {}
  Watch = {stray}
  Stores <- MCStores
  Founding = {cloud}
  Unshippable = {}
  Objects <- MCObjects
  Manifest = Manifest
  MaxMishaps = 1
  NoReceipt = NoReceipt
  Torn = Torn
  NoEndpoint = NoEndpoint
SPECIFICATION Spec
INVARIANTS
  OnlyConfirmedHosts
CHECK_DEADLOCK FALSE
