CONSTANTS
  r1 = r1
  r2 = r2
  s1 = s1
  s2 = s2
  a1 = a1
  a2 = a2
  e1 = e1
  e2 = e2
  w1 = w1
  w2 = w2
  w3 = w3
  f1 = f1
  f2 = f2
  Recorders = {r1, r2}
  Sessions = {s1, s2}
  Agents = {a1, a2}
  Events = {e1, e2}
  Wirings = {w1, w2, w3}
  Finishes = {f1, f2}
  MayRecord <- MCMayRecord
  Tapped = {a1}
  Sealed = {s2}
  Frozen = {}
  None = None
SYMMETRY MCSymmetry
SPECIFICATION Spec
CONSTRAINT OneRetry
INVARIANTS
  HandledOnce
  FinishedLetsGo
  AgentInChargeIsBound
  CertifiedMeansHeard
CHECK_DEADLOCK FALSE
