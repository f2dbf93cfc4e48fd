SPECIFICATION Spec
CONSTANTS
  NoAgent = NoAgent
  Agents = {a1, a2}
  Timers = {}
  Ids = {i1, i2, i3}
  Revs = {r1, r2}
  Ports <- ThreePorts
  BusyGateways = {3}
  FaultKinds <- Lost
SYMMETRY Symmetry
INVARIANTS
  InStep
  BystandersServed
  ReservationAgrees
  VerifiedIsServed
  RemovedIsGone
