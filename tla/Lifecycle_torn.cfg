SPECIFICATION Spec
CONSTANTS
  NoAgent = NoAgent
  Agents = {a1}
  Timers = {}
  Ids = {i1}
  Revs = {r1, r2}
  Ports <- OnePort
  BusyGateways = {}
  FaultKinds <- TornOnly
INVARIANTS
  VerifiedIsServed
