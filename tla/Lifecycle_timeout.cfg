SPECIFICATION Spec
CONSTANTS
  NoAgent = NoAgent
  Agents = {a1}
  Timers = {}
  Ids = {i1}
  Revs = {r1}
  Ports <- OnePort
  BusyGateways = {}
  FaultKinds <- AmbigOnly
INVARIANTS
  NoOrphanListener
