SPECIFICATION FairSpec
CONSTANTS
  NoAgent = NoAgent
  Agents = {u, t}
  Timers = {t}
  Ids = {i1, i2}
  Revs = {r1}
  Ports <- TwoPorts
  BusyGateways = {}
  FaultKinds <- Repairable
PROPERTIES
  CaddyHeals
