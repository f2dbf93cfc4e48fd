SPECIFICATION Spec
CONSTANTS
  NoAgent = NoAgent
  Agents = {a1, a2}
  Timers = {}
  Ids = {i1, i2}
  Revs = {r1, r2}
  Ports <- TwoPorts
  BusyGateways = {}
  FaultKinds <- EveryFault
SYMMETRY Symmetry
INVARIANTS
  TypeOK
  RegistrySound
PROPERTIES
  NoLostUpdate
  PinnedSurvive
  ForeignKept
  ImplementsCatalog
