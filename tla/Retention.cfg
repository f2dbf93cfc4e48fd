SPECIFICATION FairSpec
CONSTANTS
  i1 = i1
  i2 = i2
  i3 = i3
  u1 = u1
  u2 = u2
  Ids = {i1, i2, i3}
  Slots = 2
  UpstreamOf <- Shared
  IdleTTL = 1
  MaxAge = 2
  Grace = 1
  Cap = 2
INVARIANTS
  TypeOK
PROPERTIES
  SparesActive
  EvictsLeastRecent
  NoEarlyExpiry
  OverdueGoes
