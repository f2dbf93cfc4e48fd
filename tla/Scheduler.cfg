SPECIFICATION Spec
CONSTANTS
  Processes = {p1, p2}
  Binaries = {old, new}
  None = None
SYMMETRY Alike
INVARIANTS
  TypeOK
  InstalledRuns
  UninstalledStops
