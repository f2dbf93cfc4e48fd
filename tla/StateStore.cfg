SPECIFICATION Spec
CONSTANTS
  NoProc = NoProc
  Procs = {p1, p2, p3}
  Changes = {c1, c2, c3, c4}
  FaultKinds <- Every
SYMMETRY Symmetry
INVARIANTS
  TypeOK
  NeverTorn
  AckedStays
  KeptStays
PROPERTIES
  IsRegister
