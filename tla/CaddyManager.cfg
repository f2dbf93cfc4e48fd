SPECIFICATION Spec
CONSTANTS
  Nothing = Nothing
  Partial = Partial
  NoProc = NoProc
  Configs = {c1, c2, c3}
  Procs = {p1, p2}
  FaultKinds <- Every
INVARIANTS
  TypeOK
  OneCaddy
PROPERTIES
  OkIsServed
  KeepsPromise
SYMMETRY Symmetry
