\* A login and a refresh over two workers, whose keys are replaced.
SPECIFICATION Spec
CONSTANTS
  r1 = r1
  r2 = r2
  p1 = p1
  p2 = p2
  k1 = k1
  k2 = k2
  Requests = {r1, r2}
  Processes = {p1, p2}
  Keys = {k1, k2}
  Ttls = {0, 4}
  Cap = 2
  Horizon = 4
  None = None
SYMMETRY Symmetry
INVARIANTS
  TypeOK
  ShortLived
  KidIsStable
  AccessFades
