\* The burn that misses the successor of a rotation in flight.
SPECIFICATION Spec
CONSTANTS
  r1 = r1
  r2 = r2
  r3 = r3
  r4 = r4
  Requests = {r1, r2, r3, r4}
  Unreliable = {}
  None = None
SYMMETRY Symmetry
INVARIANT BurnIsTotal
