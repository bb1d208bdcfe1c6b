\* A database that fails only by deadlock, under fairness.
SPECIFICATION FairSpec
CONSTANTS
  r1 = r1
  r2 = r2
  r3 = r3
  r4 = r4
  Requests = {r1, r2, r3, r4}
  Unreliable = {}
  None = None
INVARIANT SwallowedBurnCovered
PROPERTY EveryRequestAnswered
