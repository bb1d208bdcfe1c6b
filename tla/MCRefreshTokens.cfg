\* Crashes and lost responses included; five requests, all alike.
SPECIFICATION Spec
CONSTANTS
  r1 = r1
  r2 = r2
  r3 = r3
  r4 = r4
  r5 = r5
  Requests = {r1, r2, r3, r4, r5}
  Unreliable = {r1, r2, r3, r4, r5}
  None = None
SYMMETRY Symmetry
INVARIANTS
  TypeOK
  AtMostOneActive
  SingleUse
  SessionNotLost
  ReplayKillsSuccessor
  NoFalseBurn
PROPERTY RotatesSessions
