\* Four requests of any kind, each of which may crash.
SPECIFICATION Spec
CONSTANTS
  r1 = r1
  r2 = r2
  r3 = r3
  r4 = r4
  e1 = e1
  e2 = e2
  n1 = n1
  kim = kim
  lee = lee
  Requests = {r1, r2, r3, r4}
  Unreliable = {r1, r2, r3, r4}
  Emails = {e1, e2}
  Names = {e1, e2, n1}
  Subjects = {kim, lee}
  AtNaver = {lee}
  None = None
SYMMETRY Symmetry
INVARIANTS
  TypeOK
  NoOrphans
  OneUserPerSubject
  LinksAreTrusted
  ConflictIsReal
  RetryWillFind
