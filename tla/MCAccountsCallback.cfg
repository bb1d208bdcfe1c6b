\* Two first logins with one verified e-mail.
SPECIFICATION Spec
CONSTANTS
  r1 = r1
  r2 = r2
  r3 = r3
  e1 = e1
  e2 = e2
  n1 = n1
  kim = kim
  lee = lee
  Requests = {r1, r2, r3}
  Unreliable = {}
  Emails = {e1, e2}
  Names = {e1, e2, n1}
  Subjects = {kim, lee}
  AtNaver = {lee}
  None = None
SYMMETRY Symmetry
INVARIANT VerifiedEmailLinks
