\* Resets and logins of two accounts that overlap, one of which may die.
SPECIFICATION Spec
CONSTANTS
  r1 = r1
  r2 = r2
  r3 = r3
  r4 = r4
  r5 = r5
  u1 = u1
  u2 = u2
  Requests = {r1, r2, r3, r4, r5}
  Unreliable = {r5}
  Users = {u1, u2}
  First = First
  None = None
SYMMETRY Symmetry
INVARIANTS
  TypeOK
  PasswordOnlyByMail
  TokenNotWasted
  OldPasswordDead
PROPERTY OneResetPerToken
