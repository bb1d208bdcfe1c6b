\* Three calls of a tab: logins, logouts, and exchanges over two page loads.
SPECIFICATION FairSpec
CONSTANTS
  c1 = c1
  c2 = c2
  c3 = c3
  Calls = {c1, c2, c3}
  None = None
INVARIANTS
  TypeOK
  PostedOnce
  LogoutRevokes
PROPERTIES
  SignInOnce
  CallbackSettles
