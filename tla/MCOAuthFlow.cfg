\* Repeated callbacks and exchanges, one of which may die; another gets no
\* access token.
SPECIFICATION Spec
CONSTANTS
  r1 = r1
  r2 = r2
  r3 = r3
  r4 = r4
  r5 = r5
  Requests = {r1, r2, r3, r4, r5}
  Unreliable = {r5}
  Unsigned = {r4}
  Providers = {"kakao", "naver"}
  None = None
SYMMETRY Symmetry
INVARIANTS
  TypeOK
  NoMixUp
  CodeNotWasted
PROPERTY OneSessionPerLogin
