\* Two deployments and two downgrades at once; each of them may die.
SPECIFICATION Spec
CONSTANTS
  m1 = m1
  m2 = m2
  m3 = m3
  m4 = m4
  Migrators = {m1, m2, m3, m4}
  Exporting = {}
  Operators = {m3, m4}
  Unreliable = {m1, m2, m3, m4}
SYMMETRY Symmetry
INVARIANTS
  TypeOK
  CatalogIsVersion
  IdOnlyFits
  NoCircle
PROPERTIES
  FailuresHaveCause
  MovesAsTold
  OneUpIsSafe
