\* dev.sh up, with the whole of .env exported.
SPECIFICATION Spec
CONSTANTS
  m1 = m1
  Migrators = {m1}
  Exporting = {m1}
  Operators = {}
  Unreliable = {}
INVARIANT ServesLatest
