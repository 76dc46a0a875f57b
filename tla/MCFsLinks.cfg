CONSTANTS
  Proc = {p1, p2}
  Nobody = Nobody
  NINODES = 3
  a = a
  b = b
  Name <- MCName
  Path <- MCPath
  MaxOps = 3
  MaxOpen = 1
  MaxCrashes = 0
SPECIFICATION Spec
SYMMETRY Symmetry
INVARIANT LinksExact
CHECK_DEADLOCK FALSE
