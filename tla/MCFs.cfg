CONSTANTS
  Proc = {p1, p2}
  Nobody = Nobody
  NINODES = 3
  a = a
  b = b
  Name <- MCName
  Path <- MCPath
  MaxOps = 3
  MaxOpen = 1
  MaxCrashes = 1
SPECIFICATION Spec
SYMMETRY Symmetry
INVARIANTS TypeOK RefExact LinksCounted NoUseAfterFree IputNeverBlocks NoDeadlock
CHECK_DEADLOCK FALSE
