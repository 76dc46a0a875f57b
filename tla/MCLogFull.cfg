CONSTANTS
  Proc = {p1, p2}
  Block = {b1, b2, b3, b4}
  Data = {x}
  NoData = NoData
  Junk = Junk
  LOGSIZE = 4
  MAXOPBLOCKS = 2
  NLOG = 4
  OpBlocks = 2
  MaxOps = 2
  MaxCrashes = 0
SPECIFICATION Spec
SYMMETRY Symmetry
INVARIANT NoPanic
CHECK_DEADLOCK FALSE
