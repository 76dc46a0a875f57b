CONSTANTS
  Proc = {p1, p2}
  Block = {b1, b2, b3}
  Data = {x, y}
  NoData = NoData
  Junk = Junk
  LOGSIZE = 4
  MAXOPBLOCKS = 2
  NLOG = 4
  OpBlocks = 2
  MaxOps = 3
  MaxCrashes = 2
SPECIFICATION Spec
SYMMETRY Symmetry
INVARIANTS TypeOK EndOpDurable PinsMatchLog
PROPERTY CrashAtomic
CHECK_DEADLOCK FALSE
