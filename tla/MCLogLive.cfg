CONSTANTS
  Proc = {p1, p2}
  Block = {b1, b2, b3, b4}
  Data = {x}
  NoData = NoData
  Junk = Junk
  LOGSIZE = 4
  MAXOPBLOCKS = 2
  NLOG = 4
  OpBlocks = 1
  MaxOps = 4
  MaxCrashes = 2
SPECIFICATION FairSpec
INVARIANT NoPanic
PROPERTIES BeginOpAdmitted RecoveryEnds
