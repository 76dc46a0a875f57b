CONSTANTS
  Writer = {w1, w2}
  Reader = {r1}
  Nobody = Nobody
  PIPESIZE = 2
  UINT = 4
  MaxLen = 3
  MaxBytes = 5
  Killable = {w1, r1}
SPECIFICATION FairSpec
INVARIANTS Fifo NobodySleepsInVain FreedUnreachable
PROPERTY CallsReturn
CHECK_DEADLOCK FALSE
