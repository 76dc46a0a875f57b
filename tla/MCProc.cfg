CONSTANTS
  NPROC = 3
  CPU = {c1, c2}
  KillPids = {3}
  MaxPid = 4
SPECIFICATION Spec
SYMMETRY Symmetry
INVARIANTS TypeOK OneCpu NoLostWakeup ParentAlive SchedNoPanic NoLockCircle KillHitsItsTarget
PROPERTY ReapedIsGone
