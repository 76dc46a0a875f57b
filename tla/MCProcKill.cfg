CONSTANTS
  NPROC = 3
  CPU = {c1}
  KillPids = {0}
  MaxPid = 3
SPECIFICATION Spec
INVARIANT KillHitsItsTarget
