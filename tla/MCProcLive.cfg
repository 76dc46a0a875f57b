CONSTANTS
  NPROC = 3
  CPU = {c1}
  KillPids = {}
  MaxPid = 3
SPECIFICATION FairSpec
PROPERTY ZombieReaped
