CONSTANTS
  NPROC = 2
  Memory = {9, 12, 16, 20}
  N = 2
  PGSIZE = 2
  USERSTACK = 2
  ULONG = 64
  MaxSz = 4
  MaxArgs = 1
SPECIFICATION Spec
INVARIANTS PagesConserved ImageComplete VmNoPanic
