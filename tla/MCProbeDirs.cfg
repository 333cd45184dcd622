SPECIFICATION FairSpec
CONSTANTS
  Procs = {p1, p2}
  Dirs = {d1, d2}
  Kids = {k1, k2}
  Free = Free
  Nowhere = Nowhere
  Passes = 3
  MaxForks = 1
INVARIANTS TypeOK LiveDirStays
PROPERTIES  SweepLockFreed 
