SPECIFICATION FairSpec
CONSTANTS
  a = a
  b = b
  v = v
  Procs = {p1, p2}
  Pools = {a, b}
  Values = {v}
  NoValue = NoValue
  NoProc = NoProc
  NoOp = NoOp
  Torn = Torn
  NoFile = NoFile
  MaxCount = 1
  Work <- MCWork
INVARIANTS TypeOK NeverTorn PairConsistent
PROPERTIES SnapshotKept NoLostUpdate LockAlwaysFreed
