SPECIFICATION FairSpec
CONSTANTS
  Procs = {p1, p2}
  Inodes = {i1, i2, i3, i4}
  Gone = Gone
  NoInode = NoInode
  NoPid = NoPid
  Nobody = Nobody
  Orphan = Orphan
INVARIANTS ExcessIsDisplaced
PROPERTIES OnlyAnEarlierReadDisplaces DeadPinYields
CHECK_DEADLOCK FALSE
