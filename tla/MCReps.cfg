SPECIFICATION Spec
CONSTANTS
  None = None
  a1 = a1 a2 = a2 b1 = b1 b2 = b2 b3 = b3
  Clients = {a1, a2}
  Own = "own"
  Other = "other"
  Origins = {b1, b2, b3}
  Reps = {"r", "s"}
  Foreign = "f"
  MaxForeign = 1
  MaxMissed = 1
  Operators = {"op"}
  Ladder <- MCLadder
  Unspelled = "none"
  Preferred = "medium"
  Top = 2
  Tasks = {"t1", "t2"}
  Shapes <- MCShapes
  Thresholds = {1, 2}
  DemoteWindow = 3
  RateOf = 2
  Openings <- MCOpenings
  MaxReps = 3
SYMMETRY MCSymmetry
INVARIANTS CountedOnce RepsAreKept EvidenceCounts ProposalsHold
CHECK_DEADLOCK FALSE
