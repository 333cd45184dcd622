SPECIFICATION Spec
CONSTANTS
  Procs = {p1, p2}
  Nobody = Nobody
  Ids = {e1, e2, e3}
  NoRecord = NoRecord
  Cooldown = 1
  Horizon = 2
SYMMETRY Symmetry
INVARIANTS OneNotice
PROPERTIES SuppressedWasNotified
