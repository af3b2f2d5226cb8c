CONSTANTS
  p1 = p1
  p2 = p2
  Processes = {p1, p2}
  Keep = 1
  Foreign = {9}
  OldColumns <- Old
  MaxScans = 3
  MaxTime = 2
  MaxDamage = 1
  MaxFiles = 1
SPECIFICATION Spec
SYMMETRY Symmetry
INVARIANTS
  ReadyIsComplete
  ImportsAreSound
  BaseIsAsSaved
CHECK_DEADLOCK FALSE
