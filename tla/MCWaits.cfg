SPECIFICATION WaitsSpec
CONSTANTS
  Replays = {r1, r2}
  Files = {f}
  WholeDisk = {r2}
  Cap = 2
  Impatient = {r1}
  MaxChanges = 1
  MaxLosses = 1
  Walkers = {w1, w2, w3}
  Permits = 1
  Patience = 2
  RunLength = 3
  FilesEach = 3
  FileTime = 1
  MaxHung = 1
INVARIANTS
  StartsAccountedFor
  GateIsFair
PROPERTIES
  AnswersToTheMarker
  ReplayEnds
  GateLetsThrough
CHECK_DEADLOCK FALSE
