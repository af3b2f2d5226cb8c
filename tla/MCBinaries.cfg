SPECIFICATION Spec
CONSTANTS
  Updaters = {u1, u2}
  Releases = {1, 2, 3}
  Files = {1, 2, 3, 4, 5, 6}
INVARIANTS
  RemoteSound
  AlwaysRuns
PROPERTIES
  LeaseEnds
CHECK_DEADLOCK FALSE
