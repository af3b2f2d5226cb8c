CONSTANTS
  file = file
  Folders = {1, 2}
  Files = {file}
  Names = {1, 2}
  Place <- OneFolder
  Links <- InTheFirst
  EventQueue = 3
  MaxChanges = 2
SPECIFICATION Spec
INVARIANTS
  EventsSuffice
  NeverTwiceUnaided
PROPERTIES
  Converges
CHECK_DEADLOCK FALSE
