CONSTANTS
  file = file
  Folders = {1, 2}
  Files = {file}
  Names = {1, 2}
  Place <- TwoFolders
  Links <- InTheFirst
  EventQueue = 3
  MaxChanges = 2
SPECIFICATION Spec
INVARIANTS
  CountedOnce
CHECK_DEADLOCK FALSE
