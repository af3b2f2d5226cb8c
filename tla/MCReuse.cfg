SPECIFICATION ReuseSpec
CONSTANTS
  Root = 0
  Dirs = {0, 1, 2}
  Files = {3, 4, 5}
  Parent <- MCParent
  MountPoints = {2}
  DirInodes = {11, 12, 13}
  FileInodes = {21, 22, 23}
  Absent = 99
  Foreign = 90
  OtherSpelling = {"Modified", "Created"}
  MaxChanges = 2
  Disks <- MCDisks
  MaxScans = 3
  MountsWhileScanning = FALSE
  Labels = {1, 2, 3}
  FileIds = {1, 2, 3}
  Contents = {10, 11, 12, 20}
  Size <- SizeOf
  Prefix <- PrefixOf
  Large = {1}
  UseCache = TRUE
  MaxTouches = 2
  MaxClock = 2
  MaxRuns = 2
CONSTRAINT StillTelling
INVARIANTS
  HashesServe
  EachIsRecent
  ChargedAndCounted
CHECK_DEADLOCK FALSE
