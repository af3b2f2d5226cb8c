SPECIFICATION EitherSpec
CONSTANTS
  Threads = {t1, t2}
  Volumes <- MCVolumeSet
  Privileged = {TRUE, FALSE}
  Root = 1
  FIRST_USER_RECORD = 3
  Disks <- MCDisks
  MaxWrites = 3
  MayBeBad = 2
INVARIANTS
  SharedOnce
  TableIsTheDisk
