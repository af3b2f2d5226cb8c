SPECIFICATION TreesSpec
CONSTANTS
  Root = 0
  Dirs = {0, 1, 2, 6}
  Files = {3, 4, 5, 7, 8}
  Parent <- MCParent
  Inodes = {1, 2, 3, 4, 9}
  Families = {"f", "g"}
  NoFamily = "no family"
  Blocks = {1, 2, 3, 4, 9, 10, 20, 22}
  MaxWalkDepth = 2
  Disks <- MCDisks
  Shapes <- ScannedDisks
  Labels = {1, 2}
  MaxDepth = 2
  Sizes = {0, 10}
  FirstDisks <- WatchedDisks
  MaxChanges = 3
  WorthIt = 1
  Buckets <- SmallBuckets
  SizeOf <- SizeOfKey
  Time <- TimeOfKey
  Workers = 2
  PageSize = 2
  FoldersPerWorker = 2
  DepthLimit = 3
  MaxOwn = 2
  Budget = 3
INVARIANTS
  CountedOnce
  NothingLost
  SameNameCarries
  NothingMissing
  ArenaIsATree
  FrameIsTheDiff
  PlanIsSound
  TreeIsTheBuckets
