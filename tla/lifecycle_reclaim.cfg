SPECIFICATION FairSpec
CONSTANTS
  b1 = b1
  b2 = b2
  b3 = b3
  b4 = b4
  c1 = c1
  c2 = c2
  name = name
  trunk = trunk
  scheduler = scheduler
  NoBranch = NoBranch
  Names <- OneName
  TrunkName = trunk
  Scheduler = scheduler
  MaxSuffix = 4
  Branches <- TwoBranches
  Clients <- OneClient
  Operations <- ReclaimOps
  MaxBranches = 2
  RemovalFails = TRUE
  MaxCrashes = 1
PROPERTIES
  DiscardedReclaimed
