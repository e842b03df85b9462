SPECIFICATION Spec
CONSTANTS
  b1 = b1
  b2 = b2
  b3 = b3
  b4 = b4
  c1 = c1
  c2 = c2
  name = name
  trunk = trunk
  scheduler = scheduler
  NoBranch = NoBranch
  Names <- OneName
  TrunkName = trunk
  Scheduler = scheduler
  MaxSuffix = 4
  Branches <- FourBranches
  Clients <- TwoClients
  Operations <- ForkOps
  MaxBranches = 2
  RemovalFails = FALSE
  MaxCrashes = 1
SYMMETRY Symmetry4
INVARIANTS
  SlugsUnique
  LineageGrounded
  DagMirrorsRegistry
  ForkEdgeAccepted
  OvershootBounded
