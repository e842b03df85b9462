SPECIFICATION Disturbed
CONSTANTS
  trunk = trunk
  x = x
  h1 = h1
  t1 = t1
  t2 = t2
  memory = memory
  session = session
  i = i
  v = v
  w = w
  insert = insert
  Branches <- TwoBranches
  Trunk = trunk
  NoBranch = NoBranch
  Types <- TwoTypes
  Entities <- OneOfEach
  Contents <- TwoContents
  Absent = Absent
  OpKinds <- OneKind
  Trackers <- TwoTrackers
  Hosts <- OneHost
  NoHost = NoHost
  MaxBranches = 2
  Threshold <- FourFifths
  MaxTracked = 2
  MaxChanges = 2
  MaxSimulations = 1
CHECK_DEADLOCK FALSE
INVARIANTS
  SandboxTypeOK
  CountersBacked
PROPERTIES
  RefreshExact
  RecommendationTruthful
  TimedRunsEnd
