SPECIFICATION Disturbed
CONSTANTS
  x = x
  y = y
  c1 = c1
  c2 = c2
  f = f
  g = g
  v = v
  i = i
  memory = memory
  session = session
  Null = Null
  Absent = Absent
  Whole = Whole
  NoClient = NoClient
  Branches <- TwoBranches
  EntityTypes <- TwoTypes
  Entities <- OneOfEach
  Tables <- SomeTables
  Fields <- TwoFields
  Values <- OneValue
  Clients <- TwoClients
  Cherries <- Cross
  MaxCalls = 2
  MaxChanges = 1
CHECK_DEADLOCK FALSE
INVARIANTS
  TypeOK
  AnswersTruthful
  LogNamesArrivedRows
  CommitOnce
PROPERTIES
  OnlySelectedLand
  CallsReturn
