SPECIFICATION Spec
CONSTANTS
  b1 = b1
  b2 = b2
  b3 = b3
  w1 = w1
  w2 = w2
  m1 = m1
  k1 = k1
  k2 = k2
  Ids <- ThreeIds
  Workspaces <- TwoWorkspaces
  Nowhere = Nowhere
  Cursors <- OneCursor
  NoCursor = NoCursor
  Clients <- TwoClients
  MaxCalls = 8
SYMMETRY Symmetry
CHECK_DEADLOCK FALSE
INVARIANTS
  StoreTypeOK
PROPERTIES
  LoadTruthful
  CursorKept
