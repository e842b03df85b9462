SPECIFICATION QueriesSpec
CONSTANTS
  b1 = b1
  b2 = b2
  b3 = b3
  b4 = b4
  t1 = t1
  NoBranch = NoBranch
  Ids <- FourIds
  Askers <- OneAsker
  MaxEdges = 3
  MaxRemovals = 1
SYMMETRY Symmetry
INVARIANTS
  TypeOK
  NoCycle
  IndexAgrees
  DepthIsNearest
  PathsThroughParents
  SubtreeMirrorsAncestors
PROPERTIES
  ImplementsLineage
  MergeBaseIsCommon
  MergeBaseIsLowest
  DivergenceNotOverstated
