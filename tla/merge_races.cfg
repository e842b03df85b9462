SPECIFICATION Disturbed
CONSTANTS
  p = p
  x = x
  y = y
  c1 = c1
  c2 = c2
  i = i
  j = j
  k = k
  l = l
  f = f
  g = g
  h = h
  u = u
  v = v
  w = w
  NoBranch = NoBranch
  Null = Null
  Absent = Absent
  Branches <- Family
  ParentOf <- FamilyParent
  Values <- TwoValues
  Clients <- TwoClients
  Fields <- TwoFields
  Entities <- OneEntity
  TypeCount = 1
  Requests <- RacedMerges
  MaxWrites = 1
  MaxCalls = 2
SYMMETRY Symmetry
CHECK_DEADLOCK FALSE
INVARIANTS
  TypeOK
  MergeOnce
PROPERTIES
  ConflictsFollowStrategy
  OnlyTheirChangesLand
