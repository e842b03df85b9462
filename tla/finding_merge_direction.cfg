SPECIFICATION Spec
CONSTANTS
  p = p
  x = x
  y = y
  c1 = c1
  c2 = c2
  i = i
  j = j
  k = k
  l = l
  f = f
  g = g
  h = h
  u = u
  v = v
  w = w
  NoBranch = NoBranch
  Null = Null
  Absent = Absent
  Branches <- Family
  ParentOf <- FamilyParent
  Values <- TwoValues
  Clients <- OneClient
  Fields <- TwoFields
  Entities <- OneEntity
  TypeCount = 1
  Requests <- TheirsMerge
  MaxWrites = 0
  MaxCalls = 1
SYMMETRY Symmetry
CHECK_DEADLOCK FALSE
PROPERTIES
  WritesTargetOnly
