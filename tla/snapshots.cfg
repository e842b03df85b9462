SPECIFICATION Spec
CONSTANTS
  f1 = f1
  r1 = r1
  x1 = x1
  PageCount = 2
  Forkers <- OneForker
  Readers <- OneReader
  Others <- OneOther
  Nobody = Nobody
  MaxCommits = 3
INVARIANTS
  SealedWhole
  SealedCurrent
