SPECIFICATION FairSpec
CONSTANTS
  c1 = c1  c2 = c2
  r1 = r1  r2 = r2  a = a  None = None
  Calls = {c1, c2}
  Roots = {r1, r2}
  Values = {a}
  MaxRoots = 1
  Window = 1
  Granule = 1
  MaxTime = 2
  MaxWrites = 0
  MaxErrors = 2
INVARIANTS TypeOK
PROPERTIES CallsEnd
CHECK_DEADLOCK FALSE
