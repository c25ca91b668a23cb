SPECIFICATION Spec
CONSTANTS
  c1 = c1  c2 = c2
  r1 = r1  a = a  b = b  None = None
  Calls = {c1, c2}
  Roots = {r1}
  Values = {a, b}
  MaxRoots = 1
  Window = 2
  Granule = 2
  MaxTime = 3
  MaxWrites = 2
  MaxErrors = 0
SYMMETRY Symmetry
INVARIANTS ServedCurrent
PROPERTIES StoredKept
CHECK_DEADLOCK FALSE
