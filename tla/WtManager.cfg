SPECIFICATION FairSpec
CONSTANTS
  Callers = {c1, c2}
  Sweepers = {g1, g2}
  NoProc = NoProc
  MaxFaults = 2
INVARIANTS
  TypeOK
  AddIntoNothing
PROPERTIES
  WorkKept
  EnsureReturns
