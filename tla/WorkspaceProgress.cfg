SPECIFICATION FairSpec
CONSTANTS
  Procs = {p1}
  Ids = {i1, i2}
  Patched = {i2}
  Entries = {e1, e2}
  NoProc = NoProc
  NoId = NoId
  NoEntry = NoEntry
  Orphans = FALSE
  MaxFaults = 3
PROPERTIES
  NeverWedged
  ReclaimReentrant
