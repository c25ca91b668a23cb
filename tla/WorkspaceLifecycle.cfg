SPECIFICATION Spec
CONSTANTS
  Procs = {p1, p2, p3}
  Ids = {i1, i2}
  Patched = {i2}
  Entries = {e1, e2}
  NoProc = NoProc
  NoId = NoId
  NoEntry = NoEntry
  Orphans = TRUE
  MaxFaults = 3
SYMMETRY Symmetry
INVARIANTS
  UnitSound
  HandoverSound
PROPERTIES
  WantedKept
  InFlightAddKept
