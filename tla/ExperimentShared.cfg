SPECIFICATION FairSpec
CONSTANTS
  Procs = {p1, p2}
  NoProc = NoProc
  Count = 2
  Warmups = 1
  Values = {a, b}
  Rounds = 1
  CutShort = TRUE
  MaxFaults = 2
INVARIANTS
  EvidenceSound
PROPERTIES
  EvidenceFinal
  MeasuredInRoots
  RunCompletes
