SPECIFICATION Spec
CONSTANTS
    Clients = {c1, c2, c3}
    Human = human
    MaxEdits = 1
    MaxFaults = 3
    Absent = Absent
    Torn = Torn
    NoClient = NoClient
SYMMETRY ClientPerms
INVARIANTS
  TypeOK
  NeverSpecAhead
  NeverProvenanceAhead
  LogFaithful
  SuccessDurable
PROPERTIES
  OnlyRacingEditsLost
CHECK_DEADLOCK FALSE
