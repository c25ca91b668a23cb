SPECIFICATION FairSpec
CONSTANTS
  Calls = {c1, c2}
  MaxObs = 1
  MaxRev = 2
  MaxFaults = 2
  MaxRestarts = 1
  Nobody = Nobody
INVARIANTS
  StreamSound
  StateTrue
PROPERTIES
  OnInstalledRevision
  CallsReleased
CHECK_DEADLOCK FALSE
