SPECIFICATION FairSpec
CONSTANTS
  s1 = s1
  r1 = r1
  x1 = x1
  w1 = w1
  w2 = w2
  NoOne = NoOne
  Execs = {s1, r1, x1}
  Watchers = {w1, w2}
  Operation <- Calls
  Faults = {"append", "resumeAppend", "store", "stream", "kill"}
  MaxFaults = 1
  MaxFrames = 1
  MaxSignals = 1
INVARIANTS
  ProviderUnderKey
  SuccessEarned
  AckMeansSuspended
PROPERTIES
  SessionBoundaryAtomic
  StopEndsRun
