SPECIFICATION Spec
CONSTANTS
    p1 = p1
    p2 = p2
    serve = serve
    w1 = w1
    w2 = w2
    i1 = i1
    i2 = i2
    i3 = i3
    Procs = {p1, p2}
    Threads = {serve, w1, w2}
    ProcOf <- TwoProcesses
    Writers = {w1, w2}
    Reused = {}
    Inodes = {i1, i2, i3}
    AcquireRetries = 1
    LockDecodeRetries = 0
    NoFile = NoFile
    NoThread = NoThread
    Incomplete = Incomplete
    Garbled = Garbled
SYMMETRY InodePerms
INVARIANTS
  TypeOK
  LeaseCustody
PROPERTIES
  UnlinkIntended
  ImplementsExclusion
CHECK_DEADLOCK FALSE
