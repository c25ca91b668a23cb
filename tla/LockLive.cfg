SPECIFICATION LiveSpec
CONSTANTS
    ghost = ghost
    reused = reused
    p1 = p1
    serve = serve
    w1 = w1
    Procs = {ghost, reused, p1}
    Threads = {serve, w1}
    ProcOf <- MCProcOf
    Writers = {w1}
    Reused = {reused}
    Inodes = {i1, i2}
    AcquireRetries = 1
    LockDecodeRetries = 1
    NoFile = NoFile
    NoThread = NoThread
    Incomplete = Incomplete
    Garbled = Garbled
PROPERTIES AcquireReturns ReleaseDrains StaleLockReclaimed
CHECK_DEADLOCK FALSE
