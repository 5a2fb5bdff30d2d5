SPECIFICATION Spec
CONSTANTS
    boot = boot
    t1 = t1
    t2 = t2
    t3 = t3
    Boot <- boot
    Threads <- ThreeThreads
    MaxReturns = 1
CHECK_DEADLOCK FALSE
INVARIANT KillOnlyLast
