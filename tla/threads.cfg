SPECIFICATION FairSpec
CONSTANTS
    boot = boot
    t1 = t1
    t2 = t2
    t3 = t3
    Boot <- boot
    Threads <- ThreeThreads
    MaxReturns = 2
CHECK_DEADLOCK FALSE
INVARIANTS TypeOK PreemptBalanced SmallRing RingOfFew
PROPERTIES LinksChangeMasked ImplementsScheduler FewReturnToBoot
