CONSTANTS
    o1 = o1
    o2 = o2
    t1 = t1
    i1 = i1
    i2 = i2
    Observers <- MCObservers
    Callers <- MCOneThread
    Tasks <- MCTasks
    RowCond <- MCRowCond
    SizeCond <- MCSecond
    TimeoutCond <- MCTimeoutCond
    OnBackground <- MCSecond
    RestoredRows <- MCSomeRestored
    Cap = 2
SPECIFICATION TTFairSpec
INVARIANTS
    OneTimeoutTask
PROPERTIES
    ArmedTimerServes
