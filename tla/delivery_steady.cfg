CONSTANTS
    p1 = p1
    p2 = p2
    w = w
    none = none
    t1 = t1
    t2 = t2
    statistic = statistic
    crash = crash
    Processors <- MCTwoProcessors
    Watchers <- MCOneWatcher
    None <- none
    Threads <- MCThreads
    Kinds <- MCKinds
    Wants <- MCWants
    RealTime <- MCRealTime
    RowCond <- MCRowCond
    OnStartup <- MCStartup
    Removable <- MCOneWatcher
    QueryLimit = 3
    ReportMayFail = FALSE
    MaxEvents = 3
    MaxCrashes = 0
    MaxFaults = 0
SPECIFICATION Spec
SYMMETRY MCSymmetry
INVARIANTS
    PendingEventsStored
    BatchReportedOnce
    RowCoversBacklog
    LastOneErases
CHECK_DEADLOCK FALSE
