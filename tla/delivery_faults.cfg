CONSTANTS
    p1 = p1
    p2 = p2
    w = w
    none = none
    t1 = t1
    t2 = t2
    statistic = statistic
    crash = crash
    Processors <- MCOneProcessor
    Watchers <- MCOneWatcher
    None <- none
    Threads <- MCThreads
    Kinds <- MCKinds
    Wants <- MCWants
    RealTime <- MCRealTime
    RowCond <- MCRowCond
    OnStartup <- MCStartup
    Removable <- MCOneProcessor
    QueryLimit = 1
    ReportMayFail = TRUE
    MaxEvents = 2
    MaxCrashes = 1
    MaxFaults = 1
SPECIFICATION Spec
PROPERTIES
    AtLeastOnce
