CONSTANTS
    t1 = t1
    t2 = t2
    c1 = c1
    c2 = c2
    Threads <- MCThreads
    Configs <- MCConfigs
    MaxSeq = 3
    MaxCrashes = 1
    MayTimeOut = TRUE
    MayFail = TRUE
SPECIFICATION FairSpec
CHECK_DEADLOCK FALSE
INVARIANTS
    IdNamesOneConfig
    UniqueUnlessDisturbed
    LiveHasRow
PROPERTIES
    CallsReturn
