SPECIFICATION Spec
CONSTANTS
    t1 = t1
    t2 = t2
    Threads = {t1, t2}
    Days = 2
    Quotas = {1}
    MaxLog = 6
    Period = 2
    Reserved = 1
    ReservedOs = 1
    TriggerAging = 2
    KeepRuns = 1
    MaxEvents = 3
    MaxTroubles = 1
INVARIANTS QuotaHolds TablesAgree
CHECK_DEADLOCK FALSE
SYMMETRY Symmetry
