CONSTANTS
    t1 = t1
    t2 = t2
    t3 = t3
    Users <- MCThreads
    MaxFiles = 7
    MaxDamages = 2
    InitMayFail = TRUE
    DeleteMayFail = TRUE
SPECIFICATION DBFairSpec
INVARIANTS
    ExecutedOnce
    StoreIsTheFile
PROPERTIES
    DamageIsRepaired
    HealthyFileLostToOldError
