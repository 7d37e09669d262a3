SPECIFICATION Spec
CONSTANTS
    a1 = a1
    Apis = {a1}
    Costs <- MCCosts
    Outcomes <- MCOutcomes
    IntMax = 7
    MaxCalls = 2
    MaxFaults = 2
    MaxCrashes = 1
INVARIANTS CallsAccountedFor ReportsAreHonest
PROPERTIES EverythingReported
CHECK_DEADLOCK FALSE
