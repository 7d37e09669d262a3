CONSTANTS
    Watchers <- MCWatchers
    Binding <- MCBinding
    Wrong <- MCWrong
    Filters <- MCFilters
    Attributes <- MCAttributes
    Sizes <- MCSizes
    Envs <- MCEnvs
    Main = "main"
    AddedBy <- MCAddedBy
    TakeRow = 0
    TakeSize = 2
    MaxCalls = 2
    MaxFaults = 1
    MaxCrashes = 1
    MaxEnvs = 2
SPECIFICATION Spec
INVARIANTS TakenOrMapped EnvsOfCallbacks TriggeredWithHolder PackagesAreDisjoint
PROPERTY PostedIsUnmapped
CHECK_DEADLOCK FALSE
