CONSTANTS
    MaxCustoms = 1
    t1 = t1  t2 = t2
    Callers <- MCCallers
    Packs <- MCPacks
    Configs <- MCConfigs
    Files <- MCFiles
    Options <- MCOptions
    MaxCalls = 2
    MaxEvents = 1
    MaxRuns = 2
    MaxFaults = 1
SPECIFICATION Spec
INVARIANTS FollowsStored OwnSettingsStay ConfigsAreInRange AddedIsRegistered
PROPERTY AnswersTell
SYMMETRY Symmetry
CHECK_DEADLOCK FALSE
