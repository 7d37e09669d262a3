CONSTANTS
    Limit <- MCLimit
    SpecialNames <- MCSpecialNames
    Calls = {c1, c2}
    Events <- MCEvents
    ParamSets <- MCParamSets
    MaxChanges = 2
SPECIFICATION WSpec
INVARIANTS LinesAreValid ResultIsHonest BindingsAgree
PROPERTIES CustomIsAllOrNothing EveryCallEnds
CHECK_DEADLOCK FALSE
