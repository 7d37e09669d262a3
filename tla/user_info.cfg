SPECIFICATION Spec
CONSTANTS
    c1 = c1
    c2 = c2
    r1 = r1
    r2 = r2
    p1 = p1
    n1 = n1
    v1 = v1
    v2 = v2
    Callers = {c1, c2}
    Reporters = {r1, r2}
    Proxies = {p1}
    Names = {n1}
    Values = {v1, v2}
    Accepted = {v1, v2}
    Configs <- MCConfigs
    MaxCalls = 3
    MayFail = TRUE
SYMMETRY MCSymmetry
INVARIANTS CacheNotOlder RestartKeeps
CHECK_DEADLOCK FALSE
