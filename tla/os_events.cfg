SPECIFICATION Spec
CONSTANTS
    e1 = e1
    e2 = e2
    e3 = e3
    w1 = w1
    w2 = w2
    Events = {e1, e2, e3}
    Watchers = {w1, w2}
    KindOf <- MCKindOf
    Mask <- MCMask
    Malformed = {e3}
    MaxAdds = 4
    MaxFaults = 1
    MaxCrashes = 1
INVARIANTS OwedIsKept FilesAreNoticed ListenerServesWatchers
CHECK_DEADLOCK FALSE
