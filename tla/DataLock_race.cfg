SPECIFICATION FairSpec
CONSTANTS
    NoStart = NoStart
    Starts = {p1, p2, p3}
    Local = {p1, p2}
    MaxTries = 2
    MaxCrashes = 2
    MaxRemovals = 1
CHECK_DEADLOCK FALSE
INVARIANTS OneDaemon NoSpuriousRefusal
PROPERTIES StartsDecide
