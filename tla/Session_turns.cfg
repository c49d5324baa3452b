SPECIFICATION FairSpec
CONSTANTS
    s1 = s1
    s2 = s2
    c1 = c1
    b1 = b1
    Sends = {s1, s2}
    Calls = {c1, b1}
    Background = {b1}
    Mixes <- TurnMixes
    MaxRuns = 4
    MaxGen = 3
CHECK_DEADLOCK FALSE
INVARIANTS WorkingHasReader PendingIsParked AbsorbsOwedEnds
PROPERTIES NeverWedged SendsSettle
