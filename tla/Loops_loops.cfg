SPECIFICATION FairSpec
CONSTANTS
    Limit = 2
    Trees = {"base", "changed"}
    Base = "base"
    NoTree = "none"
    Mixes <- MCMixes
    MaxRows = 4
    MaxWorkers = 3
INVARIANTS DeliveredProven OneWorker ReleasedAtEnd SteerKept
PROPERTIES RunEnds
CHECK_DEADLOCK FALSE
