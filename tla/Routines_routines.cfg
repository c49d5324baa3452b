SPECIFICATION FairSpec
CONSTANTS
    L = L
    Q = Q
    Routines = {L, Q}
    Looped = {L}
    Queued = {Q}
    Kept = {Q}
    Checked = {L}
    MaxLive = 1
    FailurePauseAfter = 2
    MaxRuns = 3
    Mixes <- MCMixes
    MaxDue = 2
    MaxBoots = 3
    MaxAsks = 3
INVARIANTS OverlapHolds LoopIsFollowed ArmedOnlyLive FiresAccounted
PROPERTIES RunsEnd
CHECK_DEADLOCK FALSE
