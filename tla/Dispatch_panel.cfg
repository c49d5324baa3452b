SPECIFICATION FairSpec
CONSTANTS
    t1 = t1
    t2 = t2
    s1 = s1
    s2 = s2
    s3 = s3
    NoTask = NoTask
    NoSession = NoSession
    Tasks = {t1, t2}
    Sessions = {s1, s2}
    Kind <- PanelKind
    Group = {t1, t2}
    Target <- PanelTargets
    FailureLimit = 2
    MaxWorkers = 1
    MaxBoots = 2
    MaxWaits = 1
    MaxGeneration = 9
    Faults = {"lapse", "throw", "crash"}
INVARIANTS PanelBriefedOnce BarrierJoinsAll
PROPERTY EveryEventArrives
