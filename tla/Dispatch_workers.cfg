SPECIFICATION Spec
CONSTANTS
    t1 = t1
    t2 = t2
    s1 = s1
    s2 = s2
    s3 = s3
    NoTask = NoTask
    NoSession = NoSession
    Tasks = {t1, t2}
    Sessions = {s1, s2, s3}
    Kind <- SpawnAndSend
    Group = {}
    Target <- SpawnAndSendTarget
    FailureLimit = 2
    MaxWorkers = 1
    MaxBoots = 1
    MaxWaits = 1
    MaxGeneration = 9
    Faults = {"lapse", "throw", "prompt", "vanish", "busy"}
INVARIANTS WatchTableExact NoOrphanWorker OutcomeTold HandedOnce
PROPERTIES TerminalIsFinal
