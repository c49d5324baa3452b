SPECIFICATION FairSpec
CONSTANTS
    MaxMessages = 3
    MaxPieces = 2
    MaxRebuilds = 2
    MaxDrops = 2
    PerFrame = 1
    Window = 3
    Faults = {}
CHECK_DEADLOCK FALSE
INVARIANT Converged
PROPERTY RowsArrive
