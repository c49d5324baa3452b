SPECIFICATION FairSpec
CONSTANTS
    w1 = w1
    w2 = w2
    Watchers = {w1, w2}
    Logins = {me, ann}
    Me = me
    Comments = {c1, c2}
    MaxHeads = 3
    MaxTime = 3
    SetupTries = 2
    Mixes <- MCMixes
INVARIANTS RunsOnce CommentInView
PROPERTIES VouchedStarts AsksSettle
CHECK_DEADLOCK FALSE
