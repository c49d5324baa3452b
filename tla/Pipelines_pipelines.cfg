SPECIFICATION FairSpec
CONSTANTS
    MaxCalls = 3
    MaxCrashes = 1
    MaxAttempts = 2
    FormatRetries = 1
    Plans <- MCPlans
INVARIANTS RunningIsDriven BoundaryIsWork
PROPERTIES OverStaysOver CallsSettle
CHECK_DEADLOCK FALSE
