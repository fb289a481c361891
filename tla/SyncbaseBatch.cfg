SPECIFICATION FairSpec
CONSTANTS
    Client = {c1, c2, c3}
    ReadOnly = {c3}
    MaxAttempts = 2
    MaxLost = 1
INVARIANTS AtMostOnce ResultTellsOutcome NoBatchLeft
PROPERTIES RunInBatchReturns
CHECK_DEADLOCK FALSE
