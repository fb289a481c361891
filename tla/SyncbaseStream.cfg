SPECIFICATION FairSpec
CONSTANTS
    Proc = {p1, p2, p3}
    NoProc = NoProc
    Streams <- WatchAndExec
    MaxCalls = 2
INVARIANTS FinishOnce NilErrMeansAll
PROPERTIES CancelStops CancelReturns
CHECK_DEADLOCK FALSE
