SPECIFICATION FairSpec
CONSTANTS
    A = A
    B = B
    Type = {A, B}
    Refs <- PairRefs
    Flow = {f1, f2}
    NoFlow = NoFlow
    MaxValues = 1
    Loop = {l1, l2}
    MaxStarts = 2
    MaxStops = 1
INVARIANTS NoTypeError BuiltAreWhole OneProcessLoop
PROPERTIES LookupReturns
CHECK_DEADLOCK FALSE
