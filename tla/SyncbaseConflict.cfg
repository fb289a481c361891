SPECIFICATION FairSpec
CONSTANTS
    Rows <- TwoConflicts
    Schemas <- SomeSchemas
    MaxEnforce = 1
    MaxBreaks = 3
    CloseEarly = FALSE
INVARIANTS WholeConflicts WholeResolutions
PROPERTIES ConflictsResolved CloseEnds
CHECK_DEADLOCK FALSE
