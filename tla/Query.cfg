SPECIFICATION ExecSpec
CONSTANTS
    MaxByte = 6
    Percent = 2
    Underscore = 3
    Newline = 1
    NoEscape = 0
    EmptyWhere <- NoWhere
    Parameters <- ParamCount
    WithValues <- Substitute
    OperatorsFrom <- WithOperators
    Valid <- ValidExpression
    Checked <- CheckExpression
    Scan <- ScanRows
    Accepted <- RowMatches
    Client = {c1, c2}
    Statements <- SmallStatements
    ParamValues <- Patterns
    Tables <- SmallTables
    Indexed = TRUE
    Protected <- SmallProtected
    MaxPrepared = 1
    MaxExecs = 1
INVARIANTS ResultsExact DeleteExact StreamsReleased
CHECK_DEADLOCK FALSE
