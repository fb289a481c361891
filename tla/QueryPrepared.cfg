SPECIFICATION ExecSpec
CONSTANTS
    MaxByte = 6
    Percent = 2
    Underscore = 3
    Newline = 1
    NoEscape = 0
    EmptyWhere <- NoWhere
    Parameters <- ParamCount
    WithValues <- Substitute
    OperatorsFrom <- WithOperators
    Valid <- ValidExpression
    Checked <- CheckExpression
    Scan <- ScanRows
    Accepted <- RowMatches
    Client = {c1, c2}
    Statements <- PreparedStatements
    ParamValues <- PatternsAndStrings
    Tables <- SmallTables
    Indexed = TRUE
    Protected <- SmallProtected
    MaxPrepared = 1
    MaxExecs = 2
INVARIANTS ResultsExact
CHECK_DEADLOCK FALSE
