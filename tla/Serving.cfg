SPECIFICATION Spec
INVARIANTS ServedAnswerIsPostgres ServedResultsAreWhole
    RowsAreTheMatches ServedPathsAreTheShortest ChargedIsHeld
CHECK_DEADLOCK FALSE
