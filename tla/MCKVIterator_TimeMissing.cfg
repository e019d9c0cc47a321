CONSTANTS
    Rows <- MCRowsWithTime
    MaxRows <- MCMaxRows
    Limit <- MCLimit
SPECIFICATION Spec
INVARIANT PagesMatchSource
CHECK_DEADLOCK FALSE
