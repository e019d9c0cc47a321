CONSTANTS
    Rows <- MCRowsWithSchema
    MaxRows <- MCMaxRowsSchema
    Limit <- MCLimitSchema
SPECIFICATION Spec
INVARIANT PagesMatchSource
CHECK_DEADLOCK FALSE
