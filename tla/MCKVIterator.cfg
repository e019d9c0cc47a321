CONSTANTS
    Rows <- MCRowsWithSchema
    MaxRows <- MCMaxRowsSchema
    Limit <- MCLimitSchema
SPECIFICATION Spec
INVARIANT TypeOK SchemaFreePagesMatch CleanEndPagination NoSpuriousError
PROPERTY FrameIteratorSpec
