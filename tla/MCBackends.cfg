CONSTANTS
    IntVals <- MCIntVals
    Bases <- MCBases
    Items <- MCItems
    Filters <- MCFilters
    SessionPath <- MCSessionPath
    MaxCalls <- MCMaxCalls
SPECIFICATION Spec
INVARIANT TypeOK
PROPERTY TsdbCreateReported
CHECK_DEADLOCK FALSE
