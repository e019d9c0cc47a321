CONSTANTS
    MaxFrames <- MCMaxFrames
    MaxOps <- MCMaxOps
SPECIFICATION Spec
INVARIANT TypeOK CleanEndComplete
CHECK_DEADLOCK FALSE
