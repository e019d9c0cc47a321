CONSTANTS
    MaxFrames <- MCMaxFrames
    MaxWaits <- MCMaxWaits
SPECIFICATION Spec
INVARIANT NoNilResponseDeref
CHECK_DEADLOCK FALSE
