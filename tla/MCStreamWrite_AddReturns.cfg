CONSTANTS
    MaxFrames <- MCMaxFrames
    MaxWaits <- MCMaxWaits
SPECIFICATION Spec
PROPERTY AddReturns
CHECK_DEADLOCK FALSE
