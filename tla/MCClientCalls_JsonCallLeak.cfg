CONSTANTS
    MaxFrames <- MCMaxFrames
    MaxOps <- MCMaxOps
SPECIFICATION Spec
INVARIANT NoLeakedResponse
CHECK_DEADLOCK FALSE
