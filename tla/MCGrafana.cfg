SPECIFICATION Spec
CONSTANTS
    Frames <- MCFrames
    TargetLines <- MCTargetLines
    NameOrder <- MCNameOrder
    MaxFrames <- MCMaxFrames
    MaxTargets <- MCMaxTargets
INVARIANT
    TypeOK
    TSDBPointsPreserved
CHECK_DEADLOCK FALSE
