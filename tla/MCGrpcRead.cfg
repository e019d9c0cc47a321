CONSTANTS Frames <- MCFrames
          MaxFrames <- MCMaxFrames
          MinValidSeconds <- MCMinValidSeconds
          MaxValidSeconds <- MCMaxValidSeconds
SPECIFICATION Spec
INVARIANT TypeOK ReadResultHonest StreamRoundTrip
PROPERTY ReadReturns ReadStreamSpec
CHECK_DEADLOCK FALSE
