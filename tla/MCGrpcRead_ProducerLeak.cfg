CONSTANTS Frames <- MCFrames
          MaxFrames <- MCMaxFrames
          MinValidSeconds <- MCMinValidSeconds
          MaxValidSeconds <- MCMaxValidSeconds
SPECIFICATION Spec
PROPERTY ProducerTerminates
CHECK_DEADLOCK FALSE
