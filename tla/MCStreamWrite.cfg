CONSTANTS
    MaxFrames <- MCMaxFrames
    MaxWaits <- MCMaxWaits
SPECIFICATION Spec
INVARIANT TypeOK
INVARIANT AddedIsConsumed
INVARIANT SuccessImpliesDelivered
PROPERTY ChannelSendCompletes
PROPERTY WriteCompletionSpec
CHECK_DEADLOCK FALSE
