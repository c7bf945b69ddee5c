CONSTANTS
    RNDIS_TX_FRAMES_MAX <- MC_TX_FRAMES_MAX
    RNDIS_TX_MAXLEN <- MC_TX_MAXLEN
    HDR_SIZE <- MC_HDR_SIZE
    FrameLens <- MC_FrameLens
    MaxFrames <- MC_MaxFrames
SPECIFICATION Spec
INVARIANT TypeOK
INVARIANT TxWireInOrderOnce
PROPERTY TxQueueDrains
PROPERTY TxRefinesChannel
CHECK_DEADLOCK FALSE
