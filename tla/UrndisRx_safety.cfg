CONSTANTS
    RNDIS_RX_MAXLEN <- MC_RX_MAXLEN
    HDR_SIZE <- MC_HDR_SIZE
    DATA_FIELD_OFFSET <- MC_DATA_FIELD_OFFSET
    ETHER_HDR_LEN <- MC_ETHER_HDR_LEN
    MAX_FRAME <- MC_MAX_FRAME
    FieldVals <- MC_FieldVals
    PbufAllocCanFail = TRUE
SPECIFICATION Spec
INVARIANT TypeOK
INVARIANT RxCursorInBounds
