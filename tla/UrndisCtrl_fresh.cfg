CONSTANTS
    RNDIS_RESPONSE_LEN <- MC_RESPONSE_LEN
    RNDIS_HEADER_OFFSET <- MC_HEADER_OFFSET
    NETIF_MAX_HWADDR_LEN <- MC_ADDR_LEN
    Responses <- MC_Responses
    MaxDepth <- MC_MaxDepth
SPECIFICATION Spec
CONSTRAINT DepthBound
INVARIANT CtrlViewFresh
\* After urndis_detach the softc is gone: "detached" is final.
CHECK_DEADLOCK FALSE
