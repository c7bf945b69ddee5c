---------------------------- MODULE MC_UrndisRx ----------------------------
(* Model-checking instance of UrndisRx.  Real sizes are 16384 (RX buffer), *)
(* 44 (packet header), 8 (offset of rm_dataoffset), 14 (Ethernet header)   *)
(* and 2046 (largest frame); the scaled sizes keep their order:            *)
(* ETHER_HDR_LEN < HDR_SIZE < MAX_FRAME < RNDIS_RX_MAXLEN, so a buffer     *)
(* holds several headers and a header is shorter than the largest frame.   *)
EXTENDS UrndisRx

MC_RX_MAXLEN == 6
MC_HDR_SIZE == 2
MC_DATA_FIELD_OFFSET == 1
MC_ETHER_HDR_LEN == 1
MC_MAX_FRAME == 3
\* 0..MC_RX_MAXLEN + 1: the last value stands for every larger u32
\* (0xFFFFFFFF included).
MC_FieldVals == 0..(MC_RX_MAXLEN + 1)
=============================================================================
