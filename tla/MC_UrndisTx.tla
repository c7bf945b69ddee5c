---------------------------- MODULE MC_UrndisTx ----------------------------
(* Model-checking instance of UrndisTx.  Real sizes: 8 sub-frames of 2048  *)
(* bytes and a 44-byte header.  Scaled: 2 sub-frames of 4 units and a      *)
(* 2-unit header, with frame lengths 1 (fits), 2 (fits exactly: the        *)
(* boundary of the size check) and 3 (too big), and 4 frames in all, so    *)
(* that a batch can be full with frames left in the queue.                 *)
EXTENDS UrndisTx

MC_TX_FRAMES_MAX == 2
MC_TX_MAXLEN == 4
MC_HDR_SIZE == 2
MC_FrameLens == {1, 2, 3}
MC_MaxFrames == 4
=============================================================================
