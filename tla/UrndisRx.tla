------------------------------ MODULE UrndisRx ------------------------------
(***************************************************************************)
(* The bulk-RX path of the RNDIS USB Ethernet driver                       *)
(* (src/sys/dev/usb/net/if_urndis.c): the life cycle of the one RX         *)
(* transfer (submitted, completed, re-armed, cancelled) and the loop of    *)
(* urndis_bulk_read_callback that splits one received transfer into        *)
(* RNDIS packet messages and hands each frame to the network stack.        *)
(*                                                                         *)
(* Sizes are in an abstract unit: HDR_SIZE stands for                      *)
(* sizeof(struct urndis_packet_msg), DATA_FIELD_OFFSET for                 *)
(* OFFSET_OF(struct urndis_packet_msg, rm_dataoffset) and so on.  Every    *)
(* header field is chosen by the device: it ranges over FieldVals, whose   *)
(* largest element stands for every u32 value above the buffer size.       *)
(*                                                                         *)
(* The callback runs with sc_mtx held from start to end.  One iteration    *)
(* of its loop is one step; while rxState = "parsing" no other action of   *)
(* the driver is enabled, which is what holding sc_mtx means.              *)
(***************************************************************************)
EXTENDS Integers, Sequences

CONSTANTS
    RNDIS_RX_MAXLEN,     \* bufsize of the RX transfer
    HDR_SIZE,            \* sizeof(struct urndis_packet_msg)
    DATA_FIELD_OFFSET,   \* OFFSET_OF(struct urndis_packet_msg, rm_dataoffset)
    ETHER_HDR_LEN,       \* sizeof(struct ether_header)
    MAX_FRAME,           \* MCLBYTES - ETHER_ALIGN
    FieldVals,           \* values the device may put in a length/offset field
    PbufAllocCanFail     \* whether pbuf_alloc in urndis_bulk_read may fail

ASSUME
    /\ {RNDIS_RX_MAXLEN, HDR_SIZE, DATA_FIELD_OFFSET, ETHER_HDR_LEN, MAX_FRAME}
         \subseteq Nat \ {0}
    /\ DATA_FIELD_OFFSET < HDR_SIZE /\ HDR_SIZE <= RNDIS_RX_MAXLEN
    /\ FieldVals \subseteq Nat
    /\ PbufAllocCanFail \in BOOLEAN

\* Message types: REMOTE_NDIS_PACKET_MSG and any other value.
PACKET_MSG == "PACKET_MSG"
OTHER_MSG  == "OTHER_MSG"

\* A struct urndis_packet_msg as read from the transfer, reduced to the
\* fields the callback looks at.
PacketMsg == [rm_type: {PACKET_MSG, OTHER_MSG}, rm_len: FieldVals,
              rm_dataoffset: FieldVals, rm_datalen: FieldVals]

\* States of the RX usb_xfer: not started, submitted to the host
\* controller, inside the TRANSFERRED callback, started but not
\* transferring (the callback returned without resubmitting).
XferStates == {"stopped", "pending", "parsing", "idle"}

VARIABLES
    rxState,   \* state of sc_xfer[URNDIS_BULK_RX]
    rxClear,   \* the pending transfer is the zero-frame clear-stall one
    rxLen,     \* bytes received by the last completed transfer
    offset,    \* local 'offset' of the callback
    actlen,    \* local 'actlen' of the callback: bytes left to parse
    rxFrames   \* frames handed to driverif_input from this transfer,
               \* as the region [start, start + len) they were copied from

vars == <<rxState, rxClear, rxLen, offset, actlen, rxFrames>>

Region == [start: Nat, len: Nat]

TypeOK ==
    /\ rxState \in XferStates
    /\ rxClear \in BOOLEAN
    /\ rxLen \in 0..RNDIS_RX_MAXLEN
    /\ offset \in Nat
    /\ actlen \in Int
    /\ rxFrames \in Seq(Region)
    \* every message takes at least a header, so a transfer holds at most
    \* RNDIS_RX_MAXLEN \div HDR_SIZE of them
    /\ Len(rxFrames) <= RNDIS_RX_MAXLEN \div HDR_SIZE

Init ==
    /\ rxState = "stopped"
    /\ rxClear = FALSE
    /\ rxLen = 0
    /\ offset = 0
    /\ actlen = 0
    /\ rxFrames = <<>>

-----------------------------------------------------------------------------
(* The tr_setup label: resubmit a receive of RNDIS_RX_MAXLEN bytes, then   *)
(* uether_rxflush.  The flush has no state of its own in the model.        *)
TrSetup ==
    /\ rxState' = "pending"
    /\ rxClear' = FALSE

(* usbd_transfer_start(sc_xfer[URNDIS_BULK_RX]) from urndis_start: a     *)
(* transfer that is not transferring gets its USB_ST_SETUP callback.      *)
RxStart ==
    /\ rxState \in {"stopped", "idle"}
    /\ TrSetup
    /\ UNCHANGED <<rxLen, offset, actlen, rxFrames>>

(* The host controller completes the pending transfer with 'len' bytes;   *)
(* the callback enters USB_ST_TRANSFERRED and starts its loop.  A         *)
(* clear-stall transfer has no frames and so no data.                      *)
RxTransferred(len) ==
    /\ rxState = "pending"
    /\ rxClear => len = 0
    /\ rxState' = "parsing"
    /\ rxLen' = len
    /\ offset' = 0
    /\ actlen' = len
    /\ rxFrames' = <<>>
    /\ UNCHANGED rxClear

(* Seeded fault: the check rm_len >= sizeof(msg) is dropped.               *)
ValidPacketMsg_NoMinLen(msg, rem) ==
    /\ msg.rm_type = PACKET_MSG
    /\ msg.rm_len <= rem
    /\ msg.rm_dataoffset < rem
    /\ msg.rm_datalen <= rem
    /\ msg.rm_datalen >= ETHER_HDR_LEN
    /\ msg.rm_datalen <= MAX_FRAME

(* Seeded fault: the check that rm_len covers the bytes left is dropped.   *)
ValidPacketMsg_NoRemCheck(msg, rem) ==
    /\ msg.rm_type = PACKET_MSG
    /\ msg.rm_len >= HDR_SIZE
    /\ msg.rm_dataoffset < rem
    /\ msg.rm_datalen <= rem
    /\ msg.rm_datalen >= ETHER_HDR_LEN
    /\ msg.rm_datalen <= MAX_FRAME

(* The sanity checks of the loop body, in the order the code makes them. *)
ValidPacketMsg(msg, rem) ==
    /\ msg.rm_type = PACKET_MSG
    /\ msg.rm_len >= HDR_SIZE
    /\ msg.rm_len <= rem
    /\ msg.rm_dataoffset < rem
    /\ msg.rm_datalen <= rem
    /\ msg.rm_datalen >= ETHER_HDR_LEN
    /\ msg.rm_datalen <= MAX_FRAME

(* The region urndis_bulk_read copies out of the transfer buffer.          *)
FrameRegion(msg, off) ==
    [start |-> off + msg.rm_dataoffset + DATA_FIELD_OFFSET,
     len   |-> msg.rm_datalen]

(* Seeded fault: a failed check returns from the callback instead of       *)
(* jumping to tr_setup.                                                    *)
RxParseMsg_ReturnOnBad(msg) ==
    /\ rxState = "parsing"
    /\ actlen >= HDR_SIZE
    /\ \/ /\ ~ValidPacketMsg(msg, actlen)
          /\ rxState' = "idle"
          /\ UNCHANGED <<rxClear, rxLen, offset, actlen, rxFrames>>
       \/ /\ ValidPacketMsg(msg, actlen)
          /\ rxFrames' = Append(rxFrames, FrameRegion(msg, offset))
          /\ offset' = offset + msg.rm_len
          /\ actlen' = actlen - msg.rm_len
          /\ UNCHANGED <<rxState, rxClear, rxLen>>

(* One iteration of the loop: copy out the header at 'offset'; on a       *)
(* failed check goto tr_setup; otherwise urndis_bulk_read allocates a     *)
(* pbuf, copies the frame and enqueues it, and the loop advances by the   *)
(* declared rm_len.  If pbuf_alloc fails the callback returns at once.    *)
RxParseMsg(msg) ==
    /\ rxState = "parsing"
    /\ actlen >= HDR_SIZE
    /\ \/ /\ ~ValidPacketMsg(msg, actlen)
          /\ TrSetup
          /\ UNCHANGED <<rxLen, offset, actlen, rxFrames>>
       \/ /\ ValidPacketMsg(msg, actlen)
          /\ rxFrames' = Append(rxFrames, FrameRegion(msg, offset))
          /\ offset' = offset + msg.rm_len
          /\ actlen' = actlen - msg.rm_len
          /\ UNCHANGED <<rxState, rxClear, rxLen>>
       \/ /\ ValidPacketMsg(msg, actlen)
          /\ PbufAllocCanFail
          /\ rxState' = "idle"
          /\ UNCHANGED <<rxClear, rxLen, offset, actlen, rxFrames>>

(* The loop condition fails: fall through to tr_setup.                     *)
RxLoopDone ==
    /\ rxState = "parsing"
    /\ actlen < HDR_SIZE
    /\ TrSetup
    /\ UNCHANGED <<rxLen, offset, actlen, rxFrames>>

(* The transfer completes with an error other than USB_ERR_CANCELLED:     *)
(* set stall, zero frames, resubmit.                                       *)
RxError ==
    /\ rxState = "pending"
    /\ rxState' = "pending"
    /\ rxClear' = TRUE
    /\ UNCHANGED <<rxLen, offset, actlen, rxFrames>>

(* urndis_stop: usbd_transfer_stop cancels a pending transfer; the        *)
(* callback sees USB_ERR_CANCELLED and does nothing.                       *)
RxStop ==
    /\ rxState \in {"pending", "idle"}
    /\ rxState' = "stopped"
    /\ rxClear' = FALSE
    /\ UNCHANGED <<rxLen, offset, actlen, rxFrames>>

RxCallback ==
    \/ \E msg \in PacketMsg : RxParseMsg(msg)
    \/ RxLoopDone

Next ==
    \/ RxStart
    \/ \E len \in 0..RNDIS_RX_MAXLEN : RxTransferred(len)
    \/ RxCallback
    \/ RxError
    \/ RxStop

(* The callback, once entered, runs to its end: it never sleeps and holds *)
(* sc_mtx, so its steps are weakly fair.  Nothing else is.                 *)
Spec == Init /\ [][Next]_vars /\ WF_vars(RxCallback)

-----------------------------------------------------------------------------
(* Properties.                                                             *)

(* Spec 4.3 and testable property 5: parsing never reads outside the      *)
(* bytes the transfer received.  Every frame urndis_bulk_read copies must *)
(* lie within [0, rxLen).  The checks at lines 890 and 894 bound          *)
(* rm_dataoffset and rm_datalen separately by the bytes left, never their *)
(* sum, nor do they account for DATA_FIELD_OFFSET.                        *)
RxNoOverRead ==
    \A i \in DOMAIN rxFrames :
        rxFrames[i].start + rxFrames[i].len <= rxLen

(* Spec 3: the declared lengths of the messages of one transfer never add *)
(* up to more than it received: while parsing, the cursor 'offset' plus   *)
(* the bytes left 'actlen' is the received length and 'actlen' is never   *)
(* negative, so every header copied out lies in the received bytes.       *)
RxCursorInBounds ==
    rxState = "parsing" =>
        /\ actlen >= 0
        /\ offset + actlen = rxLen

(* Spec 4.3 step 5: every exit of the TRANSFERRED callback re-arms the     *)
(* receive, so a completed transfer is always followed by a new pending   *)
(* one (or by urndis_stop, which ends reception on purpose).  This fails  *)
(* if the loop never ends or if a path returns without reaching tr_setup; *)
(* a transfer left "idle" is restarted only by a later urndis_start.      *)
RxAlwaysRearmed ==
    rxState = "parsing" ~> rxState \in {"pending", "stopped"}

=============================================================================
