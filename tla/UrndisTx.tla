------------------------------ MODULE UrndisTx ------------------------------
(***************************************************************************)
(* The bulk-TX path of the RNDIS USB Ethernet driver                       *)
(* (src/sys/dev/usb/net/if_urndis.c): the send queue ue_txq filled by the  *)
(* network stack, urndis_bulk_write_callback packing up to                 *)
(* RNDIS_TX_FRAMES_MAX queued frames into the sub-frames of the one TX     *)
(* transfer, the transfer's completion, error and cancellation, and        *)
(* urndis_init / urndis_stop / urndis_start that start and stop it.        *)
(*                                                                         *)
(* A frame is a record [id, len]; ids are handed out in enqueue order, so  *)
(* the order of ids on the wire is the order of the queue.  Every          *)
(* callback and every queue operation runs with sc_mtx held and is one     *)
(* atomic step.                                                            *)
(***************************************************************************)
EXTENDS Integers, Sequences

CONSTANTS
    RNDIS_TX_FRAMES_MAX,  \* sub-frames per TX transfer
    RNDIS_TX_MAXLEN,      \* bytes per sub-frame
    HDR_SIZE,             \* sizeof(struct urndis_packet_msg)
    FrameLens,            \* lengths of the frames the stack may queue
    MaxFrames             \* bound on the number of frames ever queued

ASSUME
    /\ RNDIS_TX_FRAMES_MAX \in Nat \ {0}
    /\ {RNDIS_TX_MAXLEN, HDR_SIZE} \subseteq Nat \ {0}
    /\ FrameLens \subseteq Nat
    /\ MaxFrames \in Nat

Frame == [id: 1..MaxFrames, len: FrameLens]

VARIABLES
    running,   \* IFF_DRV_RUNNING in the driver's state
    txState,   \* sc_xfer[URNDIS_BULK_TX]: "stopped", "idle" or "pending"
    txq,       \* ue_txq, the queue of frames waiting to be sent
    slots,     \* the frames packed into the pending transfer, in slot order
    wire,      \* history: the frames the device has received, in order
    dropped,   \* history: frames freed as too big for a sub-frame
    lost,      \* history: frames freed in a batch that did not arrive
    nextId     \* id of the next frame the stack queues

vars == <<running, txState, txq, slots, wire, dropped, lost, nextId>>

TypeOK ==
    /\ running \in BOOLEAN
    /\ txState \in {"stopped", "idle", "pending"}
    /\ txq \in Seq(Frame)
    /\ slots \in Seq(Frame)
    /\ Len(slots) <= RNDIS_TX_FRAMES_MAX
    /\ wire \in Seq(Frame)
    /\ dropped \subseteq Frame
    /\ lost \subseteq Frame
    /\ nextId \in 1..(MaxFrames + 1)

Init ==
    /\ running = FALSE
    /\ txState = "stopped"
    /\ txq = <<>>
    /\ slots = <<>>
    /\ wire = <<>>
    /\ dropped = {}
    /\ lost = {}
    /\ nextId = 1

-----------------------------------------------------------------------------
(* The packing loop of the callback (the tr_setup label), as a function   *)
(* of the queue: for each slot x, dequeue; an empty queue ends the loop;  *)
(* a frame with len + sizeof(msg) > RNDIS_TX_MAXLEN is freed and the next *)
(* one dequeued for the same slot (goto next_pkt); otherwise the frame    *)
(* goes into slot x.  The result is the filled slots, the queue left and  *)
(* the frames dropped.                                                     *)
TooBig(f) == f.len + HDR_SIZE > RNDIS_TX_MAXLEN

(* Seeded fault: a too-big frame ends the loop ('break') instead of       *)
(* 'goto next_pkt'.                                                        *)
RECURSIVE PackFrom_BreakOnBig(_, _)
PackFrom_BreakOnBig(q, filled) ==
    IF Len(filled) = RNDIS_TX_FRAMES_MAX \/ q = <<>>
    THEN [slots |-> filled, rest |-> q, dropped |-> {}]
    ELSE IF TooBig(Head(q))
         THEN [slots |-> filled, rest |-> Tail(q), dropped |-> {Head(q)}]
         ELSE PackFrom_BreakOnBig(Tail(q), Append(filled, Head(q)))

(* Seeded fault: the slot loop runs one slot too far (x <= for x !=).     *)
RECURSIVE PackFrom_SlotOverrun(_, _)
PackFrom_SlotOverrun(q, filled) ==
    IF Len(filled) = RNDIS_TX_FRAMES_MAX + 1 \/ q = <<>>
    THEN [slots |-> filled, rest |-> q, dropped |-> {}]
    ELSE LET m == Head(q)
             r == PackFrom_SlotOverrun(Tail(q), IF TooBig(m) THEN filled
                                                           ELSE Append(filled, m))
         IN IF TooBig(m) THEN [r EXCEPT !.dropped = @ \cup {m}] ELSE r

RECURSIVE PackFrom(_, _)
PackFrom(q, filled) ==
    IF Len(filled) = RNDIS_TX_FRAMES_MAX \/ q = <<>>
    THEN [slots |-> filled, rest |-> q, dropped |-> {}]
    ELSE LET m == Head(q)
             r == PackFrom(Tail(q), IF TooBig(m) THEN filled
                                               ELSE Append(filled, m))
         IN IF TooBig(m) THEN [r EXCEPT !.dropped = @ \cup {m}] ELSE r

Pack(q) == PackFrom(q, <<>>)

(* tr_setup over the queue q: pack, and submit the transfer only if a    *)
(* slot was filled (if (x != 0) usbd_transfer_submit).                     *)
TrSetup(q) ==
    LET p == Pack(q)
    IN /\ slots' = p.slots
       /\ txq' = p.rest
       /\ dropped' = dropped \cup p.dropped
       /\ txState' = IF p.slots # <<>> THEN "pending" ELSE "idle"

(* usbd_transfer_start(sc_xfer[URNDIS_BULK_TX]) over the queue q: a       *)
(* transfer that is not transferring gets its USB_ST_SETUP callback; a    *)
(* pending one is left alone, its completion will pack again.              *)
StartTx(q) ==
    IF txState = "pending"
    THEN /\ txq' = q
         /\ UNCHANGED <<txState, slots, dropped>>
    ELSE TrSetup(q)

(* The network stack queues a frame (IF_ENQUEUE under the lock) and,     *)
(* while the interface runs, calls the driver's start method urndis_start.*)
Enqueue(len) ==
    /\ nextId <= MaxFrames
    /\ LET q == Append(txq, [id |-> nextId, len |-> len])
       IN IF running
          THEN StartTx(q)
          ELSE /\ txq' = q
               /\ UNCHANGED <<txState, slots, dropped>>
    /\ nextId' = nextId + 1
    /\ UNCHANGED <<running, wire, lost>>

(* urndis_init: set IFF_DRV_RUNNING, stall the TX pipe (cleared by the    *)
(* next submit, no state here) and urndis_start.                           *)
UrndisInit ==
    /\ running' = TRUE
    /\ StartTx(txq)
    /\ UNCHANGED <<wire, lost, nextId>>

(* USB_ST_TRANSFERRED: every sub-frame reached the device; fall through   *)
(* to tr_setup and pack the next batch.                                    *)
TxTransferred ==
    /\ txState = "pending"
    /\ wire' = wire \o slots
    /\ TrSetup(txq)
    /\ UNCHANGED <<running, lost, nextId>>

(* Seeded fault: on error the batch is kept and resubmitted as it is.     *)
TxError_Retry(k) ==
    /\ txState = "pending"
    /\ k \in 0..(Len(slots) - 1)
    /\ wire' = wire \o SubSeq(slots, 1, k)
    /\ UNCHANGED <<running, txState, txq, slots, dropped, lost, nextId>>

(* An error other than USB_ERR_CANCELLED: the device got some prefix of   *)
(* the batch (k sub-frames); the rest is gone, nothing is requeued.  Set  *)
(* stall and goto tr_setup.                                                *)
TxError(k) ==
    /\ txState = "pending"
    /\ k \in 0..(Len(slots) - 1)
    /\ wire' = wire \o SubSeq(slots, 1, k)
    /\ lost' = lost \cup {slots[i] : i \in (k + 1)..Len(slots)}
    /\ TrSetup(txq)
    /\ UNCHANGED <<running, nextId>>

(* urndis_stop: clear IFF_DRV_RUNNING and usbd_transfer_stop; a pending   *)
(* transfer is cancelled, its callback sees USB_ERR_CANCELLED and does    *)
(* nothing, so its frames are gone.                                        *)
UrndisStop ==
    /\ running
    /\ running' = FALSE
    /\ txState' = "stopped"
    /\ lost' = lost \cup {slots[i] : i \in DOMAIN slots}
    /\ slots' = <<>>
    /\ UNCHANGED <<txq, wire, dropped, nextId>>

Next ==
    \/ \E len \in FrameLens : Enqueue(len)
    \/ UrndisInit
    \/ TxTransferred
    \/ \E k \in 0..(RNDIS_TX_FRAMES_MAX - 1) : TxError(k)
    \/ UrndisStop

(* The host controller ends every submitted transfer, at the latest by    *)
(* its 10 s timeout, so a pending transfer is eventually completed or     *)
(* fails.  The stack and the administrator (Enqueue, init, stop) are not  *)
(* obliged to act.                                                         *)
Spec == Init /\ [][Next]_vars
            /\ WF_vars(TxTransferred \/ \E k \in 0..(RNDIS_TX_FRAMES_MAX - 1) : TxError(k))

-----------------------------------------------------------------------------
(* Properties.                                                             *)

InWire(f) == \E i \in DOMAIN wire : wire[i] = f
Queued(f) == \E i \in DOMAIN txq : txq[i] = f

(* Spec 4.4 and 5: frames reach the device in queue order and at most     *)
(* once: the lossy error policy may lose a batch but never resend it.     *)
(* The ids on the wire strictly increase.                                  *)
TxWireInOrderOnce ==
    \A i, j \in DOMAIN wire : i < j => wire[i].id < wire[j].id

(* Spec 4.4 (level-triggered restart): while the interface runs, every    *)
(* queued frame eventually leaves the queue: it is sent, dropped or lost. *)
(* This needs every path of the callback to resubmit when frames remain.  *)
TxQueueDrains ==
    \A f \in Frame : (running /\ Queued(f)) ~> (~Queued(f) \/ ~running)


(* The refinement mapping: the frames waiting are those packed into the  *)
(* pending transfer followed by ue_txq; the frames gone are those freed   *)
(* as too big or with a failed or cancelled batch.                         *)
Channel == INSTANCE UrndisTxChannel WITH pending <- slots \o txq,
                                         gone <- dropped \cup lost

(* The TX path implements the channel of UrndisTxChannel: every step of   *)
(* the write callback, of urndis_init/urndis_stop and of the stack is a   *)
(* step of the channel or leaves it unchanged, so a batch reaches the     *)
(* device as a prefix of the waiting frames and nothing is resent,        *)
(* reordered or freed without trace.                                       *)
TxRefinesChannel == Channel!Spec

=============================================================================
