----------------------------- MODULE UhidWrite -----------------------------
(***************************************************************************)
(* The write side of the USB HID driver (src/sys/dev/usb/input/uhid.c):    *)
(* a writer of /dev/uhid queues buffers in the TX fifo; uhid_start_write   *)
(* starts the control pipe (immediate mode, or no interrupt-out endpoint)  *)
(* or the interrupt-out pipe; uhid_write_callback turns the queue into     *)
(* SET_REPORT requests, uhid_intr_write_callback into interrupt packets;   *)
(* uhid_stop_write cancels both.                                           *)
(*                                                                         *)
(* A TX buffer is [w, off, len]: bytes off..len-1 of write number w are    *)
(* still queued.  usb_fifo_get_data(..., len, &actlen, what) copies bytes  *)
(* from the head buffers; with what = 0 it takes up to len bytes across    *)
(* buffers and dequeues the ones it empties, with what = 1 it takes at     *)
(* most one buffer and dequeues it whatever is left in it.                 *)
(* Callbacks and fifo methods run with sc_mtx held: one step each.         *)
(***************************************************************************)
EXTENDS Naturals, Sequences

CONSTANTS
    UHID_BSIZE,       \* bytes, the data buffer of each write transfer
    OutReportSizes,   \* values hid_report_size may return for the output report
    OidChoices,       \* possible values of sc_oid # 0
    IntrChoices,      \* possible values of sc_xfer[UHID_INTR_DT_WR] # NULL
    WriteLens,        \* lengths of the write() calls
    MaxWrites         \* bound on the number of write() calls

ASSUME
    /\ UHID_BSIZE \in Nat \ {0}
    /\ OutReportSizes \subseteq Nat
    /\ OidChoices \subseteq BOOLEAN /\ IntrChoices \subseteq BOOLEAN
    /\ WriteLens \subseteq Nat \ {0}
    /\ MaxWrites \in Nat

Buffer == [w: 1..MaxWrites, off: Nat, len: Nat]

\* A SET_REPORT request: the write its ID byte came from (0 without ID),
\* the write its payload came from, the offset in that write where the
\* request's first byte was, the offset of the payload in its write, the
\* payload length.
Report == [id: 0..MaxWrites, pay: 1..MaxWrites, from: Nat, poff: Nat, len: Nat]
NoReport == [id |-> 0, pay |-> 1, from |-> 0, poff |-> 0, len |-> 0]

\* Bytes [from, to) of write w, as they travel in an interrupt packet.
Piece == [w: 1..MaxWrites, from: Nat, to: Nat]

VARIABLES
    osize,      \* sc->sc_osize
    hasOid,     \* sc->sc_oid # 0
    hasIntr,    \* sc->sc_xfer[UHID_INTR_DT_WR] # NULL
    immed,      \* UHID_FLAG_IMMED
    txOpen,     \* a writer has the fifo open with FWRITE
    txq,        \* the TX fifo's used queue
    txErr,      \* flag_iserror of the TX fifo (usb_fifo_get_data_error)
    ctrl,       \* sc_xfer[UHID_CTRL_DT_WR]: "off" or "pending"
    ctrlRep,    \* the request the pending control transfer carries
    intr,       \* sc_xfer[UHID_INTR_DT_WR]: "off" or "pending"
    intrPkt,    \* the pieces the pending interrupt transfer carries
    wlen,       \* history: the length of every write so far
    ctrlSent,   \* history: the requests the device accepted, in order
    intrSent,   \* history: the pieces the device accepted, in order
    dropped     \* history: writes whose bytes were discarded unsent

vars == <<osize, hasOid, hasIntr, immed, txOpen, txq, txErr, ctrl, ctrlRep,
          intr, intrPkt, wlen, ctrlSent, intrSent, dropped>>

TypeOK ==
    \* SET_REPORT's wLength and the frame length come from sc_osize
    /\ osize \in 0..UHID_BSIZE
    /\ hasOid \in BOOLEAN /\ hasIntr \in BOOLEAN /\ immed \in BOOLEAN
    /\ txOpen \in BOOLEAN /\ txErr \in BOOLEAN
    /\ txq \in Seq(Buffer)
    /\ ctrl \in {"off", "pending"} /\ ctrlRep \in Report
    /\ intr \in {"off", "pending"} /\ intrPkt \in Seq(Piece)
    /\ wlen \in Seq(WriteLens) /\ Len(wlen) <= MaxWrites
    /\ ctrlSent \in Seq(Report) /\ intrSent \in Seq(Piece)
    /\ dropped \subseteq 1..MaxWrites

-----------------------------------------------------------------------------
MIN2(x, y) == IF x < y THEN x ELSE y

(* Seeded fault: the output size is not truncated to UHID_BSIZE.         *)
OsizeOf_NoTruncate(s) == s

(* uhid_attach: an output report larger than UHID_BSIZE is truncated.    *)
OsizeOf(s) == IF s > UHID_BSIZE THEN UHID_BSIZE ELSE s

(* The writer has not opened the device yet; the softc is attached.      *)
Init ==
    /\ osize \in {OsizeOf(s) : s \in OutReportSizes}
    /\ hasOid \in OidChoices
    /\ hasIntr \in IntrChoices
    /\ immed = FALSE
    /\ txOpen = FALSE /\ txq = <<>> /\ txErr = FALSE
    /\ ctrl = "off" /\ ctrlRep = NoReport
    /\ intr = "off" /\ intrPkt = <<>>
    /\ wlen = <<>> /\ ctrlSent = <<>> /\ intrSent = <<>> /\ dropped = {}

-----------------------------------------------------------------------------
(* The part of uhid_write_callback after the ID byte: usb_fifo_get_data   *)
(* of one buffer (what = 1) into frame 1.  No data: return.  actlen #     *)
(* size: tr_error.  Otherwise build the SET_REPORT request and submit.    *)
(* The result is the queue left, the transfer state, the request and      *)
(* whether the fifo got usb_fifo_get_data_error.                           *)

(* Seeded fault: the actlen != size check is dropped.                     *)
Payload_AnyLen(q, id, from, size) ==
    IF q = <<>> THEN [q |-> q, st |-> "off", rep |-> NoReport, err |-> FALSE, drop |-> {}]
    ELSE LET h == Head(q)
             actlen == MIN2(UHID_BSIZE, h.len - h.off)
         IN [q |-> Tail(q), st |-> "pending",
             rep |-> [id |-> id, pay |-> h.w, from |-> IF id = 0 THEN h.off ELSE from,
                     poff |-> h.off, len |-> actlen], err |-> FALSE, drop |-> {}]

(* Seeded fault: the payload is copied from the start of the head buffer *)
(* instead of from the bytes the fifo has not handed out yet.             *)
Payload_CopyFromStart(q, id, from, size) ==
    IF q = <<>> THEN [q |-> q, st |-> "off", rep |-> NoReport, err |-> FALSE, drop |-> {}]
    ELSE LET h == Head(q)
             actlen == MIN2(UHID_BSIZE, h.len - h.off)
         IN IF actlen # size
            THEN [q |-> Tail(q), st |-> "off", rep |-> NoReport, err |-> TRUE,
                  drop |-> {h.w} \cup (IF id = 0 THEN {} ELSE {id})]
            ELSE [q |-> Tail(q), st |-> "pending",
                  rep |-> [id |-> id, pay |-> h.w,
                           from |-> IF id = 0 THEN h.off ELSE from,
                           poff |-> 0, len |-> size],
                  err |-> FALSE, drop |-> {}]

Payload(q, id, from, size) ==
    IF q = <<>> THEN [q |-> q, st |-> "off", rep |-> NoReport, err |-> FALSE, drop |-> {}]
    ELSE LET h == Head(q)
             actlen == MIN2(UHID_BSIZE, h.len - h.off)
         IN IF actlen # size
            THEN [q |-> Tail(q), st |-> "off", rep |-> NoReport, err |-> TRUE,
                  drop |-> {h.w} \cup (IF id = 0 THEN {} ELSE {id})]
            ELSE [q |-> Tail(q), st |-> "pending",
                  rep |-> [id |-> id, pay |-> h.w,
                           from |-> IF id = 0 THEN h.off ELSE from,
                           poff |-> h.off, len |-> size],
                  err |-> FALSE, drop |-> {}]

(* USB_ST_SETUP of uhid_write_callback over the queue q.  With a report  *)
(* ID, first usb_fifo_get_data of one byte (what = 0): no data returns;   *)
(* the byte is the ID, a buffer it empties is dequeued, and the payload   *)
(* size is sc_osize - 1.  Without an ID the payload size is sc_osize.     *)
CtrlSetup(q) ==
    IF ~hasOid THEN Payload(q, 0, 0, osize)
    ELSE IF q = <<>>
    THEN [q |-> q, st |-> "off", rep |-> NoReport, err |-> FALSE, drop |-> {}]
    ELSE LET h == Head(q)
             rest == IF h.len - h.off = 1 THEN Tail(q)
                     ELSE <<[h EXCEPT !.off = @ + 1]>> \o Tail(q)
         IN Payload(rest, h.w, h.off, IF osize > 0 THEN osize - 1 ELSE 0)

(* usb_fifo_get_data of up to k bytes with what = 0: whole buffers are   *)
(* taken and dequeued, a buffer longer than what is left is taken in      *)
(* part and stays at the head.                                             *)
RECURSIVE Take(_, _, _)
Take(q, k, pkt) ==
    IF q = <<>> \/ k = 0 THEN [q |-> q, pkt |-> pkt]
    ELSE LET h == Head(q)
             n == MIN2(k, h.len - h.off)
             pc == [w |-> h.w, from |-> h.off, to |-> h.off + n]
         IN IF n = h.len - h.off
            THEN Take(Tail(q), k - n, Append(pkt, pc))
            ELSE [q |-> <<[h EXCEPT !.off = @ + n]>> \o Tail(q),
                  pkt |-> Append(pkt, pc)]

(* USB_ST_SETUP of uhid_intr_write_callback: take up to                   *)
(* usbd_xfer_max_len bytes and submit them, if there were any.            *)
IntrSetup(q) ==
    LET t == Take(q, UHID_BSIZE, <<>>)
    IN [q |-> t.q, st |-> IF t.pkt = <<>> THEN "off" ELSE "pending", pkt |-> t.pkt]

(* Apply a setup result to the variables.                                 *)
SetCtrl(r) ==
    /\ txq' = r.q /\ ctrl' = r.st /\ ctrlRep' = r.rep
    /\ txErr' = (txErr \/ r.err)
    /\ dropped' = dropped \cup r.drop

SetIntr(r) ==
    /\ txq' = r.q /\ intr' = r.st /\ intrPkt' = r.pkt

(* uhid_start_write over the queue q: the control pipe in immediate mode *)
(* or without an interrupt-out endpoint, else the interrupt pipe.  A      *)
(* pipe that is not transferring runs its SETUP callback; a pending one   *)
(* is left alone.                                                          *)
StartWrite(q) ==
    IF immed \/ ~hasIntr
    THEN IF ctrl = "off" THEN SetCtrl(CtrlSetup(q)) /\ UNCHANGED <<intr, intrPkt>>
         ELSE txq' = q /\ UNCHANGED <<ctrl, ctrlRep, txErr, intr, intrPkt>>
    ELSE IF intr = "off" THEN SetIntr(IntrSetup(q)) /\ UNCHANGED <<ctrl, ctrlRep, txErr>>
         ELSE txq' = q /\ UNCHANGED <<ctrl, ctrlRep, txErr, intr, intrPkt>>

-----------------------------------------------------------------------------
(* The writer, through the fifo.                                           *)

(* uhid_open with FWRITE: allocate the TX buffers of sc_osize + 1 bytes;  *)
(* ENOMEM leaves the fifo closed.  The fifo's error flag starts clear.    *)
UhidOpen ==
    /\ ~txOpen
    /\ \/ txOpen' = TRUE /\ txErr' = FALSE
       \/ UNCHANGED <<txOpen, txErr>>
    /\ UNCHANGED <<osize, hasOid, hasIntr, immed, txq, ctrl, ctrlRep, intr,
                   intrPkt, wlen, ctrlSent, intrSent, dropped>>

(* write(): one buffer of len bytes is queued and the fifo calls          *)
(* uhid_start_write.  After usb_fifo_get_data_error write() fails.        *)
Write(len) ==
    /\ txOpen /\ ~txErr
    /\ Len(wlen) < MaxWrites
    /\ wlen' = Append(wlen, len)
    /\ StartWrite(Append(txq, [w |-> Len(wlen) + 1, off |-> 0, len |-> len]))
    /\ UNCHANGED <<osize, hasOid, hasIntr, immed, txOpen, ctrlSent, intrSent,
                   dropped>>

(* The writes whose bytes a pending SET_REPORT carries.                    *)
RepWrites(r) == IF ctrl # "pending" THEN {} ELSE {r.pay} \cup ({r.id} \ {0})

(* The last close: uhid_stop_write stops both pipes.  The cancelled       *)
(* control write takes the default branch (usb_fifo_get_data_error); the  *)
(* cancelled interrupt write returns.  uhid_close frees the buffers.      *)
UhidClose ==
    /\ txOpen
    /\ txOpen' = FALSE
    /\ txErr' = (txErr \/ ctrl = "pending")
    /\ ctrl' = "off" /\ ctrlRep' = NoReport
    /\ intr' = "off" /\ intrPkt' = <<>>
    /\ txq' = <<>>
    /\ dropped' = dropped \cup {txq[i].w : i \in DOMAIN txq}
                          \cup {intrPkt[i].w : i \in DOMAIN intrPkt}
                          \cup RepWrites(ctrlRep)
    /\ UNCHANGED <<osize, hasOid, hasIntr, immed, wlen, ctrlSent, intrSent>>

(* ioctl(USB_SET_IMMED) from a descriptor also open for reading (uhid.c  *)
(* line 578); the write side sees only the flag.                          *)
SetImmed ==
    /\ \E data \in BOOLEAN : immed' = data
    /\ UNCHANGED <<osize, hasOid, hasIntr, txOpen, txq, txErr, ctrl, ctrlRep,
                   intr, intrPkt, wlen, ctrlSent, intrSent, dropped>>

-----------------------------------------------------------------------------
(* The device and the callbacks.                                           *)

(* Seeded fault: USB_ST_TRANSFERRED returns instead of falling through to *)
(* the setup code.                                                          *)
CtrlWrDone_NoRepack ==
    /\ ctrl = "pending"
    /\ ctrlSent' = Append(ctrlSent, ctrlRep)
    /\ ctrl' = "off" /\ ctrlRep' = NoReport
    /\ UNCHANGED <<osize, hasOid, hasIntr, immed, txOpen, txq, txErr, intr,
                   intrPkt, wlen, intrSent, dropped>>

(* USB_ST_TRANSFERRED of uhid_write_callback: the device took the         *)
(* request; fall through to the setup code for the next one.              *)
CtrlWrDone ==
    /\ ctrl = "pending"
    /\ ctrlSent' = Append(ctrlSent, ctrlRep)
    /\ SetCtrl(CtrlSetup(txq))
    /\ UNCHANGED <<osize, hasOid, hasIntr, immed, txOpen, intr, intrPkt, wlen,
                   intrSent, dropped>>

(* The control write fails or times out (1 s): bomb out.                  *)
CtrlWrError ==
    /\ ctrl = "pending"
    /\ ctrl' = "off" /\ ctrlRep' = NoReport
    /\ txErr' = TRUE
    /\ dropped' = dropped \cup RepWrites(ctrlRep)
    /\ UNCHANGED <<osize, hasOid, hasIntr, immed, txOpen, txq, intr, intrPkt,
                   wlen, ctrlSent, intrSent>>

(* Seeded fault: USB_ST_TRANSFERRED resubmits the frame without taking   *)
(* new data from the fifo.                                                  *)
IntrWrDone_Resubmit ==
    /\ intr = "pending"
    /\ intrSent' = intrSent \o intrPkt
    /\ UNCHANGED <<osize, hasOid, hasIntr, immed, txOpen, txq, txErr, ctrl,
                   ctrlRep, intr, intrPkt, wlen, ctrlSent, dropped>>

(* USB_ST_TRANSFERRED of uhid_intr_write_callback: the packet went out;   *)
(* take the next bytes.                                                    *)
IntrWrDone ==
    /\ intr = "pending"
    /\ intrSent' = intrSent \o intrPkt
    /\ SetIntr(IntrSetup(txq))
    /\ UNCHANGED <<osize, hasOid, hasIntr, immed, txOpen, txErr, ctrl, ctrlRep,
                   wlen, ctrlSent, dropped>>

(* Seeded fault: on an error the callback returns without goto tr_setup. *)
IntrWrError_NoSetup ==
    /\ intr = "pending"
    /\ dropped' = dropped \cup {intrPkt[i].w : i \in DOMAIN intrPkt}
    /\ intr' = "off" /\ intrPkt' = <<>>
    /\ UNCHANGED <<osize, hasOid, hasIntr, immed, txOpen, txq, txErr, ctrl,
                   ctrlRep, wlen, ctrlSent, intrSent>>

(* An interrupt write error other than USB_ERR_CANCELLED: set stall and   *)
(* goto tr_setup; the failed packet is not retried.                        *)
IntrWrError ==
    /\ intr = "pending"
    /\ dropped' = dropped \cup {intrPkt[i].w : i \in DOMAIN intrPkt}
    /\ SetIntr(IntrSetup(txq))
    /\ UNCHANGED <<osize, hasOid, hasIntr, immed, txOpen, txErr, ctrl, ctrlRep,
                   wlen, ctrlSent, intrSent>>

Next ==
    \/ UhidOpen
    \/ \E len \in WriteLens : Write(len)
    \/ UhidClose
    \/ SetImmed
    \/ CtrlWrDone
    \/ CtrlWrError
    \/ IntrWrDone
    \/ IntrWrError

(* The control pipe has a one-second timeout (uhid_config), so a pending *)
(* control write ends.  The interrupt-out pipe has none: a device may NAK *)
(* it for ever.  The writer owes nothing.                                   *)
Spec == Init /\ [][Next]_vars /\ WF_vars(CtrlWrDone \/ CtrlWrError)

-----------------------------------------------------------------------------
(* Properties.                                                             *)

Queued(w) == \E i \in DOMAIN txq : txq[i].w = w

Accounted(w) ==
    \/ \E i \in DOMAIN ctrlSent : ctrlSent[i].pay = w
    \/ \E i \in DOMAIN intrSent : intrSent[i].w = w
    \/ w \in dropped

(* uhid_write_callback takes the ID byte and the payload with two calls   *)
(* of usb_fifo_get_data and checks actlen against sc_osize, but the fifo  *)
(* keeps no write boundaries: after a 1-byte write the next write's bytes *)
(* are the payload.  Whatever other writes the caller makes, a write of   *)
(* exactly sc_osize bytes (the format the driver expects) that is part of *)
(* a SET_REPORT the device receives is the whole of it, ID byte and       *)
(* payload from that one write, and requests arrive in the order of the  *)
(* writes.  Claimed for a device without an interrupt-out endpoint: with  *)
(* one, a USB_SET_IMMED toggle lets the control pipe send the tail of a   *)
(* write the interrupt pipe began.                                          *)
WellFormed(w) == w \in 1..Len(wlen) /\ wlen[w] = osize

UhidWriteFramed ==
    ~hasIntr =>
    \A i \in DOMAIN ctrlSent :
        LET r == ctrlSent[i] IN
        /\ WellFormed(r.pay) \/ (hasOid /\ WellFormed(r.id)) =>
               /\ hasOid => r.id = r.pay
               /\ r.from = 0
               /\ WellFormed(r.pay)
        /\ \A j \in DOMAIN ctrlSent : i < j => r.pay < ctrlSent[j].pay

(* Every SET_REPORT is made of one write, whatever the caller writes.     *)
(* Not true of the code (a 1-byte write gives the ID byte of a report     *)
(* whose payload is the next write); checked by UhidWrite_framing.cfg.    *)
UhidReportsFromOneWrite ==
    ~hasIntr => \A i \in DOMAIN ctrlSent : hasOid => ctrlSent[i].id = ctrlSent[i].pay

(* uhid_intr_write_callback packs queued bytes into packets: the device   *)
(* receives the written bytes in order and never one twice, whatever the  *)
(* errors (a failed packet is dropped, not resent).                        *)
UhidIntrStreamOrdered ==
    \A i, j \in DOMAIN intrSent :
        i < j => \/ intrSent[i].w < intrSent[j].w
                 \/ intrSent[i].w = intrSent[j].w /\ intrSent[i].to <= intrSent[j].from

(* A write() of exactly sc_osize bytes, the format the size check at line *)
(* 285 accepts and for which line 297 handles an empty payload, is         *)
(* eventually sent to the device, or discarded by a transfer error or by  *)
(* the last close, or left queued behind the fifo's error flag (which    *)
(* only a close, discarding it, clears).  It is never silently consumed.  *)
(* Stated for a device without an interrupt-out endpoint, whose writes   *)
(* all go to the control pipe and its one-second timeout.                  *)
UhidWellFormedSent ==
    \A w \in 1..MaxWrites :
        (~hasIntr /\ w <= Len(wlen) /\ wlen[w] = osize) ~> (Accounted(w) \/ (Queued(w) /\ txErr))


(* A write whose bytes are still in the driver: queued, carried by the   *)
(* pending SET_REPORT, or in the pending interrupt packet.                 *)
InFlight(w) ==
    \/ Queued(w)
    \/ w \in RepWrites(ctrlRep)
    \/ \E i \in DOMAIN intrPkt : intrPkt[i].w = w

(* The interrupt-out pipe has no timeout, so the driver alone cannot     *)
(* promise progress on it.  If the device does answer every interrupt    *)
(* packet (completion or error), every write leaves the driver, whichever *)
(* pipe USB_SET_IMMED sends it on, or is stranded in the queue behind the *)
(* fifo error flag: uhid_intr_write_callback re-enters tr_setup after a   *)
(* completion and after an error, and each pipe's setup drains the queue *)
(* the other one left.                                                      *)
UhidWriteDrains ==
    WF_vars(IntrWrDone \/ IntrWrError) =>
        \A w \in 1..MaxWrites :
            (w <= Len(wlen) /\ InFlight(w)) ~> (~InFlight(w) \/ (Queued(w) /\ txErr))


(* The bytes a SET_REPORT or an interrupt piece carries, as pairs        *)
(* <<write, offset in the write>>.                                          *)
RepBytes(r) ==
    (IF r.id = 0 THEN {} ELSE {<<r.id, r.from>>})
    \cup {<<r.pay, k>> : k \in r.poff..(r.poff + r.len - 1)}

PieceBytes(pc) == {<<pc.w, k>> : k \in pc.from..(pc.to - 1)}

(* Both write callbacks take their bytes from the one TX fifo: the ID    *)
(* byte with what = 0, the payload with what = 1, the interrupt packets  *)
(* with what = 0 across buffers, and USB_SET_IMMED may move a write from *)
(* one pipe to the other after the interrupt pipe took part of it (line  *)
(* 414).  Whatever the interleaving of the two pipes, their errors and   *)
(* the IMMED toggles, no byte of any write reaches the device twice,     *)
(* neither within one pipe nor once on each.                               *)
UhidBytesOnce ==
    LET sent == [i \in DOMAIN ctrlSent |-> RepBytes(ctrlSent[i])]
                \o [i \in DOMAIN intrSent |-> PieceBytes(intrSent[i])]
    IN \A i, j \in DOMAIN sent : i < j => sent[i] \cap sent[j] = {}

====
