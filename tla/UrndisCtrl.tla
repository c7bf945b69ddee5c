----------------------------- MODULE UrndisCtrl -----------------------------
(***************************************************************************)
(* The RNDIS control channel and the driver life cycle that drives it     *)
(* (src/sys/dev/usb/net/if_urndis.c): urndis_attach issues Initialize,    *)
(* Query(permanent address) and Set(packet filter), each a blocking round *)
(* trip through urndis_ctrl_send / urndis_ctrl_recv / urndis_ctrl_handle; *)
(* urndis_detach issues Halt.                                              *)
(*                                                                         *)
(* The device is the environment: each response is any element of        *)
(* Responses.  urndis_ctrl_recv reads it into the one shared buffer       *)
(* sc_response_buf; a short transfer overwrites only the words it carries *)
(* and the rest keep what earlier responses left.  Sizes and positions    *)
(* are in u32 words: Pos gives the word of each field of struct           *)
(* urndis_comp_hdr and of the completion structs that extend it.          *)
(*                                                                         *)
(* The attach thread is the only caller of the control channel and holds  *)
(* sc_mtx around every call, so a transaction is a sequence of steps of   *)
(* one thread: send, then receive-and-handle.  A RESET_CMPLT with         *)
(* rm_adrreset set makes urndis_ctrl_handle_reset call urndis_ctrl_set    *)
(* from inside the handler: 'depth' counts these nested transactions.     *)
(***************************************************************************)
EXTENDS Integers

CONSTANTS
    RNDIS_RESPONSE_LEN,     \* size of sc_response_buf, in words
    RNDIS_HEADER_OFFSET,    \* the info buffer offset is counted from here
    NETIF_MAX_HWADDR_LEN,   \* length of the address the attach needs
    Responses,              \* the completions the device may send
    MaxDepth                \* depth at which TLC stops exploring (DepthBound)

\* Message types (rm_type of a completion) and status codes.
INITIALIZE_CMPLT == "INITIALIZE_CMPLT"
QUERY_CMPLT      == "QUERY_CMPLT"
SET_CMPLT        == "SET_CMPLT"
RESET_CMPLT      == "RESET_CMPLT"
KEEPALIVE_CMPLT  == "KEEPALIVE_CMPLT"
SUCCESS          == "SUCCESS"          \* RNDIS_STATUS_SUCCESS
FAILURE          == "FAILURE"          \* RNDIS_STATUS_FAILURE, or a device code
USB_ERROR        == "USB_ERROR"        \* any non-zero usb_error_t
CONNECTIONLESS   == "CONNECTIONLESS"   \* RNDIS_DF_CONNECTIONLESS
MEDIUM_802_3     == "MEDIUM_802_3"     \* RNDIS_MEDIUM_802_3

\* Words of the response the handlers read: rm_type, rm_len, rm_status;
\* word 4 is rm_infobuflen (query), rm_adrreset (reset) or rm_ver_major
\* (init); word 5 is rm_infobufoffset (query); then rm_devflags,
\* rm_medium and rm_pktmaxsz of struct urndis_init_comp.
Fields == {"type", "len", "status", "w4", "w5", "devflags", "medium", "pktmaxsz"}
Pos == [type |-> 0, len |-> 1, status |-> 3, w4 |-> 4, w5 |-> 5,
        devflags |-> 6, medium |-> 7, pktmaxsz |-> 9]

ASSUME
    /\ {RNDIS_RESPONSE_LEN, RNDIS_HEADER_OFFSET, NETIF_MAX_HWADDR_LEN} \subseteq Nat
    /\ \A r \in Responses : DOMAIN r = Fields \cup {"actual"}
    /\ MaxDepth \in Nat

\* The view urndis_ctrl_handle_query returns: words [start, start + len)
\* of sc_response_buf, or NoView for *buf = NULL, *bufsz = 0.
NoView == [start |-> 0, len |-> 0, null |-> TRUE]
View(s, l) == [start |-> s, len |-> l, null |-> FALSE]

\* Steps of the life cycle (urndis_attach, then urndis_detach).
Phases == {"init", "query", "set", "ifattach", "attached", "halt", "detached"}

VARIABLES
    phase,      \* where urndis_attach / urndis_detach is
    pc,         \* step of the current control transaction
    depth,      \* nested urndis_ctrl_set calls from urndis_ctrl_handle_reset
    rbuf,       \* the words of sc_response_buf the handlers read
    ract,       \* words the last response transfer carried
    rval,       \* return value of the transaction that just ended
    view,       \* *rbuf / *rbufsz of the query in urndis_attach
    limPktSz,   \* sc_lim_pktsz (0 in the zeroed softc)
    eaddr       \* the view ue_eaddr was copied from, or NoView

vars == <<phase, pc, depth, rbuf, ract, rval, view, limPktSz, eaddr>>

(* sc_response_buf lives in the zeroed softc: every word reads 0, which   *)
(* is RNDIS_STATUS_SUCCESS as a status and RNDIS_MEDIUM_802_3 as a medium, *)
(* and no message type or device flag.                                     *)
ZeroBuf == [type |-> "ZERO", len |-> 0, status |-> SUCCESS, w4 |-> 0, w5 |-> 0,
            devflags |-> "ZERO", medium |-> MEDIUM_802_3, pktmaxsz |-> 0]

Init ==
    /\ phase = "init"
    /\ pc = "send"
    /\ depth = 0
    /\ rbuf = ZeroBuf
    /\ ract = 0
    /\ rval = SUCCESS
    /\ view = NoView
    /\ limPktSz = 0
    /\ eaddr = NoView

-----------------------------------------------------------------------------
(* The transaction a phase runs: urndis_ctrl_init, _query, _set, _halt;   *)
(* a nested transaction is always urndis_ctrl_set of the packet filter.   *)
CurrentOp ==
    IF depth > 0 THEN "set"
    ELSE CASE phase = "init"  -> "init"
           [] phase = "query" -> "query"
           [] phase = "set"   -> "set"
           [] phase = "halt"  -> "halt"

(* Only urndis_ctrl_query passes non-NULL buf / bufsz to the handler.      *)
WantsView == depth = 0 /\ phase = "query"

(* urndis_ctrl_recv: a transfer of r.actual words overwrites the words    *)
(* below r.actual and leaves the rest as they were.                        *)
Received(buf, r) == [f \in Fields |-> IF Pos[f] < r.actual THEN r[f] ELSE buf[f]]

(* The end of the info buffer a QUERY_CMPLT declares; the code sums in    *)
(* uint64_t, so the sum of three u32 values is exact.                      *)
(* Seeded fault: the sum in 32-bit arithmetic (the largest field value    *)
(* FIELD_MAX stands for a u32 near 2^32, so the sum wraps modulo 32).      *)
QueryLimit_U32(h) == (h.w4 + h.w5 + RNDIS_HEADER_OFFSET) % 32

QueryLimit(h) == h.w4 + h.w5 + RNDIS_HEADER_OFFSET

(* The handlers, as the result [rval, view, lim, nest] of                  *)
(* urndis_ctrl_handle on header h: its return value, the view it hands    *)
(* back, sc_lim_pktsz after it, and whether it starts a nested Set.        *)
Result(rv, v, lim) == [rval |-> rv, view |-> v, lim |-> lim, nest |-> FALSE]

HandleInit(h) ==
    CASE h.status # SUCCESS          -> Result(h.status, NoView, limPktSz)
      [] h.devflags # CONNECTIONLESS -> Result(FAILURE, NoView, limPktSz)
      [] h.medium # MEDIUM_802_3     -> Result(FAILURE, NoView, limPktSz)
      [] OTHER                       -> Result(h.status, NoView, h.pktmaxsz)

HandleQuery(h) ==
    CASE ~WantsView                -> Result(FAILURE, NoView, limPktSz)
      [] h.status # SUCCESS        -> Result(h.status, NoView, limPktSz)
      [] QueryLimit(h) > h.len     -> Result(FAILURE, NoView, limPktSz)
      [] OTHER -> Result(h.status, View(RNDIS_HEADER_OFFSET + h.w5, h.w4), limPktSz)

HandleReset(h) ==
    CASE h.status # SUCCESS -> Result(h.status, NoView, limPktSz)
      [] h.w4 # 0           -> [Result(h.status, NoView, limPktSz) EXCEPT !.nest = TRUE]
      [] OTHER              -> Result(h.status, NoView, limPktSz)

CtrlHandle(h) ==
    CASE h.type = INITIALIZE_CMPLT -> HandleInit(h)
      [] h.type = QUERY_CMPLT      -> HandleQuery(h)
      [] h.type = RESET_CMPLT      -> HandleReset(h)
      [] h.type \in {KEEPALIVE_CMPLT, SET_CMPLT} -> Result(h.status, NoView, limPktSz)
      [] OTHER                     -> Result(FAILURE, NoView, limPktSz)

(* A transaction ends with return value v.  Every level of a nested       *)
(* Set returns its callee's value unchanged, so the whole chain ends.      *)
Finish(v) ==
    /\ pc' = "done"
    /\ rval' = v
    /\ depth' = 0

(* urndis_ctrl_send: the SEND_ENCAPSULATED_COMMAND control request fails  *)
(* (any usb error, the 2000 ms timeout included) or succeeds.  Halt       *)
(* reads no response.                                                      *)
CtrlSend ==
    /\ pc = "send"
    /\ \/ /\ Finish(USB_ERROR)
       \/ /\ CurrentOp # "halt"
          /\ pc' = "recv"
          /\ UNCHANGED <<rval, depth>>
       \/ /\ CurrentOp = "halt"
          /\ Finish(SUCCESS)
    /\ UNCHANGED <<phase, rbuf, ract, view, limPktSz, eaddr>>

(* urndis_ctrl_recv then urndis_ctrl_handle: the GET_ENCAPSULATED_RESPONSE *)
(* request fails, or carries response r; a declared rm_len above          *)
(* RNDIS_RESPONSE_LEN is refused, otherwise the handler runs on whatever  *)
(* the buffer now holds.  At the start the handler clears *buf / *bufsz.  *)
CtrlRecvFail ==
    /\ pc = "recv"
    /\ Finish(FAILURE)
    /\ UNCHANGED <<phase, rbuf, ract, view, limPktSz, eaddr>>

(* Seeded fault: the rm_len > RNDIS_RESPONSE_LEN check is dropped.        *)
CtrlRecv_NoLenCheck(r) ==
    /\ pc = "recv"
    /\ LET h == Received(rbuf, r)
           res == CtrlHandle(h)
       IN /\ rbuf' = h
          /\ ract' = r.actual
          /\ view' = IF WantsView THEN res.view ELSE view
          /\ limPktSz' = res.lim
          /\ IF res.nest
             THEN /\ depth' = depth + 1
                  /\ pc' = "send"
                  /\ UNCHANGED rval
             ELSE Finish(res.rval)
    /\ UNCHANGED <<phase, eaddr>>

CtrlRecv(r) ==
    /\ pc = "recv"
    /\ LET h == Received(rbuf, r)
           res == CtrlHandle(h)
       IN /\ rbuf' = h
          /\ ract' = r.actual
          /\ IF h.len > RNDIS_RESPONSE_LEN
             THEN /\ Finish(FAILURE)
                  /\ UNCHANGED <<view, limPktSz>>
             ELSE /\ view' = IF WantsView THEN res.view ELSE view
                  /\ limPktSz' = res.lim
                  /\ IF res.nest
                     THEN /\ depth' = depth + 1
                          /\ pc' = "send"
                          /\ UNCHANGED rval
                     ELSE Finish(res.rval)
    /\ UNCHANGED <<phase, eaddr>>

-----------------------------------------------------------------------------
(* urndis_attach, after each transaction: any failure goes to the detach  *)
(* label.  After the query the address length must be                     *)
(* NETIF_MAX_HWADDR_LEN and ue_eaddr is copied from the view.              *)
NextTransaction(p) ==
    /\ phase' = p
    /\ pc' = "send"
    /\ UNCHANGED <<depth, rbuf, ract, rval, limPktSz>>

(* Seeded fault: the bufsz != NETIF_MAX_HWADDR_LEN check is dropped.       *)
AttachStep_NoLenCheck ==
    /\ pc = "done"
    /\ phase \in {"init", "query", "set"}
    /\ \/ /\ rval # SUCCESS
          /\ NextTransaction("halt")
          /\ UNCHANGED <<view, eaddr>>
       \/ /\ rval = SUCCESS
          /\ phase = "init"
          /\ NextTransaction("query")
          /\ UNCHANGED <<view, eaddr>>
       \/ /\ rval = SUCCESS
          /\ phase = "query"
          /\ NextTransaction("set") /\ eaddr' = view
          /\ UNCHANGED view
       \/ /\ rval = SUCCESS
          /\ phase = "set"
          /\ phase' = "ifattach"
          /\ UNCHANGED <<pc, depth, rbuf, ract, rval, view, limPktSz, eaddr>>

AttachStep ==
    /\ pc = "done"
    /\ phase \in {"init", "query", "set"}
    /\ \/ /\ rval # SUCCESS
          /\ NextTransaction("halt")
          /\ UNCHANGED <<view, eaddr>>
       \/ /\ rval = SUCCESS
          /\ phase = "init"
          /\ NextTransaction("query")
          /\ UNCHANGED <<view, eaddr>>
       \/ /\ rval = SUCCESS
          /\ phase = "query"
          /\ IF view.len # NETIF_MAX_HWADDR_LEN
             THEN NextTransaction("halt") /\ UNCHANGED eaddr
             ELSE NextTransaction("set") /\ eaddr' = view
          /\ UNCHANGED view
       \/ /\ rval = SUCCESS
          /\ phase = "set"
          /\ phase' = "ifattach"
          /\ UNCHANGED <<pc, depth, rbuf, ract, rval, view, limPktSz, eaddr>>

(* uether_ifattach and the wait for its event: either may fail (detach),  *)
(* otherwise the interface is up.                                          *)
IfAttach ==
    /\ phase = "ifattach"
    /\ \/ /\ phase' = "attached"
          /\ UNCHANGED <<pc, depth, rbuf, ract, rval, limPktSz>>
       \/ NextTransaction("halt")
    /\ UNCHANGED <<view, eaddr>>

(* urndis_detach of an attached device: unsetup the transfers, detach    *)
(* the interface, then Halt.                                               *)
Detach ==
    /\ phase = "attached"
    /\ NextTransaction("halt")
    /\ UNCHANGED <<view, eaddr>>

HaltDone ==
    /\ phase = "halt"
    /\ pc = "done"
    /\ phase' = "detached"
    /\ UNCHANGED <<pc, depth, rbuf, ract, rval, view, limPktSz, eaddr>>

(* The steps of the attach thread; Detach of an attached device is the  *)
(* bus's decision.                                                         *)
AttachThread ==
    \/ CtrlSend
    \/ CtrlRecvFail
    \/ \E r \in Responses : CtrlRecv(r)
    \/ AttachStep
    \/ IfAttach
    \/ HaltDone

Next == AttachThread \/ Detach

Spec == Init /\ [][Next]_vars

(* The code puts no bound on the nesting of urndis_ctrl_handle_reset: a   *)
(* device that answers every Set with another RESET_CMPLT recurses on the *)
(* kernel stack.  TLC explores the nesting up to MaxDepth levels and cuts *)
(* the behaviours there (a state constraint of the cfgs, not a guard of   *)
(* CtrlRecv); for that reason no liveness property is checked here.       *)
DepthBound == depth <= MaxDepth

-----------------------------------------------------------------------------
(* Properties.                                                             *)

\* A view points into sc_response_buf and its size is a uint16_t.
ViewT == [start: 0..RNDIS_RESPONSE_LEN, len: 0..RNDIS_RESPONSE_LEN, null: BOOLEAN]

TypeOK ==
    /\ phase \in Phases
    /\ pc \in {"send", "recv", "done"}
    /\ depth \in Nat
    /\ DOMAIN rbuf = Fields
    /\ ract \in Nat
    /\ rval \in {SUCCESS, FAILURE, USB_ERROR}
    /\ view \in ViewT
    /\ limPktSz \in Nat
    /\ eaddr \in ViewT

(* Spec 4.2 (QueryComplete): the view urndis_ctrl_handle_query hands back *)
(* lies inside sc_response_buf whatever the device declares in            *)
(* rm_infobuflen and rm_infobufoffset.  This rests on the 64-bit sum of   *)
(* the three terms in the limit check and on urndis_ctrl_recv refusing    *)
(* rm_len > RNDIS_RESPONSE_LEN.                                            *)
CtrlViewInBuffer ==
    ~view.null => view.start + view.len <= RNDIS_RESPONSE_LEN

(* Spec 4.5: the interface is attached only with an address copied from a *)
(* successful Query whose view is exactly NETIF_MAX_HWADDR_LEN long and   *)
(* inside the response buffer (urndis_attach, the bufsz check and the     *)
(* memcpy_s of ue_eaddr).                                                  *)
AttachAddressValid ==
    phase \in {"ifattach", "attached"} =>
        /\ ~eaddr.null
        /\ eaddr.len = NETIF_MAX_HWADDR_LEN
        /\ eaddr.start + eaddr.len <= RNDIS_RESPONSE_LEN

(* Spec 4.1 and testable property 2: a response whose declared length     *)
(* exceeds what was received is refused, so a view never covers words the *)
(* last transfer did not carry.  urndis_ctrl_recv compares rm_len only    *)
(* with RNDIS_RESPONSE_LEN; a short transfer leaves older words in         *)
(* sc_response_buf and the view (and ue_eaddr) may be taken from them.    *)
CtrlViewFresh ==
    ~view.null => view.start + view.len <= ract

(* Spec 5: control transactions are strictly sequential.  The driver      *)
(* never sends a Reset, yet every RESET_CMPLT with rm_adrreset set starts *)
(* a Set from inside urndis_ctrl_handle_reset, whose own response is      *)
(* handled the same way: the nesting depth is never above one.            *)
CtrlNestingBounded == depth <= 1

(* Spec 4.2 (InitializeComplete): attach proceeds only after the device   *)
(* accepted the Initialize, which records sc_lim_pktsz.  The handler is   *)
(* chosen by the response's rm_type alone, so a SET_CMPLT or              *)
(* KEEPALIVE_CMPLT with success status also completes urndis_ctrl_init.   *)
AttachNegotiated ==
    phase \in {"ifattach", "attached"} => limPktSz # 0

=============================================================================
