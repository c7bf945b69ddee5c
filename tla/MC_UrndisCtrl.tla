--------------------------- MODULE MC_UrndisCtrl ---------------------------
(* Model-checking instance of UrndisCtrl.  Units are u32 words: the real  *)
(* buffer is 1024 bytes (256 words), scaled to 16; RNDIS_HEADER_OFFSET is *)
(* 8 bytes (2 words); the 6-byte Ethernet address is 2 words.  FIELD_MAX  *)
(* stands for every u32 length or offset larger than the buffer.           *)
(*                                                                         *)
(* The device's completions are the union of one family per message type, *)
(* each varying the fields its handler reads, its status, and the number  *)
(* of words the transfer carries (full or short).                          *)
EXTENDS UrndisCtrl

MC_RESPONSE_LEN == 16
MC_HEADER_OFFSET == 2
MC_ADDR_LEN == 2
FIELD_MAX == 31

Msg(t, l, st, a, b, df, md, act) ==
    [type |-> t, len |-> l, status |-> st, w4 |-> a, w5 |-> b,
     devflags |-> df, medium |-> md, pktmaxsz |-> 9, actual |-> act]

\* InitializeComplete: 13 words; short ones carry only rm_type and rm_len.
InitFamily ==
    { Msg(INITIALIZE_CMPLT, 13, st, 1, 1, df, md, act) :
        st \in {SUCCESS, FAILURE}, df \in {CONNECTIONLESS, "OTHER"},
        md \in {MEDIUM_802_3, "OTHER"}, act \in {2, 13} }

\* QueryComplete: 6 header words and the info buffer.  The real address
\* answer is rm_len 8 with 2 words at offset 0; rm_len FIELD_MAX is
\* refused by urndis_ctrl_recv; rm_infobuflen MC_RESPONSE_LEN fits only a
\* declared length above the buffer; rm_infobuflen FIELD_MAX overflows a
\* 32-bit sum.  Short transfers stop after the header.
QueryFamily ==
    { Msg(QUERY_CMPLT, l, st, a, b, "ZERO", MEDIUM_802_3, act) :
        l \in {8, MC_RESPONSE_LEN, FIELD_MAX}, st \in {SUCCESS, FAILURE},
        a \in {0, MC_ADDR_LEN, MC_RESPONSE_LEN, FIELD_MAX}, b \in {0, 4}, act \in {6, 8} }

\* SetComplete / KeepAliveComplete: 4 words, status passed through.
StatusFamily ==
    { Msg(t, 4, st, 0, 0, "ZERO", MEDIUM_802_3, 4) :
        t \in {SET_CMPLT, KEEPALIVE_CMPLT}, st \in {SUCCESS, FAILURE} }

\* ResetComplete: 5 words; rm_adrreset is word 4.
ResetFamily ==
    { Msg(RESET_CMPLT, 5, st, a, 0, "ZERO", MEDIUM_802_3, 5) :
        st \in {SUCCESS, FAILURE}, a \in {0, 1} }

\* A message of a type urndis_ctrl_handle does not know.
OtherFamily == { Msg("INDICATE_STATUS", 4, SUCCESS, 0, 0, "ZERO", MEDIUM_802_3, 4) }

MC_Responses == InitFamily \cup QueryFamily \cup StatusFamily \cup ResetFamily \cup OtherFamily
MC_MaxDepth == 2
=============================================================================
