------------------------------ MODULE UhidIoctl ------------------------------
(***************************************************************************)
(* The ioctls of /dev/uhid (uhid_ioctl, uhid_ioctl_post) and the two       *)
(* synchronous report requests they make (uhid_get_report,                 *)
(* uhid_set_report), as operators that return the set of outcomes a call   *)
(* can have.  An outcome is the error code, the number of bytes moved      *)
(* between the kernel and the caller's ugd_data buffer, and whether the    *)
(* usb_gen_descriptor with ugd_actlen was copied back to the caller, and  *)
(* whether the report ID byte was read from ugd_data.                      *)
(*                                                                         *)
(* Apart from USB_SET_IMMED, whose effect on UHID_FLAG_IMMED is an action  *)
(* of Uhid, these calls change no driver state.  What the caller passes    *)
(* is abstracted to the report type, ugd_maxlen and what ugd_data is: NULL,*)
(* a mapped buffer, or an address copyin/copyout faults on.  A failed      *)
(* malloc, a device that does not answer the request, and a fault on the   *)
(* argument structure itself are nondeterministic outcomes.  The value of  *)
(* the report ID byte only changes the ID sent to the device and is left  *)
(* out; that it is read, whatever ugd_maxlen, is kept.                     *)
(***************************************************************************)
EXTENDS Naturals

\* ugd_data: NULL, a buffer of ugd_maxlen mapped bytes, a faulting address.
UserBufs == {"null", "ok", "fault"}

\* ugd_report_type: UHID_INPUT_REPORT, _OUTPUT_, _FEATURE_, anything else.
ReportTypes == {"input", "output", "feature", "other"}

\* The commands uhid_ioctl and uhid_ioctl_post tell apart.
IoctlCmds == {"GET_REPORT_DESC", "SET_IMMED", "GET_REPORT", "SET_REPORT",
              "GET_REPORT_ID", "GET_DEVICEINFO", "other"}

\* The MIN macro of uhid.c.
MIN(a, b) == IF a < b THEN a ELSE b

\* An outcome that copies back no usb_gen_descriptor.
Res(err, copied) == [err |-> err, copied |-> copied, told |-> FALSE, actlen |-> 0,
                      idRead |-> FALSE]

\* The outcomes S of a request made after copyin(ugd_data, &id, 1), whose
\* error is ignored, when the report has an ID (hasId).
AfterIdRead(S, hasId) == {[r EXCEPT !.idRead = hasId] : r \in S}

(* uhid_get_report with kern_data = NULL: a zero length is EPERM; else    *)
(* malloc(len) (ENOMEM), usbd_req_get_report (any error becomes ENXIO),   *)
(* then copyout of len bytes when user_data is not NULL.                   *)
UhidGetReport(userData, len) ==
    IF len = 0 THEN {Res("EPERM", 0)}
    ELSE {Res("ENOMEM", 0), Res("ENXIO", 0)}
         \cup CASE userData = "null"  -> {Res("OK", 0)}
                [] userData = "ok"    -> {Res("OK", len)}
                [] userData = "fault" -> {Res("EFAULT", 0)}

(* uhid_set_report with kern_data = NULL: a zero length is EPERM; else    *)
(* malloc(len), copyin of len bytes from user_data (EFAULT), then          *)
(* usbd_req_set_report (ENXIO).                                             *)
UhidSetReport(userData, len) ==
    IF len = 0 THEN {Res("EPERM", 0)}
    ELSE {Res("ENOMEM", 0)}
         \cup IF userData = "ok" THEN {Res("ENXIO", len), Res("OK", len)}
              ELSE {Res("EFAULT", 0)}

(* USB_GET_REPORT_DESC: copyin of the descriptor request, size =          *)
(* MIN(sc_repdesc_size, ugd_maxlen) into ugd_actlen; with ugd_data NULL   *)
(* break at once ("descriptor length only"); else copyout the descriptor  *)
(* and, if that worked, the request with ugd_actlen.                        *)
GetReportDesc(repdescSize, maxlen, userData) ==
    LET size == MIN(repdescSize, maxlen) IN
    {Res("EFAULT", 0)}
    \cup CASE userData = "null"  -> {Res("OK", 0)}
           [] userData = "ok"    -> {[Res("OK", size) EXCEPT !.told = TRUE, !.actlen = size],
                                     Res("EFAULT", size)}
           [] userData = "fault" -> {Res("EFAULT", 0)}

(* Seeded fault: the request length is the report size, not bounded by    *)
(* the caller's ugd_maxlen.                                                 *)
ReportIoctl_NoMin(get, allowed, type, size, hasId, maxlen, userData) ==
    IF ~allowed THEN {Res("EPERM", 0)}
    ELSE {Res("EFAULT", 0)}
         \cup IF type = "other" THEN {Res("EINVAL", 0)}
              ELSE AfterIdRead(IF get THEN UhidGetReport(userData, size)
                                      ELSE UhidSetReport(userData, size), hasId)

(* USB_GET_REPORT and USB_SET_REPORT: EPERM without FREAD (FWRITE), the   *)
(* copyin of the request, EINVAL for an unknown report type; for a report *)
(* with an ID (sc_iid, sc_oid or sc_fid not 0) the first byte of ugd_data *)
(* is read as the ID; then the request for MIN(ugd_maxlen, size) bytes,   *)
(* size being sc_isize, sc_osize or sc_fsize for the type.                 *)
ReportIoctl(get, allowed, type, size, hasId, maxlen, userData) ==
    IF ~allowed THEN {Res("EPERM", 0)}
    ELSE {Res("EFAULT", 0)}
         \cup IF type = "other" THEN {Res("EINVAL", 0)}
              ELSE AfterIdRead(IF get THEN UhidGetReport(userData, MIN(maxlen, size))
                                      ELSE UhidSetReport(userData, MIN(maxlen, size)),
                               hasId)

(* USB_SET_IMMED: EPERM without FREAD, copyin of the int; a non-zero      *)
(* value first does the test read uhid_get_report(sc_isize) into no user  *)
(* buffer.  Whether the flag changes is Uhid's IoctlSetImmed.              *)
SetImmed(canRead, on, isize) ==
    IF ~canRead THEN {Res("EPERM", 0)}
    ELSE {Res("EFAULT", 0)}
         \cup IF on THEN UhidGetReport("null", isize) ELSE {Res("OK", 0)}

(* uhid_ioctl_post: USB_GET_DEVICEINFO is filled by ugen_fill_deviceinfo, *)
(* which may fail to copy it out; any other command is EINVAL.             *)
UhidIoctlPost(cmd) ==
    IF cmd = "GET_DEVICEINFO" THEN {Res("OK", 0), Res("EFAULT", 0)}
    ELSE {Res("EINVAL", 0)}

(* uhid_ioctl on a descriptor open with FREAD (canRead) and FWRITE        *)
(* (canWrite); a = the caller's type, maxlen, data and SET_IMMED value;   *)
(* sz = the report sizes and whether the report has an ID, by type, and   *)
(* the descriptor size.  USB_GET_REPORT_ID copies out 0; ENOIOCTL passes *)
(* the command on to uhid_ioctl_post.                                       *)
UhidIoctlCall(cmd, canRead, canWrite, a, sz) ==
    CASE cmd = "GET_REPORT_DESC" -> GetReportDesc(sz.desc, a.maxlen, a.data)
      [] cmd = "SET_IMMED"       -> SetImmed(canRead, a.on, sz.size.input)
      [] cmd = "GET_REPORT"      -> ReportIoctl(TRUE, canRead, a.type, sz.size[a.type], sz.id[a.type], a.maxlen, a.data)
      [] cmd = "SET_REPORT"      -> ReportIoctl(FALSE, canWrite, a.type, sz.size[a.type], sz.id[a.type], a.maxlen, a.data)
      [] cmd = "GET_REPORT_ID"   -> {Res("OK", 0), Res("EFAULT", 0)}
      [] OTHER                   -> UhidIoctlPost(cmd)

====
