------------------------------- MODULE MC_Uhid -------------------------------
(* Uhid with UHID_BSIZE scaled from 1024 to 8 and UHID_FRAME_NUM from 50  *)
(* to 2; a mouse report is 4 bytes as in the code.  Report sizes below,   *)
(* at and above the buffer size exercise the truncation in uhid_attach;   *)
(* 0 is a device without an input report.                                  *)
EXTENDS Uhid

MC_UHID_BSIZE == 8
MC_MOUSE_DATA_LEN == 4
MC_FRAME_NUM == 2
MC_ReportSizes == {0, 3, 4, 9}
MC_MaxReports == 2
\* hz scaled to 2 ticks; a probe leaves the quirk lookup within 1 tick.
MC_HZ == 2
MC_MaxRun == 1
\* A probe preempted for as long as the whole pause.
MC_MaxRun_Preempted == 2
\* ugd_maxlen: none, shorter than every report, longer than the buffers;
\* descriptors shorter and longer than the longest ugd_maxlen.
MC_IoctlMaxLens == {0, 1, 16}
MC_RepDescSizes == {2, 20}
====
