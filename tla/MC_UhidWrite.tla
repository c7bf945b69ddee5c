---------------------------- MODULE MC_UhidWrite ----------------------------
(* UhidWrite with UHID_BSIZE scaled from 1024 to 4: an output report of 3  *)
(* bytes fits and one of 6 is truncated.  Writes of 2, 3 and 4 bytes are   *)
(* short, exact and long for a 3-byte report, and each fits one buffer of  *)
(* sc_osize + 1 bytes.                                                     *)
EXTENDS UhidWrite

MC_UHID_BSIZE == 4
MC_OutReportSizes == {3, 6}
MC_WriteLens == {1, 2, 3, 4}
MC_MaxWrites == 4
\* A report made of the ID byte only: sc_osize = 1 with an ID.
MC_OutReportSizes_IdOnly == {1}
MC_WriteLens_IdOnly == {1}
====
