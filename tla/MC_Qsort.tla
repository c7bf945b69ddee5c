------------------------------ MODULE MC_Qsort ------------------------------
(* Instances of Qsort.  The code's thresholds are 7 and 40: with 8        *)
(* elements the partition, the median of three, both vecswaps and the     *)
(* insertion sort of the sub-ranges all run.  The scaled thresholds 3 and *)
(* 6 make 8 elements recurse two levels deep and take the pseudo-median   *)
(* of nine, which the code's thresholds reach only beyond 40 elements.    *)
EXTENDS Qsort

MC_N == 8
MC_Vals == 1..4
MC_INS_MAX == 7
MC_NINTHER == 40
MC_INS_MAX_SCALED == 3
MC_NINTHER_SCALED == 6
=============================================================================
