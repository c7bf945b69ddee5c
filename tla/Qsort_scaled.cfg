CONSTANTS
    N <- MC_N
    Vals <- MC_Vals
    INS_MAX <- MC_INS_MAX_SCALED
    NINTHER <- MC_NINTHER_SCALED
SPECIFICATION Spec
INVARIANT TypeOK QsortSorts PartitionInvariant StackHalves QsortSArgsUsed
\* qsort returns: "done" is final.
CHECK_DEADLOCK FALSE
