CONSTANTS
    N <- MC_N
    Vals <- MC_Vals
    INS_MAX <- MC_INS_MAX
    NINTHER <- MC_NINTHER
SPECIFICATION Spec
INVARIANT TypeOK QsortSorts PartitionInvariant
\* qsort returns: "done" is final.
CHECK_DEADLOCK FALSE
