CONSTANTS
    UHID_BSIZE <- MC_UHID_BSIZE
    OutReportSizes <- MC_OutReportSizes
    OidChoices = {TRUE, FALSE}
    IntrChoices = {TRUE, FALSE}
    WriteLens <- MC_WriteLens
    MaxWrites <- MC_MaxWrites
SPECIFICATION Spec
INVARIANT TypeOK UhidWriteFramed UhidIntrStreamOrdered UhidBytesOnce
PROPERTY UhidWellFormedSent UhidWriteDrains
