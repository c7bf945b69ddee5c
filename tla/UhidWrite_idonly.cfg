CONSTANTS
    UHID_BSIZE <- MC_UHID_BSIZE
    OutReportSizes <- MC_OutReportSizes_IdOnly
    OidChoices = {TRUE}
    IntrChoices = {FALSE}
    WriteLens <- MC_WriteLens_IdOnly
    MaxWrites <- MC_MaxWrites
SPECIFICATION Spec
PROPERTY UhidWellFormedSent
