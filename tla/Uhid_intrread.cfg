CONSTANTS
    UHID_BSIZE <- MC_UHID_BSIZE
    MOUSE_DATA_LEN <- MC_MOUSE_DATA_LEN
    FRAME_NUM <- MC_FRAME_NUM
    ReportSizes <- MC_ReportSizes
    MaxReports <- MC_MaxReports
    HZ <- MC_HZ
    MaxRun <- MC_MaxRun
    IoctlMaxLens <- MC_IoctlMaxLens
    RepDescSizes <- MC_RepDescSizes
SPECIFICATION Spec
PROPERTY UhidIntrReadProgress
\* After uhid_detach the softc is gone: "gone" is final.
CHECK_DEADLOCK FALSE
