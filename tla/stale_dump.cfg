CONSTANTS
    DefaultFinish = 2
    MaxLayers <- MCMaxLayers
    MaxFiles = 1
    AdbMayFail = FALSE
SPECIFICATION Spec
INVARIANT
    SuccessOnOwnDump
CHECK_DEADLOCK FALSE
