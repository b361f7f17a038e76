CONSTANTS
    DefaultFinish = 2
    MaxLayers <- MCMaxLayers
    MaxFiles = 1
    AdbMayFail = FALSE
SPECIFICATION Spec
INVARIANT
    DeviceRestored
CHECK_DEADLOCK FALSE
