CONSTANTS
    DefaultFinish = 2
    MaxLayers <- MCMaxLayers
    MaxFiles = 1
    AdbMayFail = TRUE
SPECIFICATION Spec
INVARIANTS
    TypeOK
    TestRunsOnItsLayer
    LayersTested
    DebugModeLeftOnlyAfterCut
PROPERTY
    RefinesLayerPlan
CHECK_DEADLOCK FALSE
