SPECIFICATION Spec
CONSTANTS
    Cases <- MCCases
    Models <- MCModels
    VectorModels <- MCVectorModels
    Requests <- MCRequests
    ALL = ALL
    MaxLeaks = 1
    MaxCrashes = 1
    MaxPid = 2
INVARIANTS
    TypeOK
    RunsMatchRequest
    DevicePullFresh
    VerdictComplete
PROPERTIES
    Termination
CHECK_DEADLOCK FALSE
