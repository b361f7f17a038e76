SPECIFICATION Spec
CONSTANTS
    Cases <- MCCases
    Requests <- MCRequests
    ALL = ALL
    AdbWaitsForJobs = TRUE
    MaxLeaks = 1
    MaxCrashes = 1
    MaxPid = 2
    LocalLeftovers <- MCFreshDir
INVARIANTS
    TypeOK
    RunsMatchRequest
    FailCntMatchesVerdicts
    DevicePullFresh
    VerdictComplete
PROPERTIES
    Termination
CHECK_DEADLOCK FALSE
