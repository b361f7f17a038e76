SPECIFICATION Spec
CONSTANTS
    Cases <- MCCases
    Requests <- MCRepeatRequests
    ALL = ALL
    AdbWaitsForJobs = FALSE
    MaxLeaks = 0
    MaxCrashes = 0
    MaxPid = 1
    LocalLeftovers <- MCFreshDir
INVARIANT DevicePullFresh
CHECK_DEADLOCK FALSE
