SPECIFICATION Spec
CONSTANTS
    Cases <- MCCases
    Requests <- MCRepeatRequests
    ALL = ALL
    AdbWaitsForJobs = TRUE
    MaxLeaks = 0
    MaxCrashes = 0
    MaxPid = 1
    LocalLeftovers <- MCFreshDir
INVARIANT VerdictSound
CHECK_DEADLOCK FALSE
