SPECIFICATION Spec
CONSTANTS
    Cases <- MCCases
    Requests <- MCOneRequest
    ALL = ALL
    AdbWaitsForJobs = TRUE
    MaxLeaks = 0
    MaxCrashes = 1
    MaxPid = 2
    LocalLeftovers <- MCFreshDir
PROPERTY ServiceFailureRecovered
CHECK_DEADLOCK FALSE
