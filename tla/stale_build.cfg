CONSTANTS
    Sanitizers <- MCSanitizers
    BadSanitizers <- MCBadSanitizers
    MaxInvocations = 3
SPECIFICATION Spec
INVARIANT
    ReportFromPassingTests
CHECK_DEADLOCK FALSE
