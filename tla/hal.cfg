SPECIFICATION Spec
CONSTANTS
    Lines <- MCLines
    HeaderText <- MCHeader
    FooterText <- MCFooter
INVARIANTS
    
    OutputIsReference
    ExitStatusTellsOutcome
CHECK_DEADLOCK FALSE
