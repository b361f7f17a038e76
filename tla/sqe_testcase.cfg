SPECIFICATION Spec
CONSTANTS
    ModelNames <- MCModelNames
    VectorUniverse <- MCVectorUniverse
    NumVectors = 2
    MaxSubcmds = 3
    CaseTypes <- MCCaseTypes
    TcId = 7
    Unbound = Unbound
INVARIANTS
    TypeOK
    ResolvesToFirstVector
    RaisesOnlyOnFirstUnknown
CHECK_DEADLOCK FALSE
