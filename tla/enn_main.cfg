SPECIFICATION Spec
CONSTANTS
    Boards <- MCBoards
    DefaultBoard = "exynos9925"
    Names <- MCNames
    FailBound = 2
INVARIANTS
    TypeOK
CHECK_DEADLOCK FALSE
