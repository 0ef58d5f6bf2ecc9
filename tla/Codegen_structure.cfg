SPECIFICATION Spec
CONSTANTS
    MaxLoopNesting = 2
    MaxBlocks = 7
    MaxProcs = 1
    MaxDepth = 3
    Features = {"jump", "badCondition", "ifExpression", "procError", "procAfterFlow", "procMain", "bareReturn"}
CHECK_DEADLOCK FALSE
INVARIANTS
    TypeOK
    LoopStackMatchesFrames
    InsertPointInCurrentFunction
    BranchesStayInFunction
    PhiMatchesPredecessors
    ContextErrorsReported
