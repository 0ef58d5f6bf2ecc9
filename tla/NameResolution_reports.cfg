SPECIFICATION Spec
CONSTANTS
    VarNames = {x, y}
    ProcNames = {p}
    MaxLocals = 2
    MaxScopes = 1
    MaxDecls = 3
    MaxNesting = 4
    Features = {"shadow", "deep", "many", "procAfterVars"}
CHECK_DEADLOCK FALSE
INVARIANTS
    TypeOK
    ReportedIffUnread
