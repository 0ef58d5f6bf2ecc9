SPECIFICATION Spec
CONSTANTS
    VarNames = {x, y}
    ProcNames = {p}
    MaxLocals = 5
    MaxScopes = 3
    MaxDecls = 4
    MaxNesting = 4
    Features = {"shadow"}
CHECK_DEADLOCK FALSE
INVARIANT UsesResolveLexically
