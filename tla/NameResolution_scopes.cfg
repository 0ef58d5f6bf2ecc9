SPECIFICATION Spec
CONSTANTS
    VarNames = {x, y}
    ProcNames = {p}
    MaxLocals = 5
    MaxScopes = 3
    MaxDecls = 4
    MaxNesting = 4
    Features = {}
CHECK_DEADLOCK FALSE
INVARIANTS
    VisibleVariablesAreFound
    TableHoldsOpenScopes
    ScopeStackMatchesBlocks
