SPECIFICATION Spec
CONSTANTS
    Families <- MCFamilies
    Procedures <- MCProcedures
    Tails <- MCTails
    MaxPlaceholders = 64
    OptLevel = 2
CHECK_DEADLOCK FALSE
INVARIANT NoFreedNodeIsEmitted
