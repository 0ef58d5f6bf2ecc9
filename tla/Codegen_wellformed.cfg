SPECIFICATION Spec
CONSTANTS
    MaxLoopNesting = 2
    MaxBlocks = 10
    MaxProcs = 1
    MaxDepth = 4
    Features = {"ifExpression"}
CHECK_DEADLOCK FALSE
INVARIANTS
    EveryBlockTerminatedOnce
