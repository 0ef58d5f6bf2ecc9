SPECIFICATION Spec
CONSTANTS
    MaxLoopNesting = 2
    MaxBlocks = 8
    MaxProcs = 1
    MaxDepth = 4
    Features = {"jump"}
CHECK_DEADLOCK FALSE
INVARIANT EveryBlockTerminatedOnce
