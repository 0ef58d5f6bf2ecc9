SPECIFICATION Spec
CONSTANTS
    a = a  b = b  f = f
    Null = Null  True = True  v1 = v1
    Keys <- IdentKeys
    KeyClass <- IdentClass
    KeyHash <- IdentHash
    Unhashable = {f}
    Values = {v1, Null}
    MaxCapacity = 16
INVARIANTS
    TypeOK
    SearchAlwaysEnds
    LoadIsBounded
    KeysStayReachable
PROPERTY
    ImplementsMap
