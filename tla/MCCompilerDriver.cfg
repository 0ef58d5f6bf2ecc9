SPECIFICATION Spec
CONSTANTS
    c1 = c1  c2 = c2  c3 = c3  c4 = c4  o1 = o1  o2 = o2  o3 = o3  o4 = o4
    Compilers <- Four
    Mode <- ModeOfFour
    Out <- OutOfFour
    Inline = {c1}
    TempObject = TempObject
    Absent = Absent  Partial = Partial  Nothing = Nothing
    MaxRunning = 1
CHECK_DEADLOCK FALSE
INVARIANTS
    TypeOK
    RunsItsOwnProgram
    ObjectOnlyAfterFailure
PROPERTY EveryCompilationEnds
