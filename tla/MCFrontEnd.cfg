SPECIFICATION Spec
CONSTANTS
    Sources <- MCSources
    Keywords <- MCKeywords
    Inputs <- MCInputs
CHECK_DEADLOCK FALSE
INVARIANTS
    TokensAreTheCode
    CompleteUnlessError
    OperandsAreKept
    NothingLostUnlessError
    GroupedByLevel
    FoldingKeepsTheValue
PROPERTIES
    LexingEnds
    ScansAdvance
