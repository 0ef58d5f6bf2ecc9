SPECIFICATION Spec
CONSTANTS
    x = x
    s1 = s1  s2 = s2  s3 = s3  s4 = s4
    Names = {x}
    Types <- TwoTypes
    Addresses = {s1, s2, s3, s4}
    NoScope = NoScope
    Nested = FALSE
    MaxHeld = 2
SYMMETRY Interchangeable
CHECK_DEADLOCK FALSE
INVARIANTS
    TypeOK
    EveryScopeHasOneOwner
    ReferencesCountDescendants
    NothingLeaks
PROPERTY FreedValueReadOnlyBySelfAssignment
