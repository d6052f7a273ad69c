SPECIFICATION Spec
CONSTANTS
    Clients = {a, b}
    Limit = 2
    Window = 3
    MaxNow = 7
    None = None
SYMMETRY Symmetry
INVARIANTS
    Consistent
    LessThanTwice
    RefusedForCause
    PatienceRewarded
    IdleForgotten
PROPERTY
    OpenWindowKept
