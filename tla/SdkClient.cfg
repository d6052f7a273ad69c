SPECIFICATION Spec
CONSTANTS
    Keys = {k1, k2, k3}
    Calls = {c1, c2}
    None = None
SYMMETRY Symmetry
INVARIANTS
    Consistent
    KeyAtHand
    CreatedIsRegistered
PROPERTIES
    DeletedIsRevoked
