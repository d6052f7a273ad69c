SPECIFICATION Spec
CONSTANTS
    Ids = {i1}
    DIDs = {d1}
    Keys = {k1, k2}
    Claims <- MCClaims
    Workers = {w1, w2}
    MaxDetached = 1
    MaxNow = 1
    None = None
SYMMETRY Symmetry
INVARIANTS
    Consistent
PROPERTIES
    ImplementsLedger
    DeadStaysDead
    IssuerRetires
    JudgedRightly
