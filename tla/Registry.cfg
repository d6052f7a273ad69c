SPECIFICATION FairSpec
CONSTANTS
    DIDs = {d1}
    Keys = {k1, k2}
    Workers = {w1, w2}
    MaxDetached = 1
    Absent = Absent
INVARIANTS
    Consistent
    OneRegistration
PROPERTIES
    RevocationSettles
    KeyCustody
    ImplementsView
    EveryRequestAnswered
    RevocationDrains
