SPECIFICATION FairSpec
CONSTANTS
    r1 = r1
    r2 = r2
    Requests = {r1, r2}
    Kinds <- MCKinds
    ReadTimeout = 3
    WriteTimeout = 3
    RequestTimeout = 6
    ProverTimeout = 2
    DrainTimeout = 6
    NewConnGrace = 1
    Longest = 6
    None = None
INVARIANTS
    Consistent
    HonestReport
    FailsClosed
    LostForCause
PROPERTIES
    DrainSpares
    EveryoneLeaves
CHECK_DEADLOCK FALSE
