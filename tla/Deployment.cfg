SPECIFICATION FairSpec
CONSTANTS
    Processes = {p1, p2}
    Services = {s1}
    DevServices = {s1}
    Keys = {k1, k2}
    Versions = 2
    MaxAttempts = 2
    MaxDetached = 1
    Database = Database
    None = None
INVARIANTS
    Consistent
    ToldOnce
    DevKeysInDevelopment
PROPERTIES
    RevokedStaysOut
    StartEnds
