SPECIFICATION FairSpec
CONSTANTS
    Challenges = {c1}
    Services = {s1, s2}
    DIDs = {d1}
    Keys = {k1}
    Workers = {w1, w2}
    Lifetime = 1
    MaxAge = 0
    MaxFuture = 0
    Timestamps = {1}
    MaxNow = 3
    None = None
INVARIANTS
    Consistent
    JudgedIsGone
PROPERTIES
    DeadStaysDead
    AcceptedRightly
    EveryChallengeDies
