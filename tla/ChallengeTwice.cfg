SPECIFICATION Spec
CONSTANTS
    Challenges = {c1}
    Services = {s1}
    DIDs = {d1}
    Keys = {k1}
    Workers = {w1, w2}
    Lifetime = 2
    MaxAge = 2
    MaxFuture = 1
    Timestamps = {0, 2}
    MaxNow = 3
    None = None
INVARIANT
    SingleUse
