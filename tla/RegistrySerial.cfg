SPECIFICATION SerialSpec
CONSTANTS
    DIDs = {d1, d2}
    Keys = {k1, k2}
    Workers = {w1, w2}
    MaxDetached = 1
    Absent = Absent
PROPERTY
    SerialIsAtomic
