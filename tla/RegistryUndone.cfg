SPECIFICATION Spec
CONSTANTS
    DIDs = {d1}
    Keys = {k1, k2}
    Workers = {w1, w2}
    MaxDetached = 0
    Absent = Absent
PROPERTY
    RevocationCannotBeUndone
