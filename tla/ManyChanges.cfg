SPECIFICATION Spec

CONSTANTS
    v1 = v1
    v2 = v2
    v3 = v3
    v4 = v4
    v5 = v5
    v6 = v6
    w1 = w1
    w2 = w2
    a1 = a1
    Values <- SixValues
    None = None
    Writers = {w1}
    Actions = {}
    MaxStale = 4
    MaxRemovals = 0

SYMMETRY SixSymmetry

CONSTRAINT OnlyWrites

INVARIANTS
    OldestValueStaysOut
