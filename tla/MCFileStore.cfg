SPECIFICATION Spec
CONSTANTS
    p1 = p1
    p2 = p2
    k1 = k1
    k2 = k2
    v1 = v1
    v2 = v2
    Procs <- MCProcs
    Keys <- MCKeys
    Values <- MCValues
    NoValue = NoValue
    Unlocked = Unlocked
PROPERTY ImplementsAtomicMap
