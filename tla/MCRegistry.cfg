SPECIFICATION Spec
CONSTANTS
    i1 = i1
    a1 = a1
    a2 = a2
    a3 = a3
    Ids <- MCIds
    Attempts <- MCAttempts
    Nobody = Nobody
    NoId = NoId
    GenModulus = 65536
    MaxEvents = 5
PROPERTIES NoClobber StaleInstallOnlyInWindow
SYMMETRY Symmetry
CHECK_DEADLOCK FALSE
