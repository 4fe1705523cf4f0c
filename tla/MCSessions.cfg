SPECIFICATION SessionsSpec
CONSTANTS
    Calls = {c1, c2}
    Commands = {q1, q2}
    None = None
    MaxId = 3
    MaxRuns = 2
    Callers = {a1, a2}
    Schemas = {"a", "b"}
    Databases = {"d"}
    MaxSessions = 2
    Unset = Unset
    Keys = {"k1", "k2"}
    Contents <- MCContents
    RedisDatabases = {0, 1}
    Written <- MCWritten
    Keyspaces <- MCKeyspaces
    ScanQueries <- MCScanQueries
    ScanMax = 3
    MaxChanges = 2
    Missing = Missing
SYMMETRY Symmetric
CHECK_DEADLOCK FALSE
INVARIANTS CachedIdCurrent KillReachesOwnConnection CachesFollowSession ScanReadsKeyspace
