SPECIFICATION ChSpec
CONSTANTS
    q1 = q1
    q2 = q2
    q3 = q3
    Queries <- MCOneQuery
    NoRequest = NoRequest
    ChDatabases = {"default", "d"}
    Configured = "d"
    Names = {"a", "b"}
    Results <- MCResults
    JsonBatch = 2
    StreamMax = 3
    MaxMoves = 3
    ChCatalogs <- MCCatalogs
    ChTargets <- MCTargets
    Absent = Absent
    Pieces <- MCPieces
    MaxPieces = 2
    Parameters <- MCParameters
    Answers <- MCAnswers
    NULL = NULL
    Parts = {"queries"}
INVARIANT TimedOutQueryIsKilled
CHECK_DEADLOCK FALSE
