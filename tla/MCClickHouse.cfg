SPECIFICATION ChSpec
CONSTANTS
    q1 = q1
    q2 = q2
    q3 = q3
    Queries <- MCQueries
    NoRequest = NoRequest
    ChDatabases = {"default", "d"}
    Configured = "d"
    Names = {"a", "b"}
    Results <- MCResults
    JsonBatch = 2
    StreamMax = 3
    MaxMoves = 3
    ChCatalogs <- MCCatalogs
    ChTargets <- MCTargets
    Absent = Absent
    Pieces <- MCPieces
    MaxPieces = 2
    Parameters <- MCParameters
    Answers <- MCAnswers
    NULL = NULL
    Parts = {"queries", "stream", "schema", "text"}
SYMMETRY Symmetry
INVARIANTS SlotNamesLiveRequest TextDescribesTable StatementSentAsWritten AnswersReadBack
PROPERTIES SlotReleasedByOwner SoloSendIsKilled
CHECK_DEADLOCK FALSE
