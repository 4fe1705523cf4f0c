SPECIFICATION FairSpec
CONSTANTS
    Ids = {c1, c2}
    Attempts = {c1, c2}
    Disconnects = {d1, d2}
    Queries = {q1}
    Guessable = {c2}
    Nobody = Nobody
    NoId = NoId
    GenModulus = 65536
INVARIANTS NoLeakedDriver Lockstep
PROPERTIES ImplementsTable CallsWaitForOwnDriver
