SPECIFICATION FairSpec
CONSTANTS
    u1 = u1
    u2 = u2
    r1 = r1
    c1 = c1
    Users <- MCUsers
    Readers <- MCReaders
    Closers <- MCClosers
    NoTask = NoTask
    ServerTicks = 1
    BackstopTicks = 2
    MaxSilences = 1
INVARIANTS TransactionsSeparate BackstopHasCause
PROPERTY CallsReturn
