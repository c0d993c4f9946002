SPECIFICATION FairSpec
CONSTANTS
    w1 = w1
    w2 = w2
    r1 = r1
    c1 = c1
    c2 = c2
    Nobody = Nobody
    Workers = {w1, w2}
    Requests = {r1}
    Conversations = {c1}
    MaxMessages = 1
    MaxFaults = 1
    MaxVolumeFaults = 1
INVARIANT TypeOK
INVARIANT CompletedMeansClean
PROPERTY CompletionIsFinal
PROPERTY OnlyLateRowsStall
CHECK_DEADLOCK FALSE
