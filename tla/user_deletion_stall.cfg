SPECIFICATION FairSpec
CONSTANTS
    w1 = w1
    w2 = w2
    r1 = r1
    c1 = c1
    c2 = c2
    Nobody = Nobody
    Workers = {w1}
    Requests = {r1}
    Conversations = {c1, c2}
    MaxMessages = 1
    MaxFaults = 0
    MaxVolumeFaults = 1
PROPERTY DeletionFinishes
CHECK_DEADLOCK FALSE
