SPECIFICATION Spec
CONSTANTS
    s1 = s1
    s2 = s2
    s3 = s3
    c1 = c1
    c2 = c2
    c3 = c3
    d1 = d1
    Nobody = Nobody
    Sessions = {s1, s2, s3}
    Calls = {c1, c2, c3}
    Deletions = {}
    Target <- OwnTarget
    MaxSessions = 2
    MaxParallel = 2
    PoolSize = 6
    MaxCrashes = 0
    MaxCancels = 0
    MaxFaults = 0
INVARIANT SessionsWithinLimit
CHECK_DEADLOCK FALSE
