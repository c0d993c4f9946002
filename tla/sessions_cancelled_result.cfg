SPECIFICATION Spec
CONSTANTS
    s1 = s1
    s2 = s2
    s3 = s3
    c1 = c1
    c2 = c2
    c3 = c3
    d1 = d1
    Nobody = Nobody
    Sessions = {s1}
    Calls = {c1, c2}
    Deletions = {}
    Target <- SharedTarget
    MaxSessions = 2
    MaxParallel = 2
    PoolSize = 6
    MaxCrashes = 0
    MaxCancels = 1
    MaxFaults = 0
PROPERTY RecordedResultsAreReused
CHECK_DEADLOCK FALSE
