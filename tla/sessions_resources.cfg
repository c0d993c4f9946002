SPECIFICATION FairSpec
CONSTANTS
    s1 = s1
    s2 = s2
    s3 = s3
    c1 = c1
    c2 = c2
    c3 = c3
    d1 = d1
    Nobody = Nobody
    Sessions = {s1, s2}
    Calls = {c1, c2}
    Deletions = {d1}
    Target <- DeletedTarget
    MaxSessions = 2
    MaxParallel = 1
    PoolSize = 2
    MaxCrashes = 1
    MaxCancels = 1
    MaxFaults = 1
INVARIANT TypeOK
INVARIANT ResourcesMatchPhases
INVARIANT AnswersAreDurable
PROPERTY NewSessionsHoldSlots
PROPERTY DeletionSparesWork
PROPERTY UncancelledResultsAreReused
PROPERTY EveryCallEnds
CHECK_DEADLOCK FALSE
