SPECIFICATION ProcessFairSpec
CONSTANTS
    r1 = r1
    r2 = r2
    Runs = {r1, r2}
    Clients = {c1, c2}
    NoRun = NoRun
    QueueLimit = 2
    EventLimit = 2
    ByteLimit = 3
    Large = 4
    MaxEvents <- EventsOf
    k1 = k1
    k2 = k2
    u1 = u1
    u2 = u2
    u3 = u3
    Turns = {u1, u2, u3}
    Chat <- ChatOf
    MaxCached = 1
    Builds = {1, 2, 3}
    NoBuild = 0
    Jobs = {j1}
    Callers = {a1, a2}
    NoCaller = NoCaller
    MaxErrors = 1
INVARIANTS ProcessTypes StreamsAreGapless RuntimesAreSafe JobsAreAccounted
PROPERTIES EndedRunsReleaseClients VerdictsAreFinal CleanupEnds
CHECK_DEADLOCK FALSE
