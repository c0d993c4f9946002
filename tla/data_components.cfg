SPECIFICATION Spec
CONSTANTS
    Nobody = Nobody
    Absent = Absent
    NoRegistry = NoRegistry
    NoRole = NoRole
    uA = uA
    uB = uB
    uC = uC
    kA = kA
    kB = kB
    kC = kC
    o1 = o1
    o2 = o2
    o3 = o3
    p1 = p1
    d1 = d1
    t1 = t1
    x1 = x1
    n1 = n1
    k1 = k1
    k2 = k2
    s1 = s1
    w1 = w1
    w2 = w2
    e1 = e1
    e2 = e2
    v1 = v1
    v2 = v2
    t2 = t2
    l1 = l1
    f1 = f1
    f2 = f2
    a1 = a1
    a2 = a2
    r1 = r1
    u1 = u1
    u2 = u2
    fa = fa
    kb = kb
    vb = vb
    ta = ta
    tb = tb
    ma = ma
    mb = mb
    va = va
    vk = vk
    None = None
    Whole = Whole
    c1 = c1
    c2 = c2
    c3 = c3
    g1 = g1
    g2 = g2
    SandboxUsers = {uA, uB, uC}
    SandboxChats = {kA, kB, kC}
    Workers = {o1, o2, o3, p1, d1, t1, x1, n1}
    WorkerCrews <- CrewsOfWorkers
    WorkerKind <- KindOfWorker
    WorkerUser <- UserOfWorker
    WorkerChat <- ChatOfWorker
    MaxRunning = 1
    StoredChats = {k1, k2}
    StoredSessions = {s1}
    SessionHome <- HomeOfSession
    UidRange = {1, 2, 3}
    UidDigests <- DigestsOfUids
    UidReaders = {1}
    FileCalls = {w1, w2, e1, e2}
    FileTool <- ToolOfCall
    MaxFileSize = 2
    PathNames = {"a", ".x", ".", "..", "uploads", "sessions", "s", "data", "k"}
    HiddenNames = {".x"}
    PathDepth = 3
    PathRoot <- RootPath
    PathSession <- SessionPath
    AuthRequests = {l1, f1, f2, o1, p1, u1, d1}
    AuthKind <- KindOfRequest
    Tokens = {1, 2, 3}
    Admins = {a1, a2}
    Observers = {o1}
    RoleNames = {r1}
    Accounts = {u1, u2}
    FirstAdmin = u1
    MaxGrants = 2
    MaxRoleFaults = 1
    RateKeys = {k1, k2, s1}
    RateLimit = 1
    RateWindow = 2
    MaxKeys = 2
    MaxTime = 4
    CatalogTables = {ta, tb}
    CatalogColumns = {fa, kb, vb}
    CatalogMetrics = {ma}
    CatalogTableOf <- TableOfColumn
    TableContents = {1, 2}
    StartCatalogs <- Beginnings
    CatalogJobs <- JobsOfAdministrators
    CatalogWriters = {w1, w2, e1}
    EntryContents = {v1, v2}
    EntryWriters = {w1, w2, e1}
    IndexTasks = {t1, t2}
    MaxQueue = 1
    MaxVersion = 3
    MaxIndexFaults = 1
    SyncRuns = {1, 2}
    MaxValue = 3
    Lookback = 1
    MaxSyncChanges = 2
    Columns = {fa, kb, vb}
    Tables = {ta, tb}
    TableOf <- TableOfColumn
    Reference <- ReferenceOfColumn
    KeyColumns = {kb}
    Metrics = {ma, mb}
    Needs <- NeedsOfMetric
    KnownValues = {va, vk}
    ColumnOf <- ColumnOfValue
    Failures = {t1}
    MaxCatalogs = 2
    Depth = 2
    Limit = 1
    MaxContexts = 2
    SearchedColumns = {vb}
    Spelling <- SpellingOfResource
    RecallQueries = {k1, k2}
    Rank <- RankOfQuery
    Calls = {c1, c2, c3, d1, g1, g2, x1}
    RecallCrews <- CrewsOfCalls
    RecallKind <- KindOfRecall
    On <- QueriesOfCall
    Keeper <- TargetOfMerge
    Retried <- ScopesOfRecall
    Cut <- CutOfDeletion
    Experiences = {e1, e2}
    Uses <- UsesOfExperience
    MadeUnder <- PolicyOfExperience
    Searches <- SearchesOfRecalls
    Rights <- RightsOfUser
    MaxRecallChanges = 1
    MaxJoins = 2
    MaxRows = 3
    SampleRows = 2
    Statements = {w1, w2}
    Servers = {p1, x1}
    ServerOf <- ServerOfStatement
    MaxGenerations = 2
    MaxQueryFaults = 1
INVARIANTS TypeOK SandboxesAreSafe MetadataIsKept RecallsAreSafe AccessIsSafe AnswersAreSafe
CHECK_DEADLOCK FALSE
