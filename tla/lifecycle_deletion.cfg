SPECIFICATION FairSpec
CONSTANTS
    None = None  r3 = r3  q2 = q2  p1 = p1  p2 = p2
    Conversations = {c1}
    Processes = {p1}
    Runs = {r1}
    ResumeRuns = {}
    Requests = {q1}
    DraftRequests = {}
    Uploads = {u1}
    Cleaners = {k1}
    Home <- MCHome
    MaxFailures = 1
    MaxCrashes = 1
INVARIANTS NoOrphans
PROPERTIES SealedStoresStayEmpty DeletionIsOrderly MarkedIsDeleted CancelledRunEnds
CHECK_DEADLOCK FALSE
