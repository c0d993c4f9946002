SPECIFICATION Spec
CONSTANTS
    None = None  r3 = r3  q2 = q2  p1 = p1  p2 = p2
    Conversations = {c1}
    Processes = {p1}
    Runs = {r1}
    ResumeRuns = {}
    Requests = {}
    DraftRequests = {}
    Uploads = {}
    Cleaners = {k1}
    Home <- MCHome
    MaxFailures = 1
    MaxCrashes = 0
INVARIANTS BegunDeletionIsMarked
CHECK_DEADLOCK FALSE
