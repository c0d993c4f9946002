SPECIFICATION Spec
CONSTANTS
    None = None  r3 = r3  q2 = q2  p1 = p1  p2 = p2
    Conversations = {c1}
    Processes = {p1, p2}
    Runs = {r1, r2}
    ResumeRuns = {r2}
    Requests = {q1, q2}
    DraftRequests = {q2}
    Uploads = {}
    Cleaners = {k1}
    Home <- MCHome
    MaxFailures = 1
    MaxCrashes = 0
INVARIANTS TypeOK LiveRunsAreRegistered ExecutingRunsOwnTheirRow
PROPERTIES UnmarkedFormalSurvives DraftRequestSparesFormal
CHECK_DEADLOCK FALSE
