SPECIFICATION BoundedSpec
CONSTANTS
    w1 = w1
    Experiences = {e1}
    Recorders = {q1}
    Recallers = {a1}
    Workers = {w1, w2}
    MaxRevision = 2
    MaxMeta = 2
    MaxFailures = 1
INVARIANTS TypeOK SyncedMeansProjected RemovedMeansUnsearchable
PROPERTIES OldTasksOverwriteNothing AdminDecisionStands IndexCatchesUp
CHECK_DEADLOCK FALSE
