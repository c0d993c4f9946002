SPECIFICATION BoundedSpec
CONSTANTS
    w1 = w1
    Experiences = {e1}
    Recorders = {q1}
    Recallers = {a1, a2}
    Workers = {w1}
    MaxRevision = 3
    MaxMeta = 2
    MaxFailures = 0
INVARIANTS RecallsAreFresh
CHECK_DEADLOCK FALSE
