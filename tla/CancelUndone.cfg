\* A proposal saved from a stale copy while an action is cancelled.
SPECIFICATION Spec
CONSTANTS
    Actions = {a1, a2}
    Sessions = {s1}
    Threads = {t1, t2}
    MaxApprovals = 1
    TORN = TORN
SYMMETRY FileSymmetry
PROPERTY CancelledNeverRuns
