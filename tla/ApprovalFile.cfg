\* Two threads, two actions: what holds unless operations overlap.
SPECIFICATION Spec
CONSTANTS
    Actions = {a1, a2}
    Sessions = {s1, s2}
    Threads = {t1, t2}
    MaxApprovals = 1
    TORN = TORN
SYMMETRY FileSymmetry
INVARIANTS
    TypeOK
    SingleUseUnlessOverlap
    DecisionsSurvive
PROPERTIES
    CancelledNeverRunsUnlessOverlap
    AtomicUnlessOverlap
