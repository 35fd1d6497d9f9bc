\* Every plan of two steps, with gated and open capabilities and one restart.
SPECIFICATION SessionFairSpec
CONSTANTS
    N = 2
    Ids = {A, B}
    MaxDeps = 1
    MaxCalls = 2
    Gated = {drive_upload}
    Open = {web_search}
    Actions = {a1, a2}
    MaxCrashes = 1
    None = None
INVARIANTS
    SessionTypeOK
    QuietMeansSaved
    RefusesOnlyBadPlan
PROPERTIES
    SavedCompletionKept
    DecisionMissesOnlyBy
    RequestEnds
CHECK_DEADLOCK FALSE
