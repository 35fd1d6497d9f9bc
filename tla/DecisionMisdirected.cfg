\* Does the decision of an action reach the step that proposed it?
SPECIFICATION SessionSpec
CONSTANTS
    N = 2
    Ids = {A, B}
    MaxDeps = 1
    MaxCalls = 2
    Gated = {drive_upload}
    Open = {web_search}
    Actions = {a1, a2}
    MaxCrashes = 0
    None = None
SYMMETRY SessionSymmetry
PROPERTY DecisionReachesOwnStep
CHECK_DEADLOCK FALSE
