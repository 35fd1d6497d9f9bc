\* Every plan of three steps, with one dependency each.
SPECIFICATION FairSpec
CONSTANTS
    N = 3
    Ids = {A, B, C}
    MaxDeps = 1
    MaxCalls = 2
INVARIANTS
    TypeOK
    DependenciesFirst
    OneQuestion
    NothingLeftHanging
    BlockedOnlyByBadPlan
PROPERTIES
    ExecuteReturns
\* A workflow that has ended, and is cleared from its session, does nothing more.
CHECK_DEADLOCK FALSE
