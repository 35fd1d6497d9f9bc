\* Three requests race for one action.
SPECIFICATION FairSpec
CONSTANTS
    Actions = {a1}
    Sessions = {s1}
    NoSession = NoSession
    Legacy = {drive_upload}
    Multi = {Gmail}
    Threads = {t1, t2, t3}
    Expiry = 1
    MaxTime = 2
    Contexts = {TRUE, FALSE}
    ResumptionEnabled = TRUE
    NoRecord = NoRecord
    NoRequest = NoRequest
INVARIANTS
    TypeOK
    SingleUse
    RunsOnlyWhatItsSessionApproved
    StrandedOnlyBy
    UnservedOnlyIfMulti
PROPERTIES
    DecidedOnce
    NothingConsumedAfterExpiry
    RunsOnlyWhileGranted
    ApprovalTakesEffect
    ImplementsContract
