\* A logged-in user presses the button: which approvals take effect?
SPECIFICATION Spec
CONSTANTS
    Actions = {a1}
    Sessions = {s1}
    NoSession = NoSession
    Legacy = {drive_upload}
    Multi = {Gmail}
    Threads = {t1, t2}
    Expiry = 1
    MaxTime = 2
    Contexts = {TRUE}
    ResumptionEnabled = FALSE
    NoRecord = NoRecord
    NoRequest = NoRequest
INVARIANT NoStrandedApproval
