\* A legacy action of the ambient context, resumed by a yes.
SPECIFICATION Spec
CONSTANTS
    Actions = {a1}
    Sessions = {s1}
    NoSession = NoSession
    Legacy = {drive_upload}
    Multi = {}
    Threads = {t1, t2}
    Expiry = 1
    MaxTime = 2
    Contexts = {FALSE}
    ResumptionEnabled = TRUE
    NoRecord = NoRecord
    NoRequest = NoRequest
INVARIANT NoStrandedApproval
