\* Two commands of a milestone at a time.  The team may stop giving them.
SPECIFICATION Spec
CONSTANTS
    Commands = {c1, c2}
    Writers = {w}
    LogRows = {"FIXING"}
    Rows = {"ACCEPTED", "BLOCKED", "AUDITING", "READY_TO_RESUME",
            "WAITING_FOR_QUOTA", "WAITING_FOR_CLAUDE"}
    ResumeTargets = {"BLOCKED", "READY_TO_RESUME", "WAITING_FOR_QUOTA",
                     "VERIFYING", "VERIFIED"}
    MaxPlans = 2
    MaxWork = 2
    MaxCommands = 5
SYMMETRY CommandSymmetry
CHECK_DEADLOCK FALSE
INVARIANTS
    TypeOK
    NoWorkBeforeAcceptance
    NoVerdictWithoutAudit
    VerdictIsOfThisAudit
    VerifiedWorkWasAudited
PROPERTIES
    WritesFollowAnAcceptedPlan
    RowsSurviveUnlessRaced
