\* Two users, two requests at a time.  The users may stop asking.
SPECIFICATION Spec
CONSTANTS
    Users = {u1, u2}
    Requests = {r1, r2}
    Contexts = {k1, k2}
    Revisions = {v1, v2}
    None = None
    MaxGiven = 4
SYMMETRY Symmetry
CHECK_DEADLOCK FALSE
INVARIANTS
    TypeOK
    EnabledMeansConfigured
    LiveRegistryIsCurrent
    RecordedArtifactsExist
    OffStaysOff
