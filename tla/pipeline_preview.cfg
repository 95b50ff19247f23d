\* Two processes on one SQLite file, two-step approval, fail-closed audit.
SPECIFICATION Spec
CONSTANTS
    Requests = {r1, r2, r3}
    Processes = {p1, p2}
    Tenants = {a, b}
    Tools = {t}
    Payloads = {d, e}
    Keys = {}
    None = None
    TTL = 1
    MaxTime = 3
    RequirePreview = TRUE
    FailClosed = TRUE
    Sqlite = TRUE
SYMMETRY Symmetry
INVARIANTS
    TypeOK
    ActsAsPreviewed
    SingleUse
    ExecutionsTraceToPreviews
PROPERTY
    ImplementsApproval
