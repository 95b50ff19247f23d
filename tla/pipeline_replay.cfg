\* One process on SQLite, two-step approval with keys, fail-closed audit: what calls are told.
SPECIFICATION Spec
CONSTANTS
    Requests = {r1, r2, r3}
    Processes = {p1}
    Tenants = {a, b}
    Tools = {t}
    Payloads = {d, e}
    Keys = {k}
    None = None
    TTL = 1
    MaxTime = 3
    RequirePreview = TRUE
    FailClosed = TRUE
    Sqlite = TRUE
SYMMETRY Symmetry
INVARIANTS
    AuditTellsTheTruth
    HonestRetryAdvice
    ReplaySound
