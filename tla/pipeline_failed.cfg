\* One process on SQLite, two-step approval: what a "failed" audit entry says.
SPECIFICATION Spec
CONSTANTS
    Requests = {r1, r2}
    Processes = {p1}
    Tenants = {a}
    Tools = {t}
    Payloads = {d}
    Keys = {k}
    None = None
    TTL = 1
    MaxTime = 2
    RequirePreview = TRUE
    FailClosed = FALSE
    Sqlite = TRUE
SYMMETRY Symmetry
INVARIANT FailedMeansNotApplied
