\* One process, no previews, everything in memory, fail-open audit: keyed retries.
SPECIFICATION Spec
CONSTANTS
    Requests = {r1, r2, r3}
    Processes = {p1}
    Tenants = {a, b}
    Tools = {t}
    Payloads = {d, e}
    Keys = {k}
    None = None
    TTL = 1
    MaxTime = 3
    RequirePreview = FALSE
    FailClosed = FALSE
    Sqlite = FALSE
SYMMETRY Symmetry
INVARIANT
    KeyedRetryNotRepeated
