\* Two concurrent mutations that share a token of six ticks, one retry each.
SPECIFICATION Spec
CONSTANTS
    Requests = {r1, r2}
    Kinds = {"post"}
    None = None
    MaxRetries = 1
    Lifetime = 6
    Buffer = 4
    FetchTimeout = 1
    RequestTimeout = 2
    MaxTime = 7
SYMMETRY Symmetry
INVARIANTS
    TypeOK
    TokenOutlivesRequest
    RejectedTokenNotReused
PROPERTY
    ImplementsRemoteCall
CHECK_DEADLOCK FALSE
