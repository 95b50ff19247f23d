\* Two concurrent requests that are safe to repeat, two retries each, while no token expires.
SPECIFICATION Spec
CONSTANTS
    Requests = {r1, r2}
    Kinds = {"get", "retryOn5xx"}
    None = None
    MaxRetries = 2
    Lifetime = 6
    Buffer = 4
    FetchTimeout = 1
    RequestTimeout = 2
    MaxTime = 0
PROPERTY
    EveryRequestEnds
CHECK_DEADLOCK FALSE
