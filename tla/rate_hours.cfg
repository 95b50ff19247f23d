\* One process or two, with one database or with counters in memory, over two turns of the
\* hour.
SPECIFICATION Spec
CONSTANTS
    Processes = {p1, p2}
    Tenants = {t1}
    Projects = {i1}
    Shared = Shared
    None = None
    Limit = 1
    MaxHour = 2
    MaxCalls = 6
SYMMETRY Symmetry
INVARIANTS
    TypeOK
    LimitHolds
    LimitStretched
    RefusedForCause
