\* The same: a tenant may be provisioned while a restore is under way.
SPECIFICATION Spec
CONSTANTS
    Tenants = {t1, t2}
    Accounts = {a1, a2}
    MaxKey = 2
    Requests = {r1}
    Admins = {c1, c2}
    Quota = 2
    Files = {f1, f2}
    MaxCommands = 4
    None = None
    Careful = TRUE
INVARIANT SnapshotSavesAll
CHECK_DEADLOCK FALSE
