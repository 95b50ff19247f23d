\* Two tenants and two accounts, two shells, two master keys: operators who keep to the runbook.
SPECIFICATION Spec
CONSTANTS
    Tenants = {t1, t2}
    Accounts = {a1, a2}
    MaxKey = 2
    Requests = {r1}
    Admins = {c1, c2}
    Quota = 2
    Files = {f1, f2}
    MaxCommands = 5
    None = None
    Careful = TRUE
SYMMETRY Symmetry
INVARIANTS
    TypeOK
    OwnRobot
    DeletedRobotsCutOff
    RowsUnderOneKey
    KeysKept
    RevokedStaysOut
    NoTenantLost
CHECK_DEADLOCK FALSE
