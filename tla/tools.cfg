SPECIFICATION Spec
CONSTANTS
    MaxCalls = 2
    MaxChanges = 2
    UnitFactor = 3
    Absent = Absent
    ModelRows <- MCModelRows
    MaxModel = 4
    MaxFound = 2
    MaxScan = 3
    MaxPage = 2
    Sought = "W"
    NoCategory = "none"
    MaxBytes = 6
    NoCap = NoCap
    DiffRows <- MCDiffRows
    FieldKeys = {"c", "w"}
    CategoryKey = "c"
    InternalKeys = {}
    MaxRows = 2
    MaxWait = 2
    NoValue = NoValue
    MaxVersion = 2
    ClashTables <- MCClashTables
    InstanceTables <- MCInstanceTables
    Documents = {"x", "y"}
    DocumentTables <- MCDocumentTables
    MaxResults = 2
    Nothing = Nothing
    MaxTasks = 3
    Limit = 2
    Answers = {0, 1, 2}
    None = None
    BatchSize = 2
    MaxElements = 3
    ProbeLimit = 2
    OldRows = {o1, o2}
    NewRows = {n1}
    MaxStarts = 3
    NoTable = NoTable
INVARIANTS
    TypeOK
    SentAsApproved
    SentIsSound
    ScanExact
    DownloadExact
    DiffHonest
    ClashExact
    AecdmExact
    MigrationKeepsRows
PROPERTIES
    DiffEnds
CHECK_DEADLOCK FALSE
