\* Two processes, one directory, three days of which the log keeps two.
SPECIFICATION Spec
CONSTANTS
    Processes = {p1, p2}
    Dirs = {a}
    None = None
    Retention = 2
    LastDay = 3
    MaxEntries = 3
INVARIANTS
    TypeOK
    ChainValid
    ValidMeansGenuine
PROPERTIES
    RecentEntriesStay
    OldFilesGo
CHECK_DEADLOCK FALSE
