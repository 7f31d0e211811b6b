SPECIFICATION FairSpec
CONSTANTS
    Jobs = {j1}
    Direct = {}
    Worker = Worker
    None = None
    Segments = {s1}
    Locking = {j1}
    MAX_OUTSTANDING = 1
    EXPORT_SLOTS = 1
    MaxCrashes = 0
CHECK_DEADLOCK FALSE
PROPERTIES
    CancelEnds
