SPECIFICATION AnySpec
CONSTANTS
    Jobs = {j1, j2}
    Direct = {d1}
    Worker = Worker
    None = None
    Segments = {s1}
    Locking = {j1, d1}
    MAX_OUTSTANDING = 1
    EXPORT_SLOTS = 1
    MaxCrashes = 1
    Request = {r1, r2}
    Camera = {c1}
    Cursor = {1, 2}
    Covers <- CoversOf
    Lease <- LeaseIds
    Life = 2
    MaxFaults = 1
    MaxLeaves = 1
    MaxMoves = 2
    j1 = j1
    j2 = j2
    d1 = d1
    s1 = s1
    r1 = r1
    r2 = r2
    c1 = c1
    c2 = c2
CHECK_DEADLOCK FALSE
INVARIANTS
    ExportInv
PROPERTIES
    NeverCompletedLate
    PublishedFromLiveSources
    QueuedServed
    SubmissionKept
    WatchingIsSafe
    SeenInTheEnd
