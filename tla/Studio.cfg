SPECIFICATION AnySpec
CONSTANTS
    Scenes = {s1, s2}
    Definitions = {d1, d2}
    Audio = {a1}
    CAPACITY = 1
    MAX_REVISION = 4
    MaxCrashes = 1
    SceneIds = {x1, x2, x3}
    SourceIds = {a, b, n, c}
    Registry = {c}
    Documents <- SomeDocuments
    MaxSteps = 3
    MaxEdits = 2
    MaxOthers = 1
    MaxLoads = 1
    MaxActions = 1
    MaxFailures = 1
    None = None
    Conflict = Conflict
    s1 = s1
    s2 = s2
    d1 = d1
    d2 = d2
    a1 = a1
    x1 = x1
    x2 = x2
    x3 = x3
    a = a
    b = b
    n = n
    c = c
SYMMETRY Same
CHECK_DEADLOCK FALSE
INVARIANTS
    StudioInv
PROPERTIES
    DraftConsistent
    RevisionsIdentify
    SucceedsTogether
    OthersKept
    TimelineKept
    NobodysEditIsLost
