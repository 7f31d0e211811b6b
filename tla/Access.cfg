SPECIFICATION AnySpec
CONSTANTS
    Scenes = {basic, extra, more}
    Base = basic
    Windows = {w1, w2}
    MAX_QUEUE = 3
    MAX_SYNC_BATCH = 2
    MaxEdits = 2
    MaxForeign = 1
    MaxFaults = 1
    None = None
    Enrollment = {enrolment}
    Client = {client}
    NoTarget = NoTarget
    MaxRequests = 2
    MaxOthers = 1
    Profile = {pro1, pro2}
    MaxProfiles = 2
    MaxOperations = 2
    MaxTrouble = 1
    Sources = {k1, k2}
    SceneOf <- WallOf
    MaxAdjustments = 3
    MaxSaves = 2
    Services <- TheServices
    Ported = {nvr}
    MaxProcesses = 5
    MaxVersion = 2
    MaxActs = 2
    basic = basic
    more = more
    extra = extra
    w1 = w1
    w2 = w2
    pro1 = pro1
    pro2 = pro2
    k1 = k1
    k2 = k2
    enrolment = enrolment
    client = client
    nvr = nvr
    backup = backup
CHECK_DEADLOCK FALSE
INVARIANTS
    EditsKept
    PagesAreHonest
    DataMatchesServices
PROPERTIES
    NoBlindUpload
    AccessSettles
