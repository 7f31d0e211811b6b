SPECIFICATION AnySpec
CONSTANTS
    Attempts = {a, b, c}
    Absent = Absent
    TileFaults = 2
    TileActs = 2
    ChannelPeers = 7
    ChannelFaults = 6
    MixerActs = 4
    ScenesOf <- TwoScenes
    TracksOf <- TheTracks
    Plain = {"net"}
    TrackActs = 3
    TrackFaults = 1
    Sockets = {s1, s2}
    Operational = Operational
    Revisions = 2
    Operationals = 1
    SocketFailures = 2
    QueueLimit = 2
    LayoutActs = 2
    Items <- ThreeItems
    WallActs = 1
    WallSignals = 1
    x = x
    y = y
    z = z
CHECK_DEADLOCK FALSE
INVARIANTS
    NothingLeftBehind
PROPERTIES
    ScreenIsTrue
    RecoversInTheEnd
