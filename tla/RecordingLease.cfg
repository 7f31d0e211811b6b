SPECIFICATION Spec
CONSTANTS
    Nodes = {n1, n2}
    Recording = {}
    Cameras = {c1}
    None = None
    n1 = n1
    n2 = n2
    c1 = c1
    Skew <- ExactSkew
    Policy <- AllContinuous
    Cost <- UnitCost
    Limit <- UnitLimit
    LEASE_SECONDS = 0
    ISOLATION_GRACE_SECONDS = 1
    NODE_UNHEALTHY_SECONDS = 1
    MAX_CLOCK_SKEW_SECONDS = 0
    MaxTime = 3
    MaxGeneration = 2
    MaxFaults = 1
    MaxSegments = 0
SYMMETRY NodeSymmetry
INVARIANTS
    BelievedDeadlineCovered
    NoStaleStart
PROPERTIES
    RevokedNeverExtended
