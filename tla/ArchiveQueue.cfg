SPECIFICATION AnySpec
CONSTANTS
    w1 = w1
    w2 = w2
    Segments = {1, 2, 3}
    Digest <- Contents
    Workers = {w1, w2}
    MAX_QUEUE = 2
    MaxFaults = 1
    None = None
INVARIANTS
    ArchiveInv
PROPERTIES
    UploadedInTheEnd
