SPECIFICATION Spec
CONSTANTS
    Segments = {s1, s2}
    Volumes = {v1, v2}
    None = None
    MaxReaders = 1
    MaxCrashes = 1
    s1 = s1
    s2 = s2
    v1 = v1
    v2 = v2
SYMMETRY SegmentSymmetry
INVARIANTS
    CatalogMatchesVolumes
PROPERTIES
    ProtectedMediaStays
    PinnedPathStays
