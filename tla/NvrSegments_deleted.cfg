SPECIFICATION Spec
CONSTANTS
    Segments = {s1}
    Volumes = {v1, v2}
    None = None
    MaxReaders = 1
    MaxCrashes = 0
    s1 = s1
    s2 = s2
    v1 = v1
    v2 = v2
PROPERTIES
    DeletedIsFinal
