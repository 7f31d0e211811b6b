SPECIFICATION FairSpec
CONSTANTS
    e1 = e1
    e2 = e2
    r1 = r1
    worker = worker
    request = request
    Occurrences = {e1, e2}
    OccurredAt <- OneByOne
    Rules = {r1}
    Processors = {worker, request}
    Loop = worker
    MAX_EVENTS = 1
    MAX_OUTBOX = 1
    MAX_ATTEMPTS = 2
    BATCH = 2
    MaxIngests = 2
    MaxFaults = 1
    None = None
INVARIANTS
    OutboxInv
    SentWithinLimit
PROPERTIES
    DroppedOnlyWhenFull
    Settled
