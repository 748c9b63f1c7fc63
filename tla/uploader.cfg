CONSTANTS
    a = a
    b = b
    c = c
    h1 = h1
    h2 = h2
    Requests = {a, b, c}
    Hashes = {h1, h2}
    FileHash <- SameContent
    Chunked = {h2}
    Chunks = {1, 2}
    Modified = {b}
    MaxHashings = 2
    MaxUploads = 2
    MaxTokenCalls = 1
SPECIFICATION Spec
INVARIANTS
    TypeOK
    ConcurrencyLimit
    NoSlotLeak
    NoLostTick
    NoHashLeak
    PolledWhole
CHECK_DEADLOCK FALSE
