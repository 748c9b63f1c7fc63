CONSTANTS
    a = a
    b = b
    c = c
    h1 = h1
    h2 = h2
    Requests = {a, b}
    Hashes = {h1, h2}
    FileHash <- SameContent
    Chunked = {}
    Chunks = {}
    Modified = {b}
    MaxHashings = 1
    MaxUploads = 2
    MaxTokenCalls = 2
SPECIFICATION FairSpec
CHECK_DEADLOCK FALSE
PROPERTY UploadEnds
