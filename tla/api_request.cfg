CONSTANTS
    o1 = o1
    o2 = o2
    c1 = c1
    c2 = c2
    c3 = c3
    t1 = t1
    t2 = t2
    None = None
    Classes <- AllClasses
    Objects <- TwoObjects
    Calls <- ThreeCalls
    Object <- InTurn
    Tokens <- TwoTokens
    Threads = 2
    LateSetters = FALSE
    Overlap = FALSE
    MaxSet = 1
    MaxAttempts = 2
SPECIFICATION Spec
CHECK_DEADLOCK FALSE
INVARIANTS
    SentAsMeant
    OwnToken
PROPERTIES
    OwnAnswer
