SPECIFICATION FairSpec
CONSTANTS
    Asked <- MCAsked
    Limits <- MCLimits
    MAX_LOOP_ITERATIONS = 3
    Page = 3
    Modulus = 8
    Garbage <- MCGarbage
    MaxChunk = 3
    MaxFailing = 2
INVARIANTS
    NothingLeft
    WholeResult
PROPERTY ActionEnds
CHECK_DEADLOCK FALSE
