SPECIFICATION Spec
CONSTANTS
    Bodies <- MCBodies
    ReadSize = 2
INVARIANTS OnlyServerData CompleteIsWhole WholeIsAccepted
PROPERTY Ends
CHECK_DEADLOCK FALSE
