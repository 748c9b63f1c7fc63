CONSTANTS
    Classes <- AllClasses
    ErrorFields <- Codes
    MaxLacking = 2
    MaxElements = 2
SPECIFICATION Spec
INVARIANTS
    NoGarbage
    NothingLost
    FailureReported
