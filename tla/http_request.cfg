SPECIFICATION FairSpec
CONSTANTS
    Threads = 1
    StageTimeout = 1
    Timeouts <- MCTimeouts
    Setups <- MCSetups
    PipeSize = 2
    PipeThrows = TRUE
    MaxCancels = 1
    MaxLate = 1
INVARIANTS SentOnce NoFault NeverUnguarded NoLateAnswer
PROPERTIES KeepsPromise PolicyHeld
CHECK_DEADLOCK FALSE
