CONSTANTS
    PortCount = 8
    Range = 2
    MainPort = 3
    Default <- MCDefault
    Customs <- MCCustoms
    MaxEdits = 1
    MaxRuns = 3
SPECIFICATION Spec
INVARIANTS TypeOK FirstFreePort SameAfterRestart
PROPERTIES ListenEnds FileIsKept
CHECK_DEADLOCK FALSE
