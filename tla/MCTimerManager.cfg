CONSTANTS
    MaxTimers = 2
    MaxCalls = 3
SPECIFICATION Spec
INVARIANTS TypeOK WaitsAndRuns
PROPERTY AnswerTimerSpec
