CONSTANTS
    alice = alice
    bob = bob
    uuid = uuid
    Numbers <- MCNumbers
    Calls <- MCCalls
    Caller <- MCCaller
    Callee <- MCCallee
    MaxLogouts = 1
SPECIFICATION Spec
INVARIANTS TypeOK TimersHaveCalls
PROPERTIES SettledOrExpired BothPartiesHear AnswerTimerSpec
CHECK_DEADLOCK FALSE
