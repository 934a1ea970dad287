CONSTANTS
    alice = alice
    bob = bob
    uuid = uuid
    Numbers <- MCNumbers
    Calls <- MCCalls
    Caller <- MCCaller
    Callee <- MCCallee
    MaxLogouts = 0
SPECIFICATION SafeSpec
PROPERTY EndedStaysEnded
CHECK_DEADLOCK FALSE
