CONSTANTS
    alice = alice
    bob = bob
    uuid = uuid
    Numbers <- MCNumbers
    Calls <- MCCalls
    Caller <- MCCaller
    Callee <- MCCallee
    MaxLogouts = 1
SPECIFICATION Spec
PROPERTY CallerHears
CHECK_DEADLOCK FALSE
