CONSTANTS
    call = call
    hangup = hangup
    garbled = garbled
    linking = linking
    incoming = incoming
    Incoming <- MCIncoming
    ValidIncoming <- MCValid
    Outgoing <- MCOutgoing
    MaxReceived = 3
    MaxPosted = 3
SPECIFICATION Spec
INVARIANTS TypeOK NothingLost SleepsOnlyWhenIdle
PROPERTY FlowSpec
