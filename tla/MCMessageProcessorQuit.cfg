CONSTANTS
    call = call
    hangup = hangup
    garbled = garbled
    linking = linking
    incoming = incoming
    Incoming <- MCIncoming
    ValidIncoming <- MCValid
    Outgoing <- MCOutgoing
    MaxReceived = 1
    MaxPosted = 1
SPECIFICATION Spec

PROPERTY QuitEnds
