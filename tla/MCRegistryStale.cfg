CONSTANTS
    c1 = c1
    c2 = c2
    n1 = n1
    n2 = n2
    Conns <- TwoConns
    Numbers <- OneNumber
    Unregistered = Unregistered
    NoNumber = NoNumber
    NoSession = NoSession
    MayFallSilent <- TwoConns
SPECIFICATION SafeSpec
PROPERTY HeartbeatKeepsOnline
