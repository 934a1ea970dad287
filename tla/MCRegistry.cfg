CONSTANTS
    c1 = c1
    c2 = c2
    n1 = n1
    n2 = n2
    Conns <- TwoConns
    Numbers <- TwoNumbers
    Unregistered = Unregistered
    NoNumber = NoNumber
    NoSession = NoSession
    MayFallSilent <- TwoConns
SPECIFICATION Spec
INVARIANTS TypeOK Ownership Attended
PROPERTIES OnlyOwnEndLogsOut DirectorySpec SilentEnds StopClosesAll
