CONSTANTS
    alice = alice
    bob = bob
    carol = carol
    dave = dave
    Numbers <- MCNumbers
    Strangers <- MCStrangers
    Lists <- MCLists
    Uuids <- MCUuids
    From <- MCFrom
    Lengths <- MCLengths
    Room <- MCRoom
    MaxLogouts = 1
SPECIFICATION Spec
INVARIANTS TypeOK AnswersAreTrue ArriveInOrder
PROPERTY SenderHears
CHECK_DEADLOCK FALSE
