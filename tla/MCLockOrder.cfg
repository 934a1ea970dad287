SPECIFICATION SafeSpec
INVARIANTS TypeOK InOrder NoDeadlock
