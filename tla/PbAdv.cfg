\* A second link with cancelled receptions, on either interface; or a neighbour.
CONSTANTS
    Last = 3
    Conts <- FourConts
    Answered = {0, 2, 3}
    Setups <- SafetySetups
    FirstOut = 128
    Numbers = 256
SPECIFICATION Spec
INVARIANTS TypeOK InTurn AckedIsDelivered SecondLinkStuck
PROPERTIES WholeTransactions HeardUs
CHECK_DEADLOCK FALSE
