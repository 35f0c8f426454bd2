\* Another device is being provisioned in range.
CONSTANTS
    Last = 3
    Conts <- FourConts
    Answered = {0, 2, 3}
    Setups <- NeighbourSetup
    FirstOut = 128
    Numbers = 256
SPECIFICATION Spec
PROPERTY TheyHeardUs
CHECK_DEADLOCK FALSE
