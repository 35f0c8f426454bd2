\* Transaction numbers wrap early and the timer never stops.
CONSTANTS
    Last = 3
    Conts <- FourConts
    Answered = {0, 2, 3}
    Setups <- PatientSetup
    FirstOut = 4
    Numbers = 6
SPECIFICATION FairSpec
PROPERTY ProvisioningCompletes
CHECK_DEADLOCK FALSE
