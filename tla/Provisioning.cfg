\* Two sessions and what they draw from the device.
CONSTANTS
    Provisioners = {p1, p2}
    Nobody = Nobody
    Setups <- AllSetups
    MaxDraws = 4
SPECIFICATION FairSpec
INVARIANTS TypeOK Agreement SuccessIsReal RevealOpensCommitment
PROPERTIES NotDisplaced ProvisioningCompletes
CHECK_DEADLOCK FALSE
