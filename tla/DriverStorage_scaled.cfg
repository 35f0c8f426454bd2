\* Scaled down by twenty, payloads of up to four segments, read faults, two epochs.
CONSTANTS
    Threshold = 5
    Align = 5
    Reserve = 10
    FirstSeq = 20
    Repeats = 2
    MaxPerTurn = 4
    Payloads = {1, 2, 3, 4}
    ReadFaults = TRUE
    MaxEpoch = 2
    SeqLimit = 52
SPECIFICATION Spec
INVARIANTS IndInv ReuseBounded RetryOverlapBounded StorageMirrorsStack
PROPERTY PageMonotone
CHECK_DEADLOCK FALSE
