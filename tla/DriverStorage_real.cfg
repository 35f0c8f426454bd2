\* The literals of the code; payloads of one PDU, two, the eight of the largest
\* status, and the 32 that a payload can have.
CONSTANTS
    Threshold = 100
    Align = 100
    Reserve = 200
    FirstSeq = 800
    Repeats = 5
    MaxPerTurn = 32
    Payloads = {1, 2, 8, 32}
    ReadFaults = FALSE
    MaxEpoch = 1
    SeqLimit = 1650
SPECIFICATION Spec
INVARIANTS TypeOK CutsAreCovered InUseIsDurable
CHECK_DEADLOCK FALSE
