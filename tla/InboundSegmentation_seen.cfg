CONSTANTS
    Messages <- OneSender
    SeqZeroModulus = 8
    Capacity = 2
SPECIFICATION Spec
INVARIANT SeenWasSeen
