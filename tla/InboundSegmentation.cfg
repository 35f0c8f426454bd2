\* Three senders for a map of two places.
CONSTANTS
    Messages <- SeveralSenders
    SeqZeroModulus = 8
    Capacity = 2
SPECIFICATION Spec
INVARIANTS SegmentationInv OnlySingleSegmentAccess
PROPERTIES ImplementsReassembly LastSegmentFreezes
