\* A message of nine segments.
CONSTANTS
    Lengths <- NineSegments
    InitialSeq <- AroundWraps
    Span = 60
SPECIFICATION Spec
INVARIANT EverySegmentParses
CHECK_DEADLOCK FALSE
