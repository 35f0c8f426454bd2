\* One source more than the cache holds; the IV index does not sit on a wrap of its mask.
CONSTANTS
    Sources = {s1, s2, s3, s4}
    CacheSize = 3
    IvIndex = 7
    IvModulus = 4
    MaxSeq = 2
SPECIFICATION Spec
SYMMETRY Symmetry
INVARIANT ReplayInv
PROPERTY AcceptedAscend
