SPECIFICATION Spec
CONSTANTS
    Byte <- MCByte
    Srcs <- LongSrcs
    MinMatch = 2
    LastLiterals = 1
    MFLimit = 4
    Params <- Adaptive
    DecCaps = {8, 12}
    BucketMax = 2
    Bucket1 = {0, 1, 2, 3}
    Bucket2 = {0, 1}
    Hash1 <- MCFour
    Hash2 <- MCHash2
    PosMod = 32
    DistMax = 5
    AdaptWindow = 3
    AdaptUp = 1
    AdaptDown = 2
INVARIANTS StaysLocked
CHECK_DEADLOCK FALSE
