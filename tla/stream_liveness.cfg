SPECIFICATION FairSpec
CONSTANTS
    Byte <- MCByte
    Zero = 0
    Junk <- MCJunk
    N = 9
    Tapes <- FewTapes
    MinMatch = 2
    LastLiterals = 1
    MFLimit = 3
    Ring = 4
    MeasureCap = 3
    ChunkLens = {3, 6}
    Params <- Offsets
    DecCaps = {3, 6}
    MaxWire = 2
    MaxResets = 0
    BucketMax = 2
    Bucket1 = {0}
    Bucket2 = {0, 1, 2}
    Hash1 <- MCHash1
    Hash2 <- MCHash2
    PosMod = 64
    DistMax = 3
    AdaptWindow = 3
    AdaptUp = 2
    AdaptDown = 2
PROPERTIES CallsReturn Delivery
CHECK_DEADLOCK FALSE
