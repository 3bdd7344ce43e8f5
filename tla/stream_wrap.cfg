SPECIFICATION Spec
CONSTANTS
    Byte <- MCByte
    Zero = 0
    Junk <- MCJunk
    N = 11
    Tapes <- SomeTapes
    MinMatch = 2
    LastLiterals = 1
    MFLimit = 3
    Ring = 4
    MeasureCap = 3
    ChunkLens = {4, 7}
    Params <- Offsets
    DecCaps = {7}
    MaxWire = 2
    MaxResets = 0
    BucketMax = 2
    Bucket1 = {0}
    Bucket2 = {0, 1, 2}
    Hash1 <- MCHash1
    Hash2 <- MCHash2
    PosMod = 8
    DistMax = 3
    AdaptWindow = 3
    AdaptUp = 2
    AdaptDown = 2
INVARIANTS Lossless
CHECK_DEADLOCK FALSE
