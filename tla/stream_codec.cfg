SPECIFICATION Spec
CONSTANTS
    Byte <- MCByte
    Zero = 0
    Junk <- MCJunk
    N = 11
    Tapes <- FewTapes
    MinMatch = 2
    LastLiterals = 1
    MFLimit = 3
    Ring = 4
    MeasureCap = 3
    ChunkLens = {4, 7}
    Params <- AllParams
    DecCaps = {3, 7}
    MaxWire = 2
    MaxResets = 1
    BucketMax = 2
    Bucket1 = {0}
    Bucket2 = {0, 1, 2}
    Hash1 <- MCHash1
    Hash2 <- MCHash2
    PosMod = 64
    DistMax = 3
    AdaptWindow = 1
    AdaptUp = 0
    AdaptDown = 1
INVARIANTS TypeOK Lossless FailsOnlyForRoom OffsetsInHistory EndOfBlock WindowCurrent
PROPERTIES AbstractSpec
CHECK_DEADLOCK FALSE
