SPECIFICATION FairSpec
CONSTANTS
    Byte <- MCByte
    Srcs <- SomeSrcs
    MinMatch = 2
    LastLiterals = 1
    MFLimit = 4
    Params <- Tunings
    DecCaps = {8, 12}
    BucketMax = 2
    Bucket1 = {0, 1}
    Bucket2 = {0, 1}
    Hash1 <- MCTwo
    Hash2 <- MCHash2
    PosMod = 32
    DistMax = 5
    AdaptWindow = 2
    AdaptUp = 1
    AdaptDown = 2
INVARIANTS TypeOK Lossless EndOfBlock SimdAgrees
PROPERTIES ContractSpec Terminates
CHECK_DEADLOCK FALSE
