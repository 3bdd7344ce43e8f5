SPECIFICATION Spec
CONSTANTS
    Header = 2
    ChunkHeader = 1
    MaxChunk = 3
    BlockBound <- MCBlockBound
    IntMod = 256
    SrcSizes = {0, 1, 3, 5}
    ChunkSizes <- MCChunkSizes
    Slack <- MCSlack
    DecSlack <- MCDecSlack
    Damages <- AllDamages
    Fields <- MCFields
INVARIANTS TypeOK Lossless DamageRejected RecordedSizeIsExact RoomToTheEnd
PROPERTY ContractSpec
CHECK_DEADLOCK FALSE
