CONSTANTS
    photo = photo
    u1 = u1
    u2 = u2
    NoId = NoId
    File <- OneFile
    Id <- TwoIds
    Sizes <- SomeSizes
    Buf = 2
    Flux = 4
    MaxAsk = 2
SPECIFICATION FairSpec
INVARIANTS
    TypeOK
    UploadIntact
    FinishedIsDelivered
    FluxBound
    ChannelTracksFiles
PROPERTY UploadEnds
CHECK_DEADLOCK FALSE
