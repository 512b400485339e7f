CONSTANTS
    icon = icon
    photo = photo
    d1 = d1
    d2 = d2
    NoId = NoId
    File <- TwoFiles
    Id <- TwoIds
    Sizes <- SomeSizes
    Buf = 2
    Flux = 2
SPECIFICATION FairSpec
INVARIANTS
    TypeOK
    DownloadIntact
    SegmentBound
    ChannelTracksFiles
PROPERTY DownloadEnds
CHECK_DEADLOCK FALSE
