CONSTANTS
    photo = photo
    u1 = u1
    u2 = u2
    NoId = NoId
    File <- OneFile
    Id <- OneId
    Sizes <- WithEmpty
    Buf = 2
    Flux = 4
    MaxAsk = 1
SPECIFICATION FairSpec
PROPERTY UploadCompletes
CHECK_DEADLOCK FALSE
