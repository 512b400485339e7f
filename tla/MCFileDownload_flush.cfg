CONSTANTS
    icon = icon
    photo = photo
    d1 = d1
    d2 = d2
    NoId = NoId
    File <- OneFile
    Id <- OneId
    Sizes <- AllSizes
    Buf = 2
    Flux = 4
SPECIFICATION Spec
INVARIANT SuccessIsComplete
CHECK_DEADLOCK FALSE
