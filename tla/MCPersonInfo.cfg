CONSTANTS
    bob = bob
    carol = carol
    empty = empty
    mine = mine
    old = old
    NoFriend = NoFriend
    Friend <- TwoFriends
    Label <- OneLabel
    Rest <- SomeRest
    Empty = empty
    OutOfRange <- BadRest
    Entry <- Entries
    MaxFrames = 2
SPECIFICATION FairSpec
INVARIANTS
    TypeOK
    RemarksForFriend
    RemarksAgree
    
PROPERTY SaveReturns
CHECK_DEADLOCK FALSE
