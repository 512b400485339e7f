CONSTANTS
    bob = bob
    carol = carol
    NoFriend = NoFriend
    Friend <- TwoFriends
    Time <- TwoTimes
    MaxSignal = 2
    MaxSession = 2
SPECIFICATION FairSpec
INVARIANTS
    TypeOK
    ShownOnce
    ReadIsShown
    ShownIsRead
PROPERTIES
    ReadStaysRead
    ArrivalIsShown
CHECK_DEADLOCK FALSE
