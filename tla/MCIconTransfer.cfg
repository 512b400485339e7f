CONSTANTS
    bob = bob
    Friend <- OneFriend
    Me = me
    Nobody = Nobody
    Absent = Absent
    Transfer <- TwoTransfers
    Parts = 2
    MaxSession = 2
SPECIFICATION FairSpec
INVARIANTS
    TypeOK
    OverlapHeals
    ButtonShowsFile
    
PROPERTY MissingIsFetched
CHECK_DEADLOCK FALSE
