CONSTANTS
    alice = alice
    bob = bob
    plain = plain
    quote = quote
    Account <- TwoAccounts
    Clock <- TwoTimes
    Time <- OneTime
    Content <- TwoTexts
    Quoted <- QuotedTexts
    MaxSession = 2
SPECIFICATION FairSpec
INVARIANTS
    TypeOK
    ReceivedWasSent
    ReceivedFeedBack
    ConfirmedWasHandled
    
PROPERTIES
    
    ImplementsDelivery
    Confirmation
CHECK_DEADLOCK FALSE
