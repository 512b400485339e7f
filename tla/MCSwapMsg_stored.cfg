CONSTANTS
    alice = alice
    bob = bob
    plain = plain
    quote = quote
    Account <- TwoAccounts
    Clock <- OneTime
    Time <- OneTime
    Content <- OneText
    Quoted <- NoTexts
    MaxSession = 1
SPECIFICATION Spec
SYMMETRY AccountSymmetry
INVARIANT ConfirmedIsStored
CHECK_DEADLOCK FALSE
