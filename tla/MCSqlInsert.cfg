CONSTANTS
    Rows <- SmallRows
    Numbers <- Figures
    Other <- Letters
SPECIFICATION FairSpec
 
PROPERTIES
    SearchShrinks
    Terminates
CHECK_DEADLOCK FALSE
