SPECIFICATION FairSpec
CONSTANTS
    Collection <- MCCollection
    PageSize = 2
    MaxRanges = 2
    ByHand = FALSE
INVARIANTS
    TypeOK
    DoneIsComplete
    OnlyMatching
    NoDuplicates
    SkipsAreBounded
PROPERTY
    WalksEnd
CHECK_DEADLOCK FALSE
