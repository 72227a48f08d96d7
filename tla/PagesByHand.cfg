SPECIFICATION Spec
CONSTANTS
    Collection <- MCCollection
    PageSize = 2
    MaxRanges = 1
    ByHand = TRUE
INVARIANT OnlyMatching
CHECK_DEADLOCK FALSE
