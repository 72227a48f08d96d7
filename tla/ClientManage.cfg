SPECIFICATION Spec
CONSTANTS
    order = order
    other = other
    broken = broken
    digest = digest
    change = change
    rival = rival
    NoKey = "none"
    Job = {digest, change, rival}
    Verbs <- MCVerbs
    KeyOf <- MCKeyOf
    MaxTries <- MCMaxTries
    After <- MCAfter
    Scheduling <- MCScheduling
    Unbuildable <- MCUnbuildable
    Refusals = {503}
    Bodies = {"model", "malformed"}
INVARIANTS
    CategoryTellsEffect
    ChangeIsMade
    RefusalTellsState
CHECK_DEADLOCK FALSE
