SPECIFICATION Spec
CONSTANTS
    order = order
    other = other
    broken = broken
    digest = digest
    change = change
    rival = rival
    NoKey = "none"
    Job = {order, other, broken}
    Verbs <- MCVerbs
    KeyOf <- MCKeyOf
    MaxTries <- MCMaxTries
    After <- MCAfter
    Scheduling <- MCScheduling
    Unbuildable <- MCUnbuildable
    Refusals = {422, 503}
    Bodies = {"model", "malformed"}
INVARIANTS
    TypeOK
    SendOncePerKey
    SuccessIsOwnEmail
    KeyHasOneAnswer
    ReplayedIsTrue
    CategoryTellsEffect
CHECK_DEADLOCK FALSE
