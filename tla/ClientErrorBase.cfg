SPECIFICATION Spec
CONSTANTS
    order = order
    other = other
    broken = broken
    digest = digest
    change = change
    rival = rival
    NoKey = "none"
    Job = {order, broken}
    Verbs <- MCVerbs
    KeyOf <- MCKeyOf
    MaxTries <- MCMaxTries
    After <- MCAfter
    Scheduling <- MCScheduling
    Unbuildable <- MCUnbuildable
    Refusals = {422}
    Bodies = {"model"}
INVARIANT EveryErrorMatchesBase
CHECK_DEADLOCK FALSE
