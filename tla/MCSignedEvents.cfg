SPECIFICATION Spec
CONSTANTS
    d1 = d1
    d2 = d2
    Delivery = {d1, d2}
    BodiesOf <- MCBodiesOf
    Stamp <- MCStamp
    Secrets = {"ours", "rotated"}
    Secret = "ours"
    Tolerances <- MCTolerances
    defaultTolerance = 1
    MaxDuration = 4
    MaxSends = 2
    MaxEvents = 2
    MaxClock = 1
    Missing = Missing
    Malformed = Malformed
INVARIANTS
    EventsTypeOK
    EventIsWhatWasSigned
    VerdictIsRight
    DataShowsBody
    ForwardInventsNothing
CHECK_DEADLOCK FALSE
