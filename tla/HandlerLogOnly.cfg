SPECIFICATION Spec
CONSTANTS
    Delivery = {d1}
    MaxAttempts = 3
    MaxCrashes = 0
    Arrival <- MCArrival
    OnErrorStatus <- LogOnly
INVARIANT AcceptedWasHanded
CHECK_DEADLOCK FALSE
