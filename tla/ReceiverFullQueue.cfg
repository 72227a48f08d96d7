SPECIFICATION ReceiverSpec
CONSTANTS
    Delivery = {d1, d2}
    Idle = Idle
    MaxAttempts = 2
    MaxCrashes = 0
    QueueCap = 1
    Arrival <- MCArrival
    OnErrorStatus <- Always400
INVARIANT AcceptedIsHeld
CHECK_DEADLOCK FALSE
