SPECIFICATION FairReceiverSpec
CONSTANTS
    Delivery = {d1, d2}
    Idle = Idle
    MaxAttempts = 2
    MaxCrashes = 1
    QueueCap = 2
    Arrival <- MCArrival
    OnErrorStatus <- Always400
INVARIANTS
    ReceiverTypeOK
    ProcessedOncePerRun
    AcceptedIsHeld
PROPERTIES
    AcceptedIsProcessed
CHECK_DEADLOCK FALSE
