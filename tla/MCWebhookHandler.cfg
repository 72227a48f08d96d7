SPECIFICATION FairSpec
CONSTANTS
    Delivery = {d1}
    MaxAttempts = 3
    MaxCrashes = 1
    Arrival <- MCArrival
    OnErrorStatus <- NoOnError
INVARIANTS
    TypeOK
    AcceptedWasHanded
    AnswerIsDocumented
PROPERTIES
    DeliveriesSettle
    ContractSpec
CHECK_DEADLOCK FALSE
