\* Every row gets a final status.
CONSTANTS
    q1 = q1
    r1 = r1
    r2 = r2
    NoID = NoID
    QueueID = {q1}
    Recipient = {r1}
    ReuseIDs = FALSE
    TestMessages = TRUE
    MayFail = TRUE
    MayPrune = FALSE
    MayLose = TRUE
    MaxRows = 1
    MaxLog = 3
    MaxStops = 1
SPECIFICATION DeliveryFairSpec
PROPERTIES EveryRowEnds
