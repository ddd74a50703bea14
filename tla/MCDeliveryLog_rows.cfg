\* Two recipients, a queue id given again, a kill and lost lines.
CONSTANTS
    q1 = q1
    r1 = r1
    r2 = r2
    NoID = NoID
    QueueID = {q1}
    Recipient = {r1, r2}
    ReuseIDs = TRUE
    TestMessages = FALSE
    MayFail = FALSE
    MayPrune = TRUE
    MayLose = TRUE
    MaxRows = 2
    MaxLog = 3
    MaxStops = 1
SPECIFICATION DeliverySpec
SYMMETRY Symmetry
INVARIANTS FinalLineShown
PROPERTIES NoOlderRowRewritten SweepGuessesLast
