SPECIFICATION InboundSpec
CONSTANTS
    Msgs <- MCMsgs
    Ids = {q1, q2}
    Rcpts = {a}
    VerdictOf <- MCVerdictOf
    Results = {"deferred", "sent"}
    MaxLive = 2
    Nil = Nil
    inboundQueueIDs = 2
    inboundCapRows = 1
    inboundCapEvery = 2
    Window = 3
    MaxKills = 1
CHECK_DEADLOCK FALSE
INVARIANTS  VerdictAwaited
