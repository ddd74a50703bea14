\* One domain, the certificate and the queue, two users; one message an hour.
CONSTANTS
    example = example
    server = server
    u1 = u1
    u2 = u2
    Domains = {example}
    Server = server
    Users = {u1, u2}
    Globals = {u1}
    Watched = {"dns", "cert", "queue", "limit"}
    DNSApart = 1
    LimitRepeat = 2
    HourlyCeiling = 2
    MaxChanges = 2
    MaxFailures = 1
    Keep = Keep
    NoRow = NoRow
SPECIFICATION FairSpec
PROPERTIES ToldOnce EveryoneIsTold
