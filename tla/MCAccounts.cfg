\* Two users, two addresses, two requests at once, three requests in all.
CONSTANTS
    a1 = a1
    a2 = a2
    p1 = p1
    p2 = p2
    Ids = {1, 2}
    Addrs = {a1, a2}
    NoAddr = NoAddr
    Reqs = {p1, p2}
    None = None
    MaxRequests = 3
    MaxFaults = 1
SYMMETRY Symmetric
SPECIFICATION Spec
INVARIANTS AGlobalAlways OldSessionsEnd ConfirmedMeansProven
PROPERTIES ResetProvesTheMailbox
CHECK_DEADLOCK FALSE
