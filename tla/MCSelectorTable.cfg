\* Two requests at a time beside the signer; a domain may have the server's name.
CONSTANTS
    p1 = p1
    p2 = p2
    Names = {d, srv}
    Server = srv
    d = d
    srv = srv
    Selectors = {s1, s2}
    s1 = s1
    s2 = s2
    Default = s1
    Reqs = {p1, p2}
    Boot = boot
    boot = boot
    None = None
    Kinds = {"add", "delete", "import", "reload", "server"}
    MaxDomains = 3
    MaxRequests = 2
    MaxFaults = 1
    MaxMsgs = 1
    MaxParts = 1
SPECIFICATION Spec
SYMMETRY Symmetry
INVARIANTS TableFollowsRegistry EveryNameHasItsKey
 
