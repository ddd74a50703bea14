\* Two connections, an address list, unknown clients, store errors and a limit edited while messages are under way.
CONSTANTS
    s1 = s1
    s2 = s2
    a1 = a1
    a2 = a2
    u = u
    dom = dom
    ip1 = ip1
    ip2 = ip2
    r1 = r1
    r2 = r2
    Session = {s1, s2}
    Login = {a2}
    NoLogin = NoLogin
    Domain = {dom}
    NoDomain = NoDomain
    DomainOf <- MCDomainOf
    IP = {ip1, ip2}
    NoIP = NoIP
    AllowedFrom <- MCAllowedFrom
    Rcpt = {r1}
    NoRcpt = NoRcpt
    Ceilings = {1}
    Window = 1
    TTL = 0
    Edited = {a2}
    StoreMayFail = TRUE
    MaxMsgs = 2
    MaxTime = 1
SPECIFICATION Spec
INVARIANTS ClientListHolds NoOrphanReservation
PROPERTIES AdmittedWithinCeiling 
SYMMETRY Symmetry
