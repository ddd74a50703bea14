SPECIFICATION PanelSpec
CONSTANTS
    Names <- MCNames
    Ids <- MCIds
    Ups = {host, addr}
    ByAddress = {addr}
    Modes = {"may", "secure"}
    Rcpts = {"any"}
    MapFiles = {deny_ip, allow_from}
    Values = {v}
    Reqs = {r1, r2}
    None = None
    MaxRequests = 4
    MaxFaults = 1
    Domains = {da, db}
    MaxRows = 3
    Keys = {k1, k2}
    Keep = 1
    L1 = 1
    Multipliers <- MCMultipliers
    Totals = {0, 1}
    Hours = 1
    Jobs = {j1, j2}
    MaxAsked = 3
    MaxArrived = 3
    MaxFailures = 1
    Budgets <- MCBudgets
SYMMETRY MCSymmetry
CHECK_DEADLOCK FALSE
INVARIANTS MapsFollowRegistry AcceptedHasRoute FilterFollowsTable AddressesFollow ReportsStayWithTheirDomain SavedLimitStays
PROPERTIES FloodStaysAtHome
