\* Two requests at a time, every kind, one failing call, one kill.
CONSTANTS
    r1 = r1
    r2 = r2
    l1 = l1
    l2 = l2
    f1 = f1
    f2 = f2
    None = None
    Reqs = {r1, r2}
    Logins = {l1, l2}
    Forms = {f1, f2}
    Unlimited = {f2}
    Kinds = {"create", "regen", "delete", "save", "delDomain", "reload"}
    MaxApps = 2
    MaxRequests = 3
    MaxFaults = 1
    MaxCrashes = 1
SPECIFICATION Spec
SYMMETRY Symmetry
INVARIANTS MapFollowsRegistry NoAccountChangeLost NoOrphanAccount FailedSaveUndone
