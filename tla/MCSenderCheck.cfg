\* Rewrites under the check; rows and lines through stops; warnings; refusals at MAIL.
CONSTANTS
    AnyLocal = AnyLocal
    NoExt = NoExt
    NotOne = NotOne
    NoLogin = NoLogin
    Missing = Missing
    Doubled = Doubled
    Tables <- MCTables
    Mails <- MCMails
    Msg = {m1, m2}
    Conn = {c1, c2}
    Pid = {p1}
    Refusal = {r1, r2}
    Texts = {t1, t2}
    Room = 1
    Budgets <- MCBudgets
SPECIFICATION Spec
INVARIANTS JudgedByTheTable RefusalHasItsRow TurnedAwayCountedOnce
SYMMETRY Alike
CHECK_DEADLOCK FALSE
