SPECIFICATION Spec
SYMMETRY Alike
CONSTANTS
    Callers = {start, c1, c2}
    Starter = start
    Archives = {a1, a2, old}
    Foreign = {old}
    Live = live
    Part = part
    None = none
    Bounds <- BoundsDef
    Budgets <- BudgetsDef
    Life <- LifeDef
INVARIANTS RenewalNotForgotten WholeAndOnlyWholeOpens
PROPERTIES PromiseKept 
