---------------------------- MODULE MCOperations ----------------------------
(* Two archives of this version and one of another; the start and a request *)
(* as callers.  Each pair of bounds takes one part of the system far.      *)
EXTENDS Operations, TLC

Has(s, t, r, f) == [saves |-> s, stops |-> t, renewals |-> r, faults |-> f]
Lives(c, b, u, k, f) == [changes |-> c, backups |-> b, unpacks |-> u, kills |-> k, failures |-> f]

BoundsDef ==
    {<<Has(3, 1, 0, 1), Lives(3, 0, 0, 1, 0)>>, <<Has(0, 2, 4, 1), Lives(0, 0, 0, 0, 0)>>,
     <<Has(2, 1, 0, 0), Lives(1, 1, 2, 1, 2)>>, <<Has(1, 1, 0, 0), Lives(0, 2, 2, 1, 1)>>}
Alike == Permutations(Callers \ {Starter})
BudgetsDef == {b[1] : b \in BoundsDef}
LifeDef == {b[2] : b \in BoundsDef}
=============================================================================
