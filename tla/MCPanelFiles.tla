---------------------------- MODULE MCPanelFiles ----------------------------
(* Two inbound domains that may share an upstream, two sending domains, two *)
(* requests and two jobs at once; each budget takes one part far.          *)
EXTENDS PanelFiles, TLC

MCNames == {1, 2}
MCIds == 1..3
MCMultipliers == {15}
Addresses == {"address", "add", "delete", "import"}
LimitOps == {"limit", "button", "recalcAll", "delete"}
Has(m, j, a, r, f) == [made |-> m, jobs |-> j, asked |-> a, arrived |-> r, failures |-> f]
MCBudgets ==
    {Has(4, {}, 0, 0, 0), Has(3, {}, 0, 0, 1), Has(1, {"address"}, 1, 0, 1),
     Has(0, Addresses, 3, 0, 0), Has(0, Addresses, 2, 0, 1), Has(0, LimitOps, 4, 0, 1),
     Has(0, {"import", "delete"}, 2, 3, 0), Has(0, {"import"}, 1, 3, 1)}
MCSymmetry == Permutations(Reqs) \cup Permutations(Jobs) \cup Permutations(Domains)
=============================================================================
