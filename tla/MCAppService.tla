---------------------------- MODULE MCAppService ----------------------------
(***************************************************************************)
(* Instances of AppService for TLC: two logins, and two forms of which the *)
(* second gives the application no limit of its own.                       *)
(***************************************************************************)
EXTENDS AppService, TLC

CONSTANTS r1, r2, l1, l2, f1, f2

Symmetry == Permutations(Reqs) \cup Permutations(Logins)
=============================================================================
