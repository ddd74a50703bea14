----------------------------- MODULE MCAccounts -----------------------------
(***************************************************************************)
(* Instances of Accounts for TLC.                                          *)
(***************************************************************************)
EXTENDS Accounts, TLC

CONSTANTS a1, a2, p1, p2

\* The requests are alike, and so are the addresses.
Symmetric == Permutations(Reqs) \cup Permutations(Addrs)
=============================================================================
