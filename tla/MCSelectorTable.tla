-------------------------- MODULE MCSelectorTable --------------------------
(***************************************************************************)
(* Instances of SelectorTable for TLC.                                     *)
(***************************************************************************)
EXTENDS SelectorTable, TLC

CONSTANTS p1, p2, d, srv, s1, s2, boot

Symmetry == Permutations(Reqs)
=============================================================================
