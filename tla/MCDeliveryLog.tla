--------------------------- MODULE MCDeliveryLog ---------------------------
(***************************************************************************)
(* Instances of DeliveryLog for TLC.                                       *)
(***************************************************************************)
EXTENDS DeliveryLog, TLC

CONSTANTS q1, r1, r2

Symmetry == Permutations(Recipient)

=============================================================================
