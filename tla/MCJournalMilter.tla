-------------------------- MODULE MCJournalMilter --------------------------
(***************************************************************************)
(* Instances of JournalMilter for TLC.  One domain has two applications    *)
(* and one login is no application's; one application has an address list. *)
(***************************************************************************)
EXTENDS JournalMilter, TLC

CONSTANTS s1, s2, a1, a2, u, dom, ip1, ip2, r1, r2

MCDomainOf == [l \in Login |-> IF l = u THEN NoDomain ELSE dom]
MCAllowedFrom == [l \in Login |-> IF l = a2 THEN {ip1} \cap IP ELSE {}]
NoList == [l \in Login |-> {}]

Symmetry == Permutations(Session)

=============================================================================
