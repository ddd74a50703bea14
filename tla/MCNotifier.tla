----------------------------- MODULE MCNotifier -----------------------------
(***************************************************************************)
(* Instances of Notifier for TLC.                                          *)
(***************************************************************************)
EXTENDS Notifier

CONSTANTS example, server, u1, u2
=============================================================================
