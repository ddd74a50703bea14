---------------------------- MODULE MCLogFollow ----------------------------
(***************************************************************************)
(* Instances of LogFollow for TLC.                                         *)
(***************************************************************************)
EXTENDS LogFollow, TLC

FirstRefused == {<<1, 2>>}

\* Offered on port 25 before a rotation, removed after it.
FromStranger == {<<1, 2>>, <<2, 1>>, <<2, 2>>}
Opening == {<<1, 2>>}
Removing == {<<2, 1>>}

=============================================================================
