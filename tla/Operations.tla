----------------------------- MODULE Operations -----------------------------
(***************************************************************************)
(* The container: a start of the panel - after a restore or not - the      *)
(* requests of the running panel, supervisord's one-shot reload, Postfix   *)
(* behind its wait for the milter sockets and the certificate loop         *)
(* (cmd/panel/main.go, build/postfix-wrapper.sh, build/supervisord.conf).  *)
(***************************************************************************)
EXTENDS PostfixReload, Restore

CONSTANTS
    Starter,  \* the caller of RunOnce that is the panel's start
    Bounds    \* the pairs of bounds taken together

ASSUME OperationsConstants == Starter \in Callers /\ Bounds \subseteq Budgets \X Life

VARIABLE sockets  \* the milter sockets are there

vars == <<rvars, bvars, sockets>>

TypeOK == RTypeOK /\ BTypeOK /\ sockets \in BOOLEAN

Init == RInit /\ BInit /\ sockets = FALSE /\ <<left, drawn>> \in Bounds

(* The panel alone: a start's steps up to the resync and after it, backups *)
(* and the row of a change.                                                *)
PanelSteps ==
    /\ Start \/ Backups \/ LinkMade \/ RowChanged
    /\ UNCHANGED <<rvars, sockets>>

(* The operator unpacks with the container stopped. *)
OperatorSteps ==
    /\ ~ sockets /\ ~ master.up /\ prog = NewProg /\ Operator
    /\ UNCHANGED <<rvars, sockets>>

(* A change's files are written by a request, which asks for the reload. *)
RequestSaves ==
    /\ \E c \in Callers \ {Starter} : Save(c)
    /\ TreeFollows /\ UNCHANGED sockets

(* Resync on the first start after a restore is a caller as well. *)
StartSaves == ResyncWrites /\ Save(Starter) /\ UNCHANGED sockets

StartTold ==
    /\ call[Starter].at = "idle"
    /\ \/ call[Starter].told = "ok" /\ ResyncDone
       \/ call[Starter].told = "failed" /\ ResyncFails
    /\ UNCHANGED <<rvars, sockets>>

(* The roles listen: the milters' sockets are there from now on. *)
Listens ==
    /\ Running /\ ~ sockets /\ sockets' = TRUE
    /\ UNCHANGED <<rvars, bvars>>

(* postfix-wrapper.sh starts Postfix once every socket is there. *)
PostfixStarts == sockets /\ MasterStarts /\ UNCHANGED <<bvars, sockets>>

ReloadSteps ==
    /\ MasterStops \/ OneShot \/ Certificates \/ \E c \in Callers : Asks(c)
    /\ UNCHANGED <<bvars, sockets>>

(* A stop lets the requests end; the sockets go with the listeners. *)
PanelStops ==
    /\ Stops /\ \A c \in Callers : call[c].at = "idle"
    /\ sockets' = FALSE /\ UNCHANGED rvars

(* A kill leaves the sockets' files; entrypoint.sh removes them. *)
PanelDies == Killed /\ PanelKilled /\ UNCHANGED sockets

ContainerStops ==
    /\ Killed \/ (pc = "off" /\ unpack = None /\ UNCHANGED bvars)
    /\ ContainerRestarts /\ sockets' = FALSE

Next ==
    \/ PanelSteps \/ OperatorSteps \/ RequestSaves \/ StartSaves \/ StartTold
    \/ Listens \/ PostfixStarts \/ ReloadSteps \/ PanelStops \/ PanelDies
    \/ ContainerStops

Spec == Init /\ [][Next]_vars

-----------------------------------------------------------------------------
(* Mail does not flow on an archive that has not been healed: Postfix runs *)
(* only once the first start after the restore has rewritten the maps,     *)
(* whatever was killed or failed on the way (backup.go: "so any drift      *)
(* between the archive and the database is healed before mail flows").     *)
MailWaitsForHealing == master.up => ~ restoring
=============================================================================
