--------------------------- MODULE ReloadPromise ---------------------------
(***************************************************************************)
(* What a request that saves a file of Postfix's and asks for a reload is  *)
(* promised (internal/supervisor/rpc.go, RunOnce): told that it went well, *)
(* Postfix no longer runs on a file older than the one it saved.  Nothing  *)
(* is said here of how a reload is run, of whether one run serves several  *)
(* requests, or of what happens to the others.                             *)
(***************************************************************************)
EXTENDS Integers

CONSTANTS Callers

VARIABLES
    written,  \* how many times the files have been saved
    served,   \* the save whose files Postfix runs on
    need,     \* the save each caller made last
    told      \* what it was answered

vars == <<written, served, need, told>>

Answers == {"nothing", "waiting", "ok", "failed", "gone"}

Init ==
    /\ written = 0 /\ served = 0
    /\ need = [c \in Callers |-> 0]
    /\ told = [c \in Callers |-> "nothing"]

(* Postfix moves on to newer files at any moment, never back. *)
Forward == served' \in served .. written'

Save(c) ==
    /\ told[c] # "waiting"
    /\ written' = written + 1
    /\ need' = [need EXCEPT ![c] = written']
    /\ told' = [told EXCEPT ![c] = "waiting"]
    /\ Forward

Reload == UNCHANGED <<written, need, told>> /\ Forward

Answer(c) ==
    /\ told[c] = "waiting"
    /\ \/ /\ told' = [told EXCEPT ![c] = "ok"]
          /\ served' >= need[c]
       \/ told' = [told EXCEPT ![c] = "failed"]
    /\ UNCHANGED <<written, need>> /\ Forward

(* The panel is killed: nobody waits any more. *)
PanelGone ==
    /\ told' = [c \in Callers |-> IF told[c] = "waiting" THEN "gone" ELSE told[c]]
    /\ UNCHANGED <<written, need>> /\ Forward

Next == Reload \/ PanelGone \/ \E c \in Callers : Save(c) \/ Answer(c)

Spec == Init /\ [][Next]_vars

(* Whoever was told "ok" is served by Postfix with files no older than the *)
(* ones it saved.                                                          *)
OkMeansServed == \A c \in Callers : told[c] = "ok" => served >= need[c]
=============================================================================
