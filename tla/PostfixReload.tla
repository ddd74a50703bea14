--------------------------- MODULE PostfixReload ---------------------------
(***************************************************************************)
(* What makes Postfix read its files again.  A request of the panel saves  *)
(* tables and has supervisord run the one-shot program postfix-reload      *)
(* (internal/supervisor/rpc.go, build/postfix-reload.sh); the certificate  *)
(* loop copies a renewed pair and reloads Postfix by itself                *)
(* (build/postfix-cert-reload.sh); a master that starts reads everything   *)
(* as it is.  Files are told apart by the save, or the renewal, that wrote *)
(* them.                                                                   *)
(***************************************************************************)
EXTENDS Integers, FiniteSets

CONSTANTS
    Callers,  \* goroutines of the panel that may ask for a reload
    Budgets   \* bounds of a behaviour: tables saved, stops of the master or
              \* the container, files of a pair replaced, and faults - spawns,
              \* runs, copies and renames that fail, and loops killed

ASSUME ReloadConstants ==
    Budgets \subseteq [saves : Nat, stops : Nat, renewals : Nat, faults : Nat]

VARIABLES
    files,   \* the tables on disk
    master,  \* Postfix: up, the tables and the pair its last reload took
    prog,    \* supervisord's program postfix-reload
    call,    \* the callers of RunOnce
    tls,     \* the pair mounted, the copies of it, and the loop
    left,    \* what is left of the budget
    cut      \* history: the loop was cut short, or the start copied a pair
             \* that was being replaced, and no later copy was whole

tables == <<files, prog, call>>
certs  == <<tls, cut>>
rvars  == <<files, master, prog, call, tls, left, cut>>

Pairs == [cert : Nat, key : Nat]
NoPair == [cert |-> 0, key |-> 0]

MasterState == [up : BOOLEAN, loaded : Nat, pair : Pairs]
ProgState == [state : {"STOPPED", "RUNNING", "BACKOFF", "EXITED", "FATAL"},
              step : {"none", "checks", "reloads", "signalled"},
              status : {"none", "zero", "failed", "notRunning"}]
CallState == [at : {"idle", "asks", "waits", "own"}, need : Nat,
              told : {"nothing", "waiting", "ok", "failed", "gone"}]
LoopState == [mounted : Pairs, copy : Pairs, new : Pairs, served : BOOLEAN,
              pending : BOOLEAN,
              at : {"sleeps", "looks", "certCopied", "bothCopied",
                    "keyMoved", "certMoved", "points", "reloads"}]
Budget == [saves : Nat, stops : Nat, renewals : Nat, faults : Nat]

RTypeOK ==
    /\ files \in Nat /\ master \in MasterState /\ prog \in ProgState
    /\ call \in [Callers -> CallState] /\ tls \in LoopState
    /\ left \in Budget /\ cut \in BOOLEAN

NewProg == [state |-> "STOPPED", step |-> "none", status |-> "none"]
Idle == [at |-> "idle", need |-> 0, told |-> "nothing"]

(* build/postfix-config.sh, before supervisord starts: a pair that is      *)
(* there is copied and served from the copy.                               *)
StartCopy(m) ==
    LET there == m.cert > 0 /\ m.key > 0 IN
    [mounted |-> m, copy |-> IF there THEN m ELSE NoPair, new |-> NoPair,
     served |-> there, pending |-> FALSE, at |-> "sleeps"]

RInit ==
    /\ files = 0 /\ left \in Budgets /\ cut = FALSE
    /\ master = [up |-> FALSE, loaded |-> 0, pair |-> NoPair]
    /\ prog = NewProg /\ call = [c \in Callers |-> Idle]
    /\ \E g \in {0, 1} : \* none yet, but one is to come
          (g = 0 => left.renewals > 0) /\ tls = StartCopy([cert |-> g, key |-> g])

Spend(b) == left[b] > 0 /\ left' = [left EXCEPT ![b] = @ - 1]
Fault == Spend("faults")

-----------------------------------------------------------------------------
(* Postfix. *)

(* What the processes of a master read that starts or is sent SIGHUP now:  *)
(* the pair main.cf names, the mounted one until the copy is served.       *)
Reads == [up |-> TRUE, loaded |-> files,
          pair |-> IF tls.served THEN tls.copy ELSE tls.mounted]

(* build/postfix-wrapper.sh starts it; supervisord starts it again. *)
MasterStarts ==
    /\ ~ master.up /\ master' = Reads
    /\ UNCHANGED <<tables, certs, left>>

MasterStops ==
    /\ master.up /\ Spend("stops")
    /\ master' = [master EXCEPT !.up = FALSE]
    /\ UNCHANGED <<tables, certs>>

(* "postfix reload" sends a running master SIGHUP, and fails without one. *)
Hup == IF master.up THEN master' = Reads ELSE UNCHANGED master

-----------------------------------------------------------------------------
(* The one-shot program. *)

Ended(s) == [state |-> "EXITED", step |-> "none", status |-> s]

Under == prog.state \in {"RUNNING", "BACKOFF"}

(* "master -t": exit 75 while no master runs. *)
ProgChecks ==
    /\ prog.step = "checks"
    /\ prog' = IF master.up THEN [prog EXCEPT !.step = "reloads"]
               ELSE Ended("notRunning")
    /\ UNCHANGED <<files, master, call, certs, left>>

ProgReloads ==
    /\ prog.step = "reloads" /\ Hup
    /\ prog' = IF master.up THEN [prog EXCEPT !.step = "signalled"]
               ELSE Ended("failed")
    /\ UNCHANGED <<files, call, certs, left>>

ProgEnds ==
    /\ prog.step = "signalled" /\ prog' = Ended("zero")
    /\ UNCHANGED <<files, master, call, certs, left>>

(* postsuper or main.cf fails it before SIGHUP, or it is killed after. *)
ProgFails ==
    /\ prog.step \in {"reloads", "signalled"} /\ Fault
    /\ prog' = Ended("failed")
    /\ UNCHANGED <<files, master, call, certs>>

(* supervisord tries a failed spawn once more, then gives up. *)
SpawnRetried ==
    /\ prog.state = "BACKOFF"
    /\ prog' \in {[state |-> "RUNNING", step |-> "checks", status |-> prog.status],
                  [prog EXCEPT !.state = "FATAL"]}
    /\ UNCHANGED <<files, master, call, certs, left>>

-----------------------------------------------------------------------------
(* RunOnce. *)

At(c, p) == call' = [call EXCEPT ![c].at = p]
Told(c, r) == call' = [call EXCEPT ![c].at = "idle", ![c].told = r]

(* A request changes the registry, writes the tables from it and asks for *)
(* the reload; what it writes is in AppService and InboundRelay.           *)
Save(c) ==
    /\ call[c].at = "idle" /\ Spend("saves")
    /\ files' = files + 1
    /\ call' = [call EXCEPT ![c] = [at |-> "asks", need |-> files', told |-> "waiting"]]
    /\ UNCHANGED <<master, prog, certs>>

(* startProcess of a program that is not under way starts it. *)
Starts(c) ==
    /\ call[c].at = "asks" /\ ~ Under
    /\ prog' = [prog EXCEPT !.state = "RUNNING", !.step = "checks"]
    /\ At(c, "own")
    /\ UNCHANGED <<files, master, certs, left>>

StartFails(c) ==
    /\ call[c].at = "asks" /\ ~ Under /\ Fault
    /\ prog' = [prog EXCEPT !.state = "BACKOFF"]
    /\ Told(c, "failed")
    /\ UNCHANGED <<files, master, certs>>

\* Mutant: a run under way serves this save as well.
TakesTheRun(c) ==
    /\ call[c].at = "asks" /\ Under
    /\ At(c, "own")
    /\ UNCHANGED <<files, master, prog, certs, left>>

(* ALREADY_STARTED: that run may have read the files before this save. *)
Refused(c) ==
    /\ call[c].at = "asks" /\ Under
    /\ At(c, "waits")
    /\ UNCHANGED <<files, master, prog, certs, left>>

(* waitEnd has seen a state other than STARTING, RUNNING and STOPPING. *)
SeenEnded(c) ==
    /\ call[c].at \in {"waits", "own"} /\ prog.state # "RUNNING"
    /\ \/ call[c].at = "waits" /\ prog.state # "BACKOFF" /\ At(c, "asks")
       \/ call[c].at = "waits" /\ prog.state = "BACKOFF" /\ Told(c, "failed")
       \/ /\ call[c].at = "own"
          /\ Told(c, IF prog.state = "EXITED" /\ prog.status \in {"zero", "notRunning"}
                     THEN "ok" ELSE "failed")
    /\ UNCHANGED <<files, master, prog, certs, left>>

(* The deadline passes, or supervisord does not answer. *)
GivesUp(c) ==
    /\ call[c].at # "idle" /\ Told(c, "failed")
    /\ UNCHANGED <<files, master, prog, certs, left>>

-----------------------------------------------------------------------------
(* The certificate loop. *)

Loop(t) == tls' = t /\ UNCHANGED <<tables, left>>
Step(p) == Loop([tls EXCEPT !.at = p])

(* The proxy replaces one file of the mounted pair, then the other. *)
Renewed ==
    /\ Spend("renewals")
    /\ tls' = IF tls.mounted.cert = tls.mounted.key
              THEN [tls EXCEPT !.mounted.cert = @ + 1]
              ELSE [tls EXCEPT !.mounted.key = @ + 1]
    /\ UNCHANGED <<tables, master, cut>>

(* It wakes; a reload that failed before is tried first. *)
Wakes ==
    /\ tls.at = "sleeps"
    /\ IF tls.pending
       THEN Hup /\ Loop([tls EXCEPT !.at = "looks", !.pending = ~ master.up])
       ELSE Step("looks") /\ UNCHANGED master
    /\ cut' = (cut /\ ~ (tls.pending /\ master.up /\ tls.copy.cert = tls.copy.key))

Readable == tls.mounted.cert > 0 /\ tls.mounted.key > 0

(* refresh and adopt: nothing to do, or the certificate is copied. *)
Looks ==
    /\ tls.at = "looks"
    /\ \/ /\ ~ Readable \/ (tls.served /\ tls.mounted = tls.copy)
          /\ Step("sleeps")
       \/ /\ Readable /\ ~ (tls.served /\ tls.mounted = tls.copy)
          /\ Loop([tls EXCEPT !.at = "certCopied",
                              !.new = [cert |-> tls.mounted.cert, key |-> 0]])
    /\ UNCHANGED <<master, cut>>

CopiesKey ==
    /\ tls.at = "certCopied"
    /\ Loop([tls EXCEPT !.at = "bothCopied", !.new.key = tls.mounted.key])
    /\ UNCHANGED <<master, cut>>

(* same_pair, of the copies. *)
BelongTogether == tls.new.cert = tls.new.key

MovesKey ==
    /\ tls.at = "bothCopied"
    /\ IF BelongTogether
       THEN Loop([tls EXCEPT !.at = "keyMoved", !.copy.key = tls.new.key])
       ELSE Loop([tls EXCEPT !.at = "sleeps", !.new = NoPair])
    /\ UNCHANGED <<master, cut>>

MovesCert ==
    /\ tls.at = "keyMoved"
    /\ Loop([tls EXCEPT !.at = IF tls.served THEN "certMoved" ELSE "points",
                        !.copy.cert = tls.new.cert, !.new = NoPair])
    /\ UNCHANGED <<master, cut>>

(* adopt: main.cf is pointed at the first copy. *)
PointsAtCopy ==
    /\ tls.at = "points"
    /\ Loop([tls EXCEPT !.at = "certMoved", !.served = TRUE])
    /\ UNCHANGED <<master, cut>>

SetsPending ==
    /\ tls.at = "certMoved"
    /\ Loop([tls EXCEPT !.at = "reloads", !.pending = TRUE])
    /\ UNCHANGED <<master, cut>>

\* Mutant: PENDING is cleared whether the reload worked or not.
Cleared(worked) == FALSE

(* PENDING is cleared by a reload that worked, and by no other. *)
Pending(worked) == ~ worked

(* reload: it fails without a master, or on files Postfix cannot read. *)
LoopReloads ==
    /\ tls.at = "reloads"
    /\ \E worked \in BOOLEAN :
          /\ IF worked THEN master.up /\ Hup /\ UNCHANGED left
             ELSE UNCHANGED master /\ (IF master.up THEN Fault ELSE UNCHANGED left)
          /\ tls' = [tls EXCEPT !.at = "sleeps", !.pending = Pending(worked)]
          /\ cut' = (cut /\ ~ worked)
    /\ UNCHANGED tables

(* A copy or a rename fails, or postconf does; the loop looks again later. *)
LoopFails ==
    /\ tls.at \in {"certCopied", "bothCopied", "keyMoved", "points"} /\ Fault
    /\ tls' = [tls EXCEPT !.at = "sleeps", !.new = NoPair]
    /\ cut' = (cut \/ tls.at = "keyMoved")
    /\ UNCHANGED <<tables, master>>

(* It is killed, and supervisord starts it again: PENDING is 0. *)
LoopKilled ==
    /\ Fault
    /\ tls' = [tls EXCEPT !.at = "sleeps", !.new = NoPair, !.pending = FALSE]
    /\ cut' = (cut \/ tls.pending \/ tls.at \in {"keyMoved", "certMoved", "points", "reloads"})
    /\ UNCHANGED <<tables, master>>

Certificates ==
    \/ Renewed \/ Wakes \/ Looks \/ CopiesKey \/ MovesKey
    \/ MovesCert \/ PointsAtCopy \/ SetsPending \/ LoopReloads \/ LoopFails
    \/ LoopKilled

OneShot == ProgChecks \/ ProgReloads \/ ProgEnds \/ ProgFails \/ SpawnRetried

Asks(c) ==
    Starts(c) \/ StartFails(c) \/ Refused(c) \/ SeenEnded(c) \/ GivesUp(c)

(* The panel is killed with its requests; supervisord's program goes on. *)
CallersGone ==
    call' = [c \in Callers |->
               IF call[c].at = "idle" THEN call[c]
               ELSE [call[c] EXCEPT !.at = "idle", !.told = "gone"]]

PanelKilled == CallersGone /\ UNCHANGED <<files, master, prog, certs, left>>

(* The container stops, and starts on a copy of the pair as it is. *)
ContainerRestarts ==
    /\ CallersGone /\ Spend("stops")
    /\ master' = [master EXCEPT !.up = FALSE] /\ prog' = NewProg
    /\ tls' = StartCopy(tls.mounted)
    /\ cut' = (tls.mounted.cert # tls.mounted.key)
    /\ UNCHANGED files

-----------------------------------------------------------------------------
(* Whoever is told that the reload went well - its own run, one begun     *)
(* after it by somebody else, or no master to reload - is never served     *)
(* tables older than its own by a running Postfix (rpc.go, RunOnce: "A run *)
(* already in progress started before the caller's change was written").   *)
Promise == INSTANCE ReloadPromise WITH
    written <- files,
    served  <- IF master.up THEN master.loaded ELSE files,
    need    <- [c \in Callers |-> call[c].need],
    told    <- [c \in Callers |-> call[c].told]

PromiseKept == Promise!Spec

(* A renewal is not forgotten: while the loop sleeps, what Postfix runs on *)
(* is the copy, or the loop knows that it still has to reload - whatever   *)
(* the master did in between, and however often the reload failed.  Cut    *)
(* short between the first rename and the end of the reload, the loop      *)
(* forgets.                                                                *)
RenewalNotForgotten ==
    (tls.at = "sleeps" /\ ~ cut /\ master.up)
        => (tls.pending \/ ~ tls.served \/ master.pair = tls.copy)

(* A master that started or was reloaded with the loop at rest has a       *)
(* certificate and the key that belongs to it, however the proxy replaces  *)
(* the mounted files meanwhile (postfix-cert-reload.sh: "checks that the   *)
(* copies - not the mounted files, which a renewer may be rewriting").     *)
CopyIsAPair ==
    (tls.at \notin {"keyMoved"} /\ ~ cut /\ tls.served) => tls.copy.cert = tls.copy.key
=============================================================================
