-------------------------- MODULE OperationsProofs --------------------------
(***************************************************************************)
(* Proofs about Operations: the reload of Postfix, the certificate loop,   *)
(* the backups and the start after a restore; and about InboundJournal:    *)
(* the rows of the mail offered on port 25.  For any callers, archives,    *)
(* messages and recipients and any bounds.                                 *)
(***************************************************************************)
EXTENDS Operations, InboundJournal, FiniteSetTheorems, SequenceTheorems, TLAPS

(* What holds of the reload in every state.  *)

\* What a running Postfix, or the next one to start, has read.
Served == IF master.up THEN master.loaded ELSE files

\* A caller waits exactly while its request is under way, and nobody has
\* saved or read a table that is not written yet.
CallersInStep ==
    /\ master.loaded <= files
    /\ \A c \in Callers :
          /\ call[c].at = "idle" <=> call[c].told # "waiting"
          /\ call[c].need <= files

\* The one-shot program is at a step of its own exactly while it runs.
ProgInStep == prog.step # "none" <=> prog.state = "RUNNING"

\* A run a caller has started itself has, once it has sent SIGHUP or found no
\* master, served the save of that caller.
Worked == \/ prog.step = "signalled"
          \/ prog.state = "EXITED" /\ prog.status \in {"zero", "notRunning"}

OwnRunServes == \A c \in Callers : call[c].at = "own" /\ Worked => Served >= call[c].need

ToldOkIsServed == \A c \in Callers : call[c].told = "ok" => Served >= call[c].need

ReloadInv ==
    RTypeOK /\ CallersInStep /\ ProgInStep /\ OwnRunServes /\ ToldOkIsServed

\* The copies belong together but between the two renames, and the loop is
\* past the first rename only with new files that do.
CopyInStep ==
    /\ ~ cut /\ tls.at # "keyMoved" => tls.copy.cert = tls.copy.key
    /\ tls.at = "keyMoved" => tls.copy.key = tls.new.key /\ tls.new.cert = tls.new.key
    /\ tls.at \in {"points", "certMoved", "reloads"} => tls.copy.cert = tls.copy.key
    /\ tls.at = "points" => ~ tls.served

Exchanging == tls.at \in {"keyMoved", "points", "certMoved", "reloads"}

\* Outside the exchange Postfix runs on the copy or the loop knows better.
CopyIsServed ==
    ~ cut /\ master.up /\ tls.served /\ ~ Exchanging => tls.pending \/ master.pair = tls.copy

CertInv == RTypeOK /\ CopyInStep /\ CopyIsServed

\* A backup is being made only beside a live panel, and has no end yet; a
\* record is of an archive that has one.
BackupsInStep ==
    /\ making # None => Running /\ arch[making.of] \in Backup /\ ~ arch[making.of].end
    /\ dir.record \in Archives => arch[dir.record] \in Backup /\ arch[dir.record].end

\* The operator's tar runs beside no panel.
UnpackInStep == unpack # None =>
    /\ pc = "off" /\ arch[unpack.of] \in Backup
    /\ unpack.next = 4 => arch[unpack.of].end

\* In the middle of an archive.
Amid == unpack # None /\ unpack.next > 1

\* What the entries unpacked so far have written.
AmidInv == Amid =>
    /\ restoring /\ dir.manifest = unpack.of
    /\ intact \in {"cut", "bad", "over"}
    /\ intact # "over" => dir.checked # unpack.of
    /\ intact = "bad" => unpack.next = 4 /\ (dir.db.of = Part \/ dir.tree.of = Part)
    /\ intact # "bad" /\ unpack.next > 2 => dir.db.of = unpack.of
    /\ intact # "bad" /\ unpack.next > 3 => dir.tree.of = unpack.of

\* The record and the earlier check of a directory, as CheckRestore reads them.
Checks(d) == CheckedBefore(d) \/ (d.record # None /\ ~ d.wal /\ Verified(d))

\* With a manifest and no tar under way, the directory is accepted exactly
\* when what was unpacked last allows it.
OnlyWholeChecks ==
    restoring /\ dir.manifest # None /\ ~ Amid /\ pc = "off" =>
        /\ Checks(dir) => intact \in {"whole", "over"}
        /\ intact = "whole" => Checks(dir)

\* A start that goes on has taken a whole archive, and its mark stands until
\* the manifest is gone.
StartInStep ==
    restoring /\ pc # "off" =>
        /\ pc \in Starting /\ intact \in {"whole", "over"}
        /\ IF pc \in {"noManifest", "noMark"} THEN dir.manifest = None
           ELSE dir.manifest # None /\ dir.record = None /\ dir.checked = dir.manifest

\* From the resync on the maps follow the database, whatever start that was.
HealedInStep ==
    restoring =>
        /\ pc = "unlinked" => ~ dir.links
        /\ (pc \in {"healing", "healed", "noManifest", "noMark"}
              \/ (pc = "off" /\ dir.manifest = None))
             => dir.tree.gen = dir.db.gen /\ ~ dir.links

RestoreInv ==
    /\ BTypeOK /\ BackupsInStep /\ UnpackInStep /\ AmidInv
    /\ OnlyWholeChecks /\ StartInStep /\ HealedInStep

\* Neither the sockets nor Postfix are there while an archive waits for its
\* first start to end.
SocketsInv == sockets \in BOOLEAN /\ (sockets \/ master.up => ~ restoring)

-----------------------------------------------------------------------------
(* What a step of the container is for each of the two parts. *)

ReloadNext ==
    \/ MasterStarts \/ MasterStops \/ OneShot \/ Certificates
    \/ \E c \in Callers : Save(c) \/ Asks(c)
    \/ PanelKilled \/ ContainerRestarts

RestoreNext ==
    \/ Start \/ Backups \/ LinkMade \/ RowChanged \/ TreeFollows
    \/ Operator \/ ResyncWrites \/ ResyncDone \/ ResyncFails \/ Stops \/ Killed

LEMMA NextIsTwoSteps == [Next]_vars => [ReloadNext]_rvars /\ [RestoreNext]_bvars
<1> SUFFICES ASSUME [Next]_vars PROVE [ReloadNext]_rvars /\ [RestoreNext]_bvars
  OBVIOUS
<1>1. CASE PanelSteps
  BY <1>1 DEF PanelSteps, RestoreNext, rvars
<1>2. CASE OperatorSteps
  BY <1>2 DEF OperatorSteps, RestoreNext, rvars
<1>3. CASE RequestSaves
  BY <1>3 DEF RequestSaves, ReloadNext, RestoreNext
<1>4. CASE StartSaves
  BY <1>4, OperationsConstants DEF StartSaves, ReloadNext, RestoreNext
<1>5. CASE StartTold
  BY <1>5 DEF StartTold, RestoreNext, rvars
<1>6. CASE Listens
  BY <1>6 DEF Listens
<1>7. CASE PostfixStarts
  BY <1>7 DEF PostfixStarts, ReloadNext
<1>8. CASE ReloadSteps
  BY <1>8 DEF ReloadSteps, ReloadNext
<1>9. CASE PanelStops
  BY <1>9 DEF PanelStops, RestoreNext
<1>10. CASE PanelDies
  BY <1>10 DEF PanelDies, RestoreNext, ReloadNext
<1>11. CASE ContainerStops
  BY <1>11 DEF ContainerStops, RestoreNext, ReloadNext
<1>12. CASE UNCHANGED vars
  BY <1>12 DEF vars
<1> QED
  BY <1>1, <1>2, <1>3, <1>4, <1>5, <1>6, <1>7, <1>8, <1>9, <1>10, <1>11, <1>12 DEF Next

-----------------------------------------------------------------------------
(* The reload. *)

LEMMA ReloadInit == RInit => ReloadInv /\ CertInv
<1> SUFFICES ASSUME RInit PROVE ReloadInv /\ CertInv
  OBVIOUS
<1>1. PICK g \in {0, 1} : tls = StartCopy([cert |-> g, key |-> g])
  BY DEF RInit
<1>2. RTypeOK
  <2>1. tls \in LoopState
    BY <1>1 DEF LoopState, StartCopy, Pairs, NoPair
  <2>2. left \in Budget
    BY ReloadConstants DEF RInit, Budget
  <2>3. call \in [Callers -> CallState]
    BY DEF RInit, Idle, CallState
  <2> QED
    BY <2>1, <2>2, <2>3 DEF RTypeOK, RInit, MasterState, ProgState, NewProg, Pairs, NoPair
<1>3. CallersInStep /\ ProgInStep /\ OwnRunServes /\ ToldOkIsServed
  BY DEF RInit, CallersInStep, ProgInStep, OwnRunServes, ToldOkIsServed, NewProg, Idle
<1>4. CopyInStep /\ CopyIsServed
  BY <1>1 DEF RInit, CopyInStep, CopyIsServed, StartCopy, NoPair
<1> QED
  BY <1>2, <1>3, <1>4 DEF ReloadInv, CertInv

LEMMA SpendType ==
    ASSUME RTypeOK, NEW b \in {"saves", "stops", "renewals", "faults"}, Spend(b)
    PROVE  left' \in Budget
  BY DEF Spend, RTypeOK, Budget

LEMMA ReadsType == RTypeOK => Reads \in MasterState
  BY DEF RTypeOK, Reads, MasterState, LoopState, Pairs

LEMMA HupType == RTypeOK /\ Hup => master' \in MasterState
  BY ReadsType DEF RTypeOK, Hup

LEMMA CertType == ASSUME RTypeOK, Certificates PROVE RTypeOK'
<1> USE DEF RTypeOK, Loop, Step, tables, certs
<1>1. CASE Renewed
  BY <1>1, SpendType DEF Renewed, LoopState, Pairs
<1>2. CASE Wakes
  <2>1. master' \in MasterState /\ cut' \in BOOLEAN
    BY <1>2, HupType DEF Wakes
  <2>2. tls' \in LoopState /\ UNCHANGED <<tables, left>>
    BY <1>2 DEF Wakes, LoopState, MasterState
  <2> QED
    BY <2>1, <2>2
<1>3. CASE Looks
  <2>1. CASE Step("sleeps")
    BY <1>3, <2>1 DEF Looks, LoopState
  <2>2. CASE Loop([tls EXCEPT !.at = "certCopied",
                             !.new = [cert |-> tls.mounted.cert, key |-> 0]])
    BY <1>3, <2>2 DEF Looks, LoopState, Pairs
  <2> QED
    BY <1>3, <2>1, <2>2 DEF Looks
<1>4. CASE CopiesKey
  BY <1>4 DEF CopiesKey, LoopState, Pairs
<1>5. CASE MovesKey
  <2>1. CASE Loop([tls EXCEPT !.at = "keyMoved", !.copy.key = tls.new.key])
    BY <1>5, <2>1 DEF MovesKey, LoopState, Pairs
  <2>2. CASE Loop([tls EXCEPT !.at = "sleeps", !.new = NoPair])
    BY <1>5, <2>2 DEF MovesKey, LoopState, Pairs, NoPair
  <2> QED
    BY <1>5, <2>1, <2>2 DEF MovesKey
<1>6. CASE MovesCert
  BY <1>6 DEF MovesCert, LoopState, Pairs, NoPair
<1>7. CASE PointsAtCopy \/ SetsPending
  BY <1>7 DEF PointsAtCopy, SetsPending, LoopState
<1>8. CASE LoopReloads
  <2>1. PICK worked \in BOOLEAN :
          /\ IF worked THEN master.up /\ Hup /\ UNCHANGED left
             ELSE UNCHANGED master /\ (IF master.up THEN Fault ELSE UNCHANGED left)
          /\ tls' = [tls EXCEPT !.at = "sleeps", !.pending = Pending(worked)]
          /\ cut' = (cut /\ ~ worked)
    BY <1>8 DEF LoopReloads
  <2>2. master' \in MasterState /\ left' \in Budget
    BY <2>1, HupType, SpendType DEF Fault
  <2>3. tls' \in LoopState /\ cut' \in BOOLEAN
    BY <2>1 DEF LoopState, Pending
  <2> QED
    BY <1>8, <2>2, <2>3 DEF LoopReloads
<1>9. CASE LoopFails
  <2>1. left' \in Budget
    BY <1>9, SpendType DEF LoopFails, Fault
  <2> QED
    BY <1>9, <2>1 DEF LoopFails, LoopState, Pairs, NoPair
<1>10. CASE LoopKilled
  <2>1. left' \in Budget
    BY <1>10, SpendType DEF LoopKilled, Fault
  <2> QED
    BY <1>10, <2>1 DEF LoopKilled, LoopState, Pairs, NoPair
<1> QED
  BY <1>1, <1>2, <1>3, <1>4, <1>5, <1>6, <1>7, <1>8, <1>9, <1>10 DEF Certificates

LEMMA OneShotType == ASSUME RTypeOK, OneShot PROVE RTypeOK'
<1> USE DEF RTypeOK, certs, ProgState
<1>1. CASE ProgChecks \/ ProgEnds \/ SpawnRetried
  BY <1>1 DEF ProgChecks, ProgEnds, SpawnRetried, Ended
<1>2. CASE ProgReloads
  BY <1>2, HupType DEF ProgReloads, Ended
<1>3. CASE ProgFails
  BY <1>3, SpendType DEF ProgFails, Fault, Ended
<1> QED
  BY <1>1, <1>2, <1>3 DEF OneShot

LEMMA CallersType ==
    ASSUME RTypeOK, NEW c \in Callers, Save(c) \/ Asks(c)
    PROVE  RTypeOK'
<1> USE DEF RTypeOK, certs
<1>1. CASE Save(c)
  <2>1. left' \in Budget
    BY <1>1, SpendType DEF Save
  <2> QED
    BY <1>1, <2>1 DEF Save, CallState
<1>2. \A r \in {"ok", "failed"} : Told(c, r) => call' \in [Callers -> CallState]
  <2> SUFFICES ASSUME NEW r \in {"ok", "failed"}, Told(c, r)
               PROVE  call' \in [Callers -> CallState]
    OBVIOUS
  <2>1. [call[c] EXCEPT !.at = "idle", !.told = r] \in CallState
    BY DEF CallState
  <2>2. call' = [call EXCEPT ![c] = [call[c] EXCEPT !.at = "idle", !.told = r]]
    BY DEF Told
  <2> QED
    BY <2>1, <2>2
<1>3. \A p \in {"asks", "waits", "own"} : At(c, p) => call' \in [Callers -> CallState]
  BY DEF At, CallState
<1>4. CASE Starts(c)
  BY <1>4, <1>3 DEF Starts, ProgState
<1>5. CASE StartFails(c)
  BY <1>5, <1>2, SpendType DEF StartFails, Fault, ProgState
<1>6. CASE Refused(c)
  BY <1>6, <1>3 DEF Refused
<1>7. CASE SeenEnded(c)
  BY <1>7, <1>2, <1>3 DEF SeenEnded
<1>8. CASE GivesUp(c)
  BY <1>8, <1>2 DEF GivesUp
<1> QED
  BY <1>1, <1>4, <1>5, <1>6, <1>7, <1>8 DEF Asks

\* A killed panel's requests end; those that had ended keep their answer.
LEMMA GoneCalls ==
    ASSUME RTypeOK, CallersGone
    PROVE  /\ call' \in [Callers -> CallState]
           /\ \A c \in Callers :
                 /\ call[c].at = "idle" => call'[c] = call[c]
                 /\ call[c].at # "idle" => call'[c].told = "gone"
                 /\ call'[c].at = "idle" /\ call'[c].need = call[c].need
<1>1. \A s \in CallState : [s EXCEPT !.at = "idle", !.told = "gone"] \in CallState
  BY DEF CallState
<1>2. call' \in [Callers -> CallState]
  BY <1>1 DEF RTypeOK, CallersGone
<1>3. ASSUME NEW c \in Callers
      PROVE  /\ call[c].at = "idle" => call'[c] = call[c]
             /\ call[c].at # "idle" => call'[c].told = "gone"
             /\ call'[c].at = "idle" /\ call'[c].need = call[c].need
  <2>1. call[c] \in CallState
    BY DEF RTypeOK
  <2>2. call'[c] = IF call[c].at = "idle" THEN call[c]
                  ELSE [call[c] EXCEPT !.at = "idle", !.told = "gone"]
    BY DEF CallersGone
  <2> QED
    BY <2>1, <2>2 DEF CallState
<1> QED
  BY <1>2, <1>3

LEMMA ReloadType == ASSUME RTypeOK, [ReloadNext]_rvars PROVE RTypeOK'
<1>1. CASE MasterStarts
  BY <1>1, ReadsType DEF RTypeOK, MasterStarts, tables, certs
<1>2. CASE MasterStops
  <2>1. left' \in Budget
    BY <1>2, SpendType DEF MasterStops
  <2> QED
    BY <1>2, <2>1 DEF RTypeOK, MasterStops, MasterState, tables, certs
<1>3. CallersGone /\ RTypeOK => call' \in [Callers -> CallState]
  BY GoneCalls
<1>4. CASE PanelKilled
  BY <1>3, <1>4 DEF RTypeOK, PanelKilled, certs
<1>5. CASE ContainerRestarts
  <2>1. left' \in Budget
    BY <1>5, SpendType DEF ContainerRestarts
  <2>2. tls' \in LoopState
    BY <1>5 DEF RTypeOK, ContainerRestarts, StartCopy, NoPair, Pairs, LoopState
  <2>3. master' \in MasterState /\ prog' \in ProgState
    BY <1>5 DEF RTypeOK, ContainerRestarts, NewProg, MasterState, ProgState
  <2> QED
    BY <1>3, <1>5, <2>1, <2>2, <2>3 DEF RTypeOK, ContainerRestarts
<1>6. CASE UNCHANGED rvars
  BY <1>6 DEF RTypeOK, rvars
<1> QED
  BY <1>1, <1>2, <1>4, <1>5, <1>6, CertType, OneShotType, CallersType DEF ReloadNext

LEMMA ProgKeepsStep ==
    ASSUME RTypeOK, ProgInStep, [ReloadNext]_rvars
    PROVE  ProgInStep'
<1> USE DEF ProgInStep, RTypeOK, ProgState, tables
<1>1. CASE OneShot
  BY <1>1 DEF OneShot, ProgChecks, ProgReloads, ProgEnds, ProgFails, SpawnRetried, Ended
<1>2. ASSUME NEW c \in Callers, Save(c) \/ Asks(c) PROVE ProgInStep'
  BY <1>2 DEF Save, Asks, Starts, StartFails, Refused, SeenEnded, GivesUp, Under
<1>3. CASE Certificates
  <2>1. UNCHANGED prog
    BY <1>3 DEF Certificates, Renewed, Wakes, Looks, CopiesKey, MovesKey, MovesCert,
                PointsAtCopy, SetsPending, LoopReloads, LoopFails, LoopKilled, Loop, Step
  <2> QED
    BY <2>1
<1>4. CASE MasterStarts \/ MasterStops \/ PanelKilled \/ UNCHANGED rvars
  BY <1>4 DEF MasterStarts, MasterStops, PanelKilled, rvars
<1>5. CASE ContainerRestarts
  BY <1>5 DEF ContainerRestarts, NewProg
<1> QED
  BY <1>1, <1>2, <1>3, <1>4, <1>5 DEF ReloadNext

\* The callers do not touch the master; the others do not touch the callers
\* and lead Postfix to no older files.
LEMMA ServedMoves ==
    ASSUME RTypeOK, CallersInStep,
           MasterStarts \/ MasterStops \/ OneShot \/ Certificates \/ UNCHANGED rvars
    PROVE  /\ UNCHANGED <<files, call>>
           /\ Served' \in Served .. files
           /\ master'.loaded <= files
<1> USE DEF RTypeOK, CallersInStep, Served, MasterState
<1>1. Hup => Served' \in Served .. files' \/ files' # files
  BY DEF Hup, Reads
<1>2. Hup => master'.loaded <= files
  BY DEF Hup, Reads
<1>3. CASE MasterStarts
  BY <1>3 DEF MasterStarts, Reads, tables
<1>4. CASE MasterStops
  BY <1>4 DEF MasterStops, tables
<1>5. CASE OneShot
  BY <1>1, <1>2, <1>5 DEF OneShot, ProgChecks, ProgReloads, ProgEnds, ProgFails, SpawnRetried
<1>6. CASE Certificates
  <2>1. UNCHANGED <<files, call>> /\ (Hup \/ UNCHANGED master)
    BY <1>6 DEF Certificates, Renewed, Wakes, Looks, CopiesKey, MovesKey, MovesCert,
                PointsAtCopy, SetsPending, LoopReloads, LoopFails, LoopKilled, Loop, Step, tables
  <2> QED
    BY <1>1, <1>2, <2>1
<1>7. CASE UNCHANGED rvars
  BY <1>7 DEF rvars
<1> QED
  BY <1>3, <1>4, <1>5, <1>6, <1>7

LEMMA GoneMoves ==
    ASSUME RTypeOK, CallersInStep, PanelKilled \/ ContainerRestarts
    PROVE  /\ UNCHANGED files
           /\ CallersGone
           /\ Served' \in Served .. files
           /\ master'.loaded <= files
  BY DEF RTypeOK, CallersInStep, PanelKilled, ContainerRestarts, Served, MasterState

LEMMA CallersKeepStep ==
    ASSUME RTypeOK, CallersInStep, [ReloadNext]_rvars
    PROVE  CallersInStep'
<1> USE DEF CallersInStep
<1>1. CASE MasterStarts \/ MasterStops \/ OneShot \/ Certificates \/ UNCHANGED rvars
  BY <1>1, ServedMoves
<1>2. CASE PanelKilled \/ ContainerRestarts
  <2>1. UNCHANGED files /\ CallersGone /\ master'.loaded <= files
    BY <1>2, GoneMoves
  <2>2. \A c \in Callers : call'[c].at = "idle" /\ call'[c].told # "waiting" /\ call'[c].need <= files
    BY <2>1, GoneCalls
  <2> QED
    BY <2>1, <2>2
<1>3. ASSUME NEW c \in Callers, Save(c) PROVE CallersInStep'
  BY <1>3 DEF Save, RTypeOK, MasterState, CallState
<1>4. ASSUME NEW c \in Callers, Asks(c) PROVE CallersInStep'
  <2>1. UNCHANGED <<files, master>>
    BY <1>4 DEF Asks, Starts, StartFails, Refused, SeenEnded, GivesUp
  <2>2. \/ \E p \in {"waits", "own", "asks"} : At(c, p) /\ call[c].at # "idle"
        \/ \E r \in {"ok", "failed"} : Told(c, r)
    BY <1>4 DEF Asks, Starts, StartFails, Refused, SeenEnded, GivesUp
  <2> QED
    BY <2>1, <2>2 DEF At, Told, RTypeOK, CallState
<1> QED
  BY <1>1, <1>2, <1>3, <1>4 DEF ReloadNext

LEMMA OwnRunKept ==
    ASSUME ReloadInv, [ReloadNext]_rvars
    PROVE  OwnRunServes' /\ ToldOkIsServed'
<1> USE DEF ReloadInv, OwnRunServes, ToldOkIsServed
<1>1. \A c \in Callers : call[c].need \in Nat /\ call[c].need <= files
  BY DEF CallersInStep, RTypeOK, CallState
<1>2. Served \in Nat /\ Served <= files /\ files \in Nat
  BY DEF Served, RTypeOK, MasterState, CallersInStep
<1>3. CASE OneShot
  <2>1. UNCHANGED <<files, call>> /\ Served' \in Served .. files
    BY <1>3, ServedMoves
  <2>2. ToldOkIsServed'
    BY <1>1, <1>2, <2>1
  <2>3. Worked' => Worked \/ Served' = files
    BY <1>3 DEF Worked, Served, OneShot, ProgChecks, ProgReloads, ProgEnds, ProgFails,
                SpawnRetried, Ended, Hup, Reads, RTypeOK, ProgState, MasterState
  <2> QED
    BY <1>1, <1>2, <2>1, <2>2, <2>3
<1>4. CASE MasterStarts \/ MasterStops \/ Certificates \/ UNCHANGED rvars
  <2>1. UNCHANGED <<files, call>> /\ Served' \in Served .. files
    BY <1>4, ServedMoves
  <2>2. UNCHANGED prog
    BY <1>4 DEF MasterStarts, MasterStops, rvars, tables, Certificates, Renewed, Wakes, Looks,
                CopiesKey, MovesKey, MovesCert, PointsAtCopy, SetsPending, LoopReloads,
                LoopFails, LoopKilled, Loop, Step
  <2> QED
    BY <1>1, <1>2, <2>1, <2>2 DEF Worked
<1>5. CASE PanelKilled \/ ContainerRestarts
  <2>1. UNCHANGED files /\ CallersGone /\ Served' \in Served .. files
    BY <1>5, GoneMoves
  <2> QED
    BY <1>1, <1>2, <2>1, GoneCalls
<1>6. ASSUME NEW c \in Callers, Save(c) PROVE OwnRunServes' /\ ToldOkIsServed'
  <2>1. Served' >= Served /\ UNCHANGED prog
    BY <1>2, <1>6 DEF Save, Served, RTypeOK, MasterState
  <2> QED
    BY <1>1, <1>2, <1>6, <2>1 DEF Save, Worked, RTypeOK, CallState, Served
<1>7. ASSUME NEW c \in Callers, Asks(c) PROVE OwnRunServes' /\ ToldOkIsServed'
  <2>1. Served' = Served
    BY <1>7 DEF Asks, Starts, StartFails, Refused, SeenEnded, GivesUp, Served
  <2>2. CASE Starts(c)
    BY <2>1, <2>2 DEF Starts, At, Worked, RTypeOK, ProgState, CallState
  <2>3. CASE StartFails(c)
    BY <2>1, <2>3 DEF StartFails, Told, Worked, RTypeOK, ProgState, CallState, Under, ProgInStep
  <2>4. CASE Refused(c)
    BY <2>1, <2>4 DEF Refused, At, Worked, RTypeOK, CallState
  <2>5. CASE SeenEnded(c)
    BY <2>1, <2>5 DEF SeenEnded, At, Told, Worked, RTypeOK, CallState
  <2>6. CASE GivesUp(c)
    BY <2>1, <2>6 DEF GivesUp, Told, Worked, RTypeOK, CallState
  <2> QED
    BY <1>7, <2>2, <2>3, <2>4, <2>5, <2>6 DEF Asks
<1> QED
  BY <1>3, <1>4, <1>5, <1>6, <1>7 DEF ReloadNext

LEMMA ReloadStep == ReloadInv /\ [ReloadNext]_rvars => ReloadInv'
  BY ReloadType, ProgKeepsStep, CallersKeepStep, OwnRunKept DEF ReloadInv

-----------------------------------------------------------------------------
(* The certificate loop. *)

\* Other steps leave the loop alone, and the master as it is, without its
\* processes, or with what main.cf names.
LEMMA OthersLeaveTheLoop ==
    ASSUME RTypeOK, CopyIsServed,
           \/ MasterStarts \/ MasterStops \/ OneShot \/ PanelKilled \/ UNCHANGED rvars
           \/ \E c \in Callers : Save(c) \/ Asks(c)
    PROVE  UNCHANGED <<tls, cut>> /\ CopyIsServed'
<1>1. UNCHANGED <<tls, cut>>
  BY DEF MasterStarts, MasterStops, OneShot, ProgChecks, ProgReloads, ProgEnds, ProgFails,
         SpawnRetried, PanelKilled, rvars, Save, Asks, Starts, StartFails, Refused, SeenEnded,
         GivesUp, certs
<1>2. \/ master' = master \/ master' = Reads \/ master' = [master EXCEPT !.up = FALSE]
  BY DEF MasterStarts, MasterStops, OneShot, ProgChecks, ProgReloads, ProgEnds, ProgFails,
         SpawnRetried, PanelKilled, rvars, Save, Asks, Starts, StartFails, Refused, SeenEnded,
         GivesUp, Hup
<1>3. CopyIsServed'
  BY <1>1, <1>2 DEF CopyIsServed, Exchanging, Reads, RTypeOK, MasterState
<1> QED
  BY <1>1, <1>3

LEMMA CopyKept ==
    ASSUME RTypeOK, CopyInStep, [ReloadNext]_rvars, CopyIsServed
    PROVE  CopyInStep'
<1> USE DEF CopyInStep, RTypeOK, LoopState, Pairs, Loop, Step
<1>1. CASE Renewed
  BY <1>1 DEF Renewed
<1>2. CASE Wakes
  BY <1>2 DEF Wakes
<1>3. CASE Looks
  BY <1>3 DEF Looks
<1>4. CASE CopiesKey
  BY <1>4 DEF CopiesKey
<1>5. CASE MovesKey
  <2>1. CASE Loop([tls EXCEPT !.at = "keyMoved", !.copy.key = tls.new.key]) /\ BelongTogether
    BY <1>5, <2>1 DEF MovesKey, BelongTogether
  <2>2. CASE Loop([tls EXCEPT !.at = "sleeps", !.new = NoPair])
    BY <1>5, <2>2 DEF MovesKey
  <2> QED
    BY <1>5, <2>1, <2>2 DEF MovesKey
<1>6. CASE MovesCert
  BY <1>6 DEF MovesCert
<1>7. CASE PointsAtCopy \/ SetsPending
  BY <1>7 DEF PointsAtCopy, SetsPending
<1>8. CASE LoopReloads
  BY <1>8 DEF LoopReloads
<1>9. CASE LoopFails
  BY <1>9 DEF LoopFails
<1>10. CASE LoopKilled
  BY <1>10 DEF LoopKilled
<1>11. CASE ContainerRestarts
  BY <1>11 DEF ContainerRestarts, StartCopy, NoPair
<1>12. CASE \/ MasterStarts \/ MasterStops \/ OneShot \/ PanelKilled \/ UNCHANGED rvars
            \/ \E c \in Callers : Save(c) \/ Asks(c)
  BY <1>12, OthersLeaveTheLoop
<1> QED
  BY <1>1, <1>2, <1>3, <1>4, <1>5, <1>6, <1>7, <1>8, <1>9, <1>10, <1>11, <1>12
  DEF ReloadNext, Certificates

LEMMA CopyServedKept ==
    ASSUME RTypeOK, CopyInStep, CopyIsServed, [ReloadNext]_rvars
    PROVE  CopyIsServed'
<1> USE DEF CopyIsServed, Exchanging, RTypeOK, LoopState, MasterState, Loop, Step
<1>1. CASE Renewed
  BY <1>1 DEF Renewed, Pairs
<1>2. CASE Wakes
  <2>1. tls'.copy = tls.copy /\ tls'.served = tls.served /\ tls'.at = "looks"
    BY <1>2 DEF Wakes
  <2>2. CASE tls.pending
    <3>1. Hup /\ tls'.pending = ~ master.up
      BY <1>2, <2>2 DEF Wakes
    <3> QED
      BY <2>1, <3>1 DEF Hup, Reads
  <2>3. CASE ~ tls.pending
    <3>1. UNCHANGED master /\ tls'.pending = FALSE /\ cut' = cut
      BY <1>2, <2>3 DEF Wakes
    <3> QED
      BY <1>2, <2>1, <2>3, <3>1 DEF Wakes
  <2> QED
    BY <2>2, <2>3
<1>3. CASE Looks \/ CopiesKey
  BY <1>3 DEF Looks, CopiesKey
<1>4. CASE MovesKey
  BY <1>4 DEF MovesKey
<1>5. CASE MovesCert \/ PointsAtCopy \/ SetsPending
  BY <1>5 DEF MovesCert, PointsAtCopy, SetsPending
<1>6. CASE LoopReloads
  BY <1>6 DEF LoopReloads, Pending, Hup, Reads
<1>7. CASE LoopFails
  BY <1>7 DEF LoopFails, CopyInStep
<1>8. CASE LoopKilled
  BY <1>8 DEF LoopKilled
<1>9. CASE ContainerRestarts
  BY <1>9 DEF ContainerRestarts
<1>10. CASE \/ MasterStarts \/ MasterStops \/ OneShot \/ PanelKilled \/ UNCHANGED rvars
            \/ \E c \in Callers : Save(c) \/ Asks(c)
  BY <1>10, OthersLeaveTheLoop
<1> QED
  BY <1>1, <1>2, <1>3, <1>4, <1>5, <1>6, <1>7, <1>8, <1>9, <1>10 DEF ReloadNext, Certificates

LEMMA CertStep == CertInv /\ [ReloadNext]_rvars => CertInv'
  BY ReloadType, CopyKept, CopyServedKept DEF CertInv

LEMMA CertImplies == CertInv => RenewalNotForgotten /\ CopyIsAPair
  BY DEF CertInv, CopyInStep, CopyIsServed, Exchanging, RenewalNotForgotten, CopyIsAPair

-----------------------------------------------------------------------------
(* The promise of a reload. *)

LEMMA PromiseInit == RInit => Promise!Init
  BY DEF RInit, Promise!Init, Idle

LEMMA PromiseStep == ASSUME ReloadInv, [ReloadNext]_rvars PROVE [Promise!Next]_(Promise!vars)
<1> USE DEF ReloadInv
<1>1. \A c \in Callers : call[c].need \in Nat /\ call[c].need <= files
  BY DEF CallersInStep, RTypeOK, CallState
<1>2. Served \in Nat /\ Served <= files /\ files \in Nat
  BY DEF Served, RTypeOK, MasterState, CallersInStep
<1>3. CASE MasterStarts \/ MasterStops \/ OneShot \/ Certificates \/ UNCHANGED rvars
  <2>1. UNCHANGED <<files, call>> /\ Served' \in Served .. files
    BY <1>3, ServedMoves
  <2>2. Promise!Reload
    BY <2>1 DEF Served, Promise!Reload, Promise!Forward
  <2> QED
    BY <2>2 DEF Promise!Next
<1>4. CASE PanelKilled \/ ContainerRestarts
  <2>1. UNCHANGED files /\ CallersGone /\ Served' \in Served .. files
    BY <1>4, GoneMoves
  <2>2. \A c \in Callers :
          /\ call'[c].need = call[c].need
          /\ call'[c].told = IF call[c].told = "waiting" THEN "gone" ELSE call[c].told
    BY <2>1, GoneCalls DEF CallersInStep
  <2>3. Promise!PanelGone
    BY <2>1, <2>2 DEF Served, Promise!PanelGone, Promise!Forward
  <2> QED
    BY <2>3 DEF Promise!Next
<1>5. ASSUME NEW c \in Callers, Save(c) PROVE Promise!Save(c)
  <2>1. call'[c].need = files + 1 /\ call'[c].told = "waiting" /\ call[c].told # "waiting"
    BY <1>5 DEF Save, RTypeOK, CallersInStep
  <2>2. \A d \in Callers \ {c} : call'[d] = call[d]
    BY <1>5 DEF Save, RTypeOK
  <2>3. files' = files + 1 /\ Served' \in Served .. files'
    BY <1>2, <1>5 DEF Save, Served
  <2> QED
    BY <2>1, <2>2, <2>3 DEF Served, Promise!Save, Promise!Forward
<1>6. ASSUME NEW c \in Callers, Asks(c) PROVE Promise!Answer(c) \/ UNCHANGED Promise!vars
  <2>1. UNCHANGED <<files, master>>
    BY <1>6 DEF Asks, Starts, StartFails, Refused, SeenEnded, GivesUp
  <2>2. call[c].at # "idle"
    BY <1>6 DEF Asks, Starts, StartFails, Refused, SeenEnded, GivesUp
  <2>3. CASE \E p \in {"waits", "own", "asks"} : At(c, p)
    <3>1. \A d \in Callers : call'[d].need = call[d].need /\ call'[d].told = call[d].told
      BY <2>3 DEF At, RTypeOK, CallState
    <3> QED
      BY <2>1, <3>1 DEF Promise!vars
  <2>4. ASSUME NEW r \in {"ok", "failed"}, Told(c, r), r = "ok" => Served >= call[c].need
        PROVE  Promise!Answer(c)
    <3>1. call[c].told = "waiting"
      BY <2>2 DEF CallersInStep
    <3>2. call'[c].told = r /\ \A d \in Callers : call'[d].need = call[d].need
      BY <2>4 DEF Told, RTypeOK, CallState
    <3>3. \A d \in Callers \ {c} : call'[d] = call[d]
      BY <2>4 DEF Told, RTypeOK
    <3>4. [d \in Callers |-> call'[d].need] = [d \in Callers |-> call[d].need]
      BY <3>2
    <3>5. [d \in Callers |-> call'[d].told] =
             [[d \in Callers |-> call[d].told] EXCEPT ![c] = r]
      BY <3>2, <3>3
    <3>6. Served' = Served /\ Served \in Served .. files
      BY <1>2, <2>1 DEF Served
    <3> QED
      BY <2>1, <2>4, <3>1, <3>4, <3>5, <3>6 DEF Served, Promise!Answer, Promise!Forward
  <2>5. CASE Starts(c) \/ Refused(c)
    BY <2>3, <2>5 DEF Starts, Refused
  <2>6. CASE StartFails(c) \/ GivesUp(c)
    BY <2>4, <2>6 DEF StartFails, GivesUp
  <2>7. CASE SeenEnded(c)
    BY <2>3, <2>4, <2>7 DEF SeenEnded, OwnRunServes, Worked
  <2> QED
    BY <1>6, <2>5, <2>6, <2>7 DEF Asks
<1> QED
  BY <1>3, <1>4, <1>5, <1>6 DEF ReloadNext, Promise!Next

LEMMA PromiseInvariant == ReloadInv => Promise!OkMeansServed
  BY DEF ReloadInv, ToldOkIsServed, Served, Promise!OkMeansServed

-----------------------------------------------------------------------------
(* The theorems about the reload and the certificate. *)

LEMMA ReloadAlways == Spec => []ReloadInv
<1>1. Init => ReloadInv
  BY ReloadInit DEF Init
<1>2. ReloadInv /\ [Next]_vars => ReloadInv'
  BY NextIsTwoSteps, ReloadStep
<1> QED
  BY <1>1, <1>2, PTL DEF Spec

LEMMA CertAlways == Spec => []CertInv
<1>1. Init => CertInv
  BY ReloadInit DEF Init
<1>2. CertInv /\ [Next]_vars => CertInv'
  BY NextIsTwoSteps, CertStep
<1> QED
  BY <1>1, <1>2, PTL DEF Spec

\* The reload of the panel implements its promise (RunOnce in
\* internal/supervisor/rpc.go): a caller is answered "ok" only when Postfix
\* runs on files no older than its own, whatever runs of postfix-reload,
\* stops of Postfix, kills of the panel and reloads of the certificate loop
\* come between.
THEOREM ReloadImplementsPromise == Spec => PromiseKept
<1>1. Init => Promise!Init
  BY PromiseInit DEF Init
<1>2. ReloadInv /\ [Next]_vars => [Promise!Next]_(Promise!vars)
  BY NextIsTwoSteps, PromiseStep
<1> QED
  BY <1>1, <1>2, ReloadAlways, PTL DEF Spec, PromiseKept, Promise!Spec

\* ... and therefore whoever was told that the reload went well is served by
\* Postfix with what it saved, also long after the answer.
THEOREM OkStaysServed == Spec => []Promise!OkMeansServed
  BY ReloadAlways, PromiseInvariant, PTL

\* The certificate loop (build/postfix-cert-reload.sh) forgets no renewal:
\* asleep, and not cut short, it has Postfix run on the copy or knows that it
\* has to reload.
THEOREM RenewalTheorem == Spec => []RenewalNotForgotten
  BY CertAlways, CertImplies, PTL

\* The copies Postfix is pointed at belong together, however the mounted pair
\* is replaced file by file meanwhile.
THEOREM CopyTheorem == Spec => []CopyIsAPair
  BY CertAlways, CertImplies, PTL

-----------------------------------------------------------------------------
(* The restore: types. *)

LEMMA RestoreInit == BInit => RestoreInv
<1> SUFFICES ASSUME BInit PROVE RestoreInv
  OBVIOUS
<1>1. BTypeOK
  <2>1. dir \in Directory
    BY DEF BInit, Empty, Directory, Contents, Nothing
  <2>2. arch \in [Archives -> {None} \cup Backup]
    BY DEF BInit, Backup
  <2>3. drawn \in Bound
    BY RestoreConstants DEF BInit, Bound
  <2> QED
    BY <2>1, <2>2, <2>3 DEF BTypeOK, BInit
<1>2. BackupsInStep /\ UnpackInStep /\ AmidInv
  BY RestoreConstants DEF BInit, BackupsInStep, UnpackInStep, AmidInv, Amid, Empty
<1>3. OnlyWholeChecks /\ StartInStep /\ HealedInStep
  BY DEF BInit, OnlyWholeChecks, StartInStep, HealedInStep
<1> QED
  BY <1>1, <1>2, <1>3 DEF RestoreInv

LEMMA DrawType ==
    ASSUME BTypeOK, NEW b \in {"changes", "backups", "unpacks", "kills", "failures"}, Draw(b)
    PROVE  drawn' \in Bound
  BY DEF BTypeOK, Draw, Bound

LEMMA LeftType ==
    ASSUME BTypeOK, BackupsInStep
    PROVE  (IF making = None THEN arch ELSE Left) \in [Archives -> {None} \cup Backup]
  BY DEF BTypeOK, Left, BackupsInStep

LEMMA EntryType ==
    ASSUME BTypeOK, NEW a \in Archives, arch[a] \in Backup, NEW n \in 1 .. 4
    PROVE  Entry(dir, a, n) \in Directory
<1>1. n = 1 \/ n = 2 \/ n = 3 \/ n = 4
  OBVIOUS
<1>2. dir \in Directory /\ arch[a].db \in Nat /\ arch[a].tree \in Nat /\ arch[a].links \in BOOLEAN
  BY DEF BTypeOK, Backup
<1>3. CASE n = 1
  BY <1>2, <1>3 DEF Entry, Directory
<1>4. CASE n = 2
  BY <1>2, <1>4 DEF Entry, Directory, Contents
<1>5. CASE n = 3
  BY <1>2, <1>5 DEF Entry, Directory, Contents
<1>6. CASE n = 4
  BY <1>2, <1>6 DEF Entry, Directory
<1> QED
  BY <1>1, <1>3, <1>4, <1>5, <1>6

LEMMA OperatorType ==
    ASSUME BTypeOK, UnpackInStep, Operator
    PROVE  BTypeOK'
<1> USE DEF BTypeOK, Dir
<1>1. ASSUME NEW a \in Archives, Unpack(a) PROVE BTypeOK'
  <2>1. drawn' \in Bound
    BY <1>1, DrawType DEF Unpack
  <2>2. Empty \in Directory
    BY DEF Empty, Directory, Contents, Nothing
  <2> QED
    BY <1>1, <2>1, <2>2 DEF Unpack, Tar
<1>2. CASE Unpacks
  <2>1. unpack \in Tar /\ arch[unpack.of] \in Backup
    BY <1>2 DEF Unpacks, UnpackInStep
  <2>2. dir' \in Directory
    BY <1>2, <2>1, EntryType DEF Unpacks, Tar
  <2>3. unpack' \in {None} \cup Tar
    BY <1>2, <2>1 DEF Unpacks, Tar
  <2>4. intact' \in {"none", "cut", "bad", "over", "beside", "whole"}
    BY <1>2 DEF Unpacks
  <2> QED
    BY <1>2, <2>2, <2>3, <2>4 DEF Unpacks
<1>3. CASE Stopped
  <2>1. drawn' \in Bound
    BY <1>3, DrawType DEF Stopped
  <2>2. dir' \in Directory
    BY <1>3 DEF Stopped, Directory, Contents, Damaged
  <2> QED
    BY <1>3, <2>1, <2>2 DEF Stopped
<1>4. CASE RanOut
  BY <1>4 DEF RanOut
<1>5. CASE Damages
  <2>1. drawn' \in Bound
    BY <1>5, DrawType DEF Damages
  <2>2. dir' \in Directory
    BY <1>5 DEF Damages, Directory, Contents, Damaged
  <2> QED
    BY <1>5, <2>1, <2>2 DEF Damages
<1> QED
  BY <1>1, <1>2, <1>3, <1>4, <1>5 DEF Operator

LEMMA BackupsType ==
    ASSUME BTypeOK, BackupsInStep, Backups
    PROVE  BTypeOK'
<1> USE DEF BTypeOK
<1>1. ASSUME NEW a \in Archives, Snapshot(a) PROVE BTypeOK'
  <2>1. drawn' \in Bound
    BY <1>1, DrawType DEF Snapshot
  <2>2. PICK by \in {"download", "command"}, sealed \in BOOLEAN :
          /\ making' = [of |-> a, by |-> by]
          /\ arch' = [arch EXCEPT ![a] = [db |-> dir.db.gen, tree |-> 0, links |-> dir.links,
                                          sealed |-> sealed, end |-> FALSE]]
    BY <1>1 DEF Snapshot
  <2>3. arch' \in [Archives -> {None} \cup Backup]
    BY <2>2 DEF Directory, Contents, Backup
  <2>4. making' \in [of : Archives, by : {"download", "command"}]
    BY <2>2
  <2> QED
    BY <1>1, <2>1, <2>3, <2>4 DEF Snapshot
<1>2. CASE Walked
  <2>1. making.of \in Archives /\ arch[making.of] \in Backup
    BY <1>2 DEF Walked, BackupsInStep
  <2>2. [arch[making.of] EXCEPT !.tree = dir.tree.gen, !.end = TRUE] \in Backup
    BY <2>1 DEF Backup, Directory, Contents
  <2>3. arch' = [arch EXCEPT ![making.of] =
                   [arch[making.of] EXCEPT !.tree = dir.tree.gen, !.end = TRUE]]
    BY <1>2 DEF Walked
  <2>4. arch' \in [Archives -> {None} \cup Backup]
    BY <2>1, <2>2, <2>3
  <2> QED
    BY <1>2, <2>4 DEF Walked
<1>3. CASE CreateFails
  <2>1. drawn' \in Bound
    BY <1>3, DrawType DEF CreateFails
  <2> QED
    BY <1>3, <2>1, LeftType DEF CreateFails
<1> QED
  BY <1>1, <1>2, <1>3 DEF Backups

LEMMA TakenType == BTypeOK => Taken(dir) \in Directory
  BY DEF BTypeOK, Taken, Directory, Contents

LEMMA StartType ==
    ASSUME BTypeOK,
           Start \/ LinkMade \/ RowChanged \/ TreeFollows \/ ResyncWrites \/ ResyncDone
    PROVE  BTypeOK'
<1> USE DEF BTypeOK, Dir, Goes, Starting
<1>1. CASE Guarded
  <2>1. MarkChecked(dir) \in Directory
    BY <1>1 DEF Guarded, MarkChecked, Directory, Accepts, Verified, CheckedBefore
  <2> QED
    BY <1>1, <2>1 DEF Guarded
<1>2. CASE OrdinaryStart
  <2>1. [Taken(dir) EXCEPT !.tree.of = Live] \in Directory
    BY TakenType DEF Directory, Contents
  <2> QED
    BY <1>2, <2>1 DEF OrdinaryStart
<1>3. CASE Opens
  BY <1>3, TakenType DEF Opens
<1>4. CASE Unlinks
  BY <1>4 DEF Unlinks, Directory
<1>5. CASE ManifestRemoved \/ MarkRemoved \/ RecordRemoved
  BY <1>5 DEF ManifestRemoved, MarkRemoved, RecordRemoved, Directory
<1>6. CASE PanelStartFails
  <2>1. drawn' \in Bound
    BY <1>6, DrawType DEF PanelStartFails
  <2> QED
    BY <1>6, <2>1 DEF PanelStartFails, Closed, Directory
<1>7. CASE LinkMade
  <2>1. drawn' \in Bound
    BY <1>7, DrawType DEF LinkMade
  <2> QED
    BY <1>7, <2>1 DEF LinkMade, Directory
<1>8. CASE RowChanged
  <2>1. drawn' \in Bound
    BY <1>8, DrawType DEF RowChanged
  <2>2. dir' \in Directory
    BY <1>8 DEF RowChanged, Directory, Contents
  <2> QED
    BY <1>8, <2>1, <2>2 DEF RowChanged
<1>9. CASE TreeFollows \/ ResyncWrites
  BY <1>9 DEF TreeFollows, ResyncWrites, Directory, Contents
<1>10. CASE ResyncDone
  BY <1>10 DEF ResyncDone
<1> QED
  BY <1>1, <1>2, <1>3, <1>4, <1>5, <1>6, <1>7, <1>8, <1>9, <1>10 DEF Start

LEMMA EndsType ==
    ASSUME BTypeOK, BackupsInStep, ResyncFails \/ Stops \/ Killed \/ UNCHANGED bvars
    PROVE  BTypeOK'
<1> USE DEF BTypeOK, Dir, Goes
<1>1. CASE ResyncFails
  BY <1>1 DEF ResyncFails, Closed, Directory
<1>2. CASE Stops
  BY <1>2, LeftType DEF Stops, Directory
<1>3. CASE Killed
  <2>1. drawn' \in Bound
    BY <1>3, DrawType DEF Killed
  <2> QED
    BY <1>3, <2>1, LeftType DEF Killed
<1>4. CASE UNCHANGED bvars
  BY <1>4 DEF bvars
<1> QED
  BY <1>1, <1>2, <1>3, <1>4

LEMMA RestoreType ==
    ASSUME BTypeOK, BackupsInStep, UnpackInStep, [RestoreNext]_bvars
    PROVE  BTypeOK'
  BY OperatorType, BackupsType, StartType, EndsType DEF RestoreNext

-----------------------------------------------------------------------------
(* The restore: what each kind of step keeps. *)

\* The steps of a backup leave the directory and the start alone.
LEMMA BackupsKeep ==
    ASSUME RestoreInv, Backups
    PROVE  /\ UNCHANGED <<dir, unpack, pc, intact, restoring>>
           /\ BackupsInStep' /\ UnpackInStep'
<1> USE DEF RestoreInv, BackupsInStep, UnpackInStep, BTypeOK, Running
<1>1. UNCHANGED <<dir, unpack, pc, intact, restoring>>
  BY DEF Backups, Snapshot, Walked, CreateFails
<1>2. dir.record \in Archives => dir.record # None
  BY RestoreConstants
<1>3. ASSUME NEW a \in Archives, Snapshot(a) PROVE BackupsInStep' /\ UnpackInStep'
  <2>1. PICK by \in {"download", "command"}, sealed \in BOOLEAN :
          /\ making' = [of |-> a, by |-> by]
          /\ arch' = [arch EXCEPT ![a] = [db |-> dir.db.gen, tree |-> 0, links |-> dir.links,
                                          sealed |-> sealed, end |-> FALSE]]
    BY <1>3 DEF Snapshot
  <2>2. making'.of = a /\ arch'[a] \in Backup /\ ~ arch'[a].end
    BY <2>1 DEF Backup, Directory, Contents
  <2>3. dir.record # a
    BY <1>3, RestoreConstants DEF Snapshot
  <2>4. unpack = None
    BY <1>3 DEF Snapshot
  <2> QED
    BY <1>1, <1>3, <2>1, <2>2, <2>3, <2>4 DEF Snapshot
<1>4. CASE Walked
  <2>1. making.of \in Archives /\ arch[making.of] \in Backup /\ unpack = None
    BY <1>4 DEF Walked
  <2>2. arch'[making.of] \in Backup /\ arch'[making.of].end
    BY <1>4, <2>1 DEF Walked, Backup, Directory, Contents
  <2> QED
    BY <1>1, <1>4, <2>1, <2>2 DEF Walked
<1>5. CASE CreateFails
  <2>1. making.of \in Archives /\ ~ arch[making.of].end /\ unpack = None
    BY <1>5 DEF CreateFails
  <2> QED
    BY <1>1, <1>5, <2>1 DEF CreateFails, Left
<1> QED
  BY <1>1, <1>3, <1>4, <1>5 DEF Backups

\* What an entry writes.
LEMMA EntryWrites ==
    ASSUME BTypeOK, NEW a \in Archives, NEW n \in 1 .. 4
    PROVE  LET d == Entry(dir, a, n) IN
           /\ d.manifest = IF n = 1 THEN a ELSE dir.manifest
           /\ d.db.of = IF n = 2 THEN a ELSE dir.db.of
           /\ d.tree.of = IF n = 3 THEN a ELSE dir.tree.of
           /\ d.record = IF n = 4 THEN a ELSE dir.record
           /\ d.checked = dir.checked /\ d.wal = dir.wal
<1>1. n = 1 \/ n = 2 \/ n = 3 \/ n = 4
  OBVIOUS
<1> QED
  BY <1>1 DEF BTypeOK, Directory, Contents, Entry

\* The operator's tar.
LEMMA UnpacksKeep ==
    ASSUME RestoreInv, Unpacks
    PROVE  RestoreInv'
<1> USE DEF RestoreInv
<1>1. BTypeOK'
  BY RestoreType DEF RestoreNext, Operator
<1>2. PICK a \in Archives, n \in 1 .. 4 : unpack = [of |-> a, next |-> n]
  BY DEF Unpacks, BTypeOK, Tar
<1> DEFINE d == Entry(dir, a, n)
<1>3. /\ dir' = d /\ pc = "off" /\ restoring'
      /\ UNCHANGED <<arch, making, pc>>
      /\ unpack' = IF n = 4 THEN None ELSE [of |-> a, next |-> n + 1]
      /\ intact' = CASE n = 1 -> IF dir.checked = a THEN "over" ELSE "cut"
                     [] n = 4 /\ intact # "bad" -> IF dir.wal THEN "beside" ELSE "whole"
                     [] OTHER -> intact
  BY <1>2 DEF Unpacks, Dir, UnpackInStep
<1>4. /\ d.manifest = IF n = 1 THEN a ELSE dir.manifest
      /\ d.db.of = IF n = 2 THEN a ELSE dir.db.of
      /\ d.tree.of = IF n = 3 THEN a ELSE dir.tree.of
      /\ d.record = IF n = 4 THEN a ELSE dir.record
      /\ d.checked = dir.checked /\ d.wal = dir.wal
  BY EntryWrites
<1>5. arch[a] \in Backup /\ (n >= 3 => arch[a].end)
  BY <1>2 DEF UnpackInStep, Unpacks, Present
<1> HIDE DEF d
<1>6. BackupsInStep' /\ UnpackInStep'
  BY <1>3, <1>4, <1>5 DEF BackupsInStep, UnpackInStep, Running
<1>7. \/ n = 4 /\ ~ Amid'
      \/ n < 4 /\ Amid' /\ unpack'.of = a /\ unpack'.next = n + 1
  <2>1. n < 4 => [of |-> a, next |-> n + 1] \in Tar
    BY DEF Tar
  <2> QED
    BY <1>3, <2>1, RestoreConstants DEF Amid
<1>8. n > 1 =>
        /\ dir.manifest = a
        /\ intact \in {"cut", "bad", "over"}
        /\ intact # "over" => dir.checked # a
        /\ intact = "bad" => n = 4 /\ (dir.db.of = Part \/ dir.tree.of = Part)
        /\ intact # "bad" /\ n > 2 => dir.db.of = a
        /\ intact # "bad" /\ n > 3 => dir.tree.of = a
  BY <1>2 DEF AmidInv, Amid, Unpacks
<1>9. AmidInv'
  BY <1>3, <1>4, <1>7, <1>8 DEF AmidInv
<1>10. OnlyWholeChecks'
  <2>1. CASE n = 4
    <3>1. d.manifest = a /\ d.record = a /\ a # None /\ a # Part
      BY <1>4, <1>8, <2>1, RestoreConstants
    <3>2. ~ CheckedBefore(d) /\ (Verified(d) <=> d.db.of = a /\ d.tree.of = a)
      BY <3>1 DEF CheckedBefore, Verified
    <3> QED
      BY <1>3, <1>4, <1>8, <2>1, <3>1, <3>2 DEF OnlyWholeChecks, Checks
  <2>2. CASE n < 4
    BY <1>7, <2>2 DEF OnlyWholeChecks
  <2> QED
    BY <2>1, <2>2
<1>11. StartInStep' /\ HealedInStep'
  BY <1>3, <1>4, <1>8, RestoreConstants DEF StartInStep, HealedInStep
<1> QED
  BY <1>1, <1>6, <1>9, <1>10, <1>11

LEMMA TarStopsKeep ==
    ASSUME RestoreInv, Stopped \/ RanOut
    PROVE  RestoreInv'
<1> USE DEF RestoreInv
<1>1. BTypeOK'
  BY RestoreType DEF RestoreNext, Operator
<1>2. PICK a \in Archives, n \in 1 .. 4 : unpack = [of |-> a, next |-> n]
  BY DEF Stopped, RanOut, BTypeOK, Tar
<1>3. pc = "off" /\ unpack # None /\ unpack' = None /\ UNCHANGED <<arch, making, pc, intact, restoring>>
  BY DEF Stopped, RanOut, UnpackInStep
<1>4. /\ dir'.manifest = dir.manifest /\ dir'.checked = dir.checked /\ dir'.wal = dir.wal
      /\ dir'.record = dir.record \/ dir'.record = Part
  BY DEF Stopped, RanOut, Dir, BTypeOK, Directory
<1>5. n = 1 => dir' = dir
  BY <1>2 DEF Stopped, RanOut, Dir
<1>6. BackupsInStep' /\ UnpackInStep' /\ AmidInv'
  BY <1>3, <1>4, RestoreConstants DEF BackupsInStep, UnpackInStep, AmidInv, Amid, Running
<1>7. StartInStep'
  BY <1>3 DEF StartInStep
<1>8. n > 1 =>
        /\ dir.manifest = a /\ a # None /\ a # Part
        /\ intact \in {"cut", "bad", "over"}
        /\ intact # "over" => dir.checked # a
  BY <1>2, <1>3, RestoreConstants DEF AmidInv, Amid
<1>9. HealedInStep'
  BY <1>3, <1>4, <1>5, <1>8 DEF HealedInStep
<1>10. OnlyWholeChecks'
  <2>1. CASE n = 1
    <3>1. ~ Amid
      BY <1>2, <2>1 DEF Amid
    <3> QED
      BY <1>3, <1>5, <2>1, <3>1 DEF OnlyWholeChecks, Checks, CheckedBefore, Verified
  <2>2. CASE n > 1
    <3>1. ~ Verified(dir')
      <4>1. CASE Stopped
        BY <1>2, <1>4, <1>8, <2>2, <4>1
        DEF Verified, Stopped, Dir, Damaged, BTypeOK, Directory, Contents
      <4>2. CASE RanOut
        <5>1. arch[a] \in Backup /\ ~ arch[a].end /\ dir' = dir
          BY <1>2, <4>2 DEF RanOut, Present, UnpackInStep
        <5>2. dir.record # a
          BY <5>1 DEF BackupsInStep
        <5> QED
          BY <1>8, <2>2, <5>1, <5>2 DEF Verified
      <4> QED
        BY <4>1, <4>2
    <3>2. CheckedBefore(dir') => intact = "over"
      BY <1>4, <1>8, <2>2 DEF CheckedBefore
    <3> QED
      BY <1>3, <1>8, <2>2, <3>1, <3>2 DEF OnlyWholeChecks, Checks
  <2> QED
    BY <2>1, <2>2
<1> QED
  BY <1>1, <1>6, <1>7, <1>9, <1>10

LEMMA UnpackBeginsKeep ==
    ASSUME RestoreInv, NEW a \in Archives, Unpack(a)
    PROVE  RestoreInv'
<1> USE DEF RestoreInv
<1>1. BTypeOK'
  BY RestoreType DEF RestoreNext, Operator
<1>2. /\ pc = "off" /\ unpack = None /\ arch[a] \in Backup
      /\ unpack' = [of |-> a, next |-> 1]
      /\ dir' = Empty \/ dir' = dir
      /\ UNCHANGED <<arch, making, pc, intact, restoring>>
  BY DEF Unpack, Dir, BTypeOK
<1>3. ~ Amid /\ ~ Amid'
  BY <1>2 DEF Amid
<1>4. BackupsInStep' /\ UnpackInStep' /\ AmidInv'
  BY <1>2, <1>3, RestoreConstants DEF BackupsInStep, UnpackInStep, AmidInv, Empty, Running
<1>5. StartInStep'
  BY <1>2 DEF StartInStep
<1>6. OnlyWholeChecks'
  BY <1>2, <1>3 DEF OnlyWholeChecks, Empty, Checks, CheckedBefore, Verified
<1>7. HealedInStep'
  BY <1>2 DEF HealedInStep, Empty, Nothing
<1> QED
  BY <1>1, <1>4, <1>5, <1>6, <1>7

LEMMA DamagesKeep ==
    ASSUME RestoreInv, Damages
    PROVE  RestoreInv'
<1> USE DEF RestoreInv
<1>1. BTypeOK'
  BY RestoreType DEF RestoreNext, Operator
<1>2. PICK a \in Archives : unpack = [of |-> a, next |-> 4]
  BY DEF Damages, BTypeOK, Tar
<1>3. /\ Amid /\ Amid' /\ pc = "off" /\ intact = "cut" /\ intact' = "bad"
      /\ UNCHANGED <<arch, making, unpack, pc, restoring>>
  BY <1>2 DEF Damages, Amid, UnpackInStep
<1>4. /\ dir'.manifest = dir.manifest /\ dir'.checked = dir.checked
      /\ dir'.record = dir.record
      /\ dir'.db.of = Part \/ dir'.tree.of = Part
  BY DEF Damages, Dir, Damaged, BTypeOK, Directory
<1>5. BackupsInStep' /\ UnpackInStep'
  BY <1>3, <1>4 DEF BackupsInStep, UnpackInStep, Running
<1>6. AmidInv'
  BY <1>2, <1>3, <1>4 DEF AmidInv
<1>7. OnlyWholeChecks' /\ StartInStep'
  BY <1>3 DEF OnlyWholeChecks, StartInStep
<1>8. HealedInStep'
  BY <1>2, <1>3, <1>4, RestoreConstants DEF HealedInStep, AmidInv
<1> QED
  BY <1>1, <1>5, <1>6, <1>7, <1>8

\* A panel that goes off in the middle of a start leaves a directory that the
\* next start accepts, or one that is healed already.
LEMMA GoesOff ==
    ASSUME RestoreInv, pc # "off", pc' = "off",
           UNCHANGED <<unpack, intact, restoring>>,
           dir'.manifest = dir.manifest, dir'.record = dir.record,
           dir'.checked = dir.checked, dir'.tree = dir.tree, dir'.db = dir.db,
           dir'.links = dir.links
    PROVE  OnlyWholeChecks' /\ StartInStep' /\ HealedInStep'
<1>1. StartInStep'
  BY DEF StartInStep
<1>2. restoring /\ dir.manifest = None => pc \in {"noManifest", "noMark"}
  BY DEF RestoreInv, StartInStep
<1>3. HealedInStep'
  BY <1>2 DEF RestoreInv, HealedInStep
<1>4. restoring => intact \in {"whole", "over"}
  BY DEF RestoreInv, StartInStep
<1>5. restoring /\ dir.manifest # None => dir'.record = None /\ dir'.checked = dir'.manifest
  BY DEF RestoreInv, StartInStep
<1>6. OnlyWholeChecks'
  BY <1>4, <1>5 DEF OnlyWholeChecks, Checks, CheckedBefore
<1> QED
  BY <1>1, <1>3, <1>6

\* A step of the running panel or of its start, none of the tar's.
LEMMA PanelLeavesTar ==
    ASSUME RestoreInv,
           \/ Start \/ LinkMade \/ RowChanged \/ TreeFollows \/ ResyncWrites
           \/ ResyncDone \/ ResyncFails
    PROVE  /\ UNCHANGED <<arch, making, unpack, intact>> /\ unpack = None
           /\ UnpackInStep' /\ AmidInv' /\ ~ Amid'
<1>1. UNCHANGED <<arch, making, unpack, intact>>
  BY DEF Start, Guarded, OrdinaryStart, Opens, Unlinks, ManifestRemoved, MarkRemoved,
         RecordRemoved, PanelStartFails, LinkMade, RowChanged, TreeFollows, ResyncWrites,
         ResyncDone, ResyncFails
<1>2. unpack = None
  BY DEF Start, Guarded, OrdinaryStart, Opens, Unlinks, ManifestRemoved, MarkRemoved,
         RecordRemoved, PanelStartFails, LinkMade, RowChanged, TreeFollows, ResyncWrites,
         ResyncDone, ResyncFails, Begins, RestoreInv, UnpackInStep, Starting
<1> QED
  BY <1>1, <1>2 DEF UnpackInStep, AmidInv, Amid

\* A backup is not made beside a start.
LEMMA PanelKeepsBackups ==
    ASSUME RestoreInv,
           \/ Start \/ LinkMade \/ RowChanged \/ TreeFollows \/ ResyncWrites
           \/ ResyncDone \/ ResyncFails
    PROVE  BackupsInStep'
<1> USE DEF RestoreInv, BTypeOK, Directory
<1>1. \/ making = None
      \/ Running /\ pc' \in {"roles", "changing"}
  BY DEF Start, Guarded, OrdinaryStart, Opens, Unlinks, ManifestRemoved, MarkRemoved,
         RecordRemoved, PanelStartFails, LinkMade, RowChanged, TreeFollows, ResyncWrites,
         ResyncDone, ResyncFails, Begins, Starting, BackupsInStep, Running, Goes
<1>2. dir'.record = dir.record \/ dir'.record = None
  BY DEF Start, Guarded, OrdinaryStart, Opens, Unlinks, ManifestRemoved, MarkRemoved,
         RecordRemoved, PanelStartFails, LinkMade, RowChanged, TreeFollows, ResyncWrites,
         ResyncDone, ResyncFails, Dir, Taken, MarkChecked, Closed
<1> QED
  BY <1>1, <1>2, PanelLeavesTar, RestoreConstants DEF BackupsInStep, Running

LEMMA PanelKeeps ==
    ASSUME RestoreInv,
           \/ Start \/ LinkMade \/ RowChanged \/ TreeFollows \/ ResyncWrites
           \/ ResyncDone \/ ResyncFails
    PROVE  RestoreInv'
<1> USE DEF RestoreInv
<1>1. BTypeOK'
  BY RestoreType DEF RestoreNext
<1>2. BackupsInStep' /\ UnpackInStep' /\ AmidInv' /\ ~ Amid' /\ ~ Amid
      /\ UNCHANGED <<unpack, intact>>
  BY PanelLeavesTar, PanelKeepsBackups DEF Amid
<1> SUFFICES OnlyWholeChecks' /\ StartInStep' /\ HealedInStep'
  BY <1>1, <1>2
<1> USE DEF BTypeOK, Directory, Dir, Goes
<1>3. CASE Guarded
  <2>1. restoring => Checks(dir) /\ dir.manifest # None /\ intact \in {"whole", "over"}
    BY <1>2, <1>3 DEF Guarded, Begins, Accepts, Checks, OnlyWholeChecks
  <2>2. /\ pc' = "guarded" /\ restoring' = restoring /\ dir' = MarkChecked(dir)
    BY <1>3 DEF Guarded
  <2>3. Checks(dir) =>
          /\ dir'.manifest = dir.manifest /\ dir'.record = None
          /\ dir'.checked = dir'.manifest
    BY <2>2 DEF MarkChecked, Checks, CheckedBefore, Verified
  <2> QED
    BY <1>2, <2>1, <2>2, <2>3 DEF OnlyWholeChecks, StartInStep, HealedInStep, Starting
<1>4. CASE OrdinaryStart \/ RecordRemoved
  BY <1>4 DEF OrdinaryStart, RecordRemoved, OnlyWholeChecks, StartInStep, HealedInStep
<1>5. CASE Opens
  BY <1>2, <1>5 DEF Opens, Taken, OnlyWholeChecks, StartInStep, HealedInStep, Starting
<1>6. CASE Unlinks
  BY <1>2, <1>6 DEF Unlinks, OnlyWholeChecks, StartInStep, HealedInStep, Starting
<1>7. CASE ResyncWrites
  BY <1>2, <1>7 DEF ResyncWrites, OnlyWholeChecks, StartInStep, HealedInStep, Starting
<1>8. CASE ResyncDone
  BY <1>2, <1>8 DEF ResyncDone, OnlyWholeChecks, StartInStep, HealedInStep, Starting
<1>9. CASE ManifestRemoved
  BY <1>2, <1>9 DEF ManifestRemoved, OnlyWholeChecks, StartInStep, HealedInStep, Starting
<1>10. CASE MarkRemoved
  BY <1>2, <1>10 DEF MarkRemoved, OnlyWholeChecks, StartInStep, HealedInStep, Starting
<1>11. CASE PanelStartFails \/ ResyncFails
  <2>1. /\ pc # "off" /\ pc \in Starting /\ pc' = "off" /\ restoring' = restoring
        /\ dir' = Closed
    BY <1>11 DEF PanelStartFails, ResyncFails, Starting
  <2>2. /\ dir'.manifest = dir.manifest /\ dir'.record = dir.record
        /\ dir'.checked = dir.checked /\ dir'.tree = dir.tree /\ dir'.db = dir.db
        /\ dir'.links = dir.links
    BY <2>1 DEF Closed
  <2> QED
    BY <1>2, <2>1, <2>2, GoesOff
<1>12. CASE LinkMade \/ RowChanged \/ TreeFollows
  BY <1>12 DEF LinkMade, RowChanged, TreeFollows, OnlyWholeChecks, StartInStep, HealedInStep, Starting
<1> QED
  BY <1>1, <1>2, <1>3, <1>4, <1>5, <1>6, <1>7, <1>8, <1>9, <1>10, <1>11, <1>12 DEF Start

\* The panel stops or is killed; a backup under way is given up.
LEMMA EndsKeep ==
    ASSUME RestoreInv, Stops \/ Killed
    PROVE  RestoreInv'
<1> USE DEF RestoreInv
<1>1. BTypeOK'
  BY RestoreType DEF RestoreNext
<1>2. /\ pc # "off" /\ pc' = "off" /\ unpack = None /\ making' = None
      /\ UNCHANGED <<unpack, intact, restoring>>
      /\ arch' = IF making = None THEN arch ELSE Left
  BY DEF Stops, Killed, Goes, UnpackInStep
<1>3. /\ dir'.manifest = dir.manifest /\ dir'.record = dir.record
      /\ dir'.checked = dir.checked /\ dir'.tree = dir.tree /\ dir'.db = dir.db
      /\ dir'.links = dir.links
  BY DEF Stops, Killed, Dir, BTypeOK, Directory
<1>4. OnlyWholeChecks' /\ StartInStep' /\ HealedInStep'
  BY <1>2, <1>3, GoesOff
<1>5. BackupsInStep'
  <2>1. CASE making = None
    BY <1>2, <1>3, <2>1 DEF BackupsInStep
  <2>2. CASE making # None
    <3>1. dir.record \in Archives => dir.record # making.of
      BY <2>2 DEF BackupsInStep
    <3> QED
      BY <1>2, <1>3, <2>2, <3>1 DEF BackupsInStep, Left, BTypeOK
  <2> QED
    BY <2>1, <2>2
<1>6. UnpackInStep' /\ AmidInv'
  BY <1>2 DEF UnpackInStep, AmidInv, Amid
<1> QED
  BY <1>1, <1>4, <1>5, <1>6

LEMMA RestoreStep == RestoreInv /\ [RestoreNext]_bvars => RestoreInv'
<1> SUFFICES ASSUME RestoreInv, [RestoreNext]_bvars PROVE RestoreInv'
  OBVIOUS
<1>1. CASE Backups
  <2>1. BTypeOK'
    BY <1>1, RestoreType DEF RestoreInv, RestoreNext
  <2>2. UNCHANGED <<dir, unpack, pc, intact, restoring>> /\ BackupsInStep' /\ UnpackInStep'
    BY <1>1, BackupsKeep
  <2> QED
    BY <2>1, <2>2 DEF RestoreInv, AmidInv, Amid, OnlyWholeChecks, Checks, CheckedBefore,
                      Verified, StartInStep, HealedInStep
<1>2. CASE Operator
  BY <1>2, UnpacksKeep, TarStopsKeep, UnpackBeginsKeep, DamagesKeep DEF Operator
<1>3. CASE UNCHANGED bvars
  BY <1>3 DEF bvars, RestoreInv, BTypeOK, BackupsInStep, Running, UnpackInStep, AmidInv, Amid,
              OnlyWholeChecks, Checks, CheckedBefore, Verified, StartInStep, HealedInStep
<1> QED
  BY <1>1, <1>2, <1>3, PanelKeeps, EndsKeep DEF RestoreNext

LEMMA RestoreImplies == RestoreInv => WholeAndOnlyWholeOpens
<1> SUFFICES ASSUME RestoreInv PROVE HalfNeverOpened /\ WholeIsAccepted
  BY DEF WholeAndOnlyWholeOpens
<1>1. HalfNeverOpened
  BY DEF RestoreInv, StartInStep, HalfNeverOpened
<1>2. WholeIsAccepted
  <2> SUFFICES ASSUME restoring, intact = "whole", pc = "off", unpack = None,
                      dir.manifest \in Archives \ Foreign
               PROVE  Accepts(dir)
    BY DEF WholeIsAccepted
  <2>1. dir.manifest # None /\ ~ Amid
    BY RestoreConstants DEF Amid
  <2> QED
    BY <2>1 DEF RestoreInv, OnlyWholeChecks, Checks, Accepts
<1> QED
  BY <1>1, <1>2

LEMMA HealStep ==
    ASSUME RestoreInv, [RestoreNext]_bvars, restoring, ~ restoring'
    PROVE  dir'.tree.gen = dir'.db.gen /\ ~ dir'.links
<1> USE DEF RestoreInv, BTypeOK, Directory, Contents, Dir
<1>1. OrdinaryStart \/ RecordRemoved
  BY DEF RestoreNext, Start, Guarded, Opens, Unlinks, ManifestRemoved, MarkRemoved,
         PanelStartFails, LinkMade, RowChanged, TreeFollows, ResyncWrites, ResyncDone,
         ResyncFails, Backups, Snapshot, Walked, CreateFails, Operator, Unpack, Unpacks,
         Stopped, RanOut, Damages, Stops, Killed, bvars
<1>2. CASE OrdinaryStart
  <2>1. dir.tree.gen = dir.db.gen /\ ~ dir.links
    BY <1>2 DEF OrdinaryStart, Begins, HealedInStep
  <2>2. dir'.tree.gen = dir.tree.gen /\ dir'.db.gen = dir.db.gen /\ dir'.links = dir.links
    BY <1>2 DEF OrdinaryStart, Taken
  <2> QED
    BY <2>1, <2>2
<1>3. CASE RecordRemoved
  BY <1>3 DEF RecordRemoved, HealedInStep
<1> QED
  BY <1>1, <1>2, <1>3

\* A role runs on no archive that is not healed, and the sockets are there
\* only once the roles have run.
LEMMA SocketsStep == SocketsInv /\ RTypeOK /\ RestoreInv /\ [Next]_vars => SocketsInv'
<1> SUFFICES ASSUME SocketsInv, RTypeOK, RestoreInv, [Next]_vars PROVE SocketsInv'
  OBVIOUS
<1>0. sockets' \in BOOLEAN
  BY DEF SocketsInv, Next, vars, PanelSteps, OperatorSteps, RequestSaves, StartSaves, StartTold,
         Listens, PostfixStarts, ReloadSteps, PanelStops, PanelDies, ContainerStops
<1> SUFFICES sockets' \/ master'.up => ~ restoring'
  BY <1>0 DEF SocketsInv
<1> USE DEF SocketsInv
<1>1. ~ OperatorSteps => (restoring' => restoring)
  BY DEF Next, vars, bvars, PanelSteps, RequestSaves, StartSaves, StartTold, Listens,
         PostfixStarts, ReloadSteps, PanelStops, PanelDies, ContainerStops,
         Start, Guarded, OrdinaryStart, Opens, Unlinks, ManifestRemoved, MarkRemoved,
         RecordRemoved, PanelStartFails, LinkMade, RowChanged, TreeFollows, ResyncWrites,
         ResyncDone, ResyncFails, Backups, Snapshot, Walked, CreateFails, Stops, Killed
<1>2. CASE OperatorSteps
  BY <1>2 DEF OperatorSteps, rvars
<1>3. CASE Listens
  BY <1>1, <1>3 DEF Listens, OperatorSteps, Running, RestoreInv, StartInStep, Starting, bvars
<1>4. CASE ContainerStops
  BY <1>4 DEF ContainerStops, ContainerRestarts, RestoreInv, Killed, bvars,
              RTypeOK, MasterState
<1>5. CASE ~ OperatorSteps /\ (sockets' \/ master'.up => sockets \/ master.up)
  BY <1>1, <1>5
<1>6. CASE PanelSteps \/ StartTold \/ UNCHANGED vars
  BY <1>2, <1>5, <1>6 DEF PanelSteps, StartTold, rvars, vars
<1>7. CASE RequestSaves \/ StartSaves
  BY <1>2, <1>5, <1>7 DEF RequestSaves, StartSaves, Save
<1>8. CASE PostfixStarts
  BY <1>2, <1>5, <1>8 DEF PostfixStarts
<1>9. CASE ReloadSteps
  <2>1. master'.up => master.up
    <3>1. MasterStops => ~ master'.up
      BY DEF MasterStops, RTypeOK, MasterState
    <3>2. OneShot \/ Certificates => Hup \/ UNCHANGED master
      BY DEF OneShot, ProgChecks, ProgReloads, ProgEnds, ProgFails, SpawnRetried,
             Certificates, Renewed, Wakes, Looks, CopiesKey, MovesKey, MovesCert,
             PointsAtCopy, SetsPending, LoopReloads, LoopFails, LoopKilled
    <3>3. \A c \in Callers : Asks(c) => UNCHANGED master
      BY DEF Asks, Starts, StartFails, Refused, SeenEnded, GivesUp
    <3>4. Hup => (master'.up => master.up)
      BY DEF Hup
    <3> QED
      BY <1>9, <3>1, <3>2, <3>3, <3>4 DEF ReloadSteps
  <2> QED
    BY <1>2, <1>5, <1>9, <2>1 DEF ReloadSteps
<1>10. CASE PanelStops \/ PanelDies
  BY <1>2, <1>5, <1>10 DEF PanelStops, PanelDies, PanelKilled, rvars
<1> QED
  BY <1>2, <1>3, <1>4, <1>6, <1>7, <1>8, <1>9, <1>10 DEF Next

-----------------------------------------------------------------------------
(* The theorems about the types, the restore and the mail. *)

LEMMA RestoreAlways == Spec => []RestoreInv
<1>1. Init => RestoreInv
  BY RestoreInit DEF Init
<1>2. RestoreInv /\ [Next]_vars => RestoreInv'
  BY NextIsTwoSteps, RestoreStep
<1> QED
  BY <1>1, <1>2, PTL DEF Spec

LEMMA SocketsAlways == Spec => []SocketsInv
<1>1. Init => SocketsInv
  BY DEF Init, BInit, SocketsInv
<1>2. SocketsInv /\ RTypeOK /\ RestoreInv /\ [Next]_vars => SocketsInv'
  BY SocketsStep
<1>3. ReloadInv => RTypeOK
  BY DEF ReloadInv
<1> QED
  BY <1>1, <1>2, <1>3, ReloadAlways, RestoreAlways, PTL DEF Spec

\* Every variable of the container keeps its type.
THEOREM TypeCorrect == Spec => []TypeOK
<1>1. ReloadInv /\ RestoreInv /\ SocketsInv => TypeOK
  BY DEF ReloadInv, RestoreInv, SocketsInv, TypeOK
<1> QED
  BY <1>1, ReloadAlways, RestoreAlways, SocketsAlways, PTL

\* CheckRestore (internal/backup/contents.go) is neither too weak nor too
\* strict: a database is opened out of an archive only if the archive was
\* unpacked whole (or over its own checked restore), and an archive that was
\* is accepted by every start until one has finished.
THEOREM RestoreTheorem == Spec => []WholeAndOnlyWholeOpens
  BY RestoreAlways, RestoreImplies, PTL

\* When roles first run on an archive the maps follow its database and no
\* link of it works (cmd/panel/main.go, openData), however many starts
\* failed or were killed before, at whichever step.
THEOREM HealTheorem == Spec => FirstStartHeals
<1>1. RestoreInv /\ [Next]_vars =>
        [(restoring /\ ~ restoring') =>
           (dir'.tree.gen = dir'.db.gen /\ ~ dir'.links)]_bvars
  BY NextIsTwoSteps, HealStep
<1> QED
  BY <1>1, RestoreAlways, PTL DEF Spec, FirstStartHeals

\* Postfix runs on no archive that has not been healed (build/postfix-wrapper.sh
\* waits for the sockets the roles make): no mail flows by maps that drifted
\* from the restored database.
THEOREM MailTheorem == Spec => []MailWaitsForHealing
<1>1. SocketsInv => MailWaitsForHealing
  BY DEF SocketsInv, MailWaitsForHealing
<1> QED
  BY <1>1, SocketsAlways, PTL

-----------------------------------------------------------------------------
(* InboundJournal: what its invariant needs                                *)

Ending == {"expired", "removed"}
Refusing == {"reject", "verdict"}

\* A live message has a queue id of its own; a message has no result before it
\* is queued, and when it is gone either all its recipients have one or none.
PostOk ==
    /\ \A m \in Living : post[m].id \in Ids
    /\ \A m, n \in Living : post[m].id = post[n].id => m = n
    /\ \A m \in Msgs, x \in Rcpts : post[m].fate[x] # "none" => post[m].stage \in {"queued", "gone"}
    /\ \A m \in Msgs : post[m].stage = "gone" =>
          (\A x \in Rcpts : post[m].fate[x] \in Finals) \/ (\A x \in Rcpts : post[m].fate[x] = "none")

\* Line l says what became of message m for recipient x in the end, as things
\* stand.
Gives(l, m, x) ==
    /\ l.msg = m
    /\ \/ l.kind = "delivery" /\ l.rcpt = x /\ l.st = post[m].fate[x]
       \/ l.kind = "expired" /\ post[m].fate[x] = "bounced"
       \/ l.kind = "removed" /\ post[m].fate[x] = "none"

\* The lines of a message have its queue id.
OwnIds(L) ==
    /\ \A k \in DOMAIN L : /\ post[L[k].msg].stage # "new"
                           /\ L[k].msg \in Living => L[k].id = post[L[k].msg].id
    /\ \A j, k \in DOMAIN L : L[j].msg = L[k].msg => L[j].id = L[k].id

\* Nothing comes after the end of a message, and it has one of the two ends.
EndsLast(L) ==
    \A k \in DOMAIN L : L[k].kind \in Ending =>
        /\ post[L[k].msg].stage = "gone"
        /\ \A j \in DOMAIN L : L[j].msg = L[k].msg => j <= k
        /\ \A x \in Rcpts : IF L[k].kind = "expired" THEN post[L[k].msg].fate[x] \in Finals
                                                     ELSE post[L[k].msg].fate[x] = "none"

\* What a delivery line says is how it stands, or the attempt was put off and
\* a later line says how it stands.
DeliveriesTrue(L) ==
    \A k \in DOMAIN L : L[k].kind = "delivery" =>
        /\ L[k].rcpt \in Rcpts /\ L[k].st \in Results /\ post[L[k].msg].fate[L[k].rcpt] # "none"
        /\ \/ L[k].st = post[L[k].msg].fate[L[k].rcpt]
           \/ /\ L[k].st = "deferred"
              /\ \E j \in DOMAIN L : j > k /\ Gives(L[j], L[k].msg, L[k].rcpt)

\* A message is refused once.
RefusedOnce(L) ==
    \A k \in DOMAIN L : L[k].kind \in Refusing =>
        /\ post[L[k].msg].stage = "gone"
        /\ \A j \in DOMAIN L : L[j].kind \in Refusing /\ L[j].msg = L[k].msg => j = k

LinesOk(L) == OwnIds(L) /\ EndsLast(L) /\ DeliveriesTrue(L) /\ RefusedOnce(L)

\* A row's queue id is its message's, and lines of other messages with that id
\* come after all of its own.
RowIds(r, L) ==
    /\ r.msg \in Living =>
          r.id = post[r.msg].id /\ \A j \in DOMAIN L : L[j].id = r.id => L[j].msg = r.msg
    /\ \A j, k \in DOMAIN L : L[k].msg = r.msg /\ L[j].id = L[k].id /\ L[j].msg # r.msg => k < j
    /\ r.id # Nil => \A k \in DOMAIN L : L[k].msg = r.msg => L[k].id = r.id

\* A row shows how it stands, or a line to come will have it shown.
RowShows(r, L, p) ==
    \/ r.st = Shown(r.msg, r.rcpt)
    \/ /\ r.st \in Open /\ r.id # Nil
       /\ \E k \in DOMAIN L : k > p /\ Gives(L[k], r.msg, r.rcpt)

RowOk(r, L, p) == r.msg \in crossed \/ (RowIds(r, L) /\ RowShows(r, L, p))

RowsOk ==
    /\ \A r \in rows : post[r.msg].stage \notin {"new", "open", "asked", "forgot"}
    /\ \A r, n \in rows : r.msg = n.msg /\ r.rcpt = n.rcpt => r = n
    /\ \A r \in rows : RowOk(r, log, pos)

RefusalsOk ==
    /\ \A m \in Msgs : refused[m] <= 1 /\ (refused[m] > 0 => post[m].stage = "gone")
    /\ up /\ ~catching => \A k \in DOMAIN log :
          k > pos /\ log[k].kind \in Refusing => refused[log[k].msg] = 0

\* Arrivals are numbered without a gap, and an id that came as one of the last
\* few has the number of its arrival there.
Numbered(o) == \A i \in DOMAIN o : o[i].seq = o[1].seq + i - 1
ArrivalsOk ==
    /\ Numbered(order)
    /\ \A q \in Ids : fresh[q] < inboundQueueIDs =>
          fresh[q] < Len(order) /\ port25[q] = order[Len(order) - fresh[q]].seq

InboundInv == InboundTypeOK /\ PostOk /\ LinesOk(log) /\ RowsOk /\ RefusalsOk /\ ArrivalsOk

-----------------------------------------------------------------------------
(* A message moves on, with the lines Postfix writes of it                 *)

Message == [stage : Stages, id : Ids \cup {Nil}, fate : [Rcpts -> Fates]]

\* Only message n moves.
MovesOn(n) ==
    /\ post' \in [Msgs -> Message] /\ \A m \in Msgs : m # n => post'[m] = post[m]
    /\ post[n].stage # "gone" /\ post'[n].stage # "new"
    /\ n \in Living /\ post'[n].stage # "gone" => post'[n].id = post[n].id
    /\ n \notin Living /\ post'[n].stage # "gone" => post'[n].id \in FreeIds
    /\ \A x \in Rcpts :
          /\ post'[n].fate[x] # post[n].fate[x] =>
                post[n].fate[x] \in {"none", "deferred"} /\ post'[n].fate[x] # "none"
          /\ post'[n].fate[x] # "none" => post'[n].stage \in {"queued", "gone"}
    /\ post'[n].stage = "gone" =>
          (\A x \in Rcpts : post'[n].fate[x] \in Finals) \/ (\A x \in Rcpts : post'[n].fate[x] = "none")

\* The lines written with that are of n and have its queue id.
Added(k) == k \in DOMAIN log' /\ k > Len(log)
Adds(n) ==
    /\ log' \in Seq(LogLine) /\ Len(log') >= Len(log)
    /\ \A k \in DOMAIN log : log'[k] = log[k]
    /\ \A k : Added(k) =>
          /\ log'[k].msg = n
          /\ IF n \in Living THEN log'[k].id = post[n].id ELSE log'[k].id \in FreeIds \cup {Nil}
          /\ post'[n].stage # "gone" => log'[k].id = post'[n].id
    /\ \A j, k : Added(j) /\ Added(k) => log'[j].id = log'[k].id

\* They say what becomes of it.
Changed(n, x) ==
    \/ post'[n].fate[x] # post[n].fate[x]
    \/ post[n].stage \notin {"new", "open"} /\ post'[n].stage = "gone" /\ post'[n].fate[x] = "none"
Says(n) ==
    /\ \A k : Added(k) =>
          /\ log'[k].kind \in Ending =>
                /\ k = Len(log') /\ post'[n].stage = "gone"
                /\ \A x \in Rcpts : IF log'[k].kind = "expired" THEN post'[n].fate[x] \in Finals
                                                                ELSE post'[n].fate[x] = "none"
          /\ log'[k].kind = "delivery" =>
                log'[k].rcpt \in Rcpts /\ log'[k].st \in Results /\ log'[k].st = post'[n].fate[log'[k].rcpt]
          /\ log'[k].kind \in Refusing =>
                post'[n].stage = "gone" /\ \A j : Added(j) /\ log'[j].kind \in Refusing => j = k
    /\ \A x \in Rcpts : Changed(n, x) => \E k : Added(k) /\ Gives(log[k], n, x)'

Reported(n) == MovesOn(n) /\ Adds(n) /\ Says(n)

LEMMA MailFacts ==
  ASSUME MailTyped
  PROVE  /\ Len(log) \in Nat /\ DOMAIN log = 1 .. Len(log) /\ pos \in Nat /\ pos <= Len(log)
         /\ \A k \in DOMAIN log : log[k] \in LogLine /\ log[k].msg \in Msgs
         /\ post \in [Msgs -> Message] /\ \A m \in Msgs : post[m] \in Message
<1>1. Len(log) \in Nat /\ DOMAIN log = 1 .. Len(log) /\ pos \in Nat /\ pos <= Len(log)
  BY DEF MailTyped
<1>2. ASSUME NEW k \in DOMAIN log PROVE log[k] \in LogLine /\ log[k].msg \in Msgs
  <2>1. log[k] \in LogLine
    BY <1>1 DEF MailTyped
  <2> QED BY <2>1 DEF LogLine, Written
<1>3. post \in [Msgs -> Message]
  BY DEF MailTyped, Message
<1> QED BY <1>1, <1>2, <1>3

LEMMA AddFacts ==
  ASSUME MailTyped, NEW n, Adds(n)
  PROVE  /\ Len(log') \in Nat /\ DOMAIN log' = 1 .. Len(log') /\ Len(log) <= Len(log')
         /\ \A k \in DOMAIN log' : Added(k) \/ (k \in DOMAIN log /\ log'[k] = log[k])
         /\ \A k : Added(k) => k \in Nat /\ k > Len(log) /\ k <= Len(log') /\ k \notin DOMAIN log
         /\ DOMAIN log \subseteq DOMAIN log'
  BY MailFacts DEF Adds, Added

LEMMA PostMoves ==
  ASSUME MailTyped, PostOk, NEW n \in Msgs, MovesOn(n)
  PROVE  PostOk'
<1>1. \A m \in Living' : m # n => m \in Living /\ post'[m] = post[m]
  BY DEF Living, MovesOn
<1>2. n \in Living' => post'[n].id \in Ids /\ \A m \in Living : m # n => post[m].id # post'[n].id
  <2>1. CASE n \in Living
    BY <2>1 DEF Living, MovesOn, PostOk
  <2>2. CASE n \notin Living
    BY <2>2 DEF Living, MovesOn, FreeIds
  <2> QED BY <2>1, <2>2
<1>3. \A m \in Living' : post'[m].id \in Ids
  BY <1>1, <1>2 DEF PostOk
<1>4. ASSUME NEW m \in Living', NEW o \in Living', post'[m].id = post'[o].id
      PROVE  m = o
  BY <1>1, <1>2, <1>4 DEF PostOk
<1>5. \A m \in Msgs, x \in Rcpts : post'[m].fate[x] # "none" => post'[m].stage \in {"queued", "gone"}
  BY DEF MovesOn, PostOk
<1>6. \A m \in Msgs : post'[m].stage = "gone" =>
          (\A x \in Rcpts : post'[m].fate[x] \in Finals) \/ (\A x \in Rcpts : post'[m].fate[x] = "none")
  BY DEF MovesOn, PostOk
<1> QED BY <1>3, <1>4, <1>5, <1>6 DEF PostOk

\* A message of before is not the one that moves, or it was live.
LEMMA HadLine ==
  ASSUME MailTyped, LinesOk(log), NEW n \in Msgs, MovesOn(n), NEW k \in DOMAIN log, log[k].msg = n
  PROVE  n \in Living /\ log[k].id = post[n].id
  BY MailFacts DEF LinesOk, OwnIds, MovesOn, Living

LEMMA SameGives ==
  ASSUME MailTyped, NEW n \in Msgs, MovesOn(n), NEW m \in Msgs, m # n, NEW k, NEW l, l = log[k], l = log'[k], NEW x
  PROVE  Gives(log[k], m, x)' <=> Gives(log[k], m, x)
  BY DEF Gives, MovesOn

LEMMA LinesTold ==
  ASSUME MailTyped, PostOk, LinesOk(log), NEW n \in Msgs, Reported(n)
  PROVE  LinesOk(log)'
<1> USE DEF Reported
<1>1. OwnIds(log)'
  <2>1. ASSUME NEW k \in DOMAIN log'
        PROVE  post'[log'[k].msg].stage # "new" /\ (log'[k].msg \in Living' => log'[k].id = post'[log'[k].msg].id)
    <3>1. CASE Added(k)
      BY <3>1 DEF Adds, MovesOn, Living
    <3>2. CASE k \in DOMAIN log /\ log'[k] = log[k]
      <4>1. CASE log[k].msg = n
        BY <3>2, <4>1, HadLine DEF MovesOn, Living
      <4>2. CASE log[k].msg # n
        <5>1. log[k].msg \in Msgs
          BY <3>2, MailFacts
        <5> QED BY <3>2, <4>2, <5>1 DEF MovesOn, Living, LinesOk, OwnIds
      <4> QED BY <4>1, <4>2
    <3> QED BY <3>1, <3>2, AddFacts
  <2>2. ASSUME NEW j \in DOMAIN log', NEW k \in DOMAIN log', log'[j].msg = log'[k].msg
        PROVE  log'[j].id = log'[k].id
    <3>1. ASSUME NEW a \in DOMAIN log', NEW b, Added(b), a \in DOMAIN log /\ log'[a] = log[a], log'[a].msg = log'[b].msg
          PROVE  log'[a].id = log'[b].id
      <4>1. log[a].msg = n
        BY <3>1 DEF Adds
      <4> QED BY <3>1, <4>1, HadLine DEF Adds
    <3>2. CASE Added(j) /\ Added(k)
      BY <3>2 DEF Adds
    <3>3. CASE Added(j) /\ ~Added(k)
      BY <2>2, <3>1, <3>3, AddFacts
    <3>4. CASE ~Added(j) /\ Added(k)
      BY <2>2, <3>1, <3>4, AddFacts
    <3>5. CASE ~Added(j) /\ ~Added(k)
      BY <2>2, <3>5, AddFacts DEF LinesOk, OwnIds
    <3> QED BY <3>2, <3>3, <3>4, <3>5
  <2> QED BY <2>1, <2>2 DEF OwnIds
<1>2. EndsLast(log)'
  <2> SUFFICES ASSUME NEW k \in DOMAIN log', log'[k].kind \in Ending
               PROVE  /\ post'[log'[k].msg].stage = "gone"
                      /\ \A j \in DOMAIN log' : log'[j].msg = log'[k].msg => j <= k
                      /\ \A x \in Rcpts : IF log'[k].kind = "expired" THEN post'[log'[k].msg].fate[x] \in Finals
                                                                      ELSE post'[log'[k].msg].fate[x] = "none"
    BY DEF EndsLast
  <2>1. CASE Added(k)
    <3>1. log'[k].msg = n /\ k = Len(log') /\ post'[n].stage = "gone"
          /\ \A x \in Rcpts : IF log'[k].kind = "expired" THEN post'[n].fate[x] \in Finals ELSE post'[n].fate[x] = "none"
      BY <2>1 DEF Adds, Says
    <3> QED BY <3>1, AddFacts
  <2>2. CASE k \in DOMAIN log /\ log'[k] = log[k]
    <3>1. log[k].msg \in Msgs /\ post[log[k].msg].stage = "gone"
      BY <2>2, MailFacts DEF LinesOk, EndsLast
    <3>2. log[k].msg # n /\ post'[log[k].msg] = post[log[k].msg]
      BY <3>1 DEF MovesOn
    <3>3. ASSUME NEW j \in DOMAIN log', log'[j].msg = log'[k].msg PROVE j <= k
      <4>1. ~Added(j)
        BY <2>2, <3>2, <3>3 DEF Adds
      <4> QED BY <2>2, <3>3, <4>1, AddFacts DEF LinesOk, EndsLast
    <3>4. \A x \in Rcpts : IF log'[k].kind = "expired" THEN post'[log'[k].msg].fate[x] \in Finals
                                                       ELSE post'[log'[k].msg].fate[x] = "none"
      BY <2>2, <3>2 DEF LinesOk, EndsLast
    <3> QED BY <2>2, <3>1, <3>2, <3>3, <3>4
  <2> QED BY <2>1, <2>2, AddFacts
<1>3. DeliveriesTrue(log)'
  <2> SUFFICES ASSUME NEW k \in DOMAIN log', log'[k].kind = "delivery"
               PROVE  /\ log'[k].rcpt \in Rcpts /\ log'[k].st \in Results
                      /\ post'[log'[k].msg].fate[log'[k].rcpt] # "none"
                      /\ \/ log'[k].st = post'[log'[k].msg].fate[log'[k].rcpt]
                         \/ /\ log'[k].st = "deferred"
                            /\ \E j \in DOMAIN log' : j > k /\ Gives(log[j], log[k].msg, log[k].rcpt)'
    BY DEF DeliveriesTrue
  <2>1. CASE Added(k)
    BY <2>1, JournalAssumption DEF Adds, Says
  <2>2. CASE k \in DOMAIN log /\ log'[k] = log[k]
    <3>0. log[k].msg \in Msgs /\ log[k].rcpt \in Rcpts
      BY <2>2, MailFacts DEF LinesOk, DeliveriesTrue
    <3> PICK m \in Msgs : m = log[k].msg
      BY <3>0
    <3> PICK x \in Rcpts : x = log[k].rcpt
      BY <3>0
    <3>1. m \in Msgs /\ x \in Rcpts /\ log[k].st \in Results /\ post[m].fate[x] # "none"
      BY <2>2, MailFacts DEF LinesOk, DeliveriesTrue
    <3>2. \/ log[k].st = post[m].fate[x]
          \/ /\ log[k].st = "deferred"
             /\ \E j \in DOMAIN log : j > k /\ Gives(log[j], m, x)
      BY <2>2 DEF LinesOk, DeliveriesTrue
    <3>3. CASE post'[m].fate[x] = post[m].fate[x]
      <4>1. ASSUME NEW j \in DOMAIN log, Gives(log[j], m, x) PROVE Gives(log[j], log[k].msg, log[k].rcpt)'
        BY <2>2, <3>3, <4>1 DEF Gives, Adds
      <4>2. CASE log[k].st = post[m].fate[x]
        BY <2>2, <3>1, <3>3, <4>2
      <4>3. CASE log[k].st = "deferred" /\ \E j \in DOMAIN log : j > k /\ Gives(log[j], m, x)
        BY <2>2, <3>1, <3>3, <4>1, <4>3, AddFacts
      <4> QED BY <3>2, <4>2, <4>3
    <3>4. CASE post'[m].fate[x] # post[m].fate[x]
      <4>1. m = n /\ post[m].fate[x] = "deferred"
        BY <3>1, <3>4 DEF MovesOn
      <4>2. log[k].st = "deferred"
        BY <3>2, <4>1
      <4>3. PICK j : Added(j) /\ Gives(log[j], n, x)'
        BY <3>1, <3>4, <4>1 DEF Says, Changed
      <4>4. j \in DOMAIN log' /\ j > k
        BY <2>2, <4>3, AddFacts, MailFacts
      <4>5. post'[m].fate[x] # "none"
        BY <3>4, <4>1 DEF MovesOn
      <4>6. Gives(log[j], log[k].msg, log[k].rcpt)'
        BY <2>2, <4>1, <4>3
      <4> QED BY <2>2, <3>1, <4>2, <4>4, <4>5, <4>6
    <3> QED BY <3>3, <3>4
  <2> QED BY <2>1, <2>2, AddFacts
<1>4. RefusedOnce(log)'
  <2> SUFFICES ASSUME NEW k \in DOMAIN log', log'[k].kind \in Refusing
               PROVE  /\ post'[log'[k].msg].stage = "gone"
                      /\ \A j \in DOMAIN log' : log'[j].kind \in Refusing /\ log'[j].msg = log'[k].msg => j = k
    BY DEF RefusedOnce
  <2>1. ASSUME NEW j \in DOMAIN log, log[j].kind \in Refusing
        PROVE  log[j].msg \in Msgs /\ log[j].msg # n /\ post'[log[j].msg].stage = "gone"
    BY <2>1, MailFacts DEF LinesOk, RefusedOnce, MovesOn
  <2>2. CASE Added(k)
    <3>1. log'[k].msg = n /\ post'[n].stage = "gone"
      BY <2>2 DEF Adds, Says
    <3>2. ASSUME NEW j \in DOMAIN log', log'[j].kind \in Refusing, log'[j].msg = n PROVE j = k
      <4>1. Added(j)
        BY <2>1, <3>2, AddFacts
      <4> QED BY <2>2, <3>2, <4>1 DEF Says
    <3> QED BY <3>1, <3>2
  <2>3. CASE k \in DOMAIN log /\ log'[k] = log[k]
    <3>1. log[k].msg # n /\ post'[log[k].msg].stage = "gone"
      BY <2>1, <2>3
    <3>2. ASSUME NEW j \in DOMAIN log', log'[j].kind \in Refusing, log'[j].msg = log[k].msg PROVE j = k
      <4>1. ~Added(j)
        BY <3>1, <3>2 DEF Adds
      <4> QED BY <2>3, <3>2, <4>1, AddFacts DEF LinesOk, RefusedOnce
    <3> QED BY <2>3, <3>1, <3>2
  <2> QED BY <2>2, <2>3, AddFacts
<1> QED BY <1>1, <1>2, <1>3, <1>4 DEF LinesOk

-----------------------------------------------------------------------------
(* A row while its message, or another, moves on                           *)

LEMMA RowFacts ==
  ASSUME NEW r \in Row
  PROVE  r.msg \in Msgs /\ r.rcpt \in Rcpts /\ r.id \in Ids \cup {Nil} /\ r.st \in Open \cup Finals \cup {""}
  BY DEF Row

LEMMA RowOfAnother ==
  ASSUME MailTyped, PostOk, LinesOk(log), NEW n \in Msgs, Reported(n), NEW r \in Row, r.msg # n, pos' = pos,
         RowIds(r, log), RowShows(r, log, pos)
  PROVE  RowIds(r, log)' /\ RowShows(r, log, pos)'
<1> USE DEF Reported
<1>0. r.msg \in Msgs /\ r.rcpt \in Rcpts /\ post'[r.msg] = post[r.msg]
  BY RowFacts DEF MovesOn
<1>1. r.msg \in Living' <=> r.msg \in Living
  BY <1>0 DEF Living
<1>2. ASSUME r.msg \in Living, NEW k, Added(k) PROVE log'[k].id # r.id
  <2>1. r.id = post[r.msg].id /\ r.id \in Ids
    BY <1>2 DEF RowIds, PostOk
  <2>2. CASE n \in Living
    BY <1>2, <2>1, <2>2 DEF Adds, PostOk
  <2>3. CASE n \notin Living
    <3>1. log'[k].id \in FreeIds \cup {Nil}
      BY <1>2, <2>3 DEF Adds
    <3> QED BY <1>2, <2>1, <3>1, JournalAssumption DEF FreeIds
  <2> QED BY <2>2, <2>3
<1>3. ASSUME NEW k \in DOMAIN log', log'[k].msg = r.msg PROVE k \in DOMAIN log /\ log'[k] = log[k] /\ ~Added(k)
  BY <1>3, AddFacts DEF Adds
<1>4. r.msg \in Living =>
          r.id = post[r.msg].id /\ \A j \in DOMAIN log' : log'[j].id = r.id => log'[j].msg = r.msg
  BY <1>2, AddFacts DEF RowIds
<1>5. ASSUME NEW j \in DOMAIN log', NEW k \in DOMAIN log', log'[k].msg = r.msg, log'[j].id = log'[k].id, log'[j].msg # r.msg
      PROVE  k < j
  <2>1. CASE Added(j)
    BY <1>3, <1>5, <2>1, AddFacts, MailFacts
  <2>2. CASE j \in DOMAIN log /\ log'[j] = log[j]
    BY <1>3, <1>5, <2>2 DEF RowIds
  <2> QED BY <2>1, <2>2, AddFacts
<1>6. r.id # Nil => \A k \in DOMAIN log' : log'[k].msg = r.msg => log'[k].id = r.id
  BY <1>3 DEF RowIds
<1>7. RowIds(r, log)'
  BY <1>0, <1>1, <1>4, <1>5, <1>6 DEF RowIds
<1>8. Shown(r.msg, r.rcpt)' = Shown(r.msg, r.rcpt)
  BY <1>0 DEF Shown
<1>9. ASSUME NEW k \in DOMAIN log, Gives(log[k], r.msg, r.rcpt) PROVE k \in DOMAIN log' /\ Gives(log[k], r.msg, r.rcpt)'
  BY <1>0, <1>9, AddFacts DEF Gives, Adds
<1>10. RowShows(r, log, pos)'
  BY <1>8, <1>9 DEF RowShows
<1> QED BY <1>7, <1>10

LEMMA RowOfTheOne ==
  ASSUME MailTyped, PostOk, LinesOk(log), NEW n \in Msgs, Reported(n), NEW r \in Row, r.msg = n, pos' = pos,
         post[n].stage \notin {"new", "open"}, RowIds(r, log), RowShows(r, log, pos)
  PROVE  RowIds(r, log)' /\ RowShows(r, log, pos)'
<1> USE DEF Reported
<1>0. n \in Living /\ r.rcpt \in Rcpts /\ r.id = post[n].id /\ r.id \in Ids /\ r.id # Nil
  <2>1. n \in Living /\ r.rcpt \in Rcpts
    <3>1. post[n] \in Message /\ post[n].stage # "gone"
      BY MailFacts DEF MovesOn
    <3> QED BY <3>1, RowFacts DEF Living
  <2>2. r.id = post[n].id /\ r.id \in Ids
    BY <2>1 DEF RowIds, PostOk
  <2> QED BY <2>1, <2>2, JournalAssumption
<1>1. ASSUME NEW k \in DOMAIN log' PROVE (log'[k].id = r.id => log'[k].msg = n) /\ (log'[k].msg = n => log'[k].id = r.id)
  <2>1. CASE Added(k)
    BY <1>0, <2>1 DEF Adds
  <2>2. CASE k \in DOMAIN log /\ log'[k] = log[k]
    BY <1>0, <2>2 DEF RowIds
  <2> QED BY <2>1, <2>2, AddFacts
<1>2. r.msg \in Living' => r.id = post'[r.msg].id
  BY <1>0 DEF MovesOn, Living
<1>3. RowIds(r, log)'
  BY <1>1, <1>2 DEF RowIds
<1> PICK x \in Rcpts : x = r.rcpt
  BY <1>0
<1>4. CASE Changed(n, x)
  <2>1. PICK k : Added(k) /\ Gives(log[k], n, x)'
    BY <1>4 DEF Says
  <2>2. k \in DOMAIN log' /\ k > pos
    BY <2>1, AddFacts, MailFacts
  <2>3. r.st \in Open
    <3>1. post[n].fate[x] \in {"none", "deferred"} /\ post[n].stage # "gone"
      BY <1>4 DEF Changed, MovesOn
    <3>2. Shown(n, x) \in Open
      BY <3>1 DEF Shown, Open
    <3> QED BY <3>2 DEF RowShows
  <2> QED BY <1>0, <1>3, <2>1, <2>2, <2>3 DEF RowShows
<1>5. CASE ~Changed(n, x)
  <2>1. post'[n].fate[x] = post[n].fate[x]
    BY <1>5 DEF Changed
  <2>2. Shown(n, x)' = Shown(n, x)
    BY <1>5, <2>1 DEF Shown, Changed, MovesOn
  <2>3. ASSUME NEW k \in DOMAIN log, Gives(log[k], n, x) PROVE k \in DOMAIN log' /\ Gives(log[k], n, x)'
    BY <2>1, <2>3, AddFacts DEF Gives, Adds
  <2>4. RowShows(r, log, pos)'
    BY <2>2, <2>3 DEF RowShows
  <2> QED BY <1>3, <2>4
<1> QED BY <1>4, <1>5

LEMMA RowTold ==
  ASSUME MailTyped, PostOk, LinesOk(log), NEW n \in Msgs, Reported(n), NEW r \in Row, pos' = pos,
         post[r.msg].stage \notin {"new", "open"}, RowIds(r, log), RowShows(r, log, pos)
  PROVE  RowIds(r, log)' /\ RowShows(r, log, pos)'
  BY RowOfAnother, RowOfTheOne

LEMMA RowsTold ==
  ASSUME MailTyped, PostOk, LinesOk(log), RowsOk, NEW n \in Msgs, Reported(n), NEW r \in rows, r \in Row, pos' = pos,
         crossed \subseteq crossed'
  PROVE  RowOk(r, log, pos)'
<1>1. post[r.msg].stage \notin {"new", "open"} /\ RowOk(r, log, pos)
  BY DEF RowsOk
<1>2. r.msg \notin crossed' => RowIds(r, log)' /\ RowShows(r, log, pos)'
  BY <1>1, RowTold DEF RowOk
<1> QED BY <1>2 DEF RowOk

-----------------------------------------------------------------------------
(* What Postfix does                                                       *)

LEMMA LinesAdded ==
  ASSUME MailTyped, NEW lines \in Seq(LogLine), Logs(lines)
  PROVE  /\ log' \in Seq(LogLine) /\ Len(log') = Len(log) + Len(lines) /\ Len(lines) \in Nat
         /\ \A k \in DOMAIN log : log'[k] = log[k]
         /\ \A k : Added(k) <=> k \in Len(log) + 1 .. Len(log) + Len(lines)
         /\ \A k : Added(k) => k - Len(log) \in 1 .. Len(lines) /\ log'[k] = lines[k - Len(log)]
<1>1. log \in Seq(LogLine) /\ Len(log) \in Nat /\ DOMAIN log = 1 .. Len(log) /\ log' = log \o lines
  BY DEF MailTyped, Logs
<1>2. log' \in Seq(LogLine) /\ Len(log') = Len(log) + Len(lines) /\ Len(lines) \in Nat
  BY <1>1
<1>3. \A k \in 1 .. Len(log') : log'[k] = IF k <= Len(log) THEN log[k] ELSE lines[k - Len(log)]
  BY <1>1
<1> QED BY <1>1, <1>2, <1>3 DEF Added

LEMMA OneLineAdded ==
  ASSUME MailTyped, NEW l \in LogLine, Logs(<<l>>)
  PROVE  /\ log' \in Seq(LogLine) /\ Len(log') = Len(log) + 1
         /\ \A k \in DOMAIN log : log'[k] = log[k]
         /\ \A k : Added(k) => k = Len(log') /\ log'[k] = l
         /\ Added(Len(log'))
<1>0. <<l>> \in Seq(LogLine) /\ Len(<<l>>) = 1 /\ <<l>>[1] = l
  OBVIOUS
<1>1. PICK lines \in Seq(LogLine) : lines = <<l>> /\ Len(lines) = 1 /\ lines[1] = l
  BY <1>0
<1>2. Len(log) \in Nat /\ Logs(lines)
  BY <1>1, MailFacts
<1> HIDE DEF Logs
<1>3. /\ log' \in Seq(LogLine) /\ Len(log') = Len(log) + Len(lines)
      /\ \A k \in DOMAIN log : log'[k] = log[k]
      /\ \A k : Added(k) <=> k \in Len(log) + 1 .. Len(log) + Len(lines)
      /\ \A k : Added(k) => k - Len(log) \in 1 .. Len(lines) /\ log'[k] = lines[k - Len(log)]
  BY <1>2, LinesAdded
<1>4. \A k : Added(k) <=> k = Len(log) + 1
  BY <1>1, <1>2, <1>3
<1>5. \A k : Added(k) => log'[k] = l
  BY <1>1, <1>2, <1>3, <1>4
<1> QED BY <1>1, <1>2, <1>3, <1>4, <1>5

\* A message of before is live, or new and without a result.
LEMMA Stands ==
  ASSUME MailTyped, PostOk, NEW n \in Msgs
  PROVE  /\ post[n].stage \notin {"new", "gone"} => n \in Living /\ post[n].id \in Ids
         /\ post[n].stage \in {"new", "gone"} => n \notin Living
         /\ post[n].stage # "gone" /\ post[n].stage # "queued" => \A x \in Rcpts : post[n].fate[x] = "none"
         /\ \A x \in Rcpts : post[n].fate[x] \in Fates
         /\ FreeIds \subseteq Ids
  BY MailFacts DEF Living, PostOk, Message, FreeIds

\* How post changes.
LEMMA GoesOn ==
  ASSUME MailTyped, NEW n \in Msgs, NEW s \in Stages, GoesTo(n, s)
  PROVE  /\ post' \in [Msgs -> Message] /\ \A m \in Msgs : m # n => post'[m] = post[m]
         /\ post'[n].stage = s /\ post'[n].id = post[n].id /\ post'[n].fate = post[n].fate
<1>1. post \in [Msgs -> Message] /\ post[n] \in Message
  BY MailFacts
<1>2. post' = [post EXCEPT ![n] = [post[n] EXCEPT !.stage = s]]
  BY <1>1 DEF GoesTo
<1>3. [post[n] EXCEPT !.stage = s] \in Message /\ [post[n] EXCEPT !.stage = s].stage = s
      /\ [post[n] EXCEPT !.stage = s].id = post[n].id /\ [post[n] EXCEPT !.stage = s].fate = post[n].fate
  BY <1>1 DEF Message
<1> HIDE DEF Message
<1> QED BY <1>1, <1>2, <1>3

LEMMA LeavesWith ==
  ASSUME MailTyped, NEW n \in Msgs, NEW f \in [Rcpts -> Fates], Leaves(n, f)
  PROVE  /\ post' \in [Msgs -> Message] /\ \A m \in Msgs : m # n => post'[m] = post[m]
         /\ post'[n].stage = "gone" /\ post'[n].id = Nil /\ post'[n].fate = f
<1>1. post \in [Msgs -> Message] /\ post[n] \in Message
  BY MailFacts
<1> DEFINE e == [NoMsg EXCEPT !.stage = "gone", !.fate = f]
<1>2. e \in Message /\ e.stage = "gone" /\ e.id = Nil /\ e.fate = f
  BY DEF Message, NoMsg, Stages
<1>3. post' = [post EXCEPT ![n] = e]
  BY DEF Leaves
<1> HIDE DEF e
<1> QED BY <1>1, <1>2, <1>3

LEMMA NoFate ==
  NoMsg.fate \in [Rcpts -> Fates] /\ \A x \in Rcpts : NoMsg.fate[x] = "none"
  BY DEF NoMsg, Fates

\* A message leaves, and its last line is not of a result.
LEMMA LeavesTold ==
  ASSUME MailTyped, PostOk, NEW n \in Msgs, Leaves(n, NoMsg.fate), post[n].stage \in {"new", "open", "answered"}, Adds(n),
         \A k : Added(k) => log'[k].kind \notin {"delivery", "expired"},
         \A k : Added(k) /\ log'[k].kind \in Ending => k = Len(log'),
         \A j, k : Added(j) /\ Added(k) /\ log'[j].kind \in Refusing /\ log'[k].kind \in Refusing => j = k,
         post[n].stage = "answered" => \E k : Added(k) /\ log'[k].kind = "removed"
  PROVE  Reported(n)
<1>1. /\ post' \in [Msgs -> Message] /\ \A m \in Msgs : m # n => post'[m] = post[m]
      /\ post'[n].stage = "gone" /\ post'[n].id = Nil /\ \A x \in Rcpts : post'[n].fate[x] = "none"
  BY NoFate, LeavesWith
<1>2. \A x \in Rcpts : post[n].fate[x] = "none"
  BY Stands
<1>3. MovesOn(n)
  BY <1>1, <1>2 DEF MovesOn
<1>4. ASSUME NEW k, Added(k)
      PROVE  /\ log'[k].kind \in Ending => log'[k].kind = "removed" /\ k = Len(log')
             /\ log'[k].kind # "delivery"
  BY <1>4 DEF Ending
<1>5. ASSUME NEW x \in Rcpts, Changed(n, x) PROVE \E k : Added(k) /\ Gives(log[k], n, x)'
  <2>1. PICK k : Added(k) /\ log'[k].kind = "removed"
    BY <1>1, <1>2, <1>5 DEF Changed
  <2>2. log'[k].msg = n
    BY <2>1 DEF Adds
  <2> QED BY <1>1, <2>1, <2>2 DEF Gives
<1>6. Says(n)
  BY <1>1, <1>4, <1>5 DEF Says
<1> QED BY <1>3, <1>6 DEF Reported

LEMMA OneLineOf ==
  ASSUME MailTyped, NEW n \in Msgs, NEW l \in LogLine, Logs(<<l>>), l.msg = n,
         IF n \in Living THEN l.id = post[n].id ELSE l.id \in FreeIds \cup {Nil},
         post'[n].stage # "gone" => l.id = post'[n].id
  PROVE  Adds(n)
<1>1. /\ log' \in Seq(LogLine) /\ Len(log') = Len(log) + 1 /\ Len(log) \in Nat
      /\ \A k \in DOMAIN log : log'[k] = log[k]
      /\ \A k : Added(k) => log'[k] = l
  BY OneLineAdded, MailFacts
<1> QED BY <1>1 DEF Adds

LEMMA OpenTold ==
  ASSUME MailTyped, PostOk, NEW n \in Msgs, OpenMessage(n)
  PROVE  Reported(n)
<1>1. PICK q \in FreeIds : /\ post' = [post EXCEPT ![n].stage = "open", ![n].id = q]
                           /\ Logs(<<Line("open25", n, q, Nil, Nil)>>)
  BY DEF OpenMessage
<1>2. post[n].stage = "new" /\ n \notin Living /\ q \in Ids /\ \A x \in Rcpts : post[n].fate[x] = "none"
  BY Stands DEF OpenMessage, NextMsg
<1>3. post' \in [Msgs -> Message] /\ (\A m \in Msgs : m # n => post'[m] = post[m])
      /\ post'[n].stage = "open" /\ post'[n].id = q /\ post'[n].fate = post[n].fate
  <2>1. post \in [Msgs -> Message] /\ post[n] \in Message
    BY MailFacts
  <2> DEFINE e == [post[n] EXCEPT !.stage = "open", !.id = q]
  <2>2. e \in Message /\ e.stage = "open" /\ e.id = q /\ e.fate = post[n].fate
    BY <1>2, <2>1 DEF Message, Stages
  <2>3. post' = [post EXCEPT ![n] = e]
    BY <1>1, <2>1 DEF Message
  <2> HIDE DEF e
  <2> QED BY <2>1, <2>2, <2>3
<1>4. PICK l \in LogLine : l = Line("open25", n, q, Nil, Nil) /\ l.kind = "open25" /\ l.msg = n /\ l.id = q
  <2>1. Line("open25", n, q, Nil, Nil) \in LogLine
    BY <1>2, JournalAssumption DEF Line, LogLine, Written, Kinds
  <2> QED BY <2>1 DEF Line
<1>5. Logs(<<l>>)
  BY <1>1, <1>4
<1> HIDE DEF Logs
<1>6. Adds(n)
  BY <1>2, <1>3, <1>4, <1>5, OneLineOf
<1>7. \A k : Added(k) => log'[k].kind = "open25"
  BY <1>4, <1>5, OneLineAdded
<1>8. MovesOn(n)
  BY <1>2, <1>3 DEF MovesOn
<1>9. Says(n)
  BY <1>2, <1>3, <1>7 DEF Says, Ending, Refusing, Changed
<1> QED BY <1>6, <1>8, <1>9 DEF Reported

LEMMA RecipientTold ==
  ASSUME MailTyped, PostOk, NEW n \in Msgs, RefuseRecipient(n)
  PROVE  Reported(n)
<1>1. post[n].stage = "new" /\ n \notin Living /\ Leaves(n, NoMsg.fate)
  BY Stands DEF RefuseRecipient, NextMsg
<1>2. PICK l \in LogLine : l = Line("reject", n, Nil, Nil, Nil) /\ l.kind = "reject" /\ l.msg = n /\ l.id = Nil
  <2>1. Line("reject", n, Nil, Nil, Nil) \in LogLine
    BY JournalAssumption DEF Line, LogLine, Written, Kinds, Fates
  <2> QED BY <2>1 DEF Line
<1>3. Logs(<<l>>)
  BY <1>2 DEF RefuseRecipient
<1>4. post'[n].stage = "gone"
  BY <1>1, NoFate, LeavesWith
<1> HIDE DEF Logs, Leaves
<1>5. Adds(n)
  BY <1>1, <1>2, <1>3, <1>4, OneLineOf
<1>6. \A k : Added(k) => log'[k].kind = "reject" /\ k = Len(log')
  BY <1>2, <1>3, OneLineAdded
<1> QED BY <1>1, <1>5, <1>6, LeavesTold DEF Ending

LEMMA RemoveTold ==
  ASSUME MailTyped, PostOk, NEW n \in Msgs, RemoveMessage(n)
  PROVE  Reported(n)
<1>1. post[n].stage \in {"open", "answered"} /\ n \in Living /\ Leaves(n, NoMsg.fate) /\ post[n].id \in Ids
  BY Stands DEF RemoveMessage
<1> PICK q \in Ids : q = post[n].id
  BY <1>1
<1>2. PICK l \in LogLine : l = Line("removed", n, q, Nil, Nil) /\ l.kind = "removed" /\ l.msg = n /\ l.id = q
  <2>1. Line("removed", n, q, Nil, Nil) \in LogLine
    BY JournalAssumption DEF Line, LogLine, Written, Kinds, Fates
  <2> QED BY <2>1 DEF Line
<1>3. Logs(<<l>>)
  BY <1>2 DEF RemoveMessage
<1>4. post'[n].stage = "gone"
  BY <1>1, NoFate, LeavesWith
<1> HIDE DEF Logs, Leaves
<1>5. Adds(n)
  BY <1>1, <1>2, <1>3, <1>4, OneLineOf
<1>6. /\ \A k : Added(k) => log'[k].kind = "removed" /\ k = Len(log')
      /\ Added(Len(log'))
  BY <1>2, <1>3, OneLineAdded
<1>7. \E k : Added(k) /\ log'[k].kind = "removed"
  BY <1>6
<1>8. \A k : Added(k) => log'[k].kind \notin {"delivery", "expired"} /\ log'[k].kind \notin Refusing
  BY <1>6 DEF Refusing
<1> QED BY <1>1, <1>5, <1>6, <1>7, <1>8, LeavesTold

\* Several lines of one message, all with one queue id.
LEMMA LinesOf ==
  ASSUME MailTyped, NEW n \in Msgs, NEW lines \in Seq(LogLine), Logs(lines), NEW q,
         \A i \in 1 .. Len(lines) : lines[i].msg = n /\ lines[i].id = q,
         IF n \in Living THEN q = post[n].id ELSE q \in FreeIds \cup {Nil}, post'[n].stage = "gone"
  PROVE  Adds(n)
<1>1. /\ log' \in Seq(LogLine) /\ Len(log') = Len(log) + Len(lines) /\ Len(lines) \in Nat
      /\ \A k \in DOMAIN log : log'[k] = log[k]
      /\ \A k : Added(k) => k - Len(log) \in 1 .. Len(lines) /\ log'[k] = lines[k - Len(log)]
  BY LinesAdded
<1>2. \A k : Added(k) => log'[k].msg = n /\ log'[k].id = q
  BY <1>1
<1>3. Len(log) \in Nat
  BY MailFacts
<1> QED BY <1>1, <1>2, <1>3 DEF Adds

LEMMA RefuseTold ==
  ASSUME MailTyped, PostOk, NEW n \in Msgs, RefuseMessage(n)
  PROVE  Reported(n)
<1>1. post[n].stage = "open" /\ n \in Living /\ Leaves(n, NoMsg.fate) /\ post[n].id \in Ids
  BY Stands DEF RefuseMessage
<1> PICK q \in Ids : q = post[n].id
  BY <1>1
<1>2. PICK v \in LogLine : v = Line("verdict", n, q, Nil, Nil) /\ v.kind = "verdict" /\ v.msg = n /\ v.id = q
  <2>1. Line("verdict", n, q, Nil, Nil) \in LogLine
    BY JournalAssumption DEF Line, LogLine, Written, Kinds, Fates
  <2> QED BY <2>1 DEF Line
<1>3. PICK l \in LogLine : l = Line("removed", n, q, Nil, Nil) /\ l.kind = "removed" /\ l.msg = n /\ l.id = q
  <2>1. Line("removed", n, q, Nil, Nil) \in LogLine
    BY JournalAssumption DEF Line, LogLine, Written, Kinds, Fates
  <2> QED BY <2>1 DEF Line
<1> <<v, l>> \in Seq(LogLine) /\ Len(<<v, l>>) = 2 /\ <<v, l>>[1] = v /\ <<v, l>>[2] = l
  OBVIOUS
<1>4. PICK lines \in Seq(LogLine) : lines = <<v, l>> /\ Len(lines) = 2 /\ lines[1] = v /\ lines[2] = l
  OBVIOUS
<1>5. Logs(lines)
  BY <1>2, <1>3, <1>4 DEF RefuseMessage
<1>6. post'[n].stage = "gone"
  BY <1>1, NoFate, LeavesWith
<1> HIDE DEF Logs, Leaves
<1>7. \A i \in 1 .. Len(lines) : lines[i].msg = n /\ lines[i].id = q
  BY <1>2, <1>3, <1>4
<1>8. Adds(n)
  BY <1>1, <1>5, <1>6, <1>7, LinesOf
<1>9. /\ Len(log') = Len(log) + 2 /\ Len(log) \in Nat
      /\ \A k : Added(k) => k - Len(log) \in 1 .. 2 /\ log'[k] = lines[k - Len(log)]
      /\ \A k : Added(k) => k \in Nat
  <2>1. /\ Len(log') = Len(log) + Len(lines)
        /\ \A k : Added(k) => k - Len(log) \in 1 .. Len(lines) /\ log'[k] = lines[k - Len(log)]
        /\ \A k : Added(k) <=> k \in Len(log) + 1 .. Len(log) + Len(lines)
    BY <1>5, LinesAdded
  <2> QED BY <1>4, <2>1, MailFacts
<1>10. \A k : Added(k) => \/ k = Len(log') - 1 /\ log'[k].kind = "verdict"
                          \/ k = Len(log') /\ log'[k].kind = "removed"
  <2> SUFFICES ASSUME NEW k, Added(k)
               PROVE  \/ k = Len(log') - 1 /\ log'[k].kind = "verdict"
                      \/ k = Len(log') /\ log'[k].kind = "removed"
    OBVIOUS
  <2>1. k \in Nat /\ k - Len(log) \in 1 .. 2 /\ log'[k] = lines[k - Len(log)]
    BY <1>9
  <2>2. CASE k - Len(log) = 1
    BY <1>2, <1>4, <1>9, <2>1, <2>2
  <2>3. CASE k - Len(log) = 2
    BY <1>3, <1>4, <1>9, <2>1, <2>3
  <2> QED BY <1>9, <2>1, <2>2, <2>3
<1>11. /\ \A k : Added(k) => log'[k].kind \notin {"delivery", "expired"}
       /\ \A k : Added(k) /\ log'[k].kind \in Ending => k = Len(log')
       /\ \A j, k : Added(j) /\ Added(k) /\ log'[j].kind \in Refusing /\ log'[k].kind \in Refusing => j = k
  BY <1>10 DEF Ending, Refusing
<1> QED BY <1>1, <1>8, <1>11, LeavesTold

LEMMA OtherTold ==
  ASSUME MailTyped, PostOk, NEW n \in Msgs, OtherMessage(n)
  PROVE  Reported(n)
<1>1. post[n].stage = "new" /\ n \notin Living /\ Leaves(n, NoMsg.fate)
  BY Stands DEF OtherMessage, NextMsg
<1>2. PICK q \in FreeIds :
          \/ Logs(<<Line("openOther", n, q, Nil, Nil)>>)
          \/ Logs(<<Line("openOther", n, q, Nil, Nil), Line("verdict", n, q, Nil, Nil), Line("removed", n, q, Nil, Nil)>>)
  BY DEF OtherMessage
<1>3. q \in Ids
  BY Stands
<1>4. post'[n].stage = "gone"
  BY <1>1, NoFate, LeavesWith
<1>5. PICK o \in LogLine : o = Line("openOther", n, q, Nil, Nil) /\ o.kind = "openOther" /\ o.msg = n /\ o.id = q
  <2>1. Line("openOther", n, q, Nil, Nil) \in LogLine
    BY <1>3, JournalAssumption DEF Line, LogLine, Written, Kinds
  <2> QED BY <2>1 DEF Line
<1>6. PICK v \in LogLine : v = Line("verdict", n, q, Nil, Nil) /\ v.kind = "verdict" /\ v.msg = n /\ v.id = q
  <2>1. Line("verdict", n, q, Nil, Nil) \in LogLine
    BY <1>3, JournalAssumption DEF Line, LogLine, Written, Kinds
  <2> QED BY <2>1 DEF Line
<1>7. PICK l \in LogLine : l = Line("removed", n, q, Nil, Nil) /\ l.kind = "removed" /\ l.msg = n /\ l.id = q
  <2>1. Line("removed", n, q, Nil, Nil) \in LogLine
    BY <1>3, JournalAssumption DEF Line, LogLine, Written, Kinds
  <2> QED BY <2>1 DEF Line
<1> HIDE DEF Leaves
<1>8. CASE Logs(<<Line("openOther", n, q, Nil, Nil)>>)
  <2>1. Logs(<<o>>)
    BY <1>5, <1>8
  <2> HIDE DEF Logs
  <2>2. Adds(n)
    BY <1>1, <1>4, <1>5, <2>1, OneLineOf
  <2>3. \A k : Added(k) => log'[k].kind = "openOther" /\ k = Len(log')
    BY <1>5, <2>1, OneLineAdded
  <2>4. \A k : Added(k) => log'[k].kind \notin {"delivery", "expired"} /\ log'[k].kind \notin Refusing
    BY <2>3 DEF Refusing
  <2> QED BY <1>1, <2>2, <2>3, <2>4, LeavesTold
<1>9. CASE Logs(<<Line("openOther", n, q, Nil, Nil), Line("verdict", n, q, Nil, Nil), Line("removed", n, q, Nil, Nil)>>)
  <2> <<o, v, l>> \in Seq(LogLine) /\ Len(<<o, v, l>>) = 3 /\ <<o, v, l>>[1] = o /\ <<o, v, l>>[2] = v /\ <<o, v, l>>[3] = l
    OBVIOUS
  <2>1. PICK lines \in Seq(LogLine) : lines = <<o, v, l>> /\ Len(lines) = 3 /\ lines[1] = o /\ lines[2] = v /\ lines[3] = l
    OBVIOUS
  <2>2. Logs(lines)
    BY <1>5, <1>6, <1>7, <1>9, <2>1
  <2> HIDE DEF Logs
  <2>3. \A i \in 1 .. Len(lines) : lines[i].msg = n /\ lines[i].id = q
    BY <1>5, <1>6, <1>7, <2>1
  <2>4. Adds(n)
    BY <1>1, <1>4, <2>2, <2>3, LinesOf
  <2>5. /\ Len(log') = Len(log) + 3 /\ Len(log) \in Nat
        /\ \A k : Added(k) => k \in Nat /\ k - Len(log) \in 1 .. 3 /\ log'[k] = lines[k - Len(log)]
    <3>1. /\ Len(log') = Len(log) + Len(lines)
          /\ \A k : Added(k) => k - Len(log) \in 1 .. Len(lines) /\ log'[k] = lines[k - Len(log)]
          /\ \A k : Added(k) <=> k \in Len(log) + 1 .. Len(log) + Len(lines)
      BY <2>2, LinesAdded
    <3> QED BY <2>1, <3>1, MailFacts
  <2>6. \A k : Added(k) => \/ k = Len(log') - 2 /\ log'[k].kind = "openOther"
                           \/ k = Len(log') - 1 /\ log'[k].kind = "verdict"
                           \/ k = Len(log') /\ log'[k].kind = "removed"
    <3> SUFFICES ASSUME NEW k, Added(k)
                 PROVE  \/ k = Len(log') - 2 /\ log'[k].kind = "openOther"
                        \/ k = Len(log') - 1 /\ log'[k].kind = "verdict"
                        \/ k = Len(log') /\ log'[k].kind = "removed"
      OBVIOUS
    <3>1. k \in Nat /\ k - Len(log) \in 1 .. 3 /\ log'[k] = lines[k - Len(log)]
      BY <2>5
    <3>2. CASE k - Len(log) = 1
      BY <1>5, <2>1, <2>5, <3>1, <3>2
    <3>3. CASE k - Len(log) = 2
      BY <1>6, <2>1, <2>5, <3>1, <3>3
    <3>4. CASE k - Len(log) = 3
      BY <1>7, <2>1, <2>5, <3>1, <3>4
    <3> QED BY <2>5, <3>1, <3>2, <3>3, <3>4
  <2>7. /\ \A k : Added(k) => log'[k].kind \notin {"delivery", "expired"}
        /\ \A k : Added(k) /\ log'[k].kind \in Ending => k = Len(log')
        /\ \A j, k : Added(j) /\ Added(k) /\ log'[j].kind \in Refusing /\ log'[k].kind \in Refusing => j = k
    BY <2>6 DEF Ending, Refusing
  <2> QED BY <1>1, <2>4, <2>7, LeavesTold
<1> QED BY <1>2, <1>8, <1>9

\* A live message goes a step on, and nothing is written of it.
LEMMA SilentTold ==
  ASSUME MailTyped, PostOk, NEW n \in Msgs, NEW s \in Stages \ {"new", "gone"}, GoesTo(n, s),
         post[n].stage \notin {"new", "gone"}, post[n].stage = "queued" => s = "queued", log' = log
  PROVE  Reported(n)
<1>1. /\ post' \in [Msgs -> Message] /\ \A m \in Msgs : m # n => post'[m] = post[m]
      /\ post'[n].stage = s /\ post'[n].id = post[n].id /\ post'[n].fate = post[n].fate
  BY GoesOn
<1>2. n \in Living
  BY Stands
<1>3. MovesOn(n)
  BY <1>1, <1>2, Stands DEF MovesOn
<1>4. \A k : ~Added(k)
  BY MailFacts DEF Added
<1>5. log \in Seq(LogLine)
  BY DEF MailTyped
<1>6. Adds(n)
  BY <1>4, <1>5, MailFacts DEF Adds
<1>7. Says(n)
  BY <1>1, <1>4 DEF Says, Changed
<1> QED BY <1>3, <1>6, <1>7 DEF Reported

LEMMA EndTold ==
  ASSUME MailTyped, PostOk, NEW n \in Msgs, EndOfMessage(n)
  PROVE  Reported(n)
<1>1. PICK s \in Stages \ {"new", "gone"} : GoesTo(n, s)
  BY DEF EndOfMessage, Stages
<1> QED BY <1>1, SilentTold DEF EndOfMessage, tailer

LEMMA QueueTold ==
  ASSUME MailTyped, PostOk, NEW n \in Msgs, QueueMessage(n)
  PROVE  Reported(n)
<1>1. /\ post' \in [Msgs -> Message] /\ \A m \in Msgs : m # n => post'[m] = post[m]
      /\ post'[n].stage = "queued" /\ post'[n].id = post[n].id /\ post'[n].fate = post[n].fate
  <2>1. GoesTo(n, "queued") /\ "queued" \in Stages
    BY DEF QueueMessage, Stages
  <2> QED BY <2>1, GoesOn
<1>2. post[n].stage = "answered" /\ n \in Living /\ post[n].id \in Ids
  BY Stands DEF QueueMessage
<1> PICK q \in Ids : q = post[n].id
  BY <1>2
<1>3. PICK l \in LogLine : l = Line("qmgr", n, q, Nil, Nil) /\ l.kind = "qmgr" /\ l.msg = n /\ l.id = q
  <2>1. Line("qmgr", n, q, Nil, Nil) \in LogLine
    BY JournalAssumption DEF Line, LogLine, Written, Kinds, Fates
  <2> QED BY <2>1 DEF Line
<1>4. Logs(<<l>>)
  BY <1>3 DEF QueueMessage
<1> HIDE DEF Logs
<1>5. Adds(n)
  BY <1>1, <1>2, <1>3, <1>4, OneLineOf
<1>6. \A k : Added(k) => log'[k].kind = "qmgr"
  BY <1>3, <1>4, OneLineAdded
<1>7. MovesOn(n)
  BY <1>1, <1>2 DEF MovesOn
<1>8. Says(n)
  BY <1>1, <1>6 DEF Says, Ending, Refusing, Changed
<1> QED BY <1>5, <1>7, <1>8 DEF Reported

LEMMA SettlesSo ==
  ASSUME MailTyped, NEW n \in Msgs, NEW f \in [Rcpts -> Fates], Settle(n, f), post[n].stage = "queued"
  PROVE  /\ post' \in [Msgs -> Message] /\ \A m \in Msgs : m # n => post'[m] = post[m]
         /\ post'[n].fate = f /\ post'[n].stage \in {"queued", "gone"}
         /\ post'[n].stage = "queued" => post'[n].id = post[n].id
         /\ post'[n].stage = "gone" <=> \A x \in Rcpts : f[x] \in Finals
<1>1. CASE \A x \in Rcpts : f[x] \in Finals
  <2>1. Leaves(n, f)
    BY <1>1 DEF Settle
  <2> QED BY <1>1, <2>1, LeavesWith
<1>2. CASE ~\A x \in Rcpts : f[x] \in Finals
  <2>1. post \in [Msgs -> Message] /\ post[n] \in Message
    BY MailFacts
  <2> DEFINE e == [post[n] EXCEPT !.fate = f]
  <2>2. e \in Message /\ e.stage = "queued" /\ e.id = post[n].id /\ e.fate = f
    BY <2>1 DEF Message
  <2>3. post' = [post EXCEPT ![n] = e]
    BY <1>2, <2>1 DEF Settle
  <2> HIDE DEF e
  <2> QED BY <1>2, <2>1, <2>2, <2>3
<1> QED BY <1>1, <1>2

LEMMA DeliverTold ==
  ASSUME MailTyped, PostOk, NEW n \in Msgs, NEW x \in Rcpts, NEW st \in Results, Deliver(n, x, st)
  PROVE  Reported(n)
<1>1. post[n].stage = "queued" /\ n \in Living /\ post[n].id \in Ids /\ post[n].fate[x] \notin Finals \cup {st}
  BY Stands DEF Deliver
<1>2. post[n].fate \in [Rcpts -> Fates] /\ st \in Fates /\ st # "none" /\ st \in {"deferred", "sent", "bounced"}
  BY MailFacts, JournalAssumption DEF Message, Fates
<1> PICK f \in [Rcpts -> Fates] : f = [post[n].fate EXCEPT ![x] = st]
  BY <1>2
<1>3. f[x] = st /\ \A y \in Rcpts : y # x => f[y] = post[n].fate[y]
  BY <1>2
<1>4. Settle(n, f)
  BY DEF Deliver
<1>5. /\ post' \in [Msgs -> Message] /\ \A m \in Msgs : m # n => post'[m] = post[m]
      /\ post'[n].fate = f /\ post'[n].stage \in {"queued", "gone"}
      /\ post'[n].stage = "queued" => post'[n].id = post[n].id
      /\ post'[n].stage = "gone" <=> \A y \in Rcpts : f[y] \in Finals
  BY <1>1, <1>4, SettlesSo
<1> PICK q \in Ids : q = post[n].id
  BY <1>1
<1>6. PICK l \in LogLine : /\ l = Line("delivery", n, q, x, st) /\ l.kind = "delivery" /\ l.msg = n /\ l.id = q
                           /\ l.rcpt = x /\ l.st = st
  <2>1. Line("delivery", n, q, x, st) \in LogLine
    BY <1>2, JournalAssumption DEF Line, LogLine, Written, Kinds
  <2> QED BY <2>1 DEF Line
<1>7. Logs(<<l>>)
  BY <1>6 DEF Deliver
<1> HIDE DEF Logs
<1>8. Adds(n)
  BY <1>1, <1>5, <1>6, <1>7, OneLineOf
<1>9. (\A k : Added(k) => log'[k] = l) /\ Added(Len(log'))
  BY <1>7, OneLineAdded
<1>10. post[n].fate[x] \in {"none", "deferred"}
  BY <1>1, <1>2 DEF Fates, Finals
<1>11. MovesOn(n)
  BY <1>1, <1>2, <1>3, <1>5, <1>10 DEF MovesOn
<1>12. ASSUME NEW y \in Rcpts, Changed(n, y) PROVE \E k : Added(k) /\ Gives(log[k], n, y)'
  <2>1. y = x
    <3>1. CASE post'[n].fate[y] # post[n].fate[y]
      BY <1>3, <1>5, <3>1
    <3>2. CASE post'[n].stage = "gone" /\ post'[n].fate[y] = "none"
      BY <1>5, <3>2 DEF Finals
    <3> QED BY <1>12, <3>1, <3>2 DEF Changed
  <2>2. PICK k : k = Len(log')
    OBVIOUS
  <2>3. Gives(log[k], n, x)'
    BY <1>3, <1>5, <1>6, <1>9, <2>2 DEF Gives
  <2> QED BY <1>9, <2>1, <2>2, <2>3
<1>13. Says(n)
  BY <1>3, <1>5, <1>6, <1>9, <1>12 DEF Says, Ending, Refusing
<1> QED BY <1>8, <1>11, <1>13 DEF Reported

LEMMA ExpireTold ==
  ASSUME MailTyped, PostOk, NEW n \in Msgs, Expire(n)
  PROVE  Reported(n)
<1>1. post[n].stage = "queued" /\ n \in Living /\ post[n].id \in Ids
  BY Stands DEF Expire
<1>2. \A x \in Rcpts : post[n].fate[x] \in Fates
  BY Stands
<1> PICK f \in [Rcpts -> Fates] : f = [x \in Rcpts |-> IF post[n].fate[x] = "sent" THEN "sent" ELSE "bounced"]
  BY DEF Fates
<1>3. \A x \in Rcpts : f[x] \in Finals /\ (f[x] # post[n].fate[x] => f[x] = "bounced" /\ post[n].fate[x] \in {"none", "deferred"})
  BY <1>2 DEF Finals, Fates
<1>4. Settle(n, f)
  BY DEF Expire
<1>5. /\ post' \in [Msgs -> Message] /\ \A m \in Msgs : m # n => post'[m] = post[m]
      /\ post'[n].fate = f /\ post'[n].stage = "gone"
  BY <1>1, <1>3, <1>4, SettlesSo
<1> PICK q \in Ids : q = post[n].id
  BY <1>1
<1>6. PICK l \in LogLine : l = Line("expired", n, q, Nil, "bounced") /\ l.kind = "expired" /\ l.msg = n /\ l.id = q
  <2>1. Line("expired", n, q, Nil, "bounced") \in LogLine
    BY JournalAssumption DEF Line, LogLine, Written, Kinds, Fates
  <2> QED BY <2>1 DEF Line
<1>7. Logs(<<l>>)
  BY <1>6 DEF Expire
<1> HIDE DEF Logs
<1>8. Adds(n)
  BY <1>1, <1>5, <1>6, <1>7, OneLineOf
<1>9. (\A k : Added(k) => log'[k] = l /\ k = Len(log')) /\ Added(Len(log'))
  BY <1>7, OneLineAdded
<1>10. MovesOn(n)
  BY <1>1, <1>3, <1>5 DEF MovesOn, Finals
<1>11. ASSUME NEW y \in Rcpts, Changed(n, y) PROVE \E k : Added(k) /\ Gives(log[k], n, y)'
  <2>1. f[y] = "bounced"
    BY <1>3, <1>5, <1>11 DEF Changed, Finals
  <2>2. PICK k : k = Len(log')
    OBVIOUS
  <2>3. Gives(log[k], n, y)'
    BY <1>5, <1>6, <1>9, <2>1, <2>2 DEF Gives
  <2> QED BY <1>9, <2>2, <2>3
<1>12. Says(n)
  BY <1>3, <1>5, <1>6, <1>9, <1>11 DEF Says, Ending, Refusing
<1> QED BY <1>8, <1>10, <1>12 DEF Reported

LEMMA PostfixTold ==
  ASSUME MailTyped, PostOk, NEW n \in Msgs, Postfix(n)
  PROVE  Reported(n) /\ UNCHANGED <<pos, rows, refused, catching, up, crossed>>
<1>1. Reported(n)
  <2>1. CASE \E x \in Rcpts, st \in Results : Deliver(n, x, st)
    BY <2>1, DeliverTold
  <2> QED BY <2>1, OpenTold, OtherTold, RecipientTold, RefuseTold, RemoveTold, EndTold, QueueTold, ExpireTold DEF Postfix
<1>2. UNCHANGED <<pos, rows, refused, catching, up, crossed>>
  BY DEF Postfix, OpenMessage, OtherMessage, RefuseRecipient, RefuseMessage, RemoveMessage, EndOfMessage, QueueMessage,
         Deliver, Expire, tailer, journal
<1> QED BY <1>1, <1>2

-----------------------------------------------------------------------------
(* What the tailer does with a row                                         *)

Detached(r) == [r EXCEPT !.id = Nil, !.st = IF @ \in Open THEN "" ELSE @]

\* The row after a line.
After(r, l) ==
    IF r.id # l.id THEN r
    ELSE IF l.kind = "delivery" THEN IF r.rcpt = l.rcpt /\ Takes(r) THEN [r EXCEPT !.st = l.st] ELSE r
    ELSE IF l.kind = "expired" THEN IF Takes(r) THEN [r EXCEPT !.st = "bounced"] ELSE r
    ELSE IF l.kind = "removed" THEN Detached(r) ELSE r

LEMMA DetachedFacts ==
  ASSUME NEW r \in Row
  PROVE  /\ Detached(r) \in Row /\ Detached(r).msg = r.msg /\ Detached(r).rcpt = r.rcpt /\ Detached(r).id = Nil
         /\ Detached(r).st = IF r.st \in Open THEN "" ELSE r.st
  BY DEF Detached, Row

LEMMA ShownGone ==
  ASSUME MailTyped, PostOk, NEW m \in Msgs, NEW x \in Rcpts, post[m].stage = "gone"
  PROVE  Shown(m, x) \notin Open
<1>1. post[m].fate[x] \in Finals \cup {"none"}
  BY DEF PostOk
<1> QED BY <1>1 DEF Shown, Open, Finals

\* A row whose message is gone, with no line of it to come, is detached as it is.
LEMMA DetachedShows ==
  ASSUME MailTyped, PostOk, NEW r \in Row, post[r.msg].stage = "gone", NEW p, RowIds(r, log), r.st = Shown(r.msg, r.rcpt)
  PROVE  RowIds(Detached(r), log) /\ RowShows(Detached(r), log, p)
<1>1. r.st \notin Open
  BY RowFacts, ShownGone
<1>2. Detached(r).msg = r.msg /\ Detached(r).rcpt = r.rcpt /\ Detached(r).id = Nil /\ Detached(r).st = r.st
  BY <1>1, DetachedFacts
<1>3. r.msg \notin Living
  BY DEF Living
<1>4. RowIds(Detached(r), log)
  BY <1>2, <1>3 DEF RowIds
<1>5. RowShows(Detached(r), log, p)
  BY <1>2 DEF RowShows
<1> QED BY <1>4, <1>5

\* A line of another message with the row's queue id: the row's message is
\* gone, and none of its lines is still to come.
LEMMA OfAnother ==
  ASSUME MailTyped, PostOk, NEW r \in Row, post[r.msg].stage # "new", NEW i \in DOMAIN log, i > pos,
         \A k \in DOMAIN log : k > pos => k >= i,
         RowIds(r, log), RowShows(r, log, pos), log[i].id = r.id, r.id # Nil, log[i].msg # r.msg
  PROVE  post[r.msg].stage = "gone" /\ r.st = Shown(r.msg, r.rcpt) /\ r.st \notin Open
<1>1. r.msg \notin Living
  BY DEF RowIds
<1>2. post[r.msg].stage = "gone"
  BY <1>1, RowFacts DEF Living
<1>3. ASSUME NEW k \in DOMAIN log, k > pos, Gives(log[k], r.msg, r.rcpt) PROVE FALSE
  <2>1. log[k].msg = r.msg /\ log[k].id = r.id
    BY <1>3 DEF Gives, RowIds
  <2>2. k < i /\ k >= i
    BY <1>3, <2>1 DEF RowIds
  <2> QED BY <2>2, MailFacts
<1>4. r.st = Shown(r.msg, r.rcpt)
  BY <1>3 DEF RowShows
<1> QED BY <1>2, <1>4, RowFacts, ShownGone

LEMMA RowRead ==
  ASSUME MailTyped, PostOk, LinesOk(log), NEW r \in Row, post[r.msg].stage \notin {"new", "open"},
         RowIds(r, log), RowShows(r, log, pos), pos < Len(log), NEW l, l = log[pos + 1]
  PROVE  /\ After(r, l) \in Row /\ After(r, l).msg = r.msg /\ After(r, l).rcpt = r.rcpt
         /\ RowIds(After(r, l), log) /\ RowShows(After(r, l), log, pos + 1)
<1> PICK i \in DOMAIN log : i = pos + 1
  BY MailFacts
<1>1. /\ r.msg \in Msgs /\ r.rcpt \in Rcpts /\ l \in LogLine /\ l.msg \in Msgs /\ l = log[i] /\ i > pos
      /\ \A k \in DOMAIN log : k > pos => k >= i /\ (k = i \/ k > pos + 1)
  <2>1. r.msg \in Msgs /\ r.rcpt \in Rcpts
    BY RowFacts
  <2>2. l \in LogLine /\ l.msg \in Msgs /\ l = log[i]
    BY MailFacts
  <2>3. i > pos /\ \A k \in DOMAIN log : k > pos => k >= i /\ (k = i \/ k > pos + 1)
    BY MailFacts
  <2> QED BY <2>1, <2>2, <2>3
<1> PICK m \in Msgs : m = r.msg
  BY <1>1
<1> PICK x \in Rcpts : x = r.rcpt
  BY <1>1
<1> DEFINE Shows == r.st = Shown(m, x) \/ (r.st \in Open /\ r.id # Nil /\ (Gives(l, m, x) \/ \E k \in DOMAIN log : k > pos + 1 /\ Gives(log[k], m, x)))
<1>2. Shows
  BY <1>1 DEF RowShows
<1>3. ASSUME ~Gives(l, m, x) PROVE RowShows(r, log, pos + 1)
  BY <1>2, <1>3 DEF RowShows
<1>4. ASSUME r.st = Shown(m, x) PROVE RowShows(r, log, pos + 1)
  BY <1>4 DEF RowShows
<1> HIDE DEF Shows
<1>5. CASE After(r, l) = r /\ (~Gives(l, m, x) \/ r.st = Shown(m, x))
  BY <1>3, <1>4, <1>5
<1>6. CASE r.id # l.id
  <2>1. After(r, l) = r
    BY <1>6 DEF After
  <2>2. r.id # Nil => ~Gives(l, m, x)
    BY <1>1, <1>6 DEF Gives, RowIds
  <2>3. r.id = Nil => r.st = Shown(m, x)
    BY <1>2 DEF Shows
  <2> QED BY <1>5, <2>1, <2>2, <2>3
<1>7. CASE r.id = l.id /\ r.id # Nil /\ l.msg # m
  <2>1. post[m].stage = "gone" /\ r.st = Shown(m, x) /\ r.st \notin Open
    BY <1>1, <1>7, OfAnother
  <2>2. CASE l.kind # "removed"
    <3>1. After(r, l) = r
      BY <2>1, <2>2 DEF After, Takes
    <3> QED BY <1>5, <2>1, <3>1
  <2>3. CASE l.kind = "removed"
    <3>1. After(r, l) = Detached(r)
      BY <1>7, <2>3 DEF After
    <3> QED BY <2>1, <3>1, DetachedShows, DetachedFacts
  <2> QED BY <2>2, <2>3
<1>8. CASE r.id = l.id /\ r.id # Nil /\ l.msg = m
  <2>1. CASE l.kind = "delivery"
    <3>1. CASE l.rcpt # x \/ ~Takes(r)
      <4>1. After(r, l) = r
        BY <1>8, <2>1, <3>1 DEF After
      <4>2. l.rcpt # x => ~Gives(l, m, x)
        BY <2>1 DEF Gives
      <4>3. ~Takes(r) => r.st = Shown(m, x)
        BY <1>2 DEF Shows, Takes
      <4> QED BY <1>5, <3>1, <4>1, <4>2, <4>3
    <3>2. CASE l.rcpt = x /\ Takes(r)
      <4>1. /\ l.st \in Results /\ post[m].fate[x] # "none"
            /\ l.st = post[m].fate[x] \/ (l.st = "deferred" /\ \E j \in DOMAIN log : j > i /\ Gives(log[j], m, x))
        BY <1>1, <1>8, <2>1, <3>2 DEF LinesOk, DeliveriesTrue
      <4>2. After(r, l) = [r EXCEPT !.st = l.st]
        BY <1>8, <2>1, <3>2 DEF After
      <4>3. l.st \in Open \cup Finals \cup {""} /\ "deferred" \in Open
        BY <4>1, JournalAssumption DEF Open, Finals
      <4>4. /\ After(r, l) \in Row /\ After(r, l).msg = m /\ After(r, l).rcpt = x
            /\ After(r, l).id = r.id /\ After(r, l).st = l.st
        BY <4>2, <4>3 DEF Row
      <4>5. RowIds(After(r, l), log)
        BY <4>4 DEF RowIds
      <4>6. l.st = post[m].fate[x] => l.st = Shown(m, x)
        BY <4>1 DEF Shown
      <4>7. RowShows(After(r, l), log, pos + 1)
        BY <1>8, <4>1, <4>3, <4>4, <4>6 DEF RowShows
      <4> QED BY <4>4, <4>5, <4>7
    <3> QED BY <3>1, <3>2
  <2>2. CASE l.kind \in Ending
    <3>1. /\ post[m].stage = "gone" /\ \A j \in DOMAIN log : log[j].msg = m => j <= i
          /\ IF l.kind = "expired" THEN post[m].fate[x] \in Finals ELSE post[m].fate[x] = "none"
      BY <1>1, <1>8, <2>2 DEF LinesOk, EndsLast
    <3>2. Shown(m, x) \notin Open
      BY <3>1, ShownGone
    <3>3. ~\E k \in DOMAIN log : k > pos + 1 /\ Gives(log[k], m, x)
      BY <3>1, MailFacts DEF Gives
    <3>4. r.st = Shown(m, x) \/ (r.st \in Open /\ Gives(l, m, x))
      BY <1>2, <3>3 DEF Shows
    <3>5. CASE l.kind = "expired" /\ ~Takes(r)
      <4>1. After(r, l) = r
        BY <3>5 DEF After
      <4> QED BY <1>5, <3>4, <3>5, <4>1 DEF Takes
    <3>6. CASE l.kind = "expired" /\ Takes(r)
      <4>1. post[m].fate[x] = "bounced"
        BY <3>2, <3>4, <3>6 DEF Gives, Takes
      <4>2. After(r, l) = [r EXCEPT !.st = "bounced"] /\ "bounced" \in Open \cup Finals \cup {""}
        BY <1>8, <3>6 DEF After, Finals
      <4>3. /\ After(r, l) \in Row /\ After(r, l).msg = m /\ After(r, l).rcpt = x
            /\ After(r, l).id = r.id /\ After(r, l).st = "bounced"
        BY <4>2 DEF Row
      <4>4. RowIds(After(r, l), log)
        BY <4>3 DEF RowIds
      <4>5. RowShows(After(r, l), log, pos + 1)
        BY <4>1, <4>3 DEF RowShows, Shown
      <4> QED BY <4>3, <4>4, <4>5
    <3>7. CASE l.kind = "removed"
      <4>1. After(r, l) = Detached(r)
        BY <1>8, <3>7 DEF After
      <4>2. Shown(m, x) = ""
        BY <3>1, <3>7 DEF Shown
      <4>3. Detached(r).st = Shown(m, x)
        BY <3>2, <3>4, <4>2, DetachedFacts
      <4>4. m \notin Living
        BY <3>1 DEF Living
      <4>5. RowIds(Detached(r), log)
        BY <4>4, DetachedFacts DEF RowIds
      <4>6. RowShows(Detached(r), log, pos + 1)
        BY <4>3, DetachedFacts DEF RowShows
      <4> QED BY <4>1, <4>5, <4>6, DetachedFacts
    <3> QED BY <2>2, <3>5, <3>6, <3>7 DEF Ending
  <2>3. CASE l.kind # "delivery" /\ l.kind \notin Ending
    <3>1. After(r, l) = r
      BY <2>3 DEF After, Ending
    <3>2. ~Gives(l, m, x)
      BY <2>3 DEF Gives, Ending
    <3> QED BY <1>5, <3>1, <3>2
  <2> QED BY <2>1, <2>2, <2>3
<1>9. CASE r.id = l.id /\ r.id = Nil
  <2>1. r.st = Shown(m, x)
    BY <1>2, <1>9 DEF Shows
  <2>2. m \notin Living
    BY <1>9, JournalAssumption DEF RowIds, PostOk
  <2>3. post[m].stage = "gone" /\ r.st \notin Open
    BY <2>1, <2>2, ShownGone DEF Living
  <2>4. After(r, l) = r \/ After(r, l) = Detached(r)
    BY <2>3 DEF After, Takes
  <2> QED BY <1>5, <2>1, <2>3, <2>4, DetachedShows, DetachedFacts
<1> QED BY <1>6, <1>7, <1>8, <1>9

-----------------------------------------------------------------------------
(* Lines before the place saved are forgotten                              *)

Shortened(d) == d \in 0 .. Len(log) /\ log' = SubSeq(log, d + 1, Len(log))

LEMMA ShortFacts ==
  ASSUME MailTyped, NEW d, Shortened(d)
  PROVE  /\ d \in Nat /\ log' \in Seq(LogLine) /\ Len(log') = Len(log) - d /\ DOMAIN log' = 1 .. Len(log) - d
         /\ \A k \in DOMAIN log' : k + d \in DOMAIN log /\ log'[k] = log[k + d]
         /\ \A k \in DOMAIN log : k > d => k - d \in DOMAIN log' /\ log'[k - d] = log[k]
<1>1. log \in Seq(LogLine) /\ Len(log) \in Nat /\ d \in Nat /\ d <= Len(log) /\ DOMAIN log = 1 .. Len(log)
  BY MailFacts DEF MailTyped, Shortened
<1>2. log' = [i \in 1 .. Len(log) - d |-> log[i + d]]
  BY <1>1 DEF Shortened
<1>3. \A i \in 1 .. Len(log) - d : log[i + d] \in LogLine
  BY <1>1
<1>4. log' \in [1 .. Len(log) - d -> LogLine] /\ Len(log) - d \in Nat
  BY <1>1, <1>2, <1>3
<1>5. log' \in Seq(LogLine) /\ Len(log') = Len(log) - d /\ DOMAIN log' = 1 .. Len(log) - d
  BY <1>4
<1> QED BY <1>1, <1>2, <1>5

LEMMA SameState ==
  ASSUME post' = post
  PROVE  /\ Living' = Living
         /\ \A l, m, x : Gives(l, m, x)' <=> Gives(l, m, x)
         /\ \A m, x : Shown(m, x)' = Shown(m, x)
  BY DEF Living, Gives, Shown

LEMMA LinesCut ==
  ASSUME MailTyped, LinesOk(log), post' = post, NEW d, Shortened(d)
  PROVE  LinesOk(log)'
<1>1. OwnIds(log)'
  BY ShortFacts, SameState DEF LinesOk, OwnIds
<1>2. EndsLast(log)'
  <2> SUFFICES ASSUME NEW k \in DOMAIN log', log'[k].kind \in Ending
               PROVE  /\ post[log'[k].msg].stage = "gone"
                      /\ \A j \in DOMAIN log' : log'[j].msg = log'[k].msg => j <= k
                      /\ \A x \in Rcpts : IF log'[k].kind = "expired" THEN post[log'[k].msg].fate[x] \in Finals
                                                                      ELSE post[log'[k].msg].fate[x] = "none"
    BY DEF EndsLast
  <2> PICK i \in DOMAIN log : i = k + d /\ log'[k] = log[i]
    BY ShortFacts
  <2>1. ASSUME NEW j \in DOMAIN log', log'[j].msg = log'[k].msg PROVE j <= k
    <3> PICK z \in DOMAIN log : z = j + d /\ log'[j] = log[z]
      BY ShortFacts
    <3>1. z <= i
      BY <2>1 DEF LinesOk, EndsLast
    <3> QED BY <3>1, ShortFacts, MailFacts
  <2> QED BY <2>1 DEF LinesOk, EndsLast
<1>3. DeliveriesTrue(log)'
  <2> SUFFICES ASSUME NEW k \in DOMAIN log', log'[k].kind = "delivery"
               PROVE  /\ log'[k].rcpt \in Rcpts /\ log'[k].st \in Results
                      /\ post[log'[k].msg].fate[log'[k].rcpt] # "none"
                      /\ \/ log'[k].st = post[log'[k].msg].fate[log'[k].rcpt]
                         \/ /\ log'[k].st = "deferred"
                            /\ \E j \in DOMAIN log' : j > k /\ Gives(log'[j], log'[k].msg, log'[k].rcpt)
    BY DEF DeliveriesTrue, Gives
  <2> PICK i \in DOMAIN log : i = k + d /\ log'[k] = log[i]
    BY ShortFacts
  <2>1. ASSUME NEW z \in DOMAIN log, z > i, Gives(log[z], log[i].msg, log[i].rcpt)
        PROVE  \E j \in DOMAIN log' : j > k /\ Gives(log'[j], log'[k].msg, log'[k].rcpt)
    <3>1. z - d \in DOMAIN log' /\ log'[z - d] = log[z] /\ z - d > k
      BY <2>1, ShortFacts, MailFacts
    <3> QED BY <2>1, <3>1
  <2> QED BY <2>1 DEF LinesOk, DeliveriesTrue
<1>4. RefusedOnce(log)'
  <2> SUFFICES ASSUME NEW k \in DOMAIN log', log'[k].kind \in Refusing
               PROVE  /\ post[log'[k].msg].stage = "gone"
                      /\ \A j \in DOMAIN log' : log'[j].kind \in Refusing /\ log'[j].msg = log'[k].msg => j = k
    BY DEF RefusedOnce
  <2> PICK i \in DOMAIN log : i = k + d /\ log'[k] = log[i]
    BY ShortFacts
  <2>1. ASSUME NEW j \in DOMAIN log', log'[j].kind \in Refusing, log'[j].msg = log'[k].msg PROVE j = k
    <3> PICK z \in DOMAIN log : z = j + d /\ log'[j] = log[z]
      BY ShortFacts
    <3>1. z = i
      BY <2>1 DEF LinesOk, RefusedOnce
    <3> QED BY <3>1, ShortFacts, MailFacts
  <2> QED BY <2>1 DEF LinesOk, RefusedOnce
<1> QED BY <1>1, <1>2, <1>3, <1>4 DEF LinesOk

LEMMA RowCut ==
  ASSUME MailTyped, post' = post, NEW d, Shortened(d), NEW p \in Nat, p >= d, pos' = p - d, NEW r \in Row,
         RowIds(r, log), RowShows(r, log, p)
  PROVE  RowIds(r, log)' /\ RowShows(r, log, pos)'
<1>1. RowIds(r, log)'
  <2>1. r.msg \in Living => r.id = post[r.msg].id /\ \A j \in DOMAIN log' : log'[j].id = r.id => log'[j].msg = r.msg
    BY ShortFacts DEF RowIds
  <2>2. ASSUME NEW j \in DOMAIN log', NEW k \in DOMAIN log', log'[k].msg = r.msg, log'[j].id = log'[k].id, log'[j].msg # r.msg
        PROVE  k < j
    <3> PICK z \in DOMAIN log : z = j + d /\ log'[j] = log[z]
      BY ShortFacts
    <3> PICK i \in DOMAIN log : i = k + d /\ log'[k] = log[i]
      BY ShortFacts
    <3>1. i < z
      BY <2>2 DEF RowIds
    <3> QED BY <3>1, ShortFacts, MailFacts
  <2>3. r.id # Nil => \A k \in DOMAIN log' : log'[k].msg = r.msg => log'[k].id = r.id
    BY ShortFacts DEF RowIds
  <2> QED BY <2>1, <2>2, <2>3, SameState DEF RowIds
<1>2. CASE r.st = Shown(r.msg, r.rcpt)
  BY <1>1, <1>2, SameState DEF RowShows
<1>3. CASE r.st # Shown(r.msg, r.rcpt)
  <2>1. PICK k \in DOMAIN log : k > p /\ Gives(log[k], r.msg, r.rcpt) /\ r.st \in Open /\ r.id # Nil
    BY <1>3 DEF RowShows
  <2>2. k - d \in DOMAIN log' /\ log'[k - d] = log[k] /\ k - d > pos'
    BY <2>1, ShortFacts, MailFacts
  <2>3. PICK j \in DOMAIN log' : j > pos' /\ log'[j] = log[k]
    BY <2>2
  <2>4. Gives(log[j], r.msg, r.rcpt)'
    BY <2>1, <2>3 DEF Gives
  <2> QED BY <1>1, <2>1, <2>3, <2>4 DEF RowShows
<1> QED BY <1>2, <1>3

LEMMA SameLog ==
  ASSUME MailTyped, log' = log
  PROVE  Shortened(0)
<1>1. log \in Seq(LogLine) /\ Len(log) \in Nat
  BY DEF MailTyped
<1>2. SubSeq(log, 0 + 1, Len(log)) = log
  BY <1>1
<1> QED BY <1>1, <1>2 DEF Shortened

\* Rows and lines when nothing moves but the place, or what is kept of the log.
LEMMA RowsCut ==
  ASSUME InboundTypeOK, PostOk, LinesOk(log), RowsOk, NEW d, Shortened(d), pos >= d, pos' = pos - d,
         UNCHANGED <<post, crossed>>, rows' \subseteq rows
  PROVE  /\ LinesOk(log)' /\ RowsOk' /\ log' \in Seq(LogLine) /\ pos' \in 0 .. Len(log')
<1> USE DEF InboundTypeOK
<1>1. LinesOk(log)' /\ log' \in Seq(LogLine) /\ pos' \in 0 .. Len(log')
  BY LinesCut, ShortFacts, MailFacts
<1> PICK p \in Nat : p = pos
  BY MailFacts
<1>2. ASSUME NEW r \in rows' PROVE RowOk(r, log, pos)'
  <2>1. r \in Row /\ RowOk(r, log, p)
    BY <1>2 DEF JournalTyped, RowsOk
  <2>2. r.msg \notin crossed => RowIds(r, log)' /\ RowShows(r, log, pos)'
    BY <2>1, RowCut DEF RowOk
  <2> QED BY <2>2 DEF RowOk
<1> QED BY <1>1, <1>2 DEF RowsOk

-----------------------------------------------------------------------------
(* The milter's steps, and the tailer's                                    *)

LEMMA RowsAreThere ==
  ASSUME RowsOk, NEW r \in rows
  PROVE  post[r.msg].stage \notin {"new", "open", "asked", "forgot"} /\ RowOk(r, log, pos)
  BY DEF RowsOk

LEMMA RowsStayTold ==
  ASSUME InboundTypeOK, PostOk, LinesOk(log), RowsOk, NEW n \in Msgs, Reported(n), UNCHANGED <<pos, crossed>>,
         rows' \subseteq rows, post'[n].stage \notin {"asked", "forgot", "open"} \/ post[n].stage \in {"new", "open", "asked"}
  PROVE  RowsOk'
<1>1. ASSUME NEW r \in rows' PROVE r \in rows /\ r \in Row /\ r.msg \in Msgs
  BY <1>1, RowFacts DEF InboundTypeOK, JournalTyped
<1>2. ASSUME NEW r \in rows' PROVE RowOk(r, log, pos)'
  BY <1>1, <1>2, RowsTold DEF InboundTypeOK
<1>3. ASSUME NEW r \in rows' PROVE post'[r.msg].stage \notin {"new", "open", "asked", "forgot"}
  <2>1. post[r.msg].stage \notin {"new", "open", "asked", "forgot"} /\ r.msg \in Msgs
    BY <1>1, <1>3 DEF RowsOk
  <2>2. CASE r.msg # n
    BY <2>1, <2>2 DEF Reported, MovesOn
  <2>3. CASE r.msg = n
    BY <2>1, <2>3 DEF Reported, MovesOn
  <2> QED BY <2>2, <2>3
<1>4. \A r, s \in rows' : r.msg = s.msg /\ r.rcpt = s.rcpt => r = s
  BY DEF RowsOk
<1> QED BY <1>2, <1>3, <1>4 DEF RowsOk

LEMMA PostfixRows ==
  ASSUME InboundTypeOK, PostOk, LinesOk(log), RowsOk, NEW n \in Msgs, Postfix(n)
  PROVE  RowsOk'
<1>1. Reported(n) /\ UNCHANGED <<pos, rows, crossed>>
  BY PostfixTold DEF InboundTypeOK
<1>2. post'[n].stage \notin {"asked", "forgot", "open"} \/ post[n].stage \in {"new", "open", "asked"}
  <2>1. CASE EndOfMessage(n) \/ OpenMessage(n) \/ RefuseMessage(n) \/ OtherMessage(n) \/ RefuseRecipient(n)
    BY <2>1 DEF EndOfMessage, OpenMessage, RefuseMessage, OtherMessage, RefuseRecipient, NextMsg
  <2>2. CASE RemoveMessage(n)
    BY <2>2, NoFate, LeavesWith DEF RemoveMessage, InboundTypeOK
  <2>3. CASE QueueMessage(n)
    BY <2>3, GoesOn DEF QueueMessage, Stages, InboundTypeOK
  <2>4. CASE Expire(n) \/ \E x \in Rcpts, st \in Results : Deliver(n, x, st)
    <3>1. post[n].stage = "queued"
      BY <2>4 DEF Expire, Deliver
    <3>2. PICK f : Settle(n, f)
      BY <2>4 DEF Expire, Deliver
    <3>3. post'[n].stage \in {"gone", "queued"}
      <4>1. post \in [Msgs -> Message] /\ post[n] \in Message
        BY MailFacts DEF InboundTypeOK
      <4>2. CASE Leaves(n, f)
        BY <4>1, <4>2 DEF Leaves, NoMsg
      <4>3. CASE post' = [post EXCEPT ![n].fate = f]
        BY <3>1, <4>1, <4>3 DEF Message
      <4> QED BY <3>2, <4>2, <4>3 DEF Settle
    <3> QED BY <3>3
  <2> QED BY <2>1, <2>2, <2>3, <2>4 DEF Postfix
<1> QED BY <1>1, <1>2, RowsStayTold

LEMMA ForgetsRows ==
  ASSUME InboundTypeOK, PostOk, LinesOk(log), RowsOk, NEW n \in Msgs, MilterForgets(n)
  PROVE  Reported(n) /\ RowsOk' /\ rows' \subseteq Row /\ crossed' \subseteq Msgs
<1> USE DEF InboundTypeOK
<1>1. post[n].stage = "asked" /\ GoesTo(n, "forgot") /\ "forgot" \in Stages /\ log' = log /\ pos' = pos
      /\ rows' = Forgotten(rows, post[n].id)
      /\ crossed' = crossed \cup {log[k].msg : k \in {j \in OthersLines(n, post[n].id) : j > pos}}
  BY DEF MilterForgets, tailer, Stages
<1>2. Reported(n)
  BY <1>1, SilentTold
<1>3. n \in Living /\ post[n].id \in Ids
  BY <1>1, Stands
<1> PICK q \in Ids : q = post[n].id
  BY <1>3
<1>4. \A r \in rows' : \E o \in rows : r = IF o.id = q THEN Detached(o) ELSE o
  BY <1>1 DEF Forgotten, Detached
<1>5. crossed \subseteq crossed' /\ crossed' \subseteq Msgs
  BY <1>1, MailFacts DEF OthersLines, JournalTyped
<1>6. ASSUME NEW r \in rows', NEW o \in rows, r = IF o.id = q THEN Detached(o) ELSE o
      PROVE  r \in Row /\ r.msg = o.msg /\ r.rcpt = o.rcpt /\ o \in Row
  BY <1>6, DetachedFacts DEF JournalTyped
<1>7. ASSUME NEW r \in rows' PROVE RowOk(r, log, pos)' /\ post'[r.msg].stage \notin {"new", "open", "asked", "forgot"}
  <2> PICK o \in rows : r = IF o.id = q THEN Detached(o) ELSE o
    BY <1>4
  <2>1. r \in Row /\ r.msg = o.msg /\ r.rcpt = o.rcpt /\ o \in Row /\ r.msg \in Msgs
    BY <1>6, RowFacts
  <2>2. post[r.msg].stage \notin {"new", "open", "asked", "forgot"} /\ RowOk(o, log, pos)
    BY <2>1, RowsAreThere
  <2>3. ASSUME r.msg \notin crossed' PROVE RowIds(r, log) /\ RowShows(r, log, pos)
    <3>1. RowIds(o, log) /\ RowShows(o, log, pos)
      BY <1>5, <2>1, <2>2, <2>3 DEF RowOk
    <3>2. CASE o.id # q
      BY <3>1, <3>2
    <3>3. CASE o.id = q
      <4>1. r = Detached(o) /\ o.id # Nil
        BY <3>3, JournalAssumption
      <4>2. o.msg # n
        BY <1>1, <2>1, <2>2
      <4>3. o.msg \notin Living
        BY <1>3, <3>1, <3>3, <4>2 DEF RowIds, PostOk
      <4>4. post[o.msg].stage = "gone"
        BY <2>1, <2>2, <4>3 DEF Living
      <4>5. ASSUME NEW k \in DOMAIN log, k > pos, Gives(log[k], o.msg, o.rcpt) PROVE FALSE
        <5>1. log[k].msg = o.msg /\ log[k].id = q
          BY <3>1, <3>3, <4>1, <4>5 DEF RowIds, Gives
        <5>2. k \in {j \in OthersLines(n, q) : j > pos}
          BY <4>2, <4>5, <5>1, MailFacts DEF OthersLines
        <5>3. o.msg \in crossed'
          BY <1>1, <5>1, <5>2
        <5> QED BY <2>1, <2>3, <5>3
      <4>6. o.st = Shown(o.msg, o.rcpt)
        BY <3>1, <4>5 DEF RowShows
      <4> QED BY <2>1, <3>1, <4>1, <4>4, <4>6, DetachedShows
    <3> QED BY <3>2, <3>3
  <2>4. r.msg \notin crossed' => RowIds(r, log)' /\ RowShows(r, log, pos)'
    BY <1>1, <1>2, <2>1, <2>2, <2>3, RowTold
  <2>5. post'[r.msg].stage \notin {"new", "open", "asked", "forgot"}
    BY <1>1, <1>2, <2>1, <2>2 DEF Reported, MovesOn
  <2> QED BY <2>4, <2>5 DEF RowOk
<1>8. ASSUME NEW r \in rows', NEW s \in rows', r.msg = s.msg, r.rcpt = s.rcpt PROVE r = s
  <2> PICK o \in rows : r = IF o.id = q THEN Detached(o) ELSE o
    BY <1>4
  <2> PICK u \in rows : s = IF u.id = q THEN Detached(u) ELSE u
    BY <1>4
  <2>1. o.msg = u.msg /\ o.rcpt = u.rcpt
    BY <1>6, <1>8
  <2>2. o = u
    BY <2>1 DEF RowsOk
  <2> QED BY <2>2
<1>9. rows' \subseteq Row
  BY <1>4, <1>6
<1> QED BY <1>2, <1>5, <1>7, <1>8, <1>9 DEF RowsOk

LEMMA InsertsRows ==
  ASSUME InboundTypeOK, PostOk, LinesOk(log), RowsOk, NEW n \in Msgs, MilterInserts(n)
  PROVE  Reported(n) /\ RowsOk' /\ rows' \subseteq Row /\ crossed' \subseteq Msgs
<1> USE DEF InboundTypeOK
<1>1. post[n].stage = "forgot" /\ GoesTo(n, "count") /\ "count" \in Stages /\ log' = log /\ pos' = pos
      /\ rows' = rows \cup Recorded(n)
      /\ crossed' = IF OthersLines(n, post[n].id) = {} THEN crossed ELSE crossed \cup {n}
  BY DEF MilterInserts, tailer, Stages
<1>2. Reported(n)
  BY <1>1, SilentTold
<1>3. n \in Living /\ post[n].id \in Ids /\ \A x \in Rcpts : post[n].fate[x] = "none"
  BY <1>1, Stands
<1> PICK q \in Ids : q = post[n].id
  BY <1>3
<1>4. crossed \subseteq crossed' /\ crossed' \subseteq Msgs
  BY <1>1 DEF JournalTyped
<1>5. post'[n].stage = "count"
  BY <1>1, GoesOn
<1>6. ASSUME NEW r \in Recorded(n)
      PROVE  r \in Row /\ r.msg = n /\ r.id = q /\ r.st = (IF Quarantine(n) /\ Signed(VerdictOf[n]) THEN "held" ELSE "queued")
  <2> DEFINE st == IF Quarantine(n) /\ Signed(VerdictOf[n]) THEN "held" ELSE "queued"
  <2>1. PICK x \in Rcpts : r = [msg |-> n, rcpt |-> x, id |-> q, st |-> st]
    BY <1>6 DEF Recorded
  <2>2. st \in Open
    BY DEF Open
  <2> HIDE DEF st
  <2>3. r \in Row /\ r.msg = n /\ r.id = q /\ r.st = st
    BY <2>1, <2>2 DEF Row
  <2> QED BY <2>3 DEF st
<1>7. ASSUME NEW r \in Recorded(n), NEW s \in Recorded(n), r.rcpt = s.rcpt PROVE r = s
  BY <1>7 DEF Recorded
<1>8. ASSUME NEW r \in rows PROVE r \in Row /\ r.msg \in Msgs /\ r.msg # n
  BY <1>1, <1>8, RowFacts, RowsAreThere DEF JournalTyped
<1>9. ASSUME NEW r \in Recorded(n), n \notin crossed' PROVE RowIds(r, log) /\ RowShows(r, log, pos)
  <2>1. OthersLines(n, q) = {}
    BY <1>1, <1>9
  <2>2. \A k \in DOMAIN log : log[k].id = q => log[k].msg = n
    BY <2>1, MailFacts DEF OthersLines
  <2>3. \A k \in DOMAIN log : log[k].msg = n => log[k].id = q
    BY <1>3 DEF LinesOk, OwnIds
  <2>4. r.msg = n /\ r.id = q
    BY <1>6
  <2>5. RowIds(r, log)
    BY <2>2, <2>3, <2>4 DEF RowIds
  <2>6. Shown(n, r.rcpt) = IF VerdictOf[n] = "hold" THEN "held" ELSE "queued"
    BY <1>1, <1>3, <1>6, RowFacts DEF Shown
  <2>7. r.st = Shown(r.msg, r.rcpt)
    BY <1>6, <2>4, <2>6 DEF Quarantine, Signed
  <2> QED BY <2>5, <2>7 DEF RowShows
<1>10. ASSUME NEW r \in rows' PROVE RowOk(r, log, pos)' /\ post'[r.msg].stage \notin {"new", "open", "asked", "forgot"}
  <2>1. CASE r \in rows
    <3>1. RowOk(r, log, pos)'
      BY <1>1, <1>2, <1>4, <1>8, <2>1, RowsTold
    <3>2. post'[r.msg].stage \notin {"new", "open", "asked", "forgot"}
      BY <1>2, <1>8, <2>1, RowsAreThere DEF Reported, MovesOn
    <3> QED BY <3>1, <3>2
  <2>2. CASE r \in Recorded(n)
    <3>1. r.msg = n /\ r \in Row
      BY <1>6, <2>2
    <3>2. r.msg \notin crossed' => RowIds(r, log)' /\ RowShows(r, log, pos)'
      BY <1>1, <1>2, <1>9, <2>2, <3>1, RowTold
    <3> QED BY <1>5, <3>1, <3>2 DEF RowOk
  <2> QED BY <1>1, <1>10, <2>1, <2>2
<1>11. ASSUME NEW r \in rows', NEW s \in rows', r.msg = s.msg, r.rcpt = s.rcpt PROVE r = s
  <2>1. r \in rows \/ r \in Recorded(n)
    BY <1>1
  <2>2. s \in rows \/ s \in Recorded(n)
    BY <1>1
  <2>3. CASE r \in rows /\ s \in rows
    BY <1>11, <2>3 DEF RowsOk
  <2> QED BY <1>6, <1>7, <1>8, <1>11, <2>1, <2>2, <2>3
<1>12. rows' \subseteq Row
  BY <1>1, <1>6 DEF JournalTyped
<1> QED BY <1>2, <1>4, <1>10, <1>11, <1>12 DEF RowsOk

\* A cut leaves rows as they are, and takes refusals away.
LEMMA CutTakes ==
  ASSUME JournalTyped, Cut
  PROVE  /\ rows' \subseteq rows /\ refused' \in [Msgs -> Nat]
         /\ \A m \in Msgs : refused'[m] <= refused[m]
<1> PICK R \in SUBSET rows, F \in SUBSET {m \in Msgs : refused[m] > 0} :
       /\ rows' = rows \ R
       /\ refused' = [m \in Msgs |-> IF m \in F THEN refused[m] - 1 ELSE refused[m]]
  BY DEF Cut
<1>1. \A m \in Msgs : refused[m] \in Nat
  BY DEF JournalTyped
<1>2. \A m \in Msgs : m \in F => refused[m] > 0
  OBVIOUS
<1>3. \A m \in Msgs : refused'[m] \in Nat /\ refused'[m] <= refused[m]
  BY <1>1, <1>2
<1> QED BY <1>3

LEMMA CutStepTakes ==
  ASSUME JournalTyped, NEW s, CutStep(s)
  PROVE  /\ rows' \subseteq rows /\ refused' \in [Msgs -> Nat] /\ writes' \in Nat
         /\ \A m \in Msgs : refused'[m] <= refused[m]
<1>1. CASE UNCHANGED journal /\ writes' = 0
  BY <1>1 DEF journal, JournalTyped
<1>2. CASE Cut /\ UNCHANGED writes
  BY <1>2, CutTakes DEF JournalTyped
<1> QED BY <1>1, <1>2 DEF CutStep

LEMMA StepNames ==
  /\ AfterCount \in {"done", "reset"} /\ \A s : AfterStep(s) \in {"done", "cut"}
  /\ {"answered", "reset", "cut", "count"} \subseteq Stages \ {"new", "gone", "queued"}
  BY DEF AfterCount, AfterStep, CutSteps, Stages

LEMMA CountsRows ==
  ASSUME InboundTypeOK, PostOk, LinesOk(log), RowsOk, NEW n \in Msgs, MilterCounts(n) \/ MilterCuts(n)
  PROVE  Reported(n) /\ RowsOk'
<1> USE DEF InboundTypeOK
<1>1. PICK s \in {"answered", "reset", "cut"} : GoesTo(n, s)
  BY StepNames DEF MilterCounts, MilterCuts
<1>2. post[n].stage \in {"count", "reset", "cut"} /\ log' = log /\ pos' = pos /\ crossed' = crossed /\ rows' \subseteq rows
  BY CutStepTakes DEF MilterCounts, MilterCuts, tailer, journal
<1>3. Reported(n)
  BY <1>1, <1>2, StepNames, SilentTold
<1>4. post'[n].stage = s
  BY <1>1, StepNames, GoesOn
<1> QED BY <1>2, <1>3, <1>4, RowsStayTold

LEMMA ReadsRows ==
  ASSUME InboundTypeOK, ReadLine
  PROVE  /\ pos < Len(log) /\ rows' = {After(r, log[pos + 1]) : r \in rows}
         /\ \E d \in {0, pos + 1} : Shortened(d) /\ pos' = pos + 1 - d
<1> USE DEF InboundTypeOK
<1>1. pos < Len(log) /\ HandleLine(log[pos + 1])
  BY DEF ReadLine
<1> PICK l : l = log[pos + 1]
  OBVIOUS
<1>2. rows' = {After(r, l) : r \in rows}
  <2>1. CASE OpenedHere(l) \/ Rejected(l) \/ FilterRefused(l)
    <3>1. rows' = rows /\ l.kind \in {"open25", "reject", "verdict"}
      BY <2>1 DEF OpenedHere, Rejected, FilterRefused, journal
    <3>2. \A r \in rows : After(r, l) = r
      BY <3>1 DEF After
    <3> QED BY <3>1, <3>2
  <2>2. CASE Accounted(l)
    <3>1. CASE l.kind = "removed"
      <4>1. rows' = Forgotten(rows, l.id)
        BY <2>2, <3>1 DEF Accounted
      <4>2. \A r \in rows : After(r, l) = IF r.id = l.id THEN Detached(r) ELSE r
        BY <3>1 DEF After
      <4>3. rows' = {IF r.id = l.id THEN Detached(r) ELSE r : r \in rows}
        BY <4>1 DEF Forgotten, Detached
      <4> QED BY <4>2, <4>3
    <3>2. CASE l.kind # "removed"
      <4>1. rows' = rows /\ l.kind \in {"openOther", "qmgr"}
        BY <2>2, <3>2 DEF Accounted
      <4>2. \A r \in rows : After(r, l) = r
        BY <4>1 DEF After
      <4> QED BY <4>1, <4>2
    <3> QED BY <3>1, <3>2
  <2>3. CASE Upstream(l)
    <3>1. l.kind = "delivery" /\ rows' = Updated(l.id, l.rcpt, l.st)
      BY <2>3 DEF Upstream
    <3>2. \A r \in rows : After(r, l) = IF r.id = l.id /\ r.rcpt = l.rcpt /\ Takes(r) THEN [r EXCEPT !.st = l.st] ELSE r
      BY <3>1 DEF After
    <3> QED BY <3>1, <3>2 DEF Updated
  <2>4. CASE GivenUp(l)
    <3>1. l.kind = "expired" /\ rows' = Expired(l.id)
      BY <2>4 DEF GivenUp
    <3>2. \A r \in rows : After(r, l) = IF r.id = l.id /\ Takes(r) THEN [r EXCEPT !.st = "bounced"] ELSE r
      BY <3>1 DEF After
    <3> QED BY <3>1, <3>2 DEF Expired
  <2> QED BY <1>1, <2>1, <2>2, <2>3, <2>4 DEF HandleLine
<1>3. CASE pos' = 0 /\ log' = SubSeq(log, pos + 2, Len(log))
  <2>1. pos + 1 \in 0 .. Len(log) /\ (pos + 1) + 1 = pos + 2 /\ pos' = (pos + 1) - (pos + 1)
    BY <1>1, <1>3, MailFacts
  <2>2. Shortened(pos + 1)
    BY <1>3, <2>1 DEF Shortened
  <2>3. PICK d \in {0, pos + 1} : d = pos + 1
    OBVIOUS
  <2>4. Shortened(d)
    BY <2>2, <2>3
  <2>5. pos' = pos + 1 - d
    BY <1>1, <1>3, <2>3, MailFacts
  <2> QED BY <1>1, <1>2, <2>4, <2>5
<1>4. CASE pos' = pos + 1 /\ log' = log
  <2>1. pos' = pos + 1 - 0
    BY <1>4, MailFacts
  <2> QED BY <1>1, <1>2, <1>4, <2>1, SameLog
<1> QED BY <1>3, <1>4 DEF ReadLine

LEMMA ReadRows ==
  ASSUME InboundTypeOK, PostOk, LinesOk(log), RowsOk, ReadLine
  PROVE  LinesOk(log)' /\ RowsOk' /\ rows' \subseteq Row /\ log' \in Seq(LogLine) /\ pos' \in 0 .. Len(log')
<1> USE DEF InboundTypeOK
<1>1. post' = post /\ crossed' = crossed
  BY DEF ReadLine
<1>2. PICK l : l = log[pos + 1] /\ pos < Len(log) /\ rows' = {After(r, l) : r \in rows}
  BY ReadsRows
<1>3. PICK d : d \in {0, pos + 1} /\ Shortened(d) /\ pos' = pos + 1 - d
  BY ReadsRows
<1>4. PICK p \in Nat : p = pos + 1 /\ p >= d /\ pos' = p - d
  BY <1>2, <1>3, MailFacts
<1>5. LinesOk(log)' /\ log' \in Seq(LogLine) /\ pos' \in 0 .. Len(log')
  BY <1>1, <1>2, <1>3, <1>4, LinesCut, ShortFacts, MailFacts
<1>6. ASSUME NEW o \in rows
      PROVE  o \in Row /\ After(o, l) \in Row /\ After(o, l).msg = o.msg /\ After(o, l).rcpt = o.rcpt
  <2>1. o \in Row
    BY DEF JournalTyped
  <2>2. l \in LogLine
    BY <1>2, MailFacts
  <2>3. l.kind = "delivery" => l.st \in Results
    BY <1>2, MailFacts DEF LinesOk, DeliveriesTrue
  <2>4. l.kind = "delivery" => [o EXCEPT !.st = l.st] \in Row /\ [o EXCEPT !.st = l.st].msg = o.msg
                               /\ [o EXCEPT !.st = l.st].rcpt = o.rcpt
    BY <2>1, <2>3, JournalAssumption DEF Row, Open, Finals
  <2>5. [o EXCEPT !.st = "bounced"] \in Row /\ [o EXCEPT !.st = "bounced"].msg = o.msg
        /\ [o EXCEPT !.st = "bounced"].rcpt = o.rcpt
    BY <2>1 DEF Row, Finals
  <2> QED BY <2>1, <2>4, <2>5, DetachedFacts DEF After
<1>7. ASSUME NEW r \in rows' PROVE RowOk(r, log, pos)' /\ r \in Row /\ post[r.msg].stage \notin {"new", "open", "asked", "forgot"}
  <2> PICK o \in rows : r = After(o, l)
    BY <1>2
  <2>1. o \in Row /\ r \in Row /\ r.msg = o.msg /\ r.rcpt = o.rcpt
    BY <1>6
  <2>2. post[o.msg].stage \notin {"new", "open", "asked", "forgot"} /\ RowOk(o, log, pos)
    BY RowsAreThere
  <2>3. ASSUME r.msg \notin crossed PROVE RowIds(r, log)' /\ RowShows(r, log, pos)'
    <3>1. RowIds(o, log) /\ RowShows(o, log, pos)
      BY <2>1, <2>2, <2>3 DEF RowOk
    <3>2. RowIds(r, log) /\ RowShows(r, log, pos + 1)
      BY <1>2, <2>1, <2>2, <3>1, RowRead
    <3> QED BY <1>1, <1>3, <1>4, <2>1, <3>2, RowCut
  <2> QED BY <1>1, <2>1, <2>2, <2>3 DEF RowOk
<1>8. ASSUME NEW r \in rows', NEW s \in rows', r.msg = s.msg, r.rcpt = s.rcpt PROVE r = s
  <2> PICK o \in rows : r = After(o, l)
    BY <1>2
  <2> PICK u \in rows : s = After(u, l)
    BY <1>2
  <2>1. o.msg = u.msg /\ o.rcpt = u.rcpt
    BY <1>6, <1>8
  <2>2. o = u
    BY <2>1 DEF RowsOk
  <2> QED BY <2>2
<1> QED BY <1>1, <1>5, <1>7, <1>8 DEF RowsOk

LEMMA KillRows ==
  ASSUME InboundTypeOK, PostOk, LinesOk(log), RowsOk, Kill
  PROVE  PostOk' /\ LinesOk(log)' /\ RowsOk' /\ post' \in [Msgs -> Message]
<1> USE DEF InboundTypeOK
<1>1. /\ post' = [m \in Msgs |-> IF post[m].stage \in InMilter THEN [post[m] EXCEPT !.stage = "answered"] ELSE post[m]]
      /\ log' = log /\ pos' = 0 /\ rows' = rows /\ crossed' = crossed
  BY DEF Kill, journal
<1>2. ASSUME NEW m \in Msgs
      PROVE  /\ post'[m] \in Message /\ post'[m].id = post[m].id /\ post'[m].fate = post[m].fate
             /\ post'[m].stage = IF post[m].stage \in InMilter THEN "answered" ELSE post[m].stage
  <2>1. post[m] \in Message /\ post'[m] = IF post[m].stage \in InMilter THEN [post[m] EXCEPT !.stage = "answered"] ELSE post[m]
    BY <1>1, MailFacts
  <2> QED BY <2>1 DEF Message, Stages
<1>3. post' \in [Msgs -> Message]
  BY <1>1, <1>2
<1>4. Living' = Living
  BY <1>2 DEF Living, InMilter
<1>5. \A m \in Msgs : (post'[m].stage = "gone" <=> post[m].stage = "gone") /\ (post'[m].stage = "new" <=> post[m].stage = "new")
                      /\ (post[m].stage = "queued" => post'[m].stage = "queued")
  BY <1>2 DEF InMilter
<1>6. PostOk'
  BY <1>2, <1>4, <1>5 DEF PostOk, Living
<1>7. ASSUME NEW l, NEW m \in Msgs, NEW x PROVE (Gives(l, m, x)' <=> Gives(l, m, x)) /\ Shown(m, x)' = Shown(m, x)
  BY <1>2, <1>5 DEF Gives, Shown
<1>8. OwnIds(log)'
  <2>1. \A k \in DOMAIN log : /\ post'[log[k].msg].stage # "new"
                              /\ log[k].msg \in Living => log[k].id = post'[log[k].msg].id
    BY <1>2, <1>5, MailFacts DEF LinesOk, OwnIds
  <2> QED BY <1>1, <1>4, <2>1 DEF LinesOk, OwnIds
<1>9. EndsLast(log)'
  <2>1. \A k \in DOMAIN log : log[k].kind \in Ending =>
            /\ post'[log[k].msg].stage = "gone"
            /\ \A x \in Rcpts : IF log[k].kind = "expired" THEN post'[log[k].msg].fate[x] \in Finals
                                                           ELSE post'[log[k].msg].fate[x] = "none"
    BY <1>2, <1>5, MailFacts DEF LinesOk, EndsLast
  <2> QED BY <1>1, <2>1 DEF LinesOk, EndsLast
<1>10. DeliveriesTrue(log)'
  <2> SUFFICES ASSUME NEW k \in DOMAIN log, log[k].kind = "delivery"
               PROVE  /\ log[k].rcpt \in Rcpts /\ log[k].st \in Results /\ post'[log[k].msg].fate[log[k].rcpt] # "none"
                      /\ \/ log[k].st = post'[log[k].msg].fate[log[k].rcpt]
                         \/ /\ log[k].st = "deferred"
                            /\ \E j \in DOMAIN log : j > k /\ Gives(log[j], log[k].msg, log[k].rcpt)'
    BY <1>1 DEF DeliveriesTrue, Gives
  <2>1. log[k].msg \in Msgs /\ post'[log[k].msg].fate = post[log[k].msg].fate
    BY <1>2, MailFacts
  <2>2. \A j \in DOMAIN log : Gives(log[j], log[k].msg, log[k].rcpt) => Gives(log[j], log[k].msg, log[k].rcpt)'
    BY <1>1, <2>1 DEF Gives
  <2> QED BY <2>1, <2>2 DEF LinesOk, DeliveriesTrue
<1>11. RefusedOnce(log)'
  BY <1>1, <1>5, MailFacts DEF LinesOk, RefusedOnce
<1>12. ASSUME NEW r \in rows PROVE RowOk(r, log, pos)' /\ post'[r.msg].stage \notin {"new", "open", "asked", "forgot"}
  <2>1. r \in Row /\ r.msg \in Msgs /\ post[r.msg].stage \notin {"new", "open", "asked", "forgot"} /\ RowOk(r, log, pos)
    BY <1>12, RowsAreThere, RowFacts DEF JournalTyped
  <2>2. post'[r.msg].stage \notin {"new", "open", "asked", "forgot"}
    BY <1>2, <2>1
  <2>3. ASSUME r.msg \notin crossed PROVE RowIds(r, log)' /\ RowShows(r, log, pos)'
    <3>1. RowIds(r, log) /\ RowShows(r, log, pos)
      BY <2>1, <2>3 DEF RowOk
    <3>2. post'[r.msg].id = post[r.msg].id
      BY <1>2, <2>1
    <3>3. RowIds(r, log)'
      BY <1>1, <1>4, <3>1, <3>2 DEF RowIds
    <3>4. ASSUME NEW k \in DOMAIN log, k > pos, Gives(log[k], r.msg, r.rcpt) PROVE k > 0 /\ Gives(log[k], r.msg, r.rcpt)'
      <4>1. post'[r.msg].fate = post[r.msg].fate
        BY <1>2, <2>1
      <4> QED BY <1>1, <3>4, <4>1, MailFacts DEF Gives
    <3>5. RowShows(r, log, pos)'
      BY <1>1, <1>7, <2>1, <3>1, <3>4 DEF RowShows
    <3> QED BY <3>3, <3>5
  <2> QED BY <1>1, <2>2, <2>3 DEF RowOk
<1>13. RowsOk'
  BY <1>1, <1>12 DEF RowsOk
<1> QED BY <1>3, <1>6, <1>8, <1>9, <1>10, <1>11, <1>13 DEF LinesOk

-----------------------------------------------------------------------------
(* Refusals                                                                *)

LEMMA RefusalsTold ==
  ASSUME InboundTypeOK, LinesOk(log), RefusalsOk, NEW n \in Msgs, Reported(n), UNCHANGED <<pos, catching, up>>,
         \A m \in Msgs : refused'[m] <= refused[m], refused' \in [Msgs -> Nat]
  PROVE  RefusalsOk'
<1> USE DEF InboundTypeOK
<1>1. \A m \in Msgs : refused[m] \in Nat /\ refused'[m] \in Nat
  BY DEF JournalTyped
<1>2. \A m \in Msgs : refused'[m] <= 1 /\ (refused'[m] > 0 => refused[m] > 0)
  BY <1>1 DEF RefusalsOk
<1>3. \A m \in Msgs : refused'[m] > 0 => post'[m].stage = "gone"
  BY <1>2 DEF RefusalsOk, Reported, MovesOn
<1>4. refused'[n] = 0
  BY <1>1, <1>2 DEF RefusalsOk, Reported, MovesOn
<1>5. ASSUME up, ~catching, NEW k \in DOMAIN log', k > pos, log'[k].kind \in Refusing PROVE refused'[log'[k].msg] = 0
  <2>1. CASE Added(k)
    BY <1>4, <2>1 DEF Reported, Adds
  <2>2. CASE k \in DOMAIN log /\ log'[k] = log[k]
    <3>1. log[k].msg \in Msgs /\ refused[log[k].msg] = 0
      BY <1>5, <2>2, MailFacts DEF RefusalsOk
    <3> QED BY <1>1, <1>2, <2>2, <3>1
  <2> QED BY <2>1, <2>2, AddFacts DEF Reported
<1> QED BY <1>2, <1>3, <1>5 DEF RefusalsOk

LEMMA RefusalsCut ==
  ASSUME InboundTypeOK, RefusalsOk, UNCHANGED <<post, up>>, NEW d, Shortened(d), pos' = pos - d, pos >= d,
         catching' = catching \/ catching' \/ ~up' \/ pos = Len(log),
         \A m \in Msgs : refused'[m] <= refused[m], refused' \in [Msgs -> Nat]
  PROVE  RefusalsOk'
<1> USE DEF InboundTypeOK
<1>1. \A m \in Msgs : refused[m] \in Nat /\ refused'[m] \in Nat
  BY DEF JournalTyped
<1>2. \A m \in Msgs : refused'[m] <= 1 /\ (refused'[m] > 0 => refused[m] > 0)
  BY <1>1 DEF RefusalsOk
<1>3. ASSUME up', ~catching', NEW k \in DOMAIN log', k > pos', log'[k].kind \in Refusing PROVE refused'[log'[k].msg] = 0
  <2> PICK z \in DOMAIN log : z = k + d /\ log'[k] = log[z]
    BY ShortFacts
  <2>1. z > pos /\ pos # Len(log)
    BY <1>3, ShortFacts, MailFacts
  <2>2. log[z].msg \in Msgs /\ refused[log[z].msg] = 0
    BY <1>3, <2>1, MailFacts DEF RefusalsOk
  <2> QED BY <1>1, <1>2, <2>2
<1> QED BY <1>2, <1>3 DEF RefusalsOk

\* What a line does to the refusals: another one, of its message.
LEMMA ReadsRefusal ==
  ASSUME InboundTypeOK, ReadLine, NEW l, l = log[pos + 1]
  PROVE  \/ refused' = refused
         \/ /\ l.kind \in Refusing /\ ~Again(l.msg)
            /\ refused' = [refused EXCEPT ![l.msg] = @ + 1]
<1>1. HandleLine(l)
  BY DEF ReadLine
<1>2. CASE Rejected(l) \/ FilterRefused(l)
  BY <1>2 DEF Rejected, FilterRefused, RecordRefusal, Refusing
<1>3. CASE OpenedHere(l) \/ Accounted(l) \/ Upstream(l) \/ GivenUp(l)
  BY <1>3 DEF OpenedHere, Accounted, Upstream, GivenUp, journal
<1> QED BY <1>1, <1>2, <1>3 DEF HandleLine

LEMMA ReadRefusals ==
  ASSUME InboundTypeOK, LinesOk(log), RefusalsOk, ReadLine
  PROVE  RefusalsOk' /\ refused' \in [Msgs -> Nat]
<1> USE DEF InboundTypeOK
<1>1. up /\ UNCHANGED <<post, up, catching>> /\ pos < Len(log)
  BY DEF ReadLine
<1> PICK i \in DOMAIN log : i = pos + 1
  BY <1>1, MailFacts
<1> PICK l \in LogLine : l = log[i] /\ l.msg \in Msgs
  BY MailFacts
<1>2. \A m \in Msgs : refused[m] \in Nat
  BY DEF JournalTyped
<1>3. PICK d : d \in {0, pos + 1} /\ Shortened(d) /\ pos' = pos + 1 - d
  BY ReadsRows
<1>4. CASE refused' = refused
  <2>1. ASSUME ~catching, NEW k \in DOMAIN log', k > pos', log'[k].kind \in Refusing PROVE refused'[log'[k].msg] = 0
    <3> PICK z \in DOMAIN log : z = k + d /\ log'[k] = log[z]
      BY <1>3, ShortFacts
    <3>1. z > pos
      BY <1>3, <2>1, ShortFacts, MailFacts
    <3> QED BY <1>1, <1>4, <2>1, <3>1 DEF RefusalsOk
  <2>2. \A m \in Msgs : refused'[m] <= 1 /\ (refused'[m] > 0 => post'[m].stage = "gone")
    BY <1>1, <1>4 DEF RefusalsOk
  <2> QED BY <1>1, <1>4, <2>1, <2>2 DEF RefusalsOk, JournalTyped
<1>5. CASE l.kind \in Refusing /\ ~Again(l.msg) /\ refused' = [refused EXCEPT ![l.msg] = @ + 1]
  <2>1. refused[l.msg] = 0
    BY <1>1, <1>2, <1>5, MailFacts DEF RefusalsOk, Again
  <2>2. /\ refused'[l.msg] = 1 /\ refused' \in [Msgs -> Nat]
        /\ \A m \in Msgs : m # l.msg => refused'[m] = refused[m]
    BY <1>2, <1>5, <2>1 DEF JournalTyped
  <2>3. post[l.msg].stage = "gone"
    BY <1>5 DEF LinesOk, RefusedOnce
  <2>4. ASSUME ~catching, NEW k \in DOMAIN log', k > pos', log'[k].kind \in Refusing PROVE refused'[log'[k].msg] = 0
    <3> PICK z \in DOMAIN log : z = k + d /\ log'[k] = log[z]
      BY <1>3, ShortFacts
    <3>1. z > pos + 1
      BY <1>3, <2>4, ShortFacts, MailFacts
    <3>2. log[z].msg # l.msg
      BY <1>5, <2>4, <3>1, MailFacts DEF LinesOk, RefusedOnce
    <3>3. log[z].msg \in Msgs /\ refused[log[z].msg] = 0
      BY <1>1, <2>4, <3>1, MailFacts DEF RefusalsOk
    <3> QED BY <2>2, <3>2, <3>3
  <2>5. \A m \in Msgs : refused'[m] <= 1 /\ (refused'[m] > 0 => post'[m].stage = "gone")
    BY <1>1, <2>2, <2>3 DEF RefusalsOk
  <2> QED BY <1>1, <2>2, <2>4, <2>5 DEF RefusalsOk
<1> QED BY <1>4, <1>5, ReadsRefusal

-----------------------------------------------------------------------------
(* The ids remembered                                                      *)

LEMMA ArrivalsForget ==
  ASSUME InboundTypeOK, ArrivalsOk, NEW q \in Ids, Forget(q)
  PROVE  MemoryTyped' /\ ArrivalsOk'
<1>1. inboundQueueIDs \in Nat
  BY JournalAssumption
<1>2. /\ port25 \in [Ids -> Nat] /\ fresh \in [Ids -> 0 .. inboundQueueIDs] /\ order' = order
      /\ port25' = [port25 EXCEPT ![q] = 0] /\ fresh' = [fresh EXCEPT ![q] = inboundQueueIDs]
  BY DEF InboundTypeOK, MemoryTyped, Forget
<1>3. MemoryTyped'
  BY <1>1, <1>2 DEF InboundTypeOK, MemoryTyped
<1>4. ASSUME NEW p \in Ids, fresh'[p] < inboundQueueIDs
      PROVE  fresh'[p] < Len(order) /\ port25'[p] = order[Len(order) - fresh'[p]].seq
  <2>1. p # q
    BY <1>1, <1>2, <1>4
  <2> QED BY <1>2, <1>4, <2>1 DEF ArrivalsOk
<1> QED BY <1>2, <1>3, <1>4 DEF ArrivalsOk

LEMMA ArrivalFacts ==
  ASSUME NEW a \in Arrival
  PROVE  a.id \in Ids /\ a.seq \in Nat /\ a.seq # 0
BY DEF Arrival

LEMMA MemoryFacts ==
  ASSUME MemoryTyped
  PROVE  /\ order \in Seq(Arrival) /\ Len(order) \in Nat /\ Len(order) <= inboundQueueIDs
         /\ inboundQueueIDs \in Nat /\ inboundQueueIDs > 0
         /\ port25 \in [Ids -> Nat] /\ fresh \in [Ids -> 0 .. inboundQueueIDs]
         /\ \A i \in 1 .. Len(order) : order[i] \in Arrival
         /\ DOMAIN order = 1 .. Len(order)
<1>1. order \in Seq(Arrival) /\ Len(order) <= inboundQueueIDs
  BY DEF MemoryTyped
<1>2. Len(order) \in Nat /\ DOMAIN order = 1 .. Len(order) /\ \A i \in 1 .. Len(order) : order[i] \in Arrival
  BY <1>1
<1>3. inboundQueueIDs \in Nat /\ inboundQueueIDs > 0
  BY JournalAssumption
<1>4. port25 \in [Ids -> Nat] /\ fresh \in [Ids -> 0 .. inboundQueueIDs]
  BY DEF MemoryTyped
<1> QED BY <1>1, <1>2, <1>3, <1>4

\* The numbers of the arrivals, from the first one's.
LEMMA Numbers ==
  ASSUME MemoryTyped, Numbered(order)
  PROVE  \E a \in Nat : /\ \A i \in 1 .. Len(order) : order[i].seq = a + i - 1
                        /\ IF order = <<>> THEN a = 1 ELSE order[Len(order)].seq + 1 = a + Len(order)
<1>1. CASE order = <<>>
  <2>1. Len(order) = 0
    BY <1>1
  <2> QED BY <1>1, <2>1
<1>2. CASE order # <<>>
  <2>1. 1 \in 1 .. Len(order) /\ Len(order) \in 1 .. Len(order)
    BY <1>2, MemoryFacts
  <2> PICK a \in Nat : a = order[1].seq
    BY <2>1, MemoryFacts, ArrivalFacts
  <2>2. \A i \in 1 .. Len(order) : order[i].seq = a + i - 1
    BY MemoryFacts DEF Numbered
  <2>3. order[Len(order)].seq = a + Len(order) - 1
    BY <2>1, <2>2
  <2>4. order[Len(order)].seq + 1 = a + Len(order)
    <3> PICK z \in Nat : z = Len(order)
      BY MemoryFacts
    <3> QED BY <2>3
  <2> QED BY <1>2, <2>2, <2>4
<1> QED BY <1>1, <1>2

LEMMA ArrivalsRemember ==
  ASSUME InboundTypeOK, ArrivalsOk, NEW q \in Ids, Remember(q)
  PROVE  MemoryTyped' /\ ArrivalsOk'
<1>1. CASE UNCHANGED memory
  BY <1>1 DEF InboundTypeOK, memory, MemoryTyped, ArrivalsOk
<1>2. CASE port25[q] = 0
  <2> DEFINE seq == IF order = <<>> THEN 1 ELSE order[Len(order)].seq + 1
             full == Len(order) >= inboundQueueIDs
             e == [id |-> q, seq |-> seq]
             ports == IF full THEN Dropped(Head(order)) ELSE port25
  <2>1. /\ order' = Append(IF full THEN Tail(order) ELSE order, e)
        /\ port25' = [ports EXCEPT ![q] = seq]
        /\ fresh' = [p \in Ids |-> IF p = q THEN 0 ELSE Capped(fresh[p] + 1)]
    BY <1>2 DEF Remember
  <2>2. MemoryTyped
    BY DEF InboundTypeOK
  <2> PICK N \in Nat : N = Len(order)
    BY <2>2, MemoryFacts
  <2> PICK K \in Nat : K = inboundQueueIDs /\ K > 0
    BY <2>2, MemoryFacts
  <2> PICK s \in {0, 1} : s = IF full THEN 1 ELSE 0
    OBVIOUS
  <2>3. N <= K /\ (s = 1 => N = K) /\ (s = 0 => N < K) /\ s <= N
    BY <2>2, MemoryFacts
  <2>4. seq \in Nat /\ seq # 0
    <3>1. CASE order = <<>>
      BY <3>1
    <3>2. CASE order # <<>>
      <4>1. N \in 1 .. N /\ order[N] \in Arrival
        BY <2>2, <3>2, MemoryFacts
      <4> QED BY <3>2, <4>1, ArrivalFacts
    <3> QED BY <3>1, <3>2
  <2>5. e \in Arrival /\ e.seq = seq
    BY <2>4 DEF Arrival
  <2>6. /\ order' \in Seq(Arrival) /\ Len(order') = N - s + 1 /\ order'[Len(order')] = e
        /\ \A i \in 1 .. N - s : order'[i] = order[i + s]
    <3>1. order \in Seq(Arrival)
      BY <2>2, MemoryFacts
    <3> HIDE DEF e
    <3>2. CASE s = 1
      BY <2>1, <2>3, <2>5, <3>1, <3>2
    <3>3. CASE s = 0
      BY <2>1, <2>3, <2>5, <3>1, <3>3
    <3> QED BY <3>2, <3>3
  <2>14. Numbered(order')
    <3>1. MemoryTyped /\ Numbered(order)
      BY <2>2 DEF ArrivalsOk
    <3> PICK a \in Nat : /\ \A i \in 1 .. Len(order) : order[i].seq = a + i - 1
                         /\ IF order = <<>> THEN a = 1 ELSE order[Len(order)].seq + 1 = a + Len(order)
      BY <3>1, Numbers
    <3>2. seq = a + N
      <4>1. order = <<>> => N = 0
        OBVIOUS
      <4> QED BY <4>1
    <3> HIDE DEF seq, e
    <3>3. N - s \in Nat
      BY <2>3
    <3> PICK t \in Nat : t = N - s
      BY <3>3
    <3>4. order'[t + 1].seq = a + N
      BY <2>5, <2>6, <3>2
    <3>5. ASSUME NEW i \in 1 .. t + 1 PROVE order'[i].seq = a + (i + s) - 1
      <4>1. CASE i = t + 1
        <5>1. i + s = N + 1
          BY <4>1
        <5>2. a + (N + 1) - 1 = a + N
          OBVIOUS
        <5> QED BY <3>4, <4>1, <5>1, <5>2
      <4>2. CASE i # t + 1
        <5>1. i \in 1 .. N - s /\ i + s \in 1 .. N
          BY <4>2
        <5> PICK j \in 1 .. N : j = i + s
          BY <5>1
        <5>2. order'[i] = order[j] /\ order[j].seq = a + j - 1
          BY <2>6, <5>1
        <5> QED BY <5>2
      <4> QED BY <4>1, <4>2
    <3>6. order'[1].seq = a + s
      <4>1. 1 \in 1 .. t + 1
        OBVIOUS
      <4>2. order'[1].seq = a + (1 + s) - 1
        BY <3>5, <4>1
      <4> QED BY <4>2
    <3>7. ASSUME NEW i \in 1 .. t + 1 PROVE order'[i].seq = order'[1].seq + i - 1
      <4>1. a + (i + s) - 1 = (a + s) + i - 1
        OBVIOUS
      <4> QED BY <3>5, <3>6, <4>1
    <3>8. DOMAIN order' = 1 .. t + 1
      BY <2>6
    <3> QED BY <3>7, <3>8 DEF Numbered
  <2>7. /\ ports \in [Ids -> Nat]
        /\ \A p \in Ids : ports[p] = port25[p] \/ (s = 1 /\ port25[p] = order[1].seq)
    <3>1. CASE s = 1
      <4>1. Head(order) = order[1] /\ order[1].id \in Ids
        BY <2>2, <2>3, <3>1, MemoryFacts, ArrivalFacts
      <4> QED BY <2>2, <3>1, <4>1, MemoryFacts DEF Dropped
    <3>2. CASE s = 0
      BY <2>2, <3>2, MemoryFacts
    <3> QED BY <3>1, <3>2
  <2> HIDE DEF ports, seq, full
  <2>8. port25' \in [Ids -> Nat] /\ port25'[q] = seq /\ \A p \in Ids : p # q => port25'[p] = ports[p]
    BY <2>1, <2>4, <2>7
  <2>9. \A p \in Ids : fresh[p] \in 0 .. K
    BY <2>2, MemoryFacts
  <2>10. fresh' \in [Ids -> 0 .. K]
    BY <2>1, <2>9 DEF Capped
  <2>11. MemoryTyped'
    <3>1. Len(order') <= inboundQueueIDs
      BY <2>3, <2>6
    <3> QED BY <2>6, <2>8, <2>10, <3>1 DEF MemoryTyped
  <2>12. ASSUME NEW p \in Ids, fresh'[p] < K
         PROVE  fresh'[p] < Len(order') /\ port25'[p] = order'[Len(order') - fresh'[p]].seq
    <3>1. CASE p = q
      <4>1. fresh'[p] = 0 /\ port25'[p] = seq
        BY <2>1, <2>8, <3>1
      <4>2. Len(order') - 0 = Len(order') /\ 0 < Len(order')
        BY <2>3, <2>6
      <4> QED BY <2>5, <2>6, <4>1, <4>2
    <3>2. CASE p # q
      <4> PICK f \in Nat : f = fresh[p]
        BY <2>9
      <4>1. fresh'[p] = f + 1 /\ f < K /\ f + 1 < K
        BY <2>1, <2>9, <2>12, <3>2 DEF Capped
      <4>2. f < N /\ port25[p] = order[N - f].seq
        BY <4>1 DEF ArrivalsOk
      <4> PICK z \in Nat : z = N - f
        BY <4>2
      <4>3. z - s \in 1 .. N - s /\ z - s + s = z
        BY <2>3, <4>1, <4>2
      <4>4. order'[z - s] = order[z]
        BY <2>6, <4>3
      <4>5. Len(order') - fresh'[p] = z - s /\ fresh'[p] < Len(order')
        <5> PICK c \in Nat : c = Len(order')
          BY <2>6
        <5> PICK g \in Nat : g = fresh'[p]
          BY <4>1
        <5>1. c = N - s + 1 /\ g = f + 1 /\ z = N - f
          BY <2>6, <4>1
        <5>2. c - g = z - s
          BY <5>1
        <5>3. g < c
          BY <4>3, <5>1
        <5> QED BY <5>2, <5>3
      <4>6. ports[p] = port25[p]
        <5>1. s = 1 => order[z].seq # order[1].seq
          <6> SUFFICES ASSUME s = 1 PROVE order[z].seq # order[1].seq
            OBVIOUS
          <6>1. z \in 1 .. N /\ z > 1 /\ 1 \in 1 .. N
            BY <4>3
          <6>2. order[1] \in Arrival /\ DOMAIN order = 1 .. N
            BY <2>2, <6>1, MemoryFacts
          <6> PICK a \in Nat : a = order[1].seq
            BY <6>2, ArrivalFacts
          <6>3. order[z].seq = a + z - 1
            BY <6>1, <6>2 DEF ArrivalsOk, Numbered
          <6> QED BY <6>1, <6>3
        <5> QED BY <2>7, <4>2, <5>1
      <4> QED BY <2>8, <3>2, <4>2, <4>4, <4>5, <4>6
    <3> QED BY <3>1, <3>2
  <2> QED BY <2>11, <2>12, <2>14 DEF ArrivalsOk
<1> QED BY <1>1, <1>2 DEF Remember

\* What a line does to the ids remembered.
LEMMA ReadArrivals ==
  ASSUME InboundTypeOK, ArrivalsOk, ReadLine
  PROVE  MemoryTyped' /\ ArrivalsOk'
<1> USE DEF InboundTypeOK
<1>1. pos < Len(log) /\ HandleLine(log[pos + 1])
  BY DEF ReadLine
<1> PICK i \in DOMAIN log : i = pos + 1
  BY <1>1, MailFacts
<1> PICK l \in LogLine : l = log[i]
  BY MailFacts
<1>2. HandleLine(l) /\ (l.kind # "reject" => l.id \in Ids)
  BY <1>1 DEF LogLine, Written
<1>3. CASE UNCHANGED memory
  BY <1>3 DEF memory, MemoryTyped, ArrivalsOk
<1>4. CASE OpenedHere(l)
  BY <1>2, <1>4, ArrivalsRemember DEF OpenedHere
<1>5. CASE Accounted(l)
  BY <1>2, <1>5, ArrivalsForget DEF Accounted
<1>6. CASE FilterRefused(l)
  BY <1>2, <1>3, <1>6, ArrivalsForget DEF FilterRefused
<1>7. CASE Rejected(l) \/ Upstream(l) \/ GivenUp(l)
  BY <1>3, <1>7 DEF Rejected, Upstream, GivenUp
<1> QED BY <1>2, <1>4, <1>5, <1>6, <1>7 DEF HandleLine

-----------------------------------------------------------------------------
(* Every step                                                              *)

\* The rows written are counted.
LEMMA CountedType ==
  ASSUME NEW m \in Msgs
  PROVE  Counted(m) \in Nat
<1> DEFINE row(x) == [msg |-> m, rcpt |-> x, id |-> post[m].id,
                      st |-> IF Quarantine(m) /\ Signed(VerdictOf[m]) THEN "held" ELSE "queued"]
           f == [x \in Rcpts |-> row(x)]
<1>1. Recorded(m) = {row(x) : x \in Rcpts}
  BY DEF Recorded
<1> HIDE DEF row
<1>2. f \in Surjection(Rcpts, Recorded(m))
  BY <1>1 DEF Surjection
<1>3. IsFiniteSet(Recorded(m))
  BY <1>2, FS_Surjection, JournalAssumption
<1> QED BY <1>3, FS_CardinalityType DEF Counted

LEMMA Typed ==
  ASSUME post' \in [Msgs -> Message], log' \in Seq(LogLine), pos' \in 0 .. Len(log'), rows' \subseteq Row,
         refused' \in [Msgs -> Nat], writes' \in Nat, crossed' \subseteq Msgs, MemoryTyped', PanelTyped'
  PROVE  InboundTypeOK'
<1>1. MailTyped'
  BY DEF MailTyped, Message
<1>2. JournalTyped'
  BY DEF JournalTyped
<1> QED BY <1>1, <1>2 DEF InboundTypeOK

LEMMA TypeFacts ==
  ASSUME InboundTypeOK
  PROVE  /\ post \in [Msgs -> Message] /\ log \in Seq(LogLine) /\ pos \in 0 .. Len(log)
         /\ rows \subseteq Row /\ refused \in [Msgs -> Nat] /\ writes \in Nat /\ crossed \subseteq Msgs
  BY DEF InboundTypeOK, MailTyped, JournalTyped, Message

\* A message moves on, and Postfix writes of it.
LEMMA ToldKeeps ==
  ASSUME InboundInv, NEW n \in Msgs, Reported(n), RowsOk', UNCHANGED <<pos, catching, memory, up, kills>>,
         rows' \subseteq Row, crossed' \subseteq Msgs, refused' \in [Msgs -> Nat], \A m \in Msgs : refused'[m] <= refused[m],
         writes' \in Nat, duePrune' = duePrune, tail' = tail
  PROVE  InboundInv'
<1> USE DEF InboundInv
<1>1. MailTyped /\ MemoryTyped /\ PanelTyped
  BY DEF InboundTypeOK
<1>2. PostOk'
  BY <1>1, PostMoves DEF Reported
<1>3. LinesOk(log)'
  BY <1>1, LinesTold
<1>4. RefusalsOk'
  BY RefusalsTold
<1>5. ArrivalsOk' /\ MemoryTyped' /\ PanelTyped'
  BY <1>1 DEF memory, ArrivalsOk, MemoryTyped, PanelTyped
<1>6. post' \in [Msgs -> Message] /\ log' \in Seq(LogLine)
  BY DEF Reported, MovesOn, Adds
<1>7. pos' \in 0 .. Len(log')
  BY <1>1, MailFacts, AddFacts DEF Reported
<1>8. InboundTypeOK'
  BY <1>5, <1>6, <1>7, Typed
<1> QED BY <1>2, <1>3, <1>4, <1>5, <1>8

LEMMA PostfixKeeps ==
  ASSUME InboundInv, NEW n \in Msgs, Postfix(n)
  PROVE  InboundInv'
<1> USE DEF InboundInv
<1>1. Reported(n) /\ UNCHANGED <<pos, rows, refused, catching, up, crossed>>
  BY PostfixTold DEF InboundTypeOK
<1>2. UNCHANGED <<memory, writes, tail, duePrune, kills>>
  BY DEF Postfix, OpenMessage, OtherMessage, RefuseRecipient, RefuseMessage, RemoveMessage, EndOfMessage, QueueMessage,
         Deliver, Expire, tailer, memory
<1>3. RowsOk'
  BY PostfixRows
<1>4. \A m \in Msgs : refused'[m] <= refused[m]
  BY <1>1, TypeFacts
<1> QED BY <1>1, <1>2, <1>3, <1>4, ToldKeeps, TypeFacts

LEMMA MilterKeeps ==
  ASSUME InboundInv, NEW n \in Msgs, Milter(n)
  PROVE  InboundInv'
<1> USE DEF InboundInv
<1>1. UNCHANGED <<pos, catching, memory, up, kills, duePrune, tail>>
  BY DEF Milter, MilterForgets, MilterInserts, MilterCounts, MilterCuts, tailer, memory
<1>2. Reported(n) /\ RowsOk' /\ rows' \subseteq Row /\ crossed' \subseteq Msgs
  <2>1. CASE MilterForgets(n)
    BY <2>1, ForgetsRows
  <2>2. CASE MilterInserts(n)
    BY <2>2, InsertsRows
  <2>3. CASE MilterCounts(n) \/ MilterCuts(n)
    <3>1. rows' \subseteq rows /\ crossed' = crossed
      BY <2>3, CutStepTakes DEF MilterCounts, MilterCuts, journal, InboundTypeOK
    <3> QED BY <2>3, <3>1, CountsRows, TypeFacts
  <2> QED BY <2>1, <2>2, <2>3 DEF Milter
<1>3. refused' \in [Msgs -> Nat] /\ writes' \in Nat /\ \A m \in Msgs : refused'[m] <= refused[m]
  <2>1. CASE MilterForgets(n) \/ MilterInserts(n)
    <3>1. refused' = refused /\ writes' = writes
      BY <2>1 DEF MilterForgets, MilterInserts
    <3> QED BY <3>1, TypeFacts
  <2>2. CASE MilterCounts(n)
    <3>1. refused' = refused /\ writes' = writes + Counted(n)
      BY <2>2 DEF MilterCounts, journal
    <3> QED BY <3>1, TypeFacts, CountedType
  <2>3. CASE MilterCuts(n)
    BY <2>3, CutStepTakes DEF MilterCuts, InboundTypeOK
  <2> QED BY <2>1, <2>2, <2>3 DEF Milter
<1> QED BY <1>1, <1>2, <1>3, ToldKeeps

LEMMA ReadKeeps ==
  ASSUME InboundInv, ReadLine
  PROVE  InboundInv'
<1> USE DEF InboundInv
<1>1. UNCHANGED <<post, catching, writes, up, duePrune, crossed, kills>>
  BY DEF ReadLine
<1>2. LinesOk(log)' /\ RowsOk' /\ rows' \subseteq Row /\ log' \in Seq(LogLine) /\ pos' \in 0 .. Len(log')
  BY ReadRows
<1>3. RefusalsOk' /\ refused' \in [Msgs -> Nat]
  BY ReadRefusals
<1>4. MemoryTyped' /\ ArrivalsOk'
  BY ReadArrivals
<1>5. PostOk'
  BY <1>1 DEF PostOk, Living
<1>6. tail' \in {tail, "count"}
  BY DEF ReadLine, HandleLine, OpenedHere, Accounted, Rejected, FilterRefused, Upstream, GivenUp, RecordRefusal
<1>7. PanelTyped'
  BY <1>1, <1>6 DEF InboundTypeOK, PanelTyped
<1>8. InboundTypeOK'
  BY <1>1, <1>2, <1>3, <1>4, <1>7, Typed, TypeFacts
<1> QED BY <1>2, <1>3, <1>4, <1>5, <1>8

\* The messages stay; rows go at most, and lines read.
LEMMA CutKeeps ==
  ASSUME InboundInv, NEW d, Shortened(d), pos >= d, pos' = pos - d, UNCHANGED <<post, crossed, memory, up, kills>>,
         rows' \subseteq rows, refused' \in [Msgs -> Nat], \A m \in Msgs : refused'[m] <= refused[m],
         writes' \in Nat, PanelTyped', catching' = catching \/ pos = Len(log)
  PROVE  InboundInv'
<1> USE DEF InboundInv
<1>1. LinesOk(log)' /\ RowsOk' /\ log' \in Seq(LogLine) /\ pos' \in 0 .. Len(log')
  BY RowsCut
<1>2. RefusalsOk'
  BY RefusalsCut
<1>3. PostOk'
  BY DEF PostOk, Living
<1>4. MemoryTyped' /\ ArrivalsOk'
  BY DEF InboundTypeOK, memory, MemoryTyped, ArrivalsOk
<1>5. InboundTypeOK'
  BY <1>1, <1>4, Typed, TypeFacts
<1> QED BY <1>1, <1>2, <1>3, <1>4, <1>5

LEMMA TailerKeeps ==
  ASSUME InboundInv, Tailer
  PROVE  InboundInv'
<1> USE DEF InboundInv
<1>1. CASE ReadLine
  BY <1>1, ReadKeeps
<1>2. CASE TailCounts \/ TailCuts \/ MeetEnd
  <2>1. UNCHANGED <<post, log, pos, memory, up, duePrune, crossed, kills>>
    BY <1>2 DEF TailCounts, TailCuts, MeetEnd
  <2>2. /\ rows' \subseteq rows /\ refused' \in [Msgs -> Nat] /\ writes' \in Nat
        /\ \A m \in Msgs : refused'[m] <= refused[m]
    <3>1. CASE TailCounts \/ MeetEnd
      <4>1. UNCHANGED <<rows, refused>> /\ writes' \in {writes, writes + 1}
        BY <3>1 DEF TailCounts, MeetEnd, journal
      <4> QED BY <4>1, TypeFacts
    <3>2. CASE TailCuts
      BY <3>2, CutStepTakes DEF TailCuts, InboundTypeOK
    <3> QED BY <1>2, <3>1, <3>2
  <2>3. catching' \in BOOLEAN /\ (catching' = catching \/ pos = Len(log)) /\ tail' \in {"done", "count", "reset", "cut"}
    BY <1>2, StepNames DEF TailCounts, TailCuts, MeetEnd, InboundTypeOK, PanelTyped
  <2>4. PanelTyped'
    BY <2>1, <2>3 DEF InboundTypeOK, PanelTyped
  <2>5. Shortened(0) /\ pos >= 0 /\ pos' = pos - 0
    BY <2>1, SameLog, MailFacts DEF InboundTypeOK
  <2> QED BY <2>1, <2>2, <2>3, <2>4, <2>5, CutKeeps
<1>3. CASE SavePlace
  <2>1. UNCHANGED <<post, catching, memory, rows, refused, writes, tail, up, duePrune, crossed, kills>>
    BY <1>3 DEF SavePlace, journal
  <2>2. Shortened(pos) /\ pos >= pos /\ pos' = pos - pos
    BY <1>3, MailFacts DEF SavePlace, Shortened, InboundTypeOK
  <2>3. PanelTyped'
    BY <2>1 DEF InboundTypeOK, PanelTyped
  <2>4. \A m \in Msgs : refused'[m] <= refused[m]
    BY <2>1, TypeFacts
  <2> QED BY <2>1, <2>2, <2>3, <2>4, CutKeeps, TypeFacts
<1> QED BY <1>1, <1>2, <1>3 DEF Tailer

LEMMA PruneKeeps ==
  ASSUME InboundInv, StartPrune
  PROVE  InboundInv'
<1> USE DEF InboundInv
<1>1. UNCHANGED <<post, log, pos, catching, memory, writes, tail, up, crossed, kills>> /\ duePrune' = FALSE
  BY DEF StartPrune, tailer, memory
<1>2. rows' \subseteq rows /\ refused' \in [Msgs -> Nat] /\ \A m \in Msgs : refused'[m] <= refused[m]
  BY CutTakes DEF StartPrune, InboundTypeOK
<1>3. PanelTyped' /\ writes' \in Nat
  BY <1>1, TypeFacts DEF InboundTypeOK, PanelTyped
<1>4. Shortened(0) /\ pos >= 0 /\ pos' = pos - 0
  BY <1>1, SameLog, MailFacts DEF InboundTypeOK
<1> QED BY <1>1, <1>2, <1>3, <1>4, CutKeeps

LEMMA KillKeeps ==
  ASSUME InboundInv, Kill
  PROVE  InboundInv'
<1> USE DEF InboundInv
<1>1. PostOk' /\ LinesOk(log)' /\ RowsOk' /\ post' \in [Msgs -> Message]
  BY KillRows
<1>2. /\ up' = FALSE /\ kills' = kills + 1 /\ kills < MaxKills /\ pos' = 0 /\ writes' = 0 /\ tail' = "done"
      /\ port25' = [q \in Ids |-> 0] /\ order' = <<>> /\ fresh' = [q \in Ids |-> inboundQueueIDs]
      /\ UNCHANGED <<log, catching, rows, refused, duePrune, crossed>>
  BY DEF Kill, journal
<1>3. \A m \in Msgs : refused'[m] <= 1 /\ (refused'[m] > 0 => post'[m].stage = "gone")
  <2>1. \A m \in Msgs : post[m].stage = "gone" => post'[m].stage = "gone"
    BY DEF Kill, InMilter
  <2> QED BY <1>2, <2>1 DEF RefusalsOk
<1>4. RefusalsOk'
  BY <1>2, <1>3 DEF RefusalsOk
<1>5. order' \in Seq(Arrival) /\ Len(order') = 0 /\ DOMAIN order' = {}
  BY <1>2
<1>6. MemoryTyped'
  BY <1>2, <1>5, JournalAssumption DEF MemoryTyped
<1>7. ArrivalsOk'
  BY <1>2, <1>5, JournalAssumption DEF ArrivalsOk, Numbered
<1>8. PanelTyped'
  <2>1. kills' \in 0 .. MaxKills
    <3> PICK k \in 0 .. MaxKills : k = kills
      BY DEF InboundTypeOK, PanelTyped
    <3>1. kills' = k + 1 /\ k < MaxKills /\ MaxKills \in Nat
      BY <1>2, JournalAssumption
    <3> QED BY <3>1
  <2> QED BY <1>2, <2>1 DEF InboundTypeOK, PanelTyped
<1>9. InboundTypeOK'
  BY <1>1, <1>2, <1>6, <1>8, Typed, TypeFacts, MailFacts DEF InboundTypeOK
<1> QED BY <1>1, <1>4, <1>7, <1>9

LEMMA StartKeeps ==
  ASSUME InboundInv, StartPanel
  PROVE  InboundInv'
<1> USE DEF InboundInv
<1>1. /\ up' = TRUE /\ catching' = TRUE /\ duePrune' = TRUE
      /\ UNCHANGED <<post, log, pos, memory, rows, refused, writes, tail, crossed, kills>>
  BY DEF StartPanel, journal
<1>2. PostOk' /\ LinesOk(log)' /\ RowsOk'
  <2>1. Shortened(0) /\ pos >= 0 /\ pos' = pos - 0 /\ rows' \subseteq rows
    BY <1>1, SameLog, MailFacts DEF InboundTypeOK
  <2>2. PostOk'
    BY <1>1 DEF PostOk, Living
  <2> QED BY <1>1, <2>1, <2>2, RowsCut
<1>3. RefusalsOk'
  BY <1>1 DEF RefusalsOk
<1>4. MemoryTyped' /\ ArrivalsOk' /\ PanelTyped'
  BY <1>1 DEF InboundTypeOK, memory, MemoryTyped, ArrivalsOk, PanelTyped
<1>5. InboundTypeOK'
  BY <1>1, <1>4, Typed, TypeFacts
<1> QED BY <1>2, <1>3, <1>4, <1>5

LEMMA InboundStarts ==
  ASSUME InboundInit
  PROVE  InboundInv
<1>1. NoMsg \in Message /\ NoMsg.stage = "new" /\ \A x \in Rcpts : NoMsg.fate[x] = "none"
  BY DEF NoMsg, Message, Stages, Fates
<1>2. post \in [Msgs -> Message] /\ \A m \in Msgs : post[m] = NoMsg
  BY <1>1 DEF InboundInit
<1>3. log \in Seq(LogLine) /\ Len(log) = 0 /\ pos = 0 /\ DOMAIN log = {}
  BY DEF InboundInit
<1>4. order \in Seq(Arrival) /\ Len(order) = 0 /\ DOMAIN order = {}
  BY DEF InboundInit
<1>5. MailTyped
  BY <1>2, <1>3 DEF MailTyped, Message
<1>6. JournalTyped /\ PanelTyped
  <2>1. JournalTyped
    BY DEF InboundInit, JournalTyped
  <2>2. kills = 0 /\ 0 \in 0 .. MaxKills
    BY JournalAssumption DEF InboundInit
  <2> QED BY <2>1, <2>2 DEF InboundInit, PanelTyped
<1>7. MemoryTyped
  BY <1>4, JournalAssumption DEF InboundInit, MemoryTyped
<1>8. PostOk
  BY <1>1, <1>2 DEF PostOk, Living
<1>9. LinesOk(log)
  BY <1>3 DEF LinesOk, OwnIds, EndsLast, DeliveriesTrue, RefusedOnce
<1>10. RowsOk
  BY DEF InboundInit, RowsOk
<1>11. RefusalsOk
  BY <1>3 DEF InboundInit, RefusalsOk
<1>12. ArrivalsOk
  BY <1>4, JournalAssumption DEF InboundInit, ArrivalsOk, Numbered
<1> QED BY <1>5, <1>6, <1>7, <1>8, <1>9, <1>10, <1>11, <1>12 DEF InboundInv, InboundTypeOK

LEMMA InboundStutters ==
  ASSUME InboundInv, UNCHANGED inboundVars
  PROVE  InboundInv'
<1>1. UNCHANGED <<post, log, pos, catching, port25, order, rows, refused, writes, tail, up, duePrune, fresh, crossed, kills>>
  BY DEF inboundVars
<1>2. PanelTyped'
  BY <1>1 DEF InboundInv, InboundTypeOK, PanelTyped
<1>3. Shortened(0) /\ pos >= 0 /\ pos' = pos - 0
  BY <1>1, SameLog, MailFacts DEF InboundInv, InboundTypeOK
<1>4. \A m \in Msgs : refused'[m] <= refused[m]
  BY <1>1, TypeFacts DEF InboundInv
<1>5. refused' \in [Msgs -> Nat] /\ writes' \in Nat
  BY <1>1, TypeFacts DEF InboundInv
<1> QED BY <1>1, <1>2, <1>3, <1>4, <1>5, CutKeeps DEF memory

\* The rows of accepted mail and of refusals, the lines to come and what the
\* tailer remembers stay as InboundInv says, through kills, lines read again
\* and queue ids used again.
THEOREM InboundInvariant == InboundSpec => []InboundInv
<1>1. InboundInit => InboundInv
  BY InboundStarts
<1>2. InboundInv /\ [InboundNext]_inboundVars => InboundInv'
  <2> SUFFICES ASSUME InboundInv, [InboundNext]_inboundVars PROVE InboundInv'
    OBVIOUS
  <2>1. ASSUME NEW m \in Msgs, Postfix(m) \/ Milter(m) PROVE InboundInv'
    BY <2>1, PostfixKeeps, MilterKeeps
  <2>2. CASE Tailer
    BY <2>2, TailerKeeps
  <2>3. CASE StartPrune \/ Kill \/ StartPanel
    BY <2>3, PruneKeeps, KillKeeps, StartKeeps
  <2> QED BY <2>1, <2>2, <2>3, InboundStutters DEF InboundNext
<1> QED BY <1>1, <1>2, PTL DEF InboundSpec

\* Types: the tailer is not past the end of the log and remembers no more ids
\* than inboundQueueIDs.
THEOREM InboundTypes == InboundSpec => []InboundTypeOK
<1>1. InboundInv => InboundTypeOK
  BY DEF InboundInv
<1> QED BY <1>1, InboundInvariant, PTL

\* remember: the id of a port-25 message whose verdict may still come is not
\* dropped before inboundQueueIDs others were opened.
THEOREM VerdictIsAwaited == InboundSpec => []VerdictAwaited
<1>1. InboundInv => VerdictAwaited
  <2> SUFFICES ASSUME InboundInv, NEW q \in Ids, fresh[q] < inboundQueueIDs PROVE port25[q] # 0
    BY DEF VerdictAwaited
  <2>1. MemoryTyped /\ ArrivalsOk
    BY DEF InboundInv, InboundTypeOK
  <2>2. fresh[q] \in Nat /\ fresh[q] < Len(order) /\ port25[q] = order[Len(order) - fresh[q]].seq
    BY <2>1, MemoryFacts DEF ArrivalsOk
  <2> PICK z \in 1 .. Len(order) : z = Len(order) - fresh[q]
    BY <2>1, <2>2, MemoryFacts
  <2> QED BY <2>1, <2>2, MemoryFacts, ArrivalFacts
<1> QED BY <1>1, InboundInvariant, PTL

\* Once every line is read, each row shows what became of its message, and no
\* refusal has two rows (UpdateInboundUpstream, ForgetInboundQueueID,
\* catchingUp).
THEOREM FateIsShown == InboundSpec => []FateShown
<1>1. InboundInv => FateShown
  <2> SUFFICES ASSUME InboundInv, up, tail = "done", pos = Len(log)
               PROVE  /\ \A r \in rows : r.msg \in crossed \/ post[r.msg].stage \in InMilter \/ r.st = Shown(r.msg, r.rcpt)
                      /\ \A m \in Msgs : refused[m] <= 1
    BY DEF FateShown
  <2>1. MailTyped /\ RowsOk /\ RefusalsOk
    BY DEF InboundInv, InboundTypeOK
  <2>2. ASSUME NEW r \in rows, r.msg \notin crossed PROVE r.st = Shown(r.msg, r.rcpt)
    <3>1. RowShows(r, log, pos)
      BY <2>1, <2>2 DEF RowsOk, RowOk
    <3> QED BY <2>1, <3>1, MailFacts DEF RowShows
  <2> QED BY <2>1, <2>2 DEF RefusalsOk
<1> QED BY <1>1, InboundInvariant, PTL

\* What a step leaves of a row with a final result; a row that comes is of a
\* message that had none.
LEMMA FinalsKept ==
  ASSUME InboundInv, InboundNext
  PROVE  \A n \in rows' : \/ post[n.msg].stage = "forgot"
                          \/ \E s \in rows : s.msg = n.msg /\ s.rcpt = n.rcpt /\ (s.st \in Finals => n.st = s.st)
<1>1. InboundTypeOK /\ rows \subseteq Row
  BY TypeFacts DEF InboundInv
<1>2. CASE rows' \subseteq rows
  BY <1>2
<1>3. ASSUME NEW m \in Msgs, MilterForgets(m) PROVE \A n \in rows' : \E s \in rows : s.msg = n.msg /\ s.rcpt = n.rcpt /\ (s.st \in Finals => n.st = s.st)
  <2> SUFFICES ASSUME NEW n \in rows' PROVE \E s \in rows : s.msg = n.msg /\ s.rcpt = n.rcpt /\ (s.st \in Finals => n.st = s.st)
    OBVIOUS
  <2>1. PICK s \in rows : n = s \/ n = Detached(s)
    BY <1>3 DEF MilterForgets, Forgotten, Detached
  <2>2. s \in Row
    BY <1>1
  <2> QED BY <2>1, <2>2, DetachedFacts DEF Open, Finals
<1>4. ASSUME NEW m \in Msgs, MilterInserts(m) PROVE \A n \in rows' : n \in rows \/ post[n.msg].stage = "forgot"
  BY <1>4 DEF MilterInserts, Recorded
<1>5. ASSUME ReadLine PROVE \A n \in rows' : \E s \in rows : s.msg = n.msg /\ s.rcpt = n.rcpt /\ (s.st \in Finals => n.st = s.st)
  <2> SUFFICES ASSUME NEW n \in rows' PROVE \E s \in rows : s.msg = n.msg /\ s.rcpt = n.rcpt /\ (s.st \in Finals => n.st = s.st)
    OBVIOUS
  <2> PICK l : l = log[pos + 1]
    OBVIOUS
  <2>1. PICK s \in rows : n = After(s, l)
    BY <1>1, <1>5, ReadsRows
  <2>2. s \in Row
    BY <1>1
  <2>3. Takes(s) => s.st \notin Finals
    BY DEF Takes, Open, Finals
  <2>4. CASE n = s
    BY <2>4
  <2>5. CASE n = Detached(s)
    BY <2>2, <2>5, DetachedFacts DEF Open, Finals
  <2>6. CASE Takes(s) /\ \E t : n = [s EXCEPT !.st = t]
    BY <2>2, <2>3, <2>6 DEF Row
  <2> QED BY <2>1, <2>4, <2>5, <2>6 DEF After
<1>6. ASSUME NEW m \in Msgs, Postfix(m) PROVE rows' = rows
  BY <1>1, <1>6, PostfixTold DEF InboundInv, InboundTypeOK
<1>7. ASSUME NEW m \in Msgs, MilterCounts(m) \/ MilterCuts(m) PROVE rows' \subseteq rows
  BY <1>1, <1>7, CutStepTakes DEF MilterCounts, MilterCuts, journal, InboundTypeOK
<1>8. ASSUME Kill \/ StartPanel \/ StartPrune \/ TailCounts \/ TailCuts \/ MeetEnd \/ SavePlace PROVE rows' \subseteq rows
  BY <1>1, <1>8, CutTakes, CutStepTakes DEF Kill, StartPanel, StartPrune, TailCounts, TailCuts, MeetEnd, SavePlace, journal,
     InboundTypeOK
<1>9. ASSUME NEW m \in Msgs, Milter(m)
      PROVE  \A n \in rows' : \/ post[n.msg].stage = "forgot"
                              \/ \E s \in rows : s.msg = n.msg /\ s.rcpt = n.rcpt /\ (s.st \in Finals => n.st = s.st)
  BY <1>2, <1>3, <1>4, <1>7, <1>9 DEF Milter
<1> QED BY <1>2, <1>5, <1>6, <1>8, <1>9 DEF InboundNext, Tailer

\* UpdateInboundUpstream: a line read twice after a restart, or an older one
\* read after a newer, does not undo a final result.
THEOREM FinalAlwaysStays == InboundSpec => FinalStays
<1>1. InboundInv /\ [InboundNext]_inboundVars => [\A r \in rows : r.st \in Finals =>
          \A n \in rows' : n.msg = r.msg /\ n.rcpt = r.rcpt => n.st = r.st]_inboundVars
  <2> SUFFICES ASSUME InboundInv, InboundNext, NEW r \in rows, r.st \in Finals, NEW n \in rows', n.msg = r.msg, n.rcpt = r.rcpt
               PROVE  n.st = r.st
    OBVIOUS
  <2>1. RowsOk
    BY DEF InboundInv
  <2>2. post[n.msg].stage # "forgot"
    BY <2>1 DEF RowsOk
  <2> PICK s \in rows : s.msg = n.msg /\ s.rcpt = n.rcpt /\ (s.st \in Finals => n.st = s.st)
    BY <2>2, FinalsKept
  <2>3. s = r
    BY <2>1 DEF RowsOk
  <2> QED BY <2>3
<1> QED BY <1>1, InboundInvariant, PTL DEF InboundSpec, FinalStays

-----------------------------------------------------------------------------
(* InboundJournal: the cap                                                 *)

Past == {"asked", "forgot", "count", "reset", "cut", "answered", "queued"}
MilterAt(stages) == \E m \in Msgs : post[m].stage \in stages
Refusers == {m \in Msgs : refused[m] > 0}

\* Rows that are in the journal and not in `writes' yet.
Uncounted == (IF MilterAt({"count"}) THEN Cardinality(Rcpts) ELSE 0) + (IF tail = "count" THEN 1 ELSE 0)

\* Nobody writes while the panel is down, and one message is past its end.
WritersOk ==
    /\ \A m, n \in Msgs : post[m].stage \in Past /\ post[n].stage \in Past => m = n
    /\ IsFiniteSet(rows) /\ IsFiniteSet(Refusers)

\* While nobody is about to cut, what is above the cap was counted since the
\* count was last set back, or is yet to be; and whoever counts up to the mark
\* is the one who sets it back.
Counting ==
    /\ up /\ ~duePrune /\ ~MilterAt({"reset", "cut"}) /\ tail \notin {"reset", "cut"} =>
          RowCount <= inboundCapRows + writes + Uncounted
    /\ writes >= inboundCapEvery => MilterAt({"reset"}) \/ tail = "reset"

CapInv == InboundInv /\ WritersOk /\ Counting

LEMMA CountedIs ==
  ASSUME NEW m \in Msgs
  PROVE  Counted(m) = Cardinality(Rcpts) /\ IsFiniteSet(Recorded(m)) /\ Cardinality(Rcpts) \in Nat
<1> DEFINE row(x) == [msg |-> m, rcpt |-> x, id |-> post[m].id,
                      st |-> IF Quarantine(m) /\ Signed(VerdictOf[m]) THEN "held" ELSE "queued"]
           f == [x \in Rcpts |-> row(x)]
<1>1. Recorded(m) = {row(x) : x \in Rcpts}
  BY DEF Recorded
<1>2. \A x, y \in Rcpts : row(x) = row(y) => x = y
  <2> SUFFICES ASSUME NEW x \in Rcpts, NEW y \in Rcpts, row(x) = row(y) PROVE x = y
    OBVIOUS
  <2>1. row(x).rcpt = x /\ row(y).rcpt = y
    OBVIOUS
  <2> QED BY <2>1
<1> HIDE DEF row
<1>3. f \in Surjection(Rcpts, Recorded(m))
  BY <1>1 DEF Surjection
<1>4. f \in Injection(Rcpts, Recorded(m))
  BY <1>1, <1>2 DEF Injection, IsInjective
<1> HIDE DEF f
<1> QED BY <1>3, <1>4, FS_Surjection, FS_CardinalityType, JournalAssumption DEF Counted

\* The rows after each was looked at are no more.
LEMMA RowsMapped ==
  ASSUME NEW S, IsFiniteSet(S), NEW T, NEW f \in [S -> T], T = {f[x] : x \in S}
  PROVE  IsFiniteSet(T) /\ Cardinality(T) <= Cardinality(S)
<1>1. f \in Surjection(S, T)
  BY DEF Surjection
<1> QED BY <1>1, FS_Surjection

LEMMA RowCountIs ==
  ASSUME JournalTyped, WritersOk, \A m \in Msgs : refused[m] <= 1
  PROVE  RowCount = Cardinality(rows) + Cardinality(Refusers)
<1>1. \A m \in Msgs : refused[m] \in Nat
  BY DEF JournalTyped
<1>2. {m \in Msgs : refused[m] >= 1} = Refusers /\ {m \in Msgs : refused[m] >= 2} = {}
  BY <1>1 DEF Refusers
<1>3. Cardinality({}) = 0
  BY FS_EmptySet
<1>4. Cardinality(rows) \in Nat /\ Cardinality(Refusers) \in Nat
  BY FS_CardinalityType DEF WritersOk
<1>5. RowCount = Cardinality(rows) + Cardinality(Refusers) + 0
  BY <1>2, <1>3 DEF RowCount
<1> QED BY <1>4, <1>5

\* Both journals, before and after a step.
LEMMA CapFacts ==
  ASSUME InboundInv, InboundInv', WritersOk, WritersOk'
  PROVE  /\ RowCount = Cardinality(rows) + Cardinality(Refusers)
         /\ RowCount' = Cardinality(rows') + Cardinality(Refusers')
         /\ Cardinality(rows) \in Nat /\ Cardinality(Refusers) \in Nat
         /\ Cardinality(rows') \in Nat /\ Cardinality(Refusers') \in Nat /\ IsFiniteSet(rows) /\ IsFiniteSet(Refusers)
         /\ writes \in Nat /\ writes' \in Nat /\ inboundCapRows \in Nat /\ inboundCapEvery \in Nat /\ inboundCapEvery > 0
         /\ Cardinality(Rcpts) \in Nat /\ Uncounted \in Nat
<1>1. JournalTyped /\ JournalTyped' /\ RefusalsOk /\ RefusalsOk'
  BY DEF InboundInv, InboundTypeOK
<1>2. RowCount = Cardinality(rows) + Cardinality(Refusers)
  BY <1>1, RowCountIs DEF RefusalsOk
<1>3. RowCount' = Cardinality(rows') + Cardinality(Refusers')
  <2>1. \A m \in Msgs : refused'[m] <= 1 /\ refused'[m] \in Nat
    BY <1>1 DEF RefusalsOk, JournalTyped
  <2>2. {m \in Msgs : refused'[m] >= 1} = Refusers' /\ {m \in Msgs : refused'[m] >= 2} = {}
    BY <2>1 DEF Refusers
  <2>3. Cardinality({}) = 0
    BY FS_EmptySet
  <2>4. Cardinality(rows') \in Nat /\ Cardinality(Refusers') \in Nat
    BY FS_CardinalityType DEF WritersOk
  <2>5. RowCount' = Cardinality(rows') + Cardinality(Refusers') + 0
    BY <2>2, <2>3 DEF RowCount
  <2> QED BY <2>4, <2>5
<1>4. Cardinality(rows) \in Nat /\ Cardinality(Refusers) \in Nat /\ Cardinality(Rcpts) \in Nat
      /\ Cardinality(rows') \in Nat /\ Cardinality(Refusers') \in Nat
  BY FS_CardinalityType, JournalAssumption DEF WritersOk
<1>5. Uncounted \in Nat
  BY <1>4 DEF Uncounted
<1> QED BY <1>1, <1>2, <1>3, <1>4, <1>5, JournalAssumption DEF WritersOk, JournalTyped

\* The stages a step of Postfix takes a message through.
LEMMA PostfixStages ==
  ASSUME InboundInv, NEW n \in Msgs, Postfix(n)
  PROVE  /\ post[n].stage \in {"new", "open", "answered", "queued"}
         /\ post'[n].stage \in {"open", "asked", "answered", "queued", "gone"}
         /\ post'[n].stage \in Past => post[n].stage \in Past \/ \A m \in Living : post[m].stage = "open"
         /\ \A m \in Msgs : m # n => post'[m] = post[m]
<1> USE DEF InboundInv, InboundTypeOK, Past
<1>1. \A m \in Msgs : m # n => post'[m] = post[m]
  BY PostfixTold DEF Reported, MovesOn
<1>2. CASE OpenMessage(n) \/ RefuseMessage(n) \/ OtherMessage(n) \/ RefuseRecipient(n) \/ RemoveMessage(n)
  <2>1. CASE OpenMessage(n)
    BY <1>1, <2>1, MailFacts DEF OpenMessage, NextMsg, Message
  <2>2. CASE RefuseMessage(n) \/ OtherMessage(n) \/ RefuseRecipient(n) \/ RemoveMessage(n)
    <3>1. post'[n].stage = "gone"
      BY <2>2, NoFate, LeavesWith DEF RefuseMessage, OtherMessage, RefuseRecipient, RemoveMessage
    <3> QED BY <1>1, <2>2, <3>1 DEF RefuseMessage, OtherMessage, RefuseRecipient, RemoveMessage, NextMsg
  <2> QED BY <1>2, <2>1, <2>2
<1>3. CASE EndOfMessage(n)
  <2>1. post'[n].stage \in {"asked", "answered"}
    BY <1>3, GoesOn DEF EndOfMessage, Stages
  <2> QED BY <1>1, <1>3, <2>1 DEF EndOfMessage
<1>4. CASE QueueMessage(n)
  BY <1>1, <1>4, GoesOn DEF QueueMessage, Stages
<1>5. CASE Expire(n) \/ \E x \in Rcpts, st \in Results : Deliver(n, x, st)
  <2>1. post[n].stage = "queued"
    BY <1>5 DEF Expire, Deliver
  <2>2. post'[n].stage \in {"queued", "gone"}
    <3>1. \E f : Settle(n, f)
      BY <1>5 DEF Expire, Deliver
    <3> PICK f : Settle(n, f)
      BY <3>1
    <3>2. post[n] \in Message /\ post \in [Msgs -> Message]
      BY MailFacts
    <3> QED BY <2>1, <3>2 DEF Settle, Leaves, NoMsg, Message
  <2> QED BY <1>1, <2>1, <2>2
<1> QED BY <1>2, <1>3, <1>4, <1>5 DEF Postfix

\* The one message past its end goes to another stage.
LEMMA AtHand ==
  ASSUME InboundInv, WritersOk, NEW m \in Msgs, post[m].stage \in Past, NEW s \in Past, GoesTo(m, s), NEW S \in SUBSET Past
  PROVE  /\ MilterAt(S) <=> post[m].stage \in S
         /\ (\E n \in Msgs : post'[n].stage \in S) <=> s \in S
         /\ \A k, n \in Msgs : post'[k].stage \in Past /\ post'[n].stage \in Past => k = n
<1>1. s \in Stages
  BY DEF Past, Stages
<1>2. post'[m].stage = s /\ \A n \in Msgs : n # m => post'[n] = post[n]
  BY <1>1, GoesOn DEF InboundInv, InboundTypeOK
<1>3. \A n \in Msgs : n # m => post[n].stage \notin Past
  BY DEF WritersOk
<1> QED BY <1>2, <1>3 DEF MilterAt

\* A cut leaves no more rows than the cap.
LEMMA CutCounts ==
  ASSUME InboundInv, InboundInv', WritersOk, Cut
  PROVE  IsFiniteSet(rows') /\ IsFiniteSet(Refusers') /\ Cardinality(rows') + Cardinality(Refusers') <= inboundCapRows
<1> PICK R \in SUBSET rows, F \in SUBSET {m \in Msgs : refused[m] > 0} :
       /\ rows' = rows \ R
       /\ refused' = [m \in Msgs |-> IF m \in F THEN refused[m] - 1 ELSE refused[m]]
       /\ IF RowCount > inboundCapRows
          THEN Cardinality(R) + Cardinality(F) = RowCount - inboundCapRows
          ELSE R = {} /\ F = {}
  BY DEF Cut
<1>1. JournalTyped /\ \A m \in Msgs : refused[m] <= 1 /\ refused[m] \in Nat
  BY DEF InboundInv, InboundTypeOK, JournalTyped, RefusalsOk
<1>2. RowCount = Cardinality(rows) + Cardinality(Refusers)
  BY <1>1, RowCountIs
<1>3. F \in SUBSET Refusers /\ Refusers' = Refusers \ F
  BY <1>1 DEF Refusers
<1>4. IsFiniteSet(rows) /\ IsFiniteSet(Refusers)
  BY DEF WritersOk
<1>5. IsFiniteSet(R) /\ IsFiniteSet(rows') /\ Cardinality(rows') = Cardinality(rows) - Cardinality(R)
  <2>1. rows \cap R = R
    OBVIOUS
  <2> QED BY <1>4, <2>1, FS_Subset, FS_Difference
<1>6. IsFiniteSet(F) /\ IsFiniteSet(Refusers') /\ Cardinality(Refusers') = Cardinality(Refusers) - Cardinality(F)
  <2>1. Refusers \cap F = F
    BY <1>3
  <2> QED BY <1>3, <1>4, <2>1, FS_Subset, FS_Difference
<1>7. /\ Cardinality(rows) \in Nat /\ Cardinality(Refusers) \in Nat /\ Cardinality(R) \in Nat /\ Cardinality(F) \in Nat
      /\ inboundCapRows \in Nat
  BY <1>4, <1>5, <1>6, FS_CardinalityType, JournalAssumption
<1>8. CASE RowCount > inboundCapRows
  BY <1>2, <1>5, <1>6, <1>7, <1>8
<1>9. CASE ~(RowCount > inboundCapRows)
  <2>1. rows' = rows /\ Refusers' = Refusers
    BY <1>3, <1>9
  <2> QED BY <1>2, <1>4, <1>7, <1>9, <2>1
<1> QED BY <1>5, <1>6, <1>8, <1>9

LEMMA Sums ==
  /\ \A a, b, c, k, t, u, v, w \in Nat : b <= a + k /\ a <= c + w + u /\ v + t = w + u + k => b <= c + v + t
  /\ \A b, c, v, t \in Nat : b <= c => b <= c + v + t
  OBVIOUS

\* Nothing written but what is counted, or to be.
LEMMA CountingGrows ==
  ASSUME CapInv, InboundInv', WritersOk', NEW k \in Nat,
         Cardinality(rows') + Cardinality(Refusers') <= Cardinality(rows) + Cardinality(Refusers) + k,
         up' = up, duePrune' = duePrune,
         MilterAt({"reset", "cut"})' <=> MilterAt({"reset", "cut"}), tail' \in {"reset", "cut"} <=> tail \in {"reset", "cut"},
         Uncounted' \in Nat, writes' + Uncounted' = writes + Uncounted + k,
         writes' >= inboundCapEvery => MilterAt({"reset"})' \/ tail' = "reset"
  PROVE  Counting'
<1>1. RowCount' <= RowCount + k
  BY CapFacts DEF CapInv
<1>2. ASSUME up', ~duePrune', ~MilterAt({"reset", "cut"})', tail' \notin {"reset", "cut"}
      PROVE  RowCount' <= inboundCapRows + writes' + Uncounted'
  <2>1. RowCount <= inboundCapRows + writes + Uncounted
    BY <1>2 DEF CapInv, Counting
  <2>2. RowCount \in Nat /\ RowCount' \in Nat
    BY CapFacts DEF CapInv
  <2>3. writes \in Nat /\ writes' \in Nat /\ Uncounted \in Nat /\ inboundCapRows \in Nat
    BY CapFacts DEF CapInv
  <2> PICK a \in Nat, b \in Nat : a = RowCount /\ b = RowCount'
    BY <2>2
  <2> PICK w \in Nat, v \in Nat : w = writes /\ v = writes'
    BY <2>3
  <2> PICK u \in Nat, t \in Nat : u = Uncounted /\ t = Uncounted'
    BY <2>3
  <2> PICK c \in Nat : c = inboundCapRows
    BY <2>3
  <2>4. b <= a + k /\ a <= c + w + u /\ v + t = w + u + k
    BY <1>1, <2>1
  <2>5. b <= c + v + t
    BY <2>4, Sums
  <2> QED BY <2>5
<1> QED BY <1>2 DEF Counting

\* What a cut leaves is within the cap.
LEMMA CountingCut ==
  ASSUME CapInv, InboundInv', WritersOk', Uncounted' \in Nat,
         Cardinality(rows') + Cardinality(Refusers') <= inboundCapRows \/ ~up' \/ duePrune'
            \/ MilterAt({"reset", "cut"})' \/ tail' \in {"reset", "cut"},
         writes' >= inboundCapEvery => MilterAt({"reset"})' \/ tail' = "reset"
  PROVE  Counting'
<1>1. ASSUME up', ~duePrune', ~MilterAt({"reset", "cut"})', tail' \notin {"reset", "cut"}
      PROVE  RowCount' <= inboundCapRows + writes' + Uncounted'
  <2>1. RowCount' <= inboundCapRows /\ RowCount' \in Nat
    BY <1>1, CapFacts DEF CapInv
  <2>2. writes' \in Nat /\ inboundCapRows \in Nat
    BY CapFacts DEF CapInv
  <2> PICK b \in Nat, v \in Nat, t \in Nat : b = RowCount' /\ v = writes' /\ t = Uncounted'
    BY <2>1, <2>2
  <2>3. b <= inboundCapRows + v + t
    <3>1. b <= inboundCapRows /\ inboundCapRows \in Nat
      BY <2>1, <2>2
    <3> QED BY <3>1, Sums
  <2> QED BY <2>3
<1> QED BY <1>1 DEF Counting

LEMMA UncountedType ==
  /\ Uncounted' \in Nat /\ Cardinality(Rcpts) \in Nat
  /\ Uncounted' = (IF MilterAt({"count"})' THEN Cardinality(Rcpts) ELSE 0) + (IF tail' = "count" THEN 1 ELSE 0)
<1>1. Cardinality(Rcpts) \in Nat
  BY FS_CardinalityType, JournalAssumption
<1>2. Uncounted' = (IF MilterAt({"count"})' THEN Cardinality(Rcpts) ELSE 0) + (IF tail' = "count" THEN 1 ELSE 0)
  BY DEF Uncounted
<1> QED BY <1>1, <1>2

LEMMA CapPostfix ==
  ASSUME CapInv, InboundInv', NEW n \in Msgs, Postfix(n)
  PROVE  CapInv'
<1>1. UNCHANGED <<rows, refused, up, writes, tail, duePrune>>
  <2>1. UNCHANGED <<rows, refused, up>>
    BY PostfixTold DEF CapInv, InboundInv, InboundTypeOK
  <2>2. UNCHANGED <<writes, tail, duePrune>>
    BY DEF Postfix, OpenMessage, OtherMessage, RefuseRecipient, RefuseMessage, RemoveMessage, EndOfMessage, QueueMessage,
           Deliver, Expire, tailer, memory
  <2> QED BY <2>1, <2>2
<1>2. /\ post[n].stage \in {"new", "open", "answered", "queued"}
      /\ post'[n].stage \in {"open", "asked", "answered", "queued", "gone"}
      /\ post'[n].stage \in Past => post[n].stage \in Past \/ \A m \in Living : post[m].stage = "open"
      /\ \A m \in Msgs : m # n => post'[m] = post[m]
  BY PostfixStages DEF CapInv
<1>3. /\ MilterAt({"reset", "cut"})' <=> MilterAt({"reset", "cut"})
      /\ MilterAt({"reset"})' <=> MilterAt({"reset"})
      /\ MilterAt({"count"})' <=> MilterAt({"count"})
  BY <1>2 DEF MilterAt
<1>4. WritersOk'
  <2>1. ASSUME NEW k \in Msgs, NEW m \in Msgs, post'[k].stage \in Past, post'[m].stage \in Past PROVE k = m
    <3>1. CASE post[n].stage \in Past \/ post'[n].stage \notin Past
      BY <1>2, <2>1, <3>1 DEF CapInv, WritersOk
    <3>2. CASE \A j \in Living : post[j].stage = "open"
      <4>1. \A j \in Msgs : post[j].stage \notin Past
        BY <3>2 DEF Living, Past
      <4> QED BY <1>2, <2>1, <4>1
    <3> QED BY <1>2, <3>1, <3>2
  <2>2. rows' = rows /\ Refusers' = Refusers
    BY <1>1 DEF Refusers
  <2> QED BY <2>1, <2>2 DEF CapInv, WritersOk
<1>5. Cardinality(rows') + Cardinality(Refusers') <= Cardinality(rows) + Cardinality(Refusers) + 0
  <2>1. rows' = rows /\ Refusers' = Refusers
    BY <1>1 DEF Refusers
  <2>2. Cardinality(rows) \in Nat /\ Cardinality(Refusers) \in Nat
    BY FS_CardinalityType DEF CapInv, WritersOk
  <2> QED BY <2>1, <2>2
<1>6. Uncounted' = Uncounted /\ Uncounted' \in Nat
  BY <1>1, <1>3, UncountedType DEF Uncounted
<1>7. writes' + Uncounted' = writes + Uncounted + 0
  BY <1>1, <1>4, <1>6, CapFacts DEF CapInv
<1>8. writes' >= inboundCapEvery => MilterAt({"reset"})' \/ tail' = "reset"
  BY <1>1, <1>3 DEF CapInv, Counting
<1>9. Counting'
  BY <1>1, <1>3, <1>4, <1>5, <1>6, <1>7, <1>8, CountingGrows
<1> QED BY <1>4, <1>9 DEF CapInv

\* The milter's step: where its message is before and after.
LEMMA CapMilter ==
  ASSUME CapInv, InboundInv', NEW n \in Msgs, Milter(n)
  PROVE  CapInv'
<1> USE DEF CapInv
<1>1. UNCHANGED <<tail, up, duePrune>>
  BY DEF Milter, MilterForgets, MilterInserts, MilterCounts, MilterCuts, tailer
<1>2. PICK s \in Past : GoesTo(n, s) /\ s \in {"forgot", "count", "reset", "cut", "answered"}
  BY StepNames DEF Milter, MilterForgets, MilterInserts, MilterCounts, MilterCuts, Past
<1>3. post[n].stage \in Past
  BY DEF Milter, MilterForgets, MilterInserts, MilterCounts, MilterCuts, Past
<1>4. \A S \in SUBSET Past : /\ MilterAt(S) <=> post[n].stage \in S
                             /\ (\E m \in Msgs : post'[m].stage \in S) <=> s \in S
  BY <1>2, <1>3, AtHand
<1>5. \A k, m \in Msgs : post'[k].stage \in Past /\ post'[m].stage \in Past => k = m
  BY <1>2, <1>3, AtHand
<1>6. /\ MilterAt({"reset", "cut"}) <=> post[n].stage \in {"reset", "cut"}
      /\ MilterAt({"reset"}) <=> post[n].stage = "reset"
      /\ MilterAt({"count"}) <=> post[n].stage = "count"
      /\ MilterAt({"reset", "cut"})' <=> s \in {"reset", "cut"}
      /\ MilterAt({"reset"})' <=> s = "reset"
      /\ MilterAt({"count"})' <=> s = "count"
  <2>1. {"reset", "cut"} \in SUBSET Past /\ {"reset"} \in SUBSET Past /\ {"count"} \in SUBSET Past
    BY DEF Past
  <2> QED BY <1>4, <2>1 DEF MilterAt
<1>7. IsFiniteSet(rows) /\ IsFiniteSet(Refusers) /\ Cardinality(rows) \in Nat /\ Cardinality(Refusers) \in Nat
  BY FS_CardinalityType DEF WritersOk
<1>8. post'[n].stage = s
  <2>1. s \in Stages
    BY DEF Past, Stages
  <2> QED BY <1>2, <2>1, GoesOn DEF InboundInv, InboundTypeOK
<1>9. CASE MilterForgets(n)
  <2>1. post[n].stage = "asked" /\ s = "forgot" /\ rows' = Forgotten(rows, post[n].id) /\ refused' = refused /\ writes' = writes
    <3>1. post'[n].stage = "forgot"
      BY <1>9, GoesOn DEF MilterForgets, InboundInv, InboundTypeOK, Stages
    <3> QED BY <1>8, <1>9, <3>1 DEF MilterForgets
  <2>2. IsFiniteSet(rows') /\ Cardinality(rows') <= Cardinality(rows)
    <3> DEFINE f == [r \in rows |-> IF r.id = post[n].id THEN Detached(r) ELSE r]
    <3>1. rows' = {f[r] : r \in rows} /\ f \in [rows -> rows']
      BY <2>1 DEF Forgotten, Detached
    <3> HIDE DEF f
    <3> QED BY <1>7, <3>1, RowsMapped
  <2>3. Refusers' = Refusers
    BY <2>1 DEF Refusers
  <2>4. WritersOk'
    BY <1>5, <1>7, <2>2, <2>3 DEF WritersOk
  <2>5. Cardinality(rows') \in Nat
    BY <2>2, FS_CardinalityType
  <2>6. Cardinality(rows') + Cardinality(Refusers') <= Cardinality(rows) + Cardinality(Refusers) + 0
    BY <1>7, <2>2, <2>3, <2>5
  <2>7. Uncounted' = Uncounted
    BY <1>1, <1>6, <2>1, UncountedType DEF Uncounted
  <2>8. writes' + Uncounted' = writes + Uncounted + 0
    BY <2>1, <2>4, <2>7, CapFacts
  <2>9. writes' >= inboundCapEvery => MilterAt({"reset"})' \/ tail' = "reset"
    BY <1>1, <1>6, <2>1 DEF Counting
  <2>10. Counting'
    BY <1>1, <1>6, <2>1, <2>4, <2>6, <2>8, <2>9, UncountedType, CountingGrows
  <2> QED BY <2>4, <2>10
<1>10. CASE MilterInserts(n)
  <2>1. post[n].stage = "forgot" /\ s = "count" /\ rows' = rows \cup Recorded(n) /\ refused' = refused /\ writes' = writes
    <3>1. post'[n].stage = "count"
      BY <1>10, GoesOn DEF MilterInserts, InboundInv, InboundTypeOK, Stages
    <3> QED BY <1>8, <1>10, <3>1 DEF MilterInserts
  <2>2. IsFiniteSet(rows') /\ Cardinality(rows') <= Cardinality(rows) + Cardinality(Rcpts)
    <3>1. IsFiniteSet(Recorded(n)) /\ Cardinality(Recorded(n)) = Cardinality(Rcpts) /\ Cardinality(Rcpts) \in Nat
      BY CountedIs DEF Counted
    <3>2. IsFiniteSet(rows') /\ Cardinality(rows') = Cardinality(rows) + Cardinality(Rcpts) - Cardinality(rows \cap Recorded(n))
      BY <1>7, <2>1, <3>1, FS_Union
    <3>3. Cardinality(rows \cap Recorded(n)) \in Nat
      <4>1. IsFiniteSet(rows \cap Recorded(n))
        BY <1>7, FS_Subset
      <4> QED BY <4>1, FS_CardinalityType
    <3> QED BY <1>7, <3>1, <3>2, <3>3
  <2>3. Refusers' = Refusers
    BY <2>1 DEF Refusers
  <2>4. WritersOk'
    BY <1>5, <1>7, <2>2, <2>3 DEF WritersOk
  <2>5. Cardinality(rows') \in Nat /\ Cardinality(Rcpts) \in Nat
    BY <2>2, UncountedType, FS_CardinalityType
  <2>6. Cardinality(rows') + Cardinality(Refusers') <= Cardinality(rows) + Cardinality(Refusers) + Cardinality(Rcpts)
    BY <1>7, <2>2, <2>3, <2>5
  <2>7. Uncounted' = Uncounted + Cardinality(Rcpts)
    <3>1. Uncounted' = Cardinality(Rcpts) + (IF tail = "count" THEN 1 ELSE 0)
      BY <1>1, <1>6, <2>1, UncountedType
    <3>2. Uncounted = 0 + (IF tail = "count" THEN 1 ELSE 0)
      BY <1>6, <2>1 DEF Uncounted
    <3> QED BY <2>5, <3>1, <3>2
  <2>8. writes' + Uncounted' = writes + Uncounted + Cardinality(Rcpts)
    BY <2>1, <2>4, <2>5, <2>7, CapFacts
  <2>9. writes' >= inboundCapEvery => MilterAt({"reset"})' \/ tail' = "reset"
    BY <1>1, <1>6, <2>1 DEF Counting
  <2>10. Counting'
    BY <1>1, <1>6, <2>1, <2>4, <2>5, <2>6, <2>8, <2>9, UncountedType, CountingGrows
  <2> QED BY <2>4, <2>10
<1>11. CASE MilterCounts(n)
  <2>1. /\ post[n].stage = "count" /\ rows' = rows /\ refused' = refused /\ writes' = writes + Cardinality(Rcpts)
        /\ s = IF AfterCount = "done" THEN "answered" ELSE AfterCount
    <3>1. post'[n].stage = IF AfterCount = "done" THEN "answered" ELSE AfterCount
      <4> PICK t : t = IF AfterCount = "done" THEN "answered" ELSE AfterCount
        OBVIOUS
      <4>1. t \in Stages /\ GoesTo(n, t)
        BY <1>11, StepNames DEF MilterCounts
      <4> QED BY <4>1, GoesOn DEF InboundInv, InboundTypeOK
    <3> QED BY <1>8, <1>11, <3>1, CountedIs DEF MilterCounts, journal
  <2>2. rows' = rows /\ Refusers' = Refusers
    BY <2>1 DEF Refusers
  <2>3. WritersOk'
    BY <1>5, <1>7, <2>2 DEF WritersOk
  <2>4. writes \in Nat /\ writes' \in Nat /\ inboundCapEvery \in Nat /\ Cardinality(Rcpts) \in Nat
    BY <2>3, CapFacts
  <2>5. CASE writes' < inboundCapEvery
    <3>1. s = "answered"
      BY <2>1, <2>5 DEF AfterCount
    <3>2. Uncounted = Cardinality(Rcpts) + Uncounted' /\ Uncounted' \in Nat
      <4>1. Uncounted' = 0 + (IF tail = "count" THEN 1 ELSE 0)
        BY <1>1, <1>6, <3>1, UncountedType
      <4>2. Uncounted = Cardinality(Rcpts) + (IF tail = "count" THEN 1 ELSE 0)
        BY <1>6, <2>1 DEF Uncounted
      <4> QED BY <2>4, <4>1, <4>2
    <3>3. writes' + Uncounted' = writes + Uncounted + 0
      BY <2>1, <2>4, <3>2
    <3>4. Cardinality(rows') + Cardinality(Refusers') <= Cardinality(rows) + Cardinality(Refusers) + 0
      BY <1>7, <2>2
    <3>5. ~(writes' >= inboundCapEvery)
      BY <2>4, <2>5
    <3>6. MilterAt({"reset", "cut"})' <=> MilterAt({"reset", "cut"})
      BY <1>6, <2>1, <3>1
    <3>7. Counting'
      BY <1>1, <2>3, <3>2, <3>3, <3>4, <3>5, <3>6, CountingGrows
    <3> QED BY <2>3, <3>7
  <2>6. CASE ~(writes' < inboundCapEvery)
    <3>1. s = "reset"
      BY <2>1, <2>6 DEF AfterCount, CutSteps
    <3>2. Counting'
      BY <1>6, <2>3, <3>1, UncountedType, CountingCut
    <3> QED BY <2>3, <3>2
  <2> QED BY <2>5, <2>6
<1>12. CASE MilterCuts(n)
  <2>1. /\ post[n].stage \in {"reset", "cut"} /\ CutStep(post[n].stage)
        /\ s = IF AfterStep(post[n].stage) = "done" THEN "answered" ELSE AfterStep(post[n].stage)
    <3>1. post'[n].stage = IF AfterStep(post[n].stage) = "done" THEN "answered" ELSE AfterStep(post[n].stage)
      <4> PICK t : t = IF AfterStep(post[n].stage) = "done" THEN "answered" ELSE AfterStep(post[n].stage)
        OBVIOUS
      <4>1. t \in Stages /\ GoesTo(n, t)
        BY <1>12, StepNames DEF MilterCuts
      <4> QED BY <4>1, GoesOn DEF InboundInv, InboundTypeOK
    <3> QED BY <1>8, <1>12, <3>1 DEF MilterCuts
  <2>2. CASE post[n].stage = "reset"
    <3>1. s = "cut" /\ writes' = 0 /\ rows' = rows /\ refused' = refused
      BY <2>1, <2>2 DEF CutStep, AfterStep, CutSteps, journal
    <3>2. WritersOk'
      BY <1>5, <1>7, <3>1 DEF WritersOk, Refusers
    <3>3. ~(writes' >= inboundCapEvery)
      BY <3>1, <3>2, CapFacts
    <3>4. Counting'
      BY <1>6, <3>1, <3>2, <3>3, UncountedType, CountingCut
    <3> QED BY <3>2, <3>4
  <2>3. CASE post[n].stage = "cut"
    <3>1. Cut /\ writes' = writes
      BY <2>1, <2>3 DEF CutStep
    <3>2. IsFiniteSet(rows') /\ IsFiniteSet(Refusers') /\ Cardinality(rows') + Cardinality(Refusers') <= inboundCapRows
      BY <3>1, CutCounts
    <3>3. WritersOk'
      BY <1>5, <3>2 DEF WritersOk
    <3>4. writes' >= inboundCapEvery => MilterAt({"reset"})' \/ tail' = "reset"
      BY <1>1, <1>6, <2>3, <3>1 DEF Counting
    <3>5. Counting'
      BY <3>2, <3>3, <3>4, UncountedType, CountingCut
    <3> QED BY <3>3, <3>5
  <2> QED BY <2>1, <2>2, <2>3
<1> QED BY <1>9, <1>10, <1>11, <1>12 DEF Milter

\* Messages as they were: so are the milters.
LEMMA MiltersSame ==
  ASSUME post' = post
  PROVE  /\ MilterAt({"reset", "cut"})' <=> MilterAt({"reset", "cut"})
         /\ MilterAt({"reset"})' <=> MilterAt({"reset"})
         /\ MilterAt({"count"})' <=> MilterAt({"count"})
  BY DEF MilterAt

LEMMA CapRead ==
  ASSUME CapInv, InboundInv', ReadLine
  PROVE  CapInv'
<1> USE DEF CapInv
<1>1. UNCHANGED <<post, writes, up, duePrune>> /\ tail = "done" /\ pos < Len(log)
  BY DEF ReadLine
<1> PICK i \in DOMAIN log : i = pos + 1
  BY <1>1, MailFacts DEF InboundInv, InboundTypeOK
<1> PICK l \in LogLine : l = log[i] /\ l.msg \in Msgs
  BY MailFacts DEF InboundInv, InboundTypeOK
<1>2. IsFiniteSet(rows) /\ IsFiniteSet(Refusers) /\ Cardinality(rows) \in Nat /\ Cardinality(Refusers) \in Nat
  BY FS_CardinalityType DEF WritersOk
<1>3. IsFiniteSet(rows') /\ Cardinality(rows') <= Cardinality(rows)
  <2> DEFINE f == [r \in rows |-> After(r, l)]
  <2>1. rows' = {f[r] : r \in rows} /\ f \in [rows -> rows']
    BY ReadsRows DEF InboundInv
  <2> HIDE DEF f
  <2> QED BY <1>2, <2>1, RowsMapped
<1>4. (tail' = "done" /\ refused' = refused) \/ (tail' = "count" /\ refused' = [refused EXCEPT ![l.msg] = @ + 1])
  <2>1. HandleLine(l)
    BY DEF ReadLine
  <2>2. CASE Rejected(l) \/ FilterRefused(l)
    BY <1>1, <2>2 DEF Rejected, FilterRefused, RecordRefusal
  <2>3. CASE OpenedHere(l) \/ Accounted(l) \/ Upstream(l) \/ GivenUp(l)
    BY <1>1, <2>3 DEF OpenedHere, Accounted, Upstream, GivenUp, journal
  <2> QED BY <2>1, <2>2, <2>3 DEF HandleLine
<1> PICK k \in {0, 1} : k = IF tail' = "count" THEN 1 ELSE 0
  OBVIOUS
<1>5. IsFiniteSet(Refusers') /\ Cardinality(Refusers') <= Cardinality(Refusers) + k
  <2>1. CASE tail' = "done" /\ refused' = refused
    <3>1. Refusers' = Refusers
      BY <2>1 DEF Refusers
    <3> QED BY <1>2, <2>1, <3>1
  <2>2. CASE tail' = "count" /\ refused' = [refused EXCEPT ![l.msg] = @ + 1]
    <3>1. refused \in [Msgs -> Nat]
      BY TypeFacts DEF InboundInv
    <3>2. Refusers' = Refusers \cup {l.msg}
      BY <2>2, <3>1 DEF Refusers
    <3>3. IsFiniteSet(Refusers') /\ Cardinality(Refusers') \in {Cardinality(Refusers), Cardinality(Refusers) + 1}
      BY <1>2, <3>2, FS_AddElement
    <3> QED BY <1>2, <2>2, <3>3
  <2> QED BY <1>4, <2>1, <2>2
<1>6. WritersOk'
  BY <1>1, <1>3, <1>5 DEF WritersOk
<1>7. Cardinality(rows') \in Nat /\ Cardinality(Refusers') \in Nat
  BY <1>3, <1>5, FS_CardinalityType
<1>8. Cardinality(rows') + Cardinality(Refusers') <= Cardinality(rows) + Cardinality(Refusers) + k
  BY <1>2, <1>3, <1>5, <1>7
<1>9. MilterAt({"reset", "cut"})' <=> MilterAt({"reset", "cut"})
  BY <1>1, MiltersSame
<1>10. Uncounted' = Uncounted + k
  <2> PICK c \in Nat : c = (IF MilterAt({"count"}) THEN Cardinality(Rcpts) ELSE 0)
    BY UncountedType
  <2>1. Uncounted = c + 0
    BY <1>1 DEF Uncounted
  <2>2. Uncounted' = c + k
    BY <1>1, MiltersSame, UncountedType
  <2> QED BY <2>1, <2>2
<1>11. writes' + Uncounted' = writes + Uncounted + k
  BY <1>1, <1>6, <1>10, CapFacts
<1>12. writes' >= inboundCapEvery => MilterAt({"reset"})' \/ tail' = "reset"
  BY <1>1, MiltersSame DEF Counting
<1>13. tail' \notin {"reset", "cut"} /\ tail \notin {"reset", "cut"} /\ k \in Nat
  BY <1>1, <1>4
<1>14. Counting'
  BY <1>1, <1>6, <1>8, <1>9, <1>11, <1>12, <1>13, UncountedType, CountingGrows
<1> QED BY <1>6, <1>14

LEMMA CapCounts ==
  ASSUME CapInv, InboundInv', TailCounts
  PROVE  CapInv'
<1> USE DEF CapInv
<1>1. /\ UNCHANGED <<post, rows, refused, up, duePrune>> /\ tail = "count" /\ writes' = writes + 1
      /\ tail' = IF writes' < inboundCapEvery THEN "done" ELSE "reset"
  BY DEF TailCounts, journal, AfterCount, CutSteps
<1>2. rows' = rows /\ Refusers' = Refusers
  BY <1>1 DEF Refusers
<1>3. WritersOk'
  BY <1>1, <1>2 DEF WritersOk
<1>4. /\ writes \in Nat /\ writes' \in Nat /\ inboundCapEvery \in Nat
      /\ Cardinality(rows) \in Nat /\ Cardinality(Refusers) \in Nat
  BY <1>3, CapFacts
<1>5. CASE writes' < inboundCapEvery
  <2>1. tail' = "done"
    BY <1>1, <1>5
  <2>2. Uncounted = Uncounted' + 1 /\ Uncounted' \in Nat
    <3> PICK c \in Nat : c = (IF MilterAt({"count"}) THEN Cardinality(Rcpts) ELSE 0)
      BY UncountedType
    <3>1. Uncounted = c + 1
      BY <1>1 DEF Uncounted
    <3>2. Uncounted' = c + 0
      BY <1>1, <2>1, MiltersSame, UncountedType
    <3> QED BY <3>1, <3>2
  <2>3. writes' + Uncounted' = writes + Uncounted + 0
    BY <1>1, <1>4, <2>2
  <2>4. Cardinality(rows') + Cardinality(Refusers') <= Cardinality(rows) + Cardinality(Refusers) + 0
    BY <1>2, <1>4
  <2>5. ~(writes' >= inboundCapEvery)
    BY <1>4, <1>5
  <2>6. MilterAt({"reset", "cut"})' <=> MilterAt({"reset", "cut"})
    BY <1>1, MiltersSame
  <2>7. tail' \notin {"reset", "cut"} /\ tail \notin {"reset", "cut"}
    BY <1>1, <2>1
  <2>8. Counting'
    BY <1>1, <1>3, <2>2, <2>3, <2>4, <2>5, <2>6, <2>7, CountingGrows
  <2> QED BY <1>3, <2>8
<1>6. CASE ~(writes' < inboundCapEvery)
  <2>1. tail' = "reset"
    BY <1>1, <1>6
  <2>2. Counting'
    BY <1>3, <2>1, UncountedType, CountingCut
  <2> QED BY <1>3, <2>2
<1> QED BY <1>5, <1>6

LEMMA CapCuts ==
  ASSUME CapInv, InboundInv', TailCuts
  PROVE  CapInv'
<1> USE DEF CapInv
<1>1. UNCHANGED <<post, up, duePrune>> /\ tail \in {"reset", "cut"} /\ CutStep(tail) /\ tail' = AfterStep(tail)
  BY DEF TailCuts
<1>2. CASE tail = "reset"
  <2>1. tail' = "cut" /\ writes' = 0 /\ rows' = rows /\ refused' = refused
    BY <1>1, <1>2 DEF CutStep, AfterStep, CutSteps, journal
  <2>2. WritersOk'
    BY <1>1, <2>1 DEF WritersOk, Refusers
  <2>3. ~(writes' >= inboundCapEvery)
    BY <2>1, <2>2, CapFacts
  <2>4. Counting'
    BY <2>1, <2>2, <2>3, UncountedType, CountingCut
  <2> QED BY <2>2, <2>4
<1>3. CASE tail = "cut"
  <2>1. Cut /\ writes' = writes
    BY <1>1, <1>3 DEF CutStep
  <2>2. IsFiniteSet(rows') /\ IsFiniteSet(Refusers') /\ Cardinality(rows') + Cardinality(Refusers') <= inboundCapRows
    BY <2>1, CutCounts
  <2>3. WritersOk'
    BY <1>1, <2>2 DEF WritersOk
  <2>4. writes' >= inboundCapEvery => MilterAt({"reset"})' \/ tail' = "reset"
    BY <1>1, <1>3, <2>1, MiltersSame DEF Counting
  <2>5. Counting'
    BY <2>2, <2>3, <2>4, UncountedType, CountingCut
  <2> QED BY <2>3, <2>5
<1> QED BY <1>1, <1>2, <1>3

\* Steps that touch neither the rows nor the count.
LEMMA CapQuiet ==
  ASSUME CapInv, InboundInv', UNCHANGED <<post, rows, refused, writes, tail, up, duePrune>>
  PROVE  CapInv'
<1> USE DEF CapInv
<1>1. Refusers' = Refusers
  BY DEF Refusers
<1>2. WritersOk'
  BY <1>1 DEF WritersOk
<1>3. Uncounted' = Uncounted
  BY MiltersSame DEF Uncounted
<1>4. writes' + Uncounted' = writes + Uncounted + 0
  BY <1>2, <1>3, CapFacts
<1>5. Cardinality(rows') + Cardinality(Refusers') <= Cardinality(rows) + Cardinality(Refusers) + 0
  BY <1>1, <1>2, CapFacts
<1>6. writes' >= inboundCapEvery => MilterAt({"reset"})' \/ tail' = "reset"
  BY MiltersSame DEF Counting
<1>7. Counting'
  BY <1>2, <1>4, <1>5, <1>6, UncountedType, MiltersSame, CountingGrows
<1> QED BY <1>2, <1>7

LEMMA CapPrune ==
  ASSUME CapInv, InboundInv', StartPrune
  PROVE  CapInv'
<1> USE DEF CapInv
<1>1. UNCHANGED <<post, writes, tail>> /\ Cut
  BY DEF StartPrune, tailer
<1>2. IsFiniteSet(rows') /\ IsFiniteSet(Refusers') /\ Cardinality(rows') + Cardinality(Refusers') <= inboundCapRows
  BY <1>1, CutCounts
<1>3. WritersOk'
  BY <1>1, <1>2 DEF WritersOk
<1>4. writes' >= inboundCapEvery => MilterAt({"reset"})' \/ tail' = "reset"
  BY <1>1, MiltersSame DEF Counting
<1>5. Counting'
  BY <1>2, <1>3, <1>4, UncountedType, CountingCut
<1> QED BY <1>3, <1>5

LEMMA CapKill ==
  ASSUME CapInv, InboundInv', Kill
  PROVE  CapInv'
<1> USE DEF CapInv
<1>1. UNCHANGED <<rows, refused>> /\ writes' = 0 /\ ~up'
  BY DEF Kill, journal
<1>2. \A m \in Msgs : post'[m].stage \in Past => post[m].stage \in Past
  BY DEF Kill, InMilter, Past
<1>3. WritersOk'
  BY <1>1, <1>2 DEF WritersOk, Refusers
<1>4. ~(writes' >= inboundCapEvery)
  BY <1>1, <1>3, CapFacts
<1>5. Counting'
  BY <1>1, <1>3, <1>4, UncountedType, CountingCut
<1> QED BY <1>3, <1>5

LEMMA CapStart ==
  ASSUME CapInv, InboundInv', StartPanel
  PROVE  CapInv'
<1> USE DEF CapInv
<1>1. UNCHANGED <<post, rows, refused, writes, tail>> /\ duePrune'
  BY DEF StartPanel, journal
<1>2. WritersOk'
  BY <1>1 DEF WritersOk, Refusers
<1>3. writes' >= inboundCapEvery => MilterAt({"reset"})' \/ tail' = "reset"
  BY <1>1, MiltersSame DEF Counting
<1>4. Counting'
  BY <1>1, <1>2, <1>3, UncountedType, CountingCut
<1> QED BY <1>2, <1>4

LEMMA CapBegins ==
  ASSUME InboundInit
  PROVE  CapInv
<1>1. InboundInv
  BY InboundStarts
<1>2. \A m \in Msgs : post[m].stage = "new" /\ refused[m] = 0
  BY DEF InboundInit, NoMsg
<1>3. rows = {} /\ Refusers = {} /\ writes = 0 /\ tail = "done"
  BY <1>2 DEF InboundInit, Refusers
<1>4. IsFiniteSet({}) /\ Cardinality({}) = 0
  BY FS_EmptySet
<1>5. WritersOk
  BY <1>2, <1>3, <1>4 DEF WritersOk, Past
<1>6. RowCount = 0
  <2>1. JournalTyped /\ \A m \in Msgs : refused[m] <= 1
    BY <1>1, <1>2 DEF InboundInv, InboundTypeOK
  <2>2. RowCount = Cardinality(rows) + Cardinality(Refusers)
    BY <1>5, <2>1, RowCountIs
  <2> QED BY <1>3, <1>4, <2>2
<1>7. Uncounted = 0
  BY <1>2, <1>3 DEF Uncounted, MilterAt
<1>8. Counting
  BY <1>3, <1>6, <1>7, JournalAssumption DEF Counting
<1> QED BY <1>1, <1>5, <1>8 DEF CapInv

\* The journal outgrows its cap by less than the rows between two cuts, when
\* nobody is at it (countInboundWrites): the milter and the tailer count
\* side by side, and whoever reaches the mark cuts for both.
THEOREM JournalStaysBounded == InboundSpec => []JournalBounded
<1>1. InboundInit => CapInv
  BY CapBegins
<1>2. InboundInv' /\ CapInv /\ [InboundNext]_inboundVars => CapInv'
  <2> SUFFICES ASSUME InboundInv', CapInv, [InboundNext]_inboundVars PROVE CapInv'
    OBVIOUS
  <2>1. ASSUME NEW m \in Msgs, Postfix(m) \/ Milter(m) PROVE CapInv'
    BY <2>1, CapPostfix, CapMilter
  <2>2. CASE Tailer
    <3>1. CASE MeetEnd \/ SavePlace
      BY <3>1, CapQuiet DEF MeetEnd, SavePlace, journal
    <3> QED BY <2>2, <3>1, CapRead, CapCounts, CapCuts DEF Tailer
  <2>3. CASE StartPrune \/ Kill \/ StartPanel
    BY <2>3, CapPrune, CapKill, CapStart
  <2>4. CASE UNCHANGED inboundVars
    BY <2>4, CapQuiet DEF inboundVars
  <2> QED BY <2>1, <2>2, <2>3, <2>4 DEF InboundNext
<1>3. CapInv => JournalBounded
  <2> SUFFICES ASSUME CapInv, up, ~duePrune, tail = "done", \A m \in Msgs : post[m].stage \notin {"count", "reset", "cut"}
               PROVE  RowCount <= inboundCapRows + inboundCapEvery - 1
    BY DEF JournalBounded
  <2>1. ~MilterAt({"reset", "cut"}) /\ ~MilterAt({"reset"}) /\ ~MilterAt({"count"})
    BY DEF MilterAt
  <2>2. Uncounted = 0
    BY <2>1 DEF Uncounted
  <2>3. RowCount <= inboundCapRows + writes + 0
    BY <2>1, <2>2 DEF CapInv, Counting
  <2>4. ~(writes >= inboundCapEvery)
    BY <2>1 DEF CapInv, Counting
  <2>5. writes \in Nat
    BY TypeFacts DEF CapInv, InboundInv
  <2>6. RowCount \in Nat
    <3>1. JournalTyped /\ WritersOk /\ \A m \in Msgs : refused[m] <= 1
      BY DEF CapInv, InboundInv, InboundTypeOK, RefusalsOk
    <3>2. Cardinality(rows) \in Nat /\ Cardinality(Refusers) \in Nat
      BY <3>1, FS_CardinalityType DEF WritersOk
    <3> QED BY <3>1, <3>2, RowCountIs
  <2> QED BY <2>3, <2>4, <2>5, <2>6, JournalAssumption
<1> QED BY <1>1, <1>2, <1>3, InboundInvariant, PTL DEF InboundSpec
=============================================================================
