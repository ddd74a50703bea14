-------------------------- MODULE AppServiceProofs --------------------------
(***************************************************************************)
(* Proofs about AppService: the registry, the accounts and the sender map, *)
(* for any number of requests, logins, forms and applications, and any     *)
(* number of calls that fail and kills.                                    *)
(***************************************************************************)
EXTENDS AppService, FiniteSetTheorems, TLAPS

-----------------------------------------------------------------------------
(* What a request is like at each of its calls.                            *)

Steps(k) ==
  CASE k = "create"    -> {"add", "set", "sync", "ips", "limit", "get", "drop1", "unset1",
                           "clear2", "unset2", "drop2", "sync2"}
    [] k = "regen"     -> {"set"}
    [] k = "delete"    -> {"unset", "drop", "clear", "sync"}
    [] k = "save"      -> {"readLimit", "mode", "ips", "limit", "sync", "mode2", "ips2", "limit2", "sync2"}
    [] k = "delDomain" -> {"purge", "limits", "dropDomain", "sync"}
    [] k = "reload"    -> {"sync", "reread"}
    [] k = "none"      -> {"idle"}

ReqKinds == {"none", "create", "regen", "delete", "save", "delDomain", "reload"}
ReqSteps == {"idle", "ok", "err", "add", "set", "sync", "ips", "limit", "get", "drop1", "unset1", "clear2",
             "unset2", "drop2", "sync2", "unset", "drop", "clear", "readLimit", "mode", "mode2", "ips2",
             "limit2", "purge", "limits", "dropDomain", "reread"}
Pairs == Forms \X Logins
Passwords == 0..MaxRequests
ReqType == [kind : ReqKinds, at : ReqSteps, phase : {"out", "copied", "listed", "written"},
            id : Ids \cup {None}, login : Logins \cup {None}, form : Forms \cup {None},
            password : Passwords \cup {None}, before : Row \cup {None}, limitBefore : Forms \cup {None},
            todo : SUBSET Logins, bindings : SUBSET Pairs]

ReqOk(r) ==
  /\ r \in ReqType
  /\ r.at \in Steps(r.kind) \cup {"ok", "err"}
  /\ r.phase = "copied" => r.at \in SaslSteps \cup {"purge"}
  /\ r.phase \in {"listed", "written"} => r.at \in SyncSteps
  /\ r.at \notin Ended \cup {"add"} /\ r.kind \in {"create", "regen", "delete", "save"} => r.id \in Ids
  /\ r.kind \in {"create", "regen", "delete"} => r.login \in Logins
  /\ r.kind \in {"create", "save"} => r.form \in Forms
  /\ r.kind \in {"create", "regen"} => r.password \in Passwords
  /\ r.kind = "save" => r.id \in Ids /\ r.before \in Row

ReqsOk == req \in [Reqs -> ReqType] /\ \A p \in Reqs : ReqOk(req[p])

\* The ids the creations under way are to take are left.
Adding == {q \in Reqs : req[q].at = "add"}
IdsLeft == lastId + Cardinality(Adding) <= MaxApps

TablesOk ==
  /\ domain \in BOOLEAN /\ rows \in [Ids -> Row \cup {None}] /\ lastId \in 0..MaxApps
  /\ limits \in [Ids -> Forms \cup {None}]
  /\ sasl \in [Logins -> Passwords \cup {None}] /\ saslNew \in [Logins -> Passwords \cup {None}]
  /\ mapFile \in SUBSET Pairs /\ live \in SUBSET Pairs
  /\ met \in BOOLEAN /\ drift \in BOOLEAN
  /\ started \in 0..MaxRequests /\ faults \in 0..MaxFaults /\ crashes \in 0..MaxCrashes

\* A mutex is held by the request inside its section and by no other.
Holders ==
  /\ saslMu \in Reqs \cup {None} /\ resyncMu \in Reqs \cup {None}
  /\ \A p \in Reqs : /\ req[p].phase = "copied" <=> saslMu = p
                     /\ req[p].phase \in {"listed", "written"} <=> resyncMu = p

\* The copy that is being changed is of the accounts as they are.
CopyCurrent == (saslMu # None => saslNew = sasl) /\ sasl = acked

AppTyped == ReqsOk /\ IdsLeft /\ TablesOk /\ Holders /\ CopyCurrent

-----------------------------------------------------------------------------
(* A request that was under way alone.                                     *)

Rollback == {"drop1", "unset1", "clear2", "unset2", "drop2", "sync2", "mode2", "ips2", "limit2"}

Alone == \A p, q \in Reqs : req[p].kind # "none" /\ req[q].kind # "none" => p = q

\* The calls of a creation between which its row is there.
Created == {"set", "sync", "ips", "limit", "get", "drop1", "unset1", "clear2", "unset2", "drop2"}

\* The account of login l is away, or is one a rollback could not remove.
Away(l) == sasl[l] = None \/ l \in leftover

\* The row and the accounts it counts on are as it left them.
Undisturbed(r) ==
  /\ (\/ r.kind = "create" /\ r.at \in Created
      \/ r.kind = "regen" /\ r.at = "set"
      \/ r.kind = "delete" /\ r.at \in {"unset", "drop"}) =>
        rows[r.id] # None /\ rows[r.id].login = r.login
  /\ r.kind = "create" /\ r.at \in {"set", "drop1", "drop2"} => Away(r.login)
  /\ r.kind = "delete" /\ r.at = "drop" => Away(r.login)
  /\ r.kind = "save" => rows[r.id] # None /\ rows[r.id].login = r.before.login
  /\ r.kind = "delDomain" /\ r.at \in {"purge", "limits", "dropDomain"} =>
        /\ domain
        /\ \A i \in Ids : rows[i] # None => Away(rows[i].login) \/ (r.at = "purge" /\ rows[i].login \in r.todo)
  /\ r.at \in Rollback /\ crashes = 0 => faults >= 1

AloneInv == met \/ (Alone /\ AccountsListed /\ \A p \in Reqs : Undisturbed(req[p]))

-----------------------------------------------------------------------------
(* The sender map.                                                         *)

\* The request is still to list the bindings, or to fail.
StillToList(r) ==
  /\ r.at \in (CASE r.kind = "create" -> {"set", "sync", "drop1", "unset1", "clear2", "unset2", "drop2", "sync2"}
                 [] r.kind \in {"delete", "save", "delDomain"} -> Steps(r.kind)
                 [] r.kind = "reload" -> {"sync"}
                 [] OTHER -> {})
  /\ r.phase \in {"out", "copied"}

\* It is still to have Postfix re-read the map, or to fail.
StillToReread(r) ==
  \/ r.phase = "written"
  \/ r.at \in Rollback
  \/ r.kind = "reload" /\ (r.phase = "listed" \/ r.at = "reread")

Sound == ~drift \/ (~met /\ crashes = 0 /\ faults = 0)

MapInv ==
  Sound => /\ \/ \A p \in Reqs : req[p].phase = "listed" => req[p].bindings = ListBindings
              \/ \E q \in Reqs : StillToList(req[q])
           /\ \/ mapFile = ListBindings
              \/ \E q \in Reqs : StillToList(req[q]) \/ req[q].phase = "listed"
           /\ live = mapFile \/ \E q \in Reqs : StillToReread(req[q])

-----------------------------------------------------------------------------
(* A save.                                                                 *)

\* The map as it was before the save.
MapBefore(r) == Bindings([rows EXCEPT ![r.id] = r.before])

SaveOk(r) ==
  /\ faults = 0 /\ r.at \in {"readLimit", "mode"} => rows[r.id] = r.before
  /\ faults = 0 /\ r.at \in {"readLimit", "mode", "ips"} => limits[r.id] = r.limitBefore
  /\ faults = 0 /\ r.at \in {"readLimit", "mode", "ips", "limit", "sync"} =>
       live = MapBefore(r) /\ (r.phase # "written" => mapFile = MapBefore(r))
  /\ r.at \in {"mode2", "ips2", "limit2", "sync2"} => live = MapBefore(r)
  /\ r.at = "ips2" => rows[r.id].rule = r.before.rule
  /\ r.at \in {"limit2", "sync2", "err"} => rows[r.id] = r.before
  /\ r.at \in {"sync2", "err"} => limits[r.id] = r.limitBefore
  /\ r.at = "sync2" /\ r.phase = "listed" => r.bindings = MapBefore(r)
  /\ r.at = "sync2" /\ r.phase = "written" => mapFile = MapBefore(r)
  /\ r.at = "err" => mapFile = MapBefore(r) /\ live = mapFile

SaveInv == crashes = 0 /\ ~met /\ faults <= 1 => \A p \in Reqs : req[p].kind = "save" => SaveOk(req[p])

-----------------------------------------------------------------------------
(* The moves of a request.                                                 *)

LEMMA CreateRoute ==
  /\ After("create", "add") = "set" /\ After("create", "set") = "sync" /\ After("create", "sync") = "ips"
  /\ After("create", "ips") = "limit" /\ After("create", "limit") = "get" /\ After("create", "get") = "ok"
  /\ After("create", "drop1") = "err" /\ After("create", "unset1") = "drop1"
  /\ After("create", "clear2") = "unset2" /\ After("create", "unset2") = "drop2"
  /\ After("create", "drop2") = "sync2" /\ After("create", "sync2") = "err"
  /\ OnError("create", "add") = "err" /\ OnError("create", "set") = "drop1" /\ OnError("create", "sync") = "unset1"
  /\ OnError("create", "ips") = "clear2" /\ OnError("create", "limit") = "clear2" /\ OnError("create", "get") = "err"
  /\ OnError("create", "drop1") = "err" /\ OnError("create", "unset1") = "drop1"
  /\ OnError("create", "clear2") = "unset2" /\ OnError("create", "unset2") = "drop2"
  /\ OnError("create", "drop2") = "sync2" /\ OnError("create", "sync2") = "err"
<1>1. \A s : After("create", s) = CreateAfter[s] /\ OnError("create", s) = CreateOnError[s]
  BY DEF After, OnError
<1> QED BY <1>1 DEF CreateAfter, CreateOnError

LEMMA SaveRoute ==
  /\ After("save", "readLimit") = "mode" /\ After("save", "mode") = "ips" /\ After("save", "ips") = "limit"
  /\ After("save", "limit") = "sync" /\ After("save", "sync") = "ok" /\ After("save", "mode2") = "ips2"
  /\ After("save", "ips2") = "limit2" /\ After("save", "limit2") = "sync2" /\ After("save", "sync2") = "err"
  /\ OnError("save", "readLimit") = "err" /\ OnError("save", "mode") = "mode2" /\ OnError("save", "ips") = "mode2"
  /\ OnError("save", "limit") = "mode2" /\ OnError("save", "sync") = "mode2" /\ OnError("save", "mode2") = "ips2"
  /\ OnError("save", "ips2") = "limit2" /\ OnError("save", "limit2") = "sync2" /\ OnError("save", "sync2") = "err"
<1>1. \A s : After("save", s) = SaveAfter[s] /\ OnError("save", s) = SaveOnError[s]
  BY DEF After, OnError
<1> QED BY <1>1 DEF SaveAfter, SaveOnError

LEMMA OtherRoutes ==
  /\ After("delete", "unset") = "drop" /\ After("delete", "drop") = "clear" /\ After("delete", "clear") = "sync"
  /\ After("delete", "sync") = "ok" /\ \A s : After("regen", s) = "ok"
  /\ After("delDomain", "purge") = "purge" /\ After("delDomain", "limits") = "dropDomain"
  /\ After("delDomain", "dropDomain") = "sync" /\ After("delDomain", "sync") = "ok"
  /\ After("reload", "sync") = "reread" /\ After("reload", "reread") = "ok"
  /\ \A k \in {"regen", "delete", "delDomain", "reload"} : \A s : OnError(k, s) = "err"
<1>1. /\ \A s : After("delete", s) = DeleteAfter[s] /\ After("delDomain", s) = DelDomainAfter[s]
      /\ \A s : After("regen", s) = "ok" /\ After("reload", s) = IF s = "sync" THEN "reread" ELSE "ok"
      /\ \A k \in {"regen", "delete", "delDomain", "reload"} : \A s : OnError(k, s) = "err"
  BY DEF After, OnError
<1> QED BY <1>1 DEF DeleteAfter, DelDomainAfter

\* Where a request may go next.
LEMMA Routes ==
  ASSUME NEW r, ReqOk(r), r.at \notin Ended
  PROVE  /\ After(r.kind, r.at) \in (Steps(r.kind) \cup {"ok", "err"}) \ {"add"}
         /\ OnError(r.kind, r.at) \in (Steps(r.kind) \cup {"err"}) \ {"add"}
<1> DEFINE k == r.kind  s == r.at
<1>0. k \in ReqKinds /\ s \in Steps(k)
  BY DEF ReqOk, ReqType, Ended
<1> HIDE DEF k, s
<1>1. CASE k = "create"
  <2>1. Steps(k) = {"add", "set", "sync", "ips", "limit", "get", "drop1", "unset1",
                    "clear2", "unset2", "drop2", "sync2"}
    BY <1>1 DEF Steps
  <2> QED BY <1>0, <1>1, <2>1, CreateRoute DEF k, s
<1>2. CASE k = "save"
  <2>1. Steps(k) = {"readLimit", "mode", "ips", "limit", "sync", "mode2", "ips2", "limit2", "sync2"}
    BY <1>2 DEF Steps
  <2> QED BY <1>0, <1>2, <2>1, SaveRoute DEF k, s
<1>3. CASE k = "regen"
  <2>1. Steps(k) = {"set"}
    BY <1>3 DEF Steps
  <2> QED BY <1>0, <1>3, <2>1, OtherRoutes DEF k, s
<1>4. CASE k = "delete"
  <2>1. Steps(k) = {"unset", "drop", "clear", "sync"}
    BY <1>4 DEF Steps
  <2> QED BY <1>0, <1>4, <2>1, OtherRoutes DEF k, s
<1>5. CASE k = "delDomain"
  <2>1. Steps(k) = {"purge", "limits", "dropDomain", "sync"}
    BY <1>5 DEF Steps
  <2> QED BY <1>0, <1>5, <2>1, OtherRoutes DEF k, s
<1>6. CASE k = "reload"
  <2>1. Steps(k) = {"sync", "reread"}
    BY <1>6 DEF Steps
  <2> QED BY <1>0, <1>6, <2>1, OtherRoutes DEF k, s
<1>7. CASE k = "none"
  <2>1. Steps(k) = {"idle"}
    BY <1>7 DEF Steps
  <2> QED BY <1>0, <2>1 DEF Ended, s
<1> QED BY <1>0, <1>1, <1>2, <1>3, <1>4, <1>5, <1>6, <1>7 DEF ReqKinds

\* Which requests make a call of this name.
LEMMA KindOf ==
  ASSUME NEW r, ReqOk(r)
  PROVE  /\ r.at \in {"add", "get", "drop1", "unset1", "clear2", "unset2", "drop2"} => r.kind = "create"
         /\ r.at = "set" => r.kind \in {"create", "regen"}
         /\ r.at \in {"unset", "drop", "clear"} => r.kind = "delete"
         /\ r.at \in {"readLimit", "mode", "mode2", "ips2", "limit2"} => r.kind = "save"
         /\ r.at \in {"ips", "limit", "sync2"} => r.kind \in {"create", "save"}
         /\ r.at = "sync" => r.kind \in {"create", "save", "delete", "delDomain", "reload"}
         /\ r.at \in {"purge", "limits", "dropDomain"} => r.kind = "delDomain"
         /\ r.at = "reread" => r.kind = "reload"
         /\ r.at = "idle" => r.kind = "none"
         /\ r.kind = "none" /\ r.at \notin {"ok", "err"} => r.at = "idle"
<1> DEFINE k == r.kind  s == r.at
<1>0. k \in ReqKinds /\ s \in Steps(k) \cup {"ok", "err"}
  BY DEF ReqOk, ReqType
<1> HIDE DEF k, s
<1>1. /\ k = "create" => s \in {"add", "set", "sync", "ips", "limit", "get", "drop1", "unset1",
                                 "clear2", "unset2", "drop2", "sync2", "ok", "err"}
      /\ k = "regen" => s \in {"set", "ok", "err"}
      /\ k = "delete" => s \in {"unset", "drop", "clear", "sync", "ok", "err"}
      /\ k = "save" => s \in {"readLimit", "mode", "ips", "limit", "sync", "mode2", "ips2", "limit2", "sync2", "ok", "err"}
      /\ k = "delDomain" => s \in {"purge", "limits", "dropDomain", "sync", "ok", "err"}
      /\ k = "reload" => s \in {"sync", "reread", "ok", "err"}
      /\ k = "none" => s \in {"idle", "ok", "err"}
  BY <1>0 DEF Steps
<1>2. \/ k = "create" \/ k = "regen" \/ k = "delete" \/ k = "save" \/ k = "delDomain" \/ k = "reload" \/ k = "none"
  BY <1>0 DEF ReqKinds
<1> QED BY <1>1, <1>2 DEF k, s

LEMMA Moves ==
  ASSUME ReqsOk, NEW p \in Reqs, NEW d, ReqOk(d), req' = [req EXCEPT ![p] = d]
  PROVE  ReqsOk' /\ req'[p] = d /\ \A q \in Reqs \ {p} : req'[q] = req[q]
<1>1. req' \in [Reqs -> ReqType] /\ \A q \in Reqs : req'[q] = IF q = p THEN d ELSE req[q]
  BY DEF ReqsOk, ReqOk
<1>2. \A q \in Reqs : ReqOk(req'[q])
  BY <1>1 DEF ReqsOk
<1> QED BY <1>1, <1>2 DEF ReqsOk, ReqOk

\* Everything but its place is what it was.
SameBut(r, d) ==
  /\ d.kind = r.kind /\ d.id = r.id /\ d.login = r.login /\ d.form = r.form /\ d.password = r.password
  /\ d.before = r.before /\ d.limitBefore = r.limitBefore /\ d.todo = r.todo /\ d.bindings = r.bindings

OthersSame(p) == \A q \in Reqs \ {p} : req'[q] = req[q]

LEMMA GotoMoves ==
  ASSUME ReqsOk, NEW p \in Reqs, NEW s \in (Steps(req[p].kind) \cup {"ok", "err"}) \ {"add"}, Goto(p, s),
         req[p].at \notin Ended, req[p].at = "add" => s = "err"
  PROVE  ReqsOk' /\ req'[p].at = s /\ req'[p].phase = "out" /\ SameBut(req[p], req'[p]) /\ OthersSame(p)
<1> DEFINE d == [req[p] EXCEPT !.at = s, !.phase = "out"]
<1>1. ReqOk(req[p]) /\ req[p] \in ReqType
  BY DEF ReqsOk
<1>2. s \in ReqSteps
  BY <1>1 DEF Steps, ReqSteps, ReqType, ReqKinds
<1>3. d \in ReqType /\ d.at = s /\ d.phase = "out" /\ SameBut(req[p], d)
  BY <1>1, <1>2 DEF ReqType, SameBut
<1>4. req' = [req EXCEPT ![p] = d]
  BY DEF Goto
<1> HIDE DEF d
<1>5. ReqOk(d)
  BY <1>1, <1>3 DEF ReqOk, SameBut, Ended
<1> QED BY <1>3, <1>4, <1>5, Moves DEF OthersSame

\* A request that succeeds, or fails, at a call.
LEMMA SucceedMoves ==
  ASSUME ReqsOk, NEW p \in Reqs, Succeed(p), req[p].at \notin Ended \cup {"add"}
  PROVE  /\ ReqsOk' /\ req'[p].at = After(req[p].kind, req[p].at) /\ req'[p].phase = "out"
         /\ req'[p].at # "add" /\ SameBut(req[p], req'[p]) /\ OthersSame(p)
         /\ drift' = (drift \/ req'[p].at = "err") /\ UNCHANGED <<acked, leftover>>
<1>1. ReqOk(req[p])
  BY DEF ReqsOk
<1>2. After(req[p].kind, req[p].at) \in (Steps(req[p].kind) \cup {"ok", "err"}) \ {"add"}
  BY <1>1, Routes
<1>3. /\ Goto(p, After(req[p].kind, req[p].at)) /\ UNCHANGED <<acked, leftover>>
      /\ drift' = (drift \/ After(req[p].kind, req[p].at) = "err")
  BY DEF Succeed
<1> QED BY <1>2, <1>3, GotoMoves

LEMMA FailMoves ==
  ASSUME ReqsOk, NEW p \in Reqs, Fail(p), req[p].at \notin Ended
  PROVE  /\ ReqsOk' /\ req'[p].at = OnError(req[p].kind, req[p].at) /\ req'[p].phase = "out"
         /\ req'[p].at # "add" /\ SameBut(req[p], req'[p]) /\ OthersSame(p)
         /\ drift' = (drift \/ req'[p].at = "err") /\ UNCHANGED acked
         /\ leftover \subseteq leftover' /\ leftover' \subseteq leftover \cup {req[p].login}
         /\ req[p].at \in {"unset1", "unset2"} => req[p].login \in leftover'
<1>1. ReqOk(req[p])
  BY DEF ReqsOk
<1>2. OnError(req[p].kind, req[p].at) \in (Steps(req[p].kind) \cup {"err"}) \ {"add"}
  BY <1>1, Routes
<1>3. /\ Goto(p, OnError(req[p].kind, req[p].at)) /\ UNCHANGED acked
      /\ drift' = (drift \/ OnError(req[p].kind, req[p].at) = "err")
      /\ leftover' = IF req[p].at \in {"unset1", "unset2"} THEN leftover \cup {req[p].login} ELSE leftover
  BY DEF Fail
<1>4. req[p].at = "add" => OnError(req[p].kind, req[p].at) = "err"
  BY <1>1, KindOf, CreateRoute
<1> QED BY <1>2, <1>3, <1>4, GotoMoves

-----------------------------------------------------------------------------
(* Rows, accounts, the map and the mutexes.                                *)

LEMMA FaultMoves ==
  ASSUME TablesOk, NEW p \in Reqs, Fault(p)
  PROVE  /\ Fail(p) /\ faults' = faults + 1 /\ faults' \in 0..MaxFaults /\ UNCHANGED <<started, crashes, met>>
  BY AppConstants DEF TablesOk, Fault

LEMMA BindingsTyped ==
  ASSUME NEW rs \in [Ids -> Row \cup {None}]
  PROVE  Bindings(rs) \in SUBSET Pairs
<1>1. ASSUME NEW i \in Ids, rs[i] # None PROVE <<rs[i].rule, rs[i].login>> \in Pairs
  BY <1>1 DEF Row, Pairs
<1> QED BY <1>1 DEF Bindings

\* A call, whatever comes of it.
LEMMA CallMoves ==
  ASSUME AppTyped, NEW p \in Reqs, req[p].at \notin Ended,
         \/ Succeed(p) /\ req[p].at # "add" /\ UNCHANGED bounds
         \/ Fail(p) /\ UNCHANGED bounds
         \/ Fault(p)
  PROVE  /\ ReqsOk' /\ req'[p].phase = "out" /\ req'[p].at # "add" /\ SameBut(req[p], req'[p]) /\ OthersSame(p)
         /\ UNCHANGED <<acked, started, crashes, met>> /\ drift' \in BOOLEAN
         /\ faults' \in 0..MaxFaults /\ faults <= faults'
<1>0. ReqsOk /\ TablesOk
  BY DEF AppTyped
<1>1. CASE Succeed(p) /\ req[p].at # "add" /\ UNCHANGED bounds
  <2>1. /\ ReqsOk' /\ req'[p].phase = "out" /\ req'[p].at # "add" /\ SameBut(req[p], req'[p]) /\ OthersSame(p)
        /\ drift' = (drift \/ req'[p].at = "err") /\ UNCHANGED <<acked, leftover>>
    BY <1>0, <1>1, SucceedMoves
  <2> QED BY <1>0, <1>1, <2>1 DEF bounds, TablesOk
<1>2. ASSUME Fail(p)
      PROVE  /\ ReqsOk' /\ req'[p].phase = "out" /\ req'[p].at # "add" /\ SameBut(req[p], req'[p]) /\ OthersSame(p)
             /\ UNCHANGED acked /\ drift' \in BOOLEAN
  BY <1>0, <1>2, FailMoves DEF TablesOk
<1>3. CASE Fail(p) /\ UNCHANGED bounds
  BY <1>0, <1>2, <1>3 DEF bounds, TablesOk
<1>4. CASE Fault(p)
  BY <1>0, <1>2, <1>4, FaultMoves DEF TablesOk
<1> QED BY <1>1, <1>3, <1>4

\* A request that was to take an id has taken it, or will not.
LEMMA AddingGoes ==
  ASSUME AppTyped, NEW p \in Reqs, OthersSame(p), req'[p].at # "add",
         lastId' = lastId \/ (req[p].at = "add" /\ lastId' = lastId + 1)
  PROVE  IdsLeft' /\ lastId' \in 0..MaxApps
<1>0. MaxApps \in Nat /\ IsFiniteSet(Reqs) /\ lastId \in 0..MaxApps /\ IdsLeft
  BY AppConstants DEF AppTyped, TablesOk
<1>1. Adding' = Adding \ {p} /\ (p \in Adding <=> req[p].at = "add")
  BY DEF Adding, OthersSame
<1>2. IsFiniteSet(Adding)
  BY <1>0, FS_Subset DEF Adding
<1>3. Cardinality(Adding) \in Nat /\ Cardinality(Adding') = Cardinality(Adding) - (IF p \in Adding THEN 1 ELSE 0)
  BY <1>1, <1>2, FS_CardinalityType, FS_RemoveElement
<1>4. Cardinality(Adding') \in Nat
  BY <1>1, <1>2, FS_RemoveElement, FS_CardinalityType
<1> QED BY <1>0, <1>1, <1>3, <1>4 DEF IdsLeft

\* A request outside the sections makes a call.
LEMMA OutsideTyped ==
  ASSUME AppTyped, NEW p \in Reqs, ReqsOk', req[p].phase = "out", req'[p].phase = "out", req'[p].at # "add",
         OthersSame(p), UNCHANGED <<saslVars, resyncMu, acked>>,
         lastId' = lastId \/ (req[p].at = "add" /\ lastId' = lastId + 1), TablesOk'
  PROVE  AppTyped'
<1>1. IdsLeft'
  BY AddingGoes
<1>2. Holders'
  BY DEF AppTyped, Holders, OthersSame, saslVars
<1>3. CopyCurrent'
  BY DEF AppTyped, CopyCurrent, saslVars
<1> QED BY <1>1, <1>2, <1>3 DEF AppTyped

LEMMA AddTyped ==
  ASSUME AppTyped, NEW p \in Reqs, AddApplication(p)
  PROVE  AppTyped'
<1>0. /\ req[p].at = "add" /\ req[p].phase = "out" /\ UNCHANGED <<saslVars, mapVars>>
      /\ ReqOk(req[p]) /\ req[p] \in ReqType /\ TablesOk /\ ReqsOk
  BY DEF AddApplication, At, AppTyped, ReqsOk
<1>1. CASE ((Fail(p) /\ UNCHANGED bounds) \/ Fault(p)) /\ UNCHANGED registry
  <2>1. /\ ReqsOk' /\ req'[p].phase = "out" /\ req'[p].at # "add" /\ OthersSame(p)
        /\ UNCHANGED <<acked, started, crashes, met>> /\ drift' \in BOOLEAN /\ faults' \in 0..MaxFaults
    BY <1>0, <1>1, CallMoves DEF Ended
  <2>2. TablesOk'
    BY <1>0, <1>1, <2>1 DEF TablesOk, registry, saslVars, mapVars
  <2> QED BY <1>0, <1>1, <2>1, <2>2, OutsideTyped DEF registry, mapVars
<1>2. CASE ~ (((Fail(p) /\ UNCHANGED bounds) \/ Fault(p)) /\ UNCHANGED registry)
  <2> DEFINE row == [login |-> req[p].login, rule |-> req[p].form, ips |-> None]
             n == lastId'
             d == [req[p] EXCEPT !.at = "set", !.id = n]
  <2>1. /\ n = lastId + 1 /\ rows' = [rows EXCEPT ![n] = row]
        /\ req' = [req EXCEPT ![p].at = "set", ![p].id = n]
        /\ UNCHANGED <<domain, limits, history, bounds>>
    BY <1>2 DEF AddApplication
  <2>2. req[p].kind = "create"
    BY <1>0, KindOf
  <2>3. p \in Adding /\ n \in Ids
    <3>1. p \in Adding
      BY <1>0 DEF Adding
    <3>2. IsFiniteSet(Adding)
      BY AppConstants, FS_Subset DEF Adding
    <3>3. Cardinality(Adding) \in Nat /\ Cardinality(Adding) # 0
      BY <3>1, <3>2, FS_CardinalityType, FS_EmptySet
    <3>4. lastId + Cardinality(Adding) <= MaxApps /\ lastId \in 0..MaxApps /\ MaxApps \in Nat
      BY <1>0, AppConstants DEF AppTyped, IdsLeft, TablesOk
    <3> QED BY <2>1, <3>1, <3>3, <3>4 DEF Ids
  <2>4. row \in Row
    BY <1>0, <2>2 DEF ReqOk, Row
  <2>5. req' = [req EXCEPT ![p] = d]
    BY <2>1
  <2> HIDE DEF n
  <2>6. d \in ReqType /\ d.at = "set" /\ d.phase = "out" /\ d.id = n /\ d.kind = "create" /\ d.login = req[p].login
        /\ d.form = req[p].form /\ d.password = req[p].password
    BY <1>0, <2>2, <2>3 DEF ReqType, ReqSteps
  <2> HIDE DEF d
  <2>7. ReqOk(d)
    BY <1>0, <2>2, <2>3, <2>6 DEF ReqOk, Steps, SaslSteps
  <2>8. ReqsOk' /\ req'[p] = d /\ OthersSame(p)
    BY <1>0, <2>5, <2>7, Moves DEF OthersSame
  <2>9. n \in 0..MaxApps
    BY <2>3, AppConstants DEF Ids
  <2> HIDE DEF row
  <2>10. rows' \in [Ids -> Row \cup {None}]
    BY <1>0, <2>1, <2>4 DEF TablesOk
  <2>11. TablesOk'
    BY <1>0, <2>1, <2>9, <2>10 DEF TablesOk, n, saslVars, mapVars, history, bounds
  <2>12. lastId' = lastId + 1 /\ UNCHANGED <<saslVars, resyncMu, acked>>
    BY <1>0, <2>1 DEF n, mapVars, history
  <2> QED BY <1>0, <2>6, <2>8, <2>11, <2>12, OutsideTyped
<1> QED BY <1>1, <1>2

LEMMA DeleteTyped ==
  ASSUME AppTyped, NEW p \in Reqs, DeleteApplication(p)
  PROVE  AppTyped'
<1>0. /\ req[p].at \in {"drop", "drop1", "drop2"} /\ req[p].phase = "out" /\ UNCHANGED <<saslVars, mapVars, domain, lastId, limits>>
      /\ TablesOk
  BY DEF DeleteApplication, At, AppTyped, registry
<1>1. /\ ReqsOk' /\ req'[p].phase = "out" /\ req'[p].at # "add" /\ OthersSame(p)
      /\ UNCHANGED <<acked, started, crashes, met>> /\ drift' \in BOOLEAN /\ faults' \in 0..MaxFaults
  <2>1. (Succeed(p) /\ UNCHANGED bounds) \/ (Fail(p) /\ UNCHANGED bounds) \/ Fault(p)
    BY DEF DeleteApplication
  <2> QED BY <1>0, <2>1, CallMoves DEF Ended
<1>2. rows' \in [Ids -> Row \cup {None}]
  <2>1. rows' = rows \/ rows' = [rows EXCEPT ![req[p].id] = None]
    BY DEF DeleteApplication, registry
  <2> QED BY <1>0, <2>1 DEF TablesOk
<1>3. TablesOk'
  BY <1>0, <1>1, <1>2 DEF TablesOk, saslVars, mapVars
<1> QED BY <1>0, <1>1, <1>3, OutsideTyped DEF mapVars

\* An update leaves a row with its login.
LEMMA UpdatedRow ==
  ASSUME ReqsOk, TablesOk, NEW p \in Reqs, req[p].at \in {"mode", "ips", "mode2", "ips2"}, rows[req[p].id] # None
  PROVE  /\ req[p].id \in Ids /\ rows[req[p].id] \in Row
         /\ Updated(p) \in Row /\ Updated(p).login = rows[req[p].id].login
         /\ req[p].at = "mode" => Updated(p).ips = rows[req[p].id].ips
         /\ req[p].at = "ips" => Updated(p).rule = rows[req[p].id].rule
         /\ req[p].at = "mode2" => Updated(p).rule = req[p].before.rule
         /\ req[p].at = "ips2" => Updated(p).rule = rows[req[p].id].rule /\ Updated(p).ips = req[p].before.ips
<1> DEFINE r == req[p]  row == rows[r.id]
<1>1. ReqOk(r) /\ (r.kind = "save" \/ r.kind = "create") /\ (r.at \in {"mode", "mode2", "ips2"} => r.kind = "save")
  BY KindOf DEF ReqsOk
<1>2. r.id \in Ids /\ r.form \in Forms /\ (r.kind = "save" => r.before \in Row)
  BY <1>1 DEF ReqOk, Ended
<1>3. row \in Row
  BY <1>2 DEF TablesOk
<1> DEFINE f == r.form  b == r.before
<1> HIDE DEF row, f, b
<1>4. f \in Forms /\ (r.kind = "save" => b \in Row) /\ row \in Row
  BY <1>2, <1>3 DEF f, b
<1>5. CASE r.at = "mode"
  <2>1. Updated(p) = [row EXCEPT !.rule = f]
    BY <1>5 DEF Updated, row, f
  <2> QED BY <1>2, <1>4, <1>5, <2>1 DEF Row, row
<1>6. CASE r.at = "ips"
  <2>1. Updated(p) = [row EXCEPT !.ips = f]
    BY <1>6 DEF Updated, row, f
  <2> QED BY <1>2, <1>4, <1>6, <2>1 DEF Row, row
<1>7. CASE r.at = "mode2"
  <2>1. Updated(p) = [row EXCEPT !.rule = b.rule]
    BY <1>7 DEF Updated, row, b
  <2> QED BY <1>1, <1>2, <1>4, <1>7, <2>1 DEF Row, row, b
<1>8. CASE r.at = "ips2"
  <2>1. Updated(p) = [row EXCEPT !.ips = b.ips]
    BY <1>8 DEF Updated, row, b
  <2> QED BY <1>1, <1>2, <1>4, <1>8, <2>1 DEF Row, row, b
<1> QED BY <1>5, <1>6, <1>7, <1>8

LEMMA UpdateTyped ==
  ASSUME AppTyped, NEW p \in Reqs, UpdateApplication(p)
  PROVE  AppTyped'
<1>0. /\ req[p].at \in {"mode", "ips", "mode2", "ips2"} /\ req[p].phase = "out"
      /\ UNCHANGED <<saslVars, mapVars, domain, lastId, limits>> /\ TablesOk /\ ReqsOk
  BY DEF UpdateApplication, At, AppTyped, registry
<1>1. /\ ReqsOk' /\ req'[p].phase = "out" /\ req'[p].at # "add" /\ OthersSame(p)
      /\ UNCHANGED <<acked, started, crashes, met>> /\ drift' \in BOOLEAN /\ faults' \in 0..MaxFaults
  <2>1. (Succeed(p) /\ UNCHANGED bounds) \/ (Fail(p) /\ UNCHANGED bounds) \/ Fault(p)
    BY DEF UpdateApplication
  <2> QED BY <1>0, <2>1, CallMoves DEF Ended
<1>2. rows' \in [Ids -> Row \cup {None}]
  <2>1. rows' = rows \/ (rows[req[p].id] # None /\ rows' = [rows EXCEPT ![req[p].id] = Updated(p)])
    BY DEF UpdateApplication, registry
  <2>2. rows[req[p].id] # None => Updated(p) \in Row
    BY <1>0, UpdatedRow
  <2> QED BY <1>0, <2>1, <2>2 DEF TablesOk
<1>3. TablesOk'
  BY <1>0, <1>1, <1>2 DEF TablesOk, saslVars, mapVars
<1> QED BY <1>0, <1>1, <1>3, OutsideTyped DEF mapVars

LEMMA LimitTyped ==
  ASSUME AppTyped, NEW p \in Reqs, SaveRateLimit(p)
  PROVE  AppTyped'
<1>0. /\ req[p].at \in {"limit", "limit2", "clear", "clear2"} /\ req[p].phase = "out"
      /\ UNCHANGED <<saslVars, mapVars, domain, lastId, rows>> /\ TablesOk /\ ReqsOk
  BY DEF SaveRateLimit, At, AppTyped
<1>1. /\ ReqsOk' /\ req'[p].phase = "out" /\ req'[p].at # "add" /\ OthersSame(p)
      /\ UNCHANGED <<acked, started, crashes, met>> /\ drift' \in BOOLEAN /\ faults' \in 0..MaxFaults
  <2>1. (Succeed(p) /\ UNCHANGED bounds) \/ Fault(p)
    BY DEF SaveRateLimit
  <2> QED BY <1>0, <2>1, CallMoves DEF Ended
<1>2. limits' \in [Ids -> Forms \cup {None}]
  <2>1. limits' = limits \/ limits' = [limits EXCEPT ![req[p].id] = LimitWritten(p)]
    BY DEF SaveRateLimit
  <2>2. LimitWritten(p) \in Forms \cup {None}
    <3>1. ReqOk(req[p]) /\ req[p] \in ReqType /\ (req[p].at = "limit" => req[p].kind \in {"create", "save"})
      BY <1>0, KindOf DEF ReqsOk
    <3>2. req[p].limitBefore \in Forms \cup {None} /\ (req[p].at = "limit" => req[p].form \in Forms)
      BY <3>1 DEF ReqOk, ReqType
    <3> QED BY <3>2 DEF LimitWritten, LimitOf
  <2> QED BY <1>0, <2>1, <2>2 DEF TablesOk
<1>3. TablesOk'
  BY <1>0, <1>1, <1>2 DEF TablesOk, saslVars, mapVars
<1> QED BY <1>0, <1>1, <1>3, OutsideTyped DEF mapVars

LEMMA ReadLimitTyped ==
  ASSUME AppTyped, NEW p \in Reqs, ReadLimit(p)
  PROVE  AppTyped'
<1>0. /\ req[p].at = "readLimit" /\ req[p].phase = "out" /\ UNCHANGED <<registry, saslVars, mapVars>>
      /\ TablesOk /\ ReqsOk /\ ReqOk(req[p]) /\ req[p] \in ReqType
  BY DEF ReadLimit, At, AppTyped, ReqsOk
<1>1. CASE Fault(p)
  <2>1. /\ ReqsOk' /\ req'[p].phase = "out" /\ req'[p].at # "add" /\ OthersSame(p)
        /\ UNCHANGED <<acked, started, crashes, met>> /\ drift' \in BOOLEAN /\ faults' \in 0..MaxFaults
    BY <1>0, <1>1, CallMoves DEF Ended
  <2>2. TablesOk'
    BY <1>0, <2>1 DEF TablesOk, registry, saslVars, mapVars
  <2> QED BY <1>0, <2>1, <2>2, OutsideTyped DEF registry, mapVars
<1>2. CASE ~ Fault(p)
  <2> DEFINE x == limits[req[p].id]
             d == [req[p] EXCEPT !.at = "mode", !.limitBefore = x]
  <2>1. req' = [req EXCEPT ![p] = d] /\ UNCHANGED <<history, bounds>>
    BY <1>2 DEF ReadLimit
  <2>2. req[p].kind = "save" /\ req[p].id \in Ids /\ x \in Forms \cup {None}
    BY <1>0, KindOf DEF ReqOk, TablesOk
  <2> HIDE DEF x
  <2>3. /\ d \in ReqType /\ d.at = "mode" /\ d.phase = "out" /\ d.id = req[p].id /\ d.kind = "save"
        /\ d.form = req[p].form /\ d.before = req[p].before
    BY <1>0, <2>2 DEF ReqType, ReqSteps
  <2> HIDE DEF d
  <2>4. ReqOk(d)
    BY <1>0, <2>2, <2>3 DEF ReqOk, Steps, SaslSteps, SyncSteps, Ended
  <2>5. ReqsOk' /\ req'[p] = d /\ OthersSame(p)
    BY <1>0, <2>1, <2>4, Moves DEF OthersSame
  <2>6. TablesOk'
    BY <1>0, <2>1 DEF TablesOk, registry, saslVars, mapVars, history, bounds
  <2> QED BY <1>0, <2>1, <2>3, <2>5, <2>6, OutsideTyped DEF registry, mapVars, history
<1> QED BY <1>1, <1>2

LEMMA GetTyped ==
  ASSUME AppTyped, NEW p \in Reqs, GetApplication(p)
  PROVE  AppTyped'
<1>0. /\ req[p].at = "get" /\ req[p].phase = "out" /\ UNCHANGED <<registry, saslVars, mapVars>> /\ TablesOk
  BY DEF GetApplication, At, AppTyped
<1>1. /\ ReqsOk' /\ req'[p].phase = "out" /\ req'[p].at # "add" /\ OthersSame(p)
      /\ UNCHANGED <<acked, started, crashes, met>> /\ drift' \in BOOLEAN /\ faults' \in 0..MaxFaults
  <2>1. (Succeed(p) /\ UNCHANGED bounds) \/ (Fail(p) /\ UNCHANGED bounds) \/ Fault(p)
    BY DEF GetApplication
  <2> QED BY <1>0, <2>1, CallMoves DEF Ended
<1>2. TablesOk'
  BY <1>0, <1>1 DEF TablesOk, registry, saslVars, mapVars
<1> QED BY <1>0, <1>1, <1>2, OutsideTyped DEF registry, mapVars

LEMMA DomainTyped ==
  ASSUME AppTyped, NEW p \in Reqs, DeleteRateLimitsForDomain(p) \/ DeleteDomain(p)
  PROVE  AppTyped'
<1>0. /\ req[p].at \in {"limits", "dropDomain"} /\ req[p].phase = "out" /\ UNCHANGED <<saslVars, mapVars, lastId>> /\ TablesOk
  BY DEF DeleteRateLimitsForDomain, DeleteDomain, At, AppTyped
<1>1. /\ ReqsOk' /\ req'[p].phase = "out" /\ req'[p].at # "add" /\ OthersSame(p)
      /\ UNCHANGED <<acked, started, crashes, met>> /\ drift' \in BOOLEAN /\ faults' \in 0..MaxFaults
  <2>1. (Succeed(p) /\ UNCHANGED bounds) \/ (Fail(p) /\ UNCHANGED bounds) \/ Fault(p)
    BY DEF DeleteRateLimitsForDomain, DeleteDomain
  <2> QED BY <1>0, <2>1, CallMoves DEF Ended
<1>2. domain' \in BOOLEAN /\ rows' \in [Ids -> Row \cup {None}] /\ limits' \in [Ids -> Forms \cup {None}]
  <2>1. \/ domain' = domain /\ rows' = rows /\ limits' = [i \in Ids |-> IF rows[i] # None THEN None ELSE limits[i]]
        \/ domain' = domain /\ rows' = rows /\ limits' = limits
        \/ domain' = FALSE /\ rows' = [i \in Ids |-> None] /\ limits' = limits
    BY DEF DeleteRateLimitsForDomain, DeleteDomain
  <2> QED BY <1>0, <2>1 DEF TablesOk
<1>3. TablesOk'
  BY <1>0, <1>1, <1>2 DEF TablesOk, saslVars, mapVars
<1> QED BY <1>0, <1>1, <1>3, OutsideTyped DEF mapVars

LEMMA SaslCopyTyped ==
  ASSUME AppTyped, NEW p \in Reqs, SaslCopy(p)
  PROVE  AppTyped' /\ OthersSame(p) /\ req'[p].at = req[p].at /\ SameBut(req[p], req'[p]) /\ req'[p].phase = "copied"
<1> DEFINE d == [req[p] EXCEPT !.phase = "copied"]
<1>0. /\ req[p].at \in SaslSteps \cup {"purge"} /\ req[p].phase = "out" /\ saslMu = None /\ saslMu' = p /\ saslNew' = sasl
      /\ req' = [req EXCEPT ![p] = d] /\ UNCHANGED <<registry, sasl, mapVars, bounds, history>>
      /\ TablesOk /\ ReqsOk /\ ReqOk(req[p]) /\ req[p] \in ReqType
  BY DEF SaslCopy, At, AppTyped, ReqsOk
<1>1. d \in ReqType /\ d.at = req[p].at /\ SameBut(req[p], d) /\ d.phase = "copied"
  BY <1>0 DEF ReqType, SameBut
<1> HIDE DEF d
<1>2. ReqOk(d)
  BY <1>0, <1>1 DEF ReqOk, SameBut
<1>3. ReqsOk' /\ req'[p] = d /\ OthersSame(p)
  BY <1>0, <1>2, Moves DEF OthersSame
<1>4. IdsLeft'
  <2>1. req'[p].at # "add" /\ lastId' = lastId
    BY <1>0, <1>1, <1>3 DEF SaslSteps, registry
  <2> QED BY <1>3, <2>1, AddingGoes
<1>5. TablesOk'
  BY <1>0 DEF TablesOk, registry, mapVars, bounds, history
<1>6. Holders'
  <2>1. Holders /\ None \notin Reqs
    BY AppConstants DEF AppTyped
  <2>2. saslMu' \in Reqs \cup {None} /\ resyncMu' = resyncMu /\ req[p].phase = "out" /\ req'[p].phase = "copied"
    BY <1>0, <1>1, <1>3 DEF mapVars
  <2>3. ASSUME NEW q \in Reqs
        PROVE  /\ req'[q].phase = "copied" <=> saslMu' = q
               /\ req'[q].phase \in {"listed", "written"} <=> resyncMu' = q
    <3>1. CASE q = p
      BY <1>0, <2>1, <2>2, <3>1 DEF Holders
    <3>2. CASE q # p
      BY <1>0, <1>3, <2>1, <2>2, <3>2 DEF Holders, OthersSame
    <3> QED BY <3>1, <3>2
  <2> QED BY <2>1, <2>2, <2>3 DEF Holders
<1>7. CopyCurrent'
  BY <1>0 DEF AppTyped, CopyCurrent, history
<1> QED BY <1>1, <1>3, <1>4, <1>5, <1>6, <1>7 DEF AppTyped

\* A change of sasldb2 replaces the account of one login, and nothing else.
LEMMA SaslRenameMoves ==
  ASSUME AppTyped, NEW p \in Reqs, SaslRename(p)
  PROVE  /\ ReqsOk' /\ OthersSame(p) /\ req'[p].phase = "out" /\ req'[p].at # "add" /\ req[p].phase = "copied"
         /\ req[p].at \in SaslSteps \cup {"purge"} /\ saslMu' = None
         /\ drift' = (drift \/ req'[p].at = "err")
         /\ \E l \in Logins, pw \in Passwords \cup {None} :
              /\ sasl' = [sasl EXCEPT ![l] = pw] /\ acked' = sasl' /\ leftover' = leftover \ {l}
              /\ req[p].at = "set" => pw = req[p].password /\ pw # None
              /\ req[p].at # "set" => pw = None
              /\ \/ /\ req[p].at # "purge" /\ l = req[p].login /\ SameBut(req[p], req'[p])
                    /\ req'[p].at = After(req[p].kind, req[p].at)
                 \/ /\ req[p].at = "purge" /\ l \in req[p].todo /\ req'[p] = [req[p] EXCEPT !.phase = "out", !.todo = @ \ {l}]
<1>0. /\ req[p].phase = "copied" /\ saslMu' = None /\ TablesOk /\ ReqsOk /\ ReqOk(req[p]) /\ req[p] \in ReqType
      /\ req[p].at \in SaslSteps \cup {"purge"} /\ saslMu = p /\ saslNew = sasl /\ sasl = acked
  <2>1. ReqsOk /\ TablesOk /\ Holders /\ CopyCurrent /\ req[p].phase = "copied" /\ saslMu' = None
    BY DEF AppTyped, SaslRename
  <2>2. ReqOk(req[p])
    BY <2>1 DEF ReqsOk
  <2>3. saslMu = p /\ p # None
    BY <2>1, AppConstants DEF Holders
  <2> QED BY <2>1, <2>2, <2>3 DEF ReqOk, CopyCurrent
<1>1. PICK l \in SaslLogins(p) :
       LET pw == IF req[p].at = "set" THEN req[p].password ELSE None IN
       /\ sasl' = [saslNew EXCEPT ![l] = pw]
       /\ acked' = [acked EXCEPT ![l] = pw]
       /\ leftover' = leftover \ {l}
       /\ \/ /\ req[p].at = "purge"
             /\ req' = [req EXCEPT ![p].phase = "out", ![p].todo = @ \ {l}]
             /\ UNCHANGED drift
          \/ /\ req[p].at # "purge"
             /\ LET s == After(req[p].kind, req[p].at) IN
                  Goto(p, s) /\ drift' = (drift \/ s = "err")
  BY DEF SaslRename
<1> DEFINE pw == IF req[p].at = "set" THEN req[p].password ELSE None
<1>2. /\ sasl' = [sasl EXCEPT ![l] = pw] /\ acked' = sasl' /\ leftover' = leftover \ {l}
  BY <1>0, <1>1
<1>3. req[p].at = "set" => req[p].password \in Passwords
  BY <1>0, KindOf DEF ReqOk
<1>3a. None \notin Passwords
  BY AppConstants DEF Passwords
<1>4. /\ pw \in Passwords \cup {None}
      /\ req[p].at = "set" => pw = req[p].password /\ pw # None
      /\ req[p].at # "set" => pw = None
  BY <1>3, <1>3a
<1> HIDE DEF pw
<1>5. CASE req[p].at = "purge"
  <2> DEFINE d == [req[p] EXCEPT !.phase = "out", !.todo = @ \ {l}]
  <2>1. req' = [req EXCEPT ![p] = d] /\ UNCHANGED drift /\ l \in req[p].todo /\ l \in Logins
    BY <1>0, <1>1, <1>5 DEF SaslLogins, ReqType
  <2>2. /\ d \in ReqType /\ d.at = "purge" /\ d.phase = "out" /\ d.kind = req[p].kind /\ d.id = req[p].id
        /\ d.login = req[p].login /\ d.form = req[p].form /\ d.password = req[p].password /\ d.before = req[p].before
    BY <1>0, <1>5 DEF ReqType
  <2> HIDE DEF d
  <2>3. ReqOk(d)
    BY <1>0, <1>5, <2>2 DEF ReqOk
  <2>4. ReqsOk' /\ req'[p] = d /\ OthersSame(p)
    BY <1>0, <2>1, <2>3, Moves DEF OthersSame
  <2>5. drift' = (drift \/ req'[p].at = "err")
    BY <1>0, <2>1, <2>2, <2>4 DEF TablesOk
  <2> QED BY <1>0, <1>2, <1>4, <1>5, <2>1, <2>2, <2>4, <2>5 DEF d
<1>6. CASE req[p].at # "purge"
  <2> DEFINE s == After(req[p].kind, req[p].at)
  <2>1. Goto(p, s) /\ drift' = (drift \/ s = "err") /\ l = req[p].login
    BY <1>1, <1>6 DEF SaslLogins
  <2>2. req[p].at \notin Ended \cup {"add"}
    BY <1>0 DEF SaslSteps, Ended
  <2>3. s \in (Steps(req[p].kind) \cup {"ok", "err"}) \ {"add"}
    BY <1>0, <2>2, Routes
  <2> HIDE DEF s
  <2>4. ReqsOk' /\ req'[p].at = s /\ req'[p].phase = "out" /\ SameBut(req[p], req'[p]) /\ OthersSame(p)
    BY <1>0, <2>1, <2>2, <2>3, GotoMoves
  <2>5. req[p].login \in Logins
    <3>1. req[p].kind \in {"create", "regen", "delete"} \/ req[p].at = "unset"
      BY <1>0, <1>6, KindOf DEF SaslSteps
    <3>2. req[p].kind \in {"create", "regen", "delete"}
      BY <1>0, <3>1, KindOf
    <3> QED BY <1>0, <3>2 DEF ReqOk
  <2> QED BY <1>0, <1>2, <1>4, <1>6, <2>1, <2>3, <2>4, <2>5 DEF s
<1> QED BY <1>5, <1>6

LEMMA SaslRenameTyped ==
  ASSUME AppTyped, NEW p \in Reqs, SaslRename(p)
  PROVE  AppTyped'
<1>0. \E l \in Logins, pw \in Passwords \cup {None} :
        /\ sasl' = [sasl EXCEPT ![l] = pw] /\ acked' = sasl' /\ leftover' = leftover \ {l}
        /\ req[p].at = "set" => pw = req[p].password /\ pw # None
        /\ req[p].at # "set" => pw = None
        /\ \/ /\ req[p].at # "purge" /\ l = req[p].login /\ SameBut(req[p], req'[p])
              /\ req'[p].at = After(req[p].kind, req[p].at)
           \/ /\ req[p].at = "purge" /\ l \in req[p].todo /\ req'[p] = [req[p] EXCEPT !.phase = "out", !.todo = @ \ {l}]
  BY SaslRenameMoves
<1>1. /\ ReqsOk' /\ OthersSame(p) /\ req'[p].phase = "out" /\ req'[p].at # "add" /\ req[p].phase = "copied" /\ saslMu' = None
      /\ drift' = (drift \/ req'[p].at = "err")
      /\ \E l \in Logins, pw \in Passwords \cup {None} : sasl' = [sasl EXCEPT ![l] = pw] /\ acked' = sasl'
  <2>1. /\ ReqsOk' /\ OthersSame(p) /\ req'[p].phase = "out" /\ req'[p].at # "add" /\ req[p].phase = "copied"
        /\ saslMu' = None /\ drift' = (drift \/ req'[p].at = "err")
    BY SaslRenameMoves
  <2>2. \E l \in Logins, pw \in Passwords \cup {None} : sasl' = [sasl EXCEPT ![l] = pw] /\ acked' = sasl'
    BY <1>0
  <2> QED BY <2>1, <2>2
<1>2. TablesOk /\ UNCHANGED <<registry, saslNew, mapVars, bounds>> /\ Holders /\ None \notin Reqs
  BY AppConstants DEF AppTyped, SaslRename
<1>3. IdsLeft'
  BY <1>1, <1>2, AddingGoes DEF registry
<1>4. sasl' \in [Logins -> Passwords \cup {None}]
  BY <1>1, <1>2 DEF TablesOk
<1>5. TablesOk'
  BY <1>1, <1>2, <1>4 DEF TablesOk, registry, mapVars, bounds
<1>6. Holders'
  <2>1. ASSUME NEW q \in Reqs
        PROVE  /\ req'[q].phase # "copied"
               /\ req'[q].phase \in {"listed", "written"} <=> resyncMu' = q
    BY <1>1, <1>2 DEF Holders, OthersSame, mapVars
  <2> QED BY <1>1, <1>2, <2>1 DEF Holders, mapVars
<1>7. CopyCurrent'
  BY <1>1, <1>2 DEF CopyCurrent
<1> QED BY <1>1, <1>3, <1>5, <1>6, <1>7 DEF AppTyped

LEMMA SaslFailsTyped ==
  ASSUME AppTyped, NEW p \in Reqs, SaslFails(p)
  PROVE  AppTyped'
<1>0. /\ req[p].phase = "copied" /\ saslMu' = None /\ Fault(p) /\ UNCHANGED <<registry, sasl, saslNew, mapVars>>
      /\ TablesOk /\ ReqsOk /\ Holders /\ None \notin Reqs /\ ReqOk(req[p])
  BY AppConstants DEF SaslFails, AppTyped, ReqsOk
<1>1. req[p].at \notin Ended
  BY <1>0 DEF ReqOk, SaslSteps, Ended
<1>2. /\ ReqsOk' /\ req'[p].phase = "out" /\ req'[p].at # "add" /\ OthersSame(p)
      /\ UNCHANGED <<acked, started, crashes, met>> /\ drift' \in BOOLEAN /\ faults' \in 0..MaxFaults
  BY <1>0, <1>1, CallMoves
<1>3. IdsLeft'
  BY <1>0, <1>2, AddingGoes DEF registry
<1>4. TablesOk'
  BY <1>0, <1>2 DEF TablesOk, registry, mapVars
<1>5. Holders'
  <2>1. ASSUME NEW q \in Reqs
        PROVE  /\ req'[q].phase # "copied"
               /\ req'[q].phase \in {"listed", "written"} <=> resyncMu' = q
    BY <1>0, <1>2 DEF Holders, OthersSame, mapVars
  <2> QED BY <1>0, <2>1 DEF Holders, mapVars
<1>6. CopyCurrent'
  BY <1>0, <1>2 DEF CopyCurrent, AppTyped
<1> QED BY <1>2, <1>3, <1>4, <1>5, <1>6 DEF AppTyped

LEMMA PurgedTyped ==
  ASSUME AppTyped, NEW p \in Reqs, Purged(p)
  PROVE  AppTyped' /\ req'[p].at = "limits" /\ req'[p].phase = "out" /\ SameBut(req[p], req'[p]) /\ OthersSame(p)
<1>0. /\ req[p].at = "purge" /\ req[p].phase = "out" /\ Goto(p, "limits") /\ TablesOk /\ ReqsOk /\ ReqOk(req[p])
      /\ UNCHANGED <<registry, saslVars, mapVars, bounds, history>>
  BY DEF Purged, At, AppTyped, ReqsOk
<1>1. "limits" \in (Steps(req[p].kind) \cup {"ok", "err"}) \ {"add"}
  BY <1>0, KindOf DEF Steps
<1>2. ReqsOk' /\ req'[p].at = "limits" /\ req'[p].phase = "out" /\ SameBut(req[p], req'[p]) /\ OthersSame(p)
  BY <1>0, <1>1, GotoMoves DEF Ended
<1>3. TablesOk'
  BY <1>0 DEF TablesOk, registry, saslVars, mapVars, bounds, history
<1> QED BY <1>0, <1>2, <1>3, OutsideTyped DEF registry, mapVars, history

\* The bindings are read under resyncMu, which nobody held.
LEMMA ResyncListMoves ==
  ASSUME AppTyped, NEW p \in Reqs, ResyncList(p)
  PROVE  /\ ReqsOk' /\ OthersSame(p) /\ req[p].at \in SyncSteps /\ req[p].phase = "out" /\ resyncMu = None
         /\ req'[p].at = req[p].at /\ req'[p].kind = req[p].kind /\ req'[p].id = req[p].id /\ req'[p].login = req[p].login
         /\ req'[p].before = req[p].before /\ req'[p].limitBefore = req[p].limitBefore /\ req'[p].todo = req[p].todo
         /\ req'[p].phase = "listed" /\ req'[p].bindings = ListBindings
<1> DEFINE b == ListBindings
           d == [req[p] EXCEPT !.phase = "listed", !.bindings = b]
<1>0. /\ req[p].at \in SyncSteps /\ req[p].phase = "out" /\ resyncMu = None
      /\ req' = [req EXCEPT ![p] = d] /\ TablesOk /\ ReqsOk /\ ReqOk(req[p]) /\ req[p] \in ReqType
  BY DEF ResyncList, At, AppTyped, ReqsOk
<1>1. b \in SUBSET Pairs
  BY <1>0, BindingsTyped DEF TablesOk, ListBindings
<1> HIDE DEF b
<1>2. /\ d \in ReqType /\ d.at = req[p].at /\ d.kind = req[p].kind /\ d.id = req[p].id /\ d.login = req[p].login
      /\ d.form = req[p].form /\ d.password = req[p].password /\ d.before = req[p].before
      /\ d.limitBefore = req[p].limitBefore /\ d.todo = req[p].todo /\ d.phase = "listed" /\ d.bindings = b
  BY <1>0, <1>1 DEF ReqType
<1> HIDE DEF d
<1>3. ReqOk(d)
  BY <1>0, <1>2 DEF ReqOk
<1>4. ReqsOk' /\ req'[p] = d /\ OthersSame(p)
  BY <1>0, <1>3, Moves DEF OthersSame
<1> QED BY <1>0, <1>2, <1>4 DEF b

LEMMA ResyncListTyped ==
  ASSUME AppTyped, NEW p \in Reqs, ResyncList(p)
  PROVE  AppTyped'
<1>1. /\ ReqsOk' /\ OthersSame(p) /\ req[p].at \in SyncSteps /\ req'[p].at = req[p].at
      /\ req[p].phase = "out" /\ req'[p].phase = "listed" /\ resyncMu = None
  BY ResyncListMoves
<1>2. /\ TablesOk /\ UNCHANGED <<registry, saslVars, mapFile, live, bounds, acked, leftover>> /\ resyncMu' = p
      /\ drift' = (drift /\ req[p].kind # "reload") /\ Holders /\ None \notin Reqs
  BY AppConstants DEF AppTyped, ResyncList
<1>3. IdsLeft'
  BY <1>1, <1>2, AddingGoes DEF registry, SyncSteps
<1>4. TablesOk'
  BY <1>2 DEF TablesOk, registry, saslVars, bounds
<1>5. Holders'
  <2>1. ASSUME NEW q \in Reqs
        PROVE  /\ req'[q].phase = "copied" <=> saslMu' = q
               /\ req'[q].phase \in {"listed", "written"} <=> resyncMu' = q
    <3>1. CASE q = p
      BY <1>1, <1>2, <3>1 DEF Holders, saslVars
    <3>2. CASE q # p
      BY <1>1, <1>2, <3>2 DEF Holders, OthersSame, saslVars
    <3> QED BY <3>1, <3>2
  <2> QED BY <1>1, <1>2, <2>1 DEF Holders, saslVars
<1>6. CopyCurrent'
  BY <1>2 DEF CopyCurrent, AppTyped, saslVars
<1> QED BY <1>1, <1>3, <1>4, <1>5, <1>6 DEF AppTyped

\* The holder of resyncMu, and only it, is inside the section.
LEMMA ResyncHolder ==
  ASSUME AppTyped, NEW p \in Reqs, req[p].phase \in {"listed", "written"}
  PROVE  /\ resyncMu = p /\ req[p].at \in SyncSteps /\ req[p].at \notin Ended \cup {"add"}
         /\ \A q \in Reqs \ {p} : req[q].phase \notin {"listed", "written"}
<1>1. Holders /\ ReqOk(req[p])
  BY DEF AppTyped, ReqsOk
<1> QED BY <1>1 DEF Holders, ReqOk, SyncSteps, Ended

\* The section is left, whatever came of it.
LEMMA ResyncLeft ==
  ASSUME AppTyped, NEW p \in Reqs, req[p].phase \in {"listed", "written"}, ReqsOk', TablesOk', OthersSame(p),
         req'[p].phase = "out", req'[p].at # "add", resyncMu' = None, UNCHANGED <<lastId, saslVars, acked>>
  PROVE  AppTyped'
<1>1. Holders /\ None \notin Reqs
  BY AppConstants DEF AppTyped
<1>2. IdsLeft'
  BY AddingGoes
<1>3. Holders'
  <2>1. ASSUME NEW q \in Reqs
        PROVE  /\ req'[q].phase = "copied" <=> saslMu' = q
               /\ req'[q].phase \notin {"listed", "written"}
    <3>1. CASE q = p
      BY <1>1, <3>1 DEF Holders, saslVars
    <3>2. CASE q # p
      BY <1>1, <3>2, ResyncHolder DEF Holders, OthersSame, saslVars
    <3> QED BY <3>1, <3>2
  <2> QED BY <1>1, <2>1 DEF Holders, saslVars
<1>4. CopyCurrent'
  BY DEF CopyCurrent, AppTyped, saslVars
<1> QED BY <1>2, <1>3, <1>4 DEF AppTyped

LEMMA ResyncWriteTyped ==
  ASSUME AppTyped, NEW p \in Reqs, ResyncWrite(p)
  PROVE  AppTyped' /\ OthersSame(p) /\ SameBut(req[p], req'[p])
         /\ \/ mapFile = req[p].bindings /\ Succeed(p) /\ mapFile' = mapFile
            \/ mapFile' = req[p].bindings /\ req'[p].at = req[p].at /\ req'[p].phase = "written" /\ UNCHANGED history
<1>0. /\ req[p].phase = "listed" /\ UNCHANGED <<registry, saslVars, live, bounds>>
      /\ TablesOk /\ ReqsOk /\ ReqOk(req[p]) /\ req[p] \in ReqType /\ Holders /\ CopyCurrent
      /\ resyncMu = p /\ req[p].at \in SyncSteps /\ req[p].at \notin Ended \cup {"add"}
  BY ResyncHolder DEF ResyncWrite, AppTyped, ReqsOk
<1>1. CASE mapFile = req[p].bindings /\ resyncMu' = None /\ Succeed(p) /\ UNCHANGED mapFile
  <2>1. /\ ReqsOk' /\ req'[p].phase = "out" /\ req'[p].at # "add" /\ OthersSame(p) /\ SameBut(req[p], req'[p])
        /\ UNCHANGED <<acked, started, crashes, met>> /\ drift' \in BOOLEAN /\ faults' \in 0..MaxFaults
    BY <1>0, <1>1, CallMoves
  <2>2. TablesOk'
    BY <1>0, <1>1, <2>1 DEF TablesOk, registry, saslVars
  <2> QED BY <1>0, <1>1, <2>1, <2>2, ResyncLeft DEF registry
<1>2. CASE ~ (mapFile = req[p].bindings /\ resyncMu' = None /\ Succeed(p) /\ UNCHANGED mapFile)
  <2> DEFINE d == [req[p] EXCEPT !.phase = "written"]
  <2>1. mapFile' = req[p].bindings /\ req' = [req EXCEPT ![p] = d] /\ UNCHANGED <<resyncMu, history>>
    BY <1>2 DEF ResyncWrite
  <2>2. d \in ReqType /\ d.at = req[p].at /\ SameBut(req[p], d) /\ d.phase = "written"
    BY <1>0 DEF ReqType, SameBut
  <2> HIDE DEF d
  <2>3. ReqOk(d)
    BY <1>0, <2>2 DEF ReqOk, SameBut
  <2>4. ReqsOk' /\ req'[p] = d /\ OthersSame(p)
    BY <1>0, <2>1, <2>3, Moves DEF OthersSame
  <2>5. IdsLeft'
    BY <1>0, <2>2, <2>4, AddingGoes DEF registry
  <2>6. mapFile' \in SUBSET Pairs
    BY <1>0, <2>1 DEF ReqType
  <2>7. TablesOk'
    BY <1>0, <2>1, <2>6 DEF TablesOk, registry, saslVars, bounds, history
  <2>8. Holders'
    <3>1. ASSUME NEW q \in Reqs
          PROVE  /\ req'[q].phase = "copied" <=> saslMu' = q
                 /\ req'[q].phase \in {"listed", "written"} <=> resyncMu' = q
      <4>1. CASE q = p
        BY <1>0, <2>1, <2>2, <2>4, <4>1 DEF Holders, saslVars
      <4>2. CASE q # p
        BY <1>0, <2>1, <2>4, <4>2 DEF Holders, OthersSame, saslVars
      <4> QED BY <4>1, <4>2
    <3> QED BY <1>0, <2>1, <3>1 DEF Holders, saslVars
  <2>9. CopyCurrent'
    BY <1>0, <2>1 DEF CopyCurrent, saslVars, history
  <2> QED BY <2>1, <2>2, <2>4, <2>5, <2>7, <2>8, <2>9 DEF AppTyped
<1> QED BY <1>1, <1>2

LEMMA ResyncReloadTyped ==
  ASSUME AppTyped, NEW p \in Reqs, ResyncReload(p)
  PROVE  AppTyped'
<1>0. /\ req[p].phase = "written" /\ Succeed(p) /\ resyncMu' = None /\ live' = mapFile
      /\ UNCHANGED <<registry, saslVars, mapFile, bounds>> /\ TablesOk /\ req[p].at \notin Ended \cup {"add"}
  BY ResyncHolder DEF ResyncReload, AppTyped
<1>1. /\ ReqsOk' /\ req'[p].phase = "out" /\ req'[p].at # "add" /\ OthersSame(p)
      /\ UNCHANGED <<acked, started, crashes, met>> /\ drift' \in BOOLEAN /\ faults' \in 0..MaxFaults
  BY <1>0, CallMoves
<1>2. TablesOk'
  BY <1>0, <1>1 DEF TablesOk, registry, saslVars
<1> QED BY <1>0, <1>1, <1>2, ResyncLeft DEF registry

LEMMA ResyncFailsTyped ==
  ASSUME AppTyped, NEW p \in Reqs, ResyncFails(p)
  PROVE  AppTyped'
<1>0. /\ req[p].phase \in {"listed", "written"} /\ Fault(p) /\ resyncMu' = None
      /\ UNCHANGED <<registry, saslVars, mapFile, live>> /\ TablesOk /\ req[p].at \notin Ended \cup {"add"}
  BY ResyncHolder DEF ResyncFails, AppTyped
<1>1. /\ ReqsOk' /\ req'[p].phase = "out" /\ req'[p].at # "add" /\ OthersSame(p)
      /\ UNCHANGED <<acked, started, crashes, met>> /\ drift' \in BOOLEAN /\ faults' \in 0..MaxFaults
  BY <1>0, CallMoves
<1>2. TablesOk'
  BY <1>0, <1>1 DEF TablesOk, registry, saslVars
<1> QED BY <1>0, <1>1, <1>2, ResyncLeft DEF registry

LEMMA RereadTyped ==
  ASSUME AppTyped, NEW p \in Reqs, ReloadPostfix(p)
  PROVE  AppTyped'
<1>0. /\ req[p].at = "reread" /\ req[p].phase = "out" /\ UNCHANGED <<registry, saslVars, mapFile, resyncMu>> /\ TablesOk
  BY DEF ReloadPostfix, At, AppTyped
<1>1. /\ ReqsOk' /\ req'[p].phase = "out" /\ req'[p].at # "add" /\ OthersSame(p)
      /\ UNCHANGED <<acked, started, crashes, met>> /\ drift' \in BOOLEAN /\ faults' \in 0..MaxFaults
  <2>1. (Succeed(p) /\ UNCHANGED bounds) \/ Fault(p)
    BY DEF ReloadPostfix
  <2> QED BY <1>0, <2>1, CallMoves DEF Ended
<1>2. TablesOk'
  <2>1. live' = mapFile \/ live' = live
    BY DEF ReloadPostfix
  <2> QED BY <1>0, <1>1, <2>1 DEF TablesOk, registry, saslVars
<1> QED BY <1>0, <1>1, <1>2, OutsideTyped DEF registry

LEMMA StepTyped ==
  ASSUME AppTyped, NEW p \in Reqs, Step(p)
  PROVE  AppTyped'
BY AddTyped, DeleteTyped, UpdateTyped, LimitTyped, ReadLimitTyped, GetTyped, DomainTyped, SaslCopyTyped,
   SaslRenameTyped, SaslFailsTyped, PurgedTyped, ResyncListTyped, ResyncWriteTyped, ResyncReloadTyped,
   ResyncFailsTyped, RereadTyped DEF Step

-----------------------------------------------------------------------------
(* Requests that begin.                                                    *)

LEMMA BlankOk == Blank \in ReqType /\ ReqOk(Blank)
<1>1. Blank \in ReqType
  BY DEF Blank, ReqType, ReqKinds, ReqSteps
<1> QED BY <1>1 DEF ReqOk, Blank, Steps, Ended

\* What a goroutine that begins finds and leaves.
LEMMA Begun ==
  ASSUME AppTyped, NEW p \in Reqs, NEW r, ReqOk(r), r \in ReqType, r.phase = "out", Begin(p, r),
         r.at = "add" => lastId + Cardinality(Adding) < MaxApps
  PROVE  /\ AppTyped' /\ req'[p] = r /\ req[p].at \in Ended
         /\ \A q \in Reqs \ {p} : IF req[q].at \in Ended THEN req'[q] = Blank ELSE req'[q] = req[q]
         /\ met' = (met \/ \E q \in Reqs \ {p} : req[q].at \notin Ended)
         /\ UNCHANGED <<registry, saslVars, mapVars, faults, crashes, history>>
<1>0. /\ TablesOk /\ ReqsOk /\ Holders /\ IdsLeft /\ None \notin Reqs
      /\ UNCHANGED <<registry, saslVars, mapVars, faults, crashes, history>>
      /\ started' = started + 1 /\ started < MaxRequests /\ MaxRequests \in Nat /\ req[p].at \in Ended
      /\ met' = (met \/ \E q \in Reqs \ {p} : req[q].at \notin Ended)
      /\ req' = [q \in Reqs |-> IF q = p THEN r ELSE IF req[q].at \in Ended THEN Blank ELSE req[q]]
  BY AppConstants DEF AppTyped, Begin
<1>1. req'[p] = r /\ \A q \in Reqs \ {p} : IF req[q].at \in Ended THEN req'[q] = Blank ELSE req'[q] = req[q]
  BY <1>0
<1>2. ReqsOk'
  <2>1. \A q \in Reqs : ReqOk(req'[q])
    BY <1>0, <1>1, BlankOk DEF ReqsOk
  <2>2. \A q \in Reqs : req'[q] \in ReqType
    BY <2>1 DEF ReqOk
  <2>3. req' \in [Reqs -> ReqType]
    BY <1>0, <2>2
  <2> QED BY <2>1, <2>3 DEF ReqsOk
<1>3. IdsLeft'
  <2>1. IsFiniteSet(Adding) /\ IsFiniteSet(Adding \cup {p}) /\ MaxApps \in Nat /\ lastId \in 0..MaxApps
    BY <1>0, AppConstants, FS_Subset DEF Adding, TablesOk
  <2>2. Adding' = IF r.at = "add" THEN Adding \cup {p} ELSE Adding
    BY <1>0, <1>1 DEF Adding, Ended, Blank
  <2>3. p \notin Adding
    BY <1>0 DEF Adding, Ended
  <2>4. Cardinality(Adding \cup {p}) = Cardinality(Adding) + 1 /\ Cardinality(Adding) \in Nat
    BY <2>1, <2>3, FS_AddElement, FS_CardinalityType
  <2> QED BY <1>0, <2>1, <2>2, <2>4 DEF IdsLeft, registry
<1>4. TablesOk'
  <2>1. met' \in BOOLEAN /\ started' \in 0..MaxRequests
    BY <1>0 DEF TablesOk
  <2> QED BY <1>0, <2>1 DEF TablesOk, registry, saslVars, mapVars, history
<1>5. Holders'
  <2>1. ASSUME NEW q \in Reqs
        PROVE  req'[q].phase = "out" \/ req'[q] = req[q]
    BY <1>1, BlankOk DEF Blank
  <2>2. ASSUME NEW q \in Reqs, req[q].phase # "out"
        PROVE  req'[q] = req[q]
    <3>1. ReqOk(req[q]) /\ req[q] \in ReqType
      BY <1>0 DEF ReqsOk
    <3>2. req[q].at \notin Ended
      BY <2>2, <3>1 DEF ReqOk, ReqType, SaslSteps, SyncSteps, Ended
    <3> QED BY <1>0, <1>1, <3>2
  <2> QED BY <1>0, <2>1, <2>2 DEF Holders, saslVars, mapVars
<1>6. CopyCurrent'
  BY <1>0 DEF AppTyped, CopyCurrent, saslVars, history
<1> QED BY <1>0, <1>1, <1>2, <1>3, <1>4, <1>5, <1>6 DEF AppTyped

\* Each kind of request as it begins.
LEMMA CreateBegins ==
  ASSUME AppTyped, NEW p \in Reqs, StartCreate(p)
  PROVE  \E r \in ReqType :
           /\ ReqOk(r) /\ r.kind = "create" /\ r.at = "add" /\ r.phase = "out" /\ Begin(p, r)
           /\ lastId + Cardinality(Adding) < MaxApps
<1>1. PICK l \in Logins, f \in Forms :
        /\ lastId + Cardinality({q \in Reqs : req[q].at = "add"}) < MaxApps
        /\ Begin(p, [Blank EXCEPT !.kind = "create", !.at = "add", !.login = l, !.form = f, !.password = started + 1])
  BY Zenon DEF StartCreate
<1> DEFINE pw == started + 1
           d == [Blank EXCEPT !.kind = "create", !.at = "add", !.login = l, !.form = f, !.password = pw]
<1>2. pw \in Passwords
  <2>1. started \in 0..MaxRequests /\ started < MaxRequests /\ MaxRequests \in Nat
    BY <1>1, AppConstants DEF Begin, AppTyped, TablesOk
  <2> QED BY <2>1 DEF Passwords
<1> HIDE DEF pw
<1>3. /\ d \in ReqType /\ d.kind = "create" /\ d.at = "add" /\ d.phase = "out" /\ d.login = l /\ d.form = f
      /\ d.password = pw
  BY <1>2 DEF Blank, ReqType, ReqKinds, ReqSteps
<1>4. Begin(p, d) /\ lastId + Cardinality(Adding) < MaxApps
  BY <1>1 DEF pw, Adding
<1> HIDE DEF d
<1>5. ReqOk(d)
  BY <1>2, <1>3 DEF ReqOk, Steps, Ended
<1> QED BY <1>3, <1>4, <1>5

LEMMA RegenerateBegins ==
  ASSUME AppTyped, NEW p \in Reqs, StartRegenerate(p)
  PROVE  \E r \in ReqType :
           /\ ReqOk(r) /\ r.kind = "regen" /\ r.at = "set" /\ r.phase = "out" /\ Begin(p, r)
           /\ rows[r.id] # None /\ r.login = rows[r.id].login
<1>1. PICK i \in Ids :
        /\ rows[i] # None
        /\ Begin(p, [Blank EXCEPT !.kind = "regen", !.at = "set", !.id = i, !.login = rows[i].login,
                                  !.password = started + 1])
  BY Zenon DEF StartRegenerate
<1> DEFINE pw == started + 1
           l == rows[i].login
           d == [Blank EXCEPT !.kind = "regen", !.at = "set", !.id = i, !.login = l, !.password = pw]
<1>2. pw \in Passwords /\ l \in Logins
  <2>1. started \in 0..MaxRequests /\ started < MaxRequests /\ MaxRequests \in Nat /\ rows[i] \in Row
    BY <1>1, AppConstants DEF Begin, AppTyped, TablesOk
  <2> QED BY <2>1 DEF Passwords, Row
<1>4. Begin(p, d)
  BY <1>1
<1> HIDE DEF pw, l
<1>3. /\ d \in ReqType /\ d.kind = "regen" /\ d.at = "set" /\ d.phase = "out" /\ d.login = l /\ d.id = i
      /\ d.password = pw
  BY <1>2 DEF Blank, ReqType, ReqKinds, ReqSteps
<1> HIDE DEF d
<1>5. ReqOk(d)
  BY <1>2, <1>3 DEF ReqOk, Steps, Ended
<1> QED BY <1>1, <1>3, <1>4, <1>5 DEF l

LEMMA DeleteBegins ==
  ASSUME AppTyped, NEW p \in Reqs, StartDelete(p)
  PROVE  \E r \in ReqType :
           /\ ReqOk(r) /\ r.kind = "delete" /\ r.at = "unset" /\ r.phase = "out" /\ Begin(p, r)
           /\ rows[r.id] # None /\ r.login = rows[r.id].login
<1>1. PICK i \in Ids :
        /\ rows[i] # None
        /\ Begin(p, [Blank EXCEPT !.kind = "delete", !.at = "unset", !.id = i, !.login = rows[i].login])
  BY Zenon DEF StartDelete
<1> DEFINE l == rows[i].login
           d == [Blank EXCEPT !.kind = "delete", !.at = "unset", !.id = i, !.login = l]
<1>2. l \in Logins
  BY <1>1 DEF AppTyped, TablesOk, Row
<1>4. Begin(p, d)
  BY <1>1
<1> HIDE DEF l
<1>3. d \in ReqType /\ d.kind = "delete" /\ d.at = "unset" /\ d.phase = "out" /\ d.login = l /\ d.id = i
  BY <1>2 DEF Blank, ReqType, ReqKinds, ReqSteps
<1> HIDE DEF d
<1>5. ReqOk(d)
  BY <1>2, <1>3 DEF ReqOk, Steps, Ended
<1> QED BY <1>1, <1>3, <1>4, <1>5 DEF l

LEMMA SaveBegins ==
  ASSUME AppTyped, NEW p \in Reqs, StartSave(p)
  PROVE  \E r \in ReqType :
           /\ ReqOk(r) /\ r.kind = "save" /\ r.at = "readLimit" /\ r.phase = "out" /\ Begin(p, r)
           /\ rows[r.id] # None /\ r.before = rows[r.id] /\ r.limitBefore = limits[r.id]
<1>1. PICK i \in Ids, f \in Forms :
        /\ rows[i] # None
        /\ Begin(p, [Blank EXCEPT !.kind = "save", !.at = "readLimit", !.id = i, !.form = f,
                                  !.before = rows[i], !.limitBefore = limits[i]])
  BY Zenon DEF StartSave
<1> DEFINE b == rows[i]
           x == limits[i]
           d == [Blank EXCEPT !.kind = "save", !.at = "readLimit", !.id = i, !.form = f, !.before = b, !.limitBefore = x]
<1>2. b \in Row /\ x \in Forms \cup {None}
  BY <1>1 DEF AppTyped, TablesOk
<1>4. Begin(p, d)
  BY <1>1
<1> HIDE DEF b, x
<1>3. /\ d \in ReqType /\ d.kind = "save" /\ d.at = "readLimit" /\ d.phase = "out" /\ d.id = i /\ d.form = f
      /\ d.before = b /\ d.limitBefore = x
  BY <1>2 DEF Blank, ReqType, ReqKinds, ReqSteps
<1> HIDE DEF d
<1>5. ReqOk(d)
  BY <1>2, <1>3 DEF ReqOk, Steps, Ended
<1> QED BY <1>1, <1>3, <1>4, <1>5 DEF b, x

LEMMA DeleteDomainBegins ==
  ASSUME AppTyped, NEW p \in Reqs, StartDeleteDomain(p)
  PROVE  \E r \in ReqType :
           /\ ReqOk(r) /\ r.kind = "delDomain" /\ r.at = "purge" /\ r.phase = "out" /\ Begin(p, r)
           /\ domain /\ r.todo = {rows[i].login : i \in {j \in Ids : rows[j] # None}}
<1> DEFINE t == {rows[i].login : i \in {j \in Ids : rows[j] # None}}
           d == [Blank EXCEPT !.kind = "delDomain", !.at = "purge", !.todo = t]
<1>1. domain /\ Begin(p, d)
  BY DEF StartDeleteDomain
<1>2. t \in SUBSET Logins
  BY DEF AppTyped, TablesOk, Row
<1> HIDE DEF t
<1>3. d \in ReqType /\ d.kind = "delDomain" /\ d.at = "purge" /\ d.phase = "out" /\ d.todo = t
  BY <1>2 DEF Blank, ReqType, ReqKinds, ReqSteps
<1> HIDE DEF d
<1>5. ReqOk(d)
  BY <1>2, <1>3 DEF ReqOk, Steps, Ended
<1> QED BY <1>1, <1>3, <1>5 DEF t

LEMMA ReloadBegins ==
  ASSUME AppTyped, NEW p \in Reqs, StartReload(p)
  PROVE  \E r \in ReqType :
           ReqOk(r) /\ r.kind = "reload" /\ r.at = "sync" /\ r.phase = "out" /\ Begin(p, r)
<1> DEFINE d == [Blank EXCEPT !.kind = "reload", !.at = "sync"]
<1>1. Begin(p, d)
  BY DEF StartReload
<1>3. d \in ReqType /\ d.kind = "reload" /\ d.at = "sync" /\ d.phase = "out"
  BY DEF Blank, ReqType, ReqKinds, ReqSteps
<1> HIDE DEF d
<1>5. ReqOk(d)
  BY <1>3 DEF ReqOk, Steps, Ended
<1> QED BY <1>1, <1>3, <1>5

LEMMA StartTyped ==
  ASSUME AppTyped, NEW p \in Reqs, Start(p)
  PROVE  AppTyped'
<1>1. \E r \in ReqType :
        ReqOk(r) /\ r.phase = "out" /\ Begin(p, r) /\ (r.at = "add" => lastId + Cardinality(Adding) < MaxApps)
  BY CreateBegins, RegenerateBegins, DeleteBegins, SaveBegins, DeleteDomainBegins, ReloadBegins, Zenon DEF Start
<1> QED BY <1>1, Begun

LEMMA CrashTyped ==
  ASSUME AppTyped, Crash
  PROVE  AppTyped' /\ \A p \in Reqs : req'[p] = Blank
<1>0. /\ req' = [p \in Reqs |-> Blank] /\ saslMu' = None /\ resyncMu' = None /\ drift' = TRUE
      /\ crashes' = crashes + 1 /\ crashes < MaxCrashes /\ MaxCrashes \in Nat
      /\ UNCHANGED <<registry, sasl, saslNew, mapFile, live, started, faults, met, acked, leftover>>
      /\ TablesOk /\ None \notin Reqs
  BY AppConstants DEF Crash, AppTyped
<1>1. \A p \in Reqs : req'[p] = Blank
  BY <1>0
<1>2. ReqsOk'
  <2>1. req' \in [Reqs -> ReqType]
    BY <1>0, BlankOk
  <2> QED BY <1>1, <2>1, BlankOk DEF ReqsOk
<1>3. IdsLeft'
  <2>1. Adding' = {}
    BY <1>1 DEF Adding, Blank
  <2>2. Cardinality(Adding') = 0
    BY <2>1, FS_EmptySet
  <2> QED BY <1>0, <2>2, AppConstants DEF IdsLeft, TablesOk, registry
<1>4. TablesOk'
  BY <1>0 DEF TablesOk, registry
<1>5. Holders'
  BY <1>0, <1>1 DEF Holders, Blank
<1>6. CopyCurrent'
  BY <1>0 DEF AppTyped, CopyCurrent
<1> QED BY <1>1, <1>2, <1>3, <1>4, <1>5, <1>6 DEF AppTyped

LEMMA InitTyped == Init => AppTyped
<1> SUFFICES ASSUME Init PROVE AppTyped
  OBVIOUS
<1>0. /\ domain = TRUE /\ saslNew = sasl /\ saslMu = None /\ mapFile = ListBindings /\ live = mapFile
      /\ resyncMu = None /\ req = [p \in Reqs |-> Blank] /\ started = 0 /\ faults = 0 /\ crashes = 0
      /\ met = FALSE /\ acked = sasl /\ drift = FALSE /\ leftover = {}
  BY DEF Init
<1>1. MaxApps \in Nat \ {0} /\ {MaxRequests, MaxFaults, MaxCrashes} \subseteq Nat /\ None \notin Reqs
  BY AppConstants
<1>2. PICK seed \in {{}} \cup {{l} : l \in Logins}, f \in Forms :
       /\ lastId = Cardinality(seed)
       /\ rows = [i \in Ids |-> IF i <= lastId
                    THEN [login |-> CHOOSE l \in seed : TRUE, rule |-> f, ips |-> f] ELSE None]
       /\ limits = [i \in Ids |-> IF i <= lastId THEN LimitOf(f) ELSE None]
       /\ sasl = [l \in Logins |-> IF l \in seed THEN 0 ELSE None]
  BY DEF Init
<1>3. lastId \in {0, 1} /\ (lastId = 1 => seed # {}) /\ seed \subseteq Logins
  <2>1. CASE seed = {}
    BY <1>2, <2>1, FS_EmptySet
  <2>2. CASE seed # {}
    <3>1. PICK l \in Logins : seed = {l}
      BY <1>2, <2>2
    <3>2. Cardinality({l}) = 1
      BY FS_Singleton
    <3> QED BY <1>2, <3>1, <3>2
  <2> QED BY <2>1, <2>2
<1>4. rows \in [Ids -> Row \cup {None}]
  <2>1. ASSUME NEW i \in Ids, i <= lastId
        PROVE  [login |-> CHOOSE l \in seed : TRUE, rule |-> f, ips |-> f] \in Row
    <3>1. seed # {}
      BY <1>1, <1>3, <2>1 DEF Ids
    <3>2. (CHOOSE l \in seed : TRUE) \in Logins
      BY <1>3, <3>1
    <3> QED BY <3>2 DEF Row
  <2> QED BY <1>2, <2>1
<1>5. limits \in [Ids -> Forms \cup {None}]
  BY <1>2 DEF LimitOf
<1>6. sasl \in [Logins -> Passwords \cup {None}]
  BY <1>1, <1>2 DEF Passwords
<1>7. mapFile \in SUBSET Pairs
  BY <1>0, <1>4, BindingsTyped DEF ListBindings
<1>8. TablesOk
  <2>1. MaxApps \in Nat \ {0} /\ MaxRequests \in Nat /\ MaxFaults \in Nat /\ MaxCrashes \in Nat
    BY <1>1
  <2>2. lastId \in 0..MaxApps /\ 0 \in 0..MaxRequests /\ 0 \in 0..MaxFaults /\ 0 \in 0..MaxCrashes
    BY <1>3, <2>1
  <2> QED BY <1>0, <1>4, <1>5, <1>6, <1>7, <2>2 DEF TablesOk
<1>9. ReqsOk
  BY <1>0, BlankOk DEF ReqsOk
<1>10. IdsLeft
  <2>1. Adding = {}
    BY <1>0 DEF Adding, Blank
  <2>2. Cardinality(Adding) = 0
    BY <2>1, FS_EmptySet
  <2> QED BY <1>1, <1>3, <2>2 DEF IdsLeft
<1>11. Holders
  BY <1>0, <1>1 DEF Holders, Blank
<1>12. CopyCurrent
  BY <1>0 DEF CopyCurrent
<1> QED BY <1>8, <1>9, <1>10, <1>11, <1>12 DEF AppTyped

LEMMA SameTyped ==
  ASSUME AppTyped, UNCHANGED vars
  PROVE  AppTyped'
<1>1. UNCHANGED <<registry, saslVars, mapVars, bounds, history, req>>
  BY DEF vars
<1>2. ReqsOk' /\ IdsLeft' /\ Holders' /\ CopyCurrent'
  BY <1>1 DEF AppTyped, ReqsOk, ReqOk, IdsLeft, Adding, Holders, CopyCurrent, registry, saslVars, mapVars, history
<1>3. TablesOk'
  BY <1>1 DEF AppTyped, TablesOk, registry, saslVars, mapVars, bounds, history
<1> QED BY <1>2, <1>3 DEF AppTyped

LEMMA NextTyped ==
  ASSUME AppTyped, [Next]_vars
  PROVE  AppTyped'
<1>1. CASE Crash
  BY <1>1, CrashTyped
<1>2. CASE UNCHANGED vars
  BY <1>2, SameTyped
<1>3. ASSUME NEW p \in Reqs, Start(p) PROVE AppTyped'
  BY <1>3, StartTyped
<1>4. ASSUME NEW p \in Reqs, Step(p) PROVE AppTyped'
  BY <1>4, StepTyped
<1> QED BY <1>1, <1>2, <1>3, <1>4, Zenon DEF Next, Rest

\* Every table, account, file and mutex keeps its form, the copy of sasldb2 a
\* request edits is the file itself, and whoever holds a mutex is inside its
\* section (app.Service, Store, SASLDB.change, Service.Resync).
THEOREM AppTypedAlways == Spec => []AppTyped
<1>1. AppTyped /\ [Next]_vars => AppTyped'
  BY NextTyped
<1> QED BY InitTyped, <1>1, PTL DEF Spec

-----------------------------------------------------------------------------
(* Requests that come one at a time.                                       *)

\* Ids beyond the sequence were never given.
IdsGiven == \A i \in Ids : rows[i] # None => i <= lastId

\* A step other than AddApplication gives no row and takes no id.
RowsOnlyGo == lastId' = lastId /\ \A i \in Ids : rows'[i] # None => rows[i] # None

LEMMA StepRows ==
  ASSUME AppTyped, NEW p \in Reqs, Step(p)
  PROVE  AddApplication(p) \/ RowsOnlyGo
<1>0. TablesOk
  BY DEF AppTyped
<1>1. CASE DeleteApplication(p)
  <2>1. lastId' = lastId /\ (rows' = rows \/ rows' = [rows EXCEPT ![req[p].id] = None])
    BY <1>1 DEF DeleteApplication, registry
  <2> QED BY <1>0, <2>1 DEF RowsOnlyGo, TablesOk
<1>2. CASE UpdateApplication(p)
  <2>1. lastId' = lastId /\ (rows' = rows \/ (rows[req[p].id] # None /\ rows' = [rows EXCEPT ![req[p].id] = Updated(p)]))
    BY <1>2 DEF UpdateApplication, registry
  <2> HIDE DEF Updated
  <2> QED BY <1>0, <2>1 DEF RowsOnlyGo, TablesOk
<1>3. CASE DeleteDomain(p)
  <2>1. lastId' = lastId /\ (rows' = rows \/ rows' = [i \in Ids |-> None])
    BY <1>3 DEF DeleteDomain
  <2> QED BY <1>0, <2>1 DEF RowsOnlyGo, TablesOk
<1>4. CASE SaveRateLimit(p) \/ DeleteRateLimitsForDomain(p)
  <2>1. lastId' = lastId /\ rows' = rows
    BY <1>4 DEF SaveRateLimit, DeleteRateLimitsForDomain
  <2> QED BY <2>1 DEF RowsOnlyGo
<1>5. CASE ReadLimit(p) \/ GetApplication(p) \/ ReloadPostfix(p) \/ SaslCopy(p) \/ SaslRename(p) \/ SaslFails(p) \/ Purged(p)
  <2>1. UNCHANGED registry
    BY <1>5 DEF ReadLimit, GetApplication, ReloadPostfix, SaslCopy, SaslRename, SaslFails, Purged
  <2> QED BY <2>1 DEF RowsOnlyGo, registry
<1>6. CASE ResyncList(p) \/ ResyncWrite(p) \/ ResyncReload(p) \/ ResyncFails(p)
  <2>1. UNCHANGED registry
    BY <1>6 DEF ResyncList, ResyncWrite, ResyncReload, ResyncFails
  <2> QED BY <2>1 DEF RowsOnlyGo, registry
<1> QED BY <1>1, <1>2, <1>3, <1>4, <1>5, <1>6 DEF Step

\* A creation takes the next id, or fails and leaves the registry alone.
LEMMA AddMoves ==
  ASSUME AppTyped, NEW p \in Reqs, AddApplication(p)
  PROVE  /\ req[p].at = "add" /\ req[p].phase = "out" /\ req[p].kind = "create" /\ UNCHANGED <<saslVars, mapVars, domain, limits>>
         /\ \/ /\ UNCHANGED <<rows, lastId>> /\ req'[p].at = "err" /\ req'[p].kind = "create" /\ leftover \subseteq leftover'
               /\ drift' = TRUE /\ faults <= faults' /\ UNCHANGED <<crashes, met>> /\ OthersSame(p)
            \/ \E n \in Ids, row \in Row :
                 /\ domain /\ \A i \in Ids : rows[i] # None => rows[i].login # req[p].login
                 /\ n = lastId + 1 /\ lastId' = n /\ rows' = [rows EXCEPT ![n] = row] /\ row.login = req[p].login
                 /\ req'[p].at = "set" /\ req'[p].phase = "out" /\ req'[p].id = n /\ req'[p].kind = "create"
                 /\ req'[p].login = req[p].login /\ OthersSame(p) /\ UNCHANGED <<history, bounds>>
<1>0. /\ req[p].at = "add" /\ req[p].phase = "out" /\ UNCHANGED <<saslVars, mapVars>> /\ ReqOk(req[p])
      /\ req[p] \in ReqType /\ TablesOk /\ ReqsOk /\ req[p].kind = "create"
  <2>1. ReqsOk /\ TablesOk /\ req[p].at = "add" /\ req[p].phase = "out" /\ UNCHANGED <<saslVars, mapVars>>
    BY DEF AddApplication, At, AppTyped
  <2> QED BY <2>1, KindOf DEF ReqsOk
<1>1. CASE ((Fail(p) /\ UNCHANGED bounds) \/ Fault(p)) /\ UNCHANGED registry
  <2>1. ASSUME Fail(p)
        PROVE  req'[p].at = "err" /\ req'[p].kind = "create" /\ leftover \subseteq leftover' /\ drift' = TRUE /\ OthersSame(p)
    <3>1. req[p].at \notin Ended /\ ReqsOk
      BY <1>0 DEF Ended
    <3>2. /\ req'[p].at = OnError(req[p].kind, req[p].at) /\ SameBut(req[p], req'[p]) /\ OthersSame(p)
          /\ drift' = (drift \/ req'[p].at = "err") /\ leftover \subseteq leftover'
      BY <2>1, <3>1, FailMoves
    <3>3. OnError("create", "add") = "err"
      BY CreateRoute
    <3> QED BY <1>0, <3>2, <3>3 DEF SameBut
  <2>2. Fail(p) /\ faults <= faults' /\ UNCHANGED <<crashes, met>>
    BY <1>0, <1>1, FaultMoves DEF bounds, TablesOk
  <2> QED BY <1>0, <1>1, <2>1, <2>2 DEF registry
<1>2. CASE ~ (((Fail(p) /\ UNCHANGED bounds) \/ Fault(p)) /\ UNCHANGED registry)
  <2> DEFINE row == [login |-> req[p].login, rule |-> req[p].form, ips |-> None]
             n == lastId'
             d == [req[p] EXCEPT !.at = "set", !.id = n]
  <2>1. /\ n = lastId + 1 /\ rows' = [rows EXCEPT ![n] = row] /\ req' = [req EXCEPT ![p].at = "set", ![p].id = n]
        /\ UNCHANGED <<domain, limits, history, bounds>>
        /\ domain /\ \A i \in Ids : rows[i] # None => rows[i].login # req[p].login
    BY <1>2 DEF AddApplication
  <2>2. req' = [req EXCEPT ![p] = d]
    BY <2>1
  <2>3. n \in Ids
    <3>1. TablesOk' /\ MaxApps \in Nat
      BY AddTyped, AppConstants DEF AppTyped
    <3> QED BY <1>0, <2>1, <3>1 DEF TablesOk, Ids
  <2>4. row \in Row /\ row.login = req[p].login
    BY <1>0 DEF ReqOk, Row
  <2> HIDE DEF n, row
  <2>5. /\ d.at = "set" /\ d.phase = "out" /\ d.id = n /\ d.kind = "create" /\ d.login = req[p].login
    BY <1>0 DEF ReqType
  <2>6. req'[p] = d /\ OthersSame(p)
    BY <1>0, <2>2 DEF ReqsOk, OthersSame
  <2> HIDE DEF d
  <2>7. lastId' = n
    BY DEF n
  <2> QED BY <1>0, <2>1, <2>3, <2>4, <2>5, <2>6, <2>7
<1> QED BY <1>1, <1>2

LEMMA GivenAlways == Spec => []IdsGiven
<1>1. ASSUME Init PROVE IdsGiven
  <2>1. \E f : rows = [i \in Ids |-> IF i <= lastId THEN f ELSE None]
    BY <1>1 DEF Init
  <2> QED BY <2>1 DEF IdsGiven
<1>2. ASSUME AppTyped, IdsGiven, [Next]_vars PROVE IdsGiven'
  <2>0. TablesOk
    BY <1>2 DEF AppTyped
  <2>1. ASSUME RowsOnlyGo PROVE IdsGiven'
    BY <1>2, <2>1 DEF IdsGiven, RowsOnlyGo
  <2>2. CASE UNCHANGED rows /\ UNCHANGED lastId
    BY <2>1, <2>2 DEF RowsOnlyGo
  <2>3. ASSUME NEW p \in Reqs, AddApplication(p) PROVE IdsGiven'
    <3>1. CASE \E n \in Ids, row \in Row : n = lastId + 1 /\ lastId' = n /\ rows' = [rows EXCEPT ![n] = row]
      BY <1>2, <2>0, <3>1 DEF IdsGiven, TablesOk, Ids
    <3> QED BY <1>2, <2>2, <2>3, <3>1, AddMoves
  <2>4. ASSUME NEW p \in Reqs, Start(p) PROVE UNCHANGED rows /\ UNCHANGED lastId
    BY <2>4 DEF Start, StartCreate, StartRegenerate, StartDelete, StartSave, StartDeleteDomain, StartReload, Begin, registry
  <2>5. CASE Crash
    BY <2>2, <2>5 DEF Crash, registry
  <2>6. CASE UNCHANGED vars
    BY <2>2, <2>6 DEF vars, registry
  <2> QED BY <1>2, <2>1, <2>2, <2>3, <2>4, <2>5, <2>6, StepRows DEF Next, Rest
<1> QED BY <1>1, <1>2, AppTypedAlways, PTL DEF Spec

\* A rollback is entered by a call that failed.
LEMMA RollbackRoutes ==
  ASSUME NEW r, ReqOk(r), r.at \notin Ended
  PROVE  /\ After(r.kind, r.at) \in Rollback => r.at \in Rollback
         /\ r.at \in {"add", "get", "dropDomain", "drop", "drop1"} => OnError(r.kind, r.at) = "err"
         /\ r.at \in {"drop2", "mode2", "ips2"} => r.at \in Rollback
<1> DEFINE k == r.kind  s == r.at
<1>0. k \in ReqKinds /\ s \in Steps(k)
  BY DEF ReqOk, ReqType, Ended
<1> HIDE DEF k, s
<1>1. CASE k = "create"
  <2>1. Steps(k) = {"add", "set", "sync", "ips", "limit", "get", "drop1", "unset1",
                    "clear2", "unset2", "drop2", "sync2"}
    BY <1>1 DEF Steps
  <2> QED BY <1>0, <1>1, <2>1, CreateRoute DEF k, s, Rollback
<1>2. CASE k = "save"
  <2>1. Steps(k) = {"readLimit", "mode", "ips", "limit", "sync", "mode2", "ips2", "limit2", "sync2"}
    BY <1>2 DEF Steps
  <2> QED BY <1>0, <1>2, <2>1, SaveRoute DEF k, s, Rollback
<1>3. CASE k = "regen"
  <2>1. Steps(k) = {"set"}
    BY <1>3 DEF Steps
  <2> QED BY <1>0, <1>3, <2>1, OtherRoutes DEF k, s, Rollback
<1>4. CASE k = "delete"
  <2>1. Steps(k) = {"unset", "drop", "clear", "sync"}
    BY <1>4 DEF Steps
  <2> QED BY <1>0, <1>4, <2>1, OtherRoutes DEF k, s, Rollback
<1>5. CASE k = "delDomain"
  <2>1. Steps(k) = {"purge", "limits", "dropDomain", "sync"}
    BY <1>5 DEF Steps
  <2> QED BY <1>0, <1>5, <2>1, OtherRoutes DEF k, s, Rollback
<1>6. CASE k = "reload"
  <2>1. Steps(k) = {"sync", "reread"}
    BY <1>6 DEF Steps
  <2> QED BY <1>0, <1>6, <2>1, OtherRoutes DEF k, s, Rollback
<1>7. CASE k = "none"
  <2>1. Steps(k) = {"idle"}
    BY <1>7 DEF Steps
  <2> QED BY <1>0, <2>1 DEF Ended, s
<1> QED BY <1>0, <1>1, <1>2, <1>3, <1>4, <1>5, <1>6, <1>7 DEF ReqKinds

\* One request is under way: what it counts on is what has to be shown.
LEMMA AloneKept ==
  ASSUME AppTyped, AppTyped', Alone, NEW p \in Reqs, OthersSame(p), req'[p].kind = req[p].kind, req[p].at \notin Ended,
         AccountsListed', Undisturbed(req[p])'
  PROVE  AloneInv'
<1>1. ReqsOk /\ ReqOk(req[p]) /\ req[p].kind # "none"
  <2>1. ReqsOk /\ ReqOk(req[p])
    BY DEF AppTyped, ReqsOk
  <2> QED BY <2>1, KindOf DEF Ended, ReqOk, Steps
<1>2. \A q \in Reqs \ {p} : req[q].kind = "none" /\ req'[q] = req[q] /\ ReqOk(req[q])
  BY <1>1 DEF Alone, OthersSame, ReqsOk
<1>3. Alone'
  BY <1>2 DEF Alone
<1>4. \A q \in Reqs : Undisturbed(req[q])'
  <2>1. ASSUME NEW q \in Reqs \ {p} PROVE Undisturbed(req[q])'
    <3>1. req'[q] = req[q] /\ req[q].kind = "none" /\ req[q].at \notin Rollback
      BY <1>2, <2>1 DEF ReqOk, Steps, Rollback
    <3> QED BY <3>1 DEF Undisturbed, Created
  <2> QED BY <2>1
<1> QED BY <1>3, <1>4 DEF AloneInv

\* A call that changes neither rows nor accounts: what the request counts on
\* at its next call it counted on already.
LEMMA UndisturbedCall ==
  ASSUME AppTyped, NEW p \in Reqs, Undisturbed(req[p]), UNCHANGED <<rows, sasl, domain, crashes>>,
         leftover \subseteq leftover', faults' \in Nat, faults <= faults', SameBut(req[p], req'[p]),
         req[p].at \in {"sync", "sync2", "reread", "limit", "limit2", "clear", "clear2", "readLimit", "get", "limits",
                        "mode", "ips", "mode2", "ips2"},
         \/ req'[p].at = After(req[p].kind, req[p].at)
         \/ req'[p].at = OnError(req[p].kind, req[p].at) /\ (faults' >= 1 \/ req[p].at \in {"get"})
  PROVE  Undisturbed(req[p])'
<1> DEFINE k == req[p].kind  s == req[p].at  t == req'[p].at
<1>0. ReqOk(req[p]) /\ k \in ReqKinds /\ s \in Steps(k) /\ faults \in Nat
  BY DEF AppTyped, ReqsOk, ReqOk, ReqType, Ended, TablesOk
<1>1. t \in Rollback /\ crashes = 0 => faults' >= 1
  <2>1. s \in Rollback /\ crashes = 0 => faults >= 1
    BY DEF Undisturbed, Created
  <2>2. After(k, s) \in Rollback => s \in Rollback
    BY <1>0, RollbackRoutes DEF Ended
  <2>3. s = "get" => OnError(k, s) \notin Rollback
    BY <1>0, RollbackRoutes DEF Ended, Rollback
  <2> QED BY <1>0, <2>1, <2>2, <2>3
<1>2. \A l : Away(l) => Away(l)'
  BY DEF Away
<1>3. CASE k = "create"
  <2>1. Steps("create") = {"add", "set", "sync", "ips", "limit", "get", "drop1", "unset1",
                    "clear2", "unset2", "drop2", "sync2"}
    BY DEF Steps
  <2>2. s \in {"sync", "sync2", "limit", "clear2", "get", "ips"}
    BY <1>0, <1>3, <2>1
  <2>3. t \in {"ips", "unset1", "err", "get", "clear2", "unset2", "limit", "ok"}
    BY <1>3, <2>2, CreateRoute
  <2>4. s = "sync2" => t = "err"
    BY <1>3, CreateRoute
  <2>5. req'[p].kind = k /\ req'[p].id = req[p].id /\ req'[p].login = req[p].login
    BY DEF SameBut
  <2> QED BY <1>1, <1>3, <2>1, <2>2, <2>3, <2>4, <2>5 DEF Undisturbed, Created
<1>4. CASE k = "save"
  <2>1. req'[p].kind = k /\ req'[p].id = req[p].id /\ req'[p].before = req[p].before
    BY DEF SameBut
  <2> QED BY <1>1, <1>4, <2>1 DEF Undisturbed, Created
<1>5. CASE k = "delete"
  <2>1. s \in {"clear", "sync"}
    BY <1>0, <1>5 DEF Steps
  <2>2. t \in {"sync", "ok", "err"} /\ req'[p].kind = k
    BY <1>5, <2>1, OtherRoutes DEF SameBut
  <2> QED BY <1>1, <1>5, <2>2 DEF Undisturbed, Created
<1>6. CASE k = "delDomain"
  <2>1. s \in {"limits", "sync"}
    BY <1>0, <1>6 DEF Steps
  <2>2. t \in {"dropDomain", "ok", "err"} /\ (t = "dropDomain" => s = "limits") /\ req'[p].kind = k
    BY <1>6, <2>1, OtherRoutes DEF SameBut
  <2> QED BY <1>1, <1>2, <1>6, <2>1, <2>2 DEF Undisturbed, Created
<1>7. CASE k = "reload" \/ k = "regen" \/ k = "none"
  <2>1. t # "set" \/ k # "regen"
    BY <1>0 DEF Steps
  <2>2. req'[p].kind = k
    BY DEF SameBut
  <2> QED BY <1>1, <1>7, <2>1, <2>2 DEF Undisturbed, Created
<1> QED BY <1>0, <1>3, <1>4, <1>5, <1>6, <1>7 DEF ReqKinds

LEMMA AddAlone ==
  ASSUME AppTyped, IdsGiven, Alone, AccountsListed, NEW p \in Reqs, Undisturbed(req[p]), AddApplication(p)
  PROVE  AloneInv'
<1>0. /\ req[p].at = "add" /\ req[p].kind = "create" /\ UNCHANGED <<saslVars, mapVars, domain, limits>> /\ TablesOk
      /\ AppTyped'
  BY AddMoves, AddTyped DEF AppTyped
<1>1. CASE /\ UNCHANGED <<rows, lastId>> /\ req'[p].at = "err" /\ req'[p].kind = "create" /\ leftover \subseteq leftover'
           /\ OthersSame(p)
  <2>1. AccountsListed'
    BY <1>0, <1>1 DEF AccountsListed, Listed, saslVars
  <2>2. Undisturbed(req[p])'
    BY <1>1 DEF Undisturbed, Created, Rollback
  <2> QED BY <1>0, <1>1, <2>1, <2>2, AloneKept DEF Ended
<1>2. CASE \E n \in Ids, row \in Row :
                 /\ domain /\ \A i \in Ids : rows[i] # None => rows[i].login # req[p].login
                 /\ n = lastId + 1 /\ lastId' = n /\ rows' = [rows EXCEPT ![n] = row] /\ row.login = req[p].login
                 /\ req'[p].at = "set" /\ req'[p].phase = "out" /\ req'[p].id = n /\ req'[p].kind = "create"
                 /\ req'[p].login = req[p].login /\ OthersSame(p) /\ UNCHANGED <<history, bounds>>
  <2>1. PICK n \in Ids, row \in Row :
                 /\ \A i \in Ids : rows[i] # None => rows[i].login # req[p].login
                 /\ n = lastId + 1 /\ rows' = [rows EXCEPT ![n] = row] /\ row.login = req[p].login
                 /\ req'[p].at = "set" /\ req'[p].id = n /\ req'[p].kind = "create"
                 /\ req'[p].login = req[p].login /\ OthersSame(p) /\ UNCHANGED <<history, bounds>>
    BY <1>2
  <2>2. rows'[n] = row /\ row # None /\ \A i \in Ids : rows[i] # None => rows'[i] = rows[i]
    <3>1. rows[n] = None
      BY <1>0, <2>1 DEF IdsGiven, TablesOk, Ids
    <3> QED BY <1>0, <2>1, <3>1, NoneIsNoRow DEF TablesOk
  <2>3. AccountsListed'
    BY <1>0, <2>1, <2>2 DEF AccountsListed, Listed, saslVars, history
  <2>4. Away(req[p].login)
    <3>1. req[p].login \in Logins /\ ~ Listed(req[p].login)
      BY <1>0, <2>1 DEF Listed, AppTyped, ReqsOk, ReqOk
    <3> QED BY <3>1 DEF AccountsListed, Away
  <2>5. Away(req[p].login)'
    BY <1>0, <2>1, <2>4 DEF Away, saslVars, history
  <2>6. Undisturbed(req[p])'
    BY <2>1, <2>2, <2>5 DEF Undisturbed, Created, Rollback
  <2> QED BY <1>0, <2>1, <2>3, <2>6, AloneKept DEF Ended
<1> QED BY <1>1, <1>2, AddMoves

\* What every call gives, failed or not.
LEMMA CallFacts ==
  ASSUME AppTyped, NEW p \in Reqs, req[p].at \notin Ended,
         \/ Succeed(p) /\ req[p].at # "add" /\ UNCHANGED bounds
         \/ Fail(p) /\ UNCHANGED bounds
         \/ Fault(p)
  PROVE  /\ OthersSame(p) /\ SameBut(req[p], req'[p]) /\ leftover \subseteq leftover' /\ faults' \in Nat /\ faults <= faults'
         /\ leftover' \subseteq leftover \cup {req[p].login} /\ UNCHANGED <<crashes, met>>
         /\ \/ req'[p].at = After(req[p].kind, req[p].at) /\ Succeed(p) /\ leftover' = leftover
            \/ /\ req'[p].at = OnError(req[p].kind, req[p].at) /\ Fail(p)
               /\ faults' >= 1 \/ (UNCHANGED bounds /\ ~ Fault(p))
               /\ req[p].at \in {"unset1", "unset2"} => req[p].login \in leftover'
               /\ req[p].at \notin {"unset1", "unset2"} => leftover' = leftover
         /\ drift' = (drift \/ req'[p].at = "err")
<1>0. ReqsOk /\ TablesOk
  BY DEF AppTyped
<1>1. CASE Succeed(p) /\ req[p].at # "add" /\ UNCHANGED bounds
  BY <1>0, <1>1, SucceedMoves DEF bounds, TablesOk
<1>2. ASSUME Fail(p)
      PROVE  /\ OthersSame(p) /\ SameBut(req[p], req'[p]) /\ leftover \subseteq leftover'
             /\ leftover' \subseteq leftover \cup {req[p].login} /\ drift' = (drift \/ req'[p].at = "err")
             /\ req'[p].at = OnError(req[p].kind, req[p].at)
             /\ req[p].at \in {"unset1", "unset2"} => req[p].login \in leftover'
             /\ req[p].at \notin {"unset1", "unset2"} => leftover' = leftover
  BY <1>0, <1>2, FailMoves DEF Fail
<1>3. CASE Fail(p) /\ UNCHANGED bounds /\ ~ Fault(p)
  BY <1>0, <1>2, <1>3 DEF bounds, TablesOk
<1>4. CASE Fault(p)
  BY <1>0, <1>2, <1>4, FaultMoves DEF TablesOk
<1> QED BY <1>1, <1>3, <1>4

LEMMA DeleteAlone ==
  ASSUME AppTyped, Alone, AccountsListed, NEW p \in Reqs, Undisturbed(req[p]), DeleteApplication(p)
  PROVE  AloneInv'
<1> DEFINE i == req[p].id  l == req[p].login  s == req[p].at  t == req'[p].at  k == req[p].kind
<1>0. /\ s \in {"drop", "drop1", "drop2"} /\ UNCHANGED <<saslVars, mapVars, domain, lastId, limits>> /\ TablesOk
      /\ AppTyped' /\ ReqOk(req[p]) /\ s \notin Ended
  BY DeleteTyped DEF DeleteApplication, At, AppTyped, registry, ReqsOk, Ended
<1>1. k \in {"create", "delete"} /\ (s = "drop" <=> k = "delete")
  BY <1>0, KindOf
<1>2. i \in Ids /\ rows[i] # None /\ rows[i].login = l /\ Away(l) /\ l \in Logins
  <2>1. i \in Ids /\ l \in Logins
    BY <1>0, <1>1 DEF ReqOk, Ended
  <2> QED BY <1>0, <1>1, <2>1 DEF Undisturbed, Created
<1>3. \/ rows' = [rows EXCEPT ![i] = None] /\ Succeed(p) /\ UNCHANGED bounds
      \/ rows' = rows /\ Fault(p)
  BY <1>2 DEF DeleteApplication, registry
<1>4. /\ OthersSame(p) /\ SameBut(req[p], req'[p]) /\ leftover' = leftover /\ faults' \in Nat /\ faults <= faults'
      /\ UNCHANGED crashes /\ (t = After(k, s) \/ (t = OnError(k, s) /\ faults' >= 1 /\ rows' = rows))
  <2>1. (Succeed(p) /\ UNCHANGED bounds) \/ Fault(p)
    BY <1>3
  <2>2. /\ OthersSame(p) /\ SameBut(req[p], req'[p]) /\ leftover' = leftover /\ faults' \in Nat /\ faults <= faults'
        /\ UNCHANGED crashes
    BY <1>0, <2>1, CallFacts
  <2>3. CASE Succeed(p) /\ UNCHANGED bounds
    BY <1>0, <2>2, <2>3, SucceedMoves DEF AppTyped
  <2>4. CASE rows' = rows /\ Fault(p)
    <3>1. Fail(p) /\ faults' = faults + 1
      BY <2>4 DEF Fault
    <3> QED BY <1>0, <2>2, <2>4, <3>1, FailMoves DEF AppTyped, TablesOk
  <2> QED BY <1>3, <2>3, <2>4
<1>5. t \in {"err", "sync2", "clear"} /\ (t = "sync2" => s = "drop2") /\ (t = "clear" => k = "delete")
  BY <1>0, <1>1, <1>4, CreateRoute, OtherRoutes
<1>6. Undisturbed(req[p])'
  <2>1. req'[p].kind \in {"create", "delete"}
    BY <1>1, <1>4 DEF SameBut
  <2>2. t \in Rollback /\ crashes' = 0 => faults' >= 1
    <3>1. t = "sync2" /\ crashes = 0 => faults >= 1
      BY <1>5 DEF Undisturbed, Rollback
    <3> QED BY <1>0, <1>4, <1>5, <3>1 DEF Rollback, TablesOk
  <2> QED BY <1>5, <2>1, <2>2 DEF Undisturbed, Created
<1>7. AccountsListed'
  <2>1. ASSUME NEW m \in Logins, sasl'[m] # None
        PROVE  (\E j \in Ids : rows'[j] # None /\ rows'[j].login = m) \/ m \in leftover'
    <3>1. sasl[m] # None /\ (Listed(m) \/ m \in leftover)
      BY <1>0, <2>1 DEF AccountsListed, saslVars
    <3>2. CASE m = l
      BY <1>2, <1>4, <3>1, <3>2 DEF Away
    <3>3. CASE m # l
      BY <1>0, <1>2, <1>3, <1>4, <3>1, <3>3 DEF Listed, TablesOk
    <3> QED BY <3>2, <3>3
  <2> QED BY <2>1 DEF AccountsListed, Listed
<1> QED BY <1>0, <1>4, <1>6, <1>7, AloneKept DEF SameBut

LEMMA UpdateAlone ==
  ASSUME AppTyped, Alone, AccountsListed, NEW p \in Reqs, Undisturbed(req[p]), UpdateApplication(p)
  PROVE  AloneInv'
<1> DEFINE i == req[p].id  s == req[p].at  t == req'[p].at  k == req[p].kind
<1>0. /\ s \in {"mode", "ips", "mode2", "ips2"} /\ UNCHANGED <<saslVars, mapVars, domain, lastId, limits>> /\ TablesOk
      /\ AppTyped' /\ ReqOk(req[p]) /\ s \notin Ended /\ ReqsOk
  BY UpdateTyped DEF UpdateApplication, At, AppTyped, registry, ReqsOk, Ended
<1>1. k \in {"create", "save"} /\ (k = "create" => s = "ips")
  BY <1>0, KindOf
<1>2. i \in Ids /\ rows[i] # None
  <2>1. i \in Ids
    BY <1>0, <1>1 DEF ReqOk, Ended
  <2> QED BY <1>1, <2>1 DEF Undisturbed, Created
<1>3. \/ rows' = [rows EXCEPT ![i] = Updated(p)] /\ Succeed(p) /\ UNCHANGED bounds
      \/ rows' = rows /\ Fault(p)
  BY <1>2 DEF UpdateApplication, registry
<1>3a. Updated(p) \in Row /\ Updated(p).login = rows[i].login
  BY <1>0, <1>2, UpdatedRow
<1>3b. \A j \in Ids : (rows'[j] # None <=> rows[j] # None) /\ (rows[j] # None => rows'[j].login = rows[j].login)
  BY <1>0, <1>2, <1>3, <1>3a, NoneIsNoRow DEF TablesOk
<1>4. /\ OthersSame(p) /\ SameBut(req[p], req'[p]) /\ leftover' = leftover /\ faults' \in Nat /\ faults <= faults'
      /\ UNCHANGED crashes /\ (t = After(k, s) \/ (t = OnError(k, s) /\ faults' >= 1))
  <2>1. (Succeed(p) /\ UNCHANGED bounds) \/ Fault(p)
    BY <1>3
  <2>2. /\ OthersSame(p) /\ SameBut(req[p], req'[p]) /\ leftover' = leftover /\ faults' \in Nat /\ faults <= faults'
        /\ UNCHANGED crashes
    BY <1>0, <2>1, CallFacts
  <2>3. CASE Succeed(p) /\ UNCHANGED bounds
    BY <1>0, <2>2, <2>3, SucceedMoves
  <2>4. CASE Fault(p)
    <3>1. Fail(p) /\ faults' = faults + 1
      BY <2>4 DEF Fault
    <3> QED BY <1>0, <2>2, <2>4, <3>1, FailMoves DEF TablesOk
  <2> QED BY <1>3, <2>3, <2>4
<1>5. Undisturbed(req[p])'
  <2>1. /\ req'[p].kind = k /\ req'[p].id = i /\ req'[p].before = req[p].before /\ req'[p].login = req[p].login
    BY <1>4 DEF SameBut
  <2>2. t \in Rollback /\ crashes' = 0 => faults' >= 1
    <3>1. s \in Rollback /\ crashes = 0 => faults >= 1
      BY DEF Undisturbed, Created
    <3>2. After(k, s) \in Rollback => s \in Rollback
      BY <1>0, RollbackRoutes
    <3> QED BY <1>0, <1>4, <3>1, <3>2 DEF TablesOk
  <2>3. CASE k = "create"
    <3>1. t \in {"limit", "clear2"}
      BY <1>1, <1>4, <2>3, CreateRoute
    <3>2. rows[i].login = req[p].login
      BY <1>1, <2>3 DEF Undisturbed, Created
    <3> QED BY <1>2, <1>3b, <2>1, <2>2, <2>3, <3>1, <3>2 DEF Undisturbed, Created
  <2>4. CASE k = "save"
    <3>1. rows[i].login = req[p].before.login
      BY <2>4 DEF Undisturbed, Created
    <3> QED BY <1>2, <1>3b, <2>1, <2>2, <2>4, <3>1 DEF Undisturbed, Created
  <2> QED BY <1>1, <2>3, <2>4
<1>6. AccountsListed'
  BY <1>0, <1>3b, <1>4 DEF AccountsListed, Listed, saslVars
<1> QED BY <1>0, <1>4, <1>5, <1>6, AloneKept DEF SameBut

\* The calls that leave rows and accounts alone.
LEMMA StillCallAlone ==
  ASSUME AppTyped, AppTyped', Alone, AccountsListed, NEW p \in Reqs, Undisturbed(req[p]),
         UNCHANGED <<rows, sasl, domain>>,
         req[p].at \in {"sync", "sync2", "reread", "limit", "limit2", "clear", "clear2", "readLimit", "get", "limits"},
         \/ Succeed(p) /\ UNCHANGED bounds
         \/ Fault(p)
  PROVE  AloneInv'
<1>0. req[p].at \notin Ended \cup {"add"} /\ ReqsOk /\ TablesOk
  BY DEF Ended, AppTyped
<1>1. /\ OthersSame(p) /\ SameBut(req[p], req'[p]) /\ leftover' = leftover /\ faults' \in Nat /\ faults <= faults'
      /\ UNCHANGED crashes
  BY <1>0, CallFacts
<1>2. \/ req'[p].at = After(req[p].kind, req[p].at)
      \/ req'[p].at = OnError(req[p].kind, req[p].at) /\ faults' >= 1
  <2>1. CASE Succeed(p) /\ UNCHANGED bounds
    BY <1>0, <2>1, SucceedMoves
  <2>2. CASE Fault(p)
    <3>1. Fail(p) /\ faults' = faults + 1
      BY <2>2 DEF Fault
    <3> QED BY <1>0, <3>1, FailMoves DEF TablesOk
  <2> QED BY <2>1, <2>2
<1>3. Undisturbed(req[p])'
  BY <1>1, <1>2, UndisturbedCall
<1>4. AccountsListed'
  BY <1>1 DEF AccountsListed, Listed
<1> QED BY <1>0, <1>1, <1>3, <1>4, AloneKept DEF SameBut

\* Rows, accounts and the domain stay for every call but these.
LEMMA StillCallsAlone ==
  ASSUME AppTyped, Alone, AccountsListed, NEW p \in Reqs, Undisturbed(req[p]),
         \/ SaveRateLimit(p) \/ GetApplication(p) \/ DeleteRateLimitsForDomain(p) \/ ResyncReload(p)
         \/ ResyncFails(p) \/ ReloadPostfix(p)
  PROVE  AloneInv'
<1>0. AppTyped' /\ req[p] \in ReqType /\ ReqOk(req[p]) /\ TablesOk
  BY LimitTyped, GetTyped, DomainTyped, ResyncReloadTyped, ResyncFailsTyped, RereadTyped DEF AppTyped, ReqsOk
<1>1. CASE SaveRateLimit(p)
  <2>1. /\ UNCHANGED <<rows, sasl, domain>> /\ req[p].at \in {"limit", "limit2", "clear", "clear2"}
        /\ (Succeed(p) /\ UNCHANGED bounds) \/ Fault(p)
    BY <1>1 DEF SaveRateLimit, At, saslVars
  <2> QED BY <1>0, <2>1, StillCallAlone
<1>2. CASE GetApplication(p)
  <2>1. req[p].at = "get" /\ UNCHANGED <<rows, sasl, domain>>
    BY <1>2 DEF GetApplication, At, saslVars, registry
  <2>2. rows[req[p].id] # None
    <3>1. req[p].kind = "create"
      BY <1>0, <2>1, KindOf
    <3> QED BY <2>1, <3>1 DEF Undisturbed, Created
  <2>3. (Succeed(p) /\ UNCHANGED bounds) \/ Fault(p)
    BY <1>2, <2>2 DEF GetApplication
  <2> QED BY <1>0, <2>1, <2>3, StillCallAlone
<1>3. CASE DeleteRateLimitsForDomain(p)
  <2>1. /\ UNCHANGED <<rows, sasl, domain>> /\ req[p].at = "limits"
        /\ (Succeed(p) /\ UNCHANGED bounds) \/ Fault(p)
    BY <1>3 DEF DeleteRateLimitsForDomain, At, saslVars
  <2> QED BY <1>0, <2>1, StillCallAlone
<1>4. CASE ResyncReload(p)
  <2>1. UNCHANGED <<rows, sasl, domain>> /\ req[p].phase = "written" /\ Succeed(p) /\ UNCHANGED bounds
    BY <1>4 DEF ResyncReload, saslVars, registry
  <2>2. req[p].at \in {"sync", "sync2"}
    BY <2>1, ResyncHolder DEF SyncSteps
  <2> QED BY <1>0, <2>1, <2>2, StillCallAlone
<1>5. CASE ResyncFails(p)
  <2>1. UNCHANGED <<rows, sasl, domain>> /\ req[p].phase \in {"listed", "written"} /\ Fault(p)
    BY <1>5 DEF ResyncFails, saslVars, registry
  <2>2. req[p].at \in {"sync", "sync2"}
    BY <2>1, ResyncHolder DEF SyncSteps
  <2> QED BY <1>0, <2>1, <2>2, StillCallAlone
<1>6. CASE ReloadPostfix(p)
  <2>1. /\ UNCHANGED <<rows, sasl, domain>> /\ req[p].at = "reread"
        /\ (Succeed(p) /\ UNCHANGED bounds) \/ Fault(p)
    BY <1>6 DEF ReloadPostfix, At, saslVars, registry
  <2> QED BY <1>0, <2>1, StillCallAlone
<1> QED BY <1>1, <1>2, <1>3, <1>4, <1>5, <1>6

LEMMA ReadLimitAlone ==
  ASSUME AppTyped, Alone, AccountsListed, NEW p \in Reqs, Undisturbed(req[p]), ReadLimit(p)
  PROVE  AloneInv'
<1>0. /\ req[p].at = "readLimit" /\ UNCHANGED <<registry, saslVars, mapVars>> /\ AppTyped' /\ ReqOk(req[p])
      /\ req[p] \in ReqType /\ ReqsOk
  BY ReadLimitTyped DEF ReadLimit, At, AppTyped, ReqsOk
<1>1. CASE Fault(p)
  <2>1. UNCHANGED <<rows, sasl, domain>>
    BY <1>0 DEF registry, saslVars
  <2> QED BY <1>0, <1>1, <2>1, StillCallAlone
<1>2. CASE ~ Fault(p)
  <2> DEFINE x == limits[req[p].id]
             d == [req[p] EXCEPT !.at = "mode", !.limitBefore = x]
  <2>1. req' = [req EXCEPT ![p] = d] /\ UNCHANGED <<history, bounds>>
    BY <1>2 DEF ReadLimit
  <2> HIDE DEF x
  <2>2. d.at = "mode" /\ d.id = req[p].id /\ d.kind = req[p].kind /\ d.before = req[p].before
    BY <1>0 DEF ReqType
  <2> HIDE DEF d
  <2>3. req'[p] = d /\ OthersSame(p)
    BY <1>0, <2>1 DEF OthersSame, ReqsOk
  <2>4. req[p].kind = "save"
    BY <1>0, KindOf
  <2>5. Undisturbed(req[p])'
    BY <1>0, <2>2, <2>3, <2>4 DEF Undisturbed, Created, Rollback, registry
  <2>6. AccountsListed'
    BY <1>0, <2>1 DEF AccountsListed, Listed, registry, saslVars, history
  <2> QED BY <1>0, <2>2, <2>3, <2>5, <2>6, AloneKept DEF Ended
<1> QED BY <1>1, <1>2

LEMMA DeleteDomainAlone ==
  ASSUME AppTyped, Alone, AccountsListed, NEW p \in Reqs, Undisturbed(req[p]), DeleteDomain(p)
  PROVE  AloneInv'
<1>0. /\ req[p].at = "dropDomain" /\ req[p].kind = "delDomain" /\ UNCHANGED <<saslVars, limits, lastId>>
      /\ AppTyped' /\ ReqOk(req[p]) /\ ReqsOk /\ TablesOk
  <2>1. /\ req[p].at = "dropDomain" /\ UNCHANGED <<saslVars, limits, lastId>> /\ AppTyped' /\ ReqOk(req[p]) /\ ReqsOk /\ TablesOk
    BY DomainTyped DEF DeleteDomain, At, AppTyped, ReqsOk
  <2> QED BY <2>1, KindOf
<1>1. domain /\ \A i \in Ids : rows[i] # None => Away(rows[i].login)
  BY <1>0 DEF Undisturbed
<1>2. \/ rows' = [i \in Ids |-> None] /\ Succeed(p) /\ UNCHANGED bounds
      \/ rows' = rows /\ Fault(p)
  BY <1>1 DEF DeleteDomain
<1>3. /\ OthersSame(p) /\ SameBut(req[p], req'[p]) /\ leftover' = leftover /\ faults' \in Nat /\ faults <= faults'
      /\ UNCHANGED crashes
  BY <1>0, <1>2, CallFacts DEF Ended
<1>4. req'[p].at \in {"sync", "err"}
  <2>1. CASE Succeed(p)
    BY <1>0, <2>1, SucceedMoves, OtherRoutes DEF Ended
  <2>2. CASE Fault(p)
    <3>1. Fail(p)
      BY <2>2 DEF Fault
    <3> QED BY <1>0, <3>1, FailMoves, OtherRoutes DEF Ended
  <2> QED BY <1>2, <2>1, <2>2
<1>5. Undisturbed(req[p])'
  BY <1>0, <1>3, <1>4 DEF Undisturbed, Created, Rollback, SameBut
<1>6. AccountsListed'
  <2>1. ASSUME NEW l \in Logins, sasl'[l] # None
        PROVE  (\E j \in Ids : rows'[j] # None /\ rows'[j].login = l) \/ l \in leftover'
    <3>1. sasl[l] # None /\ (Listed(l) \/ l \in leftover)
      BY <1>0, <2>1 DEF AccountsListed, saslVars
    <3>2. Listed(l) => l \in leftover
      BY <1>1, <3>1 DEF Listed, Away
    <3> QED BY <1>3, <3>1, <3>2
  <2> QED BY <2>1 DEF AccountsListed, Listed
<1> QED BY <1>0, <1>3, <1>5, <1>6, AloneKept DEF SameBut, Ended

\* A request keeps its place in a locked section.
LEMMA SameKept ==
  ASSUME AppTyped, AppTyped', Alone, AccountsListed, NEW p \in Reqs, Undisturbed(req[p]), req[p].at \notin Ended,
         OthersSame(p), req'[p].at = req[p].at,
         req'[p].kind = req[p].kind, req'[p].id = req[p].id, req'[p].login = req[p].login,
         req'[p].before = req[p].before, req'[p].todo = req[p].todo,
         UNCHANGED <<rows, sasl, domain, leftover, crashes, faults>>
  PROVE  AloneInv'
<1>1. Undisturbed(req[p])'
  BY DEF Undisturbed, Away
<1>2. AccountsListed'
  BY DEF AccountsListed, Listed
<1> QED BY <1>1, <1>2, AloneKept

LEMMA SectionsAlone ==
  ASSUME AppTyped, Alone, AccountsListed, NEW p \in Reqs, Undisturbed(req[p]),
         SaslCopy(p) \/ ResyncList(p) \/ ResyncWrite(p)
  PROVE  AloneInv'
<1>0. AppTyped'
  BY SaslCopyTyped, ResyncListTyped, ResyncWriteTyped
<1>1. CASE SaslCopy(p)
  <2>1. OthersSame(p) /\ req'[p].at = req[p].at /\ SameBut(req[p], req'[p])
    BY <1>1, SaslCopyTyped
  <2>2. /\ UNCHANGED <<rows, sasl, domain, leftover, crashes, faults>> /\ req[p].at \notin Ended
    BY <1>1 DEF SaslCopy, At, registry, history, bounds, SaslSteps, Ended
  <2> QED BY <1>0, <2>1, <2>2, SameKept DEF SameBut
<1>2. CASE ResyncList(p)
  <2>1. /\ OthersSame(p) /\ req'[p].at = req[p].at /\ req'[p].kind = req[p].kind /\ req'[p].id = req[p].id
        /\ req'[p].login = req[p].login /\ req'[p].before = req[p].before /\ req'[p].todo = req[p].todo
        /\ req[p].at \notin Ended
    BY <1>2, ResyncListMoves DEF SyncSteps, Ended
  <2>2. UNCHANGED <<rows, sasl, domain, leftover, crashes, faults>>
    BY <1>2 DEF ResyncList, registry, saslVars, bounds
  <2> QED BY <1>0, <2>1, <2>2, SameKept
<1>3. CASE ResyncWrite(p)
  <2>0. /\ req[p].phase = "listed" /\ UNCHANGED <<rows, sasl, domain, bounds>>
    BY <1>3 DEF ResyncWrite, registry, saslVars
  <2>1. req[p].at \in {"sync", "sync2"} /\ req[p].at \notin Ended
    BY <2>0, ResyncHolder DEF SyncSteps
  <2>2. CASE Succeed(p)
    BY <1>0, <2>0, <2>1, <2>2, StillCallAlone
  <2>3. CASE req'[p].at = req[p].at /\ UNCHANGED history
    <3>1. OthersSame(p) /\ SameBut(req[p], req'[p])
      BY <1>3, ResyncWriteTyped
    <3> QED BY <1>0, <2>0, <2>1, <2>3, <3>1, SameKept DEF SameBut, history, bounds
  <2> QED BY <1>3, <2>2, <2>3, ResyncWriteTyped
<1> QED BY <1>1, <1>2, <1>3

LEMMA PurgedAlone ==
  ASSUME AppTyped, Alone, AccountsListed, NEW p \in Reqs, Undisturbed(req[p]), Purged(p)
  PROVE  AloneInv'
<1>0. /\ AppTyped' /\ req'[p].at = "limits" /\ SameBut(req[p], req'[p]) /\ OthersSame(p)
      /\ req[p].at = "purge" /\ req[p].todo = {} /\ UNCHANGED <<registry, saslVars, mapVars, bounds, history>> /\ ReqOk(req[p])
  BY PurgedTyped DEF Purged, At, AppTyped, ReqsOk
<1>1. req[p].kind = "delDomain"
  BY <1>0, KindOf
<1>2. domain /\ \A i \in Ids : rows[i] # None => Away(rows[i].login)
  BY <1>0, <1>1 DEF Undisturbed
<1>3. Undisturbed(req[p])'
  BY <1>0, <1>1, <1>2 DEF Undisturbed, Away, Created, Rollback, SameBut, registry, saslVars, history
<1>4. AccountsListed'
  BY <1>0 DEF AccountsListed, Listed, registry, saslVars, history
<1> QED BY <1>0, <1>3, <1>4, AloneKept DEF SameBut, Ended

LEMMA SaslFailsAlone ==
  ASSUME AppTyped, Alone, AccountsListed, NEW p \in Reqs, Undisturbed(req[p]), SaslFails(p)
  PROVE  AloneInv'
<1> DEFINE l == req[p].login  s == req[p].at  t == req'[p].at  k == req[p].kind
<1>0. /\ AppTyped' /\ s \in SaslSteps \cup {"purge"} /\ Fault(p) /\ UNCHANGED <<registry, sasl>> /\ ReqOk(req[p])
      /\ ReqsOk /\ TablesOk /\ s \notin Ended
  <2>1. /\ AppTyped' /\ Fault(p) /\ UNCHANGED <<registry, sasl>> /\ ReqOk(req[p]) /\ ReqsOk /\ TablesOk /\ req[p].phase = "copied"
    BY SaslFailsTyped DEF SaslFails, AppTyped, ReqsOk
  <2> QED BY <2>1 DEF ReqOk, SaslSteps, Ended
<1>1. Fail(p) /\ faults' = faults + 1
  BY <1>0 DEF Fault
<1>2. /\ OthersSame(p) /\ SameBut(req[p], req'[p]) /\ leftover \subseteq leftover' /\ t = OnError(k, s)
      /\ s \in {"unset1", "unset2"} => l \in leftover'
  BY <1>0, <1>1, FailMoves
<1>3. faults' >= 1
  BY <1>0, <1>1 DEF TablesOk
<1>4. Undisturbed(req[p])'
  <2>1. CASE k = "create"
    <3>1. s \in {"set", "unset1", "unset2"} /\ t \in {"drop1", "drop2"}
      <4>1. s \in {"set", "unset1", "unset2"}
        BY <1>0, <2>1, KindOf DEF SaslSteps
      <4> QED BY <1>2, <2>1, <4>1, CreateRoute
    <3>2. rows[req[p].id] # None /\ rows[req[p].id].login = l
      BY <2>1, <3>1 DEF Undisturbed, Created
    <3>3. Away(l)'
      <4>1. CASE s = "set"
        <5>1. Away(l)
          BY <2>1, <4>1 DEF Undisturbed
        <5> QED BY <1>0, <1>2, <5>1 DEF Away, SameBut
      <4>2. CASE s # "set"
        BY <1>2, <3>1, <4>2 DEF Away, SameBut
      <4> QED BY <4>1, <4>2
    <3> QED BY <1>0, <1>2, <1>3, <2>1, <3>1, <3>2, <3>3 DEF Undisturbed, Created, SameBut, registry
  <2>2. CASE k # "create"
    <3>1. k \in {"regen", "delete", "delDomain"}
      BY <1>0, <2>2, KindOf DEF SaslSteps
    <3>2. t = "err"
      BY <1>2, <3>1, OtherRoutes
    <3> QED BY <1>2, <3>1, <3>2 DEF Undisturbed, Created, Rollback, SameBut
  <2> QED BY <2>1, <2>2
<1>5. AccountsListed'
  BY <1>0, <1>2 DEF AccountsListed, Listed, registry
<1> QED BY <1>0, <1>2, <1>4, <1>5, AloneKept DEF SameBut

LEMMA SaslRenameAlone ==
  ASSUME AppTyped, Alone, AccountsListed, NEW p \in Reqs, Undisturbed(req[p]), SaslRename(p)
  PROVE  AloneInv'
<1> DEFINE s == req[p].at  t == req'[p].at  k == req[p].kind  i == req[p].id
<1>0. /\ AppTyped' /\ UNCHANGED <<registry, bounds>> /\ ReqOk(req[p]) /\ req[p] \in ReqType /\ TablesOk
  BY SaslRenameTyped DEF SaslRename, AppTyped, ReqsOk
<1>1. OthersSame(p) /\ s \in SaslSteps \cup {"purge"} /\ s \notin Ended
  BY SaslRenameMoves DEF SaslSteps, Ended
<1>2. PICK l \in Logins, pw \in Passwords \cup {None} :
        /\ sasl' = [sasl EXCEPT ![l] = pw] /\ leftover' = leftover \ {l}
        /\ s = "set" => pw = req[p].password /\ pw # None
        /\ s # "set" => pw = None
        /\ \/ s # "purge" /\ l = req[p].login /\ SameBut(req[p], req'[p]) /\ t = After(k, s)
           \/ s = "purge" /\ l \in req[p].todo /\ req'[p] = [req[p] EXCEPT !.phase = "out", !.todo = @ \ {l}]
  BY SaslRenameMoves
<1>3. sasl'[l] = pw /\ \A m \in Logins \ {l} : sasl'[m] = sasl[m] /\ (m \in leftover' <=> m \in leftover)
  BY <1>0, <1>2 DEF TablesOk
<1>4. rows' = rows /\ domain' = domain /\ faults' = faults /\ crashes' = crashes
  BY <1>0 DEF registry, bounds
<1>5. s = "set" => rows[i] # None /\ rows[i].login = l /\ i \in Ids
  <2>1. s = "set" => k \in {"create", "regen"} /\ s \notin Ended \cup {"add"}
    BY <1>0, KindOf DEF Ended
  <2> QED BY <1>0, <1>2, <2>1 DEF Undisturbed, Created, ReqOk
<1>6. AccountsListed'
  <2>1. ASSUME NEW m \in Logins, sasl'[m] # None
        PROVE  (\E j \in Ids : rows'[j] # None /\ rows'[j].login = m) \/ m \in leftover'
    <3>1. CASE m = l
      BY <1>2, <1>3, <1>4, <1>5, <2>1, <3>1
    <3>2. CASE m # l
      BY <1>3, <1>4, <2>1, <3>2 DEF AccountsListed, Listed
    <3> QED BY <3>1, <3>2
  <2> QED BY <2>1 DEF AccountsListed, Listed
<1>7. Undisturbed(req[p])'
  <2>1. CASE k = "create"
    <3>1. s \in {"set", "unset1", "unset2"}
      BY <1>0, <1>1, <2>1, KindOf DEF SaslSteps
    <3>2. /\ l = req[p].login /\ SameBut(req[p], req'[p]) /\ t = After(k, s)
          /\ rows[i] # None /\ rows[i].login = l
      BY <1>2, <2>1, <3>1 DEF Undisturbed, Created
    <3>3. t \in {"sync", "drop1", "drop2"} /\ (t = "sync" <=> s = "set")
      BY <2>1, <3>1, <3>2, CreateRoute
    <3>4. t \in {"drop1", "drop2"} => Away(l)'
      BY <1>2, <1>3, <3>3 DEF Away
    <3>5. t \in Rollback /\ crashes' = 0 => faults' >= 1
      BY <1>4, <3>1, <3>3 DEF Undisturbed, Rollback
    <3> QED BY <1>4, <2>1, <3>2, <3>3, <3>4, <3>5 DEF Undisturbed, Created, SameBut
  <2>2. CASE k = "delete"
    <3>1. s = "unset"
      BY <1>0, <1>1, <2>2, KindOf DEF SaslSteps
    <3>2. /\ l = req[p].login /\ SameBut(req[p], req'[p]) /\ t = "drop" /\ rows[i] # None /\ rows[i].login = l
      BY <1>2, <2>2, <3>1, OtherRoutes DEF Undisturbed, Created
    <3>3. Away(l)'
      BY <1>2, <1>3, <3>1 DEF Away
    <3> QED BY <1>4, <2>2, <3>2, <3>3 DEF Undisturbed, Created, Rollback, SameBut
  <2>3. CASE k = "regen"
    <3>1. s = "set"
      BY <1>0, <1>1, <2>3, KindOf DEF SaslSteps
    <3>2. SameBut(req[p], req'[p]) /\ t = "ok"
      BY <1>2, <2>3, <3>1, OtherRoutes
    <3> QED BY <2>3, <3>2 DEF Undisturbed, Created, Rollback, SameBut
  <2>4. CASE k = "delDomain"
    <3>1. s = "purge"
      BY <1>0, <1>1, <2>4, KindOf DEF SaslSteps
    <3>2. t = "purge" /\ req'[p].kind = k /\ req'[p].todo = req[p].todo \ {l} /\ pw = None
      BY <1>0, <1>2, <3>1 DEF ReqType
    <3>3. domain /\ \A j \in Ids : rows[j] # None => Away(rows[j].login) \/ rows[j].login \in req[p].todo
      BY <2>4, <3>1 DEF Undisturbed
    <3>4. ASSUME NEW j \in Ids, rows[j] # None
          PROVE  Away(rows[j].login)' \/ rows[j].login \in req'[p].todo
      <4>1. rows[j].login \in Logins
        BY <1>0, <3>4 DEF TablesOk, Row
      <4>2. CASE rows[j].login = l
        BY <1>3, <1>4, <3>2, <4>2 DEF Away
      <4>3. CASE rows[j].login # l
        BY <1>3, <1>4, <3>2, <3>3, <3>4, <4>1, <4>3 DEF Away
      <4> QED BY <4>2, <4>3
    <3> QED BY <1>4, <2>4, <3>2, <3>3, <3>4 DEF Undisturbed, Created, Rollback
  <2> QED BY <1>0, <1>1, <2>1, <2>2, <2>3, <2>4, KindOf DEF SaslSteps
<1>8. req'[p].kind = k
  BY <1>0, <1>2 DEF SameBut, ReqType
<1> QED BY <1>0, <1>1, <1>6, <1>7, <1>8, AloneKept

LEMMA StepAlone ==
  ASSUME AppTyped, IdsGiven, Alone, AccountsListed, NEW p \in Reqs, Undisturbed(req[p]), Step(p)
  PROVE  AloneInv'
BY AddAlone, DeleteAlone, UpdateAlone, StillCallsAlone, ReadLimitAlone, DeleteDomainAlone, SectionsAlone, PurgedAlone,
   SaslFailsAlone, SaslRenameAlone DEF Step

\* A request that begins while no other is under way.
LEMMA StartAlone ==
  ASSUME AppTyped, AloneInv, ~ met, NEW p \in Reqs, Start(p), ~ met'
  PROVE  AloneInv'
<1>0. Alone /\ AccountsListed /\ TablesOk
  BY DEF AloneInv, AppTyped
<1> DEFINE Starts(r) ==
             \/ r.kind = "create" /\ r.at = "add"
             \/ r.kind = "regen" /\ r.at = "set" /\ rows[r.id] # None /\ r.login = rows[r.id].login
             \/ r.kind = "delete" /\ r.at = "unset" /\ rows[r.id] # None /\ r.login = rows[r.id].login
             \/ r.kind = "save" /\ r.at = "readLimit" /\ rows[r.id] # None /\ r.before = rows[r.id]
             \/ r.kind = "delDomain" /\ r.at = "purge" /\ domain /\ r.todo = {rows[i].login : i \in {j \in Ids : rows[j] # None}}
             \/ r.kind = "reload" /\ r.at = "sync"
<1>1. \E r \in ReqType : /\ ReqOk(r) /\ r.phase = "out" /\ Begin(p, r) /\ Starts(r)
                         /\ r.at = "add" => lastId + Cardinality(Adding) < MaxApps
  <2>1. CASE StartCreate(p)
    BY <2>1, CreateBegins
  <2>2. CASE StartRegenerate(p)
    BY <2>2, RegenerateBegins
  <2>3. CASE StartDelete(p)
    BY <2>3, DeleteBegins
  <2>4. CASE StartSave(p)
    BY <2>4, SaveBegins
  <2>5. CASE StartDeleteDomain(p)
    BY <2>5, DeleteDomainBegins
  <2>6. CASE StartReload(p)
    BY <2>6, ReloadBegins
  <2> QED BY <2>1, <2>2, <2>3, <2>4, <2>5, <2>6 DEF Start
<1>1a. PICK r \in ReqType : /\ ReqOk(r) /\ r.phase = "out" /\ Begin(p, r) /\ Starts(r)
                            /\ r.at = "add" => lastId + Cardinality(Adding) < MaxApps
  BY <1>1
<1>2. /\ AppTyped' /\ req'[p] = r /\ \A q \in Reqs \ {p} : IF req[q].at \in Ended THEN req'[q] = Blank ELSE req'[q] = req[q]
      /\ met' = (met \/ \E q \in Reqs \ {p} : req[q].at \notin Ended)
      /\ UNCHANGED <<registry, saslVars, mapVars, faults, crashes, history>>
  BY <1>1a, Begun
<1>3. \A q \in Reqs \ {p} : req'[q] = Blank
  BY <1>2
<1>4. Alone'
  BY <1>3 DEF Alone, Blank
<1>5. AccountsListed'
  BY <1>0, <1>2 DEF AccountsListed, Listed, registry, saslVars, history
<1>6. Undisturbed(r)'
  BY <1>1a, <1>2 DEF Undisturbed, Created, Rollback, Away, registry
<1>7. \A q \in Reqs : Undisturbed(req[q])'
  <2>1. ASSUME NEW q \in Reqs \ {p} PROVE Undisturbed(req[q])'
    BY <1>3, <2>1 DEF Undisturbed, Created, Rollback, Blank
  <2>2. Undisturbed(req[p])'
    BY <1>2, <1>6
  <2> QED BY <2>1, <2>2
<1> QED BY <1>4, <1>5, <1>7 DEF AloneInv

\* met never falls.
LEMMA MetStays ==
  ASSUME AppTyped, [Next]_vars
  PROVE  met => met'
<1>1. ASSUME NEW p \in Reqs, Start(p) PROVE met => met'
  BY <1>1 DEF Start, StartCreate, StartRegenerate, StartDelete, StartSave, StartDeleteDomain, StartReload, Begin
<1>2. ASSUME NEW p \in Reqs, Step(p) PROVE met' = met
  BY <1>2 DEF Step, AddApplication, DeleteApplication, UpdateApplication, SaveRateLimit, ReadLimit, GetApplication,
     DeleteRateLimitsForDomain, DeleteDomain, SaslCopy, SaslRename, SaslFails, Purged, ResyncList, ResyncWrite,
     ResyncReload, ResyncFails, ReloadPostfix, Fault, bounds
<1>3. CASE Crash
  BY <1>3 DEF Crash
<1>4. CASE UNCHANGED vars
  BY <1>4 DEF vars, bounds
<1> QED BY <1>1, <1>2, <1>3, <1>4 DEF Next, Rest

LEMMA NextAlone ==
  ASSUME AppTyped, IdsGiven, AloneInv, [Next]_vars
  PROVE  AloneInv'
<1>1. CASE met'
  BY <1>1 DEF AloneInv
<1>2. CASE ~ met'
  <2>0. ~ met /\ Alone /\ AccountsListed /\ \A p \in Reqs : Undisturbed(req[p])
    <3>1. ~ met
      BY <1>2, MetStays
    <3> QED BY <3>1 DEF AloneInv
  <2>1. CASE Crash
    <3>1. \A p \in Reqs : req'[p] = Blank
      BY <2>1, CrashTyped
    <3>2. Alone' /\ \A p \in Reqs : Undisturbed(req[p])'
      BY <3>1 DEF Alone, Undisturbed, Created, Rollback, Blank
    <3>3. AccountsListed'
      BY <2>0, <2>1 DEF Crash, AccountsListed, Listed, registry
    <3> QED BY <3>2, <3>3 DEF AloneInv
  <2>2. CASE UNCHANGED vars
    <3>1. UNCHANGED <<registry, sasl, req, crashes, faults, leftover>>
      BY <2>2 DEF vars, saslVars, bounds, history
    <3>2. AccountsListed' /\ Alone'
      BY <2>0, <3>1 DEF AccountsListed, Listed, Alone, registry
    <3>3. \A p \in Reqs : Undisturbed(req[p])'
      BY <2>0, <3>1 DEF Undisturbed, Away, registry
    <3> QED BY <3>2, <3>3 DEF AloneInv
  <2>3. ASSUME NEW p \in Reqs, Start(p) PROVE AloneInv'
    BY <1>2, <2>0, <2>3, StartAlone
  <2>4. ASSUME NEW p \in Reqs, Step(p) PROVE AloneInv'
    BY <2>0, <2>4, StepAlone
  <2> QED BY <2>1, <2>2, <2>3, <2>4, Zenon DEF Next, Rest
<1> QED BY <1>1, <1>2

LEMMA InitAlone == Init => AloneInv
<1> SUFFICES ASSUME Init PROVE AloneInv
  OBVIOUS
<1>1. PICK seed \in {{}} \cup {{l} : l \in Logins}, f \in Forms :
       /\ lastId = Cardinality(seed)
       /\ rows = [i \in Ids |-> IF i <= lastId
                    THEN [login |-> CHOOSE l \in seed : TRUE, rule |-> f, ips |-> f] ELSE None]
       /\ sasl = [l \in Logins |-> IF l \in seed THEN 0 ELSE None]
  BY DEF Init
<1>2. req = [p \in Reqs |-> Blank]
  BY DEF Init
<1>3. Alone /\ \A p \in Reqs : Undisturbed(req[p])
  BY <1>2 DEF Alone, Undisturbed, Created, Rollback, Blank
<1>4. AccountsListed
  <2>1. ASSUME NEW l \in Logins, sasl[l] # None PROVE Listed(l)
    <3>1. seed = {l}
      BY <1>1, <2>1
    <3>2. Cardinality({l}) = 1
      BY FS_Singleton
    <3>3. 1 \in Ids /\ lastId = 1
      BY <1>1, <3>1, <3>2, AppConstants DEF Ids
    <3> DEFINE c == CHOOSE m \in seed : TRUE
    <3>4. c = l
      BY <3>1
    <3>5. rows[1] = [login |-> c, rule |-> f, ips |-> f]
      BY <1>1, <3>3
    <3> HIDE DEF c
    <3>6. rows[1].login = l /\ rows[1] \in Row
      BY <3>4, <3>5 DEF Row
    <3>7. rows[1] # None
      BY <3>6, NoneIsNoRow
    <3> QED BY <3>3, <3>6, <3>7 DEF Listed
  <2> QED BY <2>1 DEF AccountsListed
<1> QED BY <1>3, <1>4 DEF AloneInv

\* While requests come one at a time, every account is listed or still to be
\* dealt with by the request under way, whose row and accounts are as it left
\* them (CreateWithSettings, SaveSettings, Delete and their rollbacks).
THEOREM AloneAlways == Spec => []AloneInv
<1>1. AppTyped /\ IdsGiven /\ AloneInv /\ [Next]_vars => AloneInv'
  BY NextAlone
<1> QED BY InitAlone, <1>1, AppTypedAlways, GivenAlways, PTL DEF Spec

-----------------------------------------------------------------------------
(* The sender map and the registry.                                        *)

MapBody ==
  /\ \/ \A p \in Reqs : req[p].phase = "listed" => req[p].bindings = ListBindings
     \/ \E q \in Reqs : StillToList(req[q])
  /\ \/ mapFile = ListBindings
     \/ \E q \in Reqs : StillToList(req[q]) \/ req[q].phase = "listed"
  /\ live = mapFile \/ \E q \in Reqs : StillToReread(req[q])

\* Only the rebuild of Reload configuration makes the map count again.
Sounder == Sound' => Sound

\* A request that ended in an error, where nothing failed but what it found.
LEMMA ErrNotSound ==
  ASSUME AppTyped, AloneInv, NEW p \in Reqs, req[p].at \notin Ended \cup {"add"},
         \/ Succeed(p) /\ UNCHANGED bounds
         \/ Fault(p)
         \/ Fail(p) /\ UNCHANGED bounds /\ req[p].at \in Rollback,
         req'[p].at = "err"
  PROVE  ~ Sound'
<1>0. ReqOk(req[p]) /\ ReqsOk /\ TablesOk
  BY DEF AppTyped, ReqsOk
<1>1. drift' = TRUE /\ faults <= faults' /\ faults' \in Nat /\ crashes' = crashes /\ met' = met
  BY <1>0, CallFacts DEF TablesOk
<1>2. ASSUME req[p].at \in Rollback, ~ met, crashes = 0 PROVE faults >= 1
  BY <1>2 DEF AloneInv, Undisturbed
<1>3. CASE req[p].at \in Rollback
  BY <1>0, <1>1, <1>2, <1>3 DEF Sound, TablesOk
<1>4. CASE Fault(p)
  BY <1>0, <1>1, <1>4 DEF Sound, TablesOk, Fault
<1>5. CASE Succeed(p) /\ req[p].at \notin Rollback
  <2>1. After(req[p].kind, req[p].at) = "err"
    BY <1>0, <1>5, SucceedMoves
  <2> DEFINE k == req[p].kind  s == req[p].at
  <2>2. k \in ReqKinds /\ s \in Steps(k)
    BY <1>0 DEF ReqOk, ReqType, Ended
  <2>3. CASE k = "create"
    <3>1. s \in {"set", "sync", "ips", "limit", "get"}
      BY <1>5, <2>2, <2>3 DEF Steps, Rollback
    <3> QED BY <2>1, <2>3, <3>1, CreateRoute
  <2>4. CASE k = "save"
    <3>1. s \in {"readLimit", "mode", "ips", "limit", "sync"}
      BY <1>5, <2>2, <2>4 DEF Steps, Rollback
    <3> QED BY <2>1, <2>4, <3>1, SaveRoute
  <2>5. CASE k = "delete"
    <3>1. s \in {"unset", "drop", "clear", "sync"}
      BY <2>2, <2>5 DEF Steps
    <3> QED BY <2>1, <2>5, <3>1, OtherRoutes
  <2>6. CASE k = "delDomain"
    <3>1. s \in {"purge", "limits", "dropDomain", "sync"}
      BY <2>2, <2>6 DEF Steps
    <3> QED BY <2>1, <2>6, <3>1, OtherRoutes
  <2>7. CASE k = "reload" \/ k = "regen"
    <3>1. k = "regen" \/ s \in {"sync", "reread"}
      BY <2>2, <2>7 DEF Steps
    <3> QED BY <2>1, <2>7, <3>1, OtherRoutes
  <2>8. k # "none"
    BY <2>2 DEF Steps, Ended
  <2> QED BY <2>2, <2>3, <2>4, <2>5, <2>6, <2>7, <2>8 DEF ReqKinds
<1> QED BY <1>3, <1>4, <1>5

\* What a request is still to do is still to be done after its next call,
\* until it rebuilds the map or gives up.
LEMMA StillToDo ==
  ASSUME NEW r, NEW d, ReqOk(r), r.at \notin Ended \cup {"sync", "sync2", "reread"}, SameBut(r, d), d.phase = "out",
         d.at = After(r.kind, r.at) \/ d.at = OnError(r.kind, r.at), d.at # "err"
  PROVE  /\ StillToList(r) => StillToList(d)
         /\ StillToReread(r) => StillToReread(d)
<1> DEFINE k == r.kind  s == r.at  t == d.at
<1>0. k \in ReqKinds /\ s \in Steps(k) /\ d.kind = k /\ r.phase \notin {"listed", "written"}
  BY DEF ReqOk, ReqType, Ended, SameBut, SyncSteps
<1>1. CASE k = "create"
  <2>1. s \in {"add", "set", "ips", "limit", "get", "drop1", "unset1", "clear2", "unset2", "drop2"}
    BY <1>0, <1>1 DEF Steps
  <2>2. t = After("create", s) \/ t = OnError("create", s)
    BY <1>1
  <2>3. s \in {"set", "drop1", "unset1", "clear2", "unset2", "drop2"} => t \in {"sync", "drop1", "unset2", "drop2", "sync2"}
    BY <2>2, CreateRoute
  <2>4. s \in Rollback => t \in Rollback
    BY <2>1, <2>2, CreateRoute DEF Rollback
  <2> QED BY <1>0, <1>1, <2>1, <2>3, <2>4 DEF StillToList, StillToReread
<1>2. CASE k = "save"
  <2>1. s \in {"readLimit", "mode", "ips", "limit", "mode2", "ips2", "limit2"}
    BY <1>0, <1>2 DEF Steps
  <2>2. t = After("save", s) \/ t = OnError("save", s)
    BY <1>2
  <2>3. t \in {"mode", "ips", "limit", "sync", "mode2", "ips2", "limit2", "sync2"} /\ (s \in Rollback => t \in Rollback)
    BY <2>1, <2>2, SaveRoute DEF Rollback
  <2> QED BY <1>0, <1>2, <2>1, <2>3 DEF StillToList, StillToReread, Steps
<1>3. CASE k = "delete"
  <2>1. s \in {"unset", "drop", "clear"}
    BY <1>0, <1>3 DEF Steps
  <2>2. t \in {"drop", "clear", "sync"}
    BY <1>3, <2>1, OtherRoutes
  <2> QED BY <1>0, <1>3, <2>1, <2>2 DEF StillToList, StillToReread, Steps, Rollback
<1>4. CASE k = "delDomain"
  <2>1. s \in {"purge", "limits", "dropDomain"}
    BY <1>0, <1>4 DEF Steps
  <2>2. t \in {"purge", "dropDomain", "sync"}
    BY <1>4, <2>1, OtherRoutes
  <2> QED BY <1>0, <1>4, <2>1, <2>2 DEF StillToList, StillToReread, Steps, Rollback
<1>5. CASE k \in {"regen", "reload", "none"}
  <2>1. s = "set"
    BY <1>0, <1>5 DEF Steps, Ended
  <2> QED BY <1>0, <1>5, <2>1 DEF StillToList, StillToReread, Steps, Rollback
<1> QED BY <1>0, <1>1, <1>2, <1>3, <1>4, <1>5 DEF ReqKinds

\* A request outside resyncMu goes on; the map's files stay.
LEMMA MapKept ==
  ASSUME MapBody, NEW p \in Reqs, OthersSame(p), UNCHANGED <<mapFile, live>>,
         ListBindings' = ListBindings \/ StillToList(req'[p]),
         req[p].phase \notin {"listed", "written"}, req'[p].phase # "listed",
         StillToList(req[p]) => StillToList(req'[p]), StillToReread(req[p]) => StillToReread(req'[p])
  PROVE  MapBody'
<1>1. \A q \in Reqs : q # p => req'[q] = req[q]
  BY DEF OthersSame
<1>2. /\ (\E q \in Reqs : StillToList(req[q])) => (\E q \in Reqs : StillToList(req'[q]))
      /\ (\E q \in Reqs : StillToReread(req[q])) => (\E q \in Reqs : StillToReread(req'[q]))
  BY <1>1
<1>3. StillToList(req'[p]) => MapBody'
  BY <1>2 DEF MapBody, StillToList, StillToReread
<1>4. CASE ListBindings' = ListBindings
  <2>1. \A q \in Reqs : req'[q].phase = "listed" => req[q].phase = "listed" /\ req'[q].bindings = req[q].bindings
    BY <1>1
  <2>2. \A q \in Reqs : req[q].phase = "listed" => req'[q].phase = "listed"
    BY <1>1
  <2>3. \/ \A q \in Reqs : req'[q].phase = "listed" => req'[q].bindings = ListBindings'
        \/ \E q \in Reqs : StillToList(req'[q])
    BY <1>2, <1>4, <2>1 DEF MapBody
  <2>4. \/ mapFile' = ListBindings'
        \/ \E q \in Reqs : StillToList(req'[q]) \/ req'[q].phase = "listed"
    BY <1>2, <1>4, <2>2 DEF MapBody
  <2> QED BY <1>2, <2>3, <2>4 DEF MapBody, StillToList, StillToReread
<1> QED BY <1>3, <1>4

\* A call outside resyncMu that changes no binding, or after which the
\* request is still to list them.
LEMMA CallMap ==
  ASSUME AppTyped, AloneInv, MapInv, Sounder, NEW p \in Reqs, req[p].phase \notin {"listed", "written"},
         req[p].at \notin Ended \cup {"add", "sync", "sync2", "reread"}, UNCHANGED <<mapFile, live>>,
         \/ Succeed(p) /\ UNCHANGED bounds
         \/ Fault(p)
         \/ Fail(p) /\ UNCHANGED bounds /\ req[p].at \in Rollback,
         ListBindings' = ListBindings \/ req'[p].at = "err" \/ StillToList(req'[p]),
         req'[p].phase = "out"
  PROVE  MapInv'
<1> SUFFICES ASSUME Sound' PROVE MapBody'
  BY DEF MapInv, MapBody
<1>0. MapBody /\ ReqOk(req[p])
  BY DEF MapInv, MapBody, Sounder, AppTyped, ReqsOk
<1>1. /\ OthersSame(p) /\ SameBut(req[p], req'[p])
      /\ req'[p].at = After(req[p].kind, req[p].at) \/ req'[p].at = OnError(req[p].kind, req[p].at)
  BY CallFacts
<1>2. req'[p].at # "err"
  BY ErrNotSound
<1>3. /\ StillToList(req[p]) => StillToList(req'[p])
      /\ StillToReread(req[p]) => StillToReread(req'[p])
  BY <1>0, <1>1, <1>2, StillToDo
<1> QED BY <1>0, <1>1, <1>2, <1>3, MapKept

\* A call outside the sections.
LEMMA OutPhase ==
  ASSUME AppTyped, NEW p \in Reqs, req[p].at \notin Ended,
         \/ Succeed(p) /\ req[p].at # "add" /\ UNCHANGED bounds
         \/ Fail(p) /\ UNCHANGED bounds
         \/ Fault(p)
  PROVE  req'[p].phase = "out"
BY CallMoves

LEMMA StepSounder ==
  ASSUME AppTyped, NEW p \in Reqs, Step(p), ResyncList(p) => req[p].kind # "reload"
  PROVE  Sounder
<1>0. TablesOk /\ ReqsOk /\ ReqOk(req[p])
  BY DEF AppTyped, ReqsOk
<1>1. /\ drift => drift'
      /\ faults' = faults \/ faults' = faults + 1
      /\ met' = met /\ crashes' = crashes
  <2>1. ASSUME Succeed(p) PROVE drift => drift'
    BY <2>1 DEF Succeed
  <2>2. ASSUME Fail(p) PROVE drift => drift'
    BY <2>2 DEF Fail
  <2>3. ASSUME Fault(p) PROVE (drift => drift') /\ faults' = faults + 1 /\ met' = met /\ crashes' = crashes
    BY <2>2, <2>3 DEF Fault
  <2>4. CASE AddApplication(p) \/ DeleteApplication(p) \/ UpdateApplication(p) \/ SaveRateLimit(p) \/ ReadLimit(p)
    BY <2>1, <2>2, <2>3, <2>4 DEF AddApplication, DeleteApplication, UpdateApplication, SaveRateLimit, ReadLimit, bounds, history
  <2>5. CASE GetApplication(p) \/ DeleteRateLimitsForDomain(p) \/ DeleteDomain(p) \/ SaslCopy(p) \/ SaslFails(p) \/ Purged(p)
    BY <2>1, <2>2, <2>3, <2>5 DEF GetApplication, DeleteRateLimitsForDomain, DeleteDomain, SaslCopy, SaslFails, Purged, bounds, history
  <2>6. CASE SaslRename(p)
    <3>1. drift' = (drift \/ req'[p].at = "err")
      BY <2>6, SaslRenameMoves
    <3> QED BY <2>6, <3>1 DEF SaslRename, bounds
  <2>7. CASE ResyncList(p)
    BY <2>7 DEF ResyncList, bounds
  <2>8. CASE ResyncWrite(p) \/ ResyncReload(p) \/ ResyncFails(p) \/ ReloadPostfix(p)
    BY <2>1, <2>2, <2>3, <2>8 DEF ResyncWrite, ResyncReload, ResyncFails, ReloadPostfix, bounds, history
  <2> QED BY <2>4, <2>5, <2>6, <2>7, <2>8 DEF Step
<1> QED BY <1>0, <1>1 DEF Sounder, Sound, TablesOk

LEMMA AddMap ==
  ASSUME AppTyped, AloneInv, MapInv, NEW p \in Reqs, AddApplication(p)
  PROVE  MapInv'
<1> SUFFICES ASSUME Sound' PROVE MapBody'
  BY DEF MapInv, MapBody
<1>0. Sounder
  BY StepSounder, KindOf DEF Step, AddApplication, At, ResyncList, SyncSteps
<1>1. /\ req[p].at = "add" /\ req[p].phase = "out" /\ UNCHANGED <<mapFile, live>> /\ MapBody /\ req[p].kind = "create"
  BY <1>0, AddMoves DEF mapVars, MapInv, MapBody, Sounder
<1>2. ~ StillToList(req[p]) /\ ~ StillToReread(req[p])
  BY <1>1 DEF StillToList, StillToReread, Rollback
<1>3. OthersSame(p) /\ req'[p].phase # "listed" /\ (ListBindings' = ListBindings \/ StillToList(req'[p]))
  <2>1. CASE UNCHANGED rows /\ req'[p].at = "err" /\ OthersSame(p)
    <3>1. AppTyped'
      BY AddTyped
    <3>2. ReqOk(req'[p])
      BY <3>1 DEF AppTyped, ReqsOk
    <3>3. req'[p].phase # "listed"
      BY <2>1, <3>2 DEF ReqOk, SyncSteps
    <3> QED BY <2>1, <3>3 DEF ListBindings
  <2>2. CASE req'[p].at = "set" /\ req'[p].phase = "out" /\ req'[p].kind = "create" /\ OthersSame(p)
    BY <2>2 DEF StillToList
  <2> QED BY <2>1, <2>2, AddMoves
<1> QED BY <1>1, <1>2, <1>3, MapKept

LEMMA DeleteMap ==
  ASSUME AppTyped, AloneInv, MapInv, Sounder, NEW p \in Reqs, DeleteApplication(p)
  PROVE  MapInv'
<1> DEFINE s == req[p].at  t == req'[p].at  k == req[p].kind
<1>0. /\ s \in {"drop", "drop1", "drop2"} /\ req[p].phase = "out" /\ UNCHANGED <<mapFile, live>>
      /\ ReqOk(req[p]) /\ TablesOk /\ ReqsOk
      /\ \/ Succeed(p) /\ UNCHANGED bounds
         \/ Fail(p) /\ UNCHANGED bounds /\ rows[req[p].id] = None
         \/ Fault(p)
  BY DEF DeleteApplication, At, AppTyped, ReqsOk, mapVars
<1>1. k \in {"create", "delete"} /\ (s = "drop" <=> k = "delete") /\ s \notin Ended \cup {"add", "sync", "sync2", "reread"}
  BY <1>0, KindOf DEF Ended
<1>2. /\ req'[p].phase = "out" /\ SameBut(req[p], req'[p]) /\ drift' = (drift \/ t = "err")
      /\ t = After(k, s) \/ t = OnError(k, s)
      /\ faults <= faults' /\ UNCHANGED <<crashes, met>>
  BY <1>0, <1>1, CallFacts, OutPhase
<1>3. t \in {"err", "clear", "sync2"} /\ (t = "clear" => k = "delete") /\ (t = "sync2" => k = "create")
  BY <1>0, <1>1, <1>2, CreateRoute, OtherRoutes
<1>4. t = "err" \/ StillToList(req'[p])
  BY <1>1, <1>2, <1>3 DEF StillToList, SameBut, Steps
<1>5. CASE s \in {"drop1", "drop2"}
  <2>1. s \in Rollback
    BY <1>5 DEF Rollback
  <2> QED BY <1>0, <1>1, <1>2, <1>4, <2>1, CallMap
<1>6. CASE s = "drop" /\ ~ (Fail(p) /\ UNCHANGED bounds /\ rows[req[p].id] = None)
  BY <1>0, <1>1, <1>2, <1>4, <1>6, CallMap
<1>7. CASE s = "drop" /\ Fail(p) /\ UNCHANGED bounds /\ rows[req[p].id] = None
  <2>1. t = "err"
    BY <1>0, <1>1, <1>7, FailMoves, OtherRoutes
  <2>2. met
    <3>1. SUFFICES ASSUME ~ met PROVE FALSE
      OBVIOUS
    <3>2. Undisturbed(req[p])
      BY <3>1 DEF AloneInv
    <3> QED BY <1>1, <1>7, <3>2 DEF Undisturbed
  <2>3. ~ Sound'
    BY <1>0, <1>2, <2>1, <2>2 DEF Sound, TablesOk
  <2> QED BY <2>3 DEF MapInv
<1> QED BY <1>0, <1>5, <1>6, <1>7

LEMMA UpdateMap ==
  ASSUME AppTyped, AloneInv, MapInv, Sounder, NEW p \in Reqs, UpdateApplication(p)
  PROVE  MapInv'
<1> DEFINE s == req[p].at  t == req'[p].at  k == req[p].kind  i == req[p].id
<1>0. /\ s \in {"mode", "ips", "mode2", "ips2"} /\ req[p].phase = "out" /\ UNCHANGED <<mapFile, live>>
      /\ ReqOk(req[p]) /\ TablesOk /\ ReqsOk
      /\ \/ Succeed(p) /\ UNCHANGED bounds /\ rows[i] # None /\ rows' = [rows EXCEPT ![i] = Updated(p)]
         \/ Fail(p) /\ UNCHANGED bounds /\ rows' = rows
         \/ Fault(p) /\ rows' = rows
  BY DEF UpdateApplication, At, AppTyped, ReqsOk, mapVars, registry
<1>1. k \in {"create", "save"} /\ (k = "create" => s = "ips") /\ s \notin Ended \cup {"add", "sync", "sync2", "reread"}
  BY <1>0, KindOf DEF Ended
<1>2. /\ req'[p].phase = "out" /\ SameBut(req[p], req'[p])
      /\ t = After(k, s) \/ t = OnError(k, s)
  BY <1>0, <1>1, CallFacts, OutPhase
<1>3. t # "err" /\ OthersSame(p)
  <2>1. t # "err"
    BY <1>0, <1>1, <1>2, CreateRoute, SaveRoute
  <2> QED BY <1>0, <1>1, <2>1, CallFacts
<1>4. k = "save" => StillToList(req'[p])
  <2>1. k = "save" => t \in {"ips", "limit", "mode2", "ips2", "limit2"}
    BY <1>0, <1>2, SaveRoute
  <2> QED BY <1>2, <2>1 DEF StillToList, SameBut, Steps
<1>5. k = "create" => ListBindings' = ListBindings
  <2>1. CASE rows' = rows
    BY <2>1 DEF ListBindings
  <2>2. CASE k = "create" /\ rows[i] # None /\ rows' = [rows EXCEPT ![i] = Updated(p)]
    <3>1. /\ i \in Ids /\ Updated(p) \in Row /\ Updated(p).login = rows[i].login /\ Updated(p).rule = rows[i].rule
      BY <1>0, <1>1, <2>2, UpdatedRow
    <3>2. \A j \in Ids : /\ rows'[j] # None <=> rows[j] # None
                         /\ rows[j] # None => rows'[j].rule = rows[j].rule /\ rows'[j].login = rows[j].login
      BY <1>0, <2>2, <3>1, NoneIsNoRow DEF TablesOk
    <3>3. {j \in Ids : rows'[j] # None} = {j \in Ids : rows[j] # None}
      BY <3>2
    <3> QED BY <3>2, <3>3 DEF ListBindings, Bindings
  <2> QED BY <1>0, <2>1, <2>2
<1>6. /\ StillToList(req[p]) => StillToList(req'[p])
      /\ StillToReread(req[p]) => StillToReread(req'[p])
  BY <1>0, <1>1, <1>2, <1>3, StillToDo
<1> SUFFICES ASSUME Sound' PROVE MapBody'
  BY DEF MapInv, MapBody
<1>7. MapBody
  BY DEF MapInv, MapBody, Sounder
<1> QED BY <1>0, <1>1, <1>2, <1>3, <1>4, <1>5, <1>6, <1>7, MapKept

\* Calls that leave the rows alone.
LEMMA LimitMap ==
  ASSUME AppTyped, AloneInv, MapInv, Sounder, NEW p \in Reqs, SaveRateLimit(p) \/ DeleteRateLimitsForDomain(p)
  PROVE  MapInv'
<1>0. /\ req[p].at \in {"limit", "limit2", "clear", "clear2", "limits"} /\ req[p].phase = "out"
      /\ UNCHANGED <<mapFile, live, rows>>
      /\ (Succeed(p) /\ UNCHANGED bounds) \/ Fault(p)
  BY DEF SaveRateLimit, DeleteRateLimitsForDomain, At, mapVars
<1>1. req[p].at \notin Ended \cup {"add", "sync", "sync2", "reread"} /\ ListBindings' = ListBindings
  BY <1>0 DEF Ended, ListBindings
<1>2. req'[p].phase = "out"
  BY <1>0, <1>1, OutPhase
<1> QED BY <1>0, <1>1, <1>2, CallMap

LEMMA ReadLimitMap ==
  ASSUME AppTyped, AloneInv, MapInv, Sounder, NEW p \in Reqs, ReadLimit(p)
  PROVE  MapInv'
<1>0. /\ req[p].at = "readLimit" /\ req[p].phase = "out" /\ UNCHANGED <<mapFile, live, rows>> /\ ReqOk(req[p])
      /\ req[p] \in ReqType /\ ReqsOk /\ ListBindings' = ListBindings
      /\ req[p].at \notin Ended \cup {"add", "sync", "sync2", "reread"}
  BY DEF ReadLimit, At, AppTyped, ReqsOk, registry, mapVars, ListBindings, Ended
<1>1. CASE Fault(p)
  <2>1. req'[p].phase = "out"
    BY <1>0, <1>1, OutPhase
  <2> QED BY <1>0, <1>1, <2>1, CallMap
<1>2. CASE ~ Fault(p)
  <2> DEFINE x == limits[req[p].id]
             d == [req[p] EXCEPT !.at = "mode", !.limitBefore = x]
  <2>1. req' = [req EXCEPT ![p] = d]
    BY <1>2 DEF ReadLimit
  <2> HIDE DEF x
  <2>2. d.at = "mode" /\ d.kind = req[p].kind /\ d.phase = "out"
    BY <1>0 DEF ReqType
  <2> HIDE DEF d
  <2>3. req'[p] = d /\ OthersSame(p)
    BY <1>0, <2>1 DEF OthersSame, ReqsOk
  <2>4. req[p].kind = "save"
    BY <1>0, KindOf
  <2>5. StillToList(req'[p]) /\ ~ StillToReread(req[p])
    BY <1>0, <2>2, <2>3, <2>4 DEF StillToList, StillToReread, Steps, Rollback
  <2> SUFFICES ASSUME Sound' PROVE MapBody'
    BY DEF MapInv, MapBody
  <2>6. MapBody
    BY DEF MapInv, MapBody, Sounder
  <2> QED BY <1>0, <2>2, <2>3, <2>5, <2>6, MapKept
<1> QED BY <1>1, <1>2

LEMMA GetMap ==
  ASSUME AppTyped, AloneInv, MapInv, Sounder, NEW p \in Reqs, GetApplication(p)
  PROVE  MapInv'
<1>0. /\ req[p].at = "get" /\ req[p].phase = "out" /\ UNCHANGED <<mapFile, live, rows>> /\ ReqOk(req[p])
      /\ ListBindings' = ListBindings
      /\ (Succeed(p) /\ UNCHANGED bounds) \/ (Fail(p) /\ UNCHANGED bounds) \/ Fault(p)
  BY DEF GetApplication, At, AppTyped, ReqsOk, registry, mapVars, ListBindings
<1>1. OthersSame(p) /\ req'[p].phase = "out"
  BY <1>0, CallFacts, OutPhase DEF Ended
<1>2. ~ StillToList(req[p]) /\ ~ StillToReread(req[p])
  <2>1. req[p].kind = "create"
    BY <1>0, KindOf
  <2> QED BY <1>0, <2>1 DEF StillToList, StillToReread, Rollback
<1> SUFFICES ASSUME Sound' PROVE MapBody'
  BY DEF MapInv, MapBody
<1>3. MapBody
  BY DEF MapInv, MapBody, Sounder
<1> QED BY <1>0, <1>1, <1>2, <1>3, MapKept

LEMMA DomainMap ==
  ASSUME AppTyped, AloneInv, MapInv, Sounder, NEW p \in Reqs, DeleteDomain(p)
  PROVE  MapInv'
<1> DEFINE t == req'[p].at
<1>0. /\ req[p].at = "dropDomain" /\ req[p].phase = "out" /\ UNCHANGED <<mapFile, live>> /\ ReqOk(req[p]) /\ ReqsOk
      /\ \/ Succeed(p) /\ UNCHANGED bounds
         \/ Fail(p) /\ UNCHANGED bounds /\ ~ domain
         \/ Fault(p)
      /\ req[p].at \notin Ended \cup {"add", "sync", "sync2", "reread"} /\ TablesOk
  BY DEF DeleteDomain, At, AppTyped, ReqsOk, mapVars, Ended
<1>1. req[p].kind = "delDomain"
  BY <1>0, KindOf
<1>2. /\ req'[p].phase = "out" /\ SameBut(req[p], req'[p]) /\ drift' = (drift \/ t = "err")
      /\ t = After(req[p].kind, req[p].at) \/ t = OnError(req[p].kind, req[p].at)
      /\ UNCHANGED <<crashes, met>>
  BY <1>0, CallFacts, OutPhase
<1>3. t \in {"sync", "err"}
  BY <1>0, <1>1, <1>2, OtherRoutes
<1>4. t = "err" \/ StillToList(req'[p])
  BY <1>1, <1>2, <1>3 DEF StillToList, SameBut, Steps
<1>5. CASE (Succeed(p) /\ UNCHANGED bounds) \/ Fault(p)
  BY <1>0, <1>2, <1>4, <1>5, CallMap
<1>6. CASE Fail(p) /\ UNCHANGED bounds /\ ~ domain
  <2>1. t = "err"
    BY <1>0, <1>1, <1>6, FailMoves, OtherRoutes
  <2>2. met
    <3>1. SUFFICES ASSUME ~ met PROVE FALSE
      OBVIOUS
    <3>2. Undisturbed(req[p])
      BY <3>1 DEF AloneInv
    <3> QED BY <1>0, <1>1, <1>6, <3>2 DEF Undisturbed
  <2>3. ~ Sound'
    BY <1>0, <1>2, <2>1, <2>2 DEF Sound, TablesOk
  <2> QED BY <2>3 DEF MapInv
<1> QED BY <1>0, <1>5, <1>6

LEMMA SaslMap ==
  ASSUME AppTyped, AloneInv, MapInv, Sounder, NEW p \in Reqs,
         SaslCopy(p) \/ SaslRename(p) \/ SaslFails(p) \/ Purged(p)
  PROVE  MapInv'
<1>0. /\ UNCHANGED <<mapFile, live, rows>> /\ ListBindings' = ListBindings /\ ReqsOk /\ ReqOk(req[p]) /\ req[p] \in ReqType
      /\ req[p].phase \notin {"listed", "written"} /\ req[p].at \in SaslSteps \cup {"purge"}
      /\ req[p].at \notin Ended \cup {"add", "sync", "sync2", "reread"}
  <2>1. ReqsOk /\ ReqOk(req[p]) /\ req[p] \in ReqType
    BY DEF AppTyped, ReqsOk
  <2>2. /\ UNCHANGED <<mapFile, live, rows>> /\ req[p].phase \notin {"listed", "written"}
        /\ req[p].at \in SaslSteps \cup {"purge"}
    BY <2>1 DEF SaslCopy, SaslRename, SaslFails, Purged, At, mapVars, registry, ReqOk
  <2> QED BY <2>1, <2>2 DEF ListBindings, SaslSteps, Ended
<1>1. CASE SaslFails(p)
  <2>1. Fault(p) /\ req'[p].phase = "out"
    BY <1>0, <1>1, OutPhase DEF SaslFails
  <2> QED BY <1>0, <2>1, CallMap
<1>2. CASE ~ SaslFails(p)
  <2> SUFFICES ASSUME Sound' PROVE MapBody'
    BY DEF MapInv, MapBody
  <2>0. MapBody
    BY DEF MapInv, MapBody, Sounder
  <2>1. CASE SaslCopy(p)
    <3>1. OthersSame(p) /\ req'[p].at = req[p].at /\ SameBut(req[p], req'[p]) /\ req'[p].phase = "copied" /\ req[p].phase = "out"
      BY <2>1, SaslCopyTyped DEF SaslCopy, At
    <3>2. /\ StillToList(req[p]) => StillToList(req'[p])
          /\ StillToReread(req[p]) => StillToReread(req'[p])
      BY <3>1 DEF StillToList, StillToReread, SameBut
    <3> QED BY <1>0, <2>0, <3>1, <3>2, MapKept
  <2>2. CASE Purged(p)
    <3>1. /\ OthersSame(p) /\ req'[p].at = "limits" /\ SameBut(req[p], req'[p]) /\ req'[p].phase = "out" /\ req[p].at = "purge"
          /\ req[p].kind = "delDomain"
      BY <1>0, <2>2, PurgedTyped, KindOf DEF Purged, At
    <3>2. StillToList(req'[p]) /\ ~ StillToReread(req[p])
      BY <1>0, <3>1 DEF StillToList, StillToReread, SameBut, Steps, Rollback
    <3> QED BY <1>0, <2>0, <3>1, <3>2, MapKept
  <2>3. CASE SaslRename(p)
    <3>1. /\ OthersSame(p) /\ req'[p].phase = "out"
          /\ \/ req[p].at # "purge" /\ SameBut(req[p], req'[p]) /\ req'[p].at = After(req[p].kind, req[p].at)
             \/ \E l : req[p].at = "purge" /\ req'[p] = [req[p] EXCEPT !.phase = "out", !.todo = @ \ {l}]
      BY <2>3, SaslRenameMoves
    <3>2. CASE req[p].at # "purge" /\ SameBut(req[p], req'[p]) /\ req'[p].at = After(req[p].kind, req[p].at)
      <4>1. req'[p].at # "err"
        <5>1. req[p].kind \in {"create", "regen", "delete"} /\ req[p].at \in {"set", "unset", "unset1", "unset2"}
              /\ (req[p].kind = "create" => req[p].at \in {"set", "unset1", "unset2"})
              /\ (req[p].kind = "delete" => req[p].at = "unset")
          BY <1>0, <3>2, KindOf DEF SaslSteps
        <5> QED BY <3>2, <5>1, CreateRoute, OtherRoutes
      <4>2. /\ StillToList(req[p]) => StillToList(req'[p])
            /\ StillToReread(req[p]) => StillToReread(req'[p])
        BY <1>0, <3>1, <3>2, <4>1, StillToDo
      <4> QED BY <1>0, <2>0, <3>1, <4>2, MapKept
    <3>3. CASE \E l : req[p].at = "purge" /\ req'[p] = [req[p] EXCEPT !.phase = "out", !.todo = @ \ {l}]
      <4>1. req'[p].at = "purge" /\ req'[p].kind = "delDomain" /\ req[p].at = "purge"
        BY <1>0, <3>3, KindOf DEF ReqType
      <4>2. StillToList(req'[p]) /\ ~ StillToReread(req[p])
        BY <1>0, <3>1, <4>1 DEF StillToList, StillToReread, Steps, Rollback
      <4> QED BY <1>0, <2>0, <3>1, <4>2, MapKept
    <3> QED BY <3>1, <3>2, <3>3
  <2> QED BY <1>2, <2>1, <2>2, <2>3
<1> QED BY <1>1, <1>2

LEMMA ResyncListMap ==
  ASSUME AppTyped, AloneInv, MapInv, NEW p \in Reqs, Sounder \/ req[p].kind = "reload", ResyncList(p)
  PROVE  MapInv'
<1> SUFFICES ASSUME Sound' PROVE MapBody'
  BY DEF MapInv, MapBody
<1>0. /\ OthersSame(p) /\ req[p].at \in SyncSteps /\ req[p].phase = "out" /\ resyncMu = None
      /\ req'[p].at = req[p].at /\ req'[p].kind = req[p].kind /\ req'[p].phase = "listed" /\ req'[p].bindings = ListBindings
  BY ResyncListMoves
<1>1. /\ UNCHANGED <<mapFile, live, rows>> /\ ListBindings' = ListBindings
  BY DEF ResyncList, registry, ListBindings
<1>2. \A q \in Reqs \ {p} : req'[q] = req[q] /\ req[q].phase # "listed"
  BY <1>0, AppConstants DEF OthersSame, AppTyped, Holders
<1>3. live = mapFile \/ \E q \in Reqs : StillToReread(req'[q])
  <2>1. CASE req[p].kind = "reload"
    BY <1>0, <2>1 DEF StillToReread
  <2>2. CASE Sounder
    <3>1. live = mapFile \/ \E q \in Reqs : StillToReread(req[q])
      BY <2>2 DEF Sounder, MapInv
    <3>2. StillToReread(req[p]) => StillToReread(req'[p])
      BY <1>0 DEF StillToReread
    <3> QED BY <1>2, <3>1, <3>2
  <2> QED BY <2>1, <2>2
<1>4. \A q \in Reqs : req'[q].phase = "listed" => req'[q].bindings = ListBindings'
  BY <1>0, <1>1, <1>2
<1> QED BY <1>0, <1>1, <1>3, <1>4 DEF MapBody, StillToReread

\* Inside the section nobody else has listed.
LEMMA ListedAlone ==
  ASSUME AppTyped, MapBody, NEW p \in Reqs, req[p].phase \in {"listed", "written"}
  PROVE  /\ \A q \in Reqs \ {p} : req[q].phase \notin {"listed", "written"}
         /\ ~ StillToList(req[p])
         /\ req[p].phase = "listed" => req[p].bindings = ListBindings \/ \E q \in Reqs \ {p} : StillToList(req[q])
         /\ req[p].phase = "written" => mapFile = ListBindings \/ \E q \in Reqs \ {p} : StillToList(req[q])
<1>1. \A q \in Reqs \ {p} : req[q].phase \notin {"listed", "written"}
  BY ResyncHolder
<1>2. ~ StillToList(req[p])
  BY DEF StillToList
<1> QED BY <1>1, <1>2 DEF MapBody

LEMMA ResyncWriteMap ==
  ASSUME AppTyped, AloneInv, MapInv, Sounder, NEW p \in Reqs, ResyncWrite(p)
  PROVE  MapInv'
<1> SUFFICES ASSUME Sound' PROVE MapBody'
  BY DEF MapInv, MapBody
<1>0. /\ MapBody /\ req[p].phase = "listed" /\ UNCHANGED <<live, rows, bounds>> /\ ListBindings' = ListBindings
      /\ req[p].at \in SyncSteps /\ req[p].at \notin Ended \cup {"add"} /\ ReqsOk /\ ReqOk(req[p])
  BY ResyncHolder DEF MapInv, MapBody, Sounder, ResyncWrite, registry, ListBindings, AppTyped, ReqsOk
<1>1. /\ OthersSame(p) /\ SameBut(req[p], req'[p])
      /\ \/ mapFile = req[p].bindings /\ Succeed(p) /\ mapFile' = mapFile
         \/ mapFile' = req[p].bindings /\ req'[p].at = req[p].at /\ req'[p].phase = "written"
  BY ResyncWriteTyped
<1>2. /\ \A q \in Reqs \ {p} : req'[q] = req[q] /\ req[q].phase \notin {"listed", "written"}
      /\ req[p].bindings = ListBindings \/ \E q \in Reqs \ {p} : StillToList(req[q])
  BY <1>0, <1>1, ListedAlone DEF OthersSame
<1>3. mapFile' = ListBindings' \/ \E q \in Reqs : StillToList(req'[q])
  BY <1>0, <1>1, <1>2
<1>4. CASE mapFile = req[p].bindings /\ Succeed(p) /\ mapFile' = mapFile
  <2>1. req'[p].phase = "out" /\ req'[p].at = After(req[p].kind, req[p].at)
    BY <1>0, <1>4, SucceedMoves
  <2>2. req'[p].at # "err"
    BY <1>0, <1>4, ErrNotSound
  <2>3. StillToReread(req[p]) => StillToReread(req'[p])
    <3>1. SUFFICES ASSUME StillToReread(req[p]) PROVE StillToReread(req'[p])
      OBVIOUS
    <3>2. CASE req[p].kind = "reload"
      <4>1. req[p].at = "sync"
        BY <1>0, <3>2, KindOf DEF SyncSteps
      <4>2. req'[p].at = "reread" /\ req'[p].kind = "reload"
        BY <1>1, <2>1, <3>2, <4>1, OtherRoutes DEF SameBut
      <4> QED BY <4>2 DEF StillToReread
    <3>3. CASE req[p].kind # "reload"
      <4>1. req[p].at \in Rollback
        BY <1>0, <3>1, <3>3 DEF StillToReread
      <4>2. req[p].at = "sync2" /\ req[p].kind \in {"create", "save"}
        BY <1>0, <4>1, KindOf DEF SyncSteps, Rollback
      <4> QED BY <2>1, <2>2, <4>2, CreateRoute, SaveRoute
    <3> QED BY <3>2, <3>3
  <2>4. live = mapFile \/ \E q \in Reqs : StillToReread(req'[q])
    BY <1>0, <1>2, <2>3 DEF MapBody
  <2>5. \A q \in Reqs : req'[q].phase # "listed"
    BY <1>2, <2>1
  <2> QED BY <1>0, <1>3, <1>4, <2>4, <2>5 DEF MapBody, StillToList, StillToReread
<1>5. CASE mapFile' = req[p].bindings /\ req'[p].at = req[p].at /\ req'[p].phase = "written"
  <2>1. StillToReread(req'[p])
    BY <1>5 DEF StillToReread
  <2>2. \A q \in Reqs : req'[q].phase # "listed"
    BY <1>2, <1>5
  <2> QED BY <1>3, <2>1, <2>2 DEF MapBody, StillToList, StillToReread
<1> QED BY <1>1, <1>4, <1>5

LEMMA ResyncReloadMap ==
  ASSUME AppTyped, AloneInv, MapInv, Sounder, NEW p \in Reqs, ResyncReload(p)
  PROVE  MapInv'
<1> SUFFICES ASSUME Sound' PROVE MapBody'
  BY DEF MapInv, MapBody
<1>0. /\ MapBody /\ req[p].phase = "written" /\ UNCHANGED <<mapFile, rows, bounds>> /\ ListBindings' = ListBindings
      /\ live' = mapFile /\ Succeed(p) /\ req[p].at \notin Ended \cup {"add"} /\ ReqsOk
  BY ResyncHolder DEF MapInv, MapBody, Sounder, ResyncReload, registry, ListBindings, AppTyped
<1>1. OthersSame(p) /\ req'[p].phase = "out"
  BY <1>0, SucceedMoves
<1>2. /\ \A q \in Reqs \ {p} : req'[q] = req[q] /\ req[q].phase \notin {"listed", "written"}
      /\ mapFile = ListBindings \/ \E q \in Reqs \ {p} : StillToList(req[q])
  BY <1>0, <1>1, ListedAlone DEF OthersSame
<1>3. mapFile' = ListBindings' \/ \E q \in Reqs : StillToList(req'[q])
  BY <1>0, <1>1, <1>2
<1>4. \A q \in Reqs : req'[q].phase # "listed"
  BY <1>1, <1>2
<1> QED BY <1>0, <1>3, <1>4 DEF MapBody, StillToList, StillToReread

LEMMA ResyncFailsMap ==
  ASSUME AppTyped, AloneInv, MapInv, Sounder, NEW p \in Reqs, ResyncFails(p)
  PROVE  MapInv'
<1> SUFFICES ASSUME Sound' PROVE MapBody'
  BY DEF MapInv, MapBody
<1>0. /\ MapBody /\ req[p].phase \in {"listed", "written"} /\ Fault(p)
      /\ req[p].at \in SyncSteps /\ req[p].at \notin Ended \cup {"add"} /\ ReqsOk /\ ReqOk(req[p])
  BY ResyncHolder DEF MapInv, MapBody, Sounder, ResyncFails, AppTyped, ReqsOk
<1>1. /\ OthersSame(p) /\ SameBut(req[p], req'[p]) /\ req'[p].phase = "out" /\ req'[p].at = OnError(req[p].kind, req[p].at)
  <2>1. Fail(p)
    BY <1>0 DEF Fault
  <2> QED BY <1>0, <2>1, FailMoves
<1>2. req'[p].at # "err"
  BY <1>0, ErrNotSound
<1>3. req[p].kind \in {"create", "save"} /\ req'[p].at \in {"unset1", "mode2"}
  <2>1. req[p].kind \in {"create", "save", "delete", "delDomain", "reload"} /\ req[p].at \in {"sync", "sync2"}
    BY <1>0, KindOf DEF SyncSteps
  <2> QED BY <1>1, <1>2, <2>1, CreateRoute, SaveRoute, OtherRoutes
<1>4. StillToList(req'[p]) /\ StillToReread(req'[p])
  <2>1. req'[p].at = "unset1" => req[p].kind = "create"
    BY <1>0, <1>1, <1>3, KindOf, SaveRoute DEF SyncSteps
  <2>2. req'[p].at = "mode2" => req[p].kind = "save"
    BY <1>0, <1>1, <1>3, KindOf, CreateRoute DEF SyncSteps
  <2> QED BY <1>1, <1>3, <2>1, <2>2 DEF StillToList, StillToReread, SameBut, Steps, Rollback
<1> QED BY <1>4 DEF MapBody, StillToList, StillToReread

LEMMA RereadMap ==
  ASSUME AppTyped, AloneInv, MapInv, Sounder, NEW p \in Reqs, ReloadPostfix(p)
  PROVE  MapInv'
<1> SUFFICES ASSUME Sound' PROVE MapBody'
  BY DEF MapInv, MapBody
<1>0. /\ MapBody /\ req[p].at = "reread" /\ req[p].phase = "out" /\ UNCHANGED <<mapFile, rows>> /\ ListBindings' = ListBindings
      /\ \/ live' = mapFile /\ Succeed(p) /\ UNCHANGED bounds
         \/ Fault(p)
      /\ ReqsOk /\ ReqOk(req[p]) /\ req[p].at \notin Ended \cup {"add"}
  BY DEF MapInv, MapBody, Sounder, ReloadPostfix, At, registry, ListBindings, AppTyped, ReqsOk, Ended
<1>1. req[p].kind = "reload"
  BY <1>0, KindOf
<1>2. ~ Fault(p)
  <2>1. SUFFICES ASSUME Fault(p) PROVE FALSE
    OBVIOUS
  <2>2. Fail(p)
    BY <2>1 DEF Fault
  <2>3. req'[p].at = "err"
    BY <1>0, <1>1, <2>2, FailMoves, OtherRoutes
  <2> QED BY <1>0, <2>1, <2>3, ErrNotSound
<1>3. live' = mapFile /\ Succeed(p) /\ OthersSame(p) /\ req'[p].phase = "out"
  BY <1>0, <1>2, SucceedMoves
<1>4. ~ StillToList(req[p])
  BY <1>0, <1>1 DEF StillToList
<1>5. \A q \in Reqs \ {p} : req'[q] = req[q]
  BY <1>3 DEF OthersSame
<1>6. \/ \A q \in Reqs : req'[q].phase = "listed" => req'[q].bindings = ListBindings'
      \/ \E q \in Reqs : StillToList(req'[q])
  BY <1>0, <1>3, <1>4, <1>5 DEF MapBody
<1>7. \/ mapFile' = ListBindings'
      \/ \E q \in Reqs : StillToList(req'[q]) \/ req'[q].phase = "listed"
  BY <1>0, <1>3, <1>4, <1>5 DEF MapBody
<1> QED BY <1>0, <1>3, <1>6, <1>7 DEF MapBody, StillToList, StillToReread

LEMMA StepMap ==
  ASSUME AppTyped, AloneInv, MapInv, NEW p \in Reqs, Step(p)
  PROVE  MapInv'
<1>1. CASE ResyncList(p)
  BY <1>1, StepSounder, ResyncListMap
<1>2. CASE AddApplication(p)
  BY <1>2, AddMap
<1>3. CASE ~ ResyncList(p)
  <2>1. Sounder
    BY <1>3, StepSounder
  <2> QED BY <1>2, <1>3, <2>1, DeleteMap, UpdateMap, LimitMap, ReadLimitMap, GetMap, DomainMap, SaslMap,
             ResyncWriteMap, ResyncReloadMap, ResyncFailsMap, RereadMap DEF Step
<1> QED BY <1>1, <1>3

LEMMA StartMap ==
  ASSUME AppTyped, MapInv, NEW p \in Reqs, Start(p)
  PROVE  MapInv'
<1> SUFFICES ASSUME Sound' PROVE MapBody'
  BY DEF MapInv, MapBody
<1>1. \E r \in ReqType :
        ReqOk(r) /\ r.phase = "out" /\ Begin(p, r) /\ (r.at = "add" => lastId + Cardinality(Adding) < MaxApps)
  BY CreateBegins, RegenerateBegins, DeleteBegins, SaveBegins, DeleteDomainBegins, ReloadBegins, Zenon DEF Start
<1>2. PICK r \in ReqType :
        ReqOk(r) /\ r.phase = "out" /\ Begin(p, r) /\ (r.at = "add" => lastId + Cardinality(Adding) < MaxApps)
  BY <1>1
<1>3. /\ req'[p] = r /\ \A q \in Reqs \ {p} : IF req[q].at \in Ended THEN req'[q] = Blank ELSE req'[q] = req[q]
      /\ met' = (met \/ \E q \in Reqs \ {p} : req[q].at \notin Ended)
      /\ UNCHANGED <<registry, saslVars, mapVars, faults, crashes, history>> /\ req[p].at \in Ended
  BY <1>2, Begun
<1>4. MapBody
  BY <1>3 DEF MapInv, MapBody, Sound, history
<1>5. \A q \in Reqs : req[q].at \in Ended => ~ StillToList(req[q]) /\ ~ StillToReread(req[q]) /\ req[q].phase # "listed"
  <2>1. ASSUME NEW q \in Reqs, req[q].at \in Ended
        PROVE ~ StillToList(req[q]) /\ ~ StillToReread(req[q]) /\ req[q].phase # "listed"
    <3>1. ReqOk(req[q])
      BY DEF AppTyped, ReqsOk
    <3>2. req[q].phase \notin {"listed", "written"}
      BY <2>1, <3>1 DEF ReqOk, SyncSteps, Ended
    <3> QED BY <2>1, <3>2 DEF StillToList, StillToReread, Steps, Rollback, Ended
  <2> QED BY <2>1
<1>6. \A q \in Reqs : req[q].at \notin Ended => req'[q] = req[q]
  BY <1>3
<1>7. \A q \in Reqs : req'[q].phase = "listed" => req'[q] = req[q]
  BY <1>2, <1>3 DEF Blank
<1>8. ListBindings' = ListBindings /\ mapFile' = mapFile /\ live' = live
  BY <1>3 DEF ListBindings, registry, mapVars
<1>9. \/ \A q \in Reqs : req'[q].phase = "listed" => req'[q].bindings = ListBindings'
      \/ \E q \in Reqs : StillToList(req'[q])
  BY <1>4, <1>5, <1>6, <1>7, <1>8 DEF MapBody
<1>10. \/ mapFile' = ListBindings'
       \/ \E q \in Reqs : StillToList(req'[q]) \/ req'[q].phase = "listed"
  BY <1>4, <1>5, <1>6, <1>8 DEF MapBody
<1>11. live' = mapFile' \/ \E q \in Reqs : StillToReread(req'[q])
  BY <1>4, <1>5, <1>6, <1>8 DEF MapBody
<1> QED BY <1>9, <1>10, <1>11 DEF MapBody, StillToList, StillToReread

LEMMA NextMap ==
  ASSUME AppTyped, AloneInv, MapInv, [Next]_vars
  PROVE  MapInv'
<1>1. CASE Crash
  <2>1. drift' = TRUE /\ crashes' # 0
    BY <1>1 DEF Crash, AppTyped, TablesOk
  <2> QED BY <2>1 DEF MapInv, Sound
<1>2. CASE UNCHANGED vars
  BY <1>2 DEF MapInv, Sound, ListBindings, StillToList, StillToReread, vars, registry, mapVars, bounds, history
<1>3. ASSUME NEW p \in Reqs, Start(p) PROVE MapInv'
  BY <1>3, StartMap
<1>4. ASSUME NEW p \in Reqs, Step(p) PROVE MapInv'
  BY <1>4, StepMap
<1> QED BY <1>1, <1>2, <1>3, <1>4, Zenon DEF Next, Rest

LEMMA InitMap == Init => MapInv
<1> SUFFICES ASSUME Init PROVE MapInv
  OBVIOUS
<1>1. req = [p \in Reqs |-> Blank] /\ mapFile = ListBindings /\ live = mapFile
  BY DEF Init
<1> QED BY <1>1 DEF MapInv, Blank

\* Unless a call failed, whoever made the map, or what Postfix read of it, fall
\* behind the registry still has a rebuild before it (Service.Resync,
\* RebuildSenderLoginMaps).
THEOREM MapAlways == Spec => []MapInv
<1>1. AppTyped /\ AloneInv /\ MapInv /\ [Next]_vars => MapInv'
  BY NextMap
<1> QED BY InitMap, <1>1, AppTypedAlways, AloneAlways, PTL DEF Spec

-----------------------------------------------------------------------------
(* A save that fails.                                                      *)

\* Faults and kills only grow in number.
LEMMA CountsGrow ==
  ASSUME AppTyped, [Next]_vars
  PROVE  /\ faults \in Nat /\ crashes \in Nat /\ faults' \in Nat /\ crashes' \in Nat
         /\ faults <= faults' /\ crashes <= crashes' /\ (met => met')
<1>0. TablesOk /\ TablesOk'
  BY NextTyped DEF AppTyped
<1>1. ASSUME NEW p \in Reqs, Start(p) PROVE faults' = faults /\ crashes' = crashes
  BY <1>1 DEF Start, StartCreate, StartRegenerate, StartDelete, StartSave, StartDeleteDomain, StartReload, Begin
<1>2. ASSUME NEW p \in Reqs, Step(p) PROVE crashes' = crashes /\ (faults' = faults \/ faults' = faults + 1)
  BY <1>2 DEF Step, AddApplication, DeleteApplication, UpdateApplication, SaveRateLimit, ReadLimit, GetApplication,
     DeleteRateLimitsForDomain, DeleteDomain, SaslCopy, SaslRename, SaslFails, Purged, ResyncList, ResyncWrite,
     ResyncReload, ResyncFails, ReloadPostfix, Fault, bounds
<1>3. Crash => faults' = faults /\ crashes' = crashes + 1
  BY DEF Crash
<1>4. UNCHANGED vars => faults' = faults /\ crashes' = crashes
  BY DEF vars, bounds
<1>5. (faults' = faults \/ faults' = faults + 1) /\ (crashes' = crashes \/ crashes' = crashes + 1)
  BY <1>1, <1>2, <1>3, <1>4, Zenon DEF Next, Rest
<1>6. faults \in Nat /\ crashes \in Nat /\ faults' \in Nat /\ crashes' \in Nat
  BY <1>0, AppConstants DEF TablesOk
<1> QED BY <1>5, <1>6, MetStays

\* A step changes its own request, which stays the request it is.
LEMMA StepMoves ==
  ASSUME AppTyped, NEW p \in Reqs, Step(p)
  PROVE  OthersSame(p) /\ req'[p].kind = req[p].kind /\ req[p].at \notin Ended
<1>0. ReqsOk /\ ReqOk(req[p]) /\ req[p] \in ReqType
  BY DEF AppTyped, ReqsOk
<1>1. ASSUME req[p].at \notin Ended,
             \/ Succeed(p) /\ req[p].at # "add" /\ UNCHANGED bounds
             \/ Fail(p) /\ UNCHANGED bounds
             \/ Fault(p)
      PROVE  OthersSame(p) /\ req'[p].kind = req[p].kind
  BY <1>1, CallFacts DEF SameBut
<1>2. CASE AddApplication(p)
  <2>1. req[p].at = "add" /\ req[p].kind = "create"
    BY <1>2, AddMoves
  <2>2. CASE (Fail(p) /\ UNCHANGED bounds) \/ Fault(p)
    BY <1>1, <2>1, <2>2 DEF Ended
  <2>3. CASE ~ ((Fail(p) /\ UNCHANGED bounds) \/ Fault(p))
    <3>1. OthersSame(p) /\ req'[p].kind = "create"
      BY <1>2, AddMoves
    <3> QED BY <2>1, <3>1 DEF Ended
  <2> QED BY <2>2, <2>3
<1>3. CASE DeleteApplication(p) \/ UpdateApplication(p) \/ SaveRateLimit(p)
  BY <1>1, <1>3 DEF DeleteApplication, UpdateApplication, SaveRateLimit, At, Ended
<1>4. CASE GetApplication(p) \/ DeleteRateLimitsForDomain(p) \/ DeleteDomain(p) \/ ReloadPostfix(p)
  BY <1>1, <1>4 DEF GetApplication, DeleteRateLimitsForDomain, DeleteDomain, ReloadPostfix, At, Ended
<1>5. CASE ReadLimit(p)
  <2>1. req[p].at = "readLimit"
    BY <1>5 DEF ReadLimit, At
  <2>2. CASE Fault(p)
    BY <1>1, <2>1, <2>2 DEF Ended
  <2>3. CASE ~ Fault(p)
    <3> DEFINE x == limits[req[p].id]
               d == [req[p] EXCEPT !.at = "mode", !.limitBefore = x]
    <3>1. req' = [req EXCEPT ![p] = d]
      BY <1>5, <2>3 DEF ReadLimit
    <3> HIDE DEF x
    <3>2. d.kind = req[p].kind
      BY <1>0 DEF ReqType
    <3> HIDE DEF d
    <3> QED BY <1>0, <2>1, <3>1, <3>2 DEF OthersSame, ReqsOk, Ended
  <2> QED BY <2>2, <2>3
<1>6. CASE SaslCopy(p)
  BY <1>6, SaslCopyTyped DEF SaslCopy, At, SaslSteps, SameBut, Ended
<1>7. CASE SaslRename(p)
  BY <1>0, <1>7, SaslRenameMoves DEF SaslSteps, SameBut, Ended, ReqType
<1>8. CASE SaslFails(p)
  <2>1. req[p].at \notin Ended /\ Fault(p)
    BY <1>0, <1>8 DEF SaslFails, ReqOk, SaslSteps, Ended
  <2> QED BY <1>1, <2>1
<1>9. CASE Purged(p)
  BY <1>9, PurgedTyped DEF Purged, At, SameBut, Ended
<1>10. CASE ResyncList(p)
  BY <1>10, ResyncListMoves DEF SyncSteps, Ended
<1>11. CASE ResyncWrite(p)
  <2>1. req[p].at \notin Ended
    BY <1>11, ResyncHolder DEF ResyncWrite
  <2> QED BY <1>11, <2>1, ResyncWriteTyped DEF SameBut
<1>12. CASE ResyncReload(p) \/ ResyncFails(p)
  <2>1. req[p].at \notin Ended \cup {"add"} /\ ((Succeed(p) /\ UNCHANGED bounds) \/ Fault(p))
    BY <1>12, ResyncHolder DEF ResyncReload, ResyncFails
  <2> QED BY <1>1, <2>1
<1> QED BY <1>2, <1>3, <1>4, <1>5, <1>6, <1>7, <1>8, <1>9, <1>10, <1>11, <1>12 DEF Step

\* The map as it was before the save does not depend on what the save wrote.
LEMMA MapBeforeStays ==
  ASSUME TablesOk, NEW p \in Reqs, NEW x, rows' = rows \/ rows' = [rows EXCEPT ![req[p].id] = x],
         req'[p].id = req[p].id, req'[p].before = req[p].before
  PROVE  MapBefore(req[p])' = MapBefore(req[p])
<1>1. [rows' EXCEPT ![req[p].id] = req[p].before] = [rows EXCEPT ![req[p].id] = req[p].before]
  BY DEF TablesOk
<1> QED BY <1>1 DEF MapBefore

\* When the row is as before, the map the registry makes is the one before.
LEMMA MapBeforeNow ==
  ASSUME TablesOk, NEW r, r.id \in Ids, rows[r.id] = r.before
  PROVE  MapBefore(r) = ListBindings
<1>1. [rows EXCEPT ![r.id] = r.before] = rows
  BY DEF TablesOk
<1> QED BY <1>1 DEF MapBefore, ListBindings

SaveNow(p) ==
  /\ AppTyped /\ Undisturbed(req[p]) /\ SaveOk(req[p]) /\ req[p].kind = "save"
  /\ crashes = 0 /\ crashes' = 0 /\ faults' <= 1

\* What is known of a save that makes a call.
LEMMA SaveCall ==
  ASSUME NEW p \in Reqs, SaveNow(p), req[p].at \notin Ended,
         \/ Succeed(p) /\ UNCHANGED bounds
         \/ Fault(p)
  PROVE  /\ ReqOk(req[p]) /\ TablesOk /\ req[p].id \in Ids /\ req[p].before \in Row
         /\ rows[req[p].id] # None /\ rows[req[p].id].login = req[p].before.login
         /\ req'[p].id = req[p].id /\ req'[p].before = req[p].before /\ req'[p].limitBefore = req[p].limitBefore
         /\ req'[p].phase = "out"
         /\ \/ Succeed(p) /\ UNCHANGED bounds /\ faults' = faults /\ req'[p].at = After("save", req[p].at)
            \/ /\ Fault(p) /\ faults = 0 /\ faults' = 1 /\ req'[p].at = OnError("save", req[p].at)
               /\ req[p].at \notin Rollback
<1>0. /\ AppTyped /\ ReqsOk /\ ReqOk(req[p]) /\ TablesOk /\ req[p].kind = "save" /\ req[p].id \in Ids /\ req[p].before \in Row
      /\ crashes = 0 /\ faults' <= 1
  BY DEF SaveNow, AppTyped, ReqsOk, ReqOk
<1>1. rows[req[p].id] # None /\ rows[req[p].id].login = req[p].before.login
  BY <1>0 DEF SaveNow, Undisturbed
<1>2. req[p].at \in Rollback => faults >= 1
  BY <1>0 DEF SaveNow, Undisturbed
<1>3. req[p].at # "add"
  BY <1>0, KindOf
<1>4. SameBut(req[p], req'[p]) /\ req'[p].phase = "out"
  BY <1>0, <1>3, CallFacts, OutPhase
<1>5. CASE Succeed(p) /\ UNCHANGED bounds
  <2>1. req'[p].at = After("save", req[p].at)
    BY <1>0, <1>3, <1>5, SucceedMoves
  <2> QED BY <1>0, <1>1, <1>4, <1>5, <2>1 DEF SameBut, bounds
<1>6. CASE Fault(p)
  <2>1. Fail(p) /\ faults' = faults + 1
    BY <1>6 DEF Fault
  <2>2. req'[p].at = OnError("save", req[p].at)
    BY <1>0, <2>1, FailMoves
  <2>3. faults = 0
    BY <1>0, <2>1 DEF TablesOk
  <2> QED BY <1>0, <1>1, <1>2, <1>4, <1>6, <2>1, <2>2, <2>3 DEF SameBut
<1> QED BY <1>5, <1>6

LEMMA UpdateSave ==
  ASSUME NEW p \in Reqs, SaveNow(p), UpdateApplication(p)
  PROVE  SaveOk(req[p])'
<1> DEFINE r == req[p]  s == req[p].at  t == req'[p].at  i == req[p].id  b == req[p].before
<1>0. /\ s \in {"mode", "ips", "mode2", "ips2"} /\ UNCHANGED <<live, mapFile, limits>> /\ TablesOk /\ ReqsOk /\ SaveOk(r)
      /\ s \notin Ended /\ Undisturbed(r) /\ r.kind = "save" /\ r.phase = "out"
  BY DEF UpdateApplication, At, SaveNow, AppTyped, registry, mapVars, Ended
<1>1. \/ Succeed(p) /\ UNCHANGED bounds /\ rows' = [rows EXCEPT ![i] = Updated(p)]
      \/ Fault(p) /\ rows' = rows
  BY <1>0 DEF UpdateApplication, Undisturbed, registry
<1>2. /\ i \in Ids /\ b \in Row /\ rows[i] # None /\ rows[i].login = b.login
      /\ req'[p].id = i /\ req'[p].before = b /\ req'[p].limitBefore = r.limitBefore /\ req'[p].phase = "out"
  BY <1>0, <1>1, SaveCall
<1>3. /\ Updated(p) \in Row /\ Updated(p).login = b.login
      /\ s = "mode2" => Updated(p).rule = b.rule
      /\ s = "ips2" => Updated(p).rule = rows[i].rule /\ Updated(p).ips = b.ips
  BY <1>0, <1>2, UpdatedRow
<1>4. MapBefore(r)' = MapBefore(r)
  BY <1>0, <1>1, <1>2, MapBeforeStays
<1>5. CASE Succeed(p) /\ rows' = [rows EXCEPT ![i] = Updated(p)] /\ UNCHANGED bounds
  <2>1. t = After("save", s) /\ faults' = faults
    <3>1. t = After("save", s)
      BY <1>0, <1>5, SucceedMoves DEF Ended
    <3> QED BY <1>5, <3>1 DEF bounds
  <2>2. rows'[i] = Updated(p)
    BY <1>0, <1>2, <1>5 DEF TablesOk
  <2>3. CASE s = "mode"
    <3>1. t = "ips"
      BY <2>1, <2>3, SaveRoute
    <3> QED BY <1>0, <1>2, <1>4, <2>1, <2>3, <3>1 DEF SaveOk
  <2>4. CASE s = "ips"
    <3>1. t = "limit"
      BY <2>1, <2>4, SaveRoute
    <3> QED BY <1>0, <1>2, <1>4, <2>1, <2>4, <3>1 DEF SaveOk
  <2>5. CASE s = "mode2"
    <3>1. t = "ips2"
      BY <2>1, <2>5, SaveRoute
    <3> QED BY <1>0, <1>2, <1>3, <1>4, <2>1, <2>2, <2>5, <3>1 DEF SaveOk
  <2>6. CASE s = "ips2"
    <3>1. t = "limit2"
      BY <2>1, <2>6, SaveRoute
    <3>2. Updated(p).rule = b.rule
      BY <1>0, <1>3, <2>6 DEF SaveOk
    <3>3. Updated(p) = b
      <4> DEFINE u == Updated(p)
      <4>1. u \in Row /\ b \in Row /\ u.login = b.login /\ u.rule = b.rule /\ u.ips = b.ips
        BY <1>2, <1>3, <2>6, <3>2
      <4> HIDE DEF u, b
      <4>2. u = b
        BY <4>1 DEF Row
      <4> QED BY <4>2 DEF u
    <3> QED BY <1>0, <1>2, <1>4, <2>1, <2>2, <2>6, <3>1, <3>3 DEF SaveOk
  <2> QED BY <1>0, <2>3, <2>4, <2>5, <2>6
<1>6. CASE Fault(p) /\ rows' = rows
  <2>1. t = OnError("save", s) /\ faults = 0 /\ s \notin Rollback
    <3>1. faults' = faults + 1 /\ faults' <= 1
      BY <1>6 DEF Fault, SaveNow
    <3>2. faults = 0
      BY <1>0, <3>1 DEF TablesOk
    <3>3. s \notin Rollback
      BY <1>0, <3>2 DEF Undisturbed, SaveNow
    <3>4. Fail(p)
      BY <1>6 DEF Fault
    <3> QED BY <1>0, <3>2, <3>3, <3>4, FailMoves
  <2>2. t = "mode2" /\ s \in {"mode", "ips"}
    BY <1>0, <2>1, SaveRoute DEF Rollback
  <2> QED BY <1>0, <1>2, <1>4, <2>1, <2>2 DEF SaveOk
<1> QED BY <1>1, <1>5, <1>6

LEMMA LimitSave ==
  ASSUME NEW p \in Reqs, SaveNow(p), SaveRateLimit(p)
  PROVE  SaveOk(req[p])'
<1> DEFINE r == req[p]  s == req[p].at  t == req'[p].at  i == req[p].id
<1>0. /\ s \in {"limit", "limit2", "clear", "clear2"} /\ UNCHANGED <<live, mapFile, rows>> /\ TablesOk /\ ReqOk(r) /\ SaveOk(r)
      /\ s \notin Ended /\ r.kind = "save" /\ r.phase = "out"
      /\ \/ Succeed(p) /\ UNCHANGED bounds /\ limits' = [limits EXCEPT ![i] = LimitWritten(p)]
         \/ Fault(p)
  BY DEF SaveRateLimit, At, SaveNow, AppTyped, ReqsOk, mapVars, Ended
<1>1. s \in {"limit", "limit2"}
  BY <1>0, KindOf
<1>2. /\ i \in Ids
      /\ req'[p].id = i /\ req'[p].before = r.before /\ req'[p].limitBefore = r.limitBefore /\ req'[p].phase = "out"
      /\ \/ Succeed(p) /\ UNCHANGED bounds /\ faults' = faults /\ t = After("save", s)
         \/ Fault(p) /\ faults = 0 /\ faults' = 1 /\ t = OnError("save", s) /\ s \notin Rollback
  BY <1>0, SaveCall
<1>3. MapBefore(r)' = MapBefore(r)
  BY <1>0, <1>2, MapBeforeStays
<1>4. CASE s = "limit"
  <2>1. (t = "sync" /\ faults' = faults) \/ (t = "mode2" /\ faults = 0 /\ faults' = 1)
    BY <1>2, <1>4, SaveRoute
  <2> QED BY <1>0, <1>2, <1>3, <1>4, <2>1 DEF SaveOk
<1>5. CASE s = "limit2"
  <2>1. t = "sync2" /\ faults' = faults /\ ~ Fault(p)
    <3>1. s \in Rollback
      BY <1>5 DEF Rollback
    <3>2. t = After("save", s) /\ faults' = faults /\ UNCHANGED bounds
      BY <1>2, <3>1
    <3>3. ~ Fault(p)
      BY <1>0, <3>2 DEF Fault, bounds, TablesOk
    <3> QED BY <1>5, <3>2, <3>3, SaveRoute
  <2>2. limits'[i] = r.limitBefore
    BY <1>0, <1>2, <1>5, <2>1 DEF LimitWritten, TablesOk
  <2> QED BY <1>0, <1>2, <1>3, <1>5, <2>1, <2>2 DEF SaveOk
<1> QED BY <1>1, <1>4, <1>5

LEMMA ReadLimitSave ==
  ASSUME NEW p \in Reqs, SaveNow(p), ReadLimit(p)
  PROVE  SaveOk(req[p])'
<1> DEFINE r == req[p]  i == req[p].id
<1>0. /\ r.at = "readLimit" /\ UNCHANGED <<live, mapFile, rows, limits>> /\ TablesOk /\ ReqsOk /\ ReqOk(r) /\ SaveOk(r)
      /\ r.at \notin Ended /\ r.kind = "save" /\ r.phase = "out" /\ r \in ReqType
  BY DEF ReadLimit, At, SaveNow, AppTyped, ReqsOk, registry, mapVars, Ended
<1>1. CASE Fault(p)
  <2>1. /\ req'[p].id = i /\ req'[p].before = r.before /\ req'[p].limitBefore = r.limitBefore /\ req'[p].phase = "out"
        /\ i \in Ids /\ faults = 0 /\ req'[p].at = "err"
    <3>1. /\ req'[p].id = i /\ req'[p].before = r.before /\ req'[p].limitBefore = r.limitBefore /\ req'[p].phase = "out"
          /\ i \in Ids
          /\ \/ Succeed(p) /\ UNCHANGED bounds /\ faults' = faults /\ req'[p].at = After("save", r.at)
             \/ Fault(p) /\ faults = 0 /\ faults' = 1 /\ req'[p].at = OnError("save", r.at) /\ r.at \notin Rollback
      BY <1>0, <1>1, SaveCall
    <3>2. faults' = faults + 1
      BY <1>1 DEF Fault
    <3> QED BY <1>0, <3>1, <3>2, SaveRoute DEF TablesOk
  <2>2. MapBefore(r)' = MapBefore(r)
    BY <1>0, <2>1, MapBeforeStays
  <2> QED BY <1>0, <2>1, <2>2 DEF SaveOk
<1>2. CASE ~ Fault(p)
  <2> DEFINE x == limits[i]
             d == [req[p] EXCEPT !.at = "mode", !.limitBefore = x]
  <2>1. req' = [req EXCEPT ![p] = d] /\ UNCHANGED <<history, bounds>>
    BY <1>2 DEF ReadLimit
  <2> HIDE DEF x
  <2>2. d.at = "mode" /\ d.id = i /\ d.before = r.before /\ d.limitBefore = x /\ d.phase = "out"
    BY <1>0 DEF ReqType
  <2> HIDE DEF d
  <2>3. req'[p] = d
    BY <1>0, <2>1 DEF ReqsOk
  <2>4. MapBefore(r)' = MapBefore(r)
    BY <1>0, <2>2, <2>3, MapBeforeStays
  <2> QED BY <1>0, <2>1, <2>2, <2>3, <2>4 DEF SaveOk, bounds, x
<1> QED BY <1>1, <1>2

LEMMA ResyncSave ==
  ASSUME NEW p \in Reqs, SaveNow(p), ResyncList(p) \/ ResyncWrite(p) \/ ResyncReload(p) \/ ResyncFails(p)
  PROVE  SaveOk(req[p])'
<1> DEFINE r == req[p]  s == req[p].at  t == req'[p].at  i == req[p].id
<1>0. /\ UNCHANGED <<rows, limits>> /\ TablesOk /\ ReqOk(r) /\ SaveOk(r) /\ r.kind = "save" /\ AppTyped
      /\ s \in {"sync", "sync2"} /\ s \notin Ended /\ i \in Ids
  <2>1. /\ UNCHANGED <<rows, limits>> /\ TablesOk /\ ReqOk(r) /\ SaveOk(r) /\ r.kind = "save" /\ AppTyped
    BY DEF ResyncList, ResyncWrite, ResyncReload, ResyncFails, registry, SaveNow, AppTyped, ReqsOk
  <2>2. s \in {"sync", "sync2"}
    BY <2>1, ResyncHolder DEF ResyncList, ResyncWrite, ResyncReload, ResyncFails, At, SyncSteps
  <2> QED BY <2>1, <2>2 DEF ReqOk, Ended
<1>1. s = "sync2" => MapBefore(r) = ListBindings
  BY <1>0, MapBeforeNow DEF SaveOk
<1>2. CASE ResyncList(p)
  <2>1. /\ t = s /\ req'[p].id = i /\ req'[p].before = r.before /\ req'[p].limitBefore = r.limitBefore
        /\ req'[p].phase = "listed" /\ req'[p].bindings = ListBindings /\ r.phase = "out"
    BY <1>0, <1>2, ResyncListMoves
  <2>2. UNCHANGED <<mapFile, live, faults>>
    BY <1>2 DEF ResyncList, bounds
  <2>3. MapBefore(r)' = MapBefore(r)
    BY <1>0, <2>1, MapBeforeStays
  <2> QED BY <1>0, <1>1, <2>1, <2>2, <2>3 DEF SaveOk
<1>3. CASE ResyncWrite(p)
  <2>0. r.phase = "listed" /\ live' = live /\ UNCHANGED bounds
    BY <1>3 DEF ResyncWrite
  <2>1. /\ SameBut(r, req'[p])
        /\ \/ mapFile = r.bindings /\ Succeed(p) /\ mapFile' = mapFile
           \/ mapFile' = r.bindings /\ t = s /\ req'[p].phase = "written"
    BY <1>0, <1>3, ResyncWriteTyped
  <2>2. MapBefore(r)' = MapBefore(r)
    BY <1>0, <2>1, MapBeforeStays DEF SameBut
  <2>3. CASE mapFile = r.bindings /\ Succeed(p) /\ mapFile' = mapFile
    <3>1. t = After("save", s)
      BY <1>0, <2>0, <2>3, SaveCall, SucceedMoves DEF SaveNow, AppTyped, SyncSteps
    <3>2. IF s = "sync" THEN t = "ok" ELSE t = "err"
      BY <1>0, <3>1, SaveRoute
    <3> QED BY <1>0, <2>0, <2>1, <2>2, <2>3, <3>2 DEF SaveOk, SameBut
  <2>4. CASE mapFile' = r.bindings /\ t = s /\ req'[p].phase = "written"
    BY <1>0, <2>0, <2>1, <2>2, <2>4 DEF SaveOk, SameBut, bounds
  <2> QED BY <2>1, <2>3, <2>4
<1>4. CASE ResyncReload(p)
  <2>0. r.phase = "written" /\ live' = mapFile /\ mapFile' = mapFile /\ UNCHANGED bounds /\ Succeed(p)
    BY <1>4 DEF ResyncReload
  <2>1. /\ t = After("save", s) /\ SameBut(r, req'[p])
    BY <1>0, <2>0, SucceedMoves DEF AppTyped
  <2>2. MapBefore(r)' = MapBefore(r)
    BY <1>0, <2>1, MapBeforeStays DEF SameBut
  <2>3. IF s = "sync" THEN t = "ok" ELSE t = "err"
    BY <1>0, <2>1, SaveRoute
  <2> QED BY <1>0, <2>0, <2>1, <2>2, <2>3 DEF SaveOk, SameBut
<1>5. CASE ResyncFails(p)
  <2>0. Fault(p) /\ UNCHANGED <<mapFile, live>>
    BY <1>5 DEF ResyncFails
  <2>1. /\ req'[p].id = i /\ req'[p].before = r.before /\ req'[p].limitBefore = r.limitBefore /\ req'[p].phase = "out"
        /\ \/ Succeed(p) /\ UNCHANGED bounds /\ faults' = faults /\ t = After("save", s)
           \/ Fault(p) /\ faults = 0 /\ faults' = 1 /\ t = OnError("save", s) /\ s \notin Rollback
    BY <1>0, <2>0, SaveCall
  <2>2. faults = 0 /\ t = OnError("save", s) /\ s \notin Rollback
    <3>1. faults' = faults + 1
      BY <2>0 DEF Fault
    <3> QED BY <1>0, <2>1, <3>1 DEF TablesOk
  <2>3. s = "sync" /\ t = "mode2"
    BY <1>0, <2>2, SaveRoute DEF Rollback
  <2>4. MapBefore(r)' = MapBefore(r)
    BY <1>0, <2>1, MapBeforeStays
  <2> QED BY <1>0, <2>0, <2>1, <2>2, <2>3, <2>4 DEF SaveOk
<1> QED BY <1>2, <1>3, <1>4, <1>5

LEMMA StepSave ==
  ASSUME AppTyped, Alone, NEW p \in Reqs, Undisturbed(req[p]), Step(p), crashes = 0, crashes' = 0, faults' <= 1,
         req[p].kind = "save" => SaveOk(req[p])
  PROVE  \A q \in Reqs : req'[q].kind = "save" => SaveOk(req[q])'
<1>0. OthersSame(p) /\ req'[p].kind = req[p].kind /\ req[p].at \notin Ended /\ ReqOk(req[p]) /\ ReqsOk
  BY StepMoves DEF AppTyped, ReqsOk
<1>1. req[p].kind # "none"
  BY <1>0, KindOf DEF Ended
<1>2. \A q \in Reqs \ {p} : req'[q].kind = "none"
  BY <1>0, <1>1 DEF Alone, OthersSame
<1>3. ASSUME req[p].kind = "save" PROVE SaveOk(req[p])'
  <2>1. SaveNow(p)
    BY <1>3 DEF SaveNow
  <2>2. req[p].at \notin {"add", "get", "drop1", "unset1", "clear2", "unset2", "drop2", "set", "unset", "drop",
                          "clear", "purge", "limits", "dropDomain", "reread"}
    BY <1>0, <1>3, KindOf
  <2>3. ~ (\/ AddApplication(p) \/ DeleteApplication(p) \/ GetApplication(p) \/ DeleteRateLimitsForDomain(p)
           \/ DeleteDomain(p) \/ SaslCopy(p) \/ Purged(p) \/ ReloadPostfix(p))
    BY <2>2 DEF AddApplication, DeleteApplication, GetApplication, DeleteRateLimitsForDomain, DeleteDomain, SaslCopy,
       Purged, ReloadPostfix, At, SaslSteps
  <2>4. ~ (SaslRename(p) \/ SaslFails(p))
    BY <1>0, <2>2 DEF SaslRename, SaslFails, ReqOk, SaslSteps
  <2> QED BY <2>1, <2>3, <2>4, UpdateSave, LimitSave, ReadLimitSave, ResyncSave DEF Step
<1> QED BY <1>0, <1>2, <1>3

LEMMA StartSaves ==
  ASSUME AppTyped, AloneInv, MapInv, NEW p \in Reqs, Start(p), ~ met', crashes = 0, faults \in Nat
  PROVE  \A q \in Reqs : req'[q].kind = "save" => SaveOk(req[q])'
<1> DEFINE Starts(r) ==
             r.kind = "save" => /\ r.at = "readLimit" /\ r.id \in Ids /\ rows[r.id] # None
                                /\ r.before = rows[r.id] /\ r.limitBefore = limits[r.id]
<1>1. \E r \in ReqType : /\ ReqOk(r) /\ r.phase = "out" /\ Begin(p, r) /\ Starts(r)
                         /\ r.at = "add" => lastId + Cardinality(Adding) < MaxApps
  <2>1. CASE StartCreate(p)
    BY <2>1, CreateBegins
  <2>2. CASE StartRegenerate(p)
    BY <2>2, RegenerateBegins
  <2>3. CASE StartDelete(p)
    BY <2>3, DeleteBegins
  <2>4. CASE StartSave(p)
    BY <2>4, SaveBegins DEF ReqOk
  <2>5. CASE StartDeleteDomain(p)
    BY <2>5, DeleteDomainBegins
  <2>6. CASE StartReload(p)
    BY <2>6, ReloadBegins
  <2> QED BY <2>1, <2>2, <2>3, <2>4, <2>5, <2>6 DEF Start
<1>2. PICK r \in ReqType : /\ ReqOk(r) /\ r.phase = "out" /\ Begin(p, r) /\ Starts(r)
                           /\ r.at = "add" => lastId + Cardinality(Adding) < MaxApps
  BY <1>1
<1>3. /\ req'[p] = r /\ \A q \in Reqs \ {p} : IF req[q].at \in Ended THEN req'[q] = Blank ELSE req'[q] = req[q]
      /\ met' = (met \/ \E q \in Reqs \ {p} : req[q].at \notin Ended) /\ req[p].at \in Ended
      /\ UNCHANGED <<registry, saslVars, mapVars, faults, crashes, history>>
  BY <1>2, Begun
<1>4. (\A q \in Reqs : req[q].at \in Ended) /\ ~ met
  BY <1>3
<1>5. \A q \in Reqs \ {p} : req'[q].kind # "save"
  BY <1>3, <1>4 DEF Blank
<1>6. faults = 0 => mapFile = ListBindings /\ live = mapFile
  <2>1. \A q \in Reqs : ~ StillToList(req[q]) /\ ~ StillToReread(req[q]) /\ req[q].phase # "listed"
    <3>1. ASSUME NEW q \in Reqs
          PROVE ~ StillToList(req[q]) /\ ~ StillToReread(req[q]) /\ req[q].phase # "listed"
      <4>1. ReqOk(req[q]) /\ req[q].at \in Ended
        BY <1>4 DEF AppTyped, ReqsOk
      <4>2. req[q].phase \notin {"listed", "written"}
        BY <4>1 DEF ReqOk, SyncSteps, Ended
      <4> QED BY <4>1, <4>2 DEF StillToList, StillToReread, Steps, Rollback, Ended
    <3> QED BY <3>1
  <2> QED BY <1>4, <2>1 DEF MapInv, Sound
<1>7. ASSUME r.kind = "save" PROVE SaveOk(r)'
  <2>1. /\ r.at = "readLimit" /\ r.id \in Ids /\ r.before = rows[r.id] /\ r.limitBefore = limits[r.id]
    BY <1>2, <1>7
  <2>2. MapBefore(r) = ListBindings
    BY <2>1, MapBeforeNow DEF AppTyped
  <2>3. UNCHANGED <<rows, limits, mapFile, live, faults>>
    BY <1>3 DEF registry, mapVars
  <2>4. MapBefore(r)' = ListBindings
    BY <2>2, <2>3 DEF MapBefore
  <2> QED BY <1>6, <2>1, <2>3, <2>4 DEF SaveOk
<1> QED BY <1>3, <1>5, <1>7

LEMMA NextSave ==
  ASSUME AppTyped, AloneInv, MapInv, SaveInv, [Next]_vars
  PROVE  SaveInv'
<1> SUFFICES ASSUME crashes' = 0, ~ met', faults' <= 1
             PROVE  \A q \in Reqs : req'[q].kind = "save" => SaveOk(req[q])'
  BY DEF SaveInv
<1>1. crashes = 0 /\ ~ met /\ faults <= 1 /\ faults \in Nat
  <2>1. /\ faults \in Nat /\ crashes \in Nat /\ faults' \in Nat /\ crashes' \in Nat
        /\ faults <= faults' /\ crashes <= crashes' /\ (met => met')
    BY CountsGrow
  <2>2. ~ met
    BY <2>1
  <2> QED BY <2>1, <2>2
<1>2. Alone /\ (\A p \in Reqs : Undisturbed(req[p])) /\ \A p \in Reqs : req[p].kind = "save" => SaveOk(req[p])
  BY <1>1 DEF AloneInv, SaveInv
<1>3. CASE Crash
  BY <1>1, <1>3 DEF Crash
<1>4. CASE UNCHANGED vars
  <2>1. UNCHANGED <<rows, limits, mapFile, live, faults, req>>
    BY <1>4 DEF vars, registry, mapVars, bounds
  <2>2. \A q \in Reqs : MapBefore(req[q])' = MapBefore(req[q])
    BY <2>1 DEF MapBefore
  <2> QED BY <1>2, <2>1, <2>2 DEF SaveOk
<1>5. ASSUME NEW p \in Reqs, Start(p)
      PROVE  \A q \in Reqs : req'[q].kind = "save" => SaveOk(req[q])'
  BY <1>1, <1>5, StartSaves
<1>6. ASSUME NEW p \in Reqs, Step(p)
      PROVE  \A q \in Reqs : req'[q].kind = "save" => SaveOk(req[q])'
  BY <1>1, <1>2, <1>6, StepSave
<1> QED BY <1>3, <1>4, <1>5, <1>6, Zenon DEF Next, Rest

LEMMA SavesAlways == Spec => []SaveInv
<1>1. Init => SaveInv
  BY DEF Init, SaveInv, Blank
<1>2. AppTyped /\ AloneInv /\ MapInv /\ SaveInv /\ [Next]_vars => SaveInv'
  BY NextSave
<1> QED BY <1>1, <1>2, AppTypedAlways, AloneAlways, MapAlways, PTL DEF Spec

-----------------------------------------------------------------------------
(* The properties.                                                         *)

\* The registry, the accounts and the map keep their form, and no id beyond
\* the ids there are is ever given, however the requests' calls interleave
\* and fail (app.Service, Store, SASLDB).
THEOREM ApplicationTypesHold == Spec => []TypeOK
<1>1. AppTyped => TypeOK
  BY DEF AppTyped, TablesOk, Holders, TypeOK, Pairs, Passwords
<1> QED BY <1>1, AppTypedAlways, PTL

\* What the last change of a login reported done is what sasldb2 holds: no
\* change that worked on an older copy is renamed over it (SASLDB.change).
THEOREM NoAccountChangeIsLost == Spec => []NoAccountChangeLost
<1>1. AppTyped => NoAccountChangeLost
  BY DEF AppTyped, CopyCurrent, NoAccountChangeLost
<1> QED BY <1>1, AppTypedAlways, PTL

\* Neither mutex is held by a request that has left its section, after an
\* error or a kill too: nobody waits for a request that is over
\* (SASLDB.change and Service.Resync unlock in a defer).
THEOREM MutexesAreGivenBack == Spec => []MutexesGivenBack
<1>1. AppTyped => MutexesGivenBack
  BY AppConstants DEF AppTyped, Holders, MutexesGivenBack
<1> QED BY <1>1, AppTypedAlways, PTL

\* While requests come one at a time, an account that can authenticate is one
\* the panel lists, or one a rollback tried to remove and could not: in every
\* order of the calls of a creation, a deletion and their rollbacks, whichever
\* of them fails or is the last before the panel is killed (CreateWithSettings,
\* rollbackCreate, Delete, domain.Service.Delete).
THEOREM NoAccountIsOrphaned == Spec => []NoOrphanAccount
<1>1. AloneInv => NoOrphanAccount
  BY DEF AloneInv, NoOrphanAccount
<1> QED BY <1>1, AloneAlways, PTL

\* When every request is over and none failed or was killed since the last
\* Reload configuration, Postfix has read a map that says what the registry
\* says: no interleaving of rebuilds leaves an older listing on disk or in
\* Postfix (Service.Resync under resyncMu, RebuildSenderLoginMaps).
THEOREM MapAlwaysFollowsRegistry == Spec => []MapFollowsRegistry
<1>1. ASSUME AppTyped, MapInv PROVE MapFollowsRegistry
  <2>1. SUFFICES ASSUME Quiet, ~ drift PROVE mapFile = ListBindings /\ live = mapFile
    BY DEF MapFollowsRegistry
  <2>2. \A q \in Reqs : ~ StillToList(req[q]) /\ ~ StillToReread(req[q]) /\ req[q].phase # "listed"
    <3>1. ASSUME NEW q \in Reqs
          PROVE ~ StillToList(req[q]) /\ ~ StillToReread(req[q]) /\ req[q].phase # "listed"
      <4>1. ReqOk(req[q]) /\ req[q].at \in Ended
        BY <1>1, <2>1 DEF AppTyped, ReqsOk, Quiet
      <4>2. req[q].phase \notin {"listed", "written"}
        BY <4>1 DEF ReqOk, SyncSteps, Ended
      <4> QED BY <4>1, <4>2 DEF StillToList, StillToReread, Steps, Rollback, Ended
    <3> QED BY <3>1
  <2> QED BY <1>1, <2>1, <2>2 DEF MapInv, Sound
<1> QED BY <1>1, AppTypedAlways, MapAlways, PTL

\* A save that reports an error, one call of which failed, has put the row, the
\* limit and Postfix's map back to what they were (SaveSettings, restore).
THEOREM FailedSaveIsUndone == Spec => []FailedSaveUndone
<1>1. ASSUME AppTyped, SaveInv PROVE FailedSaveUndone
  <2>1. SUFFICES ASSUME NEW p \in Reqs, crashes = 0, faults <= 1, ~ met, req[p].kind = "save", req[p].at = "err"
                 PROVE  /\ rows[req[p].id] = req[p].before /\ limits[req[p].id] = req[p].limitBefore
                        /\ mapFile = ListBindings /\ live = mapFile
    BY DEF FailedSaveUndone
  <2>2. SaveOk(req[p]) /\ req[p].id \in Ids
    BY <1>1, <2>1 DEF SaveInv, AppTyped, ReqsOk, ReqOk
  <2>3. MapBefore(req[p]) = ListBindings
    BY <1>1, <2>1, <2>2, MapBeforeNow DEF SaveOk, AppTyped
  <2> QED BY <2>1, <2>2, <2>3 DEF SaveOk
<1> QED BY <1>1, AppTypedAlways, SavesAlways, PTL
=============================================================================
