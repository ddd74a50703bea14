----------------------------- MODULE AppService -----------------------------
(***************************************************************************)
(* Applications across their three stores: the registry (SQLite), the SASL *)
(* accounts (sasldb2) and Postfix's sender_login_maps.  Requests of the    *)
(* panel run concurrently (one goroutine per HTTP request); every database *)
(* call is one step, a change of sasldb2 is made to a copy that is renamed *)
(* over the file under SASLDB.mu, and a rebuild of the map reads the       *)
(* bindings, writes the file and has Postfix re-read it under resyncMu.    *)
(* Any of these calls may fail, and the panel may be killed between two.   *)
(*                                                                         *)
(* A form stands for what one POST holds: who the application may send as, *)
(* its client addresses and its rate limit.  A row keeps the form each of  *)
(* its parts was last saved from.                                          *)
(***************************************************************************)
EXTENDS Integers, FiniteSets

CONSTANTS
  Reqs,         \* goroutines that serve requests
  Logins,       \* SASL logins
  Forms,        \* submitted settings
  Unlimited,    \* the forms that give the application no limit of its own
  Kinds,        \* the requests this instance serves
  MaxApps,      \* bound: application ids ever given
  MaxRequests,  \* bound: requests ever started
  MaxFaults,    \* bound: calls that fail
  MaxCrashes,   \* bound: times the panel is killed
  None

ASSUME AppConstants ==
  /\ Unlimited \subseteq Forms
  /\ Kinds \subseteq {"create", "regen", "delete", "save", "delDomain", "reload"}
  /\ MaxApps \in Nat \ {0} /\ {MaxRequests, MaxFaults, MaxCrashes} \subseteq Nat
  /\ IsFiniteSet(Reqs)
  /\ None \notin Reqs \cup Logins \cup Forms \cup Nat

VARIABLES
  domain,     \* whether the domain is registered
  rows,       \* table applications: id -> row or None
  lastId,     \* its AUTOINCREMENT sequence
  limits,     \* table rate_limits, scope application: id -> form or None
  sasl,       \* sasldb2: login -> password or None
  saslNew,    \* sasldb2.new, the copy being changed
  saslMu,     \* holder of SASLDB.mu
  mapFile,    \* sender_login_maps as on disk: <<sender rule, login>> pairs
  live,       \* what Postfix re-read last
  resyncMu,   \* holder of Service.resyncMu
  req,        \* the requests
  started, faults, crashes,
  met,        \* history: two requests have been under way at once
  acked,      \* history: login -> what the last change reported done left there
  drift,      \* history: a request failed or was killed since the last rebuild
              \* by Reload configuration
  leftover    \* history: logins of which a rollback could not remove the account

registry == <<domain, rows, lastId, limits>>
saslVars == <<sasl, saslNew, saslMu>>
mapVars  == <<mapFile, live, resyncMu>>
bounds   == <<started, faults, crashes, met>>
history  == <<acked, drift, leftover>>
vars == <<registry, saslVars, mapVars, req, bounds, history>>

Ids == 1..MaxApps
Row == [login : Logins, rule : Forms, ips : Forms \cup {None}]

\* An application that is not there is told from every row.
ASSUME NoneIsNoRow == None \notin Row

\* What a row makes of the map: one binding per sender rule and login.
Bindings(rs) == {<<rs[i].rule, rs[i].login>> : i \in {j \in Ids : rs[j] # None}}
ListBindings == Bindings(rows)

LimitOf(f) == IF f \in Unlimited THEN None ELSE f

-----------------------------------------------------------------------------
(* The order of the calls in each request.  After is where a request goes  *)
(* when a call succeeds, OnError where it goes when one fails: rollback    *)
(* steps go on to the next whatever happens.                               *)

CreateAfter ==
  [add |-> "set", set |-> "sync", sync |-> "ips", ips |-> "limit",
   limit |-> "get", get |-> "ok",
   drop1 |-> "err", unset1 |-> "drop1",
   clear2 |-> "unset2", unset2 |-> "drop2", drop2 |-> "sync2", sync2 |-> "err"]

\* Mutant: a rebuild that fails rolls back as if no account was written.
CreateOnErrorKeepsAccount ==
  [add |-> "err", set |-> "drop1", sync |-> "drop1", ips |-> "clear2",
   limit |-> "clear2", get |-> "err",
   drop1 |-> "err", unset1 |-> "drop1",
   clear2 |-> "unset2", unset2 |-> "drop2", drop2 |-> "sync2", sync2 |-> "err"]

CreateOnError ==
  [add |-> "err", set |-> "drop1", sync |-> "unset1", ips |-> "clear2",
   limit |-> "clear2", get |-> "err",
   drop1 |-> "err", unset1 |-> "drop1",
   clear2 |-> "unset2", unset2 |-> "drop2", drop2 |-> "sync2", sync2 |-> "err"]

DeleteAfter == [unset |-> "drop", drop |-> "clear", clear |-> "sync", sync |-> "ok"]

SaveAfter ==
  [readLimit |-> "mode", mode |-> "ips", ips |-> "limit", limit |-> "sync", sync |-> "ok",
   mode2 |-> "ips2", ips2 |-> "limit2", limit2 |-> "sync2", sync2 |-> "err"]

\* Mutant: a rebuild that fails is reported without restore().
SaveOnErrorHalfSaved ==
  [readLimit |-> "err", mode |-> "mode2", ips |-> "mode2", limit |-> "mode2",
   sync |-> "err",
   mode2 |-> "ips2", ips2 |-> "limit2", limit2 |-> "sync2", sync2 |-> "err"]

SaveOnError ==
  [readLimit |-> "err", mode |-> "mode2", ips |-> "mode2", limit |-> "mode2",
   sync |-> "mode2",
   mode2 |-> "ips2", ips2 |-> "limit2", limit2 |-> "sync2", sync2 |-> "err"]

DelDomainAfter ==
  [purge |-> "purge", limits |-> "dropDomain", dropDomain |-> "sync", sync |-> "ok"]

After(k, s) ==
  CASE k = "create"    -> CreateAfter[s]
    [] k = "regen"     -> "ok"
    [] k = "delete"    -> DeleteAfter[s]
    [] k = "save"      -> SaveAfter[s]
    [] k = "delDomain" -> DelDomainAfter[s]
    [] k = "reload"    -> IF s = "sync" THEN "reread" ELSE "ok"

OnError(k, s) ==
  CASE k = "create" -> CreateOnError[s]
    [] k = "save"   -> SaveOnError[s]
    [] OTHER        -> "err"

Ended == {"idle", "ok", "err"}

\* Moves request p to step s; phase is where it is inside a locked section.
Goto(p, s) ==
  req' = [req EXCEPT ![p].at = s, ![p].phase = "out"]

Succeed(p) ==
  LET s == After(req[p].kind, req[p].at) IN
  /\ Goto(p, s)
  /\ drift' = (drift \/ s = "err")
  /\ UNCHANGED <<acked, leftover>>

Fail(p) ==
  LET s == OnError(req[p].kind, req[p].at) IN
  /\ Goto(p, s)
  /\ drift' = (drift \/ s = "err")
  /\ leftover' = IF req[p].at \in {"unset1", "unset2"} THEN leftover \cup {req[p].login} ELSE leftover
  /\ UNCHANGED acked

\* One more call fails.
Fault(p) ==
  /\ faults < MaxFaults
  /\ faults' = faults + 1
  /\ UNCHANGED <<started, crashes, met>>
  /\ Fail(p)

At(p, steps) == req[p].at \in steps /\ req[p].phase = "out"

-----------------------------------------------------------------------------
(* The registry *)

\* Store.AddApplication: UNIQUE(login) and the domain's foreign key decide.
AddApplication(p) ==
  LET l == req[p].login
      free == domain /\ \A i \in Ids : rows[i] # None => rows[i].login # l IN
  /\ At(p, {"add"})
  /\ \/ /\ free
        /\ lastId' = lastId + 1
        /\ rows' = [rows EXCEPT ![lastId'] = [login |-> l, rule |-> req[p].form, ips |-> None]]
        /\ req' = [req EXCEPT ![p].at = "set", ![p].id = lastId']
        /\ UNCHANGED <<domain, limits, history, bounds>>
     \/ ~free /\ Fail(p) /\ UNCHANGED <<registry, bounds>>
     \/ Fault(p) /\ UNCHANGED registry
  /\ UNCHANGED <<saslVars, mapVars>>

\* Store.DeleteApplication, of Delete and of rollbackCreate.
DeleteApplication(p) ==
  LET i == req[p].id IN
  /\ At(p, {"drop", "drop1", "drop2"})
  /\ \/ /\ rows[i] # None
        /\ rows' = [rows EXCEPT ![i] = None]
        /\ Succeed(p) /\ UNCHANGED <<domain, lastId, limits, bounds>>
     \/ rows[i] = None /\ Fail(p) /\ UNCHANGED <<registry, bounds>>
     \/ Fault(p) /\ UNCHANGED registry
  /\ UNCHANGED <<saslVars, mapVars>>

\* The row with the part one update writes: from the submitted form or, in
\* restore(), from the row read at the start.
Updated(p) ==
  LET r == req[p] row == rows[r.id] IN
  CASE r.at = "mode"  -> [row EXCEPT !.rule = r.form]
    [] r.at = "ips"   -> [row EXCEPT !.ips = r.form]
    [] r.at = "mode2" -> [row EXCEPT !.rule = r.before.rule]
    [] r.at = "ips2"  -> [row EXCEPT !.ips = r.before.ips]

\* Store.UpdateApplicationMode and Store.UpdateApplicationAuthIPs.
UpdateApplication(p) ==
  LET i == req[p].id IN
  /\ At(p, {"mode", "ips", "mode2", "ips2"})
  /\ \/ /\ rows[i] # None
        /\ rows' = [rows EXCEPT ![i] = Updated(p)]
        /\ Succeed(p) /\ UNCHANGED <<domain, lastId, limits, bounds>>
     \/ rows[i] = None /\ Fail(p) /\ UNCHANGED <<registry, bounds>>
     \/ Fault(p) /\ UNCHANGED registry
  /\ UNCHANGED <<saslVars, mapVars>>

\* What a step leaves in rate_limits: the form's limit, none when it is
\* cleared, or in restore() what was there.
LimitWritten(p) ==
  CASE req[p].at = "limit"  -> LimitOf(req[p].form)
    [] req[p].at = "limit2" -> req[p].limitBefore
    [] OTHER                -> None

\* SetRateLimit or DeleteRateLimit; neither looks at the application's row.
\* An automatic limit is written and then derived (recalc), which may fail.
SaveRateLimit(p) ==
  LET i == req[p].id
      write == limits' = [limits EXCEPT ![i] = LimitWritten(p)] IN
  /\ At(p, {"limit", "limit2", "clear", "clear2"})
  /\ \/ write /\ Succeed(p) /\ UNCHANGED bounds
     \/ write /\ req[p].at = "limit" /\ LimitWritten(p) # None /\ Fault(p)
     \/ UNCHANGED limits /\ Fault(p)
  /\ UNCHANGED <<domain, rows, lastId, saslVars, mapVars>>

\* SaveSettings reads the limit in force after the row.
ReadLimit(p) ==
  /\ At(p, {"readLimit"})
  /\ \/ /\ req' = [req EXCEPT ![p].at = "mode", ![p].limitBefore = limits[req[p].id]]
        /\ UNCHANGED <<history, bounds>>
     \/ Fault(p)
  /\ UNCHANGED <<registry, saslVars, mapVars>>

\* CreateWithSettings ends by reading the application back.
GetApplication(p) ==
  /\ At(p, {"get"})
  /\ \/ rows[req[p].id] # None /\ Succeed(p) /\ UNCHANGED bounds
     \/ rows[req[p].id] = None /\ Fail(p) /\ UNCHANGED bounds
     \/ Fault(p)
  /\ UNCHANGED <<registry, saslVars, mapVars>>

\* domain.Service.Delete: the limits of its applications, then its row; the
\* application rows go with it (ON DELETE CASCADE).
DeleteRateLimitsForDomain(p) ==
  /\ At(p, {"limits"})
  /\ \/ /\ limits' = [i \in Ids |-> IF rows[i] # None THEN None ELSE limits[i]]
        /\ Succeed(p) /\ UNCHANGED bounds
     \/ Fault(p) /\ UNCHANGED limits
  /\ UNCHANGED <<domain, rows, lastId, saslVars, mapVars>>

DeleteDomain(p) ==
  /\ At(p, {"dropDomain"})
  /\ \/ /\ domain
        /\ domain' = FALSE
        /\ rows' = [i \in Ids |-> None]
        /\ Succeed(p) /\ UNCHANGED bounds
     \/ ~domain /\ Fail(p) /\ UNCHANGED <<domain, rows, bounds>>
     \/ Fault(p) /\ UNCHANGED <<domain, rows>>
  /\ UNCHANGED <<lastId, limits, saslVars, mapVars>>

-----------------------------------------------------------------------------
(* sasldb2 *)

SaslSteps == {"set", "unset", "unset1", "unset2"}

\* Mutant: the change is made without mu.
SaslCopyUnlocked(p) ==
  /\ \/ At(p, SaslSteps)
     \/ At(p, {"purge"}) /\ req[p].todo # {}
  /\ saslMu' = p
  /\ saslNew' = sasl
  /\ req' = [req EXCEPT ![p].phase = "copied"]
  /\ UNCHANGED <<registry, sasl, mapVars, bounds, history>>

\* SASLDB.change takes mu; replaceSASLDB copies the file.
SaslCopy(p) ==
  /\ \/ At(p, SaslSteps)
     \/ At(p, {"purge"}) /\ req[p].todo # {}
  /\ saslMu = None
  /\ saslMu' = p
  /\ saslNew' = sasl
  /\ req' = [req EXCEPT ![p].phase = "copied"]
  /\ UNCHANGED <<registry, sasl, mapVars, bounds, history>>

\* The login saslpasswd2 is run for; a domain's purge takes them one by one.
SaslLogins(p) == IF req[p].at = "purge" THEN req[p].todo ELSE {req[p].login}

\* saslpasswd2 changes the copy, which is renamed over the file.
SaslRename(p) ==
  /\ req[p].phase = "copied"
  /\ \E l \in SaslLogins(p) :
       LET pw == IF req[p].at = "set" THEN req[p].password ELSE None IN
       /\ sasl' = [saslNew EXCEPT ![l] = pw]
       /\ acked' = [acked EXCEPT ![l] = pw]
       /\ leftover' = leftover \ {l}
       /\ \/ /\ req[p].at = "purge"
             /\ req' = [req EXCEPT ![p].phase = "out", ![p].todo = @ \ {l}]
             /\ UNCHANGED drift
          \/ /\ req[p].at # "purge"
             /\ LET s == After(req[p].kind, req[p].at) IN
                  Goto(p, s) /\ drift' = (drift \/ s = "err")
  /\ saslMu' = None
  /\ UNCHANGED <<registry, saslNew, mapVars, bounds>>

\* The copy, saslpasswd2 or the rename failed: the copy is removed.
SaslFails(p) ==
  /\ req[p].phase = "copied"
  /\ saslMu' = None
  /\ Fault(p)
  /\ UNCHANGED <<registry, sasl, saslNew, mapVars>>

\* PurgeDomainSASL went through every login.
Purged(p) ==
  /\ At(p, {"purge"}) /\ req[p].todo = {}
  /\ Goto(p, "limits")
  /\ UNCHANGED <<registry, saslVars, mapVars, bounds, history>>

-----------------------------------------------------------------------------
(* The sender map *)

SyncSteps == {"sync", "sync2"}

\* Mutant: the bindings are read before the mutex is taken.
ResyncListUnlocked(p) ==
  /\ At(p, SyncSteps)
  /\ resyncMu' = p
  /\ req' = [req EXCEPT ![p].phase = "listed", ![p].bindings = ListBindings]
  /\ drift' = (drift /\ req[p].kind # "reload")
  /\ UNCHANGED <<registry, saslVars, mapFile, live, bounds, acked, leftover>>

\* Resync takes resyncMu and reads the bindings.
ResyncList(p) ==
  /\ At(p, SyncSteps)
  /\ resyncMu = None
  /\ resyncMu' = p
  /\ req' = [req EXCEPT ![p].phase = "listed", ![p].bindings = ListBindings]
  /\ drift' = (drift /\ req[p].kind # "reload")
  /\ UNCHANGED <<registry, saslVars, mapFile, live, bounds, acked, leftover>>

\* RebuildSenderLoginMaps: writeChanged; a map that is the same asks no reload.
ResyncWrite(p) ==
  /\ req[p].phase = "listed"
  /\ \/ /\ mapFile = req[p].bindings
        /\ resyncMu' = None
        /\ Succeed(p)
        /\ UNCHANGED mapFile
     \/ /\ mapFile # req[p].bindings
        /\ mapFile' = req[p].bindings
        /\ req' = [req EXCEPT ![p].phase = "written"]
        /\ UNCHANGED <<resyncMu, history>>
  /\ UNCHANGED <<registry, saslVars, live, bounds>>

\* The reload after a write: Postfix re-reads the file.
ResyncReload(p) ==
  /\ req[p].phase = "written"
  /\ live' = mapFile
  /\ resyncMu' = None
  /\ Succeed(p)
  /\ UNCHANGED <<registry, saslVars, mapFile, bounds>>

\* The query, the write ("listed") or the reload ("written") failed.
ResyncFails(p) ==
  /\ req[p].phase \in {"listed", "written"}
  /\ resyncMu' = None
  /\ Fault(p)
  /\ UNCHANGED <<registry, saslVars, mapFile, live>>

\* Reload configuration ends with a reload of whatever is on disk.
ReloadPostfix(p) ==
  /\ At(p, {"reread"})
  /\ \/ live' = mapFile /\ Succeed(p) /\ UNCHANGED bounds
     \/ Fault(p) /\ UNCHANGED live
  /\ UNCHANGED <<registry, saslVars, mapFile, resyncMu>>

-----------------------------------------------------------------------------
(* Requests and the process *)

Blank == [kind |-> "none", at |-> "idle", phase |-> "out", id |-> None, login |-> None,
          form |-> None, password |-> None, before |-> None, limitBefore |-> None,
          todo |-> {}, bindings |-> {}]

\* A goroutine begins; those that ended are forgotten.
Begin(p, r) ==
  /\ req[p].at \in Ended
  /\ started < MaxRequests
  /\ started' = started + 1
  /\ met' = (met \/ \E q \in Reqs \ {p} : req[q].at \notin Ended)
  /\ req' = [q \in Reqs |-> IF q = p THEN r
                           ELSE IF req[q].at \in Ended THEN Blank ELSE req[q]]
  /\ UNCHANGED <<registry, saslVars, mapVars, faults, crashes, history>>

\* CreateWithSettings: validateForDomain has found the domain.
StartCreate(p) ==
  \E l \in Logins, f \in Forms :
    /\ "create" \in Kinds
    /\ domain
    /\ lastId + Cardinality({q \in Reqs : req[q].at = "add"}) < MaxApps
    /\ Begin(p, [Blank EXCEPT !.kind = "create", !.at = "add", !.login = l, !.form = f,
                              !.password = started + 1])

\* RegeneratePassword: GetApplication has found the row.
StartRegenerate(p) ==
  \E i \in Ids :
    /\ "regen" \in Kinds
    /\ rows[i] # None
    /\ Begin(p, [Blank EXCEPT !.kind = "regen", !.at = "set", !.id = i,
                              !.login = rows[i].login, !.password = started + 1])

StartDelete(p) ==
  \E i \in Ids :
    /\ "delete" \in Kinds
    /\ rows[i] # None
    /\ Begin(p, [Blank EXCEPT !.kind = "delete", !.at = "unset", !.id = i,
                              !.login = rows[i].login])

\* SaveSettings: GetApplication has read the row (the limit is read next).
StartSave(p) ==
  \E i \in Ids, f \in Forms :
    /\ "save" \in Kinds
    /\ rows[i] # None
    /\ Begin(p, [Blank EXCEPT !.kind = "save", !.at = "readLimit", !.id = i, !.form = f,
                              !.before = rows[i], !.limitBefore = limits[i]])

\* domain.Service.Delete: PurgeDomainSASL lists the logins first.
StartDeleteDomain(p) ==
  /\ "delDomain" \in Kinds
  /\ domain
  /\ Begin(p, [Blank EXCEPT !.kind = "delDomain", !.at = "purge",
                            !.todo = {rows[i].login : i \in {j \in Ids : rows[j] # None}}])

StartReload(p) ==
  /\ "reload" \in Kinds
  /\ Begin(p, [Blank EXCEPT !.kind = "reload", !.at = "sync"])

\* The panel is killed: its requests and its mutexes go, its files stay.
Crash ==
  /\ crashes < MaxCrashes
  /\ crashes' = crashes + 1
  /\ req' = [p \in Reqs |-> Blank]
  /\ saslMu' = None
  /\ resyncMu' = None
  /\ drift' = TRUE
  /\ UNCHANGED <<registry, sasl, saslNew, mapFile, live, started, faults, met, acked, leftover>>

\* The panel as it is found: no application, or one that was created before.
Init ==
  /\ domain = TRUE
  /\ \E seed \in {{}} \cup {{l} : l \in Logins}, f \in Forms :
       /\ lastId = Cardinality(seed)
       /\ rows = [i \in Ids |-> IF i <= lastId
                    THEN [login |-> CHOOSE l \in seed : TRUE, rule |-> f, ips |-> f] ELSE None]
       /\ limits = [i \in Ids |-> IF i <= lastId THEN LimitOf(f) ELSE None]
       /\ sasl = [l \in Logins |-> IF l \in seed THEN 0 ELSE None]
  /\ saslNew = sasl
  /\ saslMu = None
  /\ mapFile = ListBindings
  /\ live = mapFile
  /\ resyncMu = None
  /\ req = [p \in Reqs |-> Blank]
  /\ started = 0 /\ faults = 0 /\ crashes = 0 /\ met = FALSE
  /\ acked = sasl /\ drift = FALSE /\ leftover = {}

\* A call of the registry, of sasldb2 or of the map.
Step(p) ==
  \/ AddApplication(p) \/ DeleteApplication(p) \/ UpdateApplication(p)
  \/ SaveRateLimit(p) \/ ReadLimit(p) \/ GetApplication(p)
  \/ DeleteRateLimitsForDomain(p) \/ DeleteDomain(p)
  \/ SaslCopy(p) \/ SaslRename(p) \/ SaslFails(p) \/ Purged(p)
  \/ ResyncList(p) \/ ResyncWrite(p) \/ ResyncReload(p) \/ ResyncFails(p)
  \/ ReloadPostfix(p)

Start(p) ==
  \/ StartCreate(p) \/ StartRegenerate(p) \/ StartDelete(p)
  \/ StartSave(p) \/ StartDeleteDomain(p) \/ StartReload(p)


Quiet == \A p \in Reqs : req[p].at \in Ended

\* Only a panel without a request under way may stand still.
Rest == Quiet /\ UNCHANGED vars

Next == Crash \/ Rest \/ \E p \in Reqs : Start(p) \/ Step(p)

Spec == Init /\ [][Next]_vars

-----------------------------------------------------------------------------
(* Properties *)

TypeOK ==
  /\ domain \in BOOLEAN
  /\ rows \in [Ids -> Row \cup {None}]
  /\ lastId \in 0..MaxApps
  /\ limits \in [Ids -> Forms \cup {None}]
  /\ sasl \in [Logins -> 0..MaxRequests \cup {None}]
  /\ saslNew \in [Logins -> 0..MaxRequests \cup {None}]
  /\ saslMu \in Reqs \cup {None} /\ resyncMu \in Reqs \cup {None}
  /\ mapFile \subseteq Forms \X Logins /\ live \subseteq Forms \X Logins
  /\ met \in BOOLEAN
  /\ started \in 0..MaxRequests /\ faults \in 0..MaxFaults /\ crashes \in 0..MaxCrashes

Listed(l) == \E i \in Ids : rows[i] # None /\ rows[i].login = l
AccountsListed == \A l \in Logins : sasl[l] # None => Listed(l) \/ l \in leftover

\* While requests came one at a time, no account can authenticate that the
\* panel does not list (Delete: "an orphan no operator can see or remove"): the
\* row is written before the account and removed after it, in every rollback
\* too whose removal of the account succeeds, and also when the panel is killed
\* in between.
NoOrphanAccount == met \/ AccountsListed

\* When every request has ended, and none failed since the last Reload
\* configuration, the file holds exactly the registry's bindings and Postfix
\* has read that file, in whatever order concurrent changes interleaved
\* (Service.resyncMu; RebuildSenderLoginMaps; HandleReload as the recovery).
MapFollowsRegistry ==
  Quiet /\ ~drift => mapFile = ListBindings /\ live = mapFile

\* Two changes of sasldb2 at once each start from the other's result: what the
\* last change of a login reported done is in the file (SASLDB.mu).
NoAccountChangeLost == sasl = acked

\* A save that failed leaves the application as it was: its row, its limit and
\* what Postfix lets it send as, if nothing failed but the one call, the panel
\* was not killed and no other request was under way (SaveSettings, restore).
FailedSaveUndone ==
  \A p \in Reqs : crashes = 0 /\ faults <= 1 /\ ~met /\ req[p].kind = "save" /\ req[p].at = "err" =>
    /\ rows[req[p].id] = req[p].before
    /\ limits[req[p].id] = req[p].limitBefore
    /\ mapFile = ListBindings /\ live = mapFile

\* A mutex is held only by a request inside its section, whatever failed there:
\* no request waits for one that has ended (SASLDB.change, Service.Resync).
MutexesGivenBack ==
  /\ saslMu # None => req[saslMu].phase = "copied"
  /\ resyncMu # None => req[resyncMu].phase \in {"listed", "written"}
=============================================================================
