---------------------------- MODULE InboundRelay ----------------------------
(***************************************************************************)
(* The inbound relay's two sets of generated files, and the requests that  *)
(* change what they are generated from.                                    *)
(*                                                                         *)
(* Service (inbound/service.go) keeps the registry of domains whose mail   *)
(* Postfix accepts on port 25 and forwards: rows in SQLite, and four maps  *)
(* rebuilt from all the rows after every change.  The change of the rows   *)
(* is outside the mutex, the rebuild inside it: it lists the domains, gets *)
(* each one, and writes, one after another, the maps that differ.          *)
(*                                                                         *)
(* Lists (inbound/lists.go) keeps the allow and deny entries of the spam   *)
(* filter: rows, and a file for every kind of entry, all written after     *)
(* every change, the whole change inside a mutex of its own.               *)
(*                                                                         *)
(* A request is one call of a handler of the panel; several run at once.   *)
(* The panel may be killed between any two of their steps, and any step    *)
(* that reads the database, writes a file or asks for Postfix's reload may *)
(* fail.  What Postfix itself has read of the maps is not in the model.    *)
(***************************************************************************)
EXTENDS Naturals, FiniteSets, Sequences

CONSTANTS
    Names,        \* domain names, as numbers: their order is the code's
    Ids,          \* identities of rows, numbers
    Ups,          \* upstreams: a [host]:port
    ByAddress,    \* those given by an address and not by a name
    Modes,        \* TLS modes; "secure" is one of them
    Rcpts,        \* settings of the recipients that accept someone
    MapFiles,     \* files of the filter lists, one for a list and a kind
    Values,       \* values of their entries, normalised
    Reqs,         \* requests under way at once
    None,
    MaxRequests,  \* bound: requests made
    MaxFaults     \* bound: failing steps and kills

ASSUME RelayAssumption ==
    /\ Names \subseteq Nat /\ Ids \subseteq Nat /\ ByAddress \subseteq Ups
    /\ "may" \in Modes /\ None \notin Ups
    /\ MaxRequests \in Nat /\ MaxFaults \in Nat

VARIABLES
    rows,      \* the registry: id -> row, or None
    maps,      \* the four map files: name of the file -> its lines
    entries,   \* the rows of the filter lists
    files,     \* the filter's files: MapFiles -> their values
    req,       \* requests under way
    behind,    \* whether a rebuild that stopped is still to be made good
    torn,      \* upstreams whose rows a save may have left with two modes
    lagging,   \* whether the filter's files are known to be behind the rows
    made,      \* requests made
    faults     \* failing steps and kills so far

vars == <<rows, maps, entries, files, req, behind, torn, lagging, made, faults>>
registry == <<rows, maps, behind, torn>>
lists    == <<entries, files, lagging>>

Row == [name : Names, up : Ups \cup {None}, mode : Modes, rcpt : Rcpts \cup {None}]

\* A missing row is not taken for one.
ASSUME NoneIsNoRow == None \notin Row

\* A row as AddInboundDomain inserts it: no upstream, and listed recipients
\* with none listed yet.
NewRow(n) == [name |-> n, up |-> None, mode |-> "may", rcpt |-> None]

\* The statements that change the registry.
Inserted(i, n) == [rows EXCEPT ![i] = NewRow(n)]
WithUpstream(i, up, mode) == [rows EXCEPT ![i].up = up, ![i].mode = mode]
WithRecipients(i, rc) == [rows EXCEPT ![i].rcpt = rc]
Deleted(i) == [rows EXCEPT ![i] = None]

Live == {i \in Ids : rows[i] # None}

\* What ListInboundDomains returns of the rows i in S: enough to go over them
\* in its order, that of the names.
Listed(S) == {[id |-> i, name |-> rows[i].name] : i \in S}
FirstOf(S) == CHOOSE d \in S : \A e \in S : d.name <= e.name

Idle == [pc |-> "idle", op |-> None, id |-> 0, up |-> None, mode |-> None,
         rcpt |-> None, todo |-> {}, got |-> {}, stale |-> FALSE, undo |-> FALSE]

Stopping == faults < MaxFaults
Fails == Stopping /\ faults' = faults + 1

-----------------------------------------------------------------------------
(* The maps                                                                *)

RecipientsEarly == <<"relay", "recipients", "transport", "tls">>
MapNames == <<"relay", "transport", "recipients", "tls">>

\* A row without an upstream is in none of the maps.
Used(R) == {r \in R : r.up # None}

\* An upstream two rows name has one policy line, that of the first by name.
Lines(used) ==
    LET FirstTo(u) == CHOOSE r \in used :
                         r.up = u /\ \A q \in used : q.up = u => r.name <= q.name
    IN [relay      |-> {r.name : r \in used},
        transport  |-> {<<r.name, r.up>> : r \in used},
        recipients |-> {<<r.name, r.rcpt>> : r \in {q \in used : q.rcpt # None}},
        tls        |-> {<<u, FirstTo(u).mode>> : u \in {r.up : r \in used}}]

\* renderInboundMaps: every map as a set of lines.
Rendered(R) == Lines(Used(R))

\* writeChanged goes over the maps in order and passes those that already hold
\* what they should.
Differing(want) == {k \in 1..Len(MapNames) : maps[MapNames[k]] # want[MapNames[k]]}
FirstDiffering(want) ==
    MapNames[CHOOSE k \in Differing(want) : \A j \in Differing(want) : k <= j]

NoMutex(r) == FALSE
\* resyncMu is held by the request that reads the domains or writes the maps.
HoldsResync(r) == req[r].pc \in {"get", "write", "reload"}
\* Lists.mu is held from the change of an entry to the end of the last sync.
HoldsLists(r) == req[r].pc \in {"sync", "file", "undo"}

-----------------------------------------------------------------------------
(* How requests begin and end                                              *)

\* Requests of a panel that has started: the files of the lists are written
\* before the panel takes requests.
Serving == made < MaxRequests /\ \A r \in Reqs : req[r].op # "start"

Begins(r, c) ==
    /\ Serving /\ req[r] = Idle
    /\ req' = [req EXCEPT ![r] = c]
    /\ made' = made + 1

Goes(r, pc) == req' = [req EXCEPT ![r].pc = pc]
Ends(r) == req' = [req EXCEPT ![r] = Idle]

\* The rebuild returned an error.  A rebuild that began before the maps were
\* left behind does not make it good.
RebuildFails(r) ==
    req' = [req EXCEPT ![r] = IF @.op = "add" THEN [@ EXCEPT !.pc = "rollback", !.todo = {}, !.got = {}]
                                              ELSE Idle]

-----------------------------------------------------------------------------
(* The registry                                                            *)

\* The ids AUTOINCREMENT may still give: no row has one and no request does.
FreshIds == {i \in Ids : rows[i] = None /\ \A r \in Reqs : req[r].id # i /\ i \notin req[r].todo}

Named(n) == {i \in Live : rows[i].name = n}

\* HandleAddInbound and Add as far as the insert: the name is unique.
Add(r, n) ==
    /\ Named(n) = {}
    /\ \E i \in FreshIds :
          /\ \A j \in FreshIds : i <= j
          /\ Begins(r, [Idle EXCEPT !.pc = "list", !.op = "add", !.id = i])
          /\ rows' = Inserted(i, n)
    /\ UNCHANGED <<maps, behind, torn, lists, faults>>

\* What the form of an upstream is let through with: Verified TLS is refused
\* for an upstream given by address.
Savable == {um \in Ups \X Modes : um[1] \in ByAddress => um[2] # "secure"}

\* The domains the one asking may change: all of them, or of a domain user's
\* only those of his form.
MayChange(i) == {Ids, {i}}

NoOthers(i, um) == {}
\* The other rows of the upstream that have another mode.
Others(i, um) == {j \in Live \ {i} : rows[j].up = um[1] /\ rows[j].mode # um[2]}

\* SetTransportAs as far as the list of the domains.  may is the domains the
\* one asking may change; a domain outside it, on that upstream with another
\* mode, is a refusal, and nothing is saved.
SetTransport(r, i, um, may) ==
    /\ i \in Live /\ Others(i, um) \subseteq may
    /\ Begins(r, [Idle EXCEPT !.pc = "own", !.op = "transport", !.id = i,
                              !.up = um[1], !.mode = um[2], !.todo = Others(i, um)])
    /\ UNCHANGED <<registry, lists, faults>>

\* A row is saved with an upstream: saves of an upstream that had listed the
\* domains before no longer know all of them.
Saved(r, i, up, mode) ==
    /\ rows' = WithUpstream(i, up, mode)
    /\ torn' = IF req[r].stale THEN torn \cup {up} ELSE torn

NowStale(f, r) ==
    [q \in Reqs |-> IF q # r /\ f[q].op = "transport" /\ f[q].up = f[r].up THEN [f[q] EXCEPT !.stale = TRUE] ELSE f[q]]

\* UpdateInboundTransport of the domain the form is about.
SaveOwn(r) ==
    /\ req[r].pc = "own" /\ req[r].op = "transport"
    /\ IF req[r].id \in Live
       THEN /\ Saved(r, req[r].id, req[r].up, req[r].mode)
            /\ req' = NowStale([req EXCEPT ![r].pc = "others"], r)
       ELSE Ends(r) /\ UNCHANGED <<rows, torn>>
    /\ UNCHANGED <<maps, behind, lists, made, faults>>

\* UpdateInboundTransport of the other domains on the upstream, one by one in
\* the order of their names; one of them may be gone.
SaveOther(r) ==
    /\ req[r].pc = "others" /\ req[r].todo # {}
    /\ LET gone == req[r].todo \ Live IN
       IF gone # {}
       THEN /\ Ends(r) /\ torn' = torn \cup {req[r].up} /\ behind' = "yes"
            /\ UNCHANGED rows
       ELSE LET i == FirstOf(Listed(req[r].todo)).id IN
            /\ Saved(r, i, req[r].up, req[r].mode)
            /\ req' = NowStale([req EXCEPT ![r].todo = @ \ {i}], r)
            /\ UNCHANGED behind
    /\ UNCHANGED <<maps, lists, made, faults>>

SaveOtherFails(r) ==
    /\ req[r].pc = "others" /\ req[r].todo # {}
    /\ Fails /\ Ends(r) /\ torn' = torn \cup {req[r].up}
    /\ behind' = "yes"
    /\ UNCHANGED <<rows, maps, lists, made>>

\* Every row of the upstream has the mode now, if none came to it meanwhile.
OthersSaved(r) ==
    /\ req[r].pc = "others" /\ req[r].todo = {}
    /\ Goes(r, "list")
    /\ torn' = IF req[r].stale THEN torn ELSE torn \ {req[r].up}
    /\ UNCHANGED <<rows, maps, behind, lists, made, faults>>

\* What the form of the recipients is let through with: every address, or a
\* list of the domain's own with at least one on it.
Accepting == Rcpts

\* SetRecipients: one transaction.
SetRecipients(r, i, rc) ==
    /\ i \in Live
    /\ Begins(r, [Idle EXCEPT !.pc = "list", !.op = "recipients"])
    /\ rows' = WithRecipients(i, rc)
    /\ UNCHANGED <<maps, behind, torn, lists, faults>>

\* HandleInboundDelete and Delete as far as the row.
Delete(r, i) ==
    /\ i \in Live
    /\ Begins(r, [Idle EXCEPT !.pc = "list", !.op = "delete"])
    /\ rows' = Deleted(i)
    /\ UNCHANGED <<maps, behind, torn, lists, faults>>

\* HandleReload: the maps and then the lists, from the database.
Reload(r) ==
    /\ Begins(r, [Idle EXCEPT !.pc = "list", !.op = "reload"])
    /\ UNCHANGED <<registry, lists, faults>>

-----------------------------------------------------------------------------
(* Resync                                                                  *)

ListDomains(r) ==
    /\ req[r].pc = "list" /\ ~\E q \in Reqs : HoldsResync(q)
    /\ req' = [req EXCEPT ![r].pc = "get", ![r].todo = Live, ![r].got = {}]
    /\ behind' = IF behind = "yes" THEN "rebuilding" ELSE behind
    /\ UNCHANGED <<rows, maps, torn, lists, made, faults>>

\* GetInboundDomain of the next listed domain; one deleted since it was listed
\* fails the rebuild.
GetDomain(r) ==
    /\ req[r].pc = "get" /\ req[r].todo # {}
    /\ IF req[r].todo \subseteq Live
       THEN LET i == FirstOf(Listed(req[r].todo)).id IN
            /\ req' = [req EXCEPT ![r].todo = @ \ {i}, ![r].got = @ \cup {rows[i]}]
            /\ UNCHANGED behind
       ELSE RebuildFails(r) /\ behind' = "yes"
    /\ UNCHANGED <<rows, maps, torn, lists, made, faults>>

GotAll(r) ==
    /\ req[r].pc = "get" /\ req[r].todo = {}
    /\ Goes(r, "write")
    /\ UNCHANGED <<registry, lists, made, faults>>

\* writeChanged: the next map that differs, each replaced by a rename.
WriteMap(r) ==
    LET want == Rendered(req[r].got) IN
    /\ req[r].pc = "write" /\ Differing(want) # {}
    /\ maps' = [maps EXCEPT ![FirstDiffering(want)] = want[FirstDiffering(want)]]
    /\ UNCHANGED <<rows, behind, torn, req, lists, made, faults>>

\* All four hold what they should.
Written(r) ==
    /\ req[r].pc = "write" /\ Differing(Rendered(req[r].got)) = {}
    /\ req' = [req EXCEPT ![r].pc = "reload", ![r].got = {}]
    /\ behind' = IF behind = "rebuilding" THEN "no" ELSE behind
    /\ UNCHANGED <<rows, maps, torn, lists, made, faults>>

\* A reading of the database or a write of a file fails.
RebuildStops(r) ==
    /\ req[r].pc \in {"get", "write"}
    /\ Fails /\ RebuildFails(r) /\ behind' = "yes"
    /\ UNCHANGED <<rows, maps, torn, lists, made>>

\* Postfix is asked to read the maps, if one was written.
Reloaded(r) ==
    /\ req[r].pc = "reload"
    /\ IF req[r].op = "reload"
       THEN Goes(r, "relist")
       ELSE Ends(r)
    /\ UNCHANGED <<registry, lists, made, faults>>

ReloadFails(r) ==
    /\ req[r].pc = "reload"
    /\ Fails /\ RebuildFails(r)
    /\ UNCHANGED <<registry, lists, made>>

\* Add takes its row back.  By then another request may have given the domain
\* an upstream, and a rebuild put it into the maps.
Rollback(r) ==
    /\ req[r].pc = "rollback"
    /\ rows' = Deleted(req[r].id)
    /\ behind' = IF req[r].id \in Live /\ rows[req[r].id].up # None THEN "yes" ELSE behind
    /\ Ends(r)
    /\ UNCHANGED <<maps, torn, lists, made, faults>>

RollbackFails(r) ==
    /\ req[r].pc = "rollback" /\ Fails /\ Ends(r)
    /\ UNCHANGED <<registry, lists, made>>

-----------------------------------------------------------------------------
(* The filter lists                                                        *)

ValuesFor(f) == {v \in Values : <<f, v>> \in entries}
ListsFree == ~\E q \in Reqs : HoldsLists(q)

\* What the add form is let through with, normalised: a value has one form.
Listable == MapFiles \X Values

\* Lists.Add and Lists.Delete as far as the row; `up' and `mode' of the
\* request hold the file and the value of the entry.
AddEntry(r, e) ==
    /\ ListsFree /\ e \notin entries
    /\ Begins(r, [Idle EXCEPT !.pc = "sync", !.op = "addEntry", !.up = e[1], !.mode = e[2]])
    /\ entries' = entries \cup {e}
    /\ UNCHANGED <<registry, files, lagging, faults>>

DeleteEntry(r, e) ==
    /\ ListsFree /\ e \in entries
    /\ Begins(r, [Idle EXCEPT !.pc = "sync", !.op = "deleteEntry", !.up = e[1], !.mode = e[2]])
    /\ entries' = entries \ {e}
    /\ UNCHANGED <<registry, files, lagging, faults>>

\* The second part of HandleReload takes the mutex of the lists.
SyncFromReload(r) ==
    /\ req[r].pc = "relist" /\ ListsFree
    /\ Goes(r, "sync")
    /\ UNCHANGED <<registry, lists, made, faults>>

\* sync: the entries are read, and every file is written, in the order a Go
\* map happens to give.
ReadEntries(r) ==
    /\ req[r].pc = "sync"
    /\ req' = [req EXCEPT ![r].pc = "file", ![r].todo = MapFiles]
    /\ UNCHANGED <<registry, lists, made, faults>>

WriteFile(r, f) ==
    /\ req[r].pc = "file" /\ f \in req[r].todo
    /\ files' = [files EXCEPT ![f] = ValuesFor(f)]
    /\ req' = [req EXCEPT ![r].todo = @ \ {f}]
    /\ UNCHANGED <<registry, entries, lagging, made, faults>>

AllWritten(r) ==
    /\ req[r].pc = "file" /\ req[r].todo = {}
    /\ Ends(r) /\ lagging' = FALSE
    /\ UNCHANGED <<registry, entries, files, made, faults>>

\* A failing sync: a change is taken back, and everything is written again,
\* once.
SyncStops(r) ==
    /\ req[r].pc \in {"sync", "file"}
    /\ Fails
    /\ IF req[r].undo \/ req[r].op \in {"reload", "start"}
       THEN Ends(r) /\ lagging' = TRUE
       ELSE req' = [req EXCEPT ![r].pc = "undo", ![r].todo = {}] /\ UNCHANGED lagging
    /\ UNCHANGED <<registry, entries, files, made>>

NotWrittenAgain(r) == Ends(r)
TookBack(r) == req' = [req EXCEPT ![r].pc = "sync", ![r].undo = TRUE]

TakeBack(r) ==
    /\ req[r].pc = "undo" /\ TookBack(r)
    /\ LET e == <<req[r].up, req[r].mode>> IN
       entries' = IF req[r].op = "addEntry" THEN entries \ {e} ELSE entries \cup {e}
    /\ UNCHANGED <<registry, files, lagging, made, faults>>

TakeBackFails(r) ==
    /\ req[r].pc = "undo" /\ Fails /\ TookBack(r)
    /\ UNCHANGED <<registry, lists, made>>

-----------------------------------------------------------------------------
(* Crashes                                                                 *)

\* Whether the request has changed rows the maps do not follow yet, or has
\* maps half written.
Unfinished(r) ==
    \/ req[r].pc \in {"others", "write"}
    \/ req[r].op # "reload" /\ req[r].pc \in {"list", "get", "rollback"}

\* The panel is killed and started again.  A start writes the files of the
\* lists; the maps wait for the next change.
Killed ==
    /\ Stopping /\ faults' = faults + 1
    /\ \E s \in Reqs : req' = [q \in Reqs |->
          IF q = s THEN [Idle EXCEPT !.pc = "sync", !.op = "start"] ELSE Idle]
    /\ behind' = IF behind = "rebuilding" \/ \E r \in Reqs : Unfinished(r) THEN "yes" ELSE behind
    /\ torn' = torn \cup {req[r].up : r \in {q \in Reqs : req[q].pc = "others"}}
    /\ UNCHANGED <<rows, maps, lists, made>>

-----------------------------------------------------------------------------
Init ==
    /\ rows = [i \in Ids |-> None] /\ maps = Rendered({})
    /\ entries = {} /\ files = [f \in MapFiles |-> {}]
    /\ req = [r \in Reqs |-> Idle]
    /\ behind = "no" /\ torn = {} /\ lagging = FALSE
    /\ made = 0 /\ faults = 0

Asked(r) ==
    \/ \E n \in Names : Add(r, n)
    \/ \E i \in Ids, um \in Savable : \E may \in MayChange(i) : SetTransport(r, i, um, may)
    \/ \E i \in Ids, rc \in Accepting : SetRecipients(r, i, rc)
    \/ \E i \in Ids : Delete(r, i)
    \/ Reload(r)
    \/ \E e \in Listable : AddEntry(r, e) \/ DeleteEntry(r, e)

Step(r) ==
    \/ SaveOwn(r) \/ SaveOther(r) \/ SaveOtherFails(r) \/ OthersSaved(r)
    \/ ListDomains(r) \/ GetDomain(r) \/ GotAll(r)
    \/ WriteMap(r) \/ Written(r) \/ RebuildStops(r)
    \/ Reloaded(r) \/ ReloadFails(r) \/ Rollback(r) \/ RollbackFails(r)
    \/ SyncFromReload(r) \/ ReadEntries(r) \/ AllWritten(r)
    \/ \E f \in MapFiles : WriteFile(r, f)
    \/ SyncStops(r) \/ TakeBack(r) \/ TakeBackFails(r)

Busy == \E r \in Reqs : req[r] # Idle

Next == (\E r \in Reqs : Asked(r) \/ Step(r)) \/ (Busy /\ Killed)

Spec == Init /\ [][Next]_vars

-----------------------------------------------------------------------------
(* Properties                                                              *)

\* Once no rebuild is owed, the four maps are what the rows of the registry
\* say, whatever requests ran side by side: a rebuild that reads old rows
\* (Resync outside resyncMu) would leave Postfix accepting mail for a deleted
\* domain, or forwarding it to an upstream no longer set.
MapsFollowRegistry ==
    behind = "no" /\ (\A r \in Reqs : ~Unfinished(r)) =>
        maps = Rendered({rows[i] : i \in Live})

\* "mail is never accepted with nowhere to send it" (RebuildInboundMaps), at
\* every moment between the writes of the four files too, as Postfix may read
\* them at any time: a domain whose recipients are accepted has a transport.
AcceptedHasRoute ==
    behind = "no" =>
        \A p \in maps.recipients : p[1] \in maps.relay =>
            \E t \in maps.transport : t[1] = p[1]

\* Rows of one upstream have one TLS mode (SetTransportAs), unless two saves of
\* the upstream ran into each other or one stopped half way: the statements of
\* a save are not a transaction.
OneModePerUpstream ==
    \A i, j \in Live :
        rows[i].up = rows[j].up /\ rows[i].mode # rows[j].mode =>
            \/ rows[i].up = None
            \/ rows[i].up \in torn
            \/ \E r \in Reqs : req[r].pc = "others" /\ req[r].up = rows[i].up

\* The filter's files hold the entries of the page, whatever failed on the way
\* and however often the panel was killed (Lists.mu, and the second sync after
\* a change is taken back), unless the last writing of them failed too.
FilterFollowsTable ==
    ListsFree /\ ~lagging => \A f \in MapFiles : files[f] = ValuesFor(f)
=============================================================================
