--------------------------- MODULE SelectorTable ---------------------------
(***************************************************************************)
(* Sending domains, their DKIM keys and the selector table                 *)
(* (internal/domain), and the signer that reads table and keys while they  *)
(* change (internal/milter/sign.go).  A request of the panel is a          *)
(* goroutine; each call it makes - a statement of the store, a file        *)
(* written, renamed or removed - is one step, may fail, and the panel may  *)
(* be killed after it.  The table is rewritten whole from the registry     *)
(* under tableMu.  A key is a number: the content of its file and the      *)
(* stamp by which the signer tells its versions apart.                     *)
(***************************************************************************)
EXTENDS Integers, FiniteSets

CONSTANTS
    Names,        \* names of domains, the server's among them
    Server,       \* the server's own name, signed for without being a domain
    Selectors,
    Default,      \* DKIM_SELECTOR_DEFAULT
    Reqs,         \* goroutines that serve requests
    Boot,         \* the signer's start, which writes the table first
    Kinds,        \* the requests this instance serves
    MaxDomains,   \* bound: domain ids ever given
    MaxRequests,  \* bound: requests ever started
    MaxFaults,    \* bound: calls that fail, and times the panel is killed
    MaxMsgs,      \* bound: messages the signer is given
    MaxParts,     \* bound: headers of a message, and chunks of its body
    None

ASSUME DomainConstants ==
    /\ Server \in Names /\ Default \in Selectors
    /\ Kinds \subseteq {"add", "delete", "import", "reload", "server"}
    /\ MaxDomains \in Nat \ {0} /\ {MaxRequests, MaxFaults, MaxMsgs, MaxParts} \subseteq Nat
    /\ Boot \notin Reqs /\ None \notin Names \cup Selectors \cup Reqs \cup {Boot}
    /\ IsFiniteSet(Reqs)

VARIABLES
    doms,       \* table domains: id -> name and selector, or None
    lastId,     \* its AUTOINCREMENT sequence
    apps,       \* ids of domains with applications: rows, accounts, limits
    keys,       \* key files: name and selector -> key, 0 for no file
    lastKey,
    table,      \* the selector table: pairs of name and selector
    tableMu,
    op,         \* the goroutines
    cache,      \* SignKeys.keys: name and selector -> stamp and key
    ses,        \* a connection of the signer
    bounds,     \* requests started, calls failed or kills, messages
    drift,      \* history: the registry changed, or a rewrite failed, since
                \* the last rewrite that was begun
    lost,       \* history: names whose key was removed while they were
                \* registered, or whose registration was cut short and not
                \* undone
    met         \* history: two requests have been under way at once

Ids == 1 .. MaxDomains
Paths == Names \X Selectors
Domain == [name : Names, sel : Selectors]
SignKey == [stamp : Nat \ {0}, key : Nat \ {0}]
DKIMSigner == [path : Paths, head : Nat, body : Nat, closed : BOOLEAN]

\* What is not there is told from every row, key in memory and signer.
ASSUME NoneIsNothing == None \notin Domain \cup SignKey \cup DKIMSigner

registry == <<doms, lastId, apps>>
files    == <<keys, lastKey, table>>
panel    == <<registry, files, tableMu, op>>
sign     == <<cache, ses>>
vars     == <<panel, sign, bounds, drift, lost, met>>

Goroutines == Reqs \cup {Boot}
Ended == {"idle", "ok", "err"}
Quiet == \A p \in Goroutines : op[p].at \in Ended

Registered == {doms[i].name : i \in {j \in Ids : doms[j] # None}}

\* The table the registry asks for: its domains, and the server's name with
\* the default selector unless a domain has that name.
TableOf(ds) ==
    {<<d.name, d.sel>> : d \in ds}
      \cup (IF \E d \in ds : d.name = Server THEN {} ELSE {<<Server, Default>>})
ListDomains == {doms[i] : i \in {j \in Ids : doms[j] # None}}

----------------------------------------------------------------------------
(* The order of the calls.  A request is at the name of its next call.     *)

Blank == [kind |-> "none", at |-> "idle", id |-> 0, name |-> None, sel |-> None,
          rows |-> {}, names |-> {}, bad |-> FALSE, rebuilt |-> TRUE]

\* After the table is written.
AfterWrite(k) ==
    CASE k = "import"             -> "settings"
      [] k \in {"delete", "undo"} -> "maps"
      [] k = "reload"             -> "keep"
      [] OTHER                    -> "ok"

\* A deletion's end: an import that failed has been undone, or not quite.
DeleteEnd(p) == IF op[p].kind = "undo" \/ op[p].bad THEN "err" ELSE "ok"

\* Mutant: the key goes although the table could not be rewritten.
AfterMapsAnyKey(p) == "unkey"
\* The sender map was rebuilt, or not: the key goes only if the table no longer
\* names it, and never the server's.
AfterMaps(p) ==
    IF op[p].name # Server /\ op[p].rebuilt THEN "unkey" ELSE DeleteEnd(p)

Goto(p, s) == op' = [op EXCEPT ![p].at = s]
At(p, s) == op[p].at = s
Unchanged(f) == UNCHANGED <<f, sign, bounds, met>>

\* Where a call that failed leads: Add's and Import's rollbacks, the deletion
\* that goes on once the row is gone, the signer's next try.
WhenItFails(p) ==
    LET r == op[p] IN
    CASE r.kind = "boot" -> [r EXCEPT !.at = "list"]
      [] r.kind = "add" /\ r.at \notin {"row", "undo"} -> [r EXCEPT !.at = "undo"]
      [] r.kind = "import" /\ r.at # "row" -> [r EXCEPT !.kind = "undo", !.at = "get"]
      [] r.kind \in {"delete", "undo"} /\ r.at \in {"list", "srvStat", "srvGen", "write"} ->
            [r EXCEPT !.at = "maps", !.bad = TRUE, !.rebuilt = FALSE]
      [] r.kind \in {"delete", "undo"} /\ r.at = "maps" ->
            [r EXCEPT !.at = AfterMaps(p), !.bad = TRUE]
      [] OTHER -> [r EXCEPT !.at = "err", !.bad = TRUE]

Failed(p) == op' = [op EXCEPT ![p] = WhenItFails(p)]

InTable(p) == op[p].at \in {"srvStat", "srvGen", "write"}

\* The call that fails is a rollback's: the row it was to remove stays.
RowStays(p) ==
    /\ At(p, "undo") \/ (op[p].kind = "undo" /\ op[p].at \in {"get", "purge", "drop"})
    /\ doms[op[p].id] # None

\* Any call may fail; a rewrite gives tableMu back.
CallFails(p) ==
    /\ op[p].at \notin Ended
    /\ bounds.faults < MaxFaults
    /\ bounds' = [bounds EXCEPT !.faults = @ + 1]
    /\ Failed(p)
    /\ tableMu' = IF InTable(p) THEN None ELSE tableMu
    /\ drift' = (drift \/ InTable(p) \/ At(p, "list") \/ RowStays(p))
    /\ lost' = IF RowStays(p) /\ keys[<<op[p].name, op[p].sel>>] = 0
               THEN lost \cup {op[p].name} ELSE lost
    /\ UNCHANGED <<registry, files, sign, met>>

----------------------------------------------------------------------------
(* The registry                                                            *)

\* AddDomain: the UNIQUE name decides.
AddDomain(p) ==
    /\ At(p, "row")
    /\ \/ /\ op[p].name \notin Registered
          /\ lastId' = lastId + 1
          /\ doms' = [doms EXCEPT ![lastId'] = [name |-> op[p].name, sel |-> op[p].sel]]
          /\ op' = [op EXCEPT ![p].id = lastId',
                      ![p].at = IF op[p].kind = "add" THEN "stat" ELSE "key"]
       \/ op[p].name \in Registered /\ Failed(p) /\ UNCHANGED <<doms, lastId>>
    /\ Unchanged(<<apps, files, tableMu, drift, lost>>)

\* DeleteDomain, of Delete and of rollbackAdd; the applications' rows go with it.
DeleteDomain(p) ==
    /\ op[p].at \in {"drop", "undo"}
    /\ \/ /\ doms[op[p].id] # None
          /\ doms' = [doms EXCEPT ![op[p].id] = None]
          /\ Goto(p, IF At(p, "undo") THEN "err" ELSE "list")
       \/ /\ doms[op[p].id] = None /\ Goto(p, "err")
          /\ UNCHANGED doms
    /\ drift' = TRUE
    /\ Unchanged(<<lastId, apps, files, tableMu, lost>>)

\* Delete: the row is read, then the accounts and limits of its applications
\* are cleared while their rows still name them.
GetDomain(p) ==
    /\ At(p, "get")
    /\ IF doms[op[p].id] = None THEN Failed(p) ELSE Goto(p, "purge")
    /\ Unchanged(<<registry, files, tableMu, drift, lost>>)

PurgeApplications(p) ==
    /\ At(p, "purge")
    /\ apps' = apps \ {op[p].id}
    /\ Goto(p, "drop")
    /\ Unchanged(<<doms, lastId, files, tableMu, drift, lost>>)

\* Import, once the table names the domain: its report address, limits and
\* applications, if the export has any; a deletion meanwhile leaves no row to
\* give them to.
ImportSettings(p) ==
    /\ At(p, "settings")
    /\ \/ Goto(p, "maps") /\ UNCHANGED apps
       \/ doms[op[p].id] = None /\ Failed(p) /\ UNCHANGED apps
       \/ doms[op[p].id] # None /\ apps' = apps \cup {op[p].id} /\ Goto(p, "maps")
    /\ Unchanged(<<doms, lastId, files, tableMu, drift, lost>>)

----------------------------------------------------------------------------
(* Key files                                                               *)

KeyPath(p) == IF op[p].at \in {"srvStat", "srvGen"} THEN <<Server, Default>>
              ELSE <<op[p].name, op[p].sel>>
\* Where a goroutine goes with its key in place.
AfterKey(p) ==
    IF InTable(p) THEN "write" ELSE IF op[p].kind = "add" THEN "list" ELSE "ok"

\* EnsureKey looks for the file, and generates a key if there is none.
EnsureKeyStat(p) ==
    /\ op[p].at \in {"stat", "srvStat"}
    /\ \/ keys[KeyPath(p)] # 0 /\ Goto(p, AfterKey(p))
       \/ keys[KeyPath(p)] = 0 /\ Goto(p, IF At(p, "stat") THEN "gen" ELSE "srvGen")
    /\ Unchanged(<<registry, files, tableMu, drift, lost>>)

WriteKey(path) ==
    /\ lastKey' = lastKey + 1
    /\ keys' = [keys EXCEPT ![path] = lastKey']

EnsureKeyWrite(p) ==
    /\ op[p].at \in {"gen", "srvGen"}
    /\ WriteKey(KeyPath(p))
    /\ Goto(p, AfterKey(p))
    /\ Unchanged(<<registry, table, tableMu, drift, lost>>)

\* ImportKey writes over whatever key the name has.
ImportKey(p) ==
    /\ At(p, "key")
    /\ WriteKey(KeyPath(p))
    /\ Goto(p, "list")
    /\ Unchanged(<<registry, table, tableMu, drift, lost>>)

\* RemoveKey: the directory of a name with all its keys.
RemoveKey(n) ==
    /\ keys' = [w \in Paths |-> IF w[1] = n THEN 0 ELSE keys[w]]
    /\ lost' = IF n \in Registered THEN lost \cup {n} ELSE lost
    /\ UNCHANGED <<lastKey, table>>

RemoveDeletedKey(p) ==
    /\ At(p, "unkey")
    /\ RemoveKey(op[p].name)
    /\ Goto(p, DeleteEnd(p))
    /\ Unchanged(<<registry, tableMu, drift>>)

----------------------------------------------------------------------------
(* The table                                                               *)

\* Mutant: without tableMu.
ListUnlocked(p) ==
    /\ At(p, "list")
    /\ tableMu' = p
    /\ op' = [op EXCEPT ![p].rows = TableOf(ListDomains),
                ![p].at = IF Server \in Registered THEN "write" ELSE "srvStat"]
    /\ drift' = FALSE
    /\ Unchanged(<<registry, files, lost>>)

\* resync takes tableMu and lists the domains.
List(p) ==
    /\ At(p, "list")
    /\ tableMu = None /\ tableMu' = p
    /\ op' = [op EXCEPT ![p].rows = TableOf(ListDomains),
                ![p].at = IF Server \in Registered THEN "write" ELSE "srvStat"]
    /\ drift' = FALSE
    /\ Unchanged(<<registry, files, lost>>)

\* Rebuild: the new table is renamed over the old one.
WriteTable(p) ==
    /\ At(p, "write")
    /\ table' = op[p].rows
    /\ tableMu' = None
    /\ Goto(p, AfterWrite(op[p].kind))
    /\ Unchanged(<<registry, keys, lastKey, drift, lost>>)

\* The sender map, AppService's.
ResyncMaps(p) ==
    /\ At(p, "maps")
    /\ Goto(p, IF op[p].kind = "import" THEN "ok" ELSE AfterMaps(p))
    /\ Unchanged(<<registry, files, tableMu, drift, lost>>)

\* Resync of Reload configuration: the names to keep are read, then the key
\* directories; those of no name are removed one by one.
KeepNames(p) ==
    /\ At(p, "keep")
    /\ op' = [op EXCEPT ![p].at = "dirs", ![p].names = Registered \cup {Server}]
    /\ Unchanged(<<registry, files, tableMu, drift, lost>>)

KeyDomains(p) ==
    /\ At(p, "dirs")
    /\ op' = [op EXCEPT ![p].at = "sweep",
                ![p].names = {w[1] : w \in {v \in Paths : keys[v] # 0}} \ op[p].names]
    /\ Unchanged(<<registry, files, tableMu, drift, lost>>)

SweepKeys(p) ==
    /\ At(p, "sweep")
    /\ \/ \E n \in op[p].names :
            /\ RemoveKey(n)
            /\ op' = [op EXCEPT ![p].names = @ \ {n}]
       \/ op[p].names = {} /\ Goto(p, "ok") /\ UNCHANGED <<files, lost>>
    /\ Unchanged(<<registry, tableMu, drift>>)

----------------------------------------------------------------------------
(* Requests and the process                                                *)

Begin(p, r) ==
    /\ op[p].at \in Ended /\ bounds.started < MaxRequests
    /\ bounds' = [bounds EXCEPT !.started = @ + 1]
    /\ met' = (met \/ \E q \in Goroutines \ {p} : op[q].at \notin Ended)
    /\ op' = [q \in Goroutines |-> IF q = p THEN r
                                   ELSE IF op[q].at \in Ended THEN Blank ELSE op[q]]
    /\ UNCHANGED <<registry, files, tableMu, sign, drift, lost>>

Spare == lastId + Cardinality({q \in Reqs : At(q, "row")}) < MaxDomains

HandleAddDomain(p) ==
    \E n \in Names :
        /\ "add" \in Kinds /\ Spare
        /\ Begin(p, [Blank EXCEPT !.kind = "add", !.at = "row", !.name = n, !.sel = Default])

\* An export of the server's own name is refused, whatever its other contents.
CheckDomainImport(n) == n # Server

HandleImportDomain(p) ==
    \E n \in {m \in Names : CheckDomainImport(m)}, s \in Selectors :
        /\ "import" \in Kinds /\ Spare
        /\ Begin(p, [Blank EXCEPT !.kind = "import", !.at = "row", !.name = n, !.sel = s])

HandleDeleteDomain(p) ==
    \E i \in Ids :
        /\ "delete" \in Kinds /\ doms[i] # None
        /\ Begin(p, [Blank EXCEPT !.kind = "delete", !.at = "get", !.id = i,
                        !.name = doms[i].name])

HandleReload(p) ==
    /\ "reload" \in Kinds
    /\ Begin(p, [Blank EXCEPT !.kind = "reload", !.at = "list"])

\* Settings shows the record of the server's name, whose selector it reads.
ServerMail(p) ==
    LET mine == {d \in ListDomains : d.name = Server} IN
    /\ "server" \in Kinds
    /\ \E s \in IF mine = {} THEN {Default} ELSE {d.sel : d \in mine} :
          Begin(p, [Blank EXCEPT !.kind = "server", !.at = "stat", !.name = Server, !.sel = s])

Booting == [Blank EXCEPT !.kind = "boot", !.at = "list"]

NoMail == [at |-> "idle", login |-> None, kept |-> 0, given |-> 0, want |-> <<None, None>>,
           stamp |-> 0, signer |-> None, chunks |-> 0, expired |-> FALSE, signed |-> FALSE]

\* The panel is killed and started: the signer writes the table before it
\* serves.  A domain whose key was not written yet stays in the registry.
Crash ==
    /\ bounds.faults < MaxFaults
    /\ bounds' = [bounds EXCEPT !.faults = @ + 1]
    /\ op' = [p \in Goroutines |-> IF p = Boot THEN Booting ELSE Blank]
    /\ tableMu' = None /\ drift' = TRUE
    /\ cache' = [w \in Paths |-> None] /\ ses' = NoMail
    /\ lost' = lost \cup {doms[i].name : i \in {j \in Ids : doms[j] # None
                                               /\ keys[<<doms[j].name, doms[j].sel>>] = 0}}
    /\ UNCHANGED <<registry, files, met>>

----------------------------------------------------------------------------
(* The signer: a session of a connection, and SignKeys.Lookup.             *)

SignStep == UNCHANGED <<panel, drift, lost, met>>
Refuse == ses' = NoMail   \* the library replaces the session after the reply

\* Mutant: a header section too big is signed as far as it was kept.
HeadersOfAnySize(n, given, big) ==
    IF n = None THEN Refuse
    ELSE ses' = [NoMail EXCEPT !.at = "table", !.login = n, !.given = given,
                               !.kept = IF big THEN 0 ELSE given]

\* MailFrom, Header and Headers of a message of which the session shares
\* nothing yet: past headerLimit no header is kept and the message is refused;
\* without a sending domain for its login it is deferred; then the key is
\* looked up.
Headers(n, given, big) ==
    IF big \/ n = None THEN Refuse
    ELSE ses' = [NoMail EXCEPT !.at = "table", !.login = n, !.given = given, !.kept = given]

SignMessage ==
    /\ ses.at = "idle" /\ bounds.msgs < MaxMsgs /\ op[Boot].at \in Ended
    /\ bounds' = [bounds EXCEPT !.msgs = @ + 1]
    /\ \E n \in Names \cup {None}, given \in 1 .. MaxParts, big \in BOOLEAN :
          Headers(n, given, big)
    /\ SignStep /\ UNCHANGED cache

\* readTable, for every message; keys the table does not name are forgotten.
ReadTable ==
    /\ ses.at = "table"
    /\ cache' = [w \in Paths |-> IF w \in table THEN cache[w] ELSE None]
    /\ \/ \E w \in table : w[1] = ses.login /\ ses' = [ses EXCEPT !.at = "stat", !.want = w]
       \/ (\A w \in table : w[1] # ses.login) /\ Refuse
    /\ SignStep /\ UNCHANGED bounds

SignWith ==
    ses' = [ses EXCEPT !.at = "body", !.stamp = 0,
              !.signer = [path |-> ses.want, head |-> ses.kept, body |-> 0, closed |-> FALSE]]

\* The file's stamp decides whether the key in memory is used.
StatKey ==
    /\ ses.at = "stat"
    /\ LET now == keys[ses.want]
           have == cache[ses.want]
       IN  CASE now = 0 -> Refuse
             [] now # 0 /\ have # None /\ have.stamp = now -> SignWith
             [] OTHER -> ses' = [ses EXCEPT !.at = "read", !.stamp = now]
    /\ SignStep /\ UNCHANGED <<cache, bounds>>

ReadKey ==
    /\ ses.at = "read"
    /\ IF keys[ses.want] = 0
       THEN Refuse /\ UNCHANGED cache
       ELSE /\ cache' = [cache EXCEPT ![ses.want] = [stamp |-> ses.stamp, key |-> keys[ses.want]]]
            /\ SignWith
    /\ SignStep /\ UNCHANGED bounds

\* The watchdog closes the signer of a message that takes longer than signLimit.
Watch ==
    /\ ses.at = "body" /\ ~ses.expired
    /\ ses' = [ses EXCEPT !.expired = TRUE, !.signer.closed = TRUE]
    /\ SignStep /\ UNCHANGED <<cache, bounds>>

\* A chunk the signer does not take defers the message.
BodyChunk ==
    /\ ses.at = "body" /\ ses.chunks < MaxParts
    /\ IF ses.signer.closed THEN Refuse
       ELSE ses' = [ses EXCEPT !.chunks = @ + 1, !.signer.body = @ + 1]
    /\ SignStep /\ UNCHANGED <<cache, bounds>>

\* The end of the message: the signature is inserted, unless the watchdog was
\* faster.
Body ==
    /\ ses.at = "body"
    /\ ses' = [NoMail EXCEPT !.signed = ~ses.expired]
    /\ SignStep /\ UNCHANGED <<cache, bounds>>

\* Abort; or the connection breaks, or a file cannot be read.
Abort ==
    /\ ses.at # "idle"
    /\ ses' = NoMail
    /\ SignStep /\ UNCHANGED <<cache, bounds>>

Signer ==
    \/ SignMessage \/ ReadTable \/ StatKey \/ ReadKey
    \/ Watch \/ BodyChunk \/ Body \/ Abort

----------------------------------------------------------------------------

\* The first start, or a panel at rest with a domain added before, perhaps
\* under another DKIM_SELECTOR_DEFAULT.
Init ==
    /\ \E seed \in {{}} \cup {{[name |-> n, sel |-> s]} : n \in Names, s \in Selectors} :
         /\ doms = [i \in Ids |-> IF i = 1 /\ seed # {} THEN CHOOSE x \in seed : TRUE ELSE None]
         /\ lastId = Cardinality(seed)
         /\ lastKey = IF seed = {} THEN 0 ELSE 1
         /\ table = IF seed = {} THEN {} ELSE TableOf(seed)
         /\ keys = [w \in Paths |-> IF w \in table THEN 1 ELSE 0]
         /\ op = [p \in Goroutines |->
                    IF p # Boot THEN Blank ELSE IF seed = {} THEN Booting
                    ELSE [Booting EXCEPT !.at = "ok"]]
    /\ apps = {} /\ tableMu = None
    /\ cache = [w \in Paths |-> None] /\ ses = NoMail
    /\ bounds = [started |-> 0, faults |-> 0, msgs |-> 0]
    /\ drift = FALSE /\ lost = {} /\ met = FALSE

Start(p) ==
    \/ HandleAddDomain(p) \/ HandleImportDomain(p) \/ HandleDeleteDomain(p)
    \/ HandleReload(p) \/ ServerMail(p)

Step(p) ==
    \/ AddDomain(p) \/ DeleteDomain(p) \/ GetDomain(p) \/ PurgeApplications(p)
    \/ ImportSettings(p) \/ EnsureKeyStat(p) \/ EnsureKeyWrite(p) \/ ImportKey(p)
    \/ RemoveDeletedKey(p) \/ List(p) \/ WriteTable(p) \/ ResyncMaps(p)
    \/ KeepNames(p) \/ KeyDomains(p) \/ SweepKeys(p)

\* The panel may stand still only when no request is under way.
Rest == Quiet /\ UNCHANGED vars

Next ==
    \/ \E p \in Reqs : Start(p)
    \/ \E p \in Goroutines : Step(p) \/ CallFails(p)
    \/ Signer \/ Crash \/ Rest

Spec == Init /\ [][Next]_vars

----------------------------------------------------------------------------
(* Properties.                                                             *)

TypeOK ==
    /\ \A i \in Ids : doms[i] # None => doms[i] \in Domain
    /\ lastId \in 0 .. MaxDomains /\ apps \subseteq Ids
    /\ keys \in [Paths -> 0 .. lastKey] /\ table \subseteq Paths
    /\ \A v, w \in table : v[1] = w[1] => v = w
    /\ \A p \in Goroutines : InTable(p) = (tableMu = p)
    /\ \A w \in Paths : cache[w] # None => cache[w] \in [stamp : 1 .. lastKey, key : 1 .. lastKey]
    /\ ses.kept <= ses.given /\ (ses.at = "body") = (ses.signer # None)
    /\ lost \subseteq Names /\ {drift, met} \subseteq BOOLEAN

\* When no request is under way and no rewrite failed, the selector table is
\* the registry's - whatever order concurrent additions, deletions, imports
\* and the signer's start read and wrote in (tableMu, resync).
TableFollowsRegistry == Quiet /\ ~drift => table = TableOf(ListDomains)

\* Every name that is to be signed for then has its key, the server's too -
\* also when a domain has the server's name, with another selector, and goes
\* again - unless the key was removed while its name was registered (Add,
\* Delete, Resync, EnsureKey).
EveryNameHasItsKey ==
    Quiet /\ ~drift => \A w \in TableOf(ListDomains) : keys[w] # 0 \/ w[1] \in lost

\* An import that failed, with its undoing complete and no other request under
\* way, leaves no row, application, line or key of its own (Import,
\* importRollback).
FailedImportLeavesNothing ==
    \A p \in Reqs : op[p].kind = "undo" /\ op[p].at = "err" /\ ~op[p].bad /\ ~met =>
        /\ op[p].name \notin Registered /\ op[p].id \notin apps
        /\ \A w \in table : w[1] # op[p].name
        /\ \A s \in Selectors : keys[<<op[p].name, s>>] = 0

\* A key in memory that passes for the file's is the file's: no deletion and
\* new import of a domain between the stamp and the reading leaves the signer
\* with the old key (Lookup: the stamp first, then the key).
CacheCurrent ==
    \A w \in Paths : cache[w] # None /\ cache[w].stamp = keys[w] => cache[w].key = keys[w]

\* A signature is of the whole message and the domain of its login: no header
\* or chunk is missing after limits, expiry, aborted and refused messages on
\* the same connection (signSession).
SignedWhole ==
    [][ses'.signed /\ ses' # ses =>
         /\ ses.signer.path[1] = ses.login
         /\ ses.signer.head = ses.given /\ ses.signer.body = ses.chunks]_vars

=============================================================================
