# TLA+ specifications of SelfPost

SelfPost is a mail relay in one container: Postfix does the mail, and a Go
program, the *panel*, keeps the registry of domains and applications, decides
what Postfix may accept (four milters), reads Postfix's log and shows the
result on web pages. The modules here describe the parts of the panel whose
correctness depends on an order of steps: what two goroutines, a kill, a
failing call or a rotated log can do to state that several components share.

- [Running](#running)
- [The system](#the-system) - components, state, operations, hazards
- [Modules](#modules) - how state and actions correspond to the code
- [Runs](#runs) - what each one asks, its bounds, what it shows
- [Fairness](#fairness)
- [Proofs](#proofs)
- [Where the code and its documentation disagree](#where-the-code-and-its-documentation-disagree)
- [What is not modelled](#what-is-not-modelled)
- [Plan](#plan)

## Running

    tlc -workers 2 -config MCLogFollow_rotate.cfg MCLogFollow
    tlapm JournalMilterProofs.tla      # and each other *Proofs.tla

`PROJECT.json` lists the runs with their configurations, a mutant of the model
for every checked property (a changed definition under which TLC must find the
property violated), the source lines behind every definition ("map"), the
hazards and the theorems. Mutated definitions stand in the modules next to the
definition they replace and are marked `Mutant:`.

## The system

### Processes

supervisord runs Postfix (behind a wrapper that waits for the milters'
sockets), the panel, logrotate, a one-shot `postfix-reload`, a loop that takes
up renewed certificates and a few watchers. Postfix's pipe transport starts
`panel dmarc-ingest` for each DMARC report, a second process on the panel's
database. Everything that lasts is on one volume:

| what | written by | read by |
|---|---|---|
| `selfpost.db` (SQLite, one connection per process, WAL, write transactions take the lock at BEGIN) | panel, dmarc-ingest | panel |
| `sasldb2` | panel, through `saslpasswd2` on a copy that is renamed over it | Postfix |
| `/data/postfix` maps (sender logins, senders, inbound and DMARC maps, filter lists) | panel, by rename | Postfix after a reload; the sender check at every change |
| `/data/dkim` keys and selector table | panel, by rename | signer milter |
| `mail.log`, `mail.log.1` | postlogd; renamed by logrotate | log tailer, reconcile sweep |
| the certificate pair | the operator's proxy, copied by the loop | Postfix |

Inside the panel every HTTP request is a goroutine, every milter connection is
a goroutine with a session of its own, and the log tailer, the reconcile sweep,
the retention, the limit recalculation, the notifier and the update check are
loops of their own. They meet in the database (a call is atomic, two calls are
not), in a handful of mutexes, and in files.

### Components

For each: what it keeps, what it does, what makes it correct, and the module
that has it. "-" is not modelled; the reason is [below](#what-is-not-modelled).

| component | state | operations | correct when | module |
|---|---|---|---|---|
| Journal milter (`internal/milter`) | per connection: client address, login, recipients, reservations; shared: registry of messages in flight; send log, limits | Connect, MAIL FROM (client list, limit lookup, count, admission), RCPT TO, end of message (rows, release), ABORT, broken connection; the library replaces a session after a refusal | the ceiling of an application or domain is kept by concurrent sessions; no slot is lost; a client list holds for the whole message; no mail is refused without cause | `JournalMilter` |
| Log tailer, following (`logtail.go`, `offset.go`, `lines.go`) | open file, position, half line, rotated file in grace, stored place, lines kept | resume, read the rotated file, tick (drain, stat, switch, record), stop; keep a message's lines | no line vanishes unnoticed over rotations, stops, kills, failing saves; what is kept once is new | `LogFollow` |
| Log tailer, refusals and counters (`refusals.go`, `sendercheck.go`) | refusal lines whose row is not there yet, warnings counted by place | wait, retry, recover a row, hold back the stored place, count | a stop does not lose a refusal; a warning read again is counted once | `SenderCheck`, `LogFollow` (the hold) |
| Delivery log (`store/sendlog.go`, `logtail.go`, `awaited.go`) | a row per message and recipient, awaited Message-IDs, daily counters | insert, update by a delivery line, expiry, reconcile sweep, test message, retention | a row ends, and shows what Postfix logged, never what it logged of another message | `DeliveryLog` |
| Applications (`internal/app`, `internal/postfix`) | row and limit, SASL account, sender map, two mutexes | create, save settings, new password, delete, delete domain, reload configuration | the three stores agree; a failed request is undone; no account outlives its row | `AppService` |
| Domains and keys (`internal/domain`) | domain rows, key files, selector table, `tableMu` | add, delete, import, reload configuration, the server's own key | the table is the registry's; every name has its key; a failed import leaves nothing | `SelectorTable` |
| Signer milter (`sign.go`) | cache of table and keys by stamp, a message's headers and chunks | look up a key and sign | signs the whole message, with the key of its login's domain as it is now | `SelectorTable` |
| Sender check milter (`sender.go`) | cached map, buffer of refusals, downtime marks | judge From against login, record a refusal | no judgement on a map that was not in force; every refusal is recorded | `SenderBindings`, `SenderCheck` |
| Inbound relay (`internal/inbound`, `postfix/inbound.go`) | domains whose mail is forwarded, four maps; filter entries, six files | add, save, delete a domain; add, remove an entry; reload configuration | maps and files follow the rows; accepted mail has a route | `InboundRelay` |
| Inbound journal (`milter/inbound.go`, `logtail/inbound.go`) | rows of offered mail and their fate, remembered queue ids, cap | journal a message, its verdict, refusals, results, cut | a row shows what became of the mail; the journal is bounded | `InboundJournal` |
| Report addresses and DMARC reports (`internal/dmarc`) | three maps, reports, caps | choose an address, ingest in a second process, prune | only chosen addresses are open; reports stay with their domain | `DomainSettings` |
| Automatic limits (`store/ratelimit_auto.go`) | limit and mode of a key | recalculate beside edits | an edit is not undone by a recalculation | `DomainSettings` |
| Notifier (`internal/notify`) | problems, who is owed a message, copies of the hour | open, retry, close | all owed are told once, through failures, a ceiling and restarts; the end only to those told | `Notifier` |
| Users, sessions, links, setup (`web/auth`, `store`) | users, sessions, links | sign in, confirm, reset, change, delete, end sessions, set up | one administrator is left; a new password ends sessions; a link proves one mailbox, once | `Accounts` |
| Backup and restore (`internal/backup`, `secretfile`) | archive, manifest, restore mark | back up, unpack, check, first start | only a whole archive is opened; a start stopped anywhere is a restore again | `Restore` |
| Supervisor client (`internal/supervisor`), `build/*.sh` | the one-shot's run, the certificate's copy | RunOnce, reload, renew | told "ok", Postfix runs on the caller's files; a renewal is taken up | `PostfixReload`, promise in `ReloadPromise` |
| The container (`cmd/panel`, `build/`) | which of its processes run | start, stop, kill | mail waits for the panel's start, healed after a restore | `Operations` |
| Login limiter (`web/auth/ratelimit.go`) | attempts by key | count, block | a full table does not forget the key it counts | - |
| Database (`store/store.go`) | schema version | open, migrate | a kill leaves one schema | `Restore` (an older database opened) |
| Health, DNS, update checks | caches | look at the world | read-only | - |
| Queue and retry policy (`postfix/queue.go`) | - | list, delete, set lifetimes | - | `DeliveryLog` (the listing) |
| Web pages | - | render, parse forms | - | with the services they call |

`PROJECT.json` lists the same components with their sources and status, and
the hazards: every place where a step order, a failure or a stale value can go
wrong in a way a unit test would hardly reach, with the properties that would
catch it.

## Modules

Each component has one module with its state, `Init`, one action per operation
or step, `Next`, `Spec` and its properties, and an `MC` module that names the
model values of its configuration. Three are compositions: `PanelFiles` puts
`InboundRelay` and `DomainSettings` into one panel, `SenderCheck` puts the
judgement of `SenderBindings` beside the tailer, and `Operations` is the
container, with `PostfixReload` and `Restore` in it. One is abstract:
`ReloadPromise`, which `PostfixReload` implements.

The others do not share variables: where two components meet, each module takes
of the other what it needs as an assumption, and names the one that shows it.
`DeliveryLog`, `InboundJournal` and `SenderCheck` see the log as one sequence
read in order, again after a kill, or with a gap after a rotation missed;
`LogFollow` shows what the reader really does. `JournalMilter` writes the rows
`DeliveryLog` follows; `AppService` takes a reload as one call,
`PostfixReload` shows what that call promises.

What counts as one step: a database call; a critical section of a mutex, split
where calls are made inside it that others can see (the files written under
`resyncMu`, the copy and rename of sasldb2); a read of a log file up to its end;
one packet of the milter protocol where nothing shared is touched. Log texts,
names and addresses are model values. Variables described as "what an observer
knows" or "history" are read by properties and by no guard of the code's
actions.

### JournalMilter

`internal/milter/{milter,ratelimit,inflight,authip}.go`, `store/ratelimits.go`,
and of the vendored library the place where a session is replaced.

| specification | code |
|---|---|
| `pc[s]`, `ip`, `login`, `rcpts`, `slots`, `cur` | a connection's goroutine and its `session` |
| `key`, `max`, `since`, `stored` | locals of `overLimit` / `enforceLimit` |
| `flight`, `res` | `inflight.m`, a `reservation` |
| `log`, `limit` | tables `send_log`, `rate_limits` |
| `MailFrom`, `AppLimit`, `DomainLimit`, `CountMessages`, `TryAdmit` | `MailFrom` of the session, cut at its store calls and at `tryAdmit`'s critical section |
| `Body`, `Record`, `Release` | `Body`: one `InsertQueued` per recipient, then the reservations |
| `NewMilter`, `TempFail`, `Disconnect` | what go-milter does with the session after a reply that is not *continue*, and at the end of a connection (no callback) |
| `Crash`, `SetRateLimit`, `Tick` | the process is killed; a panel page; the clock |

A message number stands for its queue id and for its reservation's pointer.
Time is a small clock; `Window` and `TTL` are in its ticks. `peer` (the address
the client really has), `failed`, `stale` and `leaked` are what an observer
knows.

### LogFollow

`follow`, `tracker` and `rotatedTail` of `logtail.go` and `offset.go`, with
`build/logrotate-mail.conf`, and the keeper of Postfix's lines (`lines.go`,
`store/sendloglines.go`). A file is a generation, standing for its inode,
and holds a count of *half lines*, so that a read can end in the middle of a
line. `pos` and `pend` are the position and the half line held back, `place`
the row `logtail_state` (`gen` is what the place really speaks of, which the
code can only know by the fingerprint), `old` the rotated file read through
its grace, `waiting` what `refusalLines` holds. The start is `Open`,
`ResumeAtEnd`/`ResumeAtPlace`/`ResumeAtStart`, then
`NotBehind`/`ReadRotated`/`ReportLost`; a tick is `DrainOld`, `Drain`, `Stat`,
and `Switch`/`SwitchFails` or `Record`. `Rename`, `Create`, `Reload` are
logrotate's three steps, between any of which the tailer may run, stop or be
killed. A file has no identity until it holds `FpSize` half lines, as the code
identifies a file by its first 512 bytes.

A pass hands its lines to the keeper (`KeepLines`), which leaves out those of a
message that came in on port 25: `port25` holds its id from the smtpd's
`client=` line to its removal. Lines are written before the place is saved
(`PassLines`); the panel may die in between (`CrashInPass`), a write may fail
once, and `PruneLines` is the retention.

### DeliveryLog

The rows of `send_log` as four actors change them: the journal milter (`Accept`
writes a row per recipient until a write fails: `Rowed`), the tailer's handler
(`HandleDelivery`, `HandleExpiry`, `HandleMessageID`, `HandleFails`), the sweep,
step by step (`SweepList` → `SweepQueueIDs` → `SweepResultsInLog` →
`SweepClose`… → `SweepCount` → `CloseUnmatchedTestMessages`) and the retention
(`Prune`). Postfix is external: `Enqueue`, `Attempt`, `Expire`, `Drop`, with
`ReuseIDs` for its short queue ids. A line carries `about`, the rows it is
really of, which only properties read - and the awaited Message-ID, where it
stands for the id itself. A row's age is one bit, `old`. The properties
about a row's result ask that it had its queue id for itself (`OnlyOfItsID`): no
other message for its recipient had it, neither one with a row nor one whose row
was not written or not given the id.

### AppService

`app.Service`, `SASLDB`, `postfix.RebuildSenderLoginMaps` and the part of
`domain.Service.Delete` that concerns applications. A request is a record with
its kind, the step it stands at and its locals. The tables `CreateAfter`,
`CreateOnError`, `SaveAfter`, `SaveOnError`, `DeleteAfter`, `DelDomainAfter` are
the order of calls of each function and where each error return leads - its
rollback included; the actions (`AddApplication`, `UpdateApplication`,
`SaveRateLimit`, `SaslCopy`/`SaslRename`, `ResyncList`/`ResyncWrite`/
`ResyncReload`, …) are the calls. Each call may fail while `faults < MaxFaults`
and the panel may be killed while `crashes < MaxCrashes`. A *form* stands for
what one POST submits: sender rules, client addresses, limit. `live` is the map
Postfix re-read last: the oldest an smtpd may still hold.

### SelectorTable

`internal/domain` (`Add`, `Delete`, `Import` with `importRollback`, `Resync`,
`EnsureKey`), the handlers that call them, and `internal/milter/sign.go`. A
request's record `op[p]` has its kind, the name of its next call and its locals;
`AfterWrite`, `AfterMaps`, `AfterKey`, `WhenItFails` are the orders of the calls
and their error returns. `List` takes `tableMu` and lists the registry,
`WriteTable` writes and releases it. `EnsureKeyStat`/`EnsureKeyWrite` are the
look for a key and its creation, two steps. The signer's `Lookup` is
`ReadTable`, `StatKey`, `ReadKey`; `cache` is `SignKeys.keys`, its stamp standing
for the file's time and size. `ses` is one connection of the signer with the
headers and chunks it was given and has kept. `drift`, `lost`, `met` are
history: a rewrite still owed, keys removed while their name was registered,
two requests at once.

### Notifier

`internal/notify/notify.go` and the store's `notify_state`
and `notify_addressees`. One goroutine, so the module is about its steps and the
world's: `Check`, `CheckLimits` start a pass over subjects; for a subject a
*plan* (`Open`, `FollowUp`, `Closed`, `DNSStep`, `CertificateStep`) says what is
written first, to whom a message goes, and what is written when it was sent and
when it was not; `SaveFirst`, `Deliver` (one addressee at a time, `Fails`),
`Record`, `Save` carry it out. `hour` is the list of messages of the last hour,
which a `Crash` loses. `World` changes users, their domains, the switch, the
registry and what is wrong. `said`, `asked`, `readings`, `unsure` are history.

### Accounts

The handlers of sign-in, set-up, users form, Account and one-time links
(`internal/web/handlers`, `internal/web/auth`) over the tables `users`,
`sessions`, `user_links`. A handler is cut at its statements and transactions
and at the mailing goroutine it leaves behind: `SubmitLogin` compares,
`CreateSession` writes; `SubmitPassword`, `UpdateUser`, `DestroySessions`,
`DeleteUserLinks`; `SendReset`, `NewLink`, `CreateUserLink`;
`SetPasswordFromLink` looks at the link and hashes, `TakeResetLink` is the
transaction that takes it. A password is a number, so a session remembers which
one opened it. `firsts`, `proven` and a session's `spared` are history.

### InboundRelay, DomainSettings, PanelFiles

`InboundRelay` is `internal/inbound` (`Service`, `Lists`),
`postfix.RebuildInboundMaps` and their handlers. A change of rows
(`Add`, `SetTransport`, `SaveOwn`/`SaveOther`, `SetRecipients`, `Delete`) is outside
`resyncMu`; the rebuild inside it is `ListDomains`, `GetDomain` for each,
`WriteMap` for each map that differs, `Reloaded`. Filter entries
(`AddEntry`, `DeleteEntry`) hold `Lists.mu` from the row to the last of the
files, with `TakeBack` and a second writing when one fails.

`DomainSettings` is `dmarc.Service` (`SaveAddress`, `ResyncDMARC` with its
steps), the ingest (`CheckReport`, `InsertReport`, `PruneReports`, `IngestFails`
after which Postfix brings the message again), and limits: `SaveLimit`,
`RecalcAll` with `ReadLimit`, `ReadStats`, `StoreLimit` for each, and what a
deletion or an import does to rows, reports and limits.

`PanelFiles` runs both in one panel: `HandleReload` rebuilds the files of both,
a kill ends the requests of both, a start rebuilds the DMARC maps and then
writes the lists. `Budgets` bounds what a behaviour sees.

### InboundJournal

`milter/inbound.go`, `logtail/inbound.go`, `store/inbound.go`. A message is
`post[m]`: its stage in Postfix, its queue id, its fate per recipient. The
milter's `MilterForgets`, `MilterInserts`, `MilterCounts`, `MilterCuts` are its
statements; the tailer's `ReadLine` handles the next line of `log` by its kind
(`OpenedHere`, `Accounted`, `Rejected`, `FilterRefused`, `Upstream`, `GivenUp`).
`port25` and `order` are the ids it remembers, lost by `Kill`, after which
`StartPanel` reads again from the place `SavePlace` left.

### SenderBindings, SenderCheck

`SenderBindings` is the judgement: `Stat` and `Read` of the map as in
`tableFile.changed`, `Allowed` as Postfix looks an address up, `LineJudged` for
From and Sender. `Rewrite` may come between any two of them.

`SenderCheck` follows a refusal: `Judges`, `Records` (into the buffer, which
has `Room`), `Refuses`, `Writes` (the buffer's goroutine); Postfix's lines
about it; the tailer's `HandleClient`, `HandleRefused`, `Recovers` (a row the
panel never wrote), `HandleMail` and `Attach` (a line on its row, retried by
`Retries`), `HandleWarning` and `HandleBroken` (clients turned away), `Saves`
(the place, held back by `Held`), through `Stops`, `Dies` and `Starts`.

### ReloadPromise, PostfixReload, Restore, Operations

`ReloadPromise` is what a caller of `RunOnce` may rely on: told "ok", Postfix
runs on files no older than the ones it saved; `served` only grows.
`PostfixReload` is how: `prog` is supervisord's one-shot program
(`ProgChecks`, `ProgReloads`, `ProgEnds`, `SpawnRetried`), `call[c]` a goroutine
in `RunOnce` (`Starts`, `Refused` while a run of somebody else goes on,
`SeenEnded`, `GivesUp`), `tls` the certificate loop of
`build/postfix-cert-reload.sh` with its copy, two renames and reload. The
refinement maps `written` to the tables on disk, `served` to those the master's
last reload took - or to the disk while no master runs, since one that starts
reads everything - and `need`, `told` to the callers'.

`Restore` is `internal/backup` and `openData` of `cmd/panel`: `Backups` makes an
archive entry by entry; `Unpacks`, `RanOut`, `Damages` are the operator's tar;
`Guarded` is the check of manifest, contents and mark, `Opens`, `Unlinks`,
`ResyncWrites`, `ManifestRemoved`, `MarkRemoved`, `RecordRemoved` the first
start, killed or failing anywhere.

`Operations` ties them: a start's resync is a caller of `RunOnce`, a request's
change is a row of `Restore` and a save of `PostfixReload`, Postfix starts when
the milters' sockets are there, the operator unpacks with the container
stopped.

## Runs

Every action of the modules fires in at least one run.

| run | question | properties | bounds |
|---|---|---|---|
| `journal_faults` | sessions race for ceilings, any store call may fail, the limit is edited, Postfix may not name the client | `ClientListHolds`, `NoOrphanReservation`, `AdmittedWithinCeiling`, `RefusedOnlyAtCeiling` | 2 sessions, 2 messages, ceiling 1, 2 addresses, clock 0..1 |
| `tail_rotation` | no line lost or kept twice over rotations, stops in the middle of a pass, failures; every line read in the end | `NoLineVanishes`, `LinesKeptOnce`, `EveryLineIsRead` | 3 files of 2 lines, 1 stop, 1 failing call and 1 failing write, one refusal's line, one message on port 25 |
| `rows_results` | rows show what the log says, no line changes an older message's row, the sweep guesses last | `FinalLineShown`, `NoOlderRowRewritten`, `SweepGuessesLast` | 1 queue id that may be given twice, 2 recipients, 2 rows, 3 lines, 1 kill, lines may be lost |
| `rows_end` | every row ends | `EveryRowEnds` | 1 row, test messages, failures, 3 lines, 1 kill |
| `app_together` | registry, accounts and map agree; requests never block each other (deadlock is checked) | `MapFollowsRegistry`, `NoAccountChangeLost`, `NoOrphanAccount`, `FailedSaveUndone` | 2 requests at a time out of 3 of any kind, 2 logins, 2 forms, 1 failing call, 1 kill |
| `selectors` | table and keys follow the registry, the signer signs whole messages; deadlock is checked | `TableFollowsRegistry`, `EveryNameHasItsKey`, `SignedWhole` | 2 names, one the server's, 2 selectors, 3 rows ever, 2 requests, 1 fault, 1 message of a header and a chunk |
| `notifications` | each told once, everyone told | `ToldOnce`, `EveryoneIsTold` | 1 domain, certificate, queue, 2 users, ceiling 2 an hour, a limit repeated after 2 ticks, 2 changes, 1 fault |
| `accounts` | one administrator left, sessions end, addresses and resets proven | `AGlobalAlways`, `OldSessionsEnd`, `ConfirmedMeansProven`, `ResetProvesTheMailbox` | 2 users, 2 addresses, 2 requests at once out of 3, 1 fault or kill |
| `panel_files` | maps, filter files, report addresses, reports and limits follow their rows | `MapsFollowRegistry`, `AcceptedHasRoute`, `FilterFollowsTable`, `AddressesFollow`, `ReportsStayWithTheirDomain`, `SavedLimitStays`, `FloodStaysAtHome` | 2 inbound and 2 sending domains, 2 requests and 2 jobs at once, eight budgets of up to 4 requests or 4 jobs, 3 reports, 1 failure |
| `inbound_journal` | rows of inbound mail show its fate; ids are remembered | `FateShown`, `VerdictAwaited` | 3 messages, 2 ids, 1 recipient, 2 ids remembered, journal of 1 row cut after 2, 1 kill |
| `operations` | reloads keep their promise, renewals are taken up, restores are whole and healed | `PromiseKept`, `RenewalNotForgotten`, `WholeAndOnlyWholeOpens`, `FirstStartHeals` | 3 callers, 3 archives, one foreign, four pairs of bounds (`BoundsDef`) |
| `sender_check` | judged by a map in force, refusals recorded, clients counted once | `JudgedByTheTable`, `RefusalHasItsRow`, `TurnedAwayCountedOnce` | 2 messages, connections, refusals, lines' texts, a buffer of 1, seven budgets of up to 3 stops and 4 rewrites |

Why the bounds are enough. The race for a slot needs two sessions and one free
slot; a clock of two values has a message begun at and after a window's edge.
A place can be wrong about at most the file it is in, the rotated one and the
one after: three files, with a stop on either side of a rotation. Two lines of
two halves give a read that ends before, in and after a line, and a file that
is or is not identifiable. A row's history is its message's: two recipients
distinguish the message from the row, one reused id distinguishes the row from
an older one. Requests meet in pairs, at one mutex or one row, and what a
failure leaves is what a third meets: hence two at once, three in all, one
fault. A notification's course is a bad reading, a second one, a message, its
failure and the end: it fits one domain beside one other subject, with one
failure and two changes of the world. A remembered id is dropped when a third
comes, and an id is crossed when the second message has it: three messages, two
ids. A restore is wrong about the archive before it or the one over it: two
archives, and one that is another version's. Where everything at once would be
too large, a behaviour draws a *budget* in its initial state, which takes one
part of the component far and the others a little; the `MC` module lists them.

Symmetry is used where the model values are exchangeable in every definition and
no liveness is checked. `CHECK_DEADLOCK FALSE` stands in `accounts`,
`inbound_journal`, `panel_files` and `sender_check`: with the bounds used up and
nothing under way, those systems really stop; they have no lock in which
requests could wait for one another beyond the single mutex each of them
models, whose holder can always go on.

Properties that the modules state and no configuration names: each module's
type invariant (`TypeOK`, `RTypeOK`, `BTypeOK`, `CheckTypeOK`, `NoticeTypeOK`, `DeliveryTypeOK`,
`InboundTypeOK`),
`MutexesGivenBack` (`AppService`), `FailedImportLeavesNothing` and
`CacheCurrent` (`SelectorTable`), `NotOnOneReading` (`Notifier`),
`OneModePerUpstream` (`InboundRelay`), `JournalBounded` and `FinalStays`
(`InboundJournal`), `CopyIsAPair` (`PostfixReload`), `MailWaitsForHealing`
(`Operations`), `RecoveredRowIsNamed` and `LineOnOneRow` (`SenderCheck`),
`OkMeansServed` (`ReloadPromise`). TLC found them true of these instances while
the modules were written; to check one again, add its name to the
configuration. Of these, `CacheCurrent`, `MutexesGivenBack`, `CopyIsAPair`,
`MailWaitsForHealing`, `OkMeansServed`, `JournalBounded`, `FinalStays`,
`NotOnOneReading`, `OneModePerUpstream`, `FailedImportLeavesNothing`,
`RecoveredRowIsNamed`, `LineOnOneRow` and the type invariants of the modules with
theorems are [proved](#proofs).

Several properties leave a case out by a history variable (`stale`, `drift`,
`lost`, `unsure`, `spared`, `behind`, `torn`, `crossed`, `gone`, `overrun`,
`late`, `blurred`, `split`, `cut`, …). Each stands for a way in which the code
does not do what one would wish, listed
[below](#where-the-code-and-its-documentation-disagree); the property says that
there is no other.

## Fairness

Safety runs use `Spec`, without fairness. Three runs have it:

- `tail_rotation`: the loop is driven by a ticker, supervisord restarts the
  panel, and logrotate finishes what it began - weak fairness of `Follow`,
  `Create`, `Reload`. Failing calls are bounded by `MaxFaults`, so nothing is
  assumed of their success beyond that.
- `rows_end`: a message leaves the queue (queue lifetime), sendmail returns (its
  timeout), time passes, both loops are driven by tickers; strong fairness of
  `SweepList`, `SweepQueueIDs` and `SweepClose` says that postqueue and the
  store do not fail for ever.
- `notifications`: a pass that runs goes on (every send and store call has a
  time limit), the two tickers start the passes that are due, and time passes -
  weak fairness of `Pass`, `Check`, `CheckLimits`, `Tick`. Nothing is assumed of
  the world's changes; failures are bounded by `MaxFaults`.

`PromiseKept` is a refinement of a specification without liveness: `RunOnce`
may always answer "failed".

## Proofs

Eight modules of theorems, checked by TLAPS for every value of the constants
that the named assumptions of the modules allow: any number of sessions,
requests, domains, applications, messages, recipients, log files, users, callers and
archives, and any value of the bounds. The assumptions say that the "none" values are told apart from what
they are not (`NameAssumption`, `NoneIsNoRow`, `NoneIsNoUser`, `NoneIsNothing`,
`CheckKinds`, `NotifierValues`, `LogNames`), that the bounds are numbers (one application, one domain and two
users at least fit in), that the sets of requests, of messages and of a
message's recipients are finite, and that a delivery ends as deferred, sent or
bounced (`JournalAssumption`). TLC evaluates them in every run.

| theorem | states |
|---|---|
| `JournalMilterProofs` | |
| `TypeCorrect` | `[]TypeOK` |
| `ReservationsKept` | `[]NoOrphanReservation` |
| `ClientListTheorem` | `[]ClientListHolds` |
| `AdmissionTheorem` | `AdmittedWithinCeiling` |
| `RefusalTheorem` | `RefusedOnlyAtCeiling` |
| `DeliveryInvariant`, `DeliveryTypes` | `[]DeliveryInv`, `[]DeliveryTypeOK` (of `DeliveryLog`) |
| `FinalLineOnTheRow` | `[]FinalLineShown` |
| `SweepGuessesLastAlways` | `SweepGuessesLast` |
| `NoOlderRowRewrittenAlways` | `NoOlderRowRewritten` |
| `OperationsProofs` | |
| `TypeCorrect` | `[]TypeOK` |
| `ReloadImplementsPromise` | `PromiseKept`: the refinement of `ReloadPromise` |
| `OkStaysServed` | `[]Promise!OkMeansServed` |
| `RenewalTheorem`, `CopyTheorem` | `[]RenewalNotForgotten`, `[]CopyIsAPair` |
| `RestoreTheorem`, `HealTheorem` | `[]WholeAndOnlyWholeOpens`, `FirstStartHeals` |
| `MailTheorem` | `[]MailWaitsForHealing` |
| `InboundInvariant`, `InboundTypes` | `[]InboundInv`, `[]InboundTypeOK` (of `InboundJournal`) |
| `FateIsShown`, `VerdictIsAwaited` | `[]FateShown`, `[]VerdictAwaited` |
| `FinalAlwaysStays` | `FinalStays` |
| `JournalStaysBounded` | `[]JournalBounded` |
| `PanelFilesProofs` | |
| `PanelTypesHold` | `[]PanelTyped` |
| `MapsAlwaysFollow`, `AcceptedAlwaysHasRoute` | `[]MapsFollowRegistry`, `[]AcceptedHasRoute` |
| `UpstreamAlwaysHasOneMode` | `[]OneModePerUpstream` |
| `FilterAlwaysFollows` | `[]FilterFollowsTable` |
| `AddressesAlwaysFollow` | `[]AddressesFollow` |
| `ReportsAlwaysStay`, `FloodAlwaysStaysAtHome` | `[]ReportsStayWithTheirDomain`, `FloodStaysAtHome` |
| `SavedLimitsStay` | `[]SavedLimitStays` |
| `AccountsProofs` | |
| `AccountTypesHold` | `[]TypeOK` |
| `AlwaysAGlobal`, `OldSessionsAlwaysEnd` | `[]AGlobalAlways`, `[]OldSessionsEnd` |
| `ConfirmedAlwaysProven`, `ResetAlwaysProves` | `[]ConfirmedMeansProven`, `ResetProvesTheMailbox` |
| `NotifierTypes`, `NotifierInvariant` | `[]NoticeTypeOK`, `[]NotifyInv` (of `Notifier`) |
| `MessagesAreToldOnce` | `ToldOnce` |
| `WrongOnlyWhenChecksAgree` | `NotOnOneReading` |
| `AppServiceProofs` | |
| `ApplicationTypesHold` | `[]TypeOK` |
| `NoAccountChangeIsLost`, `MutexesAreGivenBack` | `[]NoAccountChangeLost`, `[]MutexesGivenBack` |
| `NoAccountIsOrphaned` | `[]NoOrphanAccount` |
| `MapAlwaysFollowsRegistry` | `[]MapFollowsRegistry` |
| `FailedSaveIsUndone` | `[]FailedSaveUndone` |
| `SelectorTableProofs` | |
| `SelectorTypesHold` | `[]TypeOK` |
| `TableAlwaysFollows`, `EveryNameAlwaysHasItsKey` | `[]TableFollowsRegistry`, `[]EveryNameHasItsKey` |
| `CacheStaysCurrent`, `SignedAlwaysWhole` | `[]CacheCurrent`, `SignedWhole` |
| `FailedImportAlwaysLeavesNothing` | `[]FailedImportLeavesNothing` |
| `SenderCheckProofs` | |
| `CheckTypesHold` | `[]CheckTypeOK` |
| `AlwaysJudgedByTheTable` | `[]JudgedByTheTable` |
| `RefusalAlwaysHasItsRow` | `[]RefusalHasItsRow` |
| `TurnedAwayAlwaysCountedOnce` | `[]TurnedAwayCountedOnce` |
| `RecoveredRowIsAlwaysNamed`, `LineAlwaysOnOneRow` | `[]RecoveredRowIsNamed`, `[]LineOnOneRow` |
| `LogFollowProofs` | |
| `FollowTypesHold` | `[]TypeOK` |
| `LinesAreAccountedFor` | `[]NoLineVanishes` |
| `EveryLineIsKeptOnce` | `[]LinesKeptOnce` |

All are of the form `Spec => ...`. Hardly one of the properties is inductive;
what follows says what had to be found beside it, for that is the argument why
the code is right. TLC checked each invariant on a small instance first.

**JournalMilter.** One invariant, `IInv`:

- `Ownership`: a session between MAIL FROM and the end of its message has a
  message (`BusyHasMessage`), of its own number, and its `slots` hold at most
  that one, under the key it was judged by. Without it two sessions might
  release each other's reservation.
- `SlotHeld`: a session's slots are in the registry unless they expired. So a
  message under way is *seen* by the count of any other session.
- `NoOrphanReservation`: the converse, from the registry to the sessions.
- `ClientChecked`: from the address list's check to the end of the message the
  session's login and the client's address agree. A replaced session has
  forgotten the address, and this is where an address that is not known must
  not pass.
- `RowsNumbered`: rows are of messages already begun, so a new message's number
  is in no row.
- `CountHolds`: what a session that stands before `tryAdmit` holds as `stored`
  is what `CountMessages` would answer now, unless `stale` - a message of the
  key was recorded since.

The step is proved action by action, one lemma per group of conjuncts. The two
action properties then need one fact more about sets: the messages spent under a
key are those counted as stored, joined with those of the sessions in a
transaction, each of which has its slot among the ones `tryAdmit` counts
(`MessageSets`, `StoredIsRecorded`) - so the cardinality that admits or refuses
is the cardinality of the property.

**DeliveryLog** (in the second half of `JournalMilterProofs`). `DeliveryInv` has
no line about the tailer's memory, for it has none; what it needs is what
Postfix's log is like, and what a row can look like when a line comes by.

- `Structure`: a row in Postfix's hands is of that recipient and that queue id,
  or of none as yet, and in one queue file (`PlacesOk`); a line speaks of rows of
  its recipient (`LinesOk`), and after a final one none speaks of them again nor
  is the message in the queue (`EndsOk`); of a test message that sendmail has,
  nothing was said (`TestingOk`). `GoneOk`: the retention takes rows oldest
  first, so the newest row of an id is not deleted before an older one.
- `ShownOk` is `FinalLineShown` of the lines handled so far, and holds at every
  place of the log. A delivery line may rewrite a row that shows a final result
  only if it is about that row (`OnlyOfItsID`), and then it is the same line read
  again, for none comes after it. An expiry bounces open rows alone, and the
  sweep closes open rows alone, so neither touches it.
- `SentOk`: what says "sent" has a line that says so. It is needed where the line
  shown is an expiry: the row was open or bounced, since one that was delivered is
  in no queue that could expire.
- `SweepOk`: the rows in the sweep's hands are old, have a queue id, and once
  postqueue was asked are not in Postfix's hands (`OldOk`: an old row is not on
  its way in, so a listing of the queue does not miss it); and while it works the
  tailer is past what was in the log at the start. `SweepGuessesLast` is that, at
  the step that closes.

`NoOlderRowRewritten` follows from `LinesOk` and `GoneOk` by what `NewestRow`
chooses. Trying to prove `FinalLineShown` showed that it was false in its earlier
form beyond TLC's instance: with an id given again to a message whose row was not
written, the row of the message before gets that message's result (see
[below](#where-the-code-and-its-documentation-disagree)).

**Operations.** The refinement rests on `ReloadInv`: the program's own step is
that of a running program (`ProgInStep`), and a run that a caller started itself
has, once it has signalled the master or found none, served that caller's save
(`OwnRunServes`). The certificate loop needs `CopyInStep`, which says at which of
its steps key and certificate may differ, and `CopyIsServed`. The restore needs
what tar has written so far and how it ended (`AmidInv`), that the guard's check
of a directory at rest accepts what was unpacked whole and nothing else
(`OnlyWholeChecks`), and that whatever start goes on has taken such a directory
(`StartInStep`, `HealedInStep`).

**InboundJournal** (in the second half of `OperationsProofs`). As in the delivery
log, most of `InboundInv` says what Postfix's log is like and what a row can look
like when a line comes by.

- `PostOk` and `LinesOk`: a message's lines have its queue id; after the line that
  ends it there is none; a delivery line tells the recipient's present fate, or a
  later one does; each recipient is refused once. Every step of Postfix is brought
  to one form - a message moves on, at most one line is added, and what the line
  says is the fate of now (`Reported`) - so that the journal's side of the
  invariant is shown for it once.
- `RowIds`: lines of another message with the row's id come after all of the
  row's own message, or the message is in `crossed`. Without it a line could be
  taken for a row that it is not about.
- `RowShows`: a row shows its recipient's fate, or a line still to come will have
  it shown. It is said of the place that is stored as well as of the reader's, so
  that a kill, which takes the reader back to the stored place, keeps it.
  `FateShown` is what is left of it when no line is to come.
- `RefusalsOk`: a refusal has one row at most, and none as long as its line is
  ahead of a reader that has caught up - before that the row is looked for, and
  found.
- `ArrivalsOk`: arrivals are numbered without a gap, and an id that is remembered
  has the number of its last arrival. So what is `Dropped` when too many are
  remembered is the oldest, and not an id given again since.
- `CapInv`, for `JournalBounded`: while nobody is about to cut, the journal has no
  more rows than the cap, the writes since the last cut, and those written and not
  counted yet (`Counting`); and who counts up to the mark cuts (`WritersOk`). This
  holds under the model's bound of one message at a time past its end.

**PanelFiles.** Rows, files and the writer of the files are related by three
statements that appear in this form wherever files follow a table: one request
is in the critical section (`OneHolder`, `OneWriter`, `OneLister`); what it has
read is what the rows say, unless somebody is to read them anew
(`ReaderHasRows`, `WriterHasRows`); with nobody there the files are what the rows
say, unless somebody is to write them (`MapsHaveAll`, `MapsHaveRows`). For the
relay, `RouteKept` follows the order in which the four maps are written - that
order is why an accepted recipient has a route between two of the writes. The
filter's files are taken one by one (`WrittenFollow`). `LimitInv`: a
recalculation that knows of no later save carries the limit that was saved,
without its number. `ReportInv`: the report under way was checked by a row that
is still the domain's, or gone. `ModeInv` is about the saves of an upstream, which
are no transaction: two rows of it differ only while a save that nobody has saved
into is at the other rows (`Finishes`), or the upstream is in `torn`; and such a
save knows every row that differs from it (`SaveKnows`), so that when it has gone
through what it listed, none does.

**Accounts.** `AccInv`. A change of role and a deletion look at the other
administrators in their own transaction, so `AGlobalAlways` is nearly inductive
(`GlobalInv` adds the setup page's user). `OldSessionsEnd` is, once every request
that still has sessions to end is counted. A link's two sides are `Proven` (a
request about to confirm an address holds the one the link was sent to) and
`OpenedStill` (a link about to be taken is the one that was opened, or is gone:
no new link has the token of one a request holds).

**Notifier** (in the second half of `AccountsProofs`). `NotifyInv`. A subject nobody has in hand is *at
rest*: its row says that something was said exactly when somebody was handed a
message, and the addressees recorded as told are those who were (`ToldAre`); and
if the next look at it would send a copy, not a new message (`Follows`), all who
are still due one were asked for when it was opened (`Rest`). For the subject in
hand, `PlanOk` says what its plan is made of and `SaidOk` by how much the two are
apart: an opening has said to those handed a copy, and to nobody of before, since
nothing that leads to one is `Follows`ed; a follow-up has said to those told and
those handed. When the plan is through, rows and messages agree again
(`SavedSaid`). That holds for the world's moves because a certificate that changes
makes no row followed that was not (`RowsOutlive`), and for time because a row
only grows older (`AgedIs`). A write that is lost puts the subject in `unsure`,
and out it comes only when it is forgotten whole.
`DNSInv` ties the row of a domain to what the checks have said of it: a row is
`Backed` when a pending one counts checks that found the records wrong, and an
open one those that found them right, no more of them and none older than the
unbroken row of readings that agree. A plan for a domain saves backed rows only,
and opens or closes only where enough checks `Agreed` (`DNSPlan`, `DNSHand`);
readings change only when the domain is looked at, so at rest its row stays
backed (`DNSAtRest`).

**AppService.** `AppTyped` has the mutual exclusion: `saslMu` and `resyncMu` are
held by the request at the steps between, and by no other (`Holders`), and the
copy being changed is of the accounts as they are (`CopyCurrent`). `MapInv` is
the three statements above, in a list of alternatives: the listing of the holder,
the file, and what Postfix read are current, or a request is at a step from which
it must come past the listing, the writing, the reload. `AloneInv` is about one
request at a time: which of its row and its account stand at each step, rollback
included (`Undisturbed`). `SaveInv` says at each step of a save and of its undoing
what is still as it was before (`SaveOk`).

**SelectorTable.** `SelInv` = `SelTyped /\ SignTyped /\ TableInv /\ KeyInv /\
ServerKeyInv`. `Owes` names the steps from which a request is still to list the
names, `HalfDone` those at which its row is without a key or about to go; a name
without a key is then one of a request at such a step, or in `lost`. `SignTyped`
carries the signature: what the signer was given and kept, and that a key read
under a stamp is the file's unless the file is a later one. `UndoInv` is about an
import with no other request beside it (`Alone`): it has its row until its
undoing takes the row away, and from then on, if nothing more fails, the name is
out of the registry, next out of the rows listed for the table, then out of the
table, and at last without a key (`RowGone`).

**SenderCheck.** `JudgeInv`: the map in memory is the file's content when it has
the file's stamp (`CacheStands`), and the content of now was in force since the
check's last look (`InForce`). `RowInv`: no line before the answer and no row
before the verdict (`NothingBefore`); a row waited for is that of a line read, at
or after the place that is saved (`WaitsForALine` - this is where `oldest` is
needed); a refused message has its row, or its line is still to be read, or its
row is waited for (`RowOrLine`); one row of each kind, and both only of one the
tailer did not wait long enough for (`OneOfEach`). The count needs more, since
nothing in the code says that two warnings are of one client: `LinesOk` says what
Postfix's log is like (a connection has one process; past a process's next
connect line there is no warning of its client of before; between two connect
lines its warnings are about one client; a message is cut short once),
`MemoryInv` what the tailer remembers of it in this life (`FailedWereRead`,
`FailedRemembered`: any connection that may draw another warning, but for one
that the place stands in the middle of), and `CountInv` what was counted:
everything read or counted over has its count or is `missed`, and a count has its
line at or before the place of counting.

That a recovered row is named needs the log's order beside the tailer's memory.
`TalkInv`: a message has one client line and one line of its refusal, and no other
message begins or is refused between them (`TalksInTurn`, for the client waits).
`NameInv`: a login that was read is remembered until the refusal is (`LoginKnown`),
a row waited for is held from its client line or is unnamed for a reason
(`WaitIsNamed`), and a refusal read after a line that still waits is itself waited
for (`WaitsInTurn`) - which the guard of `Recovers` keeps, and without which
`oldest` could stop between a client line and a refusal whose row was written
already. From these `HeldApart` follows: no place is saved between the two lines
of one message, but for a message that was passed by before. `AttachInv` is for
the lines about MAIL FROM: there are as many of them as refusals (`AsManyLines`)
and no text is on two rows, so while every row was written, a line that is on no
row finds one without a line (`SomeRowIsBare`, a counting argument) - a line read
is on a row or its store failed, and what waits is not needed for it.

**LogFollow.** `FollowInv`. Two files are named at a time and the reader holds
one of them open, with the one before it as `old` (`FilesInStep`,
`ReaderInStep`). `NoLineVanishes` speaks of written lines and is not inductive:
a reader in the middle of a line must not have passed it by before its second
half is written. So `LinesCome` speaks of every line that is there or may yet be
written (`Possible`), and says that it is settled - handled *and* kept, or
written off - or ahead. A kill throws the reader's position away, and then what
was ahead of it must be ahead of the stored place: `PlaceTold` says all along
that whatever the place lies behind is settled, but for the rest of the rotated
file, which the stop then lets go of (`LetGoCovers`). That a line is not kept
twice rests on `KeptBehind`: once a reader has caught up, and writes without
looking, nothing kept is ahead of it.

What stays with TLC:

- liveness (`EveryLineIsRead`, `EveryRowEnds`, `EveryoneIsTold`): the prover has
  neither `ENABLED` nor fairness.

Every other property that a run checks or a module states is a theorem.

No module declares a recursive operator; those that use recursive operators of
the community modules over sequences are kept to the ones the prover accepts.
Where a least element of a set of places or ids is chosen (what is held back of
a place, the first of a sorted list), the proofs use the well-foundedness of `<`, so that no
finiteness has to be assumed.

## Where the code and its documentation disagree

These came up while the modules were written and checked. The properties of the
runs are stated so that they leave them out, and say where; no run is kept for
them.

Mail and limits:

- `ratelimit.go:71-74` and `architecture.md:384`, two sessions racing at MAIL
  FROM cannot both claim the last free slot: `CountMessages` is read before the
  registry's lock, and a message recorded and released in between is in neither
  number (`stale` in `AdmittedWithinCeiling`).
- `inflight.go:16-18`, a message still being received is never dropped from the
  count: a reservation older than the *window* is, whatever the TTL, and a window
  may be shorter than a transfer (`Unseen` in `AdmittedWithinCeiling`, whose
  disjuncts are these two, a failed store call and nothing else).
- `sendlog.go`, two refusals of one second take one line each in turn: in one
  smtpd connection their lines are the same text, and the second row never gets
  one (`LineOnOneRow`).
- `sendercheck.go:147`, once for the connection, however many warnings it draws:
  a connection the tailer is started again in the middle of is counted twice
  (`split` in `TurnedAwayCountedOnce`).
- A row of the refusal buffer written later than the tailer's wait of 30 seconds
  is a second row of the message (`late` in `RefusalHasItsRow`).
- Two rewrites of the sender map of equal size within one tick of the file
  system's clock look like one (`blurred` in `JudgedByTheTable`).

The log:

- `offset.go:57-60`, no offset past a waiting refusal is saved: `adopt` saves the
  start of the new log while a refusal of the rotated one waits; and one that was
  remembered while the log was too short to be identified is not found by `hold`
  once the log has a fingerprint (`refusals.go:110-112`).
- `architecture.md:672-677`, what was written between a stop and a rotation is
  read or reported: not when the stored place is of a log shorter than a
  fingerprint (`nameless` in `NoLineVanishes`).
- `architecture.md:771-772`, closed − missed − contradicted is a number of rows:
  a line logged between the sweep's listing and the tailer's next tick counts one
  row both as missed and as contradicted (no property is about the sums).
- `architecture.md:677-678`, re-parsing lines is harmless: a deferral read again
  reopens a row the sweep closed in between, and counts a contradiction
  (`FinalLineShown` speaks of the end of the log only).
- With short queue ids, a row whose id was given again to a message without a row
  of its own - the write failed, or it is another sender's - shows that message's
  result (`OnlyOfItsID` in `FinalLineShown`).
- With short queue ids, an inbound message may get the result of another one that
  has its id, if the tailer lags or reads again (`crossed` in `FateShown`).

Applications and domains:

- `app/service.go:171-174`, no account is left that the panel no longer knows: a
  new password (`service.go:151`) is written after a concurrent deletion removed
  the account (`NoOrphanAccount` is about one request at a time; with two, an
  undone save may be another's too, `FailedSaveUndone`).
- `app/service.go:71-73`, a creation that fails is rolled back: `rollbackCreate`
  removes the account and, whether or not that succeeded, the row; an account
  that stays is one no page lists (`leftover` in `NoOrphanAccount`). Likewise a
  save whose undoing meets a failure of its own is left half done
  (`FailedSaveUndone` speaks of one failing call).
- `domain/service.go:147-149`, the same for a domain: a `rollbackAdd` or an
  `importRollback` that fails leaves the row, without its line in the table or
  without its key (`drift`, `lost`).
- `app/service.go:71-73`, a creation that fails is rolled back: when it is the
  reload after the rebuild that failed, the binding stays in the file until the
  next rebuild (`drift` in `MapFollowsRegistry`).
- `app/service.go:292-293` and `:329`, the three parts of an application are
  saved together: two saves interleave their three transactions.
- `app/service.go:168`, other applications are untouched: a deletion removes the
  account by a login read earlier, which may be a new application's by then.
- `domain/service.go:147-149`, never a registered domain the signer cannot sign
  for: a kill between the row and its key leaves one until the next resync, and a
  deletion's or a reload's removal of a key meets the same name added again
  (`lost` in `EveryNameHasItsKey`). The look for a key and its writing are two
  steps, so the Settings page and a resync may both make the server's key.
- `dmarc/service.go:73`, only what a domain has chosen is open: the deletion of a
  domain makes no rebuild, so its address stays open until the next one (`gone` in
  `AddressesFollow`).
- `store/domains.go:136-140`, old reports do not come to whoever adds the domain
  again: the ingest checks the domain and inserts in two statements of another
  process, between which the domain may be deleted and added (`late`).
- A recalculation of a limit that read it before a save writes over the save
  (`overrun` in `SavedLimitStays`), and a save after the deletion of its domain
  leaves a row (`ratelimits.go:121-123`, no orphan rows). An automatic limit is
  saved as 0, which is inactive, until its first recalculation ends.

Inbound relay:

- `inbound/service.go:86`, an upstream has one TLS mode: the statements of a save
  over the rows of an upstream are not a transaction; overlapping or interrupted
  ones leave two modes, and the write-back of another domain's row restores an
  upstream read earlier (`torn`).
- The undoing of an addition deletes the row though it got an upstream meanwhile,
  and no rebuild follows; a deletion beside an addition makes the addition's
  rebuild fail on the missing row and be undone (`behind` in
  `MapsFollowRegistry`).
- After a reload that failed, saving the same again finds nothing to write and
  asks for no reload. After a kill, a plain start does not rebuild these maps.

Users and notifications:

- `sessions.go:83`, a session opened under the old password must stop working: a
  sign-in that compared the old hash before the change creates its session after
  the change ended the others (`spared` in `OldSessionsEnd`).
- The Account page's new password writes back the username and address read at
  its start, and undoes a change of them made meanwhile. Two reset requests at
  once may both pass the check of the spacing between mails. A refund of the
  mail limiter may go to the next window.
- `notify.go:6-7`, said once, and a restart says nothing again: a kill or a failed
  write between a message and its record repeats it (`unsure` in `ToldOnce`).

The container:

- `backup/contents.go:28`, a half unpacked backup is refused: an archive unpacked
  again over a checked restore of the same archive, cut before its record of
  contents, finds the earlier mark and is accepted - also after a finished
  restore that was killed between the removal of manifest and mark
  (`intact = "over"` in `HalfNeverOpened`).
- `postfix-cert-reload.sh`: cut between its renames, or killed between copy and
  reload, it starts with nothing pending and forgets the renewal;
  `postfix-config.sh` copies the pair at the start without the check that key and
  certificate belong together (`cut` in `RenewalNotForgotten`).
- A panel killed between saving a table and asking for the reload leaves Postfix
  on the old one: a plain start asks for none. A caller whose own run went well
  is told "failed" if a later one, which it finds on looking, failed.

## What is not modelled

- Formats: log lines, addresses, MIME, DKIM signatures, XML, archives. What a
  line or message *says* is a model value; parsing is right or wrong by unit
  tests.
- Components marked "-": the login limiter is counters in one mutex, tested as
  such, and `Accounts` takes its refusals as requests that did not come; health,
  DNS and update checks only look at the world; pages are rendering, and the
  handlers that change state are modelled with the services they call.
  Migrations are SQL in one transaction.
- In `JournalMilter`: headers and subject (no decision depends on them);
  `defer` against `accept` when the milter is not there at all, which is
  Postfix's setting.
- In `LogFollow`: truncation of the log in place (nothing in the container does
  it), an identical first 512 bytes of two files, the ceiling of 4096 port-25
  ids, an id used again by another listener, and lines of the panel's own
  messages whose rows the retention deleted.
- In `AppService`: the validation of texts, and the derivation of an automatic
  limit, taken as a call that may fail (`DomainSettings` has it). Imports are
  `SelectorTable`'s.
- In `Accounts`: usernames, the domains a user may see, limits on attempts and
  mails; a change of role changes nothing else.
- In `InboundRelay`: what Postfix has read of the maps; the page's figures of
  use. In `DomainSettings`: the limits of applications are not told apart from a
  domain's, an address outside the server's name counts as none, one report is
  in flight at a time, and how the queue manager resolves a transport is not
  followed.
- In `InboundJournal`: one message is past its end at a time; other listeners'
  mail is followed as far as its opening or refusal; milter timeouts, equal
  refusals within one second, a failing cut and the retention by age are left
  out.
- In `SenderCheck`: rotation between a refusal and its line (`LogFollow` has what
  the reader does), the overflow of the tailer's tables, queue ids used again
  within two minutes, a panel that hangs, and the booking of downtime.
- In `Operations`: one change at a time is between its row and its file; power
  cuts and renames not synced; the count of exits by which the container gives
  up; smtpd processes that still run on tables from before a reload. The chunks
  of an encrypted archive are one piece that is whole or not.
- The kernel, SQLite and Postfix are external: a rename is atomic, a committed
  transaction lasts, and Postfix reads a map when it is reloaded.

## Plan

What is left to model: the booking of the sender check's downtime
(`cmd/panel/sendercheck.go`), the login limiter's bounded table, migrations as
two processes meet them, and refusals that wait across a rotation, which needs
`SenderCheck`'s rows beside `LogFollow`'s files.

Of what is modelled, only the liveness properties have no proof. For the log's
(`EveryLineIsRead`) the safety half is there: every line is ahead of the reader,
settled or written off (`LinesCome`).
