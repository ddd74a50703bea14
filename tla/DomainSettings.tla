--------------------------- MODULE DomainSettings ---------------------------
(***************************************************************************)
(* What a sending domain is set to besides its key and its applications:   *)
(* where its DMARC reports go, and its limit on messages.                  *)
(*                                                                         *)
(* dmarc.Service keeps three maps by which Postfix accepts reports on port *)
(* 25 for the addresses domains have chosen and pipes them, one at a time, *)
(* to a process of their own (IngestMessage), which checks a report,       *)
(* stores it and keeps a number of them per domain; Postfix keeps a        *)
(* message the process failed on and brings it again.                      *)
(*                                                                         *)
(* A limit is manual, or automatic: worked out from the domain's traffic   *)
(* when it is saved, at a button, and for all domains every six hours.     *)
(*                                                                         *)
(* A job is one call of a handler of the panel, the six-hourly             *)
(* recalculation or the rebuild of a start; several run at once, with the  *)
(* ingest beside them.  Any step of theirs may fail and the panel may be   *)
(* killed between any two.  A limit of an application is the same code and *)
(* is not told apart; a row with an address outside the server's name      *)
(* opens nothing here and counts as one with none.                         *)
(***************************************************************************)
EXTENDS Naturals, FiniteSets, Sequences

CONSTANTS
    Domains,      \* names of sending domains
    MaxRows,      \* bound: rows ever added, AUTOINCREMENT never gives an id twice
    Keys,         \* what identifies a report: its reporter and id
    Keep,         \* DMARCReportsMaxKeep
    L1,           \* the level-1 limit, which no other may exceed
    Multipliers,  \* of automatic limits, in tenths
    Totals,       \* messages a domain may have sent in the statistics' hours
    Hours,        \* those hours, in windows of a limit
    Jobs,         \* jobs under way at once
    MaxAsked,     \* bound: jobs begun
    MaxArrived,   \* bound: reports arrived, and ninety days passed
    MaxFailures   \* bound: failing steps and kills

\* "none" is not the name of a domain: one has at least two labels
\* (validate.Domain).
ASSUME SettingsAssumption ==
    /\ MaxRows \in Nat /\ Keep \in Nat \ {0} /\ L1 \in Nat \ {0} /\ Hours \in Nat \ {0}
    /\ Multipliers \subseteq Nat \ {0} /\ Totals \subseteq Nat
    /\ MaxAsked \in Nat /\ MaxArrived \in Nat /\ MaxFailures \in Nat
    /\ "none" \notin Domains

VARIABLES
    domains,   \* the rows: id -> name and whether its reports come here
    issued,    \* ids given out
    opened,    \* the three maps of the report addresses, an address by its tag
    reports,   \* stored reports in the order they were received
    ingest,    \* the message the ingest has, or Postfix keeps for it
    limits,    \* the rows of the limits, by the id of the domain
    job,       \* jobs under way
    gone,      \* hosted domains deleted since the rows were last listed
    owed,      \* whether a rebuild that stopped is still to be made good
    saved,     \* what the last save or deletion made of a limit
    overrun,   \* limits a recalculation begun before the last save wrote over
    asked, arrived, failures

settings == <<domains, issued, opened, reports, ingest, limits, job, gone, owed,
              saved, overrun, asked, arrived, failures>>
rowVars   == <<domains, issued, reports, gone>>
mapVars   == <<opened, owed>>
limitVars == <<limits, saved, overrun>>
ingestVars == <<ingest, arrived>>

RowIds == 1..MaxRows
NoRow  == [name |-> "none", hosted |-> FALSE]
There  == {i \in RowIds : domains[i] # NoRow}
RowsNamed(n) == {i \in There : domains[i].name = n}

NoLimit == [mode |-> "none", mult |-> 0, max |-> 0]
Manual(m) == [mode |-> "manual", mult |-> 0, max |-> m]
Automatic(k) == [mode |-> "auto", mult |-> k, max |-> 0]
IsAuto(l) == l.mode = "auto"

\* What the form lets through (checkManualLimit, parseAutoMultiplier), an
\* empty one clearing the limit.
Limits == {NoLimit} \cup {Manual(m) : m \in 1..L1} \cup {Automatic(k) : k \in Multipliers}

\* The limits an export file may bring: it is held to the rules of the form,
\* and an automatic limit's number is dropped.
ImportedLimits == {[l EXCEPT !.max = IF IsAuto(l) THEN 0 ELSE @] : l \in Limits}

\* Where reports may go: to this server, to an address elsewhere, nowhere.
Choices == {"hosted", "elsewhere", "none"}

NoJob == [pc |-> "idle", op |-> "none", id |-> 0, choice |-> "none", limit |-> NoLimit,
          stale |-> FALSE, todo |-> {}, got |-> {}]
NoMail == [pc |-> "none"]

Breaks == failures < MaxFailures /\ failures' = failures + 1

-----------------------------------------------------------------------------
(* Jobs                                                                    *)

\* The rebuild of a start comes before the panel takes requests.
Up == \A j \in Jobs : job[j].op # "start"

BeginJob(j, c) ==
    /\ Up /\ asked < MaxAsked /\ job[j] = NoJob
    /\ job' = [job EXCEPT ![j] = c]
    /\ asked' = asked + 1

To(j, pc) == job' = [job EXCEPT ![j].pc = pc]
Over(j) == job' = [job EXCEPT ![j] = NoJob]

\* After the maps, an import works out the automatic limit it brought.
AfterMaps(c) ==
    IF c.op = "import" /\ IsAuto(c.limit) THEN [NoJob EXCEPT !.op = "import", !.pc = "recalc", !.id = c.id]
                                          ELSE NoJob

\* A save or a deletion of limit i makes every reading of it stale.
Staled(f, i) ==
    [j \in Jobs |-> [f[j] EXCEPT
        !.stale = @ \/ (f[j].id = i /\ f[j].pc \in {"stats", "store"}),
        !.todo = {[e EXCEPT !.stale = e.stale \/ e.id = i] : e \in @}]]

LimitSaved(i, l) ==
    /\ limits' = [limits EXCEPT ![i] = l]
    /\ saved' = [saved EXCEPT ![i] = l]
    /\ overrun' = overrun \ {i}

-----------------------------------------------------------------------------
(* Domains                                                                 *)

\* What an import writes of what its file brings, in this order.
LimitOf(c) == [c EXCEPT !.pc = IF c.limit # NoLimit THEN "limit" ELSE "rest"]
AddressOf(c) == IF c.choice # "none" THEN [c EXCEPT !.pc = "address"] ELSE LimitOf(c)

\* Add and Import as far as the row; of an import the address and the limit
\* are in the file, if it has them.
AddDomain(j, n, op, h, l) ==
    /\ RowsNamed(n) = {} /\ issued < MaxRows
    /\ BeginJob(j, AddressOf([NoJob EXCEPT !.op = op, !.id = issued + 1, !.choice = h, !.limit = l]))
    /\ issued' = issued + 1
    /\ domains' = [domains EXCEPT ![issued + 1] = [name |-> n, hosted |-> FALSE]]
    /\ UNCHANGED <<reports, gone, mapVars, limitVars, ingestVars, failures>>

\* Its key, its place in the selector table, its applications and the sender
\* map: other modules.  An import with a report address rebuilds the maps.
RestDone(j) ==
    /\ job[j].pc = "rest"
    /\ IF job[j].choice # "none" THEN To(j, "list") ELSE job' = [job EXCEPT ![j] = AfterMaps(@)]
    /\ UNCHANGED <<rowVars, mapVars, limitVars, ingestVars, asked, failures>>

\* The elements of s at the positions of K, in their order.
Keeping(s, K) ==
    [n \in 1..Cardinality(K) |-> s[CHOOSE k \in K : Cardinality({m \in K : m < k}) = n - 1]]

NoReportsOf(n) == reports
\* store.DeleteDomain: the row and, in the same transaction, its reports.
DropReportsOf(n) == Keeping(reports, {k \in 1..Len(reports) : reports[k].domain # n})

DeleteRow(i) ==
    /\ domains' = [domains EXCEPT ![i] = NoRow]
    /\ reports' = DropReportsOf(domains[i].name)
    /\ gone' = IF domains[i].hosted THEN gone \cup {domains[i].name} ELSE gone

\* Service.Delete looks the domain up, takes its limits and then its row.
Remove(j, i) ==
    /\ i \in There
    /\ BeginJob(j, [NoJob EXCEPT !.op = "delete", !.pc = "unlimit", !.id = i])
    /\ UNCHANGED <<rowVars, mapVars, limitVars, ingestVars, failures>>

ClearLimits(j) ==
    /\ job[j].pc = "unlimit"
    /\ LimitSaved(job[j].id, NoLimit)
    /\ job' = Staled([job EXCEPT ![j].pc = "drop"], job[j].id)
    /\ UNCHANGED <<rowVars, mapVars, ingestVars, asked, failures>>

DropRow(j) ==
    /\ job[j].pc = "drop"
    /\ IF job[j].id \in There THEN DeleteRow(job[j].id) ELSE UNCHANGED <<domains, reports, gone>>
    /\ Over(j)
    /\ UNCHANGED <<issued, mapVars, limitVars, ingestVars, asked, failures>>

-----------------------------------------------------------------------------
(* Report addresses                                                        *)

\* HandleDomainDMARC: the hosted address, or one elsewhere or none.
ChooseAddress(j, i, h) ==
    /\ i \in There
    /\ BeginJob(j, [NoJob EXCEPT !.op = "address", !.pc = "address", !.id = i, !.choice = h])
    /\ UNCHANGED <<rowVars, mapVars, limitVars, ingestVars, failures>>

\* A step of an import that cannot be done: the import is rolled back through
\* Delete, which does nothing for a row that is gone.
Refused(c) ==
    IF c.op = "import" /\ c.id \in There THEN [c EXCEPT !.pc = "unlimit"] ELSE NoJob

\* SetDomainDMARCAddress.
SaveAddress(j) ==
    LET c == job[j] IN
    /\ c.pc = "address"
    /\ IF c.id \in There
       THEN /\ domains' = [domains EXCEPT ![c.id].hosted = (c.choice = "hosted")]
            /\ job' = [job EXCEPT ![j] = IF c.op = "import" THEN LimitOf(c) ELSE [c EXCEPT !.pc = "list"]]
       ELSE job' = [job EXCEPT ![j] = Refused(c)] /\ UNCHANGED domains
    /\ UNCHANGED <<issued, reports, gone, mapVars, limitVars, ingestVars, asked, failures>>

\* AllowedRecipients: the address tagged with the name of each domain that
\* chose it.
Hosted == {domains[i].name : i \in {k \in There : domains[k].hosted}}

\* renderDMARCMaps.
DmarcMaps(S) == [recipients |-> S, transport |-> S, relay |-> IF S = {} THEN {} ELSE {"hostname"}]
DmarcOrder == <<"recipients", "transport", "relay">>
ToWrite(want) == {k \in 1..3 : opened[DmarcOrder[k]] # want[DmarcOrder[k]]}
NextToWrite(want) == DmarcOrder[CHOOSE k \in ToWrite(want) : \A m \in ToWrite(want) : k <= m]

NeverHeld(j) == FALSE
\* resyncMu of the service, from the listing to the last map.
HoldsDmarc(j) == job[j].pc = "write"

\* HandleReload and a start come here by themselves.
ResyncDMARC(j, op) ==
    /\ job[j] = NoJob
    /\ job' = [job EXCEPT ![j] = [NoJob EXCEPT !.op = op, !.pc = "list"]]
    /\ UNCHANGED <<rowVars, mapVars, limitVars, ingestVars, asked, failures>>

ListHosted(j) ==
    /\ job[j].pc = "list" /\ ~\E k \in Jobs : HoldsDmarc(k)
    /\ job' = [job EXCEPT ![j].pc = "write", ![j].got = Hosted]
    /\ gone' = {}
    /\ owed' = IF owed = "yes" THEN "rebuilding" ELSE owed
    /\ UNCHANGED <<domains, issued, reports, opened, limitVars, ingestVars, asked, failures>>

\* writeChanged, in its order, and the reload if one was written.
WriteDmarcMap(j) ==
    LET want == DmarcMaps(job[j].got) IN
    /\ job[j].pc = "write"
    /\ IF ToWrite(want) = {}
       THEN /\ job' = [job EXCEPT ![j] = AfterMaps(@)]
            /\ owed' = IF owed = "rebuilding" THEN "no" ELSE owed
            /\ UNCHANGED opened
       ELSE /\ opened' = [opened EXCEPT ![NextToWrite(want)] = want[NextToWrite(want)]]
            /\ UNCHANGED <<job, owed>>
    /\ UNCHANGED <<rowVars, limitVars, ingestVars, asked, failures>>

-----------------------------------------------------------------------------
(* Limits                                                                  *)

\* HandleDomainRateLimit; nothing asks again whether the domain is there.
ChooseLimit(j, i, l) ==
    /\ i \in There
    /\ BeginJob(j, [NoJob EXCEPT !.op = "limit", !.pc = "limit", !.id = i, !.limit = l])
    /\ UNCHANGED <<rowVars, mapVars, limitVars, ingestVars, failures>>

\* SaveRateLimit and ClearRateLimit; an automatic limit lets everything through
\* until it is worked out, a step later.
SaveLimit(j) ==
    LET c == job[j] IN
    /\ c.pc = "limit"
    /\ LimitSaved(c.id, c.limit)
    /\ job' = Staled([job EXCEPT ![j] =
                 IF c.op = "import" THEN [c EXCEPT !.pc = "rest"]
                 ELSE IF IsAuto(c.limit) THEN [NoJob EXCEPT !.op = "limit", !.pc = "recalc", !.id = c.id]
                 ELSE NoJob], c.id)
    /\ UNCHANGED <<rowVars, mapVars, ingestVars, asked, failures>>

\* HandleDomainRateLimitRecalc.
AskRecalc(j, i) ==
    /\ i \in There
    /\ BeginJob(j, [NoJob EXCEPT !.op = "button", !.pc = "recalc", !.id = i])
    /\ UNCHANGED <<rowVars, mapVars, limitVars, ingestVars, failures>>

\* RecalcAutoRateLimit reads the limit, and refuses one that is not automatic.
ReadLimit(j) ==
    LET l == limits[job[j].id] IN
    /\ job[j].pc = "recalc"
    /\ job' = [job EXCEPT ![j] = IF IsAuto(l) THEN [@ EXCEPT !.pc = "stats", !.limit = l] ELSE NoJob]
    /\ UNCHANGED <<rowVars, mapVars, limitVars, ingestVars, asked, failures>>

AllLimits == {i \in RowIds : limits[i] # NoLimit}
\* listAutoRateLimits, at a start and every six hours: one goroutine.
AutoLimits == {i \in RowIds : IsAuto(limits[i])}

RecalcAll(j) ==
    /\ \A k \in Jobs : job[k].op # "recalcAll"
    /\ BeginJob(j, [NoJob EXCEPT !.op = "recalcAll", !.pc = "each",
                                 !.todo = {[id |-> i, limit |-> limits[i], stale |-> FALSE] : i \in AutoLimits}])
    /\ UNCHANGED <<rowVars, mapVars, limitVars, ingestVars, failures>>

RecalcNext(j) ==
    LET c == job[j] IN
    /\ c.pc = "each"
    /\ \/ c.todo = {} /\ Over(j)
       \/ \E e \in c.todo :
             job' = [job EXCEPT ![j] = [c EXCEPT !.pc = "stats", !.id = e.id, !.limit = e.limit,
                                                 !.stale = e.stale, !.todo = c.todo \ {e}]]
    /\ UNCHANGED <<rowVars, mapVars, limitVars, ingestVars, asked, failures>>

\* One limit is done, or skipped.
Recalculated(c) ==
    IF c.op = "recalcAll"
    THEN [c EXCEPT !.pc = "each", !.id = 0, !.limit = NoLimit, !.stale = FALSE] ELSE NoJob

\* GetDomain and its statistics; the limit of a deleted domain is skipped.
ReadStats(j) ==
    /\ job[j].pc = "stats"
    /\ job' = [job EXCEPT ![j] = IF @.id \in There THEN [@ EXCEPT !.pc = "store"] ELSE Recalculated(@)]
    /\ UNCHANGED <<rowVars, mapVars, limitVars, ingestVars, asked, failures>>

\* computeAutoMaxMessages: the average of a window times the multiplier,
\* rounded up, at least one message and at most the level-1 limit; none for a
\* domain that sent nothing.
AutoMax(total, mult) ==
    LET max == (total * mult + 10 * Hours - 1) \div (10 * Hours) IN
    IF total = 0 THEN 0 ELSE IF max < 1 THEN 1 ELSE IF max > L1 THEN L1 ELSE max

\* The distinct messages of the domain's rows in the send log, from its
\* creation on; those a limit rejected are not counted.
MessagesSent == Totals

\* SetRateLimit of the row as it was read, with the new number.
StoreLimit(j, total) ==
    LET c == job[j] IN
    /\ c.pc = "store"
    /\ limits' = [limits EXCEPT ![c.id] = [c.limit EXCEPT !.max = AutoMax(total, c.limit.mult)]]
    /\ overrun' = IF c.stale THEN overrun \cup {c.id} ELSE overrun
    /\ job' = [job EXCEPT ![j] = Recalculated(c)]
    /\ UNCHANGED <<rowVars, mapVars, saved, ingestVars, asked, failures>>

-----------------------------------------------------------------------------
(* The ingest                                                              *)

\* Postfix accepts what the recipients map has at a relay domain, and the
\* transport map takes it to the pipe.
Accepted == IF opened.relay = {} THEN {} ELSE opened.recipients \cap opened.transport

\* A message that holds no aggregate report, or none that can be unpacked.
Unreadable == "unreadable"

\* What a message may turn out to be about, whoever sent it.
Subjects == Domains \cup {Unreadable}

\* A report as it is read: the domain it is about, and its reporter and id.
Report(t, a, k) == [pc |-> "queued", to |-> t, about |-> a, key |-> k]

Arrive(t, a, k) ==
    /\ arrived < MaxArrived /\ ingest = NoMail /\ t \in Accepted
    /\ ingest' = Report(t, a, k)
    /\ arrived' = arrived + 1
    /\ UNCHANGED <<rowVars, mapVars, limitVars, job, asked, failures>>

\* Whether the tag of the address names the domain the report is about.
OwnAddress(m) == m.to = m.about

\* checkReportDomain; what is not a report this server keeps is dropped.
CheckReport ==
    /\ ingest.pc = "queued"
    /\ ingest' = IF OwnAddress(ingest) /\ RowsNamed(ingest.about) # {}
                 THEN [pc |-> "insert", to |-> ingest.to, about |-> ingest.about, key |-> ingest.key,
                       row |-> CHOOSE i \in RowsNamed(ingest.about) : TRUE]
                 ELSE NoMail
    /\ UNCHANGED <<rowVars, mapVars, limitVars, job, asked, arrived, failures>>

\* InsertDMARCReport: one transaction, a report of the same reporter and id
\* about the domain giving way.  "row" is the row the report was checked by,
\* and "late" says that it was deleted since.
InsertReport ==
    /\ ingest.pc = "insert"
    /\ reports' = Append(
          Keeping(reports, {k \in 1..Len(reports) :
                              reports[k].key # ingest.key \/ reports[k].domain # ingest.about}),
          [domain |-> ingest.about, to |-> ingest.to, key |-> ingest.key, row |-> ingest.row,
           late |-> ingest.row \notin There, old |-> FALSE])
    /\ ingest' = [ingest EXCEPT !.pc = "prune"]
    /\ UNCHANGED <<domains, issued, gone, mapVars, limitVars, job, asked, arrived, failures>>

PerServer(p) == TRUE
PerDomain(p) == p.domain = ingest.about

\* PruneDMARCReports: everything older than ninety days, then the oldest of
\* this domain over the number kept.
PruneReports ==
    LET young == {k \in 1..Len(reports) : ~reports[k].old}
        Newer(k) == {m \in young : m > k /\ PerDomain(reports[m])}
        kept == {k \in young : PerDomain(reports[k]) => Cardinality(Newer(k)) < Keep}
    IN
    /\ ingest.pc = "prune"
    /\ reports' = Keeping(reports, kept)
    /\ ingest' = NoMail
    /\ UNCHANGED <<domains, issued, gone, mapVars, limitVars, job, asked, arrived, failures>>

\* The database fails the ingest, or it is killed: Postfix tries again.
IngestFails ==
    /\ ingest.pc \in {"queued", "insert", "prune"} /\ Breaks
    /\ ingest' = Report(ingest.to, ingest.about, ingest.key)
    /\ UNCHANGED <<rowVars, mapVars, limitVars, job, asked, arrived>>

NinetyDaysPass ==
    /\ arrived < MaxArrived /\ \E k \in 1..Len(reports) : ~reports[k].old
    /\ reports' = [k \in 1..Len(reports) |-> [reports[k] EXCEPT !.old = TRUE]]
    /\ arrived' = arrived + 1
    /\ UNCHANGED <<domains, issued, gone, mapVars, limitVars, ingest, job, asked, failures>>

-----------------------------------------------------------------------------
(* Failures                                                                *)

\* Whether the rows of the addresses changed and the maps do not follow yet.
AddressPending(j) ==
    \/ job[j].pc \in {"list", "write"}
    \/ job[j].op = "import" /\ job[j].choice # "none" /\ job[j].pc \in {"limit", "rest", "unlimit", "drop"}

\* A step of a job fails.  A half-made domain is taken back, a recalculation
\* of all goes on with the next, a rebuild is only logged.
JobFails(j) ==
    LET c == job[j] IN
    /\ c.pc \notin {"idle", "each"} /\ Breaks
    /\ c.pc = "list" => ~\E k \in Jobs : HoldsDmarc(k)
    /\ job' = [job EXCEPT ![j] =
          CASE c.pc \in {"list", "write"}            -> AfterMaps(c)
            [] c.pc \in {"recalc", "stats", "store"} -> Recalculated(c)
            [] c.pc = "rest" /\ c.op = "add"         -> [c EXCEPT !.pc = "drop"]
            [] c.pc = "rest" /\ c.op # "add"         -> Refused(c)
            [] c.pc \in {"address", "limit"}         -> Refused(c)
            [] OTHER                                 -> NoJob]
    /\ owed' = IF AddressPending(j) THEN "yes" ELSE owed
    /\ UNCHANGED <<rowVars, opened, limitVars, ingestVars, asked>>

\* The panel is killed, and a start rebuilds the maps.
SettingsKilled ==
    /\ \E s \in Jobs : job' = [j \in Jobs |->
          IF j = s THEN [NoJob EXCEPT !.op = "start", !.pc = "list"] ELSE NoJob]
    /\ owed' = IF owed = "rebuilding" \/ \E j \in Jobs : AddressPending(j) THEN "yes" ELSE owed
    /\ UNCHANGED <<rowVars, opened, limitVars, ingestVars, asked>>

-----------------------------------------------------------------------------
\* Any domains registered one after another, with the maps as they ask.
SettingsInit ==
    /\ issued \in 0..1
    /\ \E n \in Domains, h \in BOOLEAN :
          domains = [i \in RowIds |-> IF i <= issued THEN [name |-> n, hosted |-> h] ELSE NoRow]
    /\ opened = DmarcMaps(Hosted)
    /\ reports = <<>> /\ ingest = NoMail
    /\ limits = [i \in RowIds |-> NoLimit] /\ saved = limits /\ overrun = {}
    /\ job = [j \in Jobs |-> NoJob] /\ gone = {} /\ owed = "no"
    /\ asked = 0 /\ arrived = 0 /\ failures = 0

JobAsked(j) ==
    \/ \E n \in Domains : AddDomain(j, n, "add", "none", NoLimit)
    \/ \E n \in Domains, h \in Choices, l \in ImportedLimits : AddDomain(j, n, "import", h, l)
    \/ \E i \in RowIds : Remove(j, i) \/ AskRecalc(j, i)
    \/ \E i \in RowIds, h \in Choices \ {"none"} : ChooseAddress(j, i, h)
    \/ \E i \in RowIds, l \in Limits : ChooseLimit(j, i, l)
    \/ RecalcAll(j)

JobStep(j) ==
    \/ RestDone(j) \/ ClearLimits(j) \/ DropRow(j)
    \/ SaveAddress(j) \/ ListHosted(j) \/ WriteDmarcMap(j)
    \/ SaveLimit(j) \/ ReadLimit(j) \/ RecalcNext(j) \/ ReadStats(j)
    \/ \E total \in MessagesSent : StoreLimit(j, total)
    \/ JobFails(j)

IngestStep ==
    \/ \E t \in Domains, a \in Subjects, k \in Keys : Arrive(t, a, k)
    \/ CheckReport \/ InsertReport \/ PruneReports \/ IngestFails \/ NinetyDaysPass

SettingsNext == (\E j \in Jobs : JobAsked(j) \/ JobStep(j)) \/ IngestStep

-----------------------------------------------------------------------------
(* Properties                                                              *)

\* Once no rebuild is owed, Postfix takes reports for exactly the domains that
\* chose it ("Only what a domain has chosen is open", AllowedRecipients), and
\* delivers what it takes, whatever saves ran side by side; the addresses of
\* domains deleted since the last rebuild are still open, because a deletion
\* makes none.
AddressesFollow ==
    owed = "no" /\ (\A j \in Jobs : ~AddressPending(j)) =>
        /\ Hosted \subseteq opened.recipients
        /\ opened.recipients \subseteq Hosted \cup gone
        /\ opened = DmarcMaps(opened.recipients)

\* A domain registered under a deleted domain's name does not come by its
\* reports (DeleteDomain): every report belongs to the row it was checked by,
\* unless the row was deleted between the check and the insert, two statements
\* of another process.
ReportsStayWithTheirDomain ==
    \A k \in 1..Len(reports) :
        LET p == reports[k] IN ~p.late => RowsNamed(p.domain) = {p.row}

\* A report goes with its domain or after ninety days; otherwise only reports
\* that came to its own domain's address replace it or, Keep of them and all
\* newer, push it out.
NoneCrowdedOut ==
    \A k \in 1..Len(reports) :
        LET p == reports[k]
            Stays(q) == \E m \in 1..Len(q) : [q[m] EXCEPT !.old = p.old] = p
            Own == {m \in 1..Len(reports) : m > k /\ reports[m].domain = p.domain /\ reports[m].to = p.domain}
        IN ~Stays(reports') =>
              \/ p.old
              \/ domains' # domains
              \/ \E m \in 1..Len(reports') :
                    reports'[m].domain = p.domain /\ reports'[m].key = p.key /\ reports'[m].to = p.domain
              \/ Cardinality(Own) >= Keep

\* "a stranger filing reports under one domain would push every other domain's
\* reports out" (PruneDMARCReports, IngestMessage): no step does that.
FloodStaysAtHome == [][NoneCrowdedOut]_settings

\* A limit is what the last save, or the last deletion, made of it: a
\* recalculation changes the number of an automatic limit and nothing of a
\* manual one, and never brings one back; except that one which read the limit
\* before the save writes over it after.
SavedLimitStays ==
    \A i \in RowIds \ overrun :
        IF IsAuto(saved[i]) THEN [limits[i] EXCEPT !.max = 0] = saved[i] ELSE limits[i] = saved[i]
=============================================================================
