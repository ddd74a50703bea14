------------------------------ MODULE Notifier ------------------------------
(***************************************************************************)
(* Notifications (internal/notify): one goroutine looks at the sending     *)
(* domains' DNS records, the certificate, the queue and the mail refused   *)
(* under limits, and writes to the users who are to hear of each.  A       *)
(* subject has a row and a list of addressees in the database; what is in  *)
(* memory - the messages of the last hour - a kill loses.  Sends and       *)
(* writes are steps of their own and may fail.  Time passes in ticks of an *)
(* hour, and is kept as the age of what the code dates.                    *)
(***************************************************************************)
EXTENDS Integers, FiniteSets, FiniteSetsExt

CONSTANTS
    Domains,     \* names of sending domains
    Server,      \* stands for the server's own subjects
    Users,       \* e-mail addresses of users
    Globals,     \* those of users of the global role, at first
    Watched,     \* the kinds of subject of this instance
    DNSApart,    \* dnsApart, in ticks
    LimitRepeat, \* limitRepeat, in ticks
    HourlyCeiling,
    MaxChanges,  \* bound: changes of users, switch, domains and readings
    MaxFailures, \* bound: calls that fail, and kills
    Keep,        \* of a plan: nothing is written
    NoRow

ASSUME NotifierConstants ==
    /\ Server \notin Domains /\ Globals \subseteq Users /\ Watched \subseteq {"dns", "cert", "queue", "limit"}
    /\ {DNSApart, LimitRepeat, HourlyCeiling} \subseteq Nat \ {0}
    /\ {MaxChanges, MaxFailures} \subseteq Nat

Kinds == {"dns", "cert", "queue", "limit"}
Key(kind, name) == <<kind, name>>
Keys == ({"dns", "limit"} \X Domains) \cup ({"cert", "queue"} \X {Server})
DNSChecks == 2
RowType == [phase : {"pending", "open", "first", "last"}, count : 0..DNSChecks,
            since : Nat, mark : Nat, sent : Nat]

ASSUME NotifierValues == Keep # NoRow /\ {Keep, NoRow} \cap RowType = {}

VARIABLES
    enabled,  \* the instance switch
    doms,     \* registered domains
    hears,    \* user -> the domains, or Server, whose subjects the user is told
    wrong,    \* the subjects there is something to say about
    cert,     \* the certificate served: its serial number, how near its end
              \* is, and whether another is mounted and not late
    rows,     \* table notify_state: key -> row, or NoRow
    owed,     \* table notify_addressees: key -> those told and those due
    hour,     \* sentAt: messages of the last hour
    due,      \* the passes the tickers owe: the hourly one and the limits'
    pass,     \* the pass under way
    said,     \* history: key -> who was handed the message that opened it
    asked,    \* history: key -> who was to hear of it then
    readings, \* history: domain -> the unbroken row of its last readings
    unsure,   \* history: subjects with a write lost since they were forgotten
    noticeBounds \* changes and faults

world == <<enabled, doms, hears, wrong, cert>>
tables == <<rows, owed>>
past == <<said, asked, readings, unsure>>
noticeVars == <<world, tables, hour, due, pass, past, noticeBounds>>

Recipients(k) == {u \in Users : k[2] \in hears[u]}
AtMost(n, max) == Min({n, max})
Days == 2 * LimitRepeat + 1

Row(phase) == [phase |-> phase, count |-> 0, since |-> 0, mark |-> 0, sent |-> 0]
NoOne == [told |-> {}, due |-> {}]
NoPass == [at |-> "idle", todo |-> {}, names |-> {}, key |-> NoRow, kind |-> "none",
           first |-> Keep, to |-> {}, handed |-> {}, sent |-> Keep, held |-> Keep,
           save |-> Keep]

Running(stage) == pass.at = stage
Writing == {"first", "send", "record", "save"}

----------------------------------------------------------------------------
(* What a pass does with a subject: a row written first, a message, and    *)
(* what is written when it was sent and when it was not.  Keep writes      *)
(* nothing; NoRow forgets the subject.                                     *)

Stage(k) == IF k[1] = "dns" THEN "dns" ELSE IF k[1] = "cert" THEN "queue"
            ELSE IF k[1] = "queue" THEN "done" ELSE "limits"

Plan(k, first, kind, to, sent, held) ==
    /\ pass' = [pass EXCEPT !.at = IF first = Keep THEN "send" ELSE "first",
               !.todo = @ \ {k}, !.key = k, !.kind = kind, !.first = first,
               !.to = to, !.handed = {}, !.sent = sent, !.held = held]
    /\ asked' = IF kind = "open" THEN [asked EXCEPT ![k] = to] ELSE asked

\* Nothing but a row is written.
JustSave(k, row) == Plan(k, Keep, "none", {}, Keep, row)
Nothing(k) == pass' = [pass EXCEPT !.at = Stage(k), !.todo = @ \ {k}] /\ UNCHANGED asked

\* Who a message is for: all who are to hear of it; those owed it who have not
\* had it; those who were told.
Due(k) == owed[k].due \cap Recipients(k)
Told(k) == IF owed[k] = NoOne THEN Recipients(k) ELSE owed[k].told \cap Recipients(k)

Open(k, first, row, held) == Plan(k, first, "open", Recipients(k), row, held)
FollowUp(k, first) == Plan(k, first, "follow", Due(k), Keep, Keep)
\* With nobody to tell any more, it is over all the same.
Closed(k, held) ==
    IF Told(k) = {} THEN JustSave(k, NoRow) ELSE Plan(k, Keep, "closed", Told(k), NoRow, held)

LongEnough(n, age) == n >= DNSChecks /\ age >= DNSApart

Counted(row) == [row EXCEPT !.count = AtMost(@ + 1, DNSChecks)]

\* dnsStep: one domain's row by one check.
DNSStep(d, bad) ==
    LET k == Key("dns", d)
        st == rows[k]
        up == Counted(st)
        good == IF up.count = 1 THEN [up EXCEPT !.mark = 0] ELSE up
    IN  CASE st = NoRow /\ ~bad -> Nothing(k)
          [] st = NoRow /\ bad  -> JustSave(k, [Row("pending") EXCEPT !.count = 1])
          [] st # NoRow /\ st.phase = "pending" /\ ~bad -> JustSave(k, NoRow)
          [] st # NoRow /\ st.phase = "pending" /\ bad ->
               IF LongEnough(up.count, st.since)
               THEN Open(k, Keep, [st EXCEPT !.phase = "open", !.count = 0, !.mark = 0, !.sent = 0], up)
               ELSE JustSave(k, up)
          [] st # NoRow /\ st.phase = "open" /\ bad ->
               FollowUp(k, IF st.count = 0 THEN Keep ELSE [st EXCEPT !.count = 0, !.mark = 0])
          [] OTHER ->
               IF LongEnough(good.count, good.mark) THEN Closed(k, good) ELSE JustSave(k, good)

\* The unbroken row of readings that agree, for NotOnOneReading.
NextOf(g, bad) ==
    IF g.n > 0 /\ g.bad = bad THEN [g EXCEPT !.n = AtMost(@ + 1, DNSChecks)]
    ELSE [bad |-> bad, n |-> 1, age |-> 0]
Reading(d, bad) == readings' = [readings EXCEPT ![d] = NextOf(@, bad)]

\* A lookup without an answer, and no record plainly wrong.
NothingLearned(k) ==
    /\ noticeBounds.faults < MaxFailures /\ noticeBounds' = [noticeBounds EXCEPT !.faults = @ + 1]
    /\ Nothing(k) /\ UNCHANGED readings

CheckDomain ==
    /\ Running("dns") /\ pass.todo # {}
    /\ \E k \in pass.todo :
         LET d == k[2] IN
         \/ Reading(d, k \in wrong) /\ DNSStep(d, k \in wrong) /\ UNCHANGED noticeBounds
         \/ NothingLearned(k)
    /\ UNCHANGED <<world, tables, hour, due, said, unsure>>

\* A domain that was not there when the pass began has no row worth keeping.
ForgetDomains ==
    /\ Running("dns") /\ pass.todo = {}
    /\ \/ \E k \in Keys : /\ k[1] = "dns" /\ rows[k] # NoRow /\ k[2] \notin pass.names
                          /\ JustSave(k, NoRow)
       \/ /\ \A k \in Keys : k[1] = "dns" /\ rows[k] # NoRow => k[2] \in pass.names
          /\ pass' = [pass EXCEPT !.at = "cert"] /\ UNCHANGED asked
    /\ UNCHANGED <<world, tables, hour, due, said, readings, unsure, noticeBounds>>

CertificateStep(k, st) ==
    CASE cert.level = "" ->
            IF st # NoRow /\ st.mark # cert.serial THEN JustSave(k, NoRow) ELSE Nothing(k)
      [] cert.level # "" /\ st # NoRow /\ st.mark = cert.serial
            /\ st.phase \in {cert.level, "last"} -> FollowUp(k, Keep)
      [] OTHER -> Open(k, IF st # NoRow /\ st.mark # cert.serial THEN NoRow ELSE Keep,
                       [Row(cert.level) EXCEPT !.mark = cert.serial], Keep)

\* checkCertificate: a different certificate ends what was said of the old one,
\* and one that waits to be taken up says nothing yet.
CheckCertificate ==
    /\ Running("cert")
    /\ LET k == Key("cert", Server) IN
       IF "cert" \in Watched /\ ~cert.waiting THEN CertificateStep(k, rows[k]) ELSE Nothing(k)
    /\ UNCHANGED <<world, tables, hour, due, said, readings, unsure, noticeBounds>>

CheckQueue ==
    /\ Running("queue")
    /\ LET k == Key("queue", Server) IN
       CASE k \in wrong /\ rows[k] = NoRow -> Open(k, Keep, Row("open"), Keep)
         [] k \in wrong /\ rows[k] # NoRow -> FollowUp(k, Keep)
         [] k \notin wrong /\ rows[k] # NoRow -> Closed(k, Keep)
         [] OTHER -> Nothing(k)
    /\ UNCHANGED <<world, tables, hour, due, said, readings, unsure, noticeBounds>>

\* CheckLimits, for each domain with refusals within LimitRepeat.
CheckLimit ==
    /\ Running("limits")
    /\ \E k \in pass.todo :
         IF rows[k] # NoRow /\ rows[k].sent < LimitRepeat THEN FollowUp(k, Keep)
         ELSE Open(k, Keep, Row("open"), Keep)
    /\ UNCHANGED <<world, tables, hour, due, said, readings, unsure, noticeBounds>>

ForgetLimits ==
    /\ Running("limits") /\ pass.todo = {}
    /\ \/ \E k \in Keys : /\ k[1] = "limit" /\ rows[k] # NoRow /\ rows[k].sent > 2 * LimitRepeat
                          /\ JustSave(k, NoRow)
       \/ /\ \A k \in Keys : k[1] = "limit" /\ rows[k] # NoRow => rows[k].sent <= 2 * LimitRepeat
          /\ pass' = [pass EXCEPT !.at = "done"] /\ UNCHANGED asked
    /\ UNCHANGED <<world, tables, hour, due, said, readings, unsure, noticeBounds>>

----------------------------------------------------------------------------
(* The writes and the messages                                             *)

\* A write that succeeds; a forgotten subject begins anew.
Write(k, row) ==
    IF row = Keep THEN UNCHANGED <<rows, owed, said, unsure>>
    ELSE /\ rows' = [rows EXCEPT ![k] = row]
         /\ IF row = NoRow
            THEN /\ owed' = [owed EXCEPT ![k] = NoOne]
                 /\ said' = [said EXCEPT ![k] = {}] /\ unsure' = unsure \ {k}
            ELSE UNCHANGED <<owed, said, unsure>>

Fails == noticeBounds.faults < MaxFailures /\ noticeBounds' = [noticeBounds EXCEPT !.faults = @ + 1]
LoseWrite(k) == unsure' = unsure \cup {k} /\ UNCHANGED <<rows, owed, said>>

\* A failed write is logged, and the pass goes on.
SaveFirst ==
    /\ Running("first")
    /\ \/ Write(pass.key, pass.first) /\ UNCHANGED noticeBounds
       \/ LoseWrite(pass.key) /\ Fails
    /\ pass' = [pass EXCEPT !.at = "send"]
    /\ UNCHANGED <<world, hour, due, asked, readings>>

\* The message that opens a subject is a new one when the last was sent for
\* another level or another day.
Anew(k) == pass.kind = "open" /\ pass.handed = {} /\ rows[k] # NoRow /\ rows[k].phase # "pending"

\* deliver: each address its own message, under the ceiling.  A call that fails
\* may have queued the copy all the same (ErrTimeout).
Deliver ==
    LET k == pass.key
        Hand(u) == said' = IF pass.kind = "closed" THEN said
                           ELSE [said EXCEPT ![k] = (IF Anew(k) THEN {} ELSE @) \cup {u}]
    IN
    /\ Running("send")
    /\ \E u \in pass.to :
         /\ \/ /\ hour < HourlyCeiling
               /\ hour' = hour + 1
               /\ pass' = [pass EXCEPT !.to = @ \ {u}, !.handed = @ \cup {u}]
               /\ Hand(u) /\ UNCHANGED <<unsure, noticeBounds>>
            \/ /\ hour < HourlyCeiling /\ Fails
               /\ pass' = [pass EXCEPT !.to = @ \ {u}]
               /\ \/ Hand(u) /\ unsure' = unsure \cup {k}
                  \/ UNCHANGED <<said, unsure>>
               /\ UNCHANGED hour
            \/ /\ hour >= HourlyCeiling
               /\ pass' = [pass EXCEPT !.to = @ \ {u}]
               /\ UNCHANGED <<hour, said, unsure, noticeBounds>>
    /\ UNCHANGED <<world, tables, due, asked, readings>>

\* Mutant: a message that reached nobody counts as said.
DeliveredAnyhow ==
    /\ Running("send") /\ pass.to = {}
    /\ pass' = [pass EXCEPT !.at = "save", !.save = pass.sent]
    /\ UNCHANGED <<world, tables, hour, due, past, noticeBounds>>

\* A problem counts as said only when a copy was handed over.
Delivered ==
    /\ Running("send") /\ pass.to = {}
    /\ pass' = [pass EXCEPT
         !.at = IF pass.handed # {} /\ pass.kind \in {"open", "follow"} THEN "record" ELSE "save",
         !.save = IF pass.handed # {} THEN pass.sent ELSE pass.held]
    /\ UNCHANGED <<world, tables, hour, due, past, noticeBounds>>

\* Mutant: a copy handed over later is not recorded.
AddresseesFirstOnly(k) ==
    IF pass.kind = "open" THEN [told |-> pass.handed, due |-> asked[k] \ pass.handed]
    ELSE owed[k]
\* SetNotifyAddressees, of open and of followUp.
Addressees(k) ==
    IF pass.kind = "open" THEN [told |-> pass.handed, due |-> asked[k] \ pass.handed]
    ELSE [told |-> owed[k].told \cup pass.handed, due |-> owed[k].due \ pass.handed]

Record ==
    LET k == pass.key IN
    /\ Running("record")
    /\ \/ /\ owed' = [owed EXCEPT ![k] = Addressees(k)]
          /\ UNCHANGED <<rows, said, unsure, noticeBounds>>
       \/ LoseWrite(k) /\ Fails
    /\ pass' = [pass EXCEPT !.at = "save"]
    /\ UNCHANGED <<world, hour, due, asked, readings>>

Save ==
    /\ Running("save")
    /\ \/ Write(pass.key, pass.save) /\ UNCHANGED noticeBounds
       \/ pass.save # Keep /\ LoseWrite(pass.key) /\ Fails
    /\ asked' = IF pass.save = NoRow THEN [asked EXCEPT ![pass.key] = {}] ELSE asked
    /\ pass' = [NoPass EXCEPT !.at = Stage(pass.key), !.todo = pass.todo, !.names = pass.names]
    /\ UNCHANGED <<world, hour, due, readings>>

----------------------------------------------------------------------------
(* The goroutine and the world                                             *)

Starts(which) ==
    /\ Running("idle") /\ which \in due
    /\ due' = due \ {which}
    /\ UNCHANGED <<world, tables, hour, past, noticeBounds>>

\* With the switch off nothing is checked and no row moves.
Check ==
    /\ Starts("check")
    /\ IF enabled
       THEN pass' = [NoPass EXCEPT !.at = "dns", !.names = doms,
                       !.todo = {Key("dns", d) : d \in IF "dns" \in Watched THEN doms ELSE {}}]
       ELSE UNCHANGED pass

CheckLimits ==
    /\ Starts("limits")
    /\ IF enabled THEN pass' = [NoPass EXCEPT !.at = "limits", !.todo = {k \in wrong : k[1] = "limit"}]
       ELSE UNCHANGED pass

Done ==
    /\ Running("done")
    /\ pass' = NoPass
    /\ UNCHANGED <<world, tables, hour, due, past, noticeBounds>>

\* An hour passes, with each pass made in it.
Tick ==
    /\ Running("idle") /\ due = {}
    /\ hour' = 0 /\ due' = {"check", "limits"}
    /\ rows' = [k \in Keys |-> IF rows[k] = NoRow THEN NoRow ELSE
                  [rows[k] EXCEPT !.since = IF k[1] = "dns" THEN AtMost(@ + 1, DNSApart) ELSE 0,
                     !.mark = IF k[1] = "dns" THEN AtMost(@ + 1, DNSApart) ELSE @,
                     !.sent = IF k[1] = "limit" THEN AtMost(@ + 1, Days) ELSE 0]]
    /\ readings' = [d \in Domains |->
                      [readings[d] EXCEPT !.age = IF readings[d].n = 0 THEN 0 ELSE AtMost(@ + 1, DNSApart)]]
    /\ UNCHANGED <<world, owed, pass, said, asked, unsure, noticeBounds>>

Change(f) ==
    /\ noticeBounds.changes < MaxChanges
    /\ noticeBounds' = [noticeBounds EXCEPT !.changes = @ + 1]
    /\ UNCHANGED <<f, tables, hour, due, pass, past>>

\* Settings, users' pages, domains.
SetNotificationsEnabled == enabled' = ~enabled /\ Change(<<doms, hears, wrong, cert>>)
ChangeUser(u) ==
    /\ \E s \in {{}, Domains, Domains \cup {Server}} \ {hears[u]} : hears' = [hears EXCEPT ![u] = s]
    /\ Change(<<enabled, doms, wrong, cert>>)
AddOrDeleteDomain(d) ==
    /\ doms' = IF d \in doms THEN doms \ {d} ELSE doms \cup {d}
    /\ wrong' = {k \in wrong : k[2] \in doms' \cup {Server}}
    /\ Change(<<enabled, hears, cert>>)

\* Records are mended and broken, the queue is stuck and drains, mail is
\* refused and the window passes.
Turns(k) ==
    /\ k[1] \in Watched \ {"cert"} /\ k[2] \in doms \cup {Server}
    /\ wrong' = IF k \in wrong THEN wrong \ {k} ELSE wrong \cup {k}
    /\ Change(<<enabled, doms, hears, cert>>)

\* The certificate nears its end; another is mounted; it is taken up, or is late.
CertificateChanges ==
    /\ "cert" \in Watched
    /\ cert' \in {[cert EXCEPT !.level = IF @ = "" THEN "first" ELSE "last"],
                  [cert EXCEPT !.waiting = ~@],
                  [serial |-> cert.serial + 1, level |-> "", waiting |-> FALSE]} \ {cert}
    /\ LET k == Key("cert", Server) IN
       wrong' = IF cert'.level # "" /\ ~cert'.waiting THEN wrong \cup {k} ELSE wrong \ {k}
    /\ Change(<<enabled, doms, hears>>)

World ==
    \/ SetNotificationsEnabled \/ CertificateChanges
    \/ \E u \in Users : ChangeUser(u)
    \/ \E d \in Domains : AddOrDeleteDomain(d)
    \/ \E k \in Keys : Turns(k)

\* The panel is killed: the hour's messages are forgotten, and the first pass
\* comes minutes after the start.
Crash ==
    /\ Fails
    /\ pass' = NoPass /\ hour' = 0 /\ due' = {"check", "limits"}
    /\ unsure' = IF pass.at \in Writing THEN unsure \cup {pass.key} ELSE unsure
    /\ UNCHANGED <<world, tables, said, asked, readings>>

NoticeInit ==
    /\ enabled = TRUE /\ doms = Domains /\ hears = [u \in Users |-> Domains \cup (IF u \in Globals THEN {Server} ELSE {})]
    /\ wrong \in {{}} \cup {{k} : k \in {j \in Keys : j[1] \in Watched \ {"cert"}}}
    /\ cert = [serial |-> 0, level |-> "", waiting |-> FALSE]
    /\ rows = [k \in Keys |-> NoRow] /\ owed = [k \in Keys |-> NoOne]
    /\ hour = 0 /\ pass = NoPass /\ due = {"check", "limits"}
    /\ said = [k \in Keys |-> {}] /\ asked = [k \in Keys |-> {}]
    /\ readings = [d \in Domains |-> [bad |-> FALSE, n |-> 0, age |-> 0]]
    /\ unsure = {} /\ noticeBounds = [changes |-> 0, faults |-> 0]

Pass ==
    \/ CheckDomain \/ ForgetDomains \/ CheckCertificate \/ CheckQueue
    \/ CheckLimit \/ ForgetLimits \/ Done
    \/ SaveFirst \/ Deliver \/ Delivered \/ Record \/ Save

NoticeNext == Check \/ CheckLimits \/ Pass \/ Tick \/ World \/ Crash

NoticeSpec == NoticeInit /\ [][NoticeNext]_noticeVars

\* The tickers fire, a pass goes on - a call returns or fails - and time passes.
FairSpec ==
    /\ NoticeSpec
    /\ WF_noticeVars(Pass) /\ WF_noticeVars(Check) /\ WF_noticeVars(CheckLimits) /\ WF_noticeVars(Tick)

----------------------------------------------------------------------------
(* Properties.                                                             *)

NoticeTypeOK ==
    /\ doms \subseteq Domains /\ wrong \subseteq Keys /\ unsure \subseteq Keys
    /\ \A k \in Keys :
         /\ owed[k].told \cap owed[k].due = {} /\ owed[k].told \cup owed[k].due \subseteq Users
         /\ rows[k] # NoRow => /\ rows[k].phase \in {"pending", "open", "first", "last"}
                               /\ rows[k].count \in 0 .. DNSChecks
         /\ rows[k] = NoRow /\ k \notin unsure /\ pass.key # k => owed[k] = NoOne
    /\ hour \in 0 .. HourlyCeiling

Handed(u) == pass.at = "send" /\ u \in pass'.handed \ pass.handed

\* A subject's message is handed to nobody twice and, once it is open, to none
\* who was not to hear of it when it was opened; that it is over goes to those
\* who were told - whatever sends failed, were held back by the ceiling or
\* users changed, unless a write was lost or the panel killed (open, followUp,
\* closed).
ToldOnce ==
    [][\A u \in Users : Handed(u) =>
         \/ pass.key \in unsure
         \/ pass.kind = "open"   /\ (Anew(pass.key) \/ u \notin said[pass.key])
         \/ pass.kind = "follow" /\ u \in asked[pass.key] \ said[pass.key]
         \/ pass.kind = "closed" /\ u \in said[pass.key]]_noticeVars

\* A domain's records are called wrong, or right again, on checks that agreed
\* at least DNSApart apart with none between them that did not, restarts and
\* switches included (dnsStep).
NotOnOneReading ==
    [][pass.at = "send" /\ pass.key[1] = "dns" /\ pass'.handed # pass.handed =>
         \/ pass.key \in unsure \/ pass.kind = "follow"
         \/ LET r == readings[pass.key[2]] IN
            r.bad = (pass.kind = "open") /\ r.n >= DNSChecks /\ r.age >= DNSApart]_noticeVars

\* A trouble that lasts is told to everyone who is to hear of it when it is
\* first said, though their copies failed, were held back, or there was nobody
\* to tell at first (open, followUp).
Owes(k, u) ==
    /\ enabled /\ k \in wrong /\ u \in Recipients(k) /\ u \notin said[k] /\ k \notin unsure
    /\ rows[k] # NoRow /\ rows[k].phase # "pending" => u \in asked[k]
EveryoneIsTold == \A k \in Keys, u \in Users : []<>~Owes(k, u)

=============================================================================
