--------------------------- MODULE InboundJournal ---------------------------
(***************************************************************************)
(* The journal of the mail offered on port 25, and the two that write it:  *)
(* the inbound journal milter (milter/inbound.go), which Postfix asks at   *)
(* the end of every message the filter let through, and the log tailer     *)
(* (logtail/inbound.go), which takes refusals and the upstream's answers   *)
(* from mail.log.                                                          *)
(*                                                                         *)
(* Postfix is external: it gives a message a queue id no live message has  *)
(* (a short one may be used again), asks the milter while the panel is up, *)
(* and writes a line for what becomes of it.  The tailer reads the lines   *)
(* in order, and again from the place it last saved after the panel was    *)
(* killed; what it remembers between lines is lost then.  `log' holds the  *)
(* lines from that place on: those before it are never read again.         *)
(*                                                                         *)
(* Mail for no inbound domain gets no row, and is left out.  Dates are not *)
(* in the model: any rows may be the oldest.  Nor are refusals alike to    *)
(* the second: every refused message is another.                           *)
(***************************************************************************)
EXTENDS Naturals, Sequences, FiniteSets

CONSTANTS
    Msgs,            \* messages, numbered in the order they come
    Ids,             \* queue ids
    Rcpts,           \* the recipients of every message, at inbound domains
    VerdictOf,       \* the verdict on it: "pass", "hold" (the filter's) or
                     \* "forged" (a hold its sender wrote; the filter was down)
    Results,         \* how a delivery may end: "deferred", "sent" or "bounced"
    Nil,
    inboundQueueIDs, \* how many port-25 ids the tailer remembers
    inboundCapRows,  \* how many rows the journal is cut back to
    inboundCapEvery, \* how many rows are written before it is cut
    MaxLive,         \* bound: messages open at once
    Window,          \* bound: lines since the place last saved
    MaxKills         \* bound: kills of the panel

ASSUME JournalAssumption ==
    /\ Msgs \subseteq Nat /\ IsFiniteSet(Rcpts) /\ Nil \notin Ids
    /\ Results \subseteq {"deferred", "sent", "bounced"}
    /\ inboundQueueIDs \in Nat \ {0} /\ inboundCapEvery \in Nat \ {0}
    /\ inboundCapRows \in Nat /\ Window \in Nat /\ MaxLive \in Nat /\ MaxKills \in Nat

VARIABLES
    post,      \* Postfix's messages: stage, queue id, what became of them
    log,       \* lines of mail.log from the saved place on
    pos,       \* how many of those the tailer has read
    catching,  \* whether the tailer has yet to meet the end of the file
    port25,    \* ids the port-25 smtpd opened: id -> number of the arrival
    order,     \* arrivals, oldest first
    rows,      \* rows of accepted mail
    refused,   \* rows of refused mail: how many a message has
    writes,    \* rows written since the journal was last cut
    tail,      \* where the tailer is after a row it wrote
    up,        \* whether the panel runs
    duePrune,  \* whether the prune of the start is still to come
    fresh,     \* port-25 ids opened since an id was, as far as they were read
    crossed,   \* messages that met lines of another message with their id
    kills

journal == <<rows, refused>>
memory  == <<port25, order, fresh>>
tailer  == <<log, pos, catching, port25, order, tail, fresh>>
inboundVars == <<post, log, pos, catching, port25, order, rows, refused, writes,
             tail, up, duePrune, fresh, crossed, kills>>

Open   == {"queued", "held", "deferred"}
Finals == {"sent", "bounced"}

Stages == {"new", "open", "asked", "forgot", "count", "reset", "cut", "answered", "queued", "gone"}
Fates == {"none", "deferred", "sent", "bounced"}
Kinds == {"open25", "openOther", "verdict", "removed", "reject", "qmgr", "delivery", "expired"}
Written == [kind : Kinds, msg : Msgs, id : Ids \cup {Nil}, rcpt : Rcpts \cup {Nil}, st : Fates \cup {Nil}]
LogLine == {l \in Written : l.id = Nil => l.kind = "reject"}
Arrival == [id : Ids, seq : Nat \ {0}]
Row == [msg : Msgs, rcpt : Rcpts, id : Ids \cup {Nil}, st : Open \cup Finals \cup {""}]

MailTyped ==
    /\ post \in [Msgs -> [stage : Stages, id : Ids \cup {Nil}, fate : [Rcpts -> Fates]]]
    /\ log \in Seq(LogLine) /\ pos \in 0 .. Len(log)

JournalTyped ==
    /\ rows \subseteq Row /\ refused \in [Msgs -> Nat] /\ writes \in Nat
    /\ crossed \subseteq Msgs

MemoryTyped ==
    /\ port25 \in [Ids -> Nat] /\ order \in Seq(Arrival)
    /\ Len(order) <= inboundQueueIDs /\ fresh \in [Ids -> 0 .. inboundQueueIDs]

PanelTyped ==
    /\ up \in BOOLEAN /\ catching \in BOOLEAN /\ duePrune \in BOOLEAN
    /\ tail \in {"done", "count", "reset", "cut"} /\ kills \in 0 .. MaxKills

\* Every variable has its type; the tailer is not past the end of the log, and
\* remembers no more ids than it may.
InboundTypeOK == MailTyped /\ JournalTyped /\ MemoryTyped /\ PanelTyped

NoMsg == [stage |-> "new", id |-> Nil, fate |-> [x \in Rcpts |-> "none"]]

\* A queue id is that of one live queue file.
Living == {m \in Msgs : post[m].stage \notin {"new", "gone"}}
FreeIds == Ids \ {post[m].id : m \in Living}

Line(kind, m, id, x, st) == [kind |-> kind, msg |-> m, id |-> id, rcpt |-> x, st |-> st]
Logs(lines) == Len(log) + Len(lines) <= Window /\ log' = log \o lines
GoesTo(m, stage) == post' = [post EXCEPT ![m].stage = stage]
Leaves(m, fate) == post' = [post EXCEPT ![m] = [NoMsg EXCEPT !.stage = "gone", !.fate = fate]]

-----------------------------------------------------------------------------
(* Postfix                                                                 *)

NextMsg(m) ==
    /\ post[m].stage = "new" /\ \A n \in Msgs : n < m => post[n].stage # "new"
    /\ Cardinality(Living) < MaxLive

\* smtpd of port 25 opens a message.
OpenMessage(m) ==
    /\ NextMsg(m)
    /\ \E q \in FreeIds :
         /\ post' = [post EXCEPT ![m].stage = "open", ![m].id = q]
         /\ Logs(<<Line("open25", m, q, Nil, Nil)>>)
    /\ UNCHANGED <<pos, catching, memory, journal, writes, tail, up, duePrune, crossed, kills>>

\* Mail of another listener, which the filter may refuse; it is followed no
\* further.
OtherMessage(m) ==
    /\ NextMsg(m) /\ Leaves(m, NoMsg.fate)
    /\ \E q \in FreeIds :
         LET opened == Line("openOther", m, q, Nil, Nil) IN
         \/ Logs(<<opened>>)
         \/ Logs(<<opened, Line("verdict", m, q, Nil, Nil), Line("removed", m, q, Nil, Nil)>>)
    /\ UNCHANGED <<pos, catching, memory, journal, writes, tail, up, duePrune, crossed, kills>>

\* smtpd refuses a recipient: no message, and no queue id.
RefuseRecipient(m) ==
    /\ NextMsg(m) /\ Leaves(m, NoMsg.fate)
    /\ Logs(<<Line("reject", m, Nil, Nil, Nil)>>)
    /\ UNCHANGED <<pos, catching, memory, journal, writes, tail, up, duePrune, crossed, kills>>

\* The filter refuses a message: cleanup writes the verdict, and then that it
\* removed the queue file.
RefuseMessage(m) ==
    /\ post[m].stage = "open" /\ Leaves(m, NoMsg.fate)
    /\ Logs(<<Line("verdict", m, post[m].id, Nil, Nil), Line("removed", m, post[m].id, Nil, Nil)>>)
    /\ UNCHANGED <<pos, catching, memory, journal, writes, tail, up, duePrune, crossed, kills>>

\* The client goes away, or a message answered for is not queued after all.
RemoveMessage(m) ==
    /\ post[m].stage \in {"open", "answered"} /\ Leaves(m, NoMsg.fate)
    /\ Logs(<<Line("removed", m, post[m].id, Nil, Nil)>>)
    /\ UNCHANGED <<pos, catching, memory, journal, writes, tail, up, duePrune, crossed, kills>>

\* The end of the message: the milter is asked while the panel is up.  Bound:
\* one message at a time is past this.
EndOfMessage(m) ==
    /\ post[m].stage = "open" /\ \A n \in Living : post[n].stage = "open"
    /\ GoesTo(m, IF up THEN "asked" ELSE "answered")
    /\ UNCHANGED <<tailer, journal, writes, up, duePrune, crossed, kills>>

\* qmgr takes the message; a held one, once it is released.
QueueMessage(m) ==
    /\ post[m].stage = "answered" /\ GoesTo(m, "queued")
    /\ Logs(<<Line("qmgr", m, post[m].id, Nil, Nil)>>)
    /\ UNCHANGED <<pos, catching, memory, journal, writes, tail, up, duePrune, crossed, kills>>

Settle(m, fate) ==
    IF \A x \in Rcpts : fate[x] \in Finals
    THEN Leaves(m, fate)
    ELSE post' = [post EXCEPT ![m].fate = fate]

\* An attempt to hand the message on.  One is put off once at most.
Deliver(m, x, st) ==
    /\ post[m].stage = "queued"
    /\ post[m].fate[x] \notin Finals \cup {st}
    /\ Settle(m, [post[m].fate EXCEPT ![x] = st])
    /\ Logs(<<Line("delivery", m, post[m].id, x, st)>>)
    /\ UNCHANGED <<pos, catching, memory, journal, writes, tail, up, duePrune, crossed, kills>>

\* Postfix gives the message up; the line names no recipient.
Expire(m) ==
    /\ post[m].stage = "queued"
    /\ Settle(m, [x \in Rcpts |-> IF post[m].fate[x] = "sent" THEN "sent" ELSE "bounced"])
    /\ Logs(<<Line("expired", m, post[m].id, Nil, "bounced")>>)
    /\ UNCHANGED <<pos, catching, memory, journal, writes, tail, up, duePrune, crossed, kills>>

-----------------------------------------------------------------------------
(* Rows                                                                    *)

\* ForgetInboundQueueID: rows still open lose their result with the id.
Forgotten(R, q) ==
    {IF r.id = q THEN [r EXCEPT !.id = Nil, !.st = IF @ \in Open THEN "" ELSE @] ELSE r : r \in R}

\* The rows a result may be put on: a final one stays.
Takes(r) == r.st \in Open

\* UpdateInboundUpstream and ExpireInboundUpstream.
Updated(q, x, st) ==
    {IF r.id = q /\ r.rcpt = x /\ Takes(r) THEN [r EXCEPT !.st = st] ELSE r : r \in rows}
Expired(q) ==
    {IF r.id = q /\ Takes(r) THEN [r EXCEPT !.st = "bounced"] ELSE r : r \in rows}

\* A verdict is read only next to the filter's signature of the queue id.
AnyVerdict(v) == TRUE
Signed(v) == v \in {"pass", "hold"}

\* What the headers say, and the rows of an accepted message, one for a
\* recipient at an inbound domain.
Quarantine(m) == VerdictOf[m] \in {"hold", "forged"}
Recorded(m) ==
    {[msg |-> m, rcpt |-> x, id |-> post[m].id,
      st |-> IF Quarantine(m) /\ Signed(VerdictOf[m]) THEN "held" ELSE "queued"] : x \in Rcpts}

RowCount == Cardinality(rows) + Cardinality({m \in Msgs : refused[m] >= 1})
                              + Cardinality({m \in Msgs : refused[m] >= 2})

\* PruneInboundSpam by count: any rows may be the oldest.
Cut ==
    \E R \in SUBSET rows, F \in SUBSET {m \in Msgs : refused[m] > 0} :
       /\ rows' = rows \ R
       /\ refused' = [m \in Msgs |-> IF m \in F THEN refused[m] - 1 ELSE refused[m]]
       /\ IF RowCount > inboundCapRows
          THEN Cardinality(R) + Cardinality(F) = RowCount - inboundCapRows
          ELSE R = {} /\ F = {}

-----------------------------------------------------------------------------
(* The milter's record, inside Postfix's callback                          *)

\* Lines about id q of another message than m that may still be read.
OthersLines(m, q) == {k \in 1..Len(log) : log[k].id = q /\ log[k].msg # m}

\* Older rows of the queue id are detached.
MilterForgets(m) ==
    /\ post[m].stage = "asked" /\ GoesTo(m, "forgot")
    /\ rows' = Forgotten(rows, post[m].id)
    /\ crossed' = crossed \cup {log[k].msg : k \in {j \in OthersLines(m, post[m].id) : j > pos}}
    /\ UNCHANGED <<tailer, refused, writes, up, duePrune, kills>>

\* The rows of the message, in one transaction.
MilterInserts(m) ==
    /\ post[m].stage = "forgot"
    /\ rows' = rows \cup Recorded(m)
    /\ GoesTo(m, "count")
    /\ crossed' = IF OthersLines(m, post[m].id) = {} THEN crossed ELSE crossed \cup {m}
    /\ UNCHANGED <<tailer, refused, writes, up, duePrune, kills>>

CutSteps == <<"reset", "cut">>
AfterCount == IF writes' < inboundCapEvery THEN "done" ELSE CutSteps[1]
AfterStep(s) == IF s = CutSteps[1] THEN CutSteps[2] ELSE "done"

CutStep(s) ==
    \/ s = "reset" /\ writes' = 0 /\ UNCHANGED journal
    \/ s = "cut" /\ Cut /\ UNCHANGED writes

Counted(m) == Cardinality(Recorded(m))

MilterCounts(m) ==
    /\ post[m].stage = "count"
    /\ writes' = writes + Counted(m)
    /\ GoesTo(m, IF AfterCount = "done" THEN "answered" ELSE AfterCount)
    /\ UNCHANGED <<tailer, journal, up, duePrune, crossed, kills>>

MilterCuts(m) ==
    /\ post[m].stage \in {"reset", "cut"} /\ CutStep(post[m].stage)
    /\ LET next == AfterStep(post[m].stage) IN GoesTo(m, IF next = "done" THEN "answered" ELSE next)
    /\ UNCHANGED <<tailer, up, duePrune, crossed, kills>>

-----------------------------------------------------------------------------
(* The tailer                                                              *)

Capped(n) == IF n < inboundQueueIDs THEN n ELSE inboundQueueIDs

\* remember: the oldest arrival makes room, and takes its id with it unless
\* the id was opened again since.
DroppedAlways(entry) == [port25 EXCEPT ![entry.id] = 0]
Dropped(entry) == IF port25[entry.id] = entry.seq THEN [port25 EXCEPT ![entry.id] = 0] ELSE port25

Remember(q) ==
    IF port25[q] # 0 THEN UNCHANGED memory
    ELSE LET seq  == IF order = <<>> THEN 1 ELSE order[Len(order)].seq + 1
             full == Len(order) >= inboundQueueIDs
         IN /\ order' = Append(IF full THEN Tail(order) ELSE order, [id |-> q, seq |-> seq])
            /\ port25' = [IF full THEN Dropped(Head(order)) ELSE port25 EXCEPT ![q] = seq]
            /\ fresh' = [p \in Ids |-> IF p = q THEN 0 ELSE Capped(fresh[p] + 1)]

Forget(q) ==
    /\ port25' = [port25 EXCEPT ![q] = 0]
    /\ fresh' = [fresh EXCEPT ![q] = inboundQueueIDs]
    /\ UNCHANGED order

\* A row for a refusal: while the tailer catches up, unless it is there.
Again(m) == catching /\ refused[m] > 0
RecordRefusal(m) ==
    IF Again(m) THEN UNCHANGED <<refused, tail>>
    ELSE refused' = [refused EXCEPT ![m] = @ + 1] /\ tail' = "count"

OpenedHere(l) == l.kind = "open25" /\ Remember(l.id) /\ UNCHANGED <<journal, tail>>

\* The id is port 25's no longer.  With a queue file that was removed, rows
\* the milter wrote for it lose it too.
Accounted(l) ==
    /\ l.kind \in {"openOther", "qmgr", "removed"} /\ Forget(l.id)
    /\ rows' = IF l.kind = "removed" THEN Forgotten(rows, l.id) ELSE rows
    /\ UNCHANGED <<refused, tail>>

Rejected(l) == l.kind = "reject" /\ RecordRefusal(l.msg) /\ UNCHANGED <<memory, rows>>

\* The filter's verdict counts for an id of port 25 only.
FilterRefused(l) ==
    /\ l.kind = "verdict"
    /\ IF port25[l.id] # 0 THEN Forget(l.id) /\ RecordRefusal(l.msg)
       ELSE UNCHANGED <<memory, refused, tail>>
    /\ UNCHANGED rows

Upstream(l) == l.kind = "delivery" /\ rows' = Updated(l.id, l.rcpt, l.st)
                                  /\ UNCHANGED <<memory, refused, tail>>
GivenUp(l) == l.kind = "expired" /\ rows' = Expired(l.id) /\ UNCHANGED <<memory, refused, tail>>

HandleLine(l) == OpenedHere(l) \/ Accounted(l) \/ Rejected(l) \/ FilterRefused(l)
                 \/ Upstream(l) \/ GivenUp(l)

\* With no kill left, no line is read again.
ReadLine ==
    /\ up /\ tail = "done" /\ pos < Len(log)
    /\ IF kills = MaxKills THEN pos' = 0 /\ log' = SubSeq(log, pos + 2, Len(log))
       ELSE pos' = pos + 1 /\ UNCHANGED log
    /\ HandleLine(log[pos + 1])
    /\ UNCHANGED <<post, catching, writes, up, duePrune, crossed, kills>>

TailCounts ==
    /\ tail = "count"
    /\ writes' = writes + 1 /\ tail' = AfterCount
    /\ UNCHANGED <<post, log, pos, catching, memory, journal, up, duePrune, crossed, kills>>

TailCuts ==
    /\ tail \in {"reset", "cut"} /\ CutStep(tail) /\ tail' = AfterStep(tail)
    /\ UNCHANGED <<post, log, pos, catching, memory, up, duePrune, crossed, kills>>

MeetEnd ==
    /\ up /\ catching /\ tail = "done" /\ pos = Len(log)
    /\ catching' = FALSE
    /\ UNCHANGED <<post, log, pos, memory, journal, writes, tail, up, duePrune, crossed, kills>>

\* The place is saved: what is before it is not read again.
SavePlace ==
    /\ up /\ tail = "done" /\ pos > 0
    /\ log' = SubSeq(log, pos + 1, Len(log)) /\ pos' = 0
    /\ UNCHANGED <<post, catching, memory, journal, writes, tail, up, duePrune, crossed, kills>>

\* The first prune of inboundRetentionLoop.
StartPrune ==
    /\ up /\ duePrune /\ Cut /\ duePrune' = FALSE
    /\ UNCHANGED <<post, tailer, writes, up, crossed, kills>>

-----------------------------------------------------------------------------
(* The panel                                                               *)

InMilter == {"asked", "forgot", "count", "reset", "cut"}

\* The panel is killed.  Postfix goes on without the milter's answer
\* (default_action=accept).
Kill ==
    /\ up /\ kills < MaxKills
    /\ up' = FALSE /\ kills' = kills + 1
    /\ post' = [m \in Msgs |-> IF post[m].stage \in InMilter
                               THEN [post[m] EXCEPT !.stage = "answered"] ELSE post[m]]
    /\ pos' = 0 /\ writes' = 0 /\ tail' = "done"
    /\ port25' = [q \in Ids |-> 0] /\ order' = <<>>
    /\ fresh' = [q \in Ids |-> inboundQueueIDs]
    /\ UNCHANGED <<log, catching, journal, duePrune, crossed>>

StartPanel ==
    /\ ~up /\ up' = TRUE /\ catching' = TRUE /\ duePrune' = TRUE
    /\ UNCHANGED <<post, log, pos, memory, journal, writes, tail, crossed, kills>>

-----------------------------------------------------------------------------
InboundInit ==
    /\ post = [m \in Msgs |-> NoMsg] /\ log = <<>> /\ pos = 0 /\ catching = FALSE
    /\ port25 = [q \in Ids |-> 0] /\ order = <<>>
    /\ rows = {} /\ refused = [m \in Msgs |-> 0] /\ writes = 0 /\ tail = "done"
    /\ up = TRUE /\ duePrune = FALSE
    /\ fresh = [q \in Ids |-> inboundQueueIDs] /\ crossed = {} /\ kills = 0

Postfix(m) ==
    \/ OpenMessage(m) \/ OtherMessage(m)
    \/ RefuseRecipient(m) \/ RefuseMessage(m) \/ RemoveMessage(m)
    \/ EndOfMessage(m) \/ QueueMessage(m) \/ Expire(m)
    \/ \E x \in Rcpts, st \in Results : Deliver(m, x, st)

Milter(m) == MilterForgets(m) \/ MilterInserts(m) \/ MilterCounts(m) \/ MilterCuts(m)
Tailer == ReadLine \/ TailCounts \/ TailCuts \/ MeetEnd \/ SavePlace
InboundNext == (\E m \in Msgs : Postfix(m) \/ Milter(m)) \/ Tailer \/ StartPrune \/ Kill \/ StartPanel

InboundSpec == InboundInit /\ [][InboundNext]_inboundVars

-----------------------------------------------------------------------------
(* Properties                                                              *)

\* What a row should show once every line is read.
Shown(m, x) ==
    LET f == post[m].fate[x] IN
    IF f # "none" THEN f
    ELSE IF post[m].stage = "gone" THEN ""
    ELSE IF VerdictOf[m] = "hold" THEN "held" ELSE "queued"

\* Once the tailer has read every line, each row of accepted mail shows what
\* became of the message for that recipient - held only if the filter itself
\* held it, no result if it was never queued - through kills and lines read
\* again (inbound-upstream-result); and a refusal is one row, however often its
\* line is read (handle, catchingUp).  A message whose short queue id is that of
\* another message with lines still to be read, or read again, is left out:
\* the two cannot be told apart.
FateShown ==
    up /\ tail = "done" /\ pos = Len(log) =>
        /\ \A r \in rows :
             \/ r.msg \in crossed \/ post[r.msg].stage \in InMilter
             \/ r.st = Shown(r.msg, r.rcpt)
        /\ \A m \in Msgs : refused[m] <= 1

\* "a line read twice after a restart, or an older one read after a newer, does
\* not undo a sent" (UpdateInboundUpstream): a final result stays, whatever is
\* read, forgotten or expired after it.
FinalStays ==
    [][\A r \in rows : r.st \in Finals =>
         \A n \in rows' : n.msg = r.msg /\ n.rcpt = r.rcpt => n.st = r.st]_inboundVars

\* The verdict on a port-25 message is waited for: its id is not dropped
\* before as many ids as are remembered came after it (remember's numbers).
VerdictAwaited == \A q \in Ids : fresh[q] < inboundQueueIDs => port25[q] # 0

\* The journal outgrows its cap by less than the rows between two cuts, when
\* nobody is at it, whoever wrote side by side (countInboundWrites).
JournalBounded ==
    up /\ ~duePrune /\ tail = "done" /\ (\A m \in Msgs : post[m].stage \notin {"count", "reset", "cut"}) =>
        RowCount <= inboundCapRows + inboundCapEvery - 1
=============================================================================
