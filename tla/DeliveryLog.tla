---------------------------- MODULE DeliveryLog ----------------------------
(***************************************************************************)
(* The status of the send log's rows (internal/logtail, internal/store):   *)
(* the log tailer's handler writes what mail.log says of a message, the    *)
(* reconcile sweep closes the rows of messages Postfix dropped without a   *)
(* word, and both run beside Postfix, the journal milter, the panel's test *)
(* message and restarts of the panel.                                      *)
(*                                                                         *)
(* mail.log is one sequence of lines here; LogFollow has the files.  What  *)
(* it shows is what this module assumes of the reader: lines come in their *)
(* order, after an unclean stop from an earlier place again, and those of  *)
(* a log rotated away during a stop may be gone.  A row's age is a bit: it *)
(* is past reconcileGrace (for a test message, past awaitedTTL).           *)
(***************************************************************************)
EXTENDS Integers, Sequences

CONSTANTS
    QueueID, NoID,  \* Postfix's queue ids; the "" of a row without one
    Recipient,      \* recipients
    ReuseIDs,       \* short queue ids: Postfix gives one again
    TestMessages,   \* whether the panel sends its test message
    MayFail,        \* whether a store call or postqueue may fail
    MayPrune,       \* whether rows reach the end of the retention window
    MayLose,        \* whether lines can be rotated away during a stop
    MaxRows,        \* bound: send-log rows
    MaxLog,         \* bound: lines of mail.log
    MaxStops        \* bound: unclean stops of the panel

ASSUME LogNames == NoID \notin QueueID
ASSUME LogSwitches ==
    /\ ReuseIDs \in BOOLEAN /\ TestMessages \in BOOLEAN
    /\ MayFail \in BOOLEAN /\ MayPrune \in BOOLEAN /\ MayLose \in BOOLEAN
ASSUME LogBounds == MaxRows \in Nat /\ MaxLog \in Nat /\ MaxStops \in Nat

VARIABLES
    \* Postfix:
    arriving,   \* messages accepted and not yet queued: recipients, their rows
    queue,      \* messages queued, likewise; {} when the id is free
    used,       \* queue ids given so far
    mailLog,    \* mail.log; about is the rows a line is really of
    \* The store:
    rows,       \* send_log, by id; "gone" marks a deleted row
    saved,      \* logtail_state
    days,       \* delivery_log_days, all days in one
    \* The panel:
    pos,        \* lines of the log handled
    caughtUp,   \* the channel of that name is closed
    awaited,    \* rows whose Message-ID is awaited
    testing,    \* test messages in sendmail's hands
    sweep,      \* the reconcile sweep: where it is and what it holds
    \* What an observer knows:
    stops,
    base,       \* length of the log when the panel started
    lost        \* lines no run will handle, or whose status was not written

postfix == <<arriving, queue, used, mailLog>>
panel == <<pos, caughtUp, awaited, testing, sweep>>
witnessed == <<stops, base, lost>>
deliveryVars == <<postfix, rows, saved, days, panel, witnessed>>

RowID == 1 .. MaxRows
Status == {"queued", "deferred", "sent", "bounced", "rejected", "gone"}
OpenStatus == {"queued", "deferred"}
LogRow == [qid : QueueID \cup {NoID}, rcpt : Recipient, status : Status,
           reason : {"", "reconcile", "reconcile-contradicted"},
           old : BOOLEAN, test : BOOLEAN]
LogLine ==
    {l \in [kind : {"delivery", "expiry", "message-id"}, qid : QueueID,
            rcpt : Recipient \cup {NoID}, status : {"", "sent", "deferred", "bounced"},
            about : SUBSET RowID] : l.kind = "delivery" => l.status # ""}
Idle == [at |-> "idle", rows |-> {}, inLog |-> {}, closed |-> 0, missed |-> 0]

Place == Recipient \X (0 .. MaxRows)
SweepState == [at : {"idle", "listed", "scan", "close", "tests"}, rows : SUBSET RowID,
               inLog : SUBSET RowID, closed : Nat, missed : Nat]

PostfixTyped ==
    /\ arriving \in [QueueID -> SUBSET Place] /\ queue \in [QueueID -> SUBSET Place]
    /\ used \subseteq QueueID
    /\ mailLog \in Seq(LogLine) /\ Len(mailLog) <= MaxLog

RowsTyped ==
    /\ rows \in Seq(LogRow) /\ Len(rows) <= MaxRows
    /\ days \in [closed : Nat, missed : Nat, contradicted : Nat]
    /\ awaited \subseteq DOMAIN rows /\ testing \subseteq DOMAIN rows

TailerTyped ==
    /\ pos \in 0 .. Len(mailLog) /\ saved \in 0 .. pos /\ base \in 0 .. Len(mailLog)
    /\ caughtUp \in BOOLEAN /\ stops \in 0 .. MaxStops
    /\ lost \subseteq DOMAIN mailLog

SweepTyped ==
    /\ sweep \in SweepState
    /\ sweep.rows \subseteq DOMAIN rows /\ sweep.inLog \subseteq sweep.rows
    /\ sweep.missed <= sweep.closed /\ (sweep.at # "close" => sweep.inLog = {})

\* Every variable has its type; a place saved is one the tailer came to, and
\* the sweep holds rows there are.
DeliveryTypeOK == PostfixTyped /\ RowsTyped /\ TailerTyped /\ SweepTyped

DeliveryInit ==
    /\ arriving = [q \in QueueID |-> {}] /\ queue = [q \in QueueID |-> {}]
    /\ used = {} /\ mailLog = <<>> /\ rows = <<>> /\ saved = 0
    /\ days = [closed |-> 0, missed |-> 0, contradicted |-> 0]
    /\ pos = 0 /\ caughtUp = FALSE /\ awaited = {} /\ testing = {} /\ sweep = Idle
    /\ stops = 0 /\ base = 0 /\ lost = {}

Open(id) == rows[id].status \in OpenStatus
InPostfix(id) == \E q \in QueueID : \E p \in arriving[q] \cup queue[q] : p[2] = id
RowsOf(ps) == {p[2] : p \in ps} \ {0}
Free(q) == queue[q] = {} /\ arriving[q] = {} /\ (q \in used => ReuseIDs)

NewRow(q, r, st, test) ==
    [qid |-> q, rcpt |-> r, status |-> st, reason |-> "", old |-> FALSE, test |-> test]

----------------------------------------------------------------------------
(* Postfix and the milters in front of it.                                 *)

\* The recipients of a message, the first n with the rows they get; the others
\* get none.
Rowed(rs, n, to) ==
    {<<to[i], Len(rows) + i>> : i \in 1 .. n} \cup {<<r, 0>> : r \in rs \ {to[i] : i \in 1 .. n}}

\* End-of-message: the journal milter writes a row per recipient
\* (InsertQueued), or fails to, and lets the message pass.
Accept(q, rs) ==
    /\ Free(q)
    /\ \E n \in 0 .. MaxRows - Len(rows) : \E to \in [1 .. n -> rs] :
        /\ \A i, k \in 1 .. n : to[i] = to[k] => i = k
        /\ ~MayFail => \A r \in rs : \E i \in 1 .. n : to[i] = r
        /\ rows' = rows \o [i \in 1 .. n |-> NewRow(q, to[i], "queued", FALSE)]
        /\ arriving' = [arriving EXCEPT ![q] = Rowed(rs, n, to)]
    /\ used' = used \cup {q}
    /\ UNCHANGED <<queue, mailLog, saved, days, panel, witnessed>>

\* The sender check refuses a message for its From: line; the row carries the
\* queue id the message had.
RefuseFrom(q, r) ==
    /\ Free(q) /\ Len(rows) < MaxRows
    /\ rows' = Append(rows, NewRow(q, r, "rejected", FALSE))
    /\ used' = used \cup {q}
    /\ UNCHANGED <<arriving, queue, mailLog, saved, days, panel, witnessed>>

Enqueue(q) ==
    /\ arriving[q] # {}
    /\ queue' = [queue EXCEPT ![q] = arriving[q]]
    /\ arriving' = [arriving EXCEPT ![q] = {}]
    /\ UNCHANGED <<used, mailLog, rows, saved, days, panel, witnessed>>

LogOne(kind, q, r, st, about) ==
    /\ Len(mailLog) < MaxLog
    /\ mailLog' = Append(mailLog, [kind |-> kind, qid |-> q, rcpt |-> r, status |-> st,
                                   about |-> about])

\* One delivery attempt at one recipient and its line.
Attempt(q, p, st) ==
    /\ p \in queue[q]
    /\ LogOne("delivery", q, p[1], st, RowsOf({p}))
    /\ queue' = IF st = "deferred" THEN queue ELSE [queue EXCEPT ![q] = @ \ {p}]
    /\ UNCHANGED <<arriving, used, rows, saved, days, panel, witnessed>>

\* The end of the queue lifetime: one line for the message.
Expire(q) ==
    /\ queue[q] # {}
    /\ LogOne("expiry", q, NoID, "", RowsOf(queue[q]))
    /\ queue' = [queue EXCEPT ![q] = {}]
    /\ UNCHANGED <<arriving, used, rows, saved, days, panel, witnessed>>

\* postsuper -d: no line at all.
Drop(q) ==
    /\ queue[q] # {}
    /\ queue' = [queue EXCEPT ![q] = {}]
    /\ UNCHANGED <<arriving, used, mailLog, rows, saved, days, panel, witnessed>>

----------------------------------------------------------------------------
(* The panel's test message: its row is written without a queue id, its    *)
(* Message-ID awaited, and the message handed to sendmail.                 *)

SendTest(r) ==
    /\ TestMessages /\ Len(rows) < MaxRows
    /\ rows' = Append(rows, NewRow(NoID, r, "queued", TRUE))
    /\ awaited' = awaited \cup {Len(rows) + 1}
    /\ testing' = testing \cup {Len(rows) + 1}
    /\ UNCHANGED <<postfix, saved, days, pos, caughtUp, sweep, witnessed>>

\* sendmail hands it over - in time or after ErrTimeout - and cleanup logs it.
TestTaken(id, q) ==
    /\ id \in testing /\ Free(q)
    /\ LogOne("message-id", q, NoID, "", {id})
    /\ arriving' = [arriving EXCEPT ![q] = {<<rows[id].rcpt, id>>}]
    /\ used' = used \cup {q}
    /\ testing' = testing \ {id}
    /\ UNCHANGED <<queue, rows, saved, days, pos, caughtUp, awaited, sweep, witnessed>>

\* Postfix did not take it: the row goes, unless the panel stopped before it
\* could delete it.
TestRefused(id) ==
    /\ id \in testing
    /\ IF id \in awaited
       THEN rows' = [rows EXCEPT ![id].status = "gone"]
       ELSE UNCHANGED rows
    /\ awaited' = awaited \ {id}
    /\ testing' = testing \ {id}
    /\ UNCHANGED <<postfix, saved, days, pos, caughtUp, sweep, witnessed>>

----------------------------------------------------------------------------
(* The handler of a line (Run).                                            *)

\* Mutant: the oldest row of the pair.
OldestRow(q, r) ==
    {id \in DOMAIN rows :
        /\ rows[id].qid = q /\ rows[id].rcpt = r /\ rows[id].status \notin {"rejected", "gone"}
        /\ \A o \in DOMAIN rows : rows[o].qid = q /\ rows[o].rcpt = r
                                  /\ rows[o].status \notin {"rejected", "gone"} => id <= o}

\* The newest row of a queue id and recipient that is not a refusal, if any.
NewestRow(q, r) ==
    {id \in DOMAIN rows :
        /\ rows[id].qid = q /\ rows[id].rcpt = r /\ rows[id].status \notin {"rejected", "gone"}
        /\ \A o \in DOMAIN rows : rows[o].qid = q /\ rows[o].rcpt = r
                                  /\ rows[o].status \notin {"rejected", "gone"} => o <= id}

UpdateStatus(q, r, st) ==
    LET hit == NewestRow(q, r)
        contradicted == {id \in hit : rows[id].reason = "reconcile"}
    IN  /\ rows' = [id \in DOMAIN rows |->
                      IF id \in hit
                      THEN [rows[id] EXCEPT !.status = st,
                              !.reason = IF id \in contradicted THEN "reconcile-contradicted" ELSE @]
                      ELSE rows[id]]
        /\ days' = [days EXCEPT !.contradicted = IF contradicted = {} THEN @ ELSE @ + 1]

ExpireMessage(q) ==
    /\ rows' = [id \in DOMAIN rows |->
                  IF Open(id) /\ id \in UNION {NewestRow(q, r) : r \in Recipient}
                  THEN [rows[id] EXCEPT !.status = "bounced"] ELSE rows[id]]
    /\ UNCHANGED days

\* takeAwaited and SetSendLogQueueID: a row awaited too long is not taken, one
\* that has a queue id keeps it.
TakeAwaited(l) ==
    /\ rows' = [id \in DOMAIN rows |->
                  IF id \in l.about \cap awaited /\ ~rows[id].old /\ rows[id].qid = NoID
                     /\ rows[id].status # "gone"
                  THEN [rows[id] EXCEPT !.qid = l.qid] ELSE rows[id]]
    /\ awaited' = awaited \ l.about
    /\ UNCHANGED days

NextLine == mailLog[pos + 1]

Advance ==
    /\ pos' = pos + 1
    /\ UNCHANGED <<postfix, saved, caughtUp, testing, sweep, stops, base>>

HandleDelivery ==
    /\ pos < Len(mailLog) /\ NextLine.kind = "delivery"
    /\ UpdateStatus(NextLine.qid, NextLine.rcpt, NextLine.status)
    /\ Advance
    /\ UNCHANGED <<awaited, lost>>

HandleExpiry ==
    /\ pos < Len(mailLog) /\ NextLine.kind = "expiry"
    /\ ExpireMessage(NextLine.qid)
    /\ Advance
    /\ UNCHANGED <<awaited, lost>>

HandleMessageID ==
    /\ pos < Len(mailLog) /\ NextLine.kind = "message-id"
    /\ TakeAwaited(NextLine)
    /\ Advance
    /\ UNCHANGED lost

\* The store refuses the line's write, which is only logged.
HandleFails ==
    /\ pos < Len(mailLog) /\ MayFail
    /\ Advance
    /\ awaited' = IF NextLine.kind = "message-id" THEN awaited \ NextLine.about ELSE awaited
    /\ lost' = lost \cup {pos + 1}
    /\ UNCHANGED <<rows, days>>

\* follow reaches the end of the log for the first time.
CatchUp ==
    /\ ~caughtUp /\ pos = Len(mailLog)
    /\ caughtUp' = TRUE
    /\ UNCHANGED <<postfix, rows, saved, days, pos, awaited, testing, sweep, witnessed>>

SavePlace ==
    /\ saved # pos
    /\ saved' = pos
    /\ UNCHANGED <<postfix, rows, days, panel, witnessed>>

Tailer == HandleDelivery \/ HandleExpiry \/ HandleMessageID \/ HandleFails \/ CatchUp

----------------------------------------------------------------------------
(* The reconcile sweep (reconcileLoop, reconcile), every five minutes.     *)

\* Mutants: without the grace; "queued" rows only.
ListOpenAtOnce == {id \in DOMAIN rows : Open(id) /\ rows[id].qid # NoID}
ListQueuedOlderThan ==
    {id \in DOMAIN rows : rows[id].status = "queued" /\ rows[id].qid # NoID /\ rows[id].old}
ListOpenOlderThan == {id \in DOMAIN rows : Open(id) /\ rows[id].qid # NoID /\ rows[id].old}

SweepStep == UNCHANGED <<postfix, saved, pos, caughtUp, awaited, testing, witnessed>>

SweepList ==
    /\ sweep.at = "idle" /\ caughtUp
    /\ ListOpenOlderThan # {}
    /\ sweep' = [Idle EXCEPT !.at = "listed", !.rows = ListOpenOlderThan]
    /\ UNCHANGED <<rows, days>> /\ SweepStep

\* No open row, or the listing failed: only test messages are left to do.
SweepNothing ==
    /\ sweep.at = "idle" /\ caughtUp
    /\ ListOpenOlderThan = {} \/ MayFail
    /\ sweep' = [Idle EXCEPT !.at = "tests"]
    /\ UNCHANGED <<rows, days>> /\ SweepStep

\* postqueue -p: a message on its way in is not in the listing.
SweepQueueIDs ==
    /\ sweep.at = "listed"
    /\ sweep' = [sweep EXCEPT !.at = "scan",
                   !.rows = {id \in @ : queue[rows[id].qid] = {}}]
    /\ UNCHANGED <<rows, days>> /\ SweepStep

SweepNoListing ==
    /\ sweep.at = "listed" /\ MayFail
    /\ sweep' = [Idle EXCEPT !.at = "tests"]
    /\ UNCHANGED <<rows, days>> /\ SweepStep

\* A final line of the row's queue id in a file the sweep can open.
ResultsInLog(ids) ==
    {id \in ids : \E i \in DOMAIN mailLog \ lost :
        /\ mailLog[i].qid = rows[id].qid
        /\ \/ mailLog[i].kind = "expiry"
           \/ /\ mailLog[i].kind = "delivery" /\ mailLog[i].status # "deferred"
              /\ mailLog[i].rcpt = rows[id].rcpt}

SweepResultsInLog ==
    /\ sweep.at = "scan"
    /\ sweep' = [sweep EXCEPT !.at = "close", !.inLog = ResultsInLog(sweep.rows)]
    /\ UNCHANGED <<rows, days>> /\ SweepStep

\* Mutant: the row is closed whatever the log said in the meantime.
CloseAnyway(id) ==
    [rows EXCEPT ![id].status = "bounced", ![id].reason = "reconcile"]
CloseUnreported(id) ==
    IF Open(id) THEN [rows EXCEPT ![id].status = "bounced", ![id].reason = "reconcile"]
    ELSE rows

SweepClose(id) ==
    /\ sweep.at = "close" /\ id \in sweep.rows
    /\ rows' = CloseUnreported(id)
    /\ sweep' = [sweep EXCEPT !.rows = @ \ {id}, !.inLog = @ \ {id},
                   !.closed = IF Open(id) THEN @ + 1 ELSE @,
                   !.missed = IF Open(id) /\ id \in sweep.inLog THEN @ + 1 ELSE @]
    /\ UNCHANGED days /\ SweepStep

SweepCloseFails(id) ==
    /\ sweep.at = "close" /\ id \in sweep.rows /\ MayFail
    /\ sweep' = [sweep EXCEPT !.rows = @ \ {id}, !.inLog = @ \ {id}]
    /\ UNCHANGED <<rows, days>> /\ SweepStep

SweepCount ==
    /\ sweep.at = "close" /\ sweep.rows = {}
    /\ days' = [days EXCEPT !.closed = @ + sweep.closed, !.missed = @ + sweep.missed]
    /\ sweep' = [Idle EXCEPT !.at = "tests"]
    /\ UNCHANGED rows /\ SweepStep

CloseUnmatchedTestMessages ==
    /\ sweep.at = "tests"
    /\ rows' = [id \in DOMAIN rows |->
                  IF rows[id].test /\ rows[id].qid = NoID /\ rows[id].old
                     /\ rows[id].status = "queued"
                  THEN [rows[id] EXCEPT !.status = "bounced", !.reason = "reconcile"]
                  ELSE rows[id]]
    /\ sweep' = Idle
    /\ UNCHANGED days /\ SweepStep

Sweep ==
    \/ SweepList \/ SweepNothing \/ SweepQueueIDs \/ SweepNoListing \/ SweepResultsInLog
    \/ \E id \in RowID : SweepClose(id) \/ SweepCloseFails(id)
    \/ SweepCount \/ CloseUnmatchedTestMessages

----------------------------------------------------------------------------
(* Time and stops.                                                         *)

\* The grace is longer than a message takes from end-of-message to the queue.
Age(id) ==
    /\ id \in DOMAIN rows /\ ~rows[id].old
    /\ \A q \in QueueID : id \notin RowsOf(arriving[q])
    /\ rows' = [rows EXCEPT ![id].old = TRUE]
    /\ UNCHANGED <<postfix, saved, days, panel, witnessed>>

\* retentionLoop: DeleteSendLogBefore takes every row up to some age.
Prune(id) ==
    /\ MayPrune /\ id \in DOMAIN rows /\ rows[id].status # "gone"
    /\ \A o \in 1 .. id : rows[o].old
    /\ rows' = [o \in DOMAIN rows |->
                  IF o <= id THEN [rows[o] EXCEPT !.status = "gone"] ELSE rows[o]]
    /\ UNCHANGED <<postfix, saved, days, panel, witnessed>>

\* The panel is killed and started again at the saved place, or past lines
\* that were rotated away meanwhile.
Restart ==
    /\ stops < MaxStops /\ stops' = stops + 1
    /\ \E p \in saved .. Len(mailLog) :
        /\ p > saved => MayLose
        /\ pos' = p /\ saved' = p
        /\ lost' = lost \cup (saved + 1 .. p)
    /\ caughtUp' = FALSE /\ awaited' = {} /\ sweep' = Idle
    /\ base' = Len(mailLog)
    /\ UNCHANGED <<postfix, rows, days, testing>>

Postfix ==
    \/ \E q \in QueueID :
        \/ \E rs \in (SUBSET Recipient) \ {{}} : Accept(q, rs)
        \/ \E r \in Recipient : RefuseFrom(q, r)
        \/ Enqueue(q) \/ Expire(q) \/ Drop(q)
        \/ \E p \in queue[q], st \in {"sent", "deferred", "bounced"} : Attempt(q, p, st)
        \/ \E id \in testing : TestTaken(id, q)
    \/ \E r \in Recipient : SendTest(r)
    \/ \E id \in testing : TestRefused(id)

DeliveryNext ==
    \/ Postfix \/ Tailer \/ SavePlace \/ Sweep
    \/ \E id \in RowID : Age(id) \/ Prune(id)
    \/ Restart

\* A message does not stay in the queue past its lifetime, sendmail returns,
\* time passes, the two loops are driven by tickers, and postqueue and the
\* store do not fail for ever.
Fairness ==
    /\ \A q \in QueueID : WF_deliveryVars(Enqueue(q)) /\ WF_deliveryVars(Expire(q) \/ Drop(q))
    /\ \A id \in RowID : WF_deliveryVars(TestRefused(id)) /\ WF_deliveryVars(Age(id)) /\ SF_deliveryVars(SweepClose(id))
    /\ WF_deliveryVars(Tailer) /\ WF_deliveryVars(Sweep) /\ SF_deliveryVars(SweepList) /\ SF_deliveryVars(SweepQueueIDs)

DeliverySpec == DeliveryInit /\ [][DeliveryNext]_deliveryVars
DeliveryFairSpec == DeliverySpec /\ Fairness

----------------------------------------------------------------------------
(* Properties.                                                             *)

\* No other message for the row's recipient had its queue id: neither one
\* with a row, nor one whose row was not written or not given the id.
OnlyOfItsID(id) ==
    /\ \A o \in DOMAIN rows \ {id} :
          rows[o].qid = rows[id].qid /\ rows[o].rcpt = rows[id].rcpt => rows[o].status = "rejected"
    /\ \A i \in DOMAIN mailLog :
          /\ mailLog[i].kind = "delivery"
          /\ mailLog[i].qid = rows[id].qid /\ mailLog[i].rcpt = rows[id].rcpt
          => id \in mailLog[i].about

\* Once the tailer is at the end of the log, a row shows the final result
\* Postfix logged for its message - through sweeps that guessed in between,
\* lines read twice after a kill and messages with several recipients - if
\* the row took the message's queue id, its line could be read, and the id was
\* not given again before it was (UpdateStatus, ExpireMessage,
\* CloseUnreported).
FinalLineShown ==
    pos = Len(mailLog) =>
        \A i \in DOMAIN mailLog \ lost : \A id \in mailLog[i].about :
            rows[id].qid = mailLog[i].qid /\ OnlyOfItsID(id) =>
                /\ mailLog[i].kind = "delivery" /\ mailLog[i].status # "deferred" =>
                      rows[id].status \in {mailLog[i].status, "gone"}
                /\ mailLog[i].kind = "expiry" => rows[id].status \in {"bounced", "gone"}

\* A line never rewrites the row of an older message that had its queue id,
\* nor a refusal's, however far behind the tailer is, if its own row was
\* written and has the id (UpdateStatus, ExpireMessage: the newest row only).
NoOlderRowRewritten ==
    [][pos' = pos + 1 =>
         \A id \in DOMAIN rows :
            rows'[id].status # rows[id].status =>
                /\ rows[id].status # "rejected"
                /\ \A a \in NextLine.about :
                      rows[a].qid = NextLine.qid /\ rows[a].rcpt = rows[id].rcpt => id >= a]_deliveryVars

ClosedBySweep(id) == sweep.at = "close" /\ sweep' # sweep /\ rows'[id] # rows[id]

\* The sweep guesses only where nothing else will say: it closes only rows of
\* messages Postfix has done with - a message on its way into the queue when
\* the rows were listed, or delivered again under a queue id of before, is left
\* alone (reconcile, ListOpenOlderThan) - and none while a line about it that
\* was in the log when the panel started is still unread (reconcileLoop waits
\* for caughtUp).
SweepGuessesLast ==
    [][\A id \in DOMAIN rows : ClosedBySweep(id) =>
         /\ ~InPostfix(id)
         /\ \A i \in pos + 1 .. base : id \notin mailLog[i].about]_deliveryVars

\* Every row gets a final status and keeps one: whatever was lost, killed or
\* dropped without a line, no row stays queued or deferred for ever (tailer,
\* sweep, CloseUnmatchedTestMessages).
EveryRowEnds == <>[](\A id \in DOMAIN rows : ~Open(id))

=============================================================================
