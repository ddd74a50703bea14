---------------------------- MODULE SenderCheck ----------------------------
(***************************************************************************)
(* What becomes of a refusal of the sender check and of mail it could not  *)
(* judge (internal/milter/sender.go, internal/logtail/refusals.go and      *)
(* sendercheck.go): the check hands the row of a refused message to a      *)
(* buffer and answers; Postfix logs what it was told, or that nobody       *)
(* answered; the log tailer writes the rows the panel did not get to       *)
(* write, puts Postfix's lines about the journal milter's refusals on      *)
(* their rows, and counts the clients turned away - all of it through      *)
(* stops and kills of the panel.                                           *)
(*                                                                         *)
(* mail.log is one sequence (LogFollow has the files); a line's place is   *)
(* its number.  A client waits for the answer to one message at a time.    *)
(***************************************************************************)
EXTENDS SenderBindings, SequencesExt

CONSTANTS
    Msg,        \* messages, by the queue id cleanup gave them
    Conn, Pid,  \* connections Postfix turned away; smtpd processes
    Refusal,    \* refusals at MAIL FROM of one application at one address
    Texts,      \* Postfix's lines about them; equal within one second
    Room,       \* what the buffer of refused rows holds
    Budgets     \* bounds, taken together: what happens how often

Acts == {"msg", "conn", "refusal", "rewrite", "stop", "fail"}
ASSUME CheckBounds ==
    /\ Room \in Nat \ {0}
    /\ \A b \in Budgets : DOMAIN b = Acts /\ \A a \in Acts : b[a] \in Nat

\* Messages and connections are told apart; smtpd's 0 is no connection, and a
\* row without a line has no text.
ASSUME CheckKinds ==
    /\ IsFiniteSet(Msg) /\ Conn \cap Msg = {} /\ 0 \notin Conn
    /\ Texts \cap {"none", "unwritten", "bare"} = {}

VARIABLES
    left,       \* what is left of the bounds
    up,         \* the panel: the check and the log tailer
    mail, msg,  \* what a message holds; how it stands with its client
    buffer,     \* the rows on their way to the database
    smtpd,      \* the turned-away connection a process has, if any
    log,
    \* The store:
    row,        \* the rows of a refused message: the panel's, the tailer's
    refused,    \* the journal milter's row of a refusal: its line
    place, counted,  \* logtail_state and sender_check_counted_place
    times,      \* how often a connection or a message was counted
    \* The tailer's memory:
    pos, caughtUp, logins, recover, pending, failed, last,
    \* What an observer knows:
    passedBy,   \* messages the place was saved in the middle of
    split,      \* connections it started again in the middle of
    late,       \* rows written from the log while still in the buffer
    missed      \* what a failing store did not take

store == <<row, refused, place, counted, times>>
tailer == <<pos, caughtUp, logins, recover, pending, failed, last>>
seen == <<passedBy, split, late, missed>>
outside == <<mail, msg, smtpd>>
vars == <<bindings, left, up, outside, buffer, log, store, tailer, seen>>

NoRow == [own |-> 0, recovered |-> 0, named |-> TRUE]

CheckTypeOK ==
    /\ up \in BOOLEAN
    /\ msg \in [Msg -> {"new", "open", "answer", "refused", "done"}]
    /\ buffer \in Seq(Msg) /\ Len(buffer) <= Room
    /\ smtpd \in [Pid -> Conn \cup {0}]
    /\ row \in [Msg -> [own : Nat, recovered : Nat, named : BOOLEAN]]
    /\ refused \in [Refusal -> Texts \cup {"none", "unwritten", "bare"}]
    /\ place \in 0 .. Len(log) /\ counted \in 0 .. Len(log) /\ last \in 0 .. Len(log)
    /\ pos \in 0 .. Len(log)

Init ==
    /\ BindingsInit
    /\ left \in Budgets
    /\ up = TRUE
    /\ mail \in [Msg -> Mails] /\ msg = [m \in Msg |-> "new"]
    /\ buffer = <<>> /\ smtpd = [p \in Pid |-> 0] /\ log = <<>>
    /\ row = [m \in Msg |-> NoRow]
    /\ refused = [r \in Refusal |-> "none"]
    /\ place = 0 /\ counted = 0
    /\ times = [x \in Conn \cup Msg |-> 0]
    /\ pos = 0 /\ caughtUp = FALSE /\ logins = {} /\ recover = {} /\ pending = {}
    /\ failed = {} /\ last = 0
    /\ passedBy = {} /\ split = {} /\ late = {} /\ missed = {}

Spend(a) == left[a] > 0 /\ left' = [left EXCEPT ![a] = @ - 1]

Line(kind, of, by) == [kind |-> kind, of |-> of, by |-> by]
Logs(kind, of, by) == log' = Append(log, Line(kind, of, by))

-----------------------------------------------------------------------------
(* A message: smtpd names its login, the check judges it, the client is    *)
(* answered.                                                               *)

\* smtpd's client= line; the headers are the check's.
Opens(m) ==
    /\ up /\ session.at = "none" /\ msg[m] = "new" /\ Spend("msg")
    /\ msg' = [msg EXCEPT ![m] = "open"]
    /\ Logs("client", m, 0)
    /\ JudgeBegins(mail[m])
    /\ UNCHANGED <<table, stamp, cache, blurred, up, mail, smtpd, buffer, store, tailer, seen>>

Judges(m) ==
    /\ up /\ msg[m] = "open"
    /\ Stat(mail[m]) \/ Read(mail[m]) \/ LineJudged(mail[m])
    /\ UNCHANGED <<left, up, outside, buffer, log, store, tailer, seen>>

\* record: a buffer that is full lets the row go; nothing is waited for.
Records(m) == buffer' = IF Len(buffer) < Room THEN Append(buffer, m) ELSE buffer

\* Headers: a refusal is recorded before it is answered.
Refuses(m) ==
    /\ up /\ msg[m] = "open" /\ session.at = "judged" /\ session.got = "refuse"
    /\ Records(m)
    /\ msg' = [msg EXCEPT ![m] = "answer"]
    /\ UNCHANGED <<bindings, left, up, mail, smtpd, log, store, tailer, seen>>

\* Postfix passes the refusal on and cleanup logs it.
Answers(m) ==
    /\ up /\ msg[m] = "answer"
    /\ msg' = [msg EXCEPT ![m] = "refused"]
    /\ Logs("refused", m, 0)
    /\ session' = NoSession
    /\ UNCHANGED <<table, stamp, cache, blurred, left, up, mail, smtpd, buffer, store,
                   tailer, seen>>

\* The message passes, or is deferred for want of a table.
LetsGo(m) ==
    /\ up /\ msg[m] = "open" /\ session.at = "judged" /\ session.got # "refuse"
    /\ msg' = [msg EXCEPT ![m] = "done"]
    /\ session' = NoSession
    /\ UNCHANGED <<table, stamp, cache, blurred, left, up, mail, smtpd, buffer, log, store,
                   tailer, seen>>

OneMore(r, kind) ==
    IF kind = "own" THEN [r EXCEPT !.own = @ + 1] ELSE [r EXCEPT !.recovered = @ + 1]
Inserted(m, kind, named) == row' = [row EXCEPT ![m] = [OneMore(@, kind) EXCEPT !.named = named]]

\* ServeSender's goroutine: InsertRejected, whose error is logged and no more.
Writes ==
    /\ up /\ buffer # <<>>
    /\ buffer' = Tail(buffer)
    /\ \/ Inserted(Head(buffer), "own", row[Head(buffer)].named) /\ UNCHANGED left
       \/ Spend("fail") /\ UNCHANGED row
    /\ UNCHANGED <<bindings, up, outside, log, refused, place, counted, times, tailer, seen>>

Panel(t) ==
    /\ Spend("rewrite") /\ Rewrite(t)
    /\ UNCHANGED <<up, outside, buffer, log, store, tailer, seen>>

-----------------------------------------------------------------------------
(* Postfix, while nobody answers, and the journal milter.                  *)

\* smtpd takes a client, cannot reach the check and says so.
TurnsAway(p, c) ==
    /\ ~ up /\ smtpd[p] = 0 /\ Spend("conn")
    /\ \A i \in DOMAIN log : log[i].of # c
    /\ smtpd' = [smtpd EXCEPT ![p] = c]
    /\ log' = log \o <<Line("connect", c, p), Line("warning", c, p)>>
    /\ UNCHANGED <<bindings, up, mail, msg, buffer, store, tailer, seen>>

\* A connection may draw a second warning.
WarnsAgain(p) ==
    /\ smtpd[p] # 0
    /\ Cardinality({i \in DOMAIN log : log[i] = Line("warning", smtpd[p], p)}) = 1
    /\ Logs("warning", smtpd[p], p)
    /\ UNCHANGED <<bindings, left, up, outside, buffer, store, tailer, seen>>

ClientLeaves(p) ==
    /\ smtpd[p] # 0 /\ smtpd' = [smtpd EXCEPT ![p] = 0]
    /\ UNCHANGED <<bindings, left, up, mail, msg, buffer, log, store, tailer, seen>>

\* recordRejected writes the row, or fails to, and Postfix logs the refusal -
\* the panel still running, which is what answered.
MailRefused(r, t) ==
    /\ up /\ refused[r] = "none" /\ Spend("refusal")
    /\ \E wrote \in {"bare", "unwritten"} :
        /\ wrote = "unwritten" => left["fail"] > 0
        /\ refused' = [refused EXCEPT ![r] = wrote]
    /\ Logs("mail", t, 0)
    /\ UNCHANGED <<bindings, up, outside, buffer, row, place, counted, times, tailer, seen>>

-----------------------------------------------------------------------------
(* The log tailer: refusalLines.                                           *)

Next1 == log[pos + 1]
Handled(kind) == up /\ pos < Len(log) /\ Next1.kind = kind /\ pos' = pos + 1

\* remember: the login of a queue id, and where the line starts.
HandleClient ==
    /\ Handled("client")
    /\ logins' = logins \cup {[of |-> Next1.of, start |-> pos]}
    /\ UNCHANGED <<bindings, left, up, outside, buffer, log, store, caughtUp, recover, pending,
                   failed, last, passedBy, split, late, missed>>

\* cleanup's line: the row is looked for once the panel has had time to
\* write it, and the place is held from the line that named the login.
HandleRefused ==
    /\ Handled("refused")
    /\ LET from == {l.start : l \in {l \in logins : l.of = Next1.of}}
       IN  recover' = recover \cup
              {[of |-> Next1.of, line |-> pos, start |-> IF from = {} THEN pos ELSE Min(from),
                named |-> from # {}]}
    /\ UNCHANGED <<bindings, left, up, outside, buffer, log, store, caughtUp, logins, pending,
                   failed, last, passedBy, split, late, missed>>

\* Mutant: the row is written without looking for one.
RecoversAlways(w) ==
    /\ up /\ w \in recover
    /\ recover' = recover \ {w}
    /\ Inserted(w.of, "recovered", w.named)
    /\ UNCHANGED <<bindings, left, up, outside, buffer, log, refused, place, counted, times,
                   pos, caughtUp, logins, pending, failed, last, seen>>

\* retry, the wait over - and with it that of every line read before:
\* RecoverRefusal writes the row if there is none.
Recovers(w) ==
    /\ up /\ w \in recover /\ \A p \in pending : p.start > w.line
    /\ recover' = recover \ {w}
    /\ late' = IF \E i \in DOMAIN buffer : buffer[i] = w.of THEN late \cup {w.of} ELSE late
    /\ \/ /\ IF row[w.of].own + row[w.of].recovered = 0
             THEN Inserted(w.of, "recovered", w.named) ELSE UNCHANGED row
          /\ UNCHANGED <<left, missed>>
       \/ Spend("fail") /\ missed' = missed \cup {w.of} /\ UNCHANGED row
    /\ UNCHANGED <<bindings, up, outside, buffer, log, refused, place, counted, times,
                   pos, caughtUp, logins, pending, failed, last, passedBy, split>>

OnRow(t) == \E r \in Refusal : refused[r] = t
Bare == {r \in Refusal : refused[r] = "bare"}

\* AttachRefusalLine: a row without a line, the nearest in time, unless the
\* line is on a row already.
Attach(t) == ~ OnRow(t) /\ \E r \in Bare : refused' = [refused EXCEPT ![r] = t]

AttachOrFail(t) ==
    \/ Attach(t) /\ UNCHANGED <<left, missed>>
    \/ Spend("fail") /\ missed' = missed \cup {t} /\ UNCHANGED refused

\* smtpd's line about a refusal at MAIL FROM goes on its row, or waits.
HandleMail ==
    /\ Handled("mail")
    /\ \/ AttachOrFail(Next1.of) /\ UNCHANGED pending
       \/ /\ OnRow(Next1.of) \/ Bare = {}
          /\ pending' = pending \cup {[of |-> Next1.of, start |-> pos]}
          /\ UNCHANGED <<left, missed, refused>>
    /\ UNCHANGED <<bindings, up, outside, buffer, log, row, place, counted, times, caughtUp,
                   logins, recover, failed, last, passedBy, split, late>>

\* retry: attached now, or let go of once its wait is over.
Retries(p) ==
    /\ up /\ p \in pending
    /\ pending' = pending \ {p}
    /\ AttachOrFail(p.of) \/ UNCHANGED <<left, missed, refused>>
    /\ UNCHANGED <<bindings, up, outside, buffer, log, row, place, counted, times, pos, caughtUp,
                   logins, recover, failed, last, passedBy, split, late>>

-----------------------------------------------------------------------------
(* The log tailer: deferredCounter.                                        *)

HandleConnect ==
    /\ Handled("connect")
    /\ failed' = failed \ {Next1.by}
    /\ UNCHANGED <<bindings, left, up, outside, buffer, log, store, caughtUp, logins, recover,
                   pending, last, passedBy, split, late, missed>>

\* AddSenderCheckDeferred: the count and its place in one transaction.
Adds(x) ==
    \/ /\ times' = [times EXCEPT ![x] = @ + 1] /\ counted' = pos + 1
       /\ UNCHANGED <<left, missed>>
    \/ /\ Spend("fail") /\ missed' = missed \cup {x} /\ UNCHANGED <<times, counted>>

CountedAlready == ~ caughtUp /\ pos + 1 <= last

Counts(x) ==
    IF CountedAlready THEN UNCHANGED <<left, times, counted, last, missed>>
    ELSE Adds(x) /\ last' = pos + 1

\* Mutant: every warning is a client.
CountsEach ==
    /\ Handled("warning")
    /\ Counts(Next1.of) /\ failed' = failed \cup {Next1.by}
    /\ UNCHANGED <<bindings, up, outside, buffer, log, row, refused, place, caughtUp, logins,
                   recover, pending, passedBy, split, late>>

\* smtpd's warning: once for the connection.
HandleWarning ==
    /\ Handled("warning")
    /\ failed' = failed \cup {Next1.by}
    /\ IF Next1.by \in failed THEN UNCHANGED <<left, times, counted, last, missed>>
       ELSE Counts(Next1.of)
    /\ UNCHANGED <<bindings, up, outside, buffer, log, row, refused, place, caughtUp, logins,
                   recover, pending, passedBy, split, late>>

\* cleanup's warning: a message in the middle of which the check went away.
HandleBroken ==
    /\ Handled("broken")
    /\ Counts(Next1.of)
    /\ UNCHANGED <<bindings, up, outside, buffer, log, row, refused, place, caughtUp, logins,
                   recover, pending, failed, passedBy, split, late>>

-----------------------------------------------------------------------------
(* The place, stops and starts.                                            *)

\* oldest: no place past what still waits.
Held == Min({pos} \cup {w.start : w \in recover} \cup {p.start : p \in pending})

\* Saved past a client's line before the refusal was read, the place no longer
\* holds the login back.
Saves(p) ==
    /\ place' = p
    /\ passedBy' = passedBy \cup
          {m \in Msg : /\ \E i \in 1 .. p : log[i] = Line("client", m, 0)
                      /\ \A i \in 1 .. pos : log[i] # Line("refused", m, 0)}

\* The end of a pass: caught up, and the place may be saved.
PassEnds ==
    /\ up /\ pos = Len(log)
    /\ caughtUp' = TRUE
    /\ Saves(Held) \/ UNCHANGED <<place, passedBy>>
    /\ <<caughtUp, place>>' # <<caughtUp, place>>
    /\ UNCHANGED <<bindings, left, up, outside, buffer, log, row, refused, counted, times, pos,
                   logins, recover, pending, failed, last, split, late, missed>>

\* The panel goes, with the buffer and what the tailer remembers; a message
\* still waiting for its answer is deferred, as cleanup says.
Goes ==
    /\ up /\ up' = FALSE /\ Spend("stop")
    /\ cache' = NotRead /\ session' = NoSession
    /\ LET cut == {m \in Msg : msg[m] \in {"open", "answer"}} IN
       /\ msg' = [m \in Msg |-> IF m \in cut THEN "done" ELSE msg[m]]
       /\ log' = log \o SetToSeq({Line("broken", m, 0) : m \in cut})
    /\ buffer' = <<>>
    /\ pos' = place' /\ caughtUp' = FALSE /\ logins' = {} /\ recover' = {} /\ pending' = {}
    /\ failed' = {} /\ last' = counted
    /\ UNCHANGED <<table, stamp, blurred, mail, smtpd, row, refused, counted, times, split,
                   late, missed>>

Stops == Saves(Held) /\ Goes
Dies == UNCHANGED <<place, passedBy>> /\ Goes

Warnings(c, is) == {i \in is \cap DOMAIN log : log[i].kind = "warning" /\ log[i].of = c}

\* supervisord starts the panel again; the tailer goes on from the place.
Starts ==
    /\ ~ up /\ up' = TRUE
    /\ split' = split \cup
          {c \in Conn : Warnings(c, 1 .. place) # {}
                        /\ (Warnings(c, place + 1 .. Len(log)) # {} \/ \E p \in Pid : smtpd[p] = c)}
    /\ UNCHANGED <<bindings, left, outside, buffer, log, store, tailer, passedBy, late, missed>>

-----------------------------------------------------------------------------
Tailer ==
    \/ HandleClient \/ HandleRefused \/ HandleMail
    \/ HandleConnect \/ HandleWarning \/ HandleBroken
    \/ \E w \in recover : Recovers(w)
    \/ \E p \in pending : Retries(p)
    \/ PassEnds

Next ==
    \/ \E m \in Msg : Opens(m) \/ Judges(m) \/ Refuses(m) \/ Answers(m) \/ LetsGo(m)
    \/ \E t \in Contents : Panel(t)
    \/ Writes
    \/ \E p \in Pid : (\E c \in Conn : TurnsAway(p, c)) \/ WarnsAgain(p) \/ ClientLeaves(p)
    \/ \E r \in Refusal, t \in Texts : MailRefused(r, t)
    \/ Tailer
    \/ Stops \/ Dies \/ Starts

Spec == Init /\ [][Next]_vars

-----------------------------------------------------------------------------
(* Properties.                                                             *)

\* Each line is held against a table that was in force while it was looked up,
\* however the panel rewrites the file between the check's stat, its read and
\* its next message - unless a rewrite left the file its time and size
\* (tableFile.changed, Bindings.Allowed).
JudgedByTheTable ==
    session.at = "looked" /\ ~ blurred =>
        \E m \in Msg : msg[m] = "open" /\ \E t \in session.since : session.got = Looked(mail[m], t)

AllRead == up /\ caughtUp /\ pos = Len(log) /\ recover = {} /\ pending = {} /\ buffer = <<>>

\* Once the log is read, a message refused to its client has one row in the
\* send log, the panel's or the tailer's, whatever the buffer lost in a stop or
\* for want of room and however often its lines were read - a second one only
\* if the panel wrote its own after the tailer's wait (record, RecoverRefusal).
RefusalHasItsRow ==
    AllRead => \A m \in Msg : msg[m] = "refused" =>
        row[m].own + row[m].recovered \in
            (IF m \in missed THEN 0 ELSE 1) .. (IF m \in late THEN 2 ELSE 1)

\* The tailer's row names the application, unless the place was saved between
\* the client's line and the refusal (refusalLines.oldest, remember).
RecoveredRowIsNamed == \A m \in Msg : row[m].named \/ m \in passedBy

\* A connection turned away, and a message cut short, is counted once, however
\* often its warnings are read - but for a connection the tailer was started
\* again in the middle of (deferredCounter.handle, countedAlready).
TurnedAwayCountedOnce ==
    AllRead => \A i \in DOMAIN log : log[i].kind \in {"warning", "broken"} =>
        times[log[i].of] \in
            (IF log[i].of \in missed THEN 0 ELSE 1) .. (IF log[i].of \in split THEN 2 ELSE 1)

\* Postfix's line about a refusal at MAIL FROM ends on one row and no other,
\* if every such row could be written (AttachRefusalLine, retry).
LineOnOneRow ==
    AllRead /\ (\A r \in Refusal : refused[r] # "unwritten") =>
        \A i \in DOMAIN log : log[i].kind = "mail" /\ log[i].of \notin missed =>
            Cardinality({r \in Refusal : refused[r] = log[i].of}) = 1
=============================================================================
