--------------------------- MODULE SenderBindings ---------------------------
(***************************************************************************)
(* The sender check's judgement (internal/milter/sender.go): the From:     *)
(* line of a message, and its Sender: line when there is one, held against *)
(* the file of sender bindings, which the panel rewrites under the check   *)
(* and the check reads again when its time or size has changed.            *)
(*                                                                         *)
(* A lookup holds the mutex of Bindings, so one session stands for all.    *)
(* A stamp is the file's time and size; what a line is in RFC 5322's       *)
(* grammar is an address, or NotOne.                                       *)
(***************************************************************************)
EXTENDS Naturals, Sequences, FiniteSets, FiniteSetsExt

CONSTANTS
    AnyLocal, NoExt,     \* the local part of "@domain", and no "+extension"
    NotOne,         \* a line that is not one address
    NoLogin,        \* a session that did not authenticate
    Tables,         \* what the file may hold: senders with their logins
    Missing,        \* the file cannot be read
    Doubled,        \* it gives a sender twice: Postfix refuses the whole table
    Mails           \* what a client may send: its login and its lines

ASSUME BindingsConstants ==
    /\ \A t \in Tables : t \notin {Missing, Doubled} /\ DOMAIN t # {}
    /\ \A x \in Mails : Len(x.from) <= 2 /\ Len(x.sender) <= 2

VARIABLES
    table, stamp,   \* the file
    cache,          \* Bindings: what was read last, under which stamp
    session,        \* the session judging a message
    blurred         \* the file was rewritten under one stamp

bindings == <<table, stamp, cache, session, blurred>>

Contents == Tables \cup {Missing, Doubled}
Stamps == 1 .. 4
NotRead == [table |-> Missing, stamp |-> 0]
NoSession == [at |-> "none", line |-> "from", read |-> 0, got |-> "", since |-> {}]

(* Init of the check: the file is there, nothing is read yet. *)
BindingsInit ==
    /\ table \in Tables /\ stamp = 1
    /\ cache = NotRead /\ session = NoSession /\ blurred = FALSE

-----------------------------------------------------------------------------
(* The lookup Postfix makes: the owners of the first key in the table.     *)

Keys(a) == <<a, [a EXCEPT !.ext = NoExt], [a EXCEPT !.local = AnyLocal, !.ext = NoExt]>>

Allowed(t, login, a) ==
    LET found == {i \in 1 .. 3 : Keys(a)[i] \in DOMAIN t}
    IN  found # {} /\ login \in t[Keys(a)[Min(found)]]

Answer(t, login, a) ==
    IF t \in {Missing, Doubled} THEN "defer"
    ELSE IF Allowed(t, login, a) THEN "pass" ELSE "refuse"

-----------------------------------------------------------------------------
(* A message's lines.                                                      *)

\* judge, before a line is looked up: it must be one line of one address.
LineTaken(s, mail, line) ==
    IF Len(mail[line]) # 1 \/ mail[line] = <<NotOne>>
    THEN [s EXCEPT !.at = "judged", !.got = "refuse"]
    ELSE [s EXCEPT !.at = "stat", !.line = line]

\* Headers: a session without a login is refused.
JudgeBegins(mail) ==
    session' = IF mail.login = NoLogin
               THEN [NoSession EXCEPT !.at = "judged", !.got = "refuse"]
               ELSE LineTaken(NoSession, mail, "from")

Looked(mail, t) == Answer(t, mail.login, mail[session.line][1])

\* tableFile.changed, its first half: what was read last still stands, or the
\* file is to be read.
Stat(mail) ==
    /\ session.at = "stat"
    /\ session' = [session EXCEPT
          !.since = {table},
          !.at = IF table = Missing \/ cache.stamp = stamp THEN "looked" ELSE "read",
          !.read = IF table = Missing \/ cache.stamp = stamp THEN 0 ELSE stamp,
          !.got = IF table = Missing THEN "defer"
                  ELSE IF cache.stamp = stamp THEN Looked(mail, cache.table) ELSE ""]
    /\ UNCHANGED <<table, stamp, cache, blurred>>

\* Mutant: the stamp is taken after the reading, with the file's content of before.
ReadThenStat(mail) ==
    /\ session.at = "read"
    /\ \E t \in session.since \ {Missing} :
        /\ cache' = [table |-> t, stamp |-> stamp]
        /\ session' = [session EXCEPT !.at = "looked", !.read = 0, !.got = Looked(mail, t)]
    /\ UNCHANGED <<table, stamp, blurred>>

\* The second half: the file as it is now, kept under the stamp of before.
Read(mail) ==
    /\ session.at = "read"
    /\ session' = [session EXCEPT !.at = "looked", !.read = 0, !.got = Looked(mail, table)]
    /\ cache' = IF table = Missing THEN cache ELSE [table |-> table, stamp |-> session.read]
    /\ UNCHANGED <<table, stamp, blurred>>

\* judge: after From: the Sender: line, if the message has one.
LineJudged(mail) ==
    /\ session.at = "looked"
    /\ session' =
          LET s == [session EXCEPT !.since = {}] IN
          IF session.got # "pass" \/ session.line = "sender" \/ mail.sender = <<>>
          THEN [s EXCEPT !.at = "judged"]
          ELSE LineTaken([s EXCEPT !.got = ""], mail, "sender")
    /\ UNCHANGED <<table, stamp, cache, blurred>>

\* The panel rewrites the file by a rename: a new time, unless the two
\* rewrites fall in one tick of the clock and are of one size.
Rewrite(t) ==
    /\ t # table
    /\ table' = t
    /\ \/ stamp' = Min(Stamps \ {stamp, cache.stamp, session.read}) /\ UNCHANGED blurred
       \/ Missing \notin {t, table} /\ UNCHANGED stamp /\ blurred' = TRUE
    /\ session' = IF session.at = "read" THEN [session EXCEPT !.since = @ \cup {t}] ELSE session
    /\ UNCHANGED cache
=============================================================================
