--------------------------- MODULE JournalMilter ---------------------------
(***************************************************************************)
(* The journal milter of the panel (internal/milter): the level-2 rate     *)
(* limit that is enforced at MAIL FROM and the "queued" rows written at    *)
(* end-of-message.  Every Postfix smtpd process holds one milter           *)
(* connection, each served by a goroutine of its own with a session of its *)
(* own; the sessions share the send log (SQLite) and the registry of       *)
(* messages in flight.  A step of the model is one store call or one       *)
(* critical section of the registry, so sessions interleave between them.  *)
(*                                                                         *)
(* A message is numbered at its MAIL FROM; the number stands both for the  *)
(* pointer of its reservation and for the queue id Postfix gives it.       *)
(* Envelope sender, subject and log texts are left out: no decision of the *)
(* milter depends on them.                                                 *)
(***************************************************************************)
EXTENDS Integers, FiniteSets

CONSTANTS
    Session,        \* milter connections
    Login, NoLogin, \* SASL logins, registered or not; no authentication
    Domain,         \* sending domains
    DomainOf,       \* the domain of a registered login, NoDomain for another
    NoDomain,
    IP,             \* client addresses
    NoIP,           \* an address the milter was not given
    AllowedFrom,    \* applications.auth_ips of a login, {} without a list
    Rcpt, NoRcpt,   \* recipients; the "" recorded when none was seen
    Ceilings,       \* values the panel may give max_messages, 0 for no limit
    Window,         \* window_seconds of every limit
    TTL,            \* reservationTTL
    Edited,         \* keys whose limit the panel changes while mail comes in
    StoreMayFail,   \* whether a store call may return an error
    MaxMsgs,        \* bound: messages begun
    MaxTime         \* bound: clock

ASSUME BoundAssumption == MaxMsgs \in Nat /\ MaxTime \in Nat

ASSUME LimitAssumption ==
    /\ Window \in Nat \ {0} /\ TTL \in Nat
    /\ Ceilings \subseteq Nat
    /\ Edited \subseteq Login \cup Domain

ASSUME NameAssumption ==
    /\ DomainOf \in [Login -> Domain \cup {NoDomain}]
    /\ AllowedFrom \in [Login -> SUBSET IP]
    /\ NoDomain \notin Domain \cup Login
    /\ NoLogin \notin Login
    /\ NoIP \notin IP

ASSUME StoreMayFail \in BOOLEAN

Msg == 1 .. MaxMsgs
Key == Login \cup Domain    \* a limit's scope and reference
Time == 0 .. MaxTime

NoKey == NoDomain

VARIABLES
    now,        \* wall clock
    serial,     \* messages begun so far
    limit,      \* rate_limits: max_messages of each key, 0 when there is none
    log,        \* send_log: one row per message and recipient, or refusal
    flight,     \* inflight.m: the reservations held, by message
    res,        \* the reservation of a message: its key and when it was made
    pc,         \* where a session's goroutine stands
    ip,         \* session.clientIP
    login,      \* session.login
    rcpts,      \* session.rcpts
    slots,      \* session.reserved
    cur,        \* the message a session is about
    key,        \* the key overLimit chose for it, NoKey when none
    max,        \* the ceiling read for that key
    since,      \* start of the window enforceLimit counts in
    stored,     \* what CountMessages answered
    todo,       \* recipients record has still to write
    \* What an observer knows and the program does not:
    peer,       \* the address the client really has
    failed,     \* a store call of this MAIL FROM returned an error
    stale,      \* a message of the key was recorded after CountMessages
    leaked      \* reservations whose connection ended without a callback

sessionVars == <<pc, ip, login, rcpts, slots, cur, key, max, since, stored, todo>>
observed == <<peer, failed, stale, leaked>>
shared == <<now, serial, limit, log, flight, res>>
vars == <<shared, sessionVars, observed>>

Row == [msg : 0 .. MaxMsgs, login : Login \cup {NoLogin}, rcpt : Rcpt \cup {NoRcpt},
        at : Time, status : {"queued", "rejected"}]
Reservation == [key : Key \cup {NoKey}, at : Time]

Steps == {"down", "idle", "applimit", "domlimit", "count", "admit",
          "open", "record", "release"}

SharedTypeOK ==
    /\ now \in Time
    /\ serial \in 0 .. MaxMsgs
    /\ limit \in [Key -> Ceilings \cup {0}]
    /\ log \subseteq Row
    /\ flight \subseteq Msg
    /\ res \in [Msg -> Reservation]

MessageTypeOK ==
    /\ pc \in [Session -> Steps]
    /\ ip \in [Session -> IP \cup {NoIP}]
    /\ login \in [Session -> Login \cup {NoLogin}]
    /\ rcpts \in [Session -> SUBSET Rcpt]
    /\ slots \in [Session -> SUBSET Msg]
    /\ cur \in [Session -> 0 .. MaxMsgs]
    /\ todo \in [Session -> SUBSET (Rcpt \cup {NoRcpt})]
    /\ \A s \in Session : pc[s] = "record" => todo[s] # {}

LimitTypeOK ==
    /\ key \in [Session -> Key \cup {NoKey}]
    /\ max \in [Session -> Nat]
    /\ since \in [Session -> Int]
    /\ stored \in [Session -> Nat]

ObservedTypeOK ==
    /\ peer \in [Session -> IP \cup {NoIP}]
    /\ failed \in [Session -> BOOLEAN]
    /\ stale \in [Session -> BOOLEAN]
    /\ leaked \subseteq Msg

\* Every variable has its type, and record is never left with nothing to write:
\* a message without recipients still gets a row (record).
TypeOK == SharedTypeOK /\ MessageTypeOK /\ LimitTypeOK /\ ObservedTypeOK

Init ==
    /\ now = 0 /\ serial = 0
    /\ limit \in [Key -> Ceilings \cup {0}]
    /\ log = {} /\ flight = {}
    /\ res = [m \in Msg |-> [key |-> NoKey, at |-> 0]]
    /\ pc = [s \in Session |-> "down"]
    /\ ip = [s \in Session |-> NoIP]
    /\ login = [s \in Session |-> NoLogin]
    /\ rcpts = [s \in Session |-> {}]
    /\ slots = [s \in Session |-> {}]
    /\ cur = [s \in Session |-> 0]
    /\ key = [s \in Session |-> NoKey]
    /\ max = [s \in Session |-> 0]
    /\ since = [s \in Session |-> 0]
    /\ stored = [s \in Session |-> 0]
    /\ todo = [s \in Session |-> {}]
    /\ peer = [s \in Session |-> NoIP]
    /\ failed = [s \in Session |-> FALSE]
    /\ stale = [s \in Session |-> FALSE]
    /\ leaked = {}

-----------------------------------------------------------------------------
(* The store and the registry.                                             *)

\* loginDomain: "" without a login or for a login that is no application's.
LoginDomain(l) == IF l \in Login THEN DomainOf[l] ELSE NoDomain

\* Whether a row counts against a key: an application's rows are its login's,
\* a domain's are those of every login of the domain.
CountsFor(r, k) == k \in {r.login, LoginDomain(r.login)}

\* Mutant: refusals are counted with the messages that were sent.
StoredSinceWithRefusals(k, t) ==
    {r.msg : r \in {x \in log : CountsFor(x, k) /\ x.at >= t}}

\* The messages CountMessages counts: distinct queue ids, refusals left out.
StoredSince(k, t) ==
    {r.msg : r \in {x \in log : x.status = "queued" /\ CountsFor(x, k) /\ x.at >= t}}

\* The reservations countLocked keeps: those older than the TTL are pruned.
Unexpired == {m \in flight : res[m].at >= now - TTL}

\* Mutant: the registry is not asked, as before there was one.
NoneHeldSince(k, t) == {}

\* The reservations countLocked counts for a key, of those it keeps.
HeldSince(k, t) == {m \in Unexpired : res[m].key = k /\ res[m].at >= t}

\* The registry after countLocked(k): expired reservations of k are gone.
Pruned(k) == {m \in flight : res[m].key = k => m \in Unexpired}

\* Mutant: the address list is satisfied by an address that is not known.
AllowsUnknownIP(l, a) == l \in Login /\ DomainOf[l] # NoDomain /\ AllowedFrom[l] # {}
                            => a \in AllowedFrom[l] \cup {NoIP}

\* authIPAllowed, of a store that answers: no login, no such application and
\* an application without a list pass; a list is not satisfied by NoIP.
AuthIPAllowed(l, a) == l \in Login /\ DomainOf[l] # NoDomain /\ AllowedFrom[l] # {}
                            => a \in AllowedFrom[l]

-----------------------------------------------------------------------------
(* What a session does between two packets, and inside one.                *)

Goto(s, step) == pc' = [pc EXCEPT ![s] = step]

\* The locals of MAIL FROM go when its handler ends.
DropLocals(s) ==
    /\ max' = [max EXCEPT ![s] = 0]
    /\ since' = [since EXCEPT ![s] = 0]
    /\ stored' = [stored EXCEPT ![s] = 0]
    /\ stale' = [stale EXCEPT ![s] = FALSE]

KeepLocals == UNCHANGED <<max, since, stored, stale>>

\* go-milter puts a new, empty session in place of the one that replied
\* anything but "continue".  Connect is not called again.
NewMilter(s) ==
    /\ ip' = [ip EXCEPT ![s] = NoIP]
    /\ login' = [login EXCEPT ![s] = NoLogin]
    /\ rcpts' = [rcpts EXCEPT ![s] = {}]
    /\ slots' = [slots EXCEPT ![s] = {}]
    /\ cur' = [cur EXCEPT ![s] = 0]
    /\ key' = [key EXCEPT ![s] = NoKey]
    /\ todo' = [todo EXCEPT ![s] = {}]
    /\ failed' = [failed EXCEPT ![s] = FALSE]

\* A new connection.  Postfix names the client, or says "unknown".
Connect(s) ==
    /\ pc[s] = "down"
    /\ \E a \in IP \cup {NoIP} :
         /\ peer' = [peer EXCEPT ![s] = a]
         /\ \E given \in {a, NoIP} : ip' = [ip EXCEPT ![s] = given]
    /\ Goto(s, "idle")
    /\ KeepLocals
    /\ UNCHANGED <<shared, login, rcpts, slots, cur, key, todo, failed, leaked>>

\* Mutant: the slots are forgotten by the session and left in the registry.
ForgottenSlots(s) == flight

\* The registry after releaseReservations.
Released(s) == flight \ slots[s]

\* recordRejected: a row without a queue id; the write is best-effort.
RecordRejected(l) ==
    \/ log' = log \cup {[msg |-> 0, login |-> l, rcpt |-> NoRcpt,
                         at |-> now, status |-> "rejected"]}
    \/ StoreMayFail /\ UNCHANGED log

\* A 4xx reply: the refusal is recorded and the session is replaced.
TempFail(s, l) ==
    /\ RecordRejected(l)
    /\ NewMilter(s)
    /\ Goto(s, "idle")
    /\ DropLocals(s)
    /\ UNCHANGED <<now, limit, res, peer, leaked>>

\* A store call of MAIL FROM that answers, or fails and is noted.
StoreAnswers(s) == UNCHANGED failed
StoreFails(s) == StoreMayFail /\ failed' = [failed EXCEPT ![s] = TRUE]

\* The handler goes on: nothing shared has changed.
Proceed(s, step) ==
    /\ Goto(s, step)
    /\ UNCHANGED <<shared, ip, login, rcpts, slots, cur, todo, peer, leaked>>

\* The handler has passed the message without a reservation.
PassUnlimited(s) == Proceed(s, "open") /\ DropLocals(s)

\* The client may send for login l from address a, as far as the store knows:
\* the handler goes on with the per-message state of a new message.
ClientPasses(s, l, a) ==
    /\ \/ AuthIPAllowed(l, a) /\ failed' = [failed EXCEPT ![s] = FALSE]
       \/ l # NoLogin /\ StoreFails(s)
    /\ slots' = [slots EXCEPT ![s] = {}]
    /\ ip' = [ip EXCEPT ![s] = a]
    /\ login' = [login EXCEPT ![s] = l]
    /\ rcpts' = [rcpts EXCEPT ![s] = {}]
    /\ cur' = [cur EXCEPT ![s] = serial + 1]
    /\ key' = [key EXCEPT ![s] = NoKey]
    /\ Goto(s, "applimit")
    /\ KeepLocals
    /\ UNCHANGED <<now, limit, log, res, todo, peer, leaked>>

\* MAIL FROM up to authIPAllowed: a message begins, with whatever an earlier
\* one left over given back.  The {client_addr} macro, when it names an
\* address, is the client's.
MailFrom(s) ==
    /\ pc[s] \in {"idle", "open"}
    /\ serial < MaxMsgs
    /\ serial' = serial + 1
    /\ flight' = Released(s)
    /\ \E l \in Login \cup {NoLogin}, a \in {ip[s], peer[s]} :
         \/ ClientPasses(s, l, a)
         \/ ~AuthIPAllowed(l, a) /\ TempFail(s, l)

\* The ceiling the milter reads for a key, 0 for none: RateLimit joins the
\* application's or the domain's row, so what is not registered has none.
Ceiling(k) == IF k \in Domain \/ LoginDomain(k) # NoDomain THEN limit[k] ELSE 0

\* A limit was found for k: enforceLimit is called with it.
Enforce(s, k) ==
    /\ key' = [key EXCEPT ![s] = k]
    /\ max' = [max EXCEPT ![s] = Ceiling(k)]
    /\ Proceed(s, "count")
    /\ UNCHANGED <<since, stored, stale>>

\* overLimit, first half: an application's own ceiling, when it has one, is the
\* only one enforced; a lookup error falls through to the domain's.
AppLimit(s) ==
    /\ pc[s] = "applimit"
    /\ \/ /\ login[s] = NoLogin
          /\ PassUnlimited(s) /\ StoreAnswers(s) /\ UNCHANGED key
       \/ /\ login[s] # NoLogin /\ Ceiling(login[s]) > 0
          /\ Enforce(s, login[s]) /\ StoreAnswers(s)
       \/ /\ login[s] # NoLogin
          /\ \/ Ceiling(login[s]) = 0 /\ StoreAnswers(s)
             \/ StoreFails(s)
          /\ Proceed(s, "domlimit") /\ UNCHANGED key /\ KeepLocals

\* overLimit, second half: the domain of the login, never of the envelope.
DomainLimit(s) ==
    LET d == LoginDomain(login[s]) IN
    /\ pc[s] = "domlimit"
    /\ \/ /\ Ceiling(d) > 0
          /\ Enforce(s, d) /\ StoreAnswers(s)
       \/ /\ \/ Ceiling(d) = 0 /\ StoreAnswers(s)
             \/ StoreFails(s)
          /\ PassUnlimited(s) /\ UNCHANGED key

\* enforceLimit's CountMessages; an error lets the message pass uncounted.
CountMessages(s) ==
    /\ pc[s] = "count"
    /\ \/ /\ since' = [since EXCEPT ![s] = now - Window]
          /\ stored' = [stored EXCEPT ![s] = Cardinality(StoredSince(key[s], now - Window))]
          /\ stale' = [stale EXCEPT ![s] = FALSE]
          /\ Proceed(s, "admit") /\ StoreAnswers(s)
          /\ UNCHANGED <<key, max>>
       \/ PassUnlimited(s) /\ StoreFails(s) /\ UNCHANGED key

\* What tryAdmit weighs: the stored count it was handed and the reservations
\* it counts itself.
Total(s) == stored[s] + Cardinality(HeldSince(key[s], since[s]))

Admit(s) ==
    /\ Total(s) < max[s]
    /\ flight' = Pruned(key[s]) \cup {cur[s]}
    /\ res' = [res EXCEPT ![cur[s]] = [key |-> key[s], at |-> now]]
    /\ slots' = [slots EXCEPT ![s] = @ \cup {cur[s]}]
    /\ Goto(s, "open")
    /\ DropLocals(s)
    /\ UNCHANGED <<now, serial, limit, log, ip, login, rcpts, cur, key, todo,
                   peer, failed, leaked>>

Refuse(s) ==
    /\ Total(s) >= max[s]
    /\ flight' = Pruned(key[s])
    /\ TempFail(s, login[s])
    /\ UNCHANGED serial

\* tryAdmit, in one critical section: count, then take the slot or refuse.
TryAdmit(s) == pc[s] = "admit" /\ (Admit(s) \/ Refuse(s))

\* RCPT TO: a recipient given twice is kept once.
RcptTo(s) ==
    /\ pc[s] = "open"
    /\ \E r \in Rcpt \ rcpts[s] : rcpts' = [rcpts EXCEPT ![s] = @ \cup {r}]
    /\ KeepLocals
    /\ UNCHANGED <<shared, pc, ip, login, slots, cur, key, todo, peer, failed, leaked>>

\* The recipients record loops over: one "" when none was seen.
RowsToWrite(s) == IF rcpts[s] = {} THEN {NoRcpt} ELSE rcpts[s]

\* Mutant: the slots go back before the rows are written.
BodyReleasesFirst(s) ==
    /\ pc[s] = "open"
    /\ todo' = [todo EXCEPT ![s] = RowsToWrite(s)]
    /\ flight' = Released(s)
    /\ slots' = [slots EXCEPT ![s] = {}]
    /\ Goto(s, "record")
    /\ KeepLocals
    /\ UNCHANGED <<now, serial, limit, log, res, ip, login, rcpts, cur, key, peer,
                   failed, leaked>>

\* End of message: record is called.
Body(s) ==
    /\ pc[s] = "open"
    /\ todo' = [todo EXCEPT ![s] = RowsToWrite(s)]
    /\ Goto(s, "record")
    /\ KeepLocals
    /\ UNCHANGED <<shared, ip, login, rcpts, slots, cur, key, peer, failed, leaked>>

\* One InsertQueued of record's loop.  An error is logged and the loop goes on.
Record(s) ==
    /\ pc[s] = "record"
    /\ \E r \in todo[s] :
         LET row == [msg |-> cur[s], login |-> login[s], rcpt |-> r,
                     at |-> now, status |-> "queued"] IN
         /\ todo' = [todo EXCEPT ![s] = @ \ {r}]
         /\ Goto(s, IF todo[s] = {r} THEN "release" ELSE "record")
         /\ \/ /\ log' = log \cup {row}
               /\ stale' = [t \in Session |->
                     IF pc[t] = "admit" /\ CountsFor(row, key[t]) THEN TRUE ELSE stale[t]]
            \/ StoreMayFail /\ UNCHANGED <<log, stale>>
    /\ UNCHANGED <<now, serial, limit, flight, res, ip, login, rcpts, slots, cur,
                   key, max, since, stored, peer, failed, leaked>>

\* The transaction is over and the session waits for the next one.
EndTransaction(s) ==
    /\ flight' = Released(s)
    /\ slots' = [slots EXCEPT ![s] = {}]
    /\ cur' = [cur EXCEPT ![s] = 0]
    /\ key' = [key EXCEPT ![s] = NoKey]
    /\ failed' = [failed EXCEPT ![s] = FALSE]
    /\ Goto(s, "idle")
    /\ KeepLocals
    /\ UNCHANGED <<now, serial, limit, log, res, ip, login, todo, peer, leaked>>

\* The last thing Body does: the rows are written, the slot goes back.
Release(s) ==
    /\ pc[s] = "release"
    /\ EndTransaction(s) /\ UNCHANGED rcpts

\* ABORT: a transaction ends without an end-of-message.
Abort(s) ==
    /\ pc[s] \in {"idle", "open"}
    /\ EndTransaction(s)
    /\ rcpts' = [rcpts EXCEPT ![s] = {}]

\* QUIT or a lost connection: go-milter calls nothing.
Disconnect(s) ==
    /\ pc[s] \in {"idle", "open"}
    /\ leaked' = leaked \cup slots[s]
    /\ peer' = [peer EXCEPT ![s] = NoIP]
    /\ NewMilter(s)
    /\ Goto(s, "down")
    /\ KeepLocals
    /\ UNCHANGED shared

\* The panel process dies: sessions and registry go, the send log stays.
Crash ==
    /\ flight' = {} /\ leaked' = {}
    /\ pc' = [s \in Session |-> "down"]
    /\ ip' = [s \in Session |-> NoIP]
    /\ login' = [s \in Session |-> NoLogin]
    /\ rcpts' = [s \in Session |-> {}]
    /\ slots' = [s \in Session |-> {}]
    /\ cur' = [s \in Session |-> 0]
    /\ key' = [s \in Session |-> NoKey]
    /\ max' = [s \in Session |-> 0]
    /\ since' = [s \in Session |-> 0]
    /\ stored' = [s \in Session |-> 0]
    /\ todo' = [s \in Session |-> {}]
    /\ peer' = [s \in Session |-> NoIP]
    /\ failed' = [s \in Session |-> FALSE]
    /\ stale' = [s \in Session |-> FALSE]
    /\ UNCHANGED <<now, serial, limit, log, res>>

\* SetRateLimit and DeleteRateLimit, from the panel's pages, at any moment.
SetRateLimit(k) ==
    /\ \E c \in (Ceilings \cup {0}) \ {limit[k]} : limit' = [limit EXCEPT ![k] = c]
    /\ UNCHANGED <<now, serial, log, flight, res, sessionVars, observed>>

Tick ==
    /\ now < MaxTime
    /\ now' = now + 1
    /\ UNCHANGED <<serial, limit, log, flight, res, sessionVars, observed>>

Next ==
    \/ \E s \in Session :
         \/ Connect(s) \/ MailFrom(s) \/ AppLimit(s)
         \/ DomainLimit(s) \/ CountMessages(s) \/ TryAdmit(s) \/ RcptTo(s)
         \/ Body(s) \/ Record(s) \/ Release(s) \/ Abort(s) \/ Disconnect(s)
    \/ \E k \in Edited : SetRateLimit(k)
    \/ Crash
    \/ Tick

Spec == Init /\ [][Next]_vars

-----------------------------------------------------------------------------
(* Properties.                                                             *)

\* Sessions whose message has passed MAIL FROM under k and has not ended.
InTransaction(k) == {s \in Session : pc[s] \in {"open", "record", "release"} /\ key[s] = k}

\* The messages of k that were accepted and recorded since t.
RecordedIn(rows, k, t) ==
    {m \in Msg : \E r \in rows : r.msg = m /\ r.at >= t /\ CountsFor(r, k)}
Recorded(k, t) == RecordedIn(log, k, t)

\* The messages that have spent a slot of k: recorded since t, or under way.
Spent(k, t) == Recorded(k, t) \cup {cur[s] : s \in InTransaction(k)}

\* A message under way whose slot tryAdmit does not see: it was let through on
\* a store error, or its reservation is older than the TTL or than the window.
Unseen(s, t) == failed[s] \/ res[cur[s]].at < now - TTL \/ res[cur[s]].at < t

Admits(s) == pc[s] = "admit" /\ pc'[s] = "open"
Refuses(s) == pc[s] = "admit" /\ pc'[s] = "idle"

\* A message is let past its ceiling only for a reason: another message was
\* recorded between CountMessages and tryAdmit, or one under way has no slot
\* that counts.  In every other interleaving of sessions, whatever was
\* aborted, refused or cut off before, the messages recorded in the window and
\* those still being received leave room for this one (enforceLimit, tryAdmit).
AdmittedWithinCeiling == [][
    \A s \in Session : Admits(s) =>
        \/ Cardinality(Spent(key[s], since[s])) < max[s]
        \/ stale[s]
        \/ \E t \in InTransaction(key[s]) : Unseen(t, since[s])]_vars

\* A refusal is never caused by a slot nobody holds: the ceiling is reached by
\* messages that are recorded, under way, or were cut off no longer than the
\* TTL ago (enforceLimit, tryAdmit, releaseReservations).
RefusedOnlyAtCeiling == [][
    \A s \in Session : Refuses(s) =>
        Cardinality(Recorded(key[s], since[s]))
          + Cardinality({cur[t] : t \in InTransaction(key[s])}
                          \cup {m \in leaked : res[m].key = key[s] /\ res[m].at >= now - TTL})
        >= max[s]]_vars

\* Every reservation in the registry is one a live session will give back, or
\* one of a connection that broke: none is lost when go-milter replaces the
\* session that held it (TempFail, MailFrom, Abort).
NoOrphanReservation ==
    \A m \in flight : m \in leaked \/ \E s \in Session : m \in slots[s]

\* A message an application with an address list has under way comes from an
\* address of the list, unless the store failed: neither a session replaced in
\* mid-connection nor a macro Postfix did not send lets another one in.
ClientListHolds ==
    \A s \in Session :
        (pc[s] \in {"open", "record", "release"} /\ ~failed[s])
            => \/ LoginDomain(login[s]) = NoDomain
               \/ AllowedFrom[login[s]] = {}
               \/ peer[s] \in AllowedFrom[login[s]]

=============================================================================
