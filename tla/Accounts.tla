------------------------------ MODULE Accounts ------------------------------
(***************************************************************************)
(* Panel users, their sessions, one-time links and passwords               *)
(* (internal/web/auth, the users and account handlers, store/users.go,     *)
(* store/userlinks.go, store/sessions.go).  Requests run beside each       *)
(* other: each reads rows, hashes a password or mails a link, and writes   *)
(* in statements or transactions of its own, which are the steps here.     *)
(* Passwords, session tokens and links are numbers, new ones nobody knows. *)
(* A refusal that changes nothing - a wrong password, an invalid field, a  *)
(* limit on attempts or mails - is a request that does not begin.          *)
(***************************************************************************)
EXTENDS Integers, FiniteSets, FiniteSetsExt

CONSTANTS
    Ids,          \* ids of users, given in order and never again
    Addrs,        \* e-mail addresses
    NoAddr,       \* the empty one
    Reqs,         \* requests and mailing goroutines under way at once
    None,
    MaxRequests,  \* bound: requests begun
    MaxFaults     \* bound: calls that fail, and kills

ASSUME AccountsConstants ==
    /\ IsFiniteSet(Ids) /\ Ids = 1..Cardinality(Ids) /\ {1, 2} \subseteq Ids
    /\ NoAddr \notin Addrs /\ Addrs # {} /\ IsFiniteSet(Reqs)
    /\ MaxRequests \in Nat /\ MaxFaults \in Nat

VARIABLES
    users,    \* table users: id -> row, or None
    sessions, \* table sessions: token -> its user, and, for the properties, the
              \* password it was opened by and whether an ending of sessions was
              \* not to, or could not, end it
    links,    \* table user_links: token -> user, purpose and address; whether it
              \* was mailed, and whether within resetSpacing
    ids,      \* the last id given
    req,      \* requests under way
    firsts,   \* history: users made by the setup page
    proven,   \* history: users a link was opened for by one signed in, and its address
    bounds    \* requests begun, and faults

base    == <<users, sessions, links>>
history == <<firsts, proven>>
vars    == <<base, ids, req, history, bounds>>

Roles == {"global", "domain"}
Emails == Addrs \cup {NoAddr}
UserRow == [role : Roles, email : Emails, confirmed : BOOLEAN, pw : Nat \ {0}]

\* A user who is not there is told from every row.
ASSUME NoneIsNoUser == None \notin UserRow

User(role, email, confirmed, pw) == [role |-> role, email |-> email, confirmed |-> confirmed, pw |-> pw]
Exists(u) == users[u] # None
Known == {u \in Ids : Exists(u)}
SessionsOf(u) == {s \in DOMAIN sessions : sessions[s].user = u}
LinksOf(u, purpose) == {l \in DOMAIN links : links[l].user = u /\ links[l].purpose = purpose}
Without(f, S) == [x \in DOMAIN f \ S |-> f[x]]
With(f, x, y) == [z \in DOMAIN f \cup {x} |-> IF z = x THEN y ELSE f[z]]

Idle == [op |-> "none", at |-> "idle", user |-> 0, was |-> NoAddr, by |-> 0, link |-> 0,
         hash |-> 0, pw |-> FALSE, email |-> NoAddr, role |-> "domain"]
At(p, stage) == req[p].at = stage
Goes(p, stage) == req' = [req EXCEPT ![p].at = stage]
Ends(p) == req' = [req EXCEPT ![p] = Idle]

Begins(p, r) ==
    /\ At(p, "idle") /\ bounds.requests < MaxRequests
    /\ bounds' = [bounds EXCEPT !.requests = @ + 1]
    /\ req' = [req EXCEPT ![p] = r]

\* What a request is to do, and for whom.
Asks(op, at, u, by) == [Idle EXCEPT !.op = op, !.at = at, !.user = u, !.by = by]

\* Numbers no row and no request holds.
New(used) == CHOOSE n \in 1..(Cardinality(used) + 1) : n \notin used
NewToken == New(DOMAIN sessions \cup {req[p].by : p \in Reqs})
NewLinkToken == New(DOMAIN links \cup {req[p].link : p \in Reqs})
NewPassword == New({users[u].pw : u \in Known} \cup {sessions[s].pw : s \in DOMAIN sessions}
                   \cup {req[p].hash : p \in Reqs})

----------------------------------------------------------------------------
(* Signing in and out.  A session is looked up by every request            *)
(* (RequireAuth); Global is the check of the users pages (requireGlobal).  *)

SignedIn(s) == s \in DOMAIN sessions /\ Exists(sessions[s].user)
Global(s) == SignedIn(s) /\ users[sessions[s].user].role = "global"

SubmitLogin(p) ==
    /\ \E u \in Known : Begins(p, [Asks("login", "create", u, 0) EXCEPT !.hash = users[u].pw])
    /\ UNCHANGED <<base, ids, history>>

\* The session the browser presents ends, and a new one is made: of the user
\* read before the password was compared.
CreateSession(p) ==
    /\ At(p, "create")
    /\ LET r == req[p] IN
         \E old \in {{}} \cup {{s} : s \in DOMAIN sessions} :
           sessions' =
             IF Exists(r.user)
             THEN With(Without(sessions, old), NewToken,
                       [user |-> r.user, pw |-> r.hash, spared |-> users[r.user].pw # r.hash])
             ELSE Without(sessions, old)
    /\ Ends(p)
    /\ UNCHANGED <<users, links, ids, history, bounds>>

EndSession == \E s \in DOMAIN sessions : sessions' = Without(sessions, {s})

Logout == EndSession /\ UNCHANGED <<users, links, ids, req, history, bounds>>

\* Not used for its idle time, and looked up then, or swept up by a sign-in.
SessionExpires == EndSession /\ UNCHANGED <<users, links, ids, req, history, bounds>>

----------------------------------------------------------------------------
(* The setup page, open while there is no user.                            *)

SetupOpen == Known = {}

SubmitSetup(p) ==
    /\ SetupOpen
    /\ Begins(p, [Idle EXCEPT !.op = "setup", !.at = "first"])
    /\ UNCHANGED <<base, ids, history>>

NewUser(u, row) == users' = [users EXCEPT ![u] = row] /\ ids' = u

CreateGlobalUser(p) ==
    /\ At(p, "first")
    /\ IF Known = {} /\ ids + 1 \in Ids
       THEN /\ NewUser(ids + 1, User("global", NoAddr, FALSE, NewPassword))
            /\ firsts' = firsts + 1
       ELSE UNCHANGED <<users, ids, firsts>>
    /\ Ends(p)
    /\ UNCHANGED <<sessions, links, proven, bounds>>

----------------------------------------------------------------------------
(* Writes of a user's row.                                                 *)

\* An address that stays the same keeps its confirmation, and no other.
KeepConfirmed(row, email) == row.confirmed /\ row.email = email

WithEmail(row, email) == [row EXCEPT !.email = email, !.confirmed = KeepConfirmed(row, email)]

\* Mutant: the users form's count alone, made before the transaction.
AnyRows(rows) == TRUE
RequireAGlobal(rows) == \E u \in Ids : rows[u] # None /\ rows[u].role = "global"

AddUser(p) ==
    /\ ids + 1 \in Ids
    /\ \E s \in DOMAIN sessions, role \in Roles, email \in Emails :
         LET u == ids + 1 row == User(role, email, FALSE, NewPassword) IN
         /\ Global(s)
         /\ NewUser(u, row)
         /\ Begins(p, IF email = NoAddr THEN Idle
                      ELSE [Idle EXCEPT !.op = "add", !.at = "ask", !.user = u])
    /\ UNCHANGED <<sessions, links, history>>

\* The users form: the row is read, the signed-in user's password compared,
\* and the last global user's role left alone, before a password is hashed.  A
\* form that changes the role changes nothing else (bound).
SubmitUserUpdate(p) ==
    /\ \E s \in DOMAIN sessions, u \in Known, pw \in BOOLEAN, email \in Emails, role \in Roles :
         /\ Global(s)
         /\ role # users[u].role => ~pw /\ email = users[u].email
         /\ users[u].role = "global" /\ role = "domain" =>
                Cardinality({v \in Known : users[v].role = "global"}) > 1
         /\ Begins(p, [Asks("save", "save", u, s) EXCEPT !.was = users[u].email, !.pw = pw,
                                                         !.email = email, !.role = role])
    /\ UNCHANGED <<base, ids, history>>

NextAfterSave(r) == IF r.pw THEN "sessions"
                    ELSE IF r.email \notin {r.was, NoAddr} THEN "ask" ELSE "idle"

SaveUser(p) ==
    /\ At(p, "save")
    /\ LET r == req[p]
           row == [WithEmail(users[r.user], r.email) EXCEPT
                     !.role = r.role, !.pw = IF r.pw THEN NewPassword ELSE @]
           rows == [users EXCEPT ![r.user] = row]
       IN  IF Exists(r.user) /\ RequireAGlobal(rows)
           THEN /\ users' = rows
                /\ IF NextAfterSave(r) = "idle" THEN Ends(p) ELSE Goes(p, NextAfterSave(r))
           ELSE Ends(p) /\ UNCHANGED users
    /\ UNCHANGED <<sessions, links, ids, history, bounds>>

SubmitUserDelete(p) ==
    /\ \E s \in DOMAIN sessions, u \in Known :
         /\ Global(s) /\ u # sessions[s].user
         /\ Begins(p, Asks("delete", "delete", u, 0))
    /\ UNCHANGED <<base, ids, history>>

\* The user's sessions and links go with the row.
Cascade(f, u) == Without(f, {x \in DOMAIN f : f[x].user = u})

DeleteUser(p) ==
    /\ At(p, "delete")
    /\ LET u == req[p].user rows == [users EXCEPT ![u] = None] IN
         IF Exists(u) /\ RequireAGlobal(rows)
         THEN /\ users' = rows
              /\ sessions' = Cascade(sessions, u)
              /\ links' = Cascade(links, u)
         ELSE UNCHANGED base
    /\ Ends(p)
    /\ UNCHANGED <<ids, history, bounds>>

\* Account: the user's own address, and own password.
SubmitProfile(p) ==
    /\ \E s \in DOMAIN sessions, email \in Emails :
         LET u == sessions[s].user IN
         SignedIn(s) /\ Begins(p, [Asks("profile", "profile", u, 0) EXCEPT !.was = users[u].email, !.email = email])
    /\ UNCHANGED <<base, ids, history>>

UpdateUserProfile(p) ==
    /\ At(p, "profile")
    /\ LET r == req[p] IN
         /\ users' = IF Exists(r.user) THEN [users EXCEPT ![r.user] = WithEmail(@, r.email)] ELSE users
         /\ IF Exists(r.user) /\ r.email \notin {r.was, NoAddr} THEN Goes(p, "ask") ELSE Ends(p)
    /\ UNCHANGED <<sessions, links, ids, history, bounds>>

SubmitPassword(p) ==
    /\ \E s \in DOMAIN sessions :
         LET u == sessions[s].user IN
         SignedIn(s) /\ Begins(p, [Asks("password", "password", u, s) EXCEPT !.was = users[u].email])
    /\ UNCHANGED <<base, ids, history>>

\* The name and the address read at the start are written again.
UpdateUser(p) ==
    /\ At(p, "password")
    /\ LET r == req[p] IN
         IF Exists(r.user)
         THEN /\ users' = [users EXCEPT ![r.user] =
                             [WithEmail(@, r.was) EXCEPT !.pw = NewPassword]]
              /\ Goes(p, "sessions")
         ELSE Ends(p) /\ UNCHANGED users
    /\ UNCHANGED <<sessions, links, ids, history, bounds>>

----------------------------------------------------------------------------
(* What follows a password that was set: the sessions opened by another    *)
(* end, and the reset links of the user.                                   *)

\* The session that is to stay: the one the user set their own password in.
Stays(p) == IF req[p].op \in {"password", "save"} /\ req[p].by \in SessionsOf(req[p].user)
            THEN {req[p].by} ELSE {}

\* Mutant: the sessions of the one who set it end, and not the other user's.
EndedOfAsker(p) == IF req[p].by \in DOMAIN sessions
                   THEN SessionsOf(sessions[req[p].by].user) \ {req[p].by} ELSE {}
Ended(p) == SessionsOf(req[p].user) \ Stays(p)

Spare(f, S) == [s \in DOMAIN f |-> IF s \in S THEN [f[s] EXCEPT !.spared = TRUE] ELSE f[s]]

AfterSessions(p) == IF req[p].op = "reset" THEN Ends(p) ELSE Goes(p, "links")

DestroySessions(p) ==
    /\ At(p, "sessions")
    /\ sessions' = Spare(Without(sessions, Ended(p)), Stays(p))
    /\ AfterSessions(p)
    /\ UNCHANGED <<users, links, ids, history, bounds>>

AfterLinks(p) ==
    IF req[p].op = "save" /\ req[p].email \notin {req[p].was, NoAddr}
    THEN Goes(p, "ask") ELSE Ends(p)

DeleteUserLinks(p) ==
    /\ At(p, "links")
    /\ links' = Without(links, LinksOf(req[p].user, "reset"))
    /\ AfterLinks(p)
    /\ UNCHANGED <<users, sessions, ids, history, bounds>>

----------------------------------------------------------------------------
(* Links that confirm an address: asked for by the handlers above, or from *)
(* Account; made and mailed after the answer.                              *)

NewLink(p, purpose, gone, sent) ==
    LET r == req[p] IN
      links' = IF Exists(r.user)
               THEN With(Without(links, gone), NewLinkToken,
                         [user |-> r.user, purpose |-> purpose, email |-> r.was,
                          mailed |-> sent, recent |-> purpose = "reset"])
               ELSE links

MakesLink(p, sent) ==
    \/ At(p, "confirmation") /\ NewLink(p, "confirm", LinksOf(req[p].user, "confirm"), sent)
    \/ At(p, "mailreset") /\ NewLink(p, "reset", {}, sent)

CreateUserLink(p) ==
    /\ MakesLink(p, TRUE)
    /\ Ends(p)
    /\ UNCHANGED <<users, sessions, ids, history, bounds>>

\* sendConfirmation reads the row again.
SendConfirmation(p) ==
    /\ At(p, "ask")
    /\ LET r == req[p] row == users[r.user] IN
         IF row # None /\ row.email # NoAddr /\ ~row.confirmed
         THEN \/ req' = [req EXCEPT ![p] = [Idle EXCEPT !.op = "mail", !.at = "confirmation",
                                              !.user = r.user, !.was = row.email]]
              \/ Ends(p)  \* AllowConfirmationLink: too many
         ELSE Ends(p)
    /\ UNCHANGED <<base, ids, history, bounds>>

AccountConfirmLink(p) ==
    /\ \E s \in DOMAIN sessions :
         LET u == sessions[s].user IN
         /\ SignedIn(s) /\ users[u].email # NoAddr /\ ~users[u].confirmed
         /\ Begins(p, [Asks("mail", "confirmation", u, 0) EXCEPT !.was = users[u].email])
    /\ UNCHANGED <<base, ids, history>>

\* The link's page: the link is looked at, and the browser is signed in as its
\* user.
SubmitConfirm(p) ==
    /\ \E l \in DOMAIN links :
         /\ links[l].purpose = "confirm" /\ links[l].mailed
         /\ \E s \in DOMAIN sessions : SignedIn(s) /\ sessions[s].user = links[l].user
         /\ Begins(p, [Asks("confirm", "take", links[l].user, 0) EXCEPT !.link = l, !.email = links[l].email])
    /\ UNCHANGED <<base, ids, history>>

TakeUserLink(p) ==
    /\ At(p, "take") /\ req[p].op = "confirm"
    /\ LET r == req[p] IN
         IF r.link \in DOMAIN links
         THEN /\ links' = Without(links, {r.link})
              /\ proven' = proven \cup {<<r.user, r.email>>}
              /\ Goes(p, "confirm")
         ELSE Ends(p) /\ UNCHANGED <<links, proven>>
    /\ UNCHANGED <<users, sessions, ids, firsts, bounds>>

\* Mutant: the user of the link is confirmed, whatever the address is by now.
AnyAddress(row, email) == TRUE
AddressStill(row, email) == row.email = email

ConfirmEmail(p) ==
    /\ At(p, "confirm")
    /\ LET r == req[p] IN
         users' = IF Exists(r.user) /\ AddressStill(users[r.user], r.email)
                  THEN [users EXCEPT ![r.user].confirmed = TRUE] ELSE users
    /\ Ends(p)
    /\ UNCHANGED <<sessions, links, ids, history, bounds>>

----------------------------------------------------------------------------
(* Links that set a password.  Anyone who knows a name asks for one.       *)

SendReset(p) ==
    /\ \E u \in Known :
         /\ users[u].email # NoAddr /\ users[u].confirmed
         /\ \A l \in LinksOf(u, "reset") : ~links[l].recent
         /\ Begins(p, [Asks("mail", "mailreset", u, 0) EXCEPT !.was = users[u].email])
    /\ UNCHANGED <<base, ids, history>>

Holds(l) ==
    LET row == users[links[l].user] IN row # None /\ row.email = links[l].email /\ row.confirmed

SetPasswordFromLink(p) ==
    /\ \E l \in DOMAIN links :
         /\ links[l].purpose = "reset" /\ links[l].mailed /\ Holds(l)
         /\ Begins(p, [Asks("reset", "take", links[l].user, 0) EXCEPT !.link = l])
    /\ UNCHANGED <<base, ids, history>>

\* Mutant: the page looked at the link, so it holds.
HeldBefore(l) == TRUE
StillHolds(l) == l \in DOMAIN links /\ Holds(l)

TakeResetLink(p) ==
    /\ At(p, "take") /\ req[p].op = "reset"
    /\ LET r == req[p] IN
         IF Exists(r.user) /\ StillHolds(r.link)
         THEN /\ users' = [users EXCEPT ![r.user].pw = NewPassword]
              /\ links' = Without(links, {r.link} \cup LinksOf(r.user, "reset"))
              /\ Goes(p, "sessions")
         ELSE Ends(p) /\ UNCHANGED <<users, links>>
    /\ UNCHANGED <<sessions, ids, history, bounds>>

LinkExpires ==
    /\ \E l \in DOMAIN links : links' = Without(links, {l})
    /\ UNCHANGED <<users, sessions, ids, req, history, bounds>>

SpacingPasses ==
    /\ \E l \in DOMAIN links : links[l].recent
    /\ links' = [l \in DOMAIN links |-> [links[l] EXCEPT !.recent = FALSE]]
    /\ UNCHANGED <<users, sessions, ids, req, history, bounds>>

----------------------------------------------------------------------------
(* A call fails, or the panel is killed.                                   *)

Faulty == bounds.faults < MaxFaults /\ bounds' = [bounds EXCEPT !.faults = @ + 1]

\* Ending sessions and links only logs; a link that cannot be mailed stays in
\* the table; any other failure ends the request.
CallFails(p) ==
    /\ Faulty
    /\ \/ /\ At(p, "sessions") /\ AfterSessions(p)
          /\ sessions' = Spare(sessions, SessionsOf(req[p].user))
          /\ UNCHANGED links
       \/ At(p, "links") /\ AfterLinks(p) /\ UNCHANGED <<sessions, links>>
       \/ MakesLink(p, FALSE) /\ Ends(p) /\ UNCHANGED sessions
       \/ req[p].at \notin {"idle", "sessions", "links"} /\ Ends(p) /\ UNCHANGED <<sessions, links>>
    /\ UNCHANGED <<users, ids, history>>

Kill ==
    /\ Faulty /\ \E p \in Reqs : ~At(p, "idle")
    /\ req' = [p \in Reqs |-> Idle]
    /\ sessions' = Spare(sessions, UNION {SessionsOf(req[p].user) : p \in {q \in Reqs : At(q, "sessions")}})
    /\ UNCHANGED <<users, links, ids, history>>

----------------------------------------------------------------------------

\* A new instance; or one with two global users, one of them signed in.
Fresh == users = [u \in Ids |-> None] /\ sessions = <<>> /\ proven = {}
         /\ ids = 0
Installed ==
    \E a \in Addrs, confirmed \in BOOLEAN :
      /\ users = [u \in Ids |-> IF u = 1 THEN User("global", a, confirmed, 1)
                                ELSE IF u = 2 THEN User("global", NoAddr, FALSE, 2) ELSE None]
      /\ sessions = <<[user |-> 1, pw |-> 1, spared |-> FALSE]>>
      /\ proven = IF confirmed THEN {<<1, a>>} ELSE {}
      /\ ids = 2

Init ==
    /\ Fresh \/ Installed
    /\ links = <<>>
    /\ req = [p \in Reqs |-> Idle]
    /\ firsts = 0
    /\ bounds = [requests |-> 0, faults |-> 0]

Submits(p) ==
    \/ SubmitLogin(p) \/ SubmitSetup(p) \/ AddUser(p) \/ SubmitUserUpdate(p) \/ SubmitUserDelete(p)
    \/ SubmitProfile(p) \/ SubmitPassword(p) \/ AccountConfirmLink(p) \/ SubmitConfirm(p)
    \/ SendReset(p) \/ SetPasswordFromLink(p)

Writes(p) ==
    \/ CreateSession(p) \/ CreateGlobalUser(p) \/ SaveUser(p) \/ DeleteUser(p)
    \/ UpdateUserProfile(p) \/ UpdateUser(p) \/ DestroySessions(p) \/ DeleteUserLinks(p)
    \/ SendConfirmation(p) \/ CreateUserLink(p) \/ TakeUserLink(p) \/ ConfirmEmail(p)
    \/ TakeResetLink(p) \/ CallFails(p)

Next == (\E p \in Reqs : Submits(p) \/ Writes(p)) \/ Logout \/ SessionExpires \/ LinkExpires \/ SpacingPasses \/ Kill

Spec == Init /\ [][Next]_vars

----------------------------------------------------------------------------

\* Rows, sessions, links and requests have the form the code gives them; a
\* session and a link are of a user there is (the tables' foreign keys).
TypeOK ==
    /\ users \in [Ids -> UserRow \cup {None}]
    /\ ids \in Ids \cup {0} /\ Known \subseteq 1..ids
    /\ \A s \in DOMAIN sessions : sessions[s].user \in Known /\ sessions[s].pw \in Nat \ {0}
    /\ \A l \in DOMAIN links : links[l].user \in Known /\ links[l].email \in Addrs
    /\ \A p \in Reqs : req[p] = Idle \/ ~At(p, "idle")

\* Setup, whoever raced on its page, made one user, and from then on there is
\* a global administrator, whatever administrators demote or delete at once
\* (CreateGlobalUser, SaveUser, DeleteUser).
AGlobalAlways ==
    /\ firsts <= 1
    /\ ids > 0 => \E u \in Known : users[u].role = "global"

\* Once whoever set a password is done, no session opened by an earlier one is
\* left, but for the session it was set in, one whose sign-in had compared the
\* earlier one by then, and those a failed call or a kill spared
\* (endSessionsAfterPasswordSet, setPasswordFromLink, HandleAccountPassword).
OldSessionsEnd ==
    \A s \in DOMAIN sessions :
        LET u == sessions[s].user IN
        sessions[s].pw # users[u].pw /\ ~sessions[s].spared => \E p \in Reqs : At(p, "sessions") /\ req[p].user = u

\* An address is confirmed only if a link sent to it was opened by someone
\* signed in as the account, through any change of the address in between
\* (HandleConfirm, keepConfirmed).
ConfirmedMeansProven ==
    \A u \in Known : users[u].confirmed => <<u, users[u].email>> \in proven

\* A reset link sets one password, of the account whose confirmed address it
\* was sent to and still is when the password is set, and leaves no other
\* reset link of the account (TakeResetLink).
ResetProven ==
    \A p \in Reqs :
        req[p].op = "reset" /\ At(p, "take") /\ req'[p].at = "sessions" =>
            LET u == req[p].user l == req[p].link IN
            /\ l \in DOMAIN links /\ links[l].user = u /\ links[l].mailed
            /\ users[u].confirmed /\ <<u, users[u].email>> \in proven
            /\ links[l].email = users[u].email
            /\ \A k \in DOMAIN links' : links'[k].user = u => links'[k].purpose # "reset"

ResetProvesTheMailbox == [][ResetProven]_vars

=============================================================================
