--------------------------- MODULE AccountsProofs ---------------------------
(***************************************************************************)
(* Proofs about Accounts: users, sessions and links, for any number of     *)
(* users, addresses and requests at once; and about Notifier: what users   *)
(* are told of, for any subjects, users, ceiling and number of faults.     *)
(***************************************************************************)
EXTENDS Accounts, Notifier, FiniteSetTheorems, TLAPS

Stages == {"idle", "create", "first", "save", "delete", "profile", "password", "sessions", "links",
           "ask", "confirmation", "mailreset", "take", "confirm"}
Operations == {"none", "login", "setup", "add", "save", "delete", "profile", "password", "mail", "confirm", "reset"}
ReqType == [op : Operations, at : Stages, user : Ids \cup {0}, was : Emails, by : Nat, link : Nat,
            hash : Nat, pw : BOOLEAN, email : Emails, role : Roles]
SessionType == [user : Ids, pw : Nat \ {0}, spared : BOOLEAN]
LinkType == [user : Ids, purpose : {"confirm", "reset"}, email : Addrs, mailed : BOOLEAN, recent : BOOLEAN]

\* A request that is about a user names one, a mailed link has an address, and
\* a sign-in has the password it compared.
ReqOk(r) ==
    /\ r \in ReqType
    /\ r.at = "idle" => r = Idle
    /\ r.at \notin {"idle", "first"} => r.user \in Ids
    /\ r.at \in {"confirmation", "mailreset"} => r.was \in Addrs
    /\ r.at = "create" => r.hash # 0

\* The rows of a table.
Table(f, T) ==
    /\ f = [x \in DOMAIN f |-> f[x]] /\ IsFiniteSet(DOMAIN f) /\ DOMAIN f \subseteq Nat
    /\ \A x \in DOMAIN f : f[x] \in T

ReqsOk == req \in [Reqs -> ReqType] /\ \A p \in Reqs : ReqOk(req[p])
UsersOk == users \in [Ids -> UserRow \cup {None}] /\ ids \in Ids \cup {0} /\ Known \subseteq 1..ids
SessionsOk == Table(sessions, SessionType) /\ \A s \in DOMAIN sessions : sessions[s].user \in Known
LinksOk == Table(links, LinkType) /\ \A l \in DOMAIN links : links[l].user \in Known

AccTyped == ReqsOk /\ UsersOk /\ SessionsOk /\ LinksOk

LEMMA WithoutTable ==
    ASSUME NEW f, NEW T, Table(f, T), NEW S
    PROVE  /\ Table(Without(f, S), T) /\ DOMAIN Without(f, S) = DOMAIN f \ S
           /\ \A x \in DOMAIN f \ S : Without(f, S)[x] = f[x]
<1>1. /\ DOMAIN Without(f, S) = DOMAIN f \ S
      /\ \A x \in DOMAIN f \ S : Without(f, S)[x] = f[x]
      /\ Without(f, S) = [x \in DOMAIN f \ S |-> Without(f, S)[x]]
  BY DEF Without
<1>2. IsFiniteSet(DOMAIN f \ S)
  BY FS_Difference DEF Table
<1> HIDE DEF Without
<1> QED BY <1>1, <1>2 DEF Table

LEMMA WithTable ==
    ASSUME NEW f, NEW T, Table(f, T), NEW x \in Nat, NEW y \in T
    PROVE  /\ Table(With(f, x, y), T) /\ DOMAIN With(f, x, y) = DOMAIN f \cup {x}
           /\ With(f, x, y)[x] = y
           /\ \A z \in DOMAIN f \ {x} : With(f, x, y)[z] = f[z]
<1>1. /\ DOMAIN With(f, x, y) = DOMAIN f \cup {x}
      /\ \A z \in DOMAIN f \cup {x} : With(f, x, y)[z] = IF z = x THEN y ELSE f[z]
      /\ With(f, x, y) = [z \in DOMAIN f \cup {x} |-> With(f, x, y)[z]]
  BY DEF With
<1>2. IsFiniteSet(DOMAIN f \cup {x})
  BY FS_AddElement DEF Table
<1> QED BY <1>1, <1>2 DEF Table

LEMMA SpareTable ==
    ASSUME NEW f, Table(f, SessionType), NEW S
    PROVE  /\ Table(Spare(f, S), SessionType) /\ DOMAIN Spare(f, S) = DOMAIN f
           /\ \A x \in DOMAIN f : /\ Spare(f, S)[x].user = f[x].user /\ Spare(f, S)[x].pw = f[x].pw
                                  /\ x \in S => Spare(f, S)[x].spared
                                  /\ x \notin S => Spare(f, S)[x] = f[x]
<1>1. /\ DOMAIN Spare(f, S) = DOMAIN f
      /\ \A x \in DOMAIN f : Spare(f, S)[x] = IF x \in S THEN [f[x] EXCEPT !.spared = TRUE] ELSE f[x]
      /\ Spare(f, S) = [x \in DOMAIN f |-> Spare(f, S)[x]]
  BY DEF Spare
<1>2. ASSUME NEW x \in DOMAIN f
      PROVE  LET d == [f[x] EXCEPT !.spared = TRUE] IN
             d \in SessionType /\ d.user = f[x].user /\ d.pw = f[x].pw /\ d.spared
  BY DEF Table, SessionType
<1>3. \A x \in DOMAIN f : Spare(f, S)[x] \in SessionType
  BY <1>1, <1>2 DEF Table
<1>4. Table(Spare(f, S), SessionType)
  BY <1>1, <1>3 DEF Table
<1> QED BY <1>1, <1>2, <1>4

\* A new number is one no row holds.
LEMMA NewIsNew ==
    ASSUME NEW used, IsFiniteSet(used)
    PROVE  New(used) \in Nat \ {0} /\ New(used) \notin used
<1> DEFINE c == Cardinality(used)
           S == 1..(c + 1)
<1>1. c \in Nat
  BY FS_CardinalityType
<1>2. IsFiniteSet(S) /\ Cardinality(S) = c + 1
  BY <1>1, FS_Interval
<1>3. ~ (S \subseteq used)
  <2>1. ASSUME S \subseteq used PROVE FALSE
    <3> HIDE DEF S
    <3>1. Cardinality(S) <= c
      BY <2>1, FS_Subset
    <3> QED BY <3>1, <1>1, <1>2
  <2> QED BY <2>1
<1>4. \E n \in S : n \notin used
  BY <1>3
<1>5. New(used) \in S /\ New(used) \notin used
  BY <1>4 DEF New
<1> QED BY <1>1, <1>5

LEMMA ImageFinite ==
    ASSUME NEW S, IsFiniteSet(S), NEW f
    PROVE  IsFiniteSet({f[x] : x \in S})
<1> DEFINE T == {f[x] : x \in S}
           g == [x \in S |-> f[x]]
<1>1. g \in Surjection(S, T)
  BY DEF Surjection
<1> HIDE DEF T, g
<1>2. IsFiniteSet(T)
  BY <1>1, FS_Surjection
<1> QED BY <1>2 DEF T

LEMMA NewOnes ==
    ASSUME AccTyped
    PROVE  /\ NewToken \in Nat
           /\ NewLinkToken \in Nat /\ NewLinkToken \notin DOMAIN links
           /\ \A p \in Reqs : NewLinkToken # req[p].link
           /\ NewPassword \in Nat \ {0}
<1>0. IsFiniteSet(Reqs) /\ IsFiniteSet(DOMAIN sessions) /\ IsFiniteSet(DOMAIN links) /\ IsFiniteSet(Ids)
  BY AccountsConstants DEF AccTyped, SessionsOk, LinksOk, Table
<1>1. /\ IsFiniteSet({req[p].by : p \in Reqs}) /\ IsFiniteSet({req[p].link : p \in Reqs})
      /\ IsFiniteSet({req[p].hash : p \in Reqs}) /\ IsFiniteSet({sessions[s].pw : s \in DOMAIN sessions})
  <2> DEFINE fb == [p \in Reqs |-> req[p].by]  fl == [p \in Reqs |-> req[p].link]
             fh == [p \in Reqs |-> req[p].hash]  fs == [s \in DOMAIN sessions |-> sessions[s].pw]
  <2>1. /\ IsFiniteSet({fb[p] : p \in Reqs}) /\ IsFiniteSet({fl[p] : p \in Reqs})
        /\ IsFiniteSet({fh[p] : p \in Reqs}) /\ IsFiniteSet({fs[s] : s \in DOMAIN sessions})
    <3> HIDE DEF fb, fl, fh, fs
    <3> QED BY <1>0, ImageFinite
  <2>2. /\ {fb[p] : p \in Reqs} = {req[p].by : p \in Reqs} /\ {fl[p] : p \in Reqs} = {req[p].link : p \in Reqs}
        /\ {fh[p] : p \in Reqs} = {req[p].hash : p \in Reqs}
        /\ {fs[s] : s \in DOMAIN sessions} = {sessions[s].pw : s \in DOMAIN sessions}
    OBVIOUS
  <2> QED BY <2>1, <2>2
<1>2. IsFiniteSet(Known)
  BY <1>0, FS_Subset DEF Known
<1>3. IsFiniteSet({users[u].pw : u \in Known})
  <2> DEFINE fu == [u \in Known |-> users[u].pw]
  <2>1. IsFiniteSet({fu[u] : u \in Known})
    <3> HIDE DEF fu
    <3> QED BY <1>2, ImageFinite
  <2>2. {fu[u] : u \in Known} = {users[u].pw : u \in Known}
    OBVIOUS
  <2> QED BY <2>1, <2>2
<1>4. /\ IsFiniteSet(DOMAIN sessions \cup {req[p].by : p \in Reqs})
      /\ IsFiniteSet(DOMAIN links \cup {req[p].link : p \in Reqs})
      /\ IsFiniteSet({users[u].pw : u \in Known} \cup {sessions[s].pw : s \in DOMAIN sessions}
                     \cup {req[p].hash : p \in Reqs})
  BY <1>0, <1>1, <1>3, FS_Union
<1>5. NewToken \in Nat
  BY <1>4, NewIsNew DEF NewToken
<1>6. NewLinkToken \in Nat /\ NewLinkToken \notin DOMAIN links \cup {req[p].link : p \in Reqs}
  BY <1>4, NewIsNew DEF NewLinkToken
<1>7. NewPassword \in Nat \ {0}
  BY <1>4, NewIsNew DEF NewPassword
<1> QED BY <1>5, <1>6, <1>7

-----------------------------------------------------------------------------
(* Requests.                                                               *)

LEMMA IdleOk ==
    /\ Idle \in ReqType /\ ReqOk(Idle) /\ Idle.at = "idle" /\ Idle.op = "none" /\ Idle.user = 0 /\ Idle.link = 0
  BY AccountsConstants DEF Idle, ReqType, ReqOk, Stages, Operations, Emails, Roles

LEMMA ReqPut ==
    ASSUME ReqsOk, NEW p \in Reqs, NEW d, ReqOk(d), req' = [req EXCEPT ![p] = d]
    PROVE  ReqsOk' /\ req'[p] = d /\ \A q \in Reqs \ {p} : req'[q] = req[q]
<1>1. req' \in [Reqs -> ReqType] /\ \A q \in Reqs : req'[q] = IF q = p THEN d ELSE req[q]
  BY DEF ReqsOk, ReqOk
<1>2. \A q \in Reqs : ReqOk(req'[q])
  BY <1>1 DEF ReqsOk
<1> QED BY <1>1, <1>2 DEF ReqsOk, ReqOk

LEMMA ReqEnds ==
    ASSUME ReqsOk, NEW p \in Reqs, Ends(p)
    PROVE  ReqsOk' /\ req'[p].at = "idle" /\ req'[p].op = "none" /\ \A q \in Reqs \ {p} : req'[q] = req[q]
  BY IdleOk, ReqPut DEF Ends

\* The next stage of a request of a user.
LEMMA ReqGoes ==
    ASSUME ReqsOk, NEW p \in Reqs, NEW x \in {"sessions", "links", "ask", "confirm"}, Goes(p, x), req[p].user \in Ids
    PROVE  /\ ReqsOk' /\ req'[p].at = x /\ \A q \in Reqs \ {p} : req'[q] = req[q]
           /\ req'[p].user = req[p].user /\ req'[p].op = req[p].op /\ req'[p].email = req[p].email
<1> DEFINE d == [req[p] EXCEPT !.at = x]
<1>1. req[p] \in ReqType
  BY DEF ReqsOk
<1>2. /\ d \in ReqType /\ d.at = x /\ d.user = req[p].user /\ d.op = req[p].op /\ d.email = req[p].email
  BY <1>1 DEF ReqType, Stages
<1>3. req' = [req EXCEPT ![p] = d]
  BY DEF Goes
<1> HIDE DEF d
<1>4. ReqOk(d)
  BY <1>2 DEF ReqOk
<1> QED BY <1>2, <1>3, <1>4, ReqPut

\* A link that was opened, and the request that uses it.
Opened(r) ==
    /\ r.link \in DOMAIN links /\ links[r.link].user = r.user /\ links[r.link].mailed
    /\ r.op = "reset" => links[r.link].purpose = "reset"
    /\ r.op = "confirm" => links[r.link].email = r.email

LEMMA SubmitParts ==
    ASSUME AccTyped, NEW p \in Reqs, Submits(p)
    PROVE  /\ ReqsOk' /\ req[p].at = "idle" /\ req'[p].at \notin {"sessions", "confirm"}
           /\ \A q \in Reqs \ {p} : req'[q] = req[q]
           /\ req'[p].at = "take" => Opened(req'[p])
           /\ UNCHANGED <<sessions, links, firsts, proven>>
           /\ AddUser(p) \/ UNCHANGED <<users, ids>>
<1> USE DEF Begins, At
<1>0. ReqsOk /\ UsersOk /\ SessionsOk /\ LinksOk /\ Ids \subseteq Nat
  BY AccountsConstants, FS_CardinalityType DEF AccTyped
<1>1. \A s \in DOMAIN sessions : /\ sessions[s].user \in Ids /\ s \in Nat
                                 /\ users[sessions[s].user] \in UserRow
  BY <1>0 DEF SessionsOk, Table, SessionType, Known, Exists, UsersOk
<1>2. \A l \in DOMAIN links : links[l] \in LinkType /\ l \in Nat
  BY <1>0 DEF LinksOk, Table
<1>3. \A u \in Known : u \in Ids /\ users[u] \in UserRow
  BY <1>0 DEF Known, Exists, UsersOk
\* It is enough to look at the request that begins.
<1>4. ASSUME NEW d, ReqOk(d), d.at \notin {"sessions", "confirm", "take"}, req[p].at = "idle",
             req' = [req EXCEPT ![p] = d]
      PROVE  /\ ReqsOk' /\ req'[p].at \notin {"sessions", "confirm", "take"}
             /\ \A q \in Reqs \ {p} : req'[q] = req[q]
  BY <1>0, <1>4, ReqPut
<1>5. CASE SubmitLogin(p)
  <2>1. PICK u \in Known : req' = [req EXCEPT ![p] = [Asks("login", "create", u, 0) EXCEPT !.hash = users[u].pw]]
    BY <1>5 DEF SubmitLogin
  <2> DEFINE d == [Asks("login", "create", u, 0) EXCEPT !.hash = users[u].pw]
  <2>2. u \in Ids /\ users[u].pw \in Nat \ {0}
    BY <1>3 DEF UserRow
  <2>3. d \in ReqType /\ d.at = "create" /\ d.user = u /\ d.hash # 0
    BY <2>2, IdleOk DEF ReqType, Stages, Operations, Asks
  <2>4. req' = [req EXCEPT ![p] = d]
    BY <2>1
  <2> HIDE DEF d
  <2>5. ReqOk(d)
    BY <2>2, <2>3 DEF ReqOk
  <2> QED BY <1>4, <1>5, <2>3, <2>4, <2>5 DEF SubmitLogin, base, history
<1>6. CASE SubmitSetup(p)
  <2> DEFINE d == [Idle EXCEPT !.op = "setup", !.at = "first"]
  <2>1. d \in ReqType /\ d.at = "first"
    BY IdleOk DEF ReqType, Stages, Operations
  <2>2. req' = [req EXCEPT ![p] = d]
    BY <1>6 DEF SubmitSetup
  <2> HIDE DEF d
  <2>3. ReqOk(d)
    BY <2>1 DEF ReqOk
  <2> QED BY <1>4, <1>6, <2>1, <2>2, <2>3 DEF SubmitSetup, base, history
<1>7. CASE AddUser(p)
  <2> DEFINE d == [Idle EXCEPT !.op = "add", !.at = "ask", !.user = ids + 1]
  <2>1. ids + 1 \in Ids
    BY <1>7 DEF AddUser
  <2>2. d \in ReqType /\ d.at = "ask" /\ d.user = ids + 1
    BY <2>1, IdleOk DEF ReqType, Stages, Operations
  <2>3. req' = [req EXCEPT ![p] = d] \/ req' = [req EXCEPT ![p] = Idle]
    BY <1>7 DEF AddUser
  <2> HIDE DEF d
  <2>4. ReqOk(d)
    BY <2>1, <2>2 DEF ReqOk
  <2> QED BY <1>4, <1>7, <2>2, <2>3, <2>4, IdleOk DEF AddUser, history
<1>8. CASE SubmitUserUpdate(p)
  <2>1. PICK s \in DOMAIN sessions, u \in Known, pw \in BOOLEAN, email \in Emails, role \in Roles :
          req' = [req EXCEPT ![p] = [Asks("save", "save", u, s) EXCEPT
                    !.was = users[u].email, !.pw = pw, !.email = email, !.role = role]]
    <3>1. PICK s \in DOMAIN sessions, u \in Known, pw \in BOOLEAN, email \in Emails, role \in Roles :
             Begins(p, [Asks("save", "save", u, s) EXCEPT
                          !.was = users[u].email, !.pw = pw, !.email = email, !.role = role])
      <4> HIDE DEF Begins
      <4> QED BY <1>8, Zenon DEF SubmitUserUpdate
    <3> QED BY <3>1
  <2> DEFINE w == users[u].email
             d == [Asks("save", "save", u, s) EXCEPT !.was = w, !.pw = pw, !.email = email, !.role = role]
  <2>2. u \in Ids /\ w \in Emails /\ s \in Nat
    BY <1>1, <1>3 DEF UserRow
  <2>3. req' = [req EXCEPT ![p] = d]
    BY <2>1
  <2> HIDE DEF w
  <2>4. d \in ReqType /\ d.at = "save" /\ d.user = u
    BY <2>2, IdleOk DEF ReqType, Stages, Operations, Asks
  <2> HIDE DEF d
  <2>5. ReqOk(d)
    BY <2>2, <2>4 DEF ReqOk
  <2> QED BY <1>4, <1>8, <2>3, <2>4, <2>5 DEF SubmitUserUpdate, base, history
<1>9. CASE SubmitUserDelete(p)
  <2>1. PICK u \in Known : req' = [req EXCEPT ![p] = Asks("delete", "delete", u, 0)]
    BY <1>9 DEF SubmitUserDelete
  <2> DEFINE d == Asks("delete", "delete", u, 0)
  <2>2. u \in Ids
    BY <1>3
  <2>3. d \in ReqType /\ d.at = "delete" /\ d.user = u
    BY <2>2, IdleOk DEF ReqType, Stages, Operations, Asks
  <2>4. req' = [req EXCEPT ![p] = d]
    BY <2>1
  <2> HIDE DEF d
  <2>5. ReqOk(d)
    BY <2>2, <2>3 DEF ReqOk
  <2> QED BY <1>4, <1>9, <2>3, <2>4, <2>5 DEF SubmitUserDelete, base, history
<1>10. CASE SubmitProfile(p)
  <2>1. PICK s \in DOMAIN sessions, email \in Emails :
          req' = [req EXCEPT ![p] = [Asks("profile", "profile", sessions[s].user, 0) EXCEPT
                    !.was = users[sessions[s].user].email, !.email = email]]
    BY <1>10 DEF SubmitProfile
  <2> DEFINE u == sessions[s].user
             w == users[u].email
             d == [Asks("profile", "profile", u, 0) EXCEPT !.was = w, !.email = email]
  <2>2. u \in Ids /\ w \in Emails
    BY <1>1 DEF UserRow
  <2>3. req' = [req EXCEPT ![p] = d]
    BY <2>1
  <2> HIDE DEF u, w
  <2>4. d \in ReqType /\ d.at = "profile" /\ d.user = u
    BY <2>2, IdleOk DEF ReqType, Stages, Operations, Asks
  <2> HIDE DEF d
  <2>5. ReqOk(d)
    BY <2>2, <2>4 DEF ReqOk
  <2> QED BY <1>4, <1>10, <2>3, <2>4, <2>5 DEF SubmitProfile, base, history
<1>11. CASE SubmitPassword(p)
  <2>1. PICK s \in DOMAIN sessions :
          req' = [req EXCEPT ![p] = [Asks("password", "password", sessions[s].user, s) EXCEPT
                    !.was = users[sessions[s].user].email]]
    BY <1>11 DEF SubmitPassword
  <2> DEFINE u == sessions[s].user
             w == users[u].email
             d == [Asks("password", "password", u, s) EXCEPT !.was = w]
  <2>2. u \in Ids /\ w \in Emails /\ s \in Nat
    BY <1>1 DEF UserRow
  <2>3. req' = [req EXCEPT ![p] = d]
    BY <2>1
  <2> HIDE DEF u, w
  <2>4. d \in ReqType /\ d.at = "password" /\ d.user = u
    BY <2>2, IdleOk DEF ReqType, Stages, Operations, Asks
  <2> HIDE DEF d
  <2>5. ReqOk(d)
    BY <2>2, <2>4 DEF ReqOk
  <2> QED BY <1>4, <1>11, <2>3, <2>4, <2>5 DEF SubmitPassword, base, history
\* A link is asked for: it goes to the address of the row.
<1>12. ASSUME NEW u \in Ids, users[u] \in UserRow, users[u].email # NoAddr,
              NEW at \in {"confirmation", "mailreset"}, req[p].at = "idle",
              req' = [req EXCEPT ![p] = [Asks("mail", at, u, 0) EXCEPT !.was = users[u].email]]
       PROVE  /\ ReqsOk' /\ req'[p].at \notin {"sessions", "confirm", "take"}
              /\ \A q \in Reqs \ {p} : req'[q] = req[q]
  <2> DEFINE w == users[u].email
             d == [Asks("mail", at, u, 0) EXCEPT !.was = w]
  <2>1. w \in Addrs /\ w \in Emails
    BY <1>12 DEF UserRow, Emails
  <2>2. req' = [req EXCEPT ![p] = d]
    BY <1>12
  <2> HIDE DEF w
  <2>3. d \in ReqType /\ d.at = at /\ d.user = u /\ d.was = w
    BY <2>1, IdleOk DEF ReqType, Stages, Operations, Asks
  <2> HIDE DEF d
  <2>4. ReqOk(d)
    BY <2>1, <2>3 DEF ReqOk
  <2> QED BY <1>4, <1>12, <2>2, <2>3, <2>4
<1>13. CASE AccountConfirmLink(p)
  <2>1. PICK s \in DOMAIN sessions :
          /\ users[sessions[s].user].email # NoAddr
          /\ req[p].at = "idle"
          /\ req' = [req EXCEPT ![p] = [Asks("mail", "confirmation", sessions[s].user, 0) EXCEPT
                       !.was = users[sessions[s].user].email]]
    BY <1>13 DEF AccountConfirmLink
  <2> QED BY <1>1, <1>12, <1>13, <2>1 DEF AccountConfirmLink, base, history
<1>14. CASE SendReset(p)
  <2>1. PICK u \in Known :
          /\ users[u].email # NoAddr /\ req[p].at = "idle"
          /\ req' = [req EXCEPT ![p] = [Asks("mail", "mailreset", u, 0) EXCEPT !.was = users[u].email]]
    BY <1>14 DEF SendReset
  <2> QED BY <1>3, <1>12, <1>14, <2>1 DEF SendReset, base, history
<1>15. CASE SubmitConfirm(p)
  <2>1. PICK l \in DOMAIN links :
          /\ links[l].purpose = "confirm" /\ links[l].mailed
          /\ req' = [req EXCEPT ![p] = [Asks("confirm", "take", links[l].user, 0) EXCEPT
                       !.link = l, !.email = links[l].email]]
    BY <1>15 DEF SubmitConfirm
  <2> DEFINE u == links[l].user
             w == links[l].email
             d == [Asks("confirm", "take", u, 0) EXCEPT !.link = l, !.email = w]
  <2>2. u \in Ids /\ w \in Emails /\ l \in Nat
    BY <1>2 DEF LinkType, Emails
  <2>3. req' = [req EXCEPT ![p] = d] /\ u = links[l].user /\ w = links[l].email
    BY <2>1
  <2> HIDE DEF u, w
  <2>4. d \in ReqType /\ d.at = "take" /\ d.user = u /\ d.link = l /\ d.email = w /\ d.op = "confirm"
    BY <2>2, IdleOk DEF ReqType, Stages, Operations, Asks
  <2> HIDE DEF d
  <2>5. ReqOk(d)
    BY <2>2, <2>4 DEF ReqOk
  <2>6. ReqsOk' /\ req'[p] = d /\ \A q \in Reqs \ {p} : req'[q] = req[q]
    BY <1>0, <2>3, <2>5, ReqPut
  <2>7. Opened(d)
    BY <2>1, <2>3, <2>4 DEF Opened
  <2> QED BY <1>15, <2>4, <2>6, <2>7 DEF SubmitConfirm, base, history
<1>16. CASE SetPasswordFromLink(p)
  <2>1. PICK l \in DOMAIN links :
          /\ links[l].purpose = "reset" /\ links[l].mailed
          /\ req' = [req EXCEPT ![p] = [Asks("reset", "take", links[l].user, 0) EXCEPT !.link = l]]
    BY <1>16 DEF SetPasswordFromLink
  <2> DEFINE u == links[l].user
             d == [Asks("reset", "take", u, 0) EXCEPT !.link = l]
  <2>2. u \in Ids /\ l \in Nat
    BY <1>2 DEF LinkType
  <2>3. req' = [req EXCEPT ![p] = d] /\ u = links[l].user
    BY <2>1
  <2> HIDE DEF u
  <2>4. d \in ReqType /\ d.at = "take" /\ d.user = u /\ d.link = l /\ d.op = "reset"
    BY <2>2, IdleOk DEF ReqType, Stages, Operations, Asks
  <2> HIDE DEF d
  <2>5. ReqOk(d)
    BY <2>2, <2>4 DEF ReqOk
  <2>6. ReqsOk' /\ req'[p] = d /\ \A q \in Reqs \ {p} : req'[q] = req[q]
    BY <1>0, <2>3, <2>5, ReqPut
  <2>7. Opened(d)
    BY <2>1, <2>3, <2>4 DEF Opened
  <2> QED BY <1>16, <2>4, <2>6, <2>7 DEF SetPasswordFromLink, base, history
<1> QED BY <1>5, <1>6, <1>7, <1>8, <1>9, <1>10, <1>11, <1>13, <1>14, <1>15, <1>16 DEF Submits

-----------------------------------------------------------------------------
(* What holds besides.                                                     *)

\* The setup page has made its user by the time there is one.
GlobalInv == firsts \in Nat /\ (ids = 0 => firsts = 0) /\ AGlobalAlways

\* The link a request took was sent to the address it confirms, and the one it
\* is about to take is still the one that was opened, or gone.
Proven(r) == r.at = "confirm" => <<r.user, r.email>> \in proven
OpenedStill(r) == r.at = "take" /\ r.link \in DOMAIN links => Opened(r)
LinkInv == ConfirmedMeansProven /\ \A p \in Reqs : Proven(req[p]) /\ OpenedStill(req[p])

AccInv == AccTyped /\ GlobalInv /\ OldSessionsEnd /\ LinkInv

OthersSame(p) == \A q \in Reqs \ {p} : req'[q] = req[q]

\* Links go, stay what they are to the one who opened them, or are new.
LinksStay ==
    \A l \in DOMAIN links' :
        \/ /\ l \in DOMAIN links
           /\ links'[l].user = links[l].user /\ links'[l].purpose = links[l].purpose
           /\ links'[l].email = links[l].email /\ links'[l].mailed = links[l].mailed
        \/ \A q \in Reqs : req[q].link # l

LEMMA OneKept ==
    ASSUME LinkInv, NEW q \in Reqs, req'[q] = req[q], LinksStay, proven \subseteq proven'
    PROVE  Proven(req[q])' /\ OpenedStill(req[q])'
<1>1. Proven(req[q]) /\ OpenedStill(req[q])
  BY DEF LinkInv
<1>2. Proven(req[q])'
  BY <1>1 DEF Proven
<1>3. OpenedStill(req[q])'
  <2>1. SUFFICES ASSUME req[q].at = "take", req[q].link \in DOMAIN links' PROVE Opened(req[q])'
    BY DEF OpenedStill
  <2> DEFINE l == req[q].link
  <2>2. /\ l \in DOMAIN links
        /\ links'[l].user = links[l].user /\ links'[l].purpose = links[l].purpose
        /\ links'[l].email = links[l].email /\ links'[l].mailed = links[l].mailed
    BY <2>1 DEF LinksStay
  <2>3. Opened(req[q])
    BY <1>1, <2>1, <2>2 DEF OpenedStill
  <2> QED BY <2>1, <2>2, <2>3 DEF Opened
<1> QED BY <1>2, <1>3

LEMMA OpenedKept ==
    ASSUME LinkInv, NEW p \in Reqs, OthersSame(p), LinksStay, proven \subseteq proven',
           req'[p].at # "take", req'[p].at = "confirm" => <<req'[p].user, req'[p].email>> \in proven'
    PROVE  \A q \in Reqs : Proven(req[q])' /\ OpenedStill(req[q])'
<1>1. Proven(req[p])' /\ OpenedStill(req[p])'
  BY DEF Proven, OpenedStill
<1>2. ASSUME NEW q \in Reqs \ {p} PROVE Proven(req[q])' /\ OpenedStill(req[q])'
  BY OneKept DEF OthersSame
<1> QED BY <1>1, <1>2

\* The sessions after a step that leaves the passwords alone.
LEMMA OldKept ==
    ASSUME OldSessionsEnd, UNCHANGED users, NEW p \in Reqs, OthersSame(p),
           \A s \in DOMAIN sessions' :
              \/ sessions'[s].pw = users[sessions'[s].user].pw \/ sessions'[s].spared
              \/ /\ s \in DOMAIN sessions /\ sessions'[s].user = sessions[s].user
                 /\ sessions'[s].pw = sessions[s].pw /\ ~ sessions[s].spared
                 /\ req[p].at = "sessions" /\ req[p].user = sessions[s].user =>
                       req'[p].at = "sessions" /\ req'[p].user = req[p].user
    PROVE  OldSessionsEnd'
<1>1. SUFFICES ASSUME NEW s \in DOMAIN sessions', sessions'[s].pw # users[sessions'[s].user].pw,
                      ~ sessions'[s].spared
               PROVE  \E q \in Reqs : req'[q].at = "sessions" /\ req'[q].user = sessions'[s].user
  BY DEF OldSessionsEnd, At
<1>2. /\ s \in DOMAIN sessions /\ sessions'[s].user = sessions[s].user
      /\ sessions'[s].pw = sessions[s].pw /\ ~ sessions[s].spared
      /\ req[p].at = "sessions" /\ req[p].user = sessions[s].user =>
            req'[p].at = "sessions" /\ req'[p].user = req[p].user
  BY <1>1
<1>3. PICK q \in Reqs : req[q].at = "sessions" /\ req[q].user = sessions[s].user
  BY <1>1, <1>2 DEF OldSessionsEnd, At
<1> QED BY <1>2, <1>3 DEF OthersSame

LEMMA SameUsers ==
    ASSUME AccInv, UNCHANGED <<users, ids, firsts>>, proven \subseteq proven'
    PROVE  UsersOk' /\ GlobalInv' /\ ConfirmedMeansProven' /\ Known' = Known
<1>1. Known' = Known
  BY DEF Known, Exists
<1>2. UsersOk'
  BY <1>1 DEF AccInv, AccTyped, UsersOk
<1>3. GlobalInv'
  BY <1>1 DEF AccInv, GlobalInv, AGlobalAlways
<1>4. ConfirmedMeansProven'
  BY <1>1 DEF AccInv, LinkInv, ConfirmedMeansProven
<1> QED BY <1>1, <1>2, <1>3, <1>4

\* A row is written over: the role stays or a global user is left, a new
\* password has its sessions ended next, and what is confirmed was proven.
LEMMA RowWritten ==
    ASSUME AccInv, NEW p \in Reqs, OthersSame(p), ReqsOk',
           NEW u \in Known, NEW row \in UserRow, users' = [users EXCEPT ![u] = row],
           UNCHANGED <<ids, firsts, proven, sessions>>, LinksOk', LinksStay,
           req[p].at # "sessions", req'[p].at \notin {"take", "confirm"},
           row.role = users[u].role \/ RequireAGlobal(users'),
           row.pw = users[u].pw \/ (req'[p].at = "sessions" /\ req'[p].user = u),
           row.confirmed => <<u, row.email>> \in proven
    PROVE  AccInv'
<1>0. /\ users \in [Ids -> UserRow \cup {None}] /\ u \in Ids /\ users[u] # None /\ row # None
      /\ ids \in Ids \cup {0} /\ Known \subseteq 1..ids
  BY NoneIsNoUser DEF AccInv, AccTyped, UsersOk, Known, Exists
<1>1. Known' = Known /\ users'[u] = row /\ \A v \in Known \ {u} : users'[v] = users[v]
  BY <1>0 DEF Known, Exists
<1>2. UsersOk'
  BY <1>0, <1>1 DEF UsersOk
<1>3. SessionsOk'
  BY <1>1 DEF AccInv, AccTyped, SessionsOk
<1>4. GlobalInv'
  <2>1. ASSUME ids > 0 PROVE \E v \in Known' : users'[v].role = "global"
    <3>1. CASE RequireAGlobal(users')
      BY <3>1 DEF RequireAGlobal, Known, Exists
    <3>2. CASE row.role = users[u].role
      <4>1. PICK v \in Known : users[v].role = "global"
        BY <2>1 DEF AccInv, GlobalInv, AGlobalAlways
      <4> QED BY <1>1, <3>2, <4>1
    <3> QED BY <3>1, <3>2
  <2> QED BY <2>1 DEF AccInv, GlobalInv, AGlobalAlways
<1>5. OldSessionsEnd'
  <2>1. SUFFICES ASSUME NEW s \in DOMAIN sessions, sessions[s].pw # users'[sessions[s].user].pw,
                        ~ sessions[s].spared
                 PROVE  \E q \in Reqs : req'[q].at = "sessions" /\ req'[q].user = sessions[s].user
    BY DEF OldSessionsEnd, At
  <2>2. sessions[s].user \in Known
    BY DEF AccInv, AccTyped, SessionsOk
  <2>3. CASE sessions[s].pw # users[sessions[s].user].pw
    <3>1. PICK q \in Reqs : req[q].at = "sessions" /\ req[q].user = sessions[s].user
      BY <2>1, <2>3 DEF AccInv, OldSessionsEnd, At
    <3> QED BY <3>1 DEF OthersSame
  <2>4. CASE sessions[s].pw = users[sessions[s].user].pw
    BY <1>1, <2>1, <2>2, <2>4
  <2> QED BY <2>3, <2>4
<1>6. LinkInv'
  <2>1. \A q \in Reqs : Proven(req[q])' /\ OpenedStill(req[q])'
    BY OpenedKept DEF AccInv
  <2>2. ConfirmedMeansProven'
    BY <1>1 DEF AccInv, LinkInv, ConfirmedMeansProven
  <2> QED BY <2>1, <2>2 DEF LinkInv
<1> QED BY <1>2, <1>3, <1>4, <1>5, <1>6 DEF AccInv, AccTyped

\* A new row, of the next id.
LEMMA RowAdded ==
    ASSUME AccInv, NEW p \in Reqs, OthersSame(p), ReqsOk', ids + 1 \in Ids,
           NEW row \in UserRow, ~ row.confirmed, NewUser(ids + 1, row),
           UNCHANGED <<proven, sessions, links>>, firsts' \in Nat, firsts' <= 1,
           req[p].at # "sessions", req'[p].at \notin {"take", "confirm"},
           row.role = "global" \/ Known # {}
    PROVE  AccInv'
<1> DEFINE u == ids + 1
<1>0. /\ users \in [Ids -> UserRow \cup {None}] /\ row # None
      /\ ids \in Nat /\ Known \subseteq 1..ids /\ ids' = u /\ users' = [users EXCEPT ![u] = row]
      /\ Ids \subseteq Nat
  BY NoneIsNoUser, AccountsConstants, FS_CardinalityType DEF AccInv, AccTyped, UsersOk, NewUser
<1>1. u \notin Known /\ Known' = Known \cup {u} /\ users'[u] = row /\ \A v \in Known : users'[v] = users[v]
  BY <1>0 DEF Known, Exists
<1>2. UsersOk'
  BY <1>0, <1>1 DEF UsersOk
<1>3. SessionsOk' /\ LinksOk'
  BY <1>1 DEF AccInv, AccTyped, SessionsOk, LinksOk
<1>4. GlobalInv'
  <2>1. \E v \in Known' : users'[v].role = "global"
    <3>1. CASE row.role = "global"
      BY <1>1, <3>1
    <3>2. CASE Known # {}
      <4>1. ids > 0
        <5>1. PICK v \in Known : TRUE
          BY <3>2
        <5> QED BY <1>0, <5>1
      <4>2. PICK v \in Known : users[v].role = "global"
        BY <4>1 DEF AccInv, GlobalInv, AGlobalAlways
      <4> QED BY <1>1, <4>2
    <3> QED BY <3>1, <3>2
  <2> QED BY <1>0, <2>1 DEF GlobalInv, AGlobalAlways
<1>5. OldSessionsEnd'
  <2>1. SUFFICES ASSUME NEW s \in DOMAIN sessions, sessions[s].pw # users'[sessions[s].user].pw,
                        ~ sessions[s].spared
                 PROVE  \E q \in Reqs : req'[q].at = "sessions" /\ req'[q].user = sessions[s].user
    BY DEF OldSessionsEnd, At
  <2>2. sessions[s].user \in Known
    BY DEF AccInv, AccTyped, SessionsOk
  <2>3. PICK q \in Reqs : req[q].at = "sessions" /\ req[q].user = sessions[s].user
    BY <1>1, <2>1, <2>2 DEF AccInv, OldSessionsEnd, At
  <2> QED BY <2>3 DEF OthersSame
<1>6. LinkInv'
  <2>0. LinksStay
    BY DEF LinksStay
  <2>1. \A q \in Reqs : Proven(req[q])' /\ OpenedStill(req[q])'
    BY <2>0, OpenedKept DEF AccInv
  <2>2. ConfirmedMeansProven'
    BY <1>1 DEF AccInv, LinkInv, ConfirmedMeansProven
  <2> QED BY <2>1, <2>2 DEF LinkInv
<1> QED BY <1>2, <1>3, <1>4, <1>5, <1>6 DEF AccInv, AccTyped

-----------------------------------------------------------------------------
(* The steps.                                                              *)

\* Request p is that of a user, who may be gone by now.
LEMMA AtParts ==
    ASSUME AccInv, NEW p \in Reqs
    PROVE  /\ ReqsOk /\ req[p] \in ReqType /\ ReqOk(req[p]) /\ UsersOk
           /\ req[p].at \notin {"idle", "first"} => req[p].user \in Ids
           /\ \A u \in Ids : Exists(u) => u \in Known /\ users[u] \in UserRow
           /\ \A u \in Known : u \in Ids /\ Exists(u)
           /\ Table(sessions, SessionType) /\ Table(links, LinkType)
           /\ SessionsOk /\ LinksOk
  BY DEF AccInv, AccTyped, ReqsOk, ReqOk, UsersOk, Known, Exists, SessionsOk, LinksOk

LEMMA AddUserStep ==
    ASSUME AccInv, NEW p \in Reqs, Submits(p), AddUser(p)
    PROVE  AccInv'
<1>1. PICK s \in DOMAIN sessions, role \in Roles, email \in Emails :
         Global(s) /\ NewUser(ids + 1, User(role, email, FALSE, NewPassword))
  BY DEF AddUser
<1> DEFINE row == User(role, email, FALSE, NewPassword)
<1>2. row \in UserRow /\ ~ row.confirmed
  BY NewOnes DEF AccInv, User, UserRow
<1>3. Known # {}
  BY <1>1 DEF Global, SignedIn, AccInv, AccTyped, SessionsOk
<1>4. /\ ReqsOk' /\ req[p].at # "sessions" /\ req'[p].at \notin {"sessions", "confirm"}
      /\ OthersSame(p) /\ UNCHANGED <<sessions, links, firsts, proven>>
  BY SubmitParts DEF AccInv, OthersSame
<1>5. req'[p].at # "take"
  <2>1. PICK d \in {Idle, [Idle EXCEPT !.op = "add", !.at = "ask", !.user = ids + 1]} : req' = [req EXCEPT ![p] = d]
    BY DEF AddUser, Begins
  <2>2. d.at # "take"
    BY IdleOk DEF ReqType
  <2> QED BY <2>1, <2>2, AtParts DEF ReqsOk
<1>6. ids + 1 \in Ids /\ NewUser(ids + 1, row) /\ firsts' \in Nat /\ firsts' <= 1
  BY <1>1, <1>4 DEF AddUser, AccInv, GlobalInv, AGlobalAlways
<1> HIDE DEF row
<1> QED BY <1>2, <1>3, <1>4, <1>5, <1>6, RowAdded

LEMMA SubmitStep ==
    ASSUME AccInv, NEW p \in Reqs, Submits(p)
    PROVE  AccInv'
<1>1. /\ ReqsOk' /\ req[p].at = "idle" /\ req'[p].at \notin {"sessions", "confirm"}
      /\ OthersSame(p)
      /\ req'[p].at = "take" => Opened(req'[p])
      /\ UNCHANGED <<sessions, links, firsts, proven>>
      /\ AddUser(p) \/ UNCHANGED <<users, ids>>
  BY SubmitParts DEF AccInv, OthersSame
<1>2. CASE UNCHANGED <<users, ids>>
  <2>1. UsersOk' /\ GlobalInv' /\ ConfirmedMeansProven' /\ Known' = Known
    BY <1>1, <1>2, SameUsers
  <2>2. SessionsOk' /\ LinksOk'
    BY <1>1, <2>1, AtParts DEF SessionsOk, LinksOk
  <2>3. OldSessionsEnd'
    BY <1>1, <1>2, OldKept DEF AccInv
  <2>4. \A q \in Reqs : Proven(req[q])' /\ OpenedStill(req[q])'
    <3>1. Proven(req[p])' /\ OpenedStill(req[p])'
      BY <1>1 DEF Proven, OpenedStill, Opened
    <3>2. ASSUME NEW q \in Reqs \ {p} PROVE Proven(req[q])' /\ OpenedStill(req[q])'
      BY <1>1 DEF OthersSame, AccInv, LinkInv, Proven, OpenedStill, Opened
    <3> QED BY <3>1, <3>2
  <2> QED BY <1>1, <2>1, <2>2, <2>3, <2>4 DEF AccInv, AccTyped, LinkInv
<1> QED BY <1>1, <1>2, AddUserStep

\* An address is written over.
LEMMA EmailWritten ==
    ASSUME NEW row \in UserRow, NEW email \in Emails
    PROVE  /\ WithEmail(row, email) \in UserRow
           /\ WithEmail(row, email).role = row.role /\ WithEmail(row, email).pw = row.pw
           /\ WithEmail(row, email).email = email
           /\ WithEmail(row, email).confirmed => row.confirmed /\ row.email = email
  BY DEF WithEmail, KeepConfirmed, UserRow

\* A step that ends a request, or sends it on, and writes nothing.
LEMMA NothingWritten ==
    ASSUME AccInv, NEW p \in Reqs, OthersSame(p), ReqsOk', UNCHANGED <<users, ids, firsts>>,
           proven \subseteq proven',
           UNCHANGED sessions \/ SessionsOk', LinksOk' \/ UNCHANGED links, LinksStay,
           req'[p].at # "take", req'[p].at = "confirm" => <<req'[p].user, req'[p].email>> \in proven',
           OldSessionsEnd'
    PROVE  AccInv'
<1>1. UsersOk' /\ GlobalInv' /\ ConfirmedMeansProven' /\ Known' = Known
  BY SameUsers
<1>2. SessionsOk'
  BY <1>1, AtParts DEF SessionsOk
<1>3. LinksOk'
  BY <1>1, AtParts DEF LinksOk
<1>4. \A q \in Reqs : Proven(req[q])' /\ OpenedStill(req[q])'
  BY OpenedKept DEF AccInv
<1> QED BY <1>1, <1>2, <1>3, <1>4 DEF AccInv, AccTyped, LinkInv

\* A request ends, and nothing is written.
LEMMA EndsOnly ==
    ASSUME AccInv, NEW p \in Reqs, Ends(p), req[p].at # "sessions",
           UNCHANGED <<users, ids, firsts, proven, sessions, links>>
    PROVE  AccInv'
<1>1. ReqsOk' /\ req'[p].at = "idle" /\ OthersSame(p)
  BY AtParts, ReqEnds DEF OthersSame
<1>2. LinksStay
  BY DEF LinksStay
<1>3. OldSessionsEnd'
  BY <1>1, OldKept DEF AccInv
<1> QED BY <1>1, <1>2, <1>3, NothingWritten

LEMMA SaveUserStep ==
    ASSUME AccInv, NEW p \in Reqs, SaveUser(p)
    PROVE  AccInv'
<1> DEFINE r == req[p]
           row == [WithEmail(users[r.user], r.email) EXCEPT
                     !.role = r.role, !.pw = IF r.pw THEN NewPassword ELSE @]
           after == [users EXCEPT ![r.user] = row]
<1>0. /\ r.at = "save" /\ r.user \in Ids /\ r \in ReqType
      /\ UNCHANGED <<sessions, links, ids, firsts, proven>>
  BY AtParts DEF SaveUser, At, history
<1>1. CASE ~ (Exists(r.user) /\ RequireAGlobal(after))
  <2>1. Ends(p) /\ UNCHANGED users
    BY <1>1 DEF SaveUser
  <2> QED BY <1>0, <2>1, EndsOnly
<1>2. CASE Exists(r.user) /\ RequireAGlobal(after)
  <2>0. r.email \in Emails /\ r.role \in Roles /\ r.pw \in BOOLEAN
    BY <1>0 DEF ReqType
  <2>1. users' = after /\ IF NextAfterSave(r) = "idle" THEN Ends(p) ELSE Goes(p, NextAfterSave(r))
    BY <1>2 DEF SaveUser
  <2>2. r.user \in Known /\ users[r.user] \in UserRow
    BY <1>0, <1>2, AtParts
  <2>3. /\ row \in UserRow /\ (row.pw = users[r.user].pw \/ r.pw)
        /\ row.confirmed => users[r.user].confirmed /\ users[r.user].email = row.email
    <3> DEFINE e == WithEmail(users[r.user], r.email)
    <3>1. /\ e \in UserRow /\ e.pw = users[r.user].pw /\ e.email = r.email
          /\ e.confirmed => users[r.user].confirmed /\ users[r.user].email = r.email
      BY <2>0, <2>2, EmailWritten
    <3> HIDE DEF e
    <3>2. NewPassword \in Nat \ {0}
      BY NewOnes DEF AccInv
    <3> DEFINE d == [[e EXCEPT !.role = r.role] EXCEPT !.pw = IF r.pw THEN NewPassword ELSE e.pw]
    <3>3. d \in UserRow /\ (d.pw = e.pw \/ r.pw) /\ d.confirmed = e.confirmed /\ d.email = e.email
      BY <2>0, <3>1, <3>2 DEF UserRow
    <3>4. row = d
      BY <3>1 DEF e, UserRow
    <3> HIDE DEF d
    <3> QED BY <3>1, <3>3, <3>4
  <2>4. /\ ReqsOk' /\ OthersSame(p) /\ req'[p].at \notin {"take", "confirm"}
        /\ r.pw => req'[p].at = "sessions" /\ req'[p].user = r.user
    <3>1. NextAfterSave(r) \in {"sessions", "ask", "idle"} /\ (r.pw => NextAfterSave(r) = "sessions")
      BY DEF NextAfterSave
    <3>2. CASE NextAfterSave(r) = "idle"
      BY <2>1, <3>1, <3>2, AtParts, ReqEnds DEF OthersSame
    <3>3. CASE NextAfterSave(r) # "idle"
      <4> DEFINE x == NextAfterSave(r)
      <4>1. x \in {"sessions", "ask"} /\ Goes(p, x)
        BY <2>1, <3>1, <3>3
      <4> HIDE DEF x
      <4>2. /\ ReqsOk' /\ req'[p].at = x /\ \A q \in Reqs \ {p} : req'[q] = req[q]
            /\ req'[p].user = req[p].user
        BY <1>0, <4>1, AtParts, ReqGoes
      <4> QED BY <3>1, <4>1, <4>2 DEF OthersSame, x
    <3> QED BY <3>2, <3>3
  <2>5. LinksOk'
    <3>1. Known' = Known
      BY <2>1, <2>2, <2>3, NoneIsNoUser, AtParts DEF Known, Exists, UsersOk
    <3> QED BY <1>0, <3>1, AtParts DEF LinksOk
  <2>6. row.confirmed => <<r.user, row.email>> \in proven
    BY <2>2, <2>3 DEF AccInv, LinkInv, ConfirmedMeansProven
  <2>7. LinksStay
    BY <1>0 DEF LinksStay
  <2>8. RequireAGlobal(users') /\ users' = [users EXCEPT ![r.user] = row]
    BY <1>2, <2>1
  <2>9. row.pw = users[r.user].pw \/ (req'[p].at = "sessions" /\ req'[p].user = r.user)
    BY <2>3, <2>4
  <2> HIDE DEF row
  <2> QED BY <1>0, <2>2, <2>3, <2>4, <2>5, <2>6, <2>7, <2>8, <2>9, RowWritten
<1> QED BY <1>1, <1>2

\* A row of the table is there after a write of it.
LEMMA KnownStay ==
    ASSUME AccInv, NEW u \in Known, NEW row \in UserRow, users' = [users EXCEPT ![u] = row], UNCHANGED links
    PROVE  LinksOk' /\ LinksStay
<1>1. /\ users \in [Ids -> UserRow \cup {None}] /\ u \in Ids /\ users[u] # None /\ row # None
  BY NoneIsNoUser DEF AccInv, AccTyped, UsersOk, Known, Exists
<1>2. Known' = Known
  BY <1>1 DEF Known, Exists
<1> QED BY <1>2 DEF AccInv, AccTyped, LinksOk, LinksStay

LEMMA ProfileStep ==
    ASSUME AccInv, NEW p \in Reqs, UpdateUserProfile(p)
    PROVE  AccInv'
<1> DEFINE r == req[p]
           row == WithEmail(users[r.user], r.email)
<1>0. /\ r.at = "profile" /\ r.user \in Ids /\ r.email \in Emails
      /\ UNCHANGED <<sessions, links, ids, firsts, proven>>
  BY AtParts DEF UpdateUserProfile, At, history, ReqType
<1>1. ReqsOk' /\ OthersSame(p) /\ req'[p].at \in {"idle", "ask"}
  <2>1. Ends(p) \/ Goes(p, "ask")
    BY DEF UpdateUserProfile
  <2> QED BY <1>0, <2>1, AtParts, ReqEnds, ReqGoes DEF OthersSame
<1>2. CASE ~ Exists(r.user)
  <2>1. Ends(p) /\ UNCHANGED users
    BY <1>2 DEF UpdateUserProfile
  <2> QED BY <1>0, <2>1, EndsOnly
<1>3. CASE Exists(r.user)
  <2>1. users' = [users EXCEPT ![r.user] = row]
    BY <1>3 DEF UpdateUserProfile
  <2>2. r.user \in Known /\ users[r.user] \in UserRow
    BY <1>0, <1>3, AtParts
  <2>3. /\ row \in UserRow /\ row.role = users[r.user].role /\ row.pw = users[r.user].pw
        /\ row.confirmed => users[r.user].confirmed /\ users[r.user].email = row.email
    BY <1>0, <2>2, EmailWritten
  <2>4. row.confirmed => <<r.user, row.email>> \in proven
    BY <2>2, <2>3 DEF AccInv, LinkInv, ConfirmedMeansProven
  <2> HIDE DEF row
  <2>5. LinksOk' /\ LinksStay
    BY <1>0, <2>1, <2>2, <2>3, KnownStay
  <2> QED BY <1>0, <1>1, <2>1, <2>2, <2>3, <2>4, <2>5, RowWritten
<1> QED BY <1>2, <1>3

LEMMA PasswordStep ==
    ASSUME AccInv, NEW p \in Reqs, UpdateUser(p)
    PROVE  AccInv'
<1> DEFINE r == req[p]
           e == WithEmail(users[r.user], r.was)
           row == [e EXCEPT !.pw = NewPassword]
<1>0. /\ r.at = "password" /\ r.user \in Ids /\ r.was \in Emails
      /\ UNCHANGED <<sessions, links, ids, firsts, proven>>
  BY AtParts DEF UpdateUser, At, history, ReqType
<1>1. CASE ~ Exists(r.user)
  <2>1. Ends(p) /\ UNCHANGED users
    BY <1>1 DEF UpdateUser
  <2> QED BY <1>0, <2>1, EndsOnly
<1>2. CASE Exists(r.user)
  <2>1. users' = [users EXCEPT ![r.user] = row] /\ Goes(p, "sessions")
    BY <1>2 DEF UpdateUser
  <2>2. r.user \in Known /\ users[r.user] \in UserRow
    BY <1>0, <1>2, AtParts
  <2>3. /\ e \in UserRow /\ e.role = users[r.user].role
        /\ e.confirmed => users[r.user].confirmed /\ users[r.user].email = e.email
    BY <1>0, <2>2, EmailWritten
  <2>4. NewPassword \in Nat \ {0}
    BY NewOnes DEF AccInv
  <2> HIDE DEF e
  <2>5. /\ row \in UserRow /\ row.role = users[r.user].role
        /\ row.confirmed => users[r.user].confirmed /\ users[r.user].email = row.email
    BY <2>3, <2>4 DEF UserRow
  <2>6. row.confirmed => <<r.user, row.email>> \in proven
    BY <2>2, <2>5 DEF AccInv, LinkInv, ConfirmedMeansProven
  <2> HIDE DEF row
  <2>7. LinksOk' /\ LinksStay
    BY <1>0, <2>1, <2>2, <2>5, KnownStay
  <2>8. ReqsOk' /\ OthersSame(p) /\ req'[p].at = "sessions" /\ req'[p].user = r.user
    BY <1>0, <2>1, AtParts, ReqGoes DEF OthersSame
  <2> QED BY <1>0, <2>1, <2>2, <2>5, <2>6, <2>7, <2>8, RowWritten
<1> QED BY <1>1, <1>2

LEMMA ConfirmStep ==
    ASSUME AccInv, NEW p \in Reqs, ConfirmEmail(p)
    PROVE  AccInv'
<1> DEFINE r == req[p]
           row == [users[r.user] EXCEPT !.confirmed = TRUE]
<1>0. /\ r.at = "confirm" /\ r.user \in Ids /\ Ends(p)
      /\ UNCHANGED <<sessions, links, ids, firsts, proven>>
  BY AtParts DEF ConfirmEmail, At, history
<1>1. CASE ~ (Exists(r.user) /\ AddressStill(users[r.user], r.email))
  <2>1. UNCHANGED users
    BY <1>1 DEF ConfirmEmail
  <2> QED BY <1>0, <2>1, EndsOnly
<1>2. CASE Exists(r.user) /\ AddressStill(users[r.user], r.email)
  <2>1. users' = [users EXCEPT ![r.user] = row]
    BY <1>2 DEF ConfirmEmail
  <2>2. r.user \in Known /\ users[r.user] \in UserRow
    BY <1>0, <1>2, AtParts
  <2>3. /\ row \in UserRow /\ row.role = users[r.user].role /\ row.pw = users[r.user].pw
        /\ row.email = users[r.user].email
    BY <2>2 DEF UserRow
  <2>4. <<r.user, row.email>> \in proven
    BY <1>0, <1>2, <2>3 DEF AccInv, LinkInv, Proven, AddressStill
  <2> HIDE DEF row
  <2>5. LinksOk' /\ LinksStay
    BY <1>0, <2>1, <2>2, <2>3, KnownStay
  <2>6. ReqsOk' /\ OthersSame(p) /\ req'[p].at = "idle"
    BY <1>0, AtParts, ReqEnds DEF OthersSame
  <2> QED BY <1>0, <2>1, <2>2, <2>3, <2>4, <2>5, <2>6, RowWritten
<1> QED BY <1>1, <1>2

LEMMA CreateSessionStep ==
    ASSUME AccInv, NEW p \in Reqs, CreateSession(p)
    PROVE  AccInv'
<1> DEFINE r == req[p]
<1>0. /\ r.at = "create" /\ r.user \in Ids /\ r.hash \in Nat \ {0} /\ Ends(p)
      /\ UNCHANGED <<users, links, ids, firsts, proven>>
  BY AtParts DEF CreateSession, At, history, ReqType, ReqOk
<1>1. ReqsOk' /\ OthersSame(p) /\ req'[p].at = "idle"
  BY <1>0, AtParts, ReqEnds DEF OthersSame
<1>2. PICK old :
        sessions' = IF Exists(r.user)
                    THEN With(Without(sessions, old), NewToken,
                              [user |-> r.user, pw |-> r.hash, spared |-> users[r.user].pw # r.hash])
                    ELSE Without(sessions, old)
  BY DEF CreateSession
<1> DEFINE w == Without(sessions, old)
           d == [user |-> r.user, pw |-> r.hash, spared |-> users[r.user].pw # r.hash]
<1>3. /\ Table(w, SessionType) /\ DOMAIN w = DOMAIN sessions \ old
      /\ \A s \in DOMAIN w : s \in DOMAIN sessions /\ w[s] = sessions[s]
  <2>1. /\ Table(w, SessionType) /\ DOMAIN w = DOMAIN sessions \ old
        /\ \A s \in DOMAIN sessions \ old : w[s] = sessions[s]
    BY AtParts, WithoutTable
  <2> HIDE DEF w
  <2> QED BY <2>1
<1>4. d \in SessionType /\ d.user = r.user /\ (d.spared \/ d.pw = users[d.user].pw)
  BY <1>0 DEF SessionType
<1>5. sessions' = IF Exists(r.user) THEN With(w, NewToken, d) ELSE w
  BY <1>2
<1> HIDE DEF w, d
<1>6. /\ Table(sessions', SessionType)
      /\ \A s \in DOMAIN sessions' : \/ s \in DOMAIN sessions /\ sessions'[s] = sessions[s]
                                     \/ sessions'[s] = d /\ Exists(r.user)
  <2>1. CASE Exists(r.user)
    <3>1. NewToken \in Nat
      BY NewOnes DEF AccInv
    <3>2. /\ Table(With(w, NewToken, d), SessionType) /\ DOMAIN With(w, NewToken, d) = DOMAIN w \cup {NewToken}
          /\ With(w, NewToken, d)[NewToken] = d
          /\ \A z \in DOMAIN w \ {NewToken} : With(w, NewToken, d)[z] = w[z]
      <4>1. Table(w, SessionType) /\ d \in SessionType
        BY <1>3, <1>4
      <4>2. Table(With(w, NewToken, d), SessionType)
        BY <3>1, <4>1, WithTable
      <4>3. DOMAIN With(w, NewToken, d) = DOMAIN w \cup {NewToken} /\ With(w, NewToken, d)[NewToken] = d
        BY DEF With
      <4>4. \A z \in DOMAIN w \ {NewToken} : With(w, NewToken, d)[z] = w[z]
        BY DEF With
      <4> QED BY <4>2, <4>3, <4>4
    <3>3. sessions' = With(w, NewToken, d)
      BY <1>5, <2>1
    <3> QED BY <1>3, <2>1, <3>2, <3>3
  <2>2. CASE ~ Exists(r.user)
    BY <1>3, <1>5, <2>2
  <2> QED BY <2>1, <2>2
<1>7. SessionsOk'
  <2>1. Known' = Known
    BY <1>0 DEF Known, Exists
  <2>2. Exists(r.user) => r.user \in Known
    BY <1>0 DEF Known
  <2> QED BY <1>4, <1>6, <2>1, <2>2, AtParts DEF SessionsOk
<1>8. OldSessionsEnd'
  BY <1>0, <1>1, <1>4, <1>6, OldKept DEF AccInv
<1>9. LinksStay
  BY <1>0 DEF LinksStay
<1> QED BY <1>0, <1>1, <1>7, <1>8, <1>9, NothingWritten

LEMMA SetupStep ==
    ASSUME AccInv, NEW p \in Reqs, CreateGlobalUser(p)
    PROVE  AccInv'
<1> DEFINE row == User("global", NoAddr, FALSE, NewPassword)
<1>0. /\ req[p].at = "first" /\ Ends(p) /\ UNCHANGED <<sessions, links, proven>>
  BY DEF CreateGlobalUser, At
<1>1. CASE ~ (Known = {} /\ ids + 1 \in Ids)
  <2>1. UNCHANGED <<users, ids, firsts>>
    BY <1>1 DEF CreateGlobalUser
  <2> QED BY <1>0, <2>1, EndsOnly
<1>2. CASE Known = {} /\ ids + 1 \in Ids
  <2>1. NewUser(ids + 1, row) /\ firsts' = firsts + 1
    BY <1>2 DEF CreateGlobalUser
  <2>2. firsts = 0
    <3>1. ids \in Nat
      BY AccountsConstants, FS_CardinalityType, AtParts DEF UsersOk
    <3>2. ~ (ids > 0)
      BY <1>2 DEF AccInv, GlobalInv, AGlobalAlways
    <3> QED BY <3>1, <3>2 DEF AccInv, GlobalInv
  <2>3. row \in UserRow /\ ~ row.confirmed /\ row.role = "global"
    BY NewOnes DEF AccInv, User, UserRow, Roles, Emails
  <2>4. ReqsOk' /\ OthersSame(p) /\ req'[p].at = "idle"
    BY <1>0, AtParts, ReqEnds DEF OthersSame
  <2> HIDE DEF row
  <2> QED BY <1>0, <1>2, <2>1, <2>2, <2>3, <2>4, RowAdded
<1> QED BY <1>1, <1>2

LEMMA DeleteUserStep ==
    ASSUME AccInv, NEW p \in Reqs, DeleteUser(p)
    PROVE  AccInv'
<1> DEFINE u == req[p].user
           after == [users EXCEPT ![u] = None]
<1>0. /\ req[p].at = "delete" /\ u \in Ids /\ Ends(p) /\ UNCHANGED <<ids, firsts, proven>>
  BY AtParts DEF DeleteUser, At, history
<1>1. CASE ~ (Exists(u) /\ RequireAGlobal(after))
  <2>1. UNCHANGED base
    BY <1>1 DEF DeleteUser
  <2> QED BY <1>0, <2>1, EndsOnly DEF base
<1>2. CASE Exists(u) /\ RequireAGlobal(after)
  <2>1. users' = after /\ sessions' = Cascade(sessions, u) /\ links' = Cascade(links, u)
    BY <1>2 DEF DeleteUser
  <2>2. /\ users \in [Ids -> UserRow \cup {None}] /\ ids \in Ids \cup {0} /\ Known \subseteq 1..ids
    BY AtParts DEF UsersOk
  <2>3. Known' = Known \ {u} /\ \A v \in Known' : users'[v] = users[v]
    BY <1>0, <2>1, <2>2 DEF Known, Exists
  <2>4. UsersOk'
    BY <1>0, <2>1, <2>2, <2>3 DEF UsersOk
  <2>5. /\ SessionsOk'
        /\ \A s \in DOMAIN sessions' : s \in DOMAIN sessions /\ sessions'[s] = sessions[s] /\ sessions[s].user # u
    <3> DEFINE gone == {x \in DOMAIN sessions : sessions[x].user = u}
               w == Without(sessions, gone)
    <3>1. /\ Table(w, SessionType) /\ DOMAIN w = DOMAIN sessions \ gone
          /\ \A x \in DOMAIN sessions \ gone : w[x] = sessions[x]
      BY AtParts, WithoutTable
    <3>2. sessions' = w
      BY <2>1 DEF Cascade
    <3> HIDE DEF w
    <3> QED BY <2>3, <3>1, <3>2, AtParts DEF SessionsOk
  <2>6. /\ LinksOk'
        /\ \A l \in DOMAIN links' : l \in DOMAIN links /\ links'[l] = links[l] /\ links[l].user # u
    <3> DEFINE gone == {x \in DOMAIN links : links[x].user = u}
               w == Without(links, gone)
    <3>1. /\ Table(w, LinkType) /\ DOMAIN w = DOMAIN links \ gone
          /\ \A x \in DOMAIN links \ gone : w[x] = links[x]
      BY AtParts, WithoutTable
    <3>2. links' = w
      BY <2>1 DEF Cascade
    <3> HIDE DEF w
    <3> QED BY <2>3, <3>1, <3>2, AtParts DEF LinksOk
  <2>7. ReqsOk' /\ OthersSame(p) /\ req'[p].at = "idle"
    BY <1>0, AtParts, ReqEnds DEF OthersSame
  <2>8. GlobalInv'
    <3>1. \E v \in Known' : users'[v].role = "global"
      BY <1>2, <2>1 DEF RequireAGlobal, Known, Exists
    <3> QED BY <1>0, <3>1 DEF AccInv, GlobalInv, AGlobalAlways
  <2>9. OldSessionsEnd'
    <3>1. SUFFICES ASSUME NEW s \in DOMAIN sessions', sessions'[s].pw # users'[sessions'[s].user].pw,
                          ~ sessions'[s].spared
                   PROVE  \E q \in Reqs : req'[q].at = "sessions" /\ req'[q].user = sessions'[s].user
      BY DEF OldSessionsEnd, At
    <3>2. /\ s \in DOMAIN sessions /\ sessions'[s] = sessions[s] /\ sessions[s].user # u
          /\ sessions[s].user \in Known
      BY <2>5, AtParts DEF SessionsOk
    <3>3. users'[sessions[s].user] = users[sessions[s].user]
      BY <2>3, <3>2
    <3>4. PICK q \in Reqs : req[q].at = "sessions" /\ req[q].user = sessions[s].user
      BY <3>1, <3>2, <3>3 DEF AccInv, OldSessionsEnd, At
    <3> QED BY <1>0, <2>7, <3>2, <3>4 DEF OthersSame
  <2>10. LinkInv'
    <3>1. LinksStay
      BY <2>6 DEF LinksStay
    <3>2. \A q \in Reqs : Proven(req[q])' /\ OpenedStill(req[q])'
      BY <1>0, <2>7, <3>1, OpenedKept DEF AccInv
    <3>3. ConfirmedMeansProven'
      BY <1>0, <2>3 DEF AccInv, LinkInv, ConfirmedMeansProven
    <3> QED BY <3>2, <3>3 DEF LinkInv
  <2> QED BY <2>4, <2>5, <2>6, <2>7, <2>8, <2>9, <2>10 DEF AccInv, AccTyped
<1> QED BY <1>1, <1>2

\* The sessions of a user are spared, or end.
LEMMA SparedOk ==
    ASSUME AccInv, NEW p \in Reqs, UNCHANGED users, OthersSame(p), NEW gone, NEW S,
           sessions' = Spare(Without(sessions, gone), S),
           SessionsOf(req[p].user) \subseteq gone \cup S
    PROVE  SessionsOk' /\ OldSessionsEnd'
<1> DEFINE w == Without(sessions, gone)
<1>1. /\ Table(w, SessionType) /\ DOMAIN w = DOMAIN sessions \ gone
      /\ \A x \in DOMAIN sessions \ gone : w[x] = sessions[x]
  BY AtParts, WithoutTable
<1> HIDE DEF w
<1>2. /\ Table(Spare(w, S), SessionType) /\ DOMAIN Spare(w, S) = DOMAIN w
      /\ \A x \in DOMAIN w : /\ Spare(w, S)[x].user = w[x].user /\ Spare(w, S)[x].pw = w[x].pw
                             /\ x \in S => Spare(w, S)[x].spared
                             /\ x \notin S => Spare(w, S)[x] = w[x]
  BY <1>1, SpareTable
<1>3. sessions' = Spare(w, S)
  BY DEF w
<1>4. Table(sessions', SessionType)
      /\ \A x \in DOMAIN sessions' : /\ x \in DOMAIN sessions /\ x \notin gone
                                     /\ sessions'[x].user = sessions[x].user /\ sessions'[x].pw = sessions[x].pw
                                     /\ sessions'[x].spared \/ (x \notin S /\ sessions'[x] = sessions[x])
  BY <1>1, <1>2, <1>3
<1>5. SessionsOk'
  <2>1. Known' = Known
    BY DEF Known, Exists
  <2> QED BY <1>4, <2>1, AtParts DEF SessionsOk
<1>6. OldSessionsEnd'
  <2>1. \A x \in DOMAIN sessions' : ~ sessions'[x].spared => sessions[x].user # req[p].user
    BY <1>4 DEF SessionsOf
  <2> QED BY <1>4, <2>1, OldKept DEF AccInv
<1> QED BY <1>5, <1>6

LEMMA AfterParts ==
    ASSUME AccInv, NEW p \in Reqs, req[p].at \in {"sessions", "links"},
           AfterSessions(p) \/ AfterLinks(p)
    PROVE  ReqsOk' /\ OthersSame(p) /\ req'[p].at \notin {"take", "confirm"}
<1>1. Ends(p) \/ Goes(p, "links") \/ Goes(p, "ask")
  BY DEF AfterSessions, AfterLinks
<1> QED BY <1>1, AtParts, ReqEnds, ReqGoes DEF OthersSame

LEMMA DestroyStep ==
    ASSUME AccInv, NEW p \in Reqs, DestroySessions(p)
    PROVE  AccInv'
<1>1. /\ ReqsOk' /\ OthersSame(p) /\ req'[p].at \notin {"take", "confirm"}
      /\ UNCHANGED <<users, links, ids, firsts, proven>>
  BY AfterParts DEF DestroySessions, At, history
<1>2. sessions' = Spare(Without(sessions, Ended(p)), Stays(p))
  BY DEF DestroySessions
<1>3. SessionsOf(req[p].user) \subseteq Ended(p) \cup Stays(p)
  BY DEF Ended
<1>4. SessionsOk' /\ OldSessionsEnd'
  BY <1>1, <1>2, <1>3, SparedOk
<1>5. LinksStay
  BY <1>1 DEF LinksStay
<1> QED BY <1>1, <1>4, <1>5, NothingWritten

\* Links go.
LEMMA LinksGo ==
    ASSUME AccInv, NEW S, links' = Without(links, S)
    PROVE  /\ LinksStay /\ (Known' = Known => LinksOk')
           /\ DOMAIN links' = DOMAIN links \ S /\ \A l \in DOMAIN links' : links'[l] = links[l]
<1>1. /\ Table(links', LinkType) /\ DOMAIN links' = DOMAIN links \ S
      /\ \A l \in DOMAIN links \ S : links'[l] = links[l]
  BY WithoutTable DEF AccInv, AccTyped, LinksOk
<1> QED BY <1>1 DEF AccInv, AccTyped, LinksOk, LinksStay

LEMMA DeleteLinksStep ==
    ASSUME AccInv, NEW p \in Reqs, DeleteUserLinks(p)
    PROVE  AccInv'
<1>0. /\ req[p].at = "links" /\ UNCHANGED <<users, sessions, ids, firsts, proven>>
  BY DEF DeleteUserLinks, At, history
<1>1. ReqsOk' /\ OthersSame(p) /\ req'[p].at \notin {"take", "confirm"}
  BY AfterParts DEF DeleteUserLinks, At
<1>2. LinksStay /\ LinksOk'
  <2>1. Known' = Known
    BY <1>0 DEF Known, Exists
  <2> QED BY <2>1, LinksGo DEF DeleteUserLinks
<1>3. OldSessionsEnd'
  BY <1>0, <1>1, OldKept DEF AccInv
<1> QED BY <1>0, <1>1, <1>2, <1>3, NothingWritten

LEMMA AskStep ==
    ASSUME AccInv, NEW p \in Reqs, SendConfirmation(p)
    PROVE  AccInv'
<1> DEFINE r == req[p]
           row == users[r.user]
           w == row.email
           d == [Idle EXCEPT !.op = "mail", !.at = "confirmation", !.user = r.user, !.was = w]
<1>0. /\ r.at = "ask" /\ r.user \in Ids
      /\ UNCHANGED <<users, sessions, links, ids, firsts, proven>>
  BY AtParts DEF SendConfirmation, At, base, history
<1>1. CASE Ends(p)
  BY <1>0, <1>1, EndsOnly
<1>2. CASE ~ Ends(p)
  <2>1. row # None /\ row.email # NoAddr /\ req' = [req EXCEPT ![p] = d]
    BY <1>2 DEF SendConfirmation
  <2>2. w \in Addrs /\ w \in Emails
    BY <1>0, <2>1, AtParts DEF Exists, UserRow, Emails
  <2>3. req' = [req EXCEPT ![p] = d]
    BY <2>1
  <2> HIDE DEF w
  <2>4. d \in ReqType /\ d.at = "confirmation" /\ d.user = r.user /\ d.was = w
    BY <1>0, <2>2, IdleOk DEF ReqType, Stages, Operations
  <2> HIDE DEF d
  <2>5. ReqOk(d)
    BY <1>0, <2>2, <2>4 DEF ReqOk
  <2>6. ReqsOk' /\ OthersSame(p) /\ req'[p].at = "confirmation"
    BY <2>3, <2>4, <2>5, AtParts, ReqPut DEF OthersSame
  <2>7. LinksStay
    BY <1>0 DEF LinksStay
  <2>8. OldSessionsEnd'
    BY <1>0, <2>6, OldKept DEF AccInv
  <2> QED BY <1>0, <2>6, <2>7, <2>8, NothingWritten
<1> QED BY <1>1, <1>2

LEMMA WithLink ==
    ASSUME NEW f, Table(f, LinkType), NEW x \in Nat, NEW y \in LinkType
    PROVE  /\ Table(With(f, x, y), LinkType) /\ DOMAIN With(f, x, y) = DOMAIN f \cup {x}
           /\ With(f, x, y)[x] = y
           /\ \A z \in DOMAIN f \ {x} : With(f, x, y)[z] = f[z]
<1> DEFINE T == LinkType
<1>1. Table(f, T) /\ y \in T
  OBVIOUS
<1> HIDE DEF T
<1>2. Table(With(f, x, y), T)
  BY <1>1, WithTable
<1>3. DOMAIN With(f, x, y) = DOMAIN f \cup {x} /\ With(f, x, y)[x] = y
  BY DEF With
<1>4. \A z \in DOMAIN f \ {x} : With(f, x, y)[z] = f[z]
  BY DEF With
<1> QED BY <1>2, <1>3, <1>4 DEF T

\* A link of a user there is, to an address, with a token nobody holds.
LEMMA LinkMade ==
    ASSUME AccInv, NEW p \in Reqs, NEW sent \in BOOLEAN, MakesLink(p, sent), UNCHANGED users
    PROVE  LinksOk' /\ LinksStay /\ req[p].at \in {"confirmation", "mailreset"}
<1> DEFINE r == req[p]
<1>1. PICK purpose \in {"confirm", "reset"} : \E gone :
        /\ r.at \in {"confirmation", "mailreset"}
        /\ NewLink(p, purpose, gone, sent)
  <2>1. CASE At(p, "confirmation") /\ NewLink(p, "confirm", LinksOf(r.user, "confirm"), sent)
    BY <2>1 DEF At
  <2>2. CASE At(p, "mailreset") /\ NewLink(p, "reset", {}, sent)
    BY <2>2 DEF At
  <2> QED BY <2>1, <2>2 DEF MakesLink
<1>0. PICK gone :
        /\ r.at \in {"confirmation", "mailreset"}
        /\ NewLink(p, purpose, gone, sent)
  BY <1>1
<1> DEFINE w == Without(links, gone)
           d == [user |-> r.user, purpose |-> purpose, email |-> r.was,
                 mailed |-> sent, recent |-> purpose = "reset"]
<1>2. r.user \in Ids /\ r.was \in Addrs
  BY <1>0, AtParts DEF ReqOk
<1>3. d \in LinkType /\ d.user = r.user
  BY <1>2 DEF LinkType
<1>4. /\ Table(w, LinkType) /\ DOMAIN w = DOMAIN links \ gone
      /\ \A x \in DOMAIN links \ gone : w[x] = links[x]
  BY AtParts, WithoutTable
<1>5. links' = IF Exists(r.user) THEN With(w, NewLinkToken, d) ELSE links
  BY <1>0 DEF NewLink
<1>6. Known' = Known
  BY DEF Known, Exists
<1> HIDE DEF w, d
<1>7. CASE ~ Exists(r.user)
  BY <1>0, <1>5, <1>6, <1>7, AtParts DEF LinksOk, LinksStay
<1>8. CASE Exists(r.user)
  <2>1. NewLinkToken \in Nat /\ NewLinkToken \notin DOMAIN links /\ \A q \in Reqs : NewLinkToken # req[q].link
    BY NewOnes DEF AccInv
  <2> DEFINE n == NewLinkToken
             made == With(w, n, d)
  <2>2. Table(made, LinkType) /\ DOMAIN made = DOMAIN w \cup {n} /\ made[n] = d /\ \A z \in DOMAIN w \ {n} : made[z] = w[z]
    <3>1. Table(w, LinkType) /\ d \in LinkType /\ n \in Nat
      BY <1>3, <1>4, <2>1
    <3> HIDE DEF n
    <3>2. Table(made, LinkType)
      BY <3>1, WithLink
    <3>3. DOMAIN made = DOMAIN w \cup {n} /\ made[n] = d /\ \A z \in DOMAIN w \ {n} : made[z] = w[z]
      BY DEF With
    <3> QED BY <3>2, <3>3
  <2>3. links' = made
    BY <1>5, <1>8
  <2> HIDE DEF made
  <2>4. /\ Table(links', LinkType)
        /\ \A l \in DOMAIN links' : \/ l \in DOMAIN links /\ links'[l] = links[l]
                                    \/ l = NewLinkToken /\ links'[l] = d
    <3>1. \A l \in DOMAIN links' : l \in DOMAIN w \/ l = NewLinkToken
      BY <2>2, <2>3
    <3>2. \A l \in DOMAIN w : l \in DOMAIN links /\ l # NewLinkToken /\ links'[l] = w[l] /\ w[l] = links[l]
      <4>1. \A l \in DOMAIN w : l \in DOMAIN links /\ l # NewLinkToken /\ w[l] = links[l]
        BY <1>4, <2>1
      <4> QED BY <2>2, <2>3, <4>1
    <3>3. Table(links', LinkType) /\ links'[NewLinkToken] = d
      BY <2>2, <2>3
    <3> QED BY <3>1, <3>2, <3>3
  <2>5. r.user \in Known
    BY <1>2, <1>8 DEF Known
  <2>6. LinksOk'
    BY <1>3, <1>6, <2>4, <2>5, AtParts DEF LinksOk
  <2>7. LinksStay
    BY <2>1, <2>4 DEF LinksStay
  <2> QED BY <1>0, <2>6, <2>7
<1> QED BY <1>7, <1>8

LEMMA CreateLinkStep ==
    ASSUME AccInv, NEW p \in Reqs, CreateUserLink(p)
    PROVE  AccInv'
<1>1. Ends(p) /\ UNCHANGED <<users, sessions, ids, firsts, proven>>
  BY DEF CreateUserLink, history
<1>2. LinksOk' /\ LinksStay /\ req[p].at \in {"confirmation", "mailreset"}
  BY <1>1, LinkMade DEF CreateUserLink
<1>3. ReqsOk' /\ OthersSame(p) /\ req'[p].at = "idle"
  BY <1>1, AtParts, ReqEnds DEF OthersSame
<1>4. OldSessionsEnd'
  BY <1>1, <1>2, <1>3, OldKept DEF AccInv
<1> QED BY <1>1, <1>2, <1>3, <1>4, NothingWritten

LEMMA TakeLinkStep ==
    ASSUME AccInv, NEW p \in Reqs, TakeUserLink(p)
    PROVE  AccInv'
<1> DEFINE r == req[p]
<1>0. /\ r.at = "take" /\ r.op = "confirm" /\ r.user \in Ids
      /\ UNCHANGED <<users, sessions, ids, firsts>>
  BY AtParts DEF TakeUserLink, At
<1>1. CASE r.link \notin DOMAIN links
  <2>1. Ends(p) /\ UNCHANGED <<links, proven>>
    BY <1>1 DEF TakeUserLink
  <2> QED BY <1>0, <2>1, EndsOnly
<1>2. CASE r.link \in DOMAIN links
  <2>1. /\ links' = Without(links, {r.link}) /\ proven' = proven \cup {<<r.user, r.email>>}
        /\ Goes(p, "confirm")
    BY <1>2 DEF TakeUserLink
  <2>2. /\ ReqsOk' /\ req'[p].at = "confirm" /\ OthersSame(p)
        /\ req'[p].user = r.user /\ req'[p].email = r.email
    BY <1>0, <2>1, AtParts, ReqGoes DEF OthersSame
  <2>3. LinksStay /\ LinksOk'
    <3>1. Known' = Known
      BY <1>0 DEF Known, Exists
    <3> QED BY <2>1, <3>1, LinksGo
  <2>4. OldSessionsEnd'
    BY <1>0, <2>2, OldKept DEF AccInv
  <2> QED BY <1>0, <2>1, <2>2, <2>3, <2>4, NothingWritten
<1> QED BY <1>1, <1>2

LEMMA TakeResetStep ==
    ASSUME AccInv, NEW p \in Reqs, TakeResetLink(p)
    PROVE  AccInv'
<1> DEFINE r == req[p]
           row == [users[r.user] EXCEPT !.pw = NewPassword]
<1>0. /\ r.at = "take" /\ r.op = "reset" /\ r.user \in Ids
      /\ UNCHANGED <<sessions, ids, firsts, proven>>
  BY AtParts DEF TakeResetLink, At, history
<1>1. CASE ~ (Exists(r.user) /\ StillHolds(r.link))
  <2>1. Ends(p) /\ UNCHANGED <<users, links>>
    BY <1>1 DEF TakeResetLink
  <2> QED BY <1>0, <2>1, EndsOnly
<1>2. CASE Exists(r.user) /\ StillHolds(r.link)
  <2>1. /\ users' = [users EXCEPT ![r.user] = row]
        /\ links' = Without(links, {r.link} \cup LinksOf(r.user, "reset")) /\ Goes(p, "sessions")
    BY <1>2 DEF TakeResetLink
  <2>2. r.user \in Known /\ users[r.user] \in UserRow
    BY <1>0, <1>2, AtParts
  <2>3. NewPassword \in Nat \ {0}
    BY NewOnes DEF AccInv
  <2>4. /\ row \in UserRow /\ row.role = users[r.user].role
        /\ row.email = users[r.user].email /\ row.confirmed = users[r.user].confirmed
    BY <2>2, <2>3 DEF UserRow
  <2>5. row.confirmed => <<r.user, row.email>> \in proven
    BY <2>2, <2>4 DEF AccInv, LinkInv, ConfirmedMeansProven
  <2> HIDE DEF row
  <2>6. LinksStay /\ LinksOk'
    <3>1. Known' = Known
      BY <2>1, <2>2, <2>4, NoneIsNoUser, AtParts DEF Known, Exists, UsersOk
    <3> QED BY <2>1, <3>1, LinksGo
  <2>7. ReqsOk' /\ OthersSame(p) /\ req'[p].at = "sessions" /\ req'[p].user = r.user
    BY <1>0, <2>1, AtParts, ReqGoes DEF OthersSame
  <2> QED BY <1>0, <2>1, <2>2, <2>4, <2>5, <2>6, <2>7, RowWritten
<1> QED BY <1>1, <1>2

LEMMA FailsStep ==
    ASSUME AccInv, NEW p \in Reqs, CallFails(p)
    PROVE  AccInv'
<1>0. UNCHANGED <<users, ids, firsts, proven>> /\ Known' = Known
  BY DEF CallFails, history, Known, Exists
<1>1. CASE At(p, "sessions") /\ AfterSessions(p)
           /\ sessions' = Spare(sessions, SessionsOf(req[p].user)) /\ UNCHANGED links
  <2>1. ReqsOk' /\ OthersSame(p) /\ req'[p].at \notin {"take", "confirm"}
    BY <1>1, AfterParts DEF At
  <2>2. sessions' = Spare(Without(sessions, {}), SessionsOf(req[p].user))
    <3>1. Without(sessions, {}) = sessions
      BY AtParts DEF Without, Table
    <3> QED BY <1>1, <3>1
  <2>3. SessionsOk' /\ OldSessionsEnd'
    BY <1>0, <2>1, <2>2, SparedOk
  <2>4. LinksStay
    BY <1>1 DEF LinksStay
  <2> QED BY <1>0, <1>1, <2>1, <2>3, <2>4, NothingWritten
<1>2. CASE At(p, "links") /\ AfterLinks(p) /\ UNCHANGED <<sessions, links>>
  <2>1. ReqsOk' /\ OthersSame(p) /\ req'[p].at \notin {"take", "confirm"}
    BY <1>2, AfterParts DEF At
  <2>2. OldSessionsEnd'
    BY <1>0, <1>2, <2>1, OldKept DEF AccInv, At
  <2>3. LinksStay
    BY <1>2 DEF LinksStay
  <2> QED BY <1>0, <1>2, <2>1, <2>2, <2>3, NothingWritten
<1>3. CASE MakesLink(p, FALSE) /\ Ends(p) /\ UNCHANGED sessions
  <2>1. LinksOk' /\ LinksStay /\ req[p].at \in {"confirmation", "mailreset"}
    BY <1>0, <1>3, LinkMade
  <2>2. ReqsOk' /\ OthersSame(p) /\ req'[p].at = "idle"
    BY <1>3, AtParts, ReqEnds DEF OthersSame
  <2>3. OldSessionsEnd'
    BY <1>0, <1>3, <2>1, <2>2, OldKept DEF AccInv
  <2> QED BY <1>0, <1>3, <2>1, <2>2, <2>3, NothingWritten
<1>4. CASE req[p].at \notin {"idle", "sessions", "links"} /\ Ends(p) /\ UNCHANGED <<sessions, links>>
  BY <1>0, <1>4, EndsOnly
<1> QED BY <1>1, <1>2, <1>3, <1>4 DEF CallFails

\* A step that is no request's.
LEMMA QuietStep ==
    ASSUME AccInv, UNCHANGED <<users, ids, firsts, proven, req>>,
           UNCHANGED sessions \/ (\E S : sessions' = Without(sessions, S)),
           LinksOk' \/ UNCHANGED links, LinksStay
    PROVE  AccInv'
<1>1. UsersOk' /\ GlobalInv' /\ ConfirmedMeansProven' /\ Known' = Known
  BY SameUsers
<1>2. SessionsOk' /\ \A s \in DOMAIN sessions' : s \in DOMAIN sessions /\ sessions'[s] = sessions[s]
  <2>1. CASE UNCHANGED sessions
    BY <1>1, <2>1 DEF AccInv, AccTyped, SessionsOk
  <2>2. ASSUME NEW S, sessions' = Without(sessions, S)
        PROVE  SessionsOk' /\ \A s \in DOMAIN sessions' : s \in DOMAIN sessions /\ sessions'[s] = sessions[s]
    <3>1. /\ Table(sessions', SessionType) /\ DOMAIN sessions' = DOMAIN sessions \ S
          /\ \A s \in DOMAIN sessions \ S : sessions'[s] = sessions[s]
      BY <2>2, WithoutTable DEF AccInv, AccTyped, SessionsOk
    <3> QED BY <1>1, <3>1 DEF AccInv, AccTyped, SessionsOk
  <2> QED BY <2>1, <2>2
<1>3. LinksOk'
  BY <1>1 DEF AccInv, AccTyped, LinksOk
<1>4. ReqsOk'
  BY DEF AccInv, AccTyped, ReqsOk
<1>5. OldSessionsEnd'
  BY <1>2 DEF AccInv, OldSessionsEnd, At
<1>6. \A q \in Reqs : Proven(req[q])' /\ OpenedStill(req[q])'
  BY OneKept DEF AccInv
<1> QED BY <1>1, <1>2, <1>3, <1>4, <1>5, <1>6 DEF AccInv, AccTyped, LinkInv

LEMMA SpacingStep ==
    ASSUME AccInv, SpacingPasses
    PROVE  AccInv'
<1>0. /\ UNCHANGED <<users, sessions, ids, req, firsts, proven>> /\ Known' = Known
      /\ links' = [l \in DOMAIN links |-> [links[l] EXCEPT !.recent = FALSE]]
  BY DEF SpacingPasses, history, Known, Exists
<1>1. Table(links, LinkType) /\ \A l \in DOMAIN links : links[l].user \in Known
  BY DEF AccInv, AccTyped, LinksOk
<1>2. ASSUME NEW l \in DOMAIN links
      PROVE  LET d == [links[l] EXCEPT !.recent = FALSE] IN
             /\ d \in LinkType /\ d.user = links[l].user /\ d.purpose = links[l].purpose
             /\ d.email = links[l].email /\ d.mailed = links[l].mailed
  BY <1>1 DEF Table, LinkType
<1>3. /\ DOMAIN links' = DOMAIN links /\ links' = [l \in DOMAIN links' |-> links'[l]]
      /\ \A l \in DOMAIN links : links'[l] = [links[l] EXCEPT !.recent = FALSE]
  BY <1>0
<1>4. \A l \in DOMAIN links : /\ links'[l] \in LinkType /\ links'[l].user = links[l].user
                               /\ links'[l].purpose = links[l].purpose
                               /\ links'[l].email = links[l].email /\ links'[l].mailed = links[l].mailed
  BY <1>2, <1>3
<1>5. Table(links', LinkType)
  BY <1>1, <1>3, <1>4 DEF Table
<1>6. LinksOk' /\ LinksStay
  BY <1>0, <1>1, <1>3, <1>4, <1>5 DEF LinksOk, LinksStay
<1> QED BY <1>0, <1>6, QuietStep

LEMMA KillStep ==
    ASSUME AccInv, Kill
    PROVE  AccInv'
<1> DEFINE cut == UNION {SessionsOf(req[p].user) : p \in {q \in Reqs : At(q, "sessions")}}
<1>0. /\ UNCHANGED <<users, links, ids, firsts, proven>> /\ req' = [p \in Reqs |-> Idle]
      /\ sessions' = Spare(sessions, cut)
  BY DEF Kill, history
<1>1. UsersOk' /\ GlobalInv' /\ ConfirmedMeansProven' /\ Known' = Known
  BY <1>0, SameUsers
<1>2. ReqsOk' /\ \A p \in Reqs : req'[p].at = "idle"
  BY <1>0, IdleOk DEF ReqsOk
<1>3. \A q \in Reqs : req[q].at = "sessions" => SessionsOf(req[q].user) \subseteq cut
  BY DEF At
<1> HIDE DEF cut
<1>4. /\ Table(sessions', SessionType) /\ DOMAIN sessions' = DOMAIN sessions
      /\ \A x \in DOMAIN sessions : /\ sessions'[x].user = sessions[x].user /\ sessions'[x].pw = sessions[x].pw
                                    /\ x \in cut => sessions'[x].spared
                                    /\ x \notin cut => sessions'[x] = sessions[x]
  BY <1>0, SpareTable DEF AccInv, AccTyped, SessionsOk
<1>5. SessionsOk' /\ LinksOk'
  BY <1>0, <1>1, <1>4 DEF AccInv, AccTyped, SessionsOk, LinksOk
<1>6. OldSessionsEnd'
  <2>1. SUFFICES ASSUME NEW s \in DOMAIN sessions', sessions'[s].pw # users[sessions'[s].user].pw,
                        ~ sessions'[s].spared
                 PROVE  FALSE
    BY <1>0 DEF OldSessionsEnd
  <2>2. s \in DOMAIN sessions /\ s \notin cut /\ sessions'[s] = sessions[s]
    BY <1>4, <2>1
  <2>3. PICK q \in Reqs : req[q].at = "sessions" /\ req[q].user = sessions[s].user
    BY <2>1, <2>2 DEF AccInv, OldSessionsEnd, At
  <2> QED BY <1>3, <2>2, <2>3 DEF SessionsOf
<1>7. LinkInv'
  BY <1>1, <1>2 DEF LinkInv, Proven, OpenedStill
<1> QED BY <1>1, <1>2, <1>5, <1>6, <1>7 DEF AccInv, AccTyped

-----------------------------------------------------------------------------
(* The invariant, and what it gives.                                       *)

LEMMA AccInit == Init => AccInv
<1> SUFFICES ASSUME Init PROVE AccInv
  OBVIOUS
<1>0. Ids \subseteq Nat /\ {1, 2} \subseteq Ids /\ NoAddr \notin Addrs /\ IsFiniteSet({}) /\ IsFiniteSet({1})
  <2>1. Ids \subseteq Nat
    BY AccountsConstants, FS_CardinalityType
  <2>2. IsFiniteSet({})
    BY FS_EmptySet
  <2>3. IsFiniteSet({1})
    BY FS_Singleton
  <2> QED BY <2>1, <2>2, <2>3, AccountsConstants
<1>1. ReqsOk /\ \A p \in Reqs : req[p] = Idle /\ req[p].at = "idle"
  BY IdleOk DEF Init, ReqsOk
<1>2. links = <<>> /\ LinksOk
  <2>1. links = <<>> /\ DOMAIN links = {}
    BY DEF Init
  <2>2. Table(links, LinkType)
    BY <1>0, <2>1 DEF Table
  <2> QED BY <2>1, <2>2 DEF LinksOk
<1>3. CASE Fresh
  <2>1. users = [u \in Ids |-> None] /\ sessions = <<>> /\ DOMAIN sessions = {} /\ ids = 0 /\ firsts = 0
    BY <1>3 DEF Fresh, Init
  <2>2. Known = {}
    BY <2>1 DEF Known, Exists
  <2>3. UsersOk
    BY <2>1, <2>2 DEF UsersOk
  <2>4. SessionsOk
    BY <1>0, <2>1 DEF SessionsOk, Table
  <2>5. GlobalInv /\ OldSessionsEnd /\ ConfirmedMeansProven
    BY <2>1, <2>2 DEF GlobalInv, AGlobalAlways, OldSessionsEnd, ConfirmedMeansProven
  <2> QED BY <1>1, <1>2, <2>3, <2>4, <2>5 DEF AccInv, AccTyped, LinkInv, Proven, OpenedStill
<1>4. CASE Installed
  <2>1. PICK a \in Addrs, confirmed \in BOOLEAN :
          /\ users = [u \in Ids |-> IF u = 1 THEN User("global", a, confirmed, 1)
                                    ELSE IF u = 2 THEN User("global", NoAddr, FALSE, 2) ELSE None]
          /\ sessions = <<[user |-> 1, pw |-> 1, spared |-> FALSE]>>
          /\ proven = (IF confirmed THEN {<<1, a>>} ELSE {})
          /\ ids = 2
    BY <1>4 DEF Installed
  <2> DEFINE first == User("global", a, confirmed, 1)
             second == User("global", NoAddr, FALSE, 2)
             session == [user |-> 1, pw |-> 1, spared |-> FALSE]
  <2>2. /\ first \in UserRow /\ first.email = a /\ first.confirmed = confirmed /\ first.pw = 1 /\ first.role = "global"
        /\ second \in UserRow /\ ~ second.confirmed
    BY DEF User, UserRow, Roles, Emails
  <2>3. session \in SessionType /\ session.user = 1 /\ session.pw = 1
    BY <1>0 DEF SessionType
  <2>4. DOMAIN sessions = {1} /\ sessions[1] = session /\ sessions = [s \in DOMAIN sessions |-> sessions[s]]
    BY <2>1
  <2>5. users = [u \in Ids |-> IF u = 1 THEN first ELSE IF u = 2 THEN second ELSE None]
    BY <2>1
  <2> HIDE DEF first, second, session
  <2>6. /\ users \in [Ids -> UserRow \cup {None}] /\ users[1] = first /\ users[2] = second
        /\ Known = {1, 2}
    BY <1>0, <2>2, <2>5, NoneIsNoUser DEF Known, Exists
  <2>7. UsersOk
    <3>1. Known \subseteq 1..ids /\ ids \in Ids
      BY <1>0, <2>1, <2>6
    <3> QED BY <2>6, <3>1 DEF UsersOk
  <2>8. SessionsOk
    BY <1>0, <2>3, <2>4, <2>6 DEF SessionsOk, Table
  <2>9. OldSessionsEnd
    BY <2>2, <2>3, <2>4, <2>6 DEF OldSessionsEnd
  <2>10. GlobalInv
    <3>1. 1 \in Known /\ users[1].role = "global" /\ firsts = 0 /\ ids = 2
      BY <2>1, <2>2, <2>6 DEF Init
    <3> QED BY <3>1 DEF GlobalInv, AGlobalAlways
  <2>11. ConfirmedMeansProven
    <3>1. SUFFICES ASSUME NEW u \in Known, users[u].confirmed PROVE <<u, users[u].email>> \in proven
      BY DEF ConfirmedMeansProven
    <3>2. u = 1 /\ users[u].email = a /\ confirmed
      BY <2>2, <2>6, <3>1
    <3>3. proven = {<<1, a>>}
      BY <2>1, <3>2
    <3> QED BY <3>2, <3>3
  <2> QED BY <1>1, <1>2, <2>7, <2>8, <2>9, <2>10, <2>11 DEF AccInv, AccTyped, LinkInv, Proven, OpenedStill
<1> QED BY <1>3, <1>4 DEF Init

LEMMA AccStep == AccInv /\ [Next]_vars => AccInv'
<1> SUFFICES ASSUME AccInv, [Next]_vars PROVE AccInv'
  OBVIOUS
<1>1. ASSUME NEW p \in Reqs, Submits(p) PROVE AccInv'
  BY <1>1, SubmitStep
<1>2. ASSUME NEW p \in Reqs, Writes(p) PROVE AccInv'
  BY <1>2, CreateSessionStep, SetupStep, SaveUserStep, DeleteUserStep, ProfileStep, PasswordStep, DestroyStep,
     DeleteLinksStep, AskStep, CreateLinkStep, TakeLinkStep, ConfirmStep, TakeResetStep, FailsStep DEF Writes
<1>3. CASE Logout \/ SessionExpires
  <2>1. /\ UNCHANGED <<users, links, ids, firsts, proven, req>>
        /\ \E s \in DOMAIN sessions : sessions' = Without(sessions, {s})
    BY <1>3 DEF Logout, SessionExpires, EndSession, history
  <2>2. LinksStay
    BY <2>1 DEF LinksStay
  <2> QED BY <2>1, <2>2, QuietStep
<1>4. CASE LinkExpires
  <2>1. PICK l : links' = Without(links, {l})
    BY <1>4 DEF LinkExpires
  <2>2. UNCHANGED <<users, sessions, ids, firsts, proven, req>> /\ Known' = Known
    BY <1>4 DEF LinkExpires, history, Known, Exists
  <2>3. LinksStay /\ LinksOk'
    BY <2>1, <2>2, LinksGo
  <2> QED BY <2>2, <2>3, QuietStep
<1>5. CASE SpacingPasses
  BY <1>5, SpacingStep
<1>6. CASE Kill
  BY <1>6, KillStep
<1>7. CASE UNCHANGED vars
  <2>1. UNCHANGED <<users, sessions, links, ids, firsts, proven, req>>
    BY <1>7 DEF vars, base, history
  <2>2. LinksStay
    BY <2>1 DEF LinksStay
  <2> QED BY <2>1, <2>2, QuietStep
<1> QED BY <1>1, <1>2, <1>3, <1>4, <1>5, <1>6, <1>7 DEF Next

\* The inductive invariant holds: besides the properties below, rows,
\* sessions, links and requests are well formed, and a request that opened a
\* link (SubmitConfirm, SetPasswordFromLink) is of the link's user and
\* address for as long as the link is there.
THEOREM AccInvAlways == Spec => []AccInv
  BY AccInit, AccStep, PTL DEF Spec

\* Rows, sessions, links and requests keep the form the code gives them, and
\* no session and no link outlives its user (the tables' foreign keys).
THEOREM AccountTypesHold == Spec => []TypeOK
<1>1. AccInv => TypeOK
  <2> SUFFICES ASSUME AccInv PROVE TypeOK
    OBVIOUS
  <2>1. \A p \in Reqs : req[p] = Idle \/ ~ At(p, "idle")
    BY AtParts DEF ReqOk, At
  <2>2. \A s \in DOMAIN sessions : sessions[s].user \in Known /\ sessions[s].pw \in Nat \ {0}
    BY DEF AccInv, AccTyped, SessionsOk, Table, SessionType
  <2>3. \A l \in DOMAIN links : links[l].user \in Known /\ links[l].email \in Addrs
    BY DEF AccInv, AccTyped, LinksOk, Table, LinkType
  <2> QED BY <2>1, <2>2, <2>3 DEF TypeOK, AccInv, AccTyped, UsersOk
<1> QED BY <1>1, AccInvAlways, PTL

\* However many requests set up, demote and delete at once, the setup page
\* made one user at most, and there is a global administrator from then on
\* (CreateGlobalUser, SaveUser, DeleteUser).
THEOREM AlwaysAGlobal == Spec => []AGlobalAlways
<1>1. AccInv => AGlobalAlways
  BY DEF AccInv, GlobalInv
<1> QED BY <1>1, AccInvAlways, PTL

\* A session opened by an earlier password is one the request that set the new
\* one is still to end, or was spared (endSessionsAfterPasswordSet).
THEOREM OldSessionsAlwaysEnd == Spec => []OldSessionsEnd
<1>1. AccInv => OldSessionsEnd
  BY DEF AccInv
<1> QED BY <1>1, AccInvAlways, PTL

\* A confirmed address is one a link was opened at by its user, whatever was
\* written to the row between the link and the confirmation (HandleConfirm,
\* keepConfirmed).
THEOREM ConfirmedAlwaysProven == Spec => []ConfirmedMeansProven
<1>1. AccInv => ConfirmedMeansProven
  BY DEF AccInv, LinkInv
<1> QED BY <1>1, AccInvAlways, PTL

\* A request at its link, and what it does with it.
LEMMA ResetStep ==
    ASSUME AccInv, NEW p \in Reqs, req[p].op = "reset", At(p, "take"), req'[p].at = "sessions",
           [Next]_vars
    PROVE  TakeResetLink(p) /\ Exists(req[p].user) /\ StillHolds(req[p].link)
<1>0. req[p].at = "take" /\ req'[p] # req[p]
  BY DEF At
<1>1. Next
  BY <1>0 DEF vars
<1>2. ASSUME Logout \/ SessionExpires \/ LinkExpires \/ SpacingPasses PROVE FALSE
  BY <1>0, <1>2 DEF Logout, SessionExpires, LinkExpires, SpacingPasses
<1>3. ASSUME Kill PROVE FALSE
  BY <1>3, IdleOk DEF Kill
<1>4. PICK q \in Reqs : Submits(q) \/ Writes(q)
  BY <1>1, <1>2, <1>3 DEF Next
<1>5. ASSUME Submits(q) PROVE FALSE
  BY <1>0, <1>5, SubmitParts DEF AccInv
\* Every other step is that of another request, or of one at another stage.
<1>6. ASSUME ~ TakeResetLink(q) PROVE FALSE
  <2>1. Writes(q) /\ ReqsOk
    BY <1>4, <1>5, AtParts
  <2>2. \A r \in Reqs : Ends(r) => req'[p] = IF r = p THEN Idle ELSE req[p]
    BY <2>1 DEF Ends, ReqsOk
  <2>3. \A r \in Reqs, x \in Stages : Goes(r, x) => (r = p \/ req'[p] = req[p])
    BY <2>1 DEF Goes, ReqsOk
  <2>4. ASSUME Ends(q) PROVE FALSE
    BY <1>0, <2>2, <2>4, IdleOk
  <2>5. ASSUME NEW x \in Stages, Goes(q, x), req[q].at # "take" PROVE FALSE
    BY <1>0, <2>3, <2>5
  <2>6. ~ CreateSession(q) /\ ~ CreateGlobalUser(q) /\ ~ DeleteUser(q) /\ ~ CreateUserLink(q) /\ ~ ConfirmEmail(q)
    BY <2>4 DEF CreateSession, CreateGlobalUser, DeleteUser, CreateUserLink, ConfirmEmail
  <2>7. ~ SaveUser(q)
    <3>1. SaveUser(q) => (Ends(q) \/ Goes(q, "sessions") \/ Goes(q, "ask")) /\ req[q].at = "save"
      BY DEF SaveUser, NextAfterSave, At
    <3> QED BY <2>4, <2>5, <3>1 DEF Stages
  <2>8. ~ UpdateUserProfile(q)
    BY <2>4, <2>5 DEF UpdateUserProfile, At, Stages
  <2>9. ~ UpdateUser(q)
    BY <2>4, <2>5 DEF UpdateUser, At, Stages
  <2>10. ~ DestroySessions(q) /\ ~ DeleteUserLinks(q)
    BY <2>4, <2>5 DEF DestroySessions, DeleteUserLinks, AfterSessions, AfterLinks, At, Stages
  <2>11. ~ SendConfirmation(q)
    <3>1. ASSUME SendConfirmation(q) PROVE FALSE
      <4>1. PICK d : req' = [req EXCEPT ![q] = d]
        BY <3>1 DEF SendConfirmation, Ends
      <4>2. q # p
        BY <1>0, <3>1 DEF SendConfirmation, At
      <4> QED BY <1>0, <2>1, <4>1, <4>2 DEF ReqsOk
    <3> QED BY <3>1
  <2>12. ~ TakeUserLink(q)
    <3>1. ASSUME TakeUserLink(q) PROVE FALSE
      <4>1. Goes(q, "confirm") /\ req[q].op = "confirm"
        BY <2>4, <3>1 DEF TakeUserLink
      <4>2. q # p
        BY <4>1
      <4> QED BY <1>0, <2>3, <4>1, <4>2 DEF Stages
    <3> QED BY <3>1
  <2>13. ~ CallFails(q)
    <3>1. ASSUME CallFails(q) PROVE FALSE
      <4>1. (AfterSessions(q) \/ AfterLinks(q)) /\ req[q].at # "take"
        BY <2>4, <3>1 DEF CallFails, At
      <4> QED BY <2>4, <2>5, <4>1 DEF AfterSessions, AfterLinks, Stages
    <3> QED BY <3>1
  <2> QED BY <1>6, <2>1, <2>6, <2>7, <2>8, <2>9, <2>10, <2>11, <2>12, <2>13 DEF Writes
<1>7. TakeResetLink(q)
  BY <1>6
<1>8. q = p
  <2>1. Ends(q) \/ Goes(q, "sessions")
    BY <1>7 DEF TakeResetLink
  <2> QED BY <1>0, <2>1, AtParts DEF Ends, Goes, ReqsOk
<1>9. ~ Ends(p)
  BY AtParts, IdleOk DEF Ends, ReqsOk
<1> QED BY <1>7, <1>8, <1>9 DEF TakeResetLink

\* A reset link sets a password only of the user it was mailed to, at the
\* address that is confirmed, and proven, when it is taken, and takes the
\* user's other reset links with it (TakeResetLink).
THEOREM ResetAlwaysProves == Spec => ResetProvesTheMailbox
<1>1. ASSUME AccInv, [Next]_vars PROVE ResetProven
  <2> SUFFICES ASSUME NEW p \in Reqs, req[p].op = "reset", At(p, "take"), req'[p].at = "sessions"
               PROVE  LET u == req[p].user l == req[p].link IN
                      /\ l \in DOMAIN links /\ links[l].user = u /\ links[l].mailed
                      /\ users[u].confirmed /\ <<u, users[u].email>> \in proven
                      /\ links[l].email = users[u].email
                      /\ \A k \in DOMAIN links' : links'[k].user = u => links'[k].purpose # "reset"
    BY DEF ResetProven
  <2> DEFINE u == req[p].user
             l == req[p].link
  <2>1. TakeResetLink(p) /\ Exists(u) /\ l \in DOMAIN links /\ Holds(l)
    BY <1>1, ResetStep DEF StillHolds
  <2>2. Opened(req[p]) /\ u \in Known
    BY <1>1, <2>1, AtParts DEF AccInv, LinkInv, OpenedStill, At
  <2>3. /\ links[l].user = u /\ links[l].mailed /\ users[u].confirmed /\ links[l].email = users[u].email
    BY <2>1, <2>2 DEF Opened, Holds
  <2>4. <<u, users[u].email>> \in proven
    BY <1>1, <2>2, <2>3 DEF AccInv, LinkInv, ConfirmedMeansProven
  <2>5. \A k \in DOMAIN links' : links'[k].user = u => links'[k].purpose # "reset"
    <3> DEFINE S == {l} \cup LinksOf(u, "reset")
    <3>1. links' = Without(links, S)
      BY <2>1 DEF TakeResetLink, StillHolds
    <3>2. \A k \in DOMAIN links' : links'[k] = links[k] /\ k \in DOMAIN links /\ k \notin S
      <4> HIDE DEF S
      <4> QED BY <1>1, <3>1, LinksGo
    <3> QED BY <3>2 DEF LinksOf
  <2> QED BY <2>1, <2>3, <2>4, <2>5
<1> QED BY <1>1, AccInvAlways, PTL DEF Spec, ResetProvesTheMailbox

-----------------------------------------------------------------------------
(***************************************************************************)
(* The notices users are sent.                                             *)
(***************************************************************************)

NoticeConsts == NotifierConstants /\ NotifierValues

-----------------------------------------------------------------------------
(* The inductive invariant.                                                *)

Phases(k) == IF k[1] = "dns" THEN {"pending", "open"}
             ELSE IF k[1] = "cert" THEN {"first", "last"} ELSE {"open"}

\* What was said of a certificate is of one there was, and no more than it
\* has come to.
CertRow(c, r) ==
    /\ r.mark <= c.serial
    /\ r.mark = c.serial => c.level # "" /\ (r.phase = "last" => c.level = "last")
RowOk(c, k, r) == r \in RowType /\ r.phase \in Phases(k) /\ (k[1] = "cert" => CertRow(c, r))
MaybeRow(c, k, r) == r \in {Keep, NoRow} \/ RowOk(c, k, r)

Planned == RowType \cup {Keep, NoRow}
Ats == {"idle", "dns", "cert", "queue", "limits", "done", "first", "send", "record", "save"}
MessageKinds == {"none", "open", "follow", "closed"}
PassType == [at : Ats, todo : SUBSET Keys, names : SUBSET Domains, key : Keys \cup {NoRow},
             kind : MessageKinds, first : Planned, to : SUBSET Users, handed : SUBSET Users,
             sent : Planned, held : Planned, save : Planned]
CertType == [serial : Nat, level : {"", "first", "last"}, waiting : BOOLEAN]
OwedType == [told : SUBSET Users, due : SUBSET Users]

WorldTyped ==
    /\ enabled \in BOOLEAN /\ doms \subseteq Domains /\ wrong \subseteq Keys
    /\ hears \in [Users -> SUBSET (Domains \cup {Server})] /\ cert \in CertType
RowsTyped ==
    /\ rows = [k \in Keys |-> rows[k]]
    /\ \A k \in Keys : rows[k] = NoRow \/ RowOk(cert, k, rows[k])
OwedTyped == owed \in [Keys -> OwedType] /\ \A k \in Keys : owed[k].told \cap owed[k].due = {}
PastTyped == said \in [Keys -> SUBSET Users] /\ asked \in [Keys -> SUBSET Users] /\ unsure \subseteq Keys
NotifyTyped == WorldTyped /\ RowsTyped /\ OwedTyped /\ PastTyped /\ hour \in 0..HourlyCeiling /\ pass \in PassType

\* A subject of which something has been said to somebody.
IsSaid(r) == r # NoRow /\ r.phase # "pending"

\* The row leads to a copy for those who are still due one, not to a new
\* message.
Follows(c, k, r) ==
    /\ IsSaid(r)
    /\ k[1] = "cert" => r.mark = c.serial /\ r.phase \in {c.level, "last"}
    /\ k[1] = "limit" => r.sent < LimitRepeat

\* The addressees recorded (o) are those told (s), and with nothing said there
\* are none; those due were asked for (a).
ToldAre(r, s, o) == IF IsSaid(r) THEN s # {} /\ o.told = s ELSE s = {} /\ o = NoOne
Rest(c, k, r, s, o, a) == ToldAre(r, s, o) /\ (Follows(c, k, r) => o.due \subseteq a)
AtRest(k, r) == Rest(cert, k, r, said[k], owed[k], asked[k])

\* The pass has the subject in hand.
InHand(k) == pass.at \in Writing /\ pass.key = k

\* What a message under way is for, whatever was lost.
OpenPlan(k) ==
    /\ pass.first \in {Keep, NoRow}
    /\ RowOk(cert, k, pass.sent) /\ IsSaid(pass.sent)
    /\ \/ pass.held = Keep
       \/ RowOk(cert, k, pass.held) /\ pass.held.phase = "pending" /\ pass.first = Keep
    /\ pass.to \cup pass.handed \subseteq asked[k]
FollowPlan(k) ==
    /\ pass.sent = Keep /\ pass.held = Keep
    /\ pass.first = Keep \/ (k[1] = "dns" /\ RowOk(cert, k, pass.first) /\ pass.first.phase = "open")
PlanOk(k) ==
    /\ k \in Keys
    /\ MaybeRow(cert, k, pass.first) /\ MaybeRow(cert, k, pass.sent) /\ MaybeRow(cert, k, pass.held)
    /\ pass.to \cap pass.handed = {}
    /\ pass.at = "first" => pass.handed = {}
    /\ pass.kind = "none" => pass.first = Keep /\ pass.to = {} /\ pass.handed = {}
    /\ pass.kind = "open" => OpenPlan(k)
    /\ pass.kind = "follow" => FollowPlan(k)
    /\ pass.kind = "closed" => pass.first = Keep /\ pass.sent = NoRow
    /\ pass.at = "record" => pass.handed # {} /\ pass.kind \in {"open", "follow"} /\ pass.save = pass.sent
    /\ pass.at = "save" => MaybeRow(cert, k, pass.save)

PlanInStep == pass.at \in Writing => PlanOk(pass.key)

\* What has been said while it is under way, when no write was lost.
OpenSaid(k) ==
    /\ pass.handed = {} => ToldAre(rows[k], said[k], owed[k])
    /\ pass.handed # {} => said[k] = pass.handed
    /\ ~ Follows(cert, k, rows[k])
    /\ pass.held = Keep \/ ~ IsSaid(rows[k])
FollowSaid(k) ==
    /\ IsSaid(rows[k]) /\ said[k] = owed[k].told \cup pass.handed /\ owed[k].told # {}
    /\ pass.to \cup pass.handed \subseteq owed[k].due
    /\ owed[k].due \subseteq asked[k]
RestSaid(k) == AtRest(k, rows[k]) /\ (pass.held \in {Keep, NoRow} \/ AtRest(k, pass.held))
SavedSaid(k) ==
    /\ pass.save = Keep => AtRest(k, rows[k])
    /\ pass.save \notin {Keep, NoRow} => AtRest(k, pass.save)
SaidOk(k) ==
    /\ pass.at # "save" /\ pass.kind = "open" => OpenSaid(k)
    /\ pass.at # "save" /\ pass.kind = "follow" => FollowSaid(k)
    /\ pass.at # "save" /\ pass.kind = "closed" => pass.to \cup pass.handed \subseteq said[k]
    /\ pass.at # "save" /\ pass.kind \in {"closed", "none"} => RestSaid(k)
    /\ pass.at = "save" => SavedSaid(k)

SaidInStep == pass.at \in Writing /\ pass.key \notin unsure => SaidOk(pass.key)
AllAtRest == \A k \in Keys : k \notin unsure /\ ~ InHand(k) => AtRest(k, rows[k])

\* A pass over the domains, or over the limits, has only their subjects left.
TodoOk ==
    /\ pass.at = "dns" \/ (pass.at \in Writing /\ pass.key[1] = "dns") => \A k \in pass.todo : k[1] = "dns"
    /\ pass.at = "limits" \/ (pass.at \in Writing /\ pass.key[1] = "limit") => \A k \in pass.todo : k[1] = "limit"

NotifyInv == NotifyTyped /\ PlanInStep /\ SaidInStep /\ AllAtRest /\ TodoOk

-----------------------------------------------------------------------------
(* Rows and plans.                                                         *)

LEMMA LeastOfTwo ==
    ASSUME NEW n \in Nat, NEW m \in Nat
    PROVE  AtMost(n, m) \in Nat /\ AtMost(n, m) <= n /\ AtMost(n, m) <= m /\ AtMost(n, m) \in {n, m}
<1>1. \E x \in {n, m} : \A y \in {n, m} : x =< y
  <2>1. CASE n <= m
    BY <2>1
  <2>2. CASE ~ (n <= m)
    BY <2>2
  <2> QED BY <2>1, <2>2
<1>2. AtMost(n, m) \in {n, m} /\ \A y \in {n, m} : AtMost(n, m) =< y
  BY <1>1 DEF AtMost, Min
<1> QED BY <1>2

LEMMA KeyParts ==
    ASSUME NoticeConsts, NEW k \in Keys
    PROVE  /\ k[1] \in Kinds /\ k = Key(k[1], k[2])
           /\ k[1] \in {"dns", "limit"} => k[2] \in Domains
           /\ k[1] \in {"cert", "queue"} => k[2] = Server
           /\ Stage(k) \in Ats \ Writing
           /\ Stage(k) = "dns" <=> k[1] = "dns"
           /\ Stage(k) = "limits" <=> k[1] = "limit"
BY DEF NoticeConsts, NotifierConstants, Keys, Kinds, Key, Stage, Ats, Writing

LEMMA RowParts ==
    ASSUME NEW r \in RowType
    PROVE  /\ r.phase \in {"pending", "open", "first", "last"} /\ r.count \in 0..2
           /\ r.since \in Nat /\ r.mark \in Nat /\ r.sent \in Nat
BY DEF RowType, DNSChecks

LEMMA RowIs ==
    ASSUME NEW p \in {"pending", "open", "first", "last"}, NEW c \in 0..2,
           NEW s \in Nat, NEW m \in Nat, NEW n \in Nat
    PROVE  [phase |-> p, count |-> c, since |-> s, mark |-> m, sent |-> n] \in RowType
BY DEF RowType, DNSChecks

LEMMA RowIsNone ==
    ASSUME NoticeConsts
    PROVE  NoRow \notin RowType /\ Keep \notin RowType /\ Keep # NoRow
BY DEF NoticeConsts, NotifierValues

LEMMA NewRow ==
    ASSUME NEW p \in {"pending", "open", "first", "last"}
    PROVE  Row(p) \in RowType /\ Row(p).phase = p /\ Row(p).mark = 0 /\ Row(p).sent = 0
BY RowIs DEF Row

LEMMA RowCounted ==
    ASSUME NEW r \in RowType, NEW c \in 0..2
    PROVE  [r EXCEPT !.count = c] \in RowType /\ [r EXCEPT !.count = c].phase = r.phase
BY DEF RowType, DNSChecks

LEMMA RowMarked ==
    ASSUME NEW r \in RowType, NEW m \in Nat
    PROVE  /\ [r EXCEPT !.mark = m] \in RowType
           /\ [r EXCEPT !.mark = m].phase = r.phase /\ [r EXCEPT !.mark = m].mark = m
BY DEF RowType, DNSChecks

LEMMA RowBegun ==
    ASSUME NEW r \in RowType
    PROVE  /\ [r EXCEPT !.count = 0, !.mark = 0] \in RowType
           /\ [r EXCEPT !.count = 0, !.mark = 0].phase = r.phase
           /\ [r EXCEPT !.phase = "open", !.count = 0, !.mark = 0, !.sent = 0] \in RowType
           /\ [r EXCEPT !.phase = "open", !.count = 0, !.mark = 0, !.sent = 0].phase = "open"
<1> DEFINE p == "open"
           c == 0
           m == 0
           n == 0
<1>1. p \in {"pending", "open", "first", "last"} /\ c \in 0..2 /\ m \in Nat /\ n \in Nat /\ p = "open"
  OBVIOUS
<1>2. /\ [r EXCEPT !.count = c, !.mark = m] = [r EXCEPT !.count = 0, !.mark = 0]
      /\ [r EXCEPT !.phase = p, !.count = c, !.mark = m, !.sent = n] = [r EXCEPT !.phase = "open", !.count = 0, !.mark = 0, !.sent = 0]
  OBVIOUS
<1> HIDE DEF p, c, m, n
<1>3. /\ [r EXCEPT !.count = c, !.mark = m] \in RowType
      /\ [r EXCEPT !.count = c, !.mark = m].phase = r.phase
      /\ [r EXCEPT !.phase = p, !.count = c, !.mark = m, !.sent = n] \in RowType
      /\ [r EXCEPT !.phase = p, !.count = c, !.mark = m, !.sent = n].phase = p
  BY <1>1 DEF RowType, DNSChecks
<1> QED BY <1>1, <1>2, <1>3

LEMMA RowAged ==
    ASSUME NEW r \in RowType, NEW s \in Nat, NEW m \in Nat, NEW n \in Nat
    PROVE  /\ [r EXCEPT !.since = s, !.mark = m, !.sent = n] \in RowType
           /\ [r EXCEPT !.since = s, !.mark = m, !.sent = n].phase = r.phase
           /\ [r EXCEPT !.since = s, !.mark = m, !.sent = n].mark = m
           /\ [r EXCEPT !.since = s, !.mark = m, !.sent = n].sent = n
BY DEF RowType, DNSChecks

LEMMA PassParts ==
    ASSUME pass \in PassType
    PROVE  /\ pass.at \in Ats /\ pass.todo \subseteq Keys /\ pass.names \subseteq Domains
           /\ pass.key \in Keys \cup {NoRow} /\ pass.kind \in MessageKinds
           /\ pass.first \in Planned /\ pass.sent \in Planned /\ pass.held \in Planned
           /\ pass.save \in Planned /\ pass.to \subseteq Users /\ pass.handed \subseteq Users
BY DEF PassType

LEMMA MaybePlanned ==
    ASSUME NEW c, NEW k, NEW r, MaybeRow(c, k, r)
    PROVE  r \in Planned
BY DEF MaybeRow, RowOk, Planned

LEMMA PlanMade ==
    ASSUME pass \in PassType, NEW k \in Keys, NEW first \in Planned, NEW kind \in MessageKinds,
           NEW to \in SUBSET Users, NEW sent \in Planned, NEW held \in Planned,
           Plan(k, first, kind, to, sent, held)
    PROVE  /\ pass' \in PassType
           /\ pass'.at = (IF first = Keep THEN "send" ELSE "first")
           /\ pass'.todo = pass.todo \ {k} /\ pass'.key = k /\ pass'.kind = kind
           /\ pass'.first = first /\ pass'.to = to /\ pass'.handed = {}
           /\ pass'.sent = sent /\ pass'.held = held
<1> DEFINE at == IF first = Keep THEN "send" ELSE "first"
           todo == pass.todo \ {k}
<1>1. pass' = [pass EXCEPT !.at = at, !.todo = todo, !.key = k, !.kind = kind, !.first = first,
                 !.to = to, !.handed = {}, !.sent = sent, !.held = held]
  BY DEF Plan
<1>2. at \in Ats /\ todo \in SUBSET Keys
  BY PassParts DEF Ats
<1> HIDE DEF at, todo
<1>3. /\ pass' \in PassType
      /\ pass'.at = at /\ pass'.todo = todo /\ pass'.key = k /\ pass'.kind = kind
      /\ pass'.first = first /\ pass'.to = to /\ pass'.handed = {}
      /\ pass'.sent = sent /\ pass'.held = held
  BY <1>1, <1>2 DEF PassType
<1> QED BY <1>3 DEF at, todo

LEMMA FollowsParts ==
    ASSUME NEW c, NEW k, NEW r, Follows(c, k, r)
    PROVE  IsSaid(r)
BY DEF Follows

\* What the pass asks for of a subject at rest.
OpenSound(k, first, to, sent, held) ==
    /\ first \in {Keep, NoRow} /\ RowOk(cert, k, sent) /\ IsSaid(sent)
    /\ held = Keep \/ (RowOk(cert, k, held) /\ held.phase = "pending" /\ first = Keep)
    /\ ~ Follows(cert, k, rows[k])
    /\ held = Keep \/ ~ IsSaid(rows[k])
FollowSound(k, first, to, sent, held) ==
    /\ sent = Keep /\ held = Keep
    /\ first = Keep \/ (k[1] = "dns" /\ RowOk(cert, k, first) /\ first.phase = "open")
    /\ IsSaid(rows[k])
    /\ k \notin unsure => to \subseteq owed[k].due /\ owed[k].due \subseteq asked[k]
RestSound(k, first, held) ==
    /\ first = Keep
    /\ k \notin unsure => held \in {Keep, NoRow} \/ AtRest(k, held)
Sound(k, first, kind, to, sent, held) ==
    /\ k \in Keys /\ kind \in MessageKinds /\ to \in SUBSET Users
    /\ MaybeRow(cert, k, first) /\ MaybeRow(cert, k, sent) /\ MaybeRow(cert, k, held)
    /\ kind = "none" => to = {} /\ RestSound(k, first, held)
    /\ kind = "closed" => sent = NoRow /\ RestSound(k, first, held) /\ (k \notin unsure => to \subseteq said[k])
    /\ kind = "open" => OpenSound(k, first, to, sent, held)
    /\ kind = "follow" => FollowSound(k, first, to, sent, held)
    /\ k[1] = "dns" => pass.at = "dns"
    /\ k[1] = "limit" => pass.at = "limits"

Looking == pass.at \notin Writing
StillThere == UNCHANGED <<world, tables, hour, said, unsure>>

LEMMA PlanKeeps ==
    ASSUME NoticeConsts, NotifyInv, Looking, StillThere,
           NEW k, NEW first, NEW kind, NEW to, NEW sent, NEW held,
           Sound(k, first, kind, to, sent, held), Plan(k, first, kind, to, sent, held)
    PROVE  NotifyInv'
<1>1. /\ k \in Keys /\ kind \in MessageKinds /\ to \in SUBSET Users
      /\ first \in Planned /\ sent \in Planned /\ held \in Planned
  BY MaybePlanned DEF Sound
<1>2. /\ pass' \in PassType
      /\ pass'.at = (IF first = Keep THEN "send" ELSE "first")
      /\ pass'.todo = pass.todo \ {k} /\ pass'.key = k /\ pass'.kind = kind
      /\ pass'.first = first /\ pass'.to = to /\ pass'.handed = {}
      /\ pass'.sent = sent /\ pass'.held = held
  BY <1>1, PlanMade DEF NotifyInv, NotifyTyped
<1>3. asked' = IF kind = "open" THEN [asked EXCEPT ![k] = to] ELSE asked
  BY DEF Plan
<1>4. /\ asked' \in [Keys -> SUBSET Users]
      /\ \A j \in Keys \ {k} : asked'[j] = asked[j]
      /\ kind # "open" => asked'[k] = asked[k]
      /\ kind = "open" => asked'[k] = to
  BY <1>1, <1>3 DEF NotifyInv, NotifyTyped, PastTyped
<1>5. /\ UNCHANGED <<enabled, doms, hears, wrong, cert, rows, owed, hour, said, unsure>>
  BY DEF StillThere, world, tables
<1>6. NotifyTyped'
  BY <1>2, <1>4, <1>5 DEF NotifyInv, NotifyTyped, WorldTyped, RowsTyped, OwedTyped, PastTyped
<1>7. PlanInStep'
  BY <1>2, <1>4, <1>5 DEF PlanInStep, PlanOk, Sound, OpenSound, FollowSound, RestSound, OpenPlan, FollowPlan
<1>8. k \notin unsure => AtRest(k, rows[k])
  BY <1>1 DEF NotifyInv, AllAtRest, InHand, Looking
<1>9. SaidInStep'
  <2> SUFFICES ASSUME k \notin unsure PROVE SaidOk(k)'
    BY <1>2, <1>5 DEF SaidInStep
  <2>1. kind = "open" => OpenSaid(k)'
    BY <1>2, <1>5, <1>8 DEF OpenSaid, Sound, OpenSound, AtRest, Rest
  <2>2. kind = "follow" => FollowSaid(k)'
    BY <1>2, <1>4, <1>5, <1>8 DEF FollowSaid, Sound, FollowSound, AtRest, Rest, ToldAre
  <2>3. kind = "closed" => pass'.to \cup pass'.handed \subseteq said'[k]
    BY <1>2, <1>5 DEF Sound
  <2>4. kind \in {"closed", "none"} => RestSaid(k)'
    BY <1>2, <1>4, <1>5, <1>8 DEF RestSaid, Sound, RestSound, AtRest
  <2> QED BY <1>2, <2>1, <2>2, <2>3, <2>4 DEF SaidOk
<1>10. AllAtRest'
  BY <1>1, <1>2, <1>4, <1>5 DEF AllAtRest, NotifyInv, InHand, Looking, AtRest, Writing
<1>11. TodoOk'
  BY <1>1, <1>2 DEF TodoOk, NotifyInv, Sound
<1> QED BY <1>6, <1>7, <1>9, <1>10, <1>11 DEF NotifyInv

LEMMA NothingKeeps ==
    ASSUME NoticeConsts, NotifyInv, Looking, StillThere, asked' = asked,
           pass' \in PassType, pass'.at \notin Writing, TodoOk'
    PROVE  NotifyInv'
<1>1. /\ UNCHANGED <<enabled, doms, hears, wrong, cert, rows, owed, hour, said, unsure>>
  BY DEF StillThere, world, tables
<1>2. NotifyTyped'
  BY <1>1 DEF NotifyInv, NotifyTyped, WorldTyped, RowsTyped, OwedTyped, PastTyped
<1>3. PlanInStep' /\ SaidInStep'
  BY DEF PlanInStep, SaidInStep
<1>4. AllAtRest'
  BY <1>1 DEF AllAtRest, NotifyInv, InHand, Looking, AtRest
<1> QED BY <1>2, <1>3, <1>4 DEF NotifyInv

-----------------------------------------------------------------------------
(* What the pass finds.                                                    *)

PlannedSoundly == \E k, first, kind, to, sent, held :
    Plan(k, first, kind, to, sent, held) /\ Sound(k, first, kind, to, sent, held)
NothingPlanned == asked' = asked /\ pass' \in PassType /\ pass'.at \notin Writing /\ TodoOk'

\* The subject is one of the pass under way.
Turn(k) ==
    /\ k \in Keys /\ Looking
    /\ k[1] = "dns" => pass.at = "dns"
    /\ k[1] = "limit" => pass.at = "limits"

LEMMA NothingMakes ==
    ASSUME NoticeConsts, NotifyInv, NEW k, Turn(k), Nothing(k)
    PROVE  NothingPlanned
<1>1. k \in Keys /\ Stage(k) \in Ats \ Writing
  BY KeyParts DEF Turn
<1> DEFINE at == Stage(k)
           todo == pass.todo \ {k}
<1>2. pass' = [pass EXCEPT !.at = at, !.todo = todo] /\ asked' = asked
  BY DEF Nothing
<1>3. at \in Ats \ Writing /\ todo \in SUBSET Keys /\ pass \in PassType
  BY <1>1, PassParts DEF NotifyInv, NotifyTyped
<1> HIDE DEF at, todo
<1>4. pass' \in PassType /\ pass'.at = at /\ pass'.todo = todo
  BY <1>2, <1>3 DEF PassType
<1>5. at = "dns" => pass.at = "dns"
  BY <1>1, KeyParts DEF at, Turn
<1>6. at = "limits" => pass.at = "limits"
  BY <1>1, KeyParts DEF at, Turn
<1>7. TodoOk'
  BY <1>3, <1>4, <1>5, <1>6 DEF TodoOk, NotifyInv, todo
<1> QED BY <1>2, <1>3, <1>4, <1>7 DEF NothingPlanned

LEMMA Resting ==
    ASSUME NotifyInv, NEW k, Turn(k)
    PROVE  /\ k \notin unsure => AtRest(k, rows[k])
           /\ rows[k] = NoRow \/ RowOk(cert, k, rows[k])
BY DEF NotifyInv, AllAtRest, InHand, Turn, Looking, NotifyTyped, RowsTyped

LEMMA JustSaveMakes ==
    ASSUME NoticeConsts, NotifyInv, NEW k, Turn(k), NEW row, JustSave(k, row), MaybeRow(cert, k, row),
           k \notin unsure => row \in {Keep, NoRow} \/ AtRest(k, row)
    PROVE  PlannedSoundly
<1>1. Sound(k, Keep, "none", {}, Keep, row)
  BY DEF Sound, Turn, MaybeRow, RestSound, MessageKinds
<1> QED BY <1>1 DEF PlannedSoundly, JustSave

LEMMA FollowUpMakes ==
    ASSUME NoticeConsts, NotifyInv, NEW k, Turn(k), NEW first, FollowUp(k, first), Follows(cert, k, rows[k]),
           first = Keep \/ (k[1] = "dns" /\ RowOk(cert, k, first) /\ first.phase = "open")
    PROVE  PlannedSoundly
<1>1. Due(k) \in SUBSET Users /\ Due(k) \subseteq owed[k].due
  BY DEF Due, Recipients
<1>2. k \notin unsure => owed[k].due \subseteq asked[k]
  BY Resting DEF AtRest, Rest
<1>3. FollowSound(k, first, Due(k), Keep, Keep)
  BY <1>1, <1>2, FollowsParts DEF FollowSound
<1>4. Sound(k, first, "follow", Due(k), Keep, Keep)
  BY <1>1, <1>3 DEF Sound, Turn, MaybeRow, MessageKinds
<1> QED BY <1>4 DEF PlannedSoundly, FollowUp

LEMMA OpenMakes ==
    ASSUME NoticeConsts, NotifyInv, NEW k, Turn(k), NEW first, NEW row, NEW held, Open(k, first, row, held),
           OpenSound(k, first, Recipients(k), row, held)
    PROVE  PlannedSoundly
<1>1. Recipients(k) \in SUBSET Users
  BY DEF Recipients
<1>2. Sound(k, first, "open", Recipients(k), row, held)
  BY <1>1 DEF Sound, Turn, MaybeRow, MessageKinds, OpenSound
<1> QED BY <1>2 DEF PlannedSoundly, Open

LEMMA ClosedMakes ==
    ASSUME NoticeConsts, NotifyInv, NEW k, Turn(k), NEW held, Closed(k, held), IsSaid(rows[k]),
           MaybeRow(cert, k, held), k \notin unsure => held \in {Keep, NoRow} \/ AtRest(k, held)
    PROVE  PlannedSoundly
<1>1. CASE Told(k) = {}
  <2>1. JustSave(k, NoRow)
    BY <1>1 DEF Closed
  <2> QED BY <2>1, JustSaveMakes DEF MaybeRow
<1>2. CASE Told(k) # {}
  <2>1. Plan(k, Keep, "closed", Told(k), NoRow, held)
    BY <1>2 DEF Closed
  <2>2. Told(k) \in SUBSET Users
    BY DEF Told, Recipients
  <2>3. k \notin unsure => Told(k) \subseteq said[k]
    <3>1. k \notin unsure => said[k] # {} /\ owed[k].told = said[k]
      BY Resting DEF AtRest, Rest, ToldAre
    <3>2. NoOne.told = {}
      BY DEF NoOne
    <3> QED BY <3>1, <3>2 DEF Told
  <2>4. Sound(k, Keep, "closed", Told(k), NoRow, held)
    BY <2>2, <2>3 DEF Sound, Turn, MaybeRow, MessageKinds, RestSound
  <2> QED BY <2>1, <2>4 DEF PlannedSoundly
<1> QED BY <1>1, <1>2

LEMMA DNSStepMakes ==
    ASSUME NoticeConsts, NotifyInv, NEW k, Turn(k), k[1] = "dns", NEW bad \in BOOLEAN, DNSStep(k[2], bad)
    PROVE  PlannedSoundly \/ NothingPlanned
<1> DEFINE st == rows[k]
           up == Counted(st)
           good == IF up.count = 1 THEN [up EXCEPT !.mark = 0] ELSE up
<1>1. k \in Keys /\ Key("dns", k[2]) = k
  BY KeyParts DEF Turn
<1>2. st = NoRow \/ RowOk(cert, k, st)
  BY Resting
<1>3. st # NoRow => /\ up \in RowType /\ up.phase = st.phase
                    /\ good \in RowType /\ good.phase = st.phase
  <2> SUFFICES ASSUME st # NoRow PROVE up \in RowType /\ up.phase = st.phase
                                       /\ good \in RowType /\ good.phase = st.phase
    OBVIOUS
  <2>1. st \in RowType
    BY <1>2 DEF RowOk
  <2> DEFINE c == AtMost(st.count + 1, DNSChecks)
  <2>2. c \in 0..2
    <3>1. st.count \in 0..2 /\ st.count + 1 \in Nat
      BY <2>1, RowParts
    <3>2. c <= st.count + 1 /\ c <= 2 /\ c \in Nat
      BY <3>1, LeastOfTwo DEF DNSChecks
    <3> QED BY <3>2
  <2>3. up = [st EXCEPT !.count = c]
    BY DEF Counted
  <2> HIDE DEF c, st
  <2>4. up \in RowType /\ up.phase = st.phase
    BY <2>1, <2>2, <2>3, RowCounted
  <2> HIDE DEF up
  <2>5. [up EXCEPT !.mark = 0] \in RowType /\ [up EXCEPT !.mark = 0].phase = up.phase
    BY <2>4, RowMarked
  <2> QED BY <2>4, <2>5 DEF good
<1>4. \A r \in RowType : r.phase \in {"pending", "open"} => RowOk(cert, k, r)
  BY DEF RowOk, Phases
<1>5. \A r \in RowType : r # NoRow /\ r # Keep
  BY RowIsNone
<1>6. \A r : Follows(cert, k, r) <=> IsSaid(r)
  BY DEF Follows
<1>7. st # NoRow => st \in RowType /\ st.phase \in {"pending", "open"}
  BY <1>2 DEF RowOk, Phases
<1>8. CASE st = NoRow /\ ~ bad
  <2>1. Nothing(k)
    BY <1>1, <1>8 DEF DNSStep
  <2> QED BY <2>1, NothingMakes
<1>9. CASE st = NoRow /\ bad
  <2> DEFINE row == [Row("pending") EXCEPT !.count = 1]
  <2>1. JustSave(k, row)
    BY <1>1, <1>9 DEF DNSStep
  <2>2. row \in RowType /\ row.phase = "pending"
    <3>1. Row("pending") \in RowType /\ Row("pending").phase = "pending"
      BY NewRow
    <3>2. 1 \in 0..2
      OBVIOUS
    <3> QED BY <3>1, <3>2, RowCounted
  <2> HIDE DEF row
  <2>3. MaybeRow(cert, k, row) /\ ~ IsSaid(row) /\ ~ IsSaid(rows[k])
    BY <1>4, <1>9, <2>2 DEF MaybeRow, IsSaid
  <2>4. k \notin unsure => AtRest(k, row)
    BY <1>6, <2>3, Resting DEF AtRest, Rest, ToldAre
  <2> QED BY <2>1, <2>3, <2>4, JustSaveMakes
<1>10. CASE st # NoRow /\ st.phase = "pending" /\ ~ bad
  <2>1. JustSave(k, NoRow)
    BY <1>1, <1>10 DEF DNSStep
  <2> QED BY <2>1, JustSaveMakes DEF MaybeRow
<1>11. CASE st # NoRow /\ st.phase = "pending" /\ bad
  <2>1. ~ IsSaid(rows[k]) /\ ~ IsSaid(up) /\ RowOk(cert, k, up) /\ up.phase = "pending"
    BY <1>3, <1>4, <1>11 DEF IsSaid
  <2> DEFINE row == [st EXCEPT !.phase = "open", !.count = 0, !.mark = 0, !.sent = 0]
  <2>2. row \in RowType /\ row.phase = "open"
    BY <1>7, <1>11, RowBegun
  <2>3. CASE LongEnough(up.count, st.since)
    <3>1. Open(k, Keep, row, up)
      BY <1>1, <1>11, <2>3 DEF DNSStep
    <3> HIDE DEF row, up
    <3>2. OpenSound(k, Keep, Recipients(k), row, up)
      BY <1>4, <1>5, <1>6, <2>1, <2>2 DEF OpenSound, IsSaid
    <3> QED BY <3>1, <3>2, OpenMakes
  <2>4. CASE ~ LongEnough(up.count, st.since)
    <3>1. JustSave(k, up)
      BY <1>1, <1>11, <2>4 DEF DNSStep
    <3> HIDE DEF up
    <3>2. k \notin unsure => AtRest(k, up)
      BY <1>6, <2>1, Resting DEF AtRest, Rest, ToldAre
    <3> QED BY <2>1, <3>1, <3>2, JustSaveMakes DEF MaybeRow
  <2> QED BY <2>3, <2>4
<1>12. CASE st # NoRow /\ st.phase = "open" /\ bad
  <2> DEFINE row == [st EXCEPT !.count = 0, !.mark = 0]
             first == IF st.count = 0 THEN Keep ELSE row
  <2>1. FollowUp(k, first)
    BY <1>1, <1>12 DEF DNSStep
  <2>2. row \in RowType /\ row.phase = "open"
    BY <1>7, <1>12, RowBegun
  <2>3. Follows(cert, k, rows[k])
    BY <1>6, <1>12 DEF IsSaid
  <2> HIDE DEF row
  <2> QED BY <1>4, <2>1, <2>2, <2>3, FollowUpMakes
<1>13. CASE st # NoRow /\ st.phase = "open" /\ ~ bad
  <2>1. IsSaid(rows[k]) /\ IsSaid(good) /\ RowOk(cert, k, good)
    BY <1>3, <1>4, <1>5, <1>13 DEF IsSaid
  <2> HIDE DEF good
  <2>2. MaybeRow(cert, k, good) /\ (k \notin unsure => AtRest(k, good))
    BY <1>6, <2>1, Resting DEF AtRest, Rest, ToldAre, MaybeRow
  <2>3. IF LongEnough(good.count, good.mark) THEN Closed(k, good) ELSE JustSave(k, good)
    BY <1>1, <1>13 DEF DNSStep, good
  <2>4. CASE LongEnough(good.count, good.mark)
    <3>1. Closed(k, good)
      BY <2>3, <2>4
    <3> QED BY <2>1, <2>2, <3>1, ClosedMakes
  <2>5. CASE ~ LongEnough(good.count, good.mark)
    <3>1. JustSave(k, good)
      BY <2>3, <2>5
    <3> QED BY <2>2, <3>1, JustSaveMakes
  <2> QED BY <2>4, <2>5
<1> QED BY <1>7, <1>8, <1>9, <1>10, <1>11, <1>12, <1>13

LEMMA StageEnds ==
    ASSUME NotifyInv, NEW at \in {"cert", "done"}, pass' = [pass EXCEPT !.at = at], asked' = asked
    PROVE  NothingPlanned
<1>1. pass \in PassType
  BY DEF NotifyInv, NotifyTyped
<1>2. at \in Ats
  BY DEF Ats
<1>3. pass' \in PassType /\ pass'.at = at
  BY <1>1, <1>2 DEF PassType
<1>4. at \notin Writing /\ at \notin {"dns", "limits"}
  BY DEF Writing
<1> QED BY <1>3, <1>4 DEF NothingPlanned, TodoOk

LEMMA NothingIsMade ==
    ASSUME NoticeConsts, NotifyInv, Looking, StillThere, NothingPlanned
    PROVE  NotifyInv'
BY NothingKeeps DEF NothingPlanned

LEMMA PlanIsMade ==
    ASSUME NoticeConsts, NotifyInv, Looking, StillThere, PlannedSoundly
    PROVE  NotifyInv'
<1>1. PICK k, first, kind, to, sent, held :
        Plan(k, first, kind, to, sent, held) /\ Sound(k, first, kind, to, sent, held)
  BY DEF PlannedSoundly
<1> QED BY <1>1, PlanKeeps

LEMMA CheckDomainKeeps ==
    ASSUME NoticeConsts, NotifyInv, CheckDomain
    PROVE  NotifyInv'
<1>1. Looking /\ StillThere /\ pass.at = "dns"
  BY DEF CheckDomain, Running, Looking, Writing, StillThere
<1>2. PICK k \in pass.todo : \/ DNSStep(k[2], k \in wrong)
                             \/ Nothing(k)
  BY DEF CheckDomain, NothingLearned
<1>3. Turn(k) /\ k[1] = "dns"
  <2>1. pass \in PassType /\ TodoOk
    BY DEF NotifyInv, NotifyTyped
  <2>2. k \in Keys /\ k[1] = "dns"
    BY <1>1, <1>2, <2>1, PassParts DEF TodoOk
  <2> QED BY <1>1, <2>2 DEF Turn
<1>4. PlannedSoundly \/ NothingPlanned
  <2>1. CASE DNSStep(k[2], k \in wrong)
    <3> DEFINE bad == k \in wrong
    <3>1. bad \in BOOLEAN
      OBVIOUS
    <3>2. DNSStep(k[2], bad)
      BY <2>1
    <3> HIDE DEF bad
    <3> QED BY <1>3, <3>1, <3>2, DNSStepMakes
  <2>2. CASE Nothing(k)
    BY <1>3, <2>2, NothingMakes
  <2> QED BY <1>2, <2>1, <2>2
<1> QED BY <1>1, <1>4, NothingIsMade, PlanIsMade

LEMMA ForgetDomainsKeeps ==
    ASSUME NoticeConsts, NotifyInv, ForgetDomains
    PROVE  NotifyInv'
<1>1. Looking /\ StillThere /\ pass.at = "dns"
  BY DEF ForgetDomains, Running, Looking, Writing, StillThere
<1>2. CASE \E k \in Keys : k[1] = "dns" /\ JustSave(k, NoRow)
  <2>1. PICK k \in Keys : k[1] = "dns" /\ JustSave(k, NoRow)
    BY <1>2
  <2>2. Turn(k)
    BY <1>1, <2>1 DEF Turn
  <2>3. PlannedSoundly
    BY <2>1, <2>2, JustSaveMakes DEF MaybeRow
  <2> QED BY <1>1, <2>3, PlanIsMade
<1>3. CASE pass' = [pass EXCEPT !.at = "cert"] /\ asked' = asked
  BY <1>1, <1>3, StageEnds, NothingIsMade
<1> QED BY <1>2, <1>3 DEF ForgetDomains

LEMMA CheckCertificateKeeps ==
    ASSUME NoticeConsts, NotifyInv, CheckCertificate
    PROVE  NotifyInv'
<1> DEFINE k == Key("cert", Server)
           st == rows[k]
<1>1. Looking /\ StillThere /\ pass.at = "cert"
  BY DEF CheckCertificate, Running, Looking, Writing, StillThere
<1>2. k \in Keys /\ k[1] = "cert"
  BY DEF Keys, Key
<1>3. Nothing(k) \/ CertificateStep(k, st)
  BY DEF CheckCertificate
<1>4. cert.serial \in Nat /\ cert.level \in {"", "first", "last"}
  BY DEF NotifyInv, NotifyTyped, WorldTyped, CertType
<1> HIDE DEF k
<1>5. Turn(k)
  BY <1>1, <1>2 DEF Turn
<1>6. st # NoRow => st \in RowType /\ IsSaid(st)
  BY <1>2, <1>5, Resting DEF RowOk, Phases, IsSaid
<1>7. CASE Nothing(k)
  BY <1>1, <1>5, <1>7, NothingMakes, NothingIsMade
<1>8. CASE cert.level = "" /\ CertificateStep(k, st)
  <2>1. Nothing(k) \/ JustSave(k, NoRow)
    BY <1>8 DEF CertificateStep
  <2>2. CASE JustSave(k, NoRow)
    BY <1>1, <1>5, <2>2, JustSaveMakes, PlanIsMade DEF MaybeRow
  <2> QED BY <1>7, <2>1, <2>2
<1>9. CASE /\ cert.level # "" /\ CertificateStep(k, st)
           /\ st # NoRow /\ st.mark = cert.serial /\ st.phase \in {cert.level, "last"}
  <2>1. FollowUp(k, Keep)
    BY <1>9 DEF CertificateStep
  <2>2. Follows(cert, k, rows[k])
    BY <1>2, <1>6, <1>9 DEF Follows
  <2> QED BY <1>1, <1>5, <2>1, <2>2, FollowUpMakes, PlanIsMade
<1>10. CASE /\ cert.level # "" /\ CertificateStep(k, st)
            /\ ~ (st # NoRow /\ st.mark = cert.serial /\ st.phase \in {cert.level, "last"})
  <2> DEFINE level == cert.level
             serial == cert.serial
             row == [Row(level) EXCEPT !.mark = serial]
             first == IF st # NoRow /\ st.mark # cert.serial THEN NoRow ELSE Keep
  <2>1. Open(k, first, row, Keep)
    BY <1>10 DEF CertificateStep
  <2>2. level \in {"first", "last"} /\ serial \in Nat
    BY <1>4, <1>10
  <2>3. row \in RowType /\ row.phase = level /\ row.mark = serial
    <3> HIDE DEF level, serial
    <3>1. Row(level) \in RowType /\ Row(level).phase = level
      BY <2>2, NewRow
    <3> QED BY <2>2, <3>1, RowMarked
  <2> HIDE DEF row
  <2>4. RowOk(cert, k, row) /\ IsSaid(row)
    <3>1. row.phase \in Phases(k)
      BY <1>2, <2>2, <2>3 DEF Phases
    <3>2. CertRow(cert, row)
      <4>1. row.mark <= cert.serial
        BY <2>2, <2>3
      <4>2. cert.level # ""
        BY <1>10
      <4>3. row.phase = cert.level
        BY <2>3
      <4> QED BY <4>1, <4>2, <4>3 DEF CertRow
    <3>3. IsSaid(row)
      BY <2>2, <2>3, RowIsNone DEF IsSaid
    <3> QED BY <2>3, <3>1, <3>2, <3>3 DEF RowOk
  <2>5. ~ Follows(cert, k, rows[k])
    BY <1>2, <1>10 DEF Follows, IsSaid
  <2>6. OpenSound(k, first, Recipients(k), row, Keep)
    BY <2>4, <2>5 DEF OpenSound
  <2> QED BY <1>1, <1>5, <2>1, <2>6, OpenMakes, PlanIsMade
<1> QED BY <1>3, <1>7, <1>8, <1>9, <1>10

LEMMA CheckQueueKeeps ==
    ASSUME NoticeConsts, NotifyInv, CheckQueue
    PROVE  NotifyInv'
<1> DEFINE k == Key("queue", Server)
<1>1. Looking /\ StillThere /\ pass.at = "queue"
  BY DEF CheckQueue, Running, Looking, Writing, StillThere
<1>2. k \in Keys /\ k[1] = "queue"
  BY DEF Keys, Key
<1>3. \/ rows[k] = NoRow /\ Open(k, Keep, Row("open"), Keep)
      \/ rows[k] # NoRow /\ FollowUp(k, Keep)
      \/ rows[k] # NoRow /\ Closed(k, Keep)
      \/ Nothing(k)
  BY DEF CheckQueue
<1> HIDE DEF k
<1>4. Turn(k)
  BY <1>1, <1>2 DEF Turn
<1>5. rows[k] # NoRow => IsSaid(rows[k]) /\ Follows(cert, k, rows[k])
  BY <1>2, <1>4, Resting DEF RowOk, Phases, IsSaid, Follows
<1>6. CASE rows[k] = NoRow /\ Open(k, Keep, Row("open"), Keep)
  <2>1. Row("open") \in RowType /\ Row("open").phase = "open"
    BY NewRow
  <2>2. RowOk(cert, k, Row("open")) /\ IsSaid(Row("open"))
    BY <1>2, <2>1, RowIsNone DEF RowOk, Phases, IsSaid
  <2>3. OpenSound(k, Keep, Recipients(k), Row("open"), Keep)
    BY <1>6, <2>2 DEF OpenSound, Follows, IsSaid
  <2> QED BY <1>1, <1>4, <1>6, <2>3, OpenMakes, PlanIsMade
<1>7. CASE rows[k] # NoRow /\ FollowUp(k, Keep)
  BY <1>1, <1>4, <1>5, <1>7, FollowUpMakes, PlanIsMade
<1>8. CASE rows[k] # NoRow /\ Closed(k, Keep)
  BY <1>1, <1>4, <1>5, <1>8, ClosedMakes, PlanIsMade DEF MaybeRow
<1>9. CASE Nothing(k)
  BY <1>1, <1>4, <1>9, NothingMakes, NothingIsMade
<1> QED BY <1>3, <1>6, <1>7, <1>8, <1>9

LEMMA CheckLimitKeeps ==
    ASSUME NoticeConsts, NotifyInv, CheckLimit
    PROVE  NotifyInv'
<1>1. Looking /\ StillThere /\ pass.at = "limits"
  BY DEF CheckLimit, Running, Looking, Writing, StillThere
<1>2. PICK k \in pass.todo : IF rows[k] # NoRow /\ rows[k].sent < LimitRepeat THEN FollowUp(k, Keep)
                             ELSE Open(k, Keep, Row("open"), Keep)
  BY DEF CheckLimit
<1>3. Turn(k) /\ k[1] = "limit"
  <2>1. pass \in PassType /\ TodoOk
    BY DEF NotifyInv, NotifyTyped
  <2>2. k \in Keys /\ k[1] = "limit"
    BY <1>1, <1>2, <2>1, PassParts DEF TodoOk
  <2> QED BY <1>1, <2>2 DEF Turn
<1>4. rows[k] # NoRow => IsSaid(rows[k])
  BY <1>3, Resting DEF RowOk, Phases, IsSaid
<1>5. CASE rows[k] # NoRow /\ rows[k].sent < LimitRepeat
  <2>1. Follows(cert, k, rows[k])
    BY <1>3, <1>4, <1>5 DEF Follows
  <2> QED BY <1>1, <1>2, <1>3, <1>5, <2>1, FollowUpMakes, PlanIsMade
<1>6. CASE ~ (rows[k] # NoRow /\ rows[k].sent < LimitRepeat)
  <2>1. Row("open") \in RowType /\ Row("open").phase = "open"
    BY NewRow
  <2>2. RowOk(cert, k, Row("open")) /\ IsSaid(Row("open"))
    BY <1>3, <2>1, RowIsNone DEF RowOk, Phases, IsSaid
  <2>3. OpenSound(k, Keep, Recipients(k), Row("open"), Keep)
    BY <1>3, <1>6, <2>2 DEF OpenSound, Follows, IsSaid
  <2> QED BY <1>1, <1>2, <1>3, <1>6, <2>3, OpenMakes, PlanIsMade
<1> QED BY <1>5, <1>6

LEMMA ForgetLimitsKeeps ==
    ASSUME NoticeConsts, NotifyInv, ForgetLimits
    PROVE  NotifyInv'
<1>1. Looking /\ StillThere /\ pass.at = "limits"
  BY DEF ForgetLimits, Running, Looking, Writing, StillThere
<1>2. CASE \E k \in Keys : k[1] = "limit" /\ JustSave(k, NoRow)
  <2>1. PICK k \in Keys : k[1] = "limit" /\ JustSave(k, NoRow)
    BY <1>2
  <2>2. Turn(k)
    BY <1>1, <2>1 DEF Turn
  <2>3. PlannedSoundly
    BY <2>1, <2>2, JustSaveMakes DEF MaybeRow
  <2> QED BY <1>1, <2>3, PlanIsMade
<1>3. CASE pass' = [pass EXCEPT !.at = "done"] /\ asked' = asked
  BY <1>1, <1>3, StageEnds, NothingIsMade
<1> QED BY <1>2, <1>3 DEF ForgetLimits

-----------------------------------------------------------------------------
(* The writes and the messages.                                            *)

Handling == pass.at \in Writing /\ PlanOk(pass.key)

LEMMA HandlingHas ==
    ASSUME NotifyInv, pass.at \in Writing
    PROVE  /\ PlanOk(pass.key) /\ pass.key \in Keys /\ pass \in PassType
           /\ pass.key \notin unsure => SaidOk(pass.key)
BY DEF NotifyInv, NotifyTyped, PlanInStep, SaidInStep, PlanOk

LEMMA WriteDoes ==
    ASSUME NoticeConsts, NotifyTyped, NEW k \in Keys, NEW row, MaybeRow(cert, k, row), Write(k, row), cert' = cert
    PROVE  /\ RowsTyped' /\ OwedTyped' /\ said' \in [Keys -> SUBSET Users] /\ unsure' \subseteq unsure
           /\ \A j \in Keys \ {k} : /\ rows'[j] = rows[j] /\ owed'[j] = owed[j] /\ said'[j] = said[j]
                                    /\ j \notin unsure' => j \notin unsure
           /\ row = Keep => UNCHANGED <<rows, owed, said, unsure>>
           /\ row = NoRow => rows'[k] = NoRow /\ owed'[k] = NoOne /\ said'[k] = {} /\ k \notin unsure'
           /\ row \notin {Keep, NoRow} => rows'[k] = row /\ UNCHANGED <<owed, said, unsure>>
<1>1. /\ rows = [j \in Keys |-> rows[j]] /\ (\A j \in Keys : rows[j] = NoRow \/ RowOk(cert, j, rows[j]))
      /\ owed \in [Keys -> OwedType] /\ (\A j \in Keys : owed[j].told \cap owed[j].due = {})
      /\ said \in [Keys -> SUBSET Users]
  BY DEF NotifyTyped, RowsTyped, OwedTyped, PastTyped
<1>2. NoOne \in OwedType /\ NoOne.told \cap NoOne.due = {}
  BY DEF NoOne, OwedType
<1>3. CASE row = Keep
  <2>1. UNCHANGED <<rows, owed, said, unsure>>
    BY <1>3 DEF Write
  <2> QED BY <1>1, <1>3, <2>1, RowIsNone DEF RowsTyped, OwedTyped
<1>4. CASE row # Keep
  <2>1. rows' = [rows EXCEPT ![k] = row]
    BY <1>4 DEF Write
  <2>2. /\ rows' = [j \in Keys |-> rows'[j]] /\ rows'[k] = row
        /\ \A j \in Keys \ {k} : rows'[j] = rows[j]
    BY <1>1, <2>1
  <2>3. RowsTyped'
    BY <1>1, <1>4, <2>2 DEF RowsTyped, MaybeRow
  <2>4. CASE row = NoRow
    <3>1. /\ owed' = [owed EXCEPT ![k] = NoOne] /\ said' = [said EXCEPT ![k] = {}]
          /\ unsure' = unsure \ {k}
      BY <1>4, <2>4 DEF Write
    <3>2. /\ owed' \in [Keys -> OwedType] /\ owed'[k] = NoOne /\ said'[k] = {}
          /\ said' \in [Keys -> SUBSET Users]
          /\ \A j \in Keys \ {k} : owed'[j] = owed[j] /\ said'[j] = said[j]
      BY <1>1, <1>2, <3>1
    <3>3. OwedTyped'
      BY <1>1, <1>2, <3>2 DEF OwedTyped
    <3> QED BY <2>2, <2>3, <2>4, <3>1, <3>2, <3>3, <1>4
  <2>5. CASE row # NoRow
    <3>1. UNCHANGED <<owed, said, unsure>>
      BY <1>4, <2>5 DEF Write
    <3>2. OwedTyped'
      BY <1>1, <3>1 DEF OwedTyped
    <3> QED BY <1>1, <2>2, <2>3, <2>5, <3>1, <3>2, <1>4
  <2> QED BY <2>4, <2>5
<1> QED BY <1>3, <1>4

LEMMA OthersRest ==
    ASSUME NotifyInv, pass.at \in Writing, cert' = cert,
           \A j \in Keys \ {pass.key} : /\ rows'[j] = rows[j] /\ owed'[j] = owed[j]
                                        /\ said'[j] = said[j] /\ asked'[j] = asked[j]
                                        /\ j \notin unsure' => j \notin unsure
    PROVE  \A j \in Keys \ {pass.key} : j \notin unsure' => AtRest(j, rows[j])'
<1> SUFFICES ASSUME NEW j \in Keys \ {pass.key}, j \notin unsure' PROVE AtRest(j, rows[j])'
  OBVIOUS
<1>1. AtRest(j, rows[j])
  BY DEF NotifyInv, AllAtRest, InHand
<1>2. UNCHANGED cert /\ rows'[j] = rows[j] /\ owed'[j] = owed[j] /\ said'[j] = said[j] /\ asked'[j] = asked[j]
  OBVIOUS
<1> QED BY <1>1, <1>2 DEF AtRest

LEMMA SaveFirstKeeps ==
    ASSUME NoticeConsts, NotifyInv, SaveFirst
    PROVE  NotifyInv'
<1> DEFINE k == pass.key
<1>1. pass.at = "first" /\ pass.at \in Writing
  BY DEF SaveFirst, Running, Writing
<1>2. /\ PlanOk(k) /\ k \in Keys /\ pass \in PassType /\ (k \notin unsure => SaidOk(k)) /\ pass.handed = {}
  BY <1>1, HandlingHas DEF PlanOk
<1>3. pass' = [pass EXCEPT !.at = "send"]
  BY DEF SaveFirst
<1>4. /\ pass' \in PassType /\ pass'.at = "send" /\ pass'.key = k /\ pass'.todo = pass.todo
      /\ pass'.kind = pass.kind /\ pass'.first = pass.first /\ pass'.to = pass.to
      /\ pass'.handed = pass.handed /\ pass'.sent = pass.sent /\ pass'.held = pass.held
  BY <1>2, <1>3 DEF PassType, Ats
<1>5. UNCHANGED <<enabled, doms, hears, wrong, cert, hour, asked>>
  BY DEF SaveFirst, world
<1>6. Write(k, pass.first) \/ LoseWrite(k)
  BY DEF SaveFirst
<1>7. NotifyTyped
  BY DEF NotifyInv
<1>8. /\ RowsTyped' /\ OwedTyped' /\ PastTyped'
      /\ \A j \in Keys \ {k} : /\ rows'[j] = rows[j] /\ owed'[j] = owed[j] /\ said'[j] = said[j]
                               /\ j \notin unsure' => j \notin unsure
  <2>1. CASE Write(k, pass.first)
    <3>1. MaybeRow(cert, k, pass.first)
      BY <1>2 DEF PlanOk
    <3>2. /\ RowsTyped' /\ OwedTyped' /\ said' \in [Keys -> SUBSET Users] /\ unsure' \subseteq unsure
          /\ \A j \in Keys \ {k} : /\ rows'[j] = rows[j] /\ owed'[j] = owed[j] /\ said'[j] = said[j]
                                   /\ j \notin unsure' => j \notin unsure
      BY <1>2, <1>5, <1>7, <2>1, <3>1, WriteDoes
    <3> QED BY <1>5, <1>7, <3>2 DEF NotifyTyped, PastTyped
  <2>2. CASE LoseWrite(k)
    BY <1>2, <1>5, <1>7, <2>2 DEF LoseWrite, NotifyTyped, RowsTyped, OwedTyped, PastTyped
  <2> QED BY <1>6, <2>1, <2>2
<1>9. NotifyTyped'
  BY <1>4, <1>5, <1>7, <1>8 DEF NotifyTyped, WorldTyped
<1>10. PlanInStep'
  <2>1. PlanOk(k)'
    BY <1>2, <1>4, <1>5 DEF PlanOk, OpenPlan, FollowPlan
  <2> QED BY <1>4, <2>1 DEF PlanInStep
<1>11. SaidInStep'
  <2> SUFFICES ASSUME k \notin unsure' PROVE SaidOk(k)'
    BY <1>4 DEF SaidInStep
  <2>1. Write(k, pass.first)
    BY <1>6 DEF LoseWrite
  <2>2. /\ pass.first = Keep => UNCHANGED <<rows, owed, said, unsure>>
        /\ pass.first = NoRow => rows'[k] = NoRow /\ owed'[k] = NoOne /\ said'[k] = {} /\ k \notin unsure'
        /\ pass.first \notin {Keep, NoRow} => rows'[k] = pass.first /\ UNCHANGED <<owed, said, unsure>>
    BY <1>2, <1>5, <1>7, <2>1, WriteDoes DEF PlanOk
  <2>3. CASE pass.first = Keep
    <3>1. SaidOk(k) /\ UNCHANGED <<rows, owed, said>>
      BY <1>2, <2>2, <2>3
    <3> QED BY <1>1, <1>4, <1>5, <3>1 DEF SaidOk, OpenSaid, FollowSaid, RestSaid, SavedSaid, AtRest
  <2>4. CASE pass.first = NoRow
    <3>1. pass.kind = "open"
      BY <1>2, <2>4, RowIsNone, PassParts DEF PlanOk, FollowPlan, RowOk, MessageKinds
    <3>2. ~ IsSaid(rows'[k]) /\ ToldAre(rows'[k], said'[k], owed'[k])
      BY <2>2, <2>4 DEF ToldAre, IsSaid
    <3>3. OpenSaid(k)'
      BY <1>2, <1>4, <3>2, FollowsParts DEF OpenSaid, Follows
    <3> QED BY <1>4, <3>1, <3>3 DEF SaidOk
  <2>5. CASE pass.first \notin {Keep, NoRow}
    <3>1. /\ pass.kind = "follow" /\ RowOk(cert, k, pass.first) /\ pass.first.phase = "open"
      BY <1>2, <2>5, PassParts DEF PlanOk, FollowPlan, OpenPlan, MessageKinds
    <3>2. IsSaid(pass.first)
      BY <2>5, <3>1 DEF IsSaid
    <3>3. FollowSaid(k)
      BY <1>1, <1>2, <2>2, <2>5, <3>1 DEF SaidOk
    <3>4. FollowSaid(k)'
      BY <1>4, <1>5, <2>2, <2>5, <3>2, <3>3 DEF FollowSaid
    <3> QED BY <1>4, <3>1, <3>4 DEF SaidOk
  <2> QED BY <2>3, <2>4, <2>5
<1>12. AllAtRest'
  <2>1. \A j \in Keys \ {k} : j \notin unsure' => AtRest(j, rows[j])'
    BY <1>1, <1>5, <1>8, OthersRest
  <2> QED BY <1>4, <2>1 DEF AllAtRest, InHand, Writing
<1>13. TodoOk'
  BY <1>1, <1>4 DEF NotifyInv, TodoOk
<1> QED BY <1>9, <1>10, <1>11, <1>12, <1>13 DEF NotifyInv

LEMMA DeliverDoes ==
    ASSUME NotifyInv, Deliver
    PROVE  \E u \in pass.to :
             /\ \/ /\ pass' = [pass EXCEPT !.to = @ \ {u}, !.handed = @ \cup {u}]
                   /\ unsure' = unsure
                   /\ said' = IF pass.kind = "closed" THEN said
                              ELSE [said EXCEPT ![pass.key] = (IF Anew(pass.key) THEN {} ELSE @) \cup {u}]
                \/ /\ pass' = [pass EXCEPT !.to = @ \ {u}]
                   /\ unsure' = unsure \cup {pass.key}
                   /\ said' = IF pass.kind = "closed" THEN said
                              ELSE [said EXCEPT ![pass.key] = (IF Anew(pass.key) THEN {} ELSE @) \cup {u}]
                \/ pass' = [pass EXCEPT !.to = @ \ {u}] /\ UNCHANGED <<said, unsure>>
BY DEF Deliver

LEMMA DeliverKeeps ==
    ASSUME NoticeConsts, NotifyInv, Deliver
    PROVE  NotifyInv'
<1> DEFINE k == pass.key
<1>1. pass.at = "send" /\ pass.at \in Writing
  BY DEF Deliver, Running, Writing
<1>2. /\ PlanOk(k) /\ k \in Keys /\ pass \in PassType /\ (k \notin unsure => SaidOk(k))
  BY <1>1, HandlingHas
<1>3. PICK u \in pass.to :
        \/ /\ pass' = [pass EXCEPT !.to = @ \ {u}, !.handed = @ \cup {u}]
           /\ unsure' = unsure
           /\ said' = IF pass.kind = "closed" THEN said
                      ELSE [said EXCEPT ![k] = (IF Anew(k) THEN {} ELSE @) \cup {u}]
        \/ /\ pass' = [pass EXCEPT !.to = @ \ {u}]
           /\ unsure' = unsure \cup {k}
           /\ said' = IF pass.kind = "closed" THEN said
                      ELSE [said EXCEPT ![k] = (IF Anew(k) THEN {} ELSE @) \cup {u}]
        \/ pass' = [pass EXCEPT !.to = @ \ {u}] /\ UNCHANGED <<said, unsure>>
  BY DeliverDoes
<1>4. u \in Users /\ u \in pass.to /\ u \notin pass.handed
  BY <1>2, <1>3, PassParts DEF PlanOk
<1> DEFINE to == pass.to \ {u}
           more == pass.handed \cup {u}
<1>5. to \in SUBSET Users /\ more \in SUBSET Users /\ pass.handed \in SUBSET Users
  BY <1>2, <1>4, PassParts
<1>6. /\ pass' \in PassType /\ pass'.at = "send" /\ pass'.key = k /\ pass'.todo = pass.todo
      /\ pass'.kind = pass.kind /\ pass'.first = pass.first /\ pass'.to = to
      /\ pass'.handed \in {pass.handed, more} /\ pass'.sent = pass.sent /\ pass'.held = pass.held
      /\ pass'.handed # pass.handed => /\ unsure' = unsure
                                       /\ said' = IF pass.kind = "closed" THEN said
                                            ELSE [said EXCEPT ![k] = (IF Anew(k) THEN {} ELSE @) \cup {u}]
      /\ pass'.handed = pass.handed => k \in unsure' \/ UNCHANGED <<said, unsure>>
  <2> HIDE DEF to, more
  <2>1. CASE pass' = [pass EXCEPT !.to = to, !.handed = more]
    <3>1. /\ pass' \in PassType /\ pass'.at = pass.at /\ pass'.key = k /\ pass'.todo = pass.todo
          /\ pass'.kind = pass.kind /\ pass'.first = pass.first /\ pass'.to = to
          /\ pass'.handed = more /\ pass'.sent = pass.sent /\ pass'.held = pass.held
      BY <1>2, <1>5, <2>1 DEF PassType
    <3>2. more # pass.handed
      BY <1>4 DEF more
    <3>3. /\ unsure' = unsure
          /\ said' = IF pass.kind = "closed" THEN said
                     ELSE [said EXCEPT ![k] = (IF Anew(k) THEN {} ELSE @) \cup {u}]
      <4>1. [pass EXCEPT !.to = @ \ {u}].handed = pass.handed
        BY <1>2 DEF PassType
      <4> QED BY <1>3, <3>1, <3>2, <4>1
    <3> QED BY <1>1, <3>1, <3>2, <3>3
  <2>2. CASE pass' = [pass EXCEPT !.to = to]
    <3>1. /\ pass' \in PassType /\ pass'.at = pass.at /\ pass'.key = k /\ pass'.todo = pass.todo
          /\ pass'.kind = pass.kind /\ pass'.first = pass.first /\ pass'.to = to
          /\ pass'.handed = pass.handed /\ pass'.sent = pass.sent /\ pass'.held = pass.held
      BY <1>2, <1>5, <2>2 DEF PassType
    <3>2. k \in unsure' \/ UNCHANGED <<said, unsure>>
      <4>1. [pass EXCEPT !.to = @ \ {u}, !.handed = @ \cup {u}].handed = pass.handed \cup {u}
        BY <1>2 DEF PassType
      <4>2. pass' # [pass EXCEPT !.to = @ \ {u}, !.handed = @ \cup {u}]
        BY <1>4, <3>1, <4>1
      <4> QED BY <1>3, <4>2
    <3> QED BY <1>1, <3>1, <3>2
  <2> QED BY <1>3, <2>1, <2>2 DEF to, more
<1>7. UNCHANGED <<enabled, doms, hears, wrong, cert, rows, owed, asked>>
  BY DEF Deliver, world, tables
<1>8. NotifyTyped
  BY DEF NotifyInv
<1>9. /\ said' \in [Keys -> SUBSET Users] /\ unsure' \subseteq Keys /\ unsure \subseteq unsure'
      /\ \A j \in Keys \ {k} : said'[j] = said[j] /\ (j \notin unsure' => j \notin unsure)
  <2>1. said \in [Keys -> SUBSET Users] /\ unsure \subseteq Keys
    BY <1>8 DEF NotifyTyped, PastTyped
  <2>2. unsure' \subseteq Keys /\ unsure \subseteq unsure'
    BY <1>2, <1>3, <2>1
  <2>3. said' = said \/ \E S \in SUBSET Users : said' = [said EXCEPT ![k] = S]
    <3>1. ((IF Anew(k) THEN {} ELSE said[k]) \cup {u}) \in SUBSET Users
      BY <1>2, <1>4, <2>1
    <3> QED BY <1>3, <3>1
  <2>4. said' \in [Keys -> SUBSET Users] /\ \A j \in Keys \ {k} : said'[j] = said[j]
    BY <2>1, <2>3
  <2> QED BY <2>2, <2>4
<1>10. hour' \in 0..HourlyCeiling
  BY <1>8 DEF Deliver, NotifyTyped, NoticeConsts, NotifierConstants
<1>11. NotifyTyped'
  BY <1>6, <1>7, <1>8, <1>9, <1>10 DEF NotifyTyped, WorldTyped, RowsTyped, OwedTyped, PastTyped
<1>12. PlanInStep'
  <2>1. pass'.to \cap pass'.handed = {} /\ pass'.to \cup pass'.handed \subseteq pass.to \cup pass.handed
    BY <1>2, <1>3, <1>6 DEF PlanOk
  <2>2. pass.kind # "none"
    BY <1>2, <1>3 DEF PlanOk
  <2>3. PlanOk(k)'
    BY <1>2, <1>6, <1>7, <2>1, <2>2 DEF PlanOk, OpenPlan, FollowPlan
  <2> QED BY <1>6, <2>3 DEF PlanInStep
<1>13. SaidInStep'
  <2> SUFFICES ASSUME k \notin unsure' PROVE SaidOk(k)'
    BY <1>6 DEF SaidInStep
  <2>1. SaidOk(k) /\ k \notin unsure /\ said \in [Keys -> SUBSET Users]
    BY <1>2, <1>8, <1>9 DEF NotifyTyped, PastTyped
  <2>2. pass'.to \cup pass'.handed \subseteq pass.to \cup pass.handed
    BY <1>3, <1>6
  <2>3. CASE pass'.handed = pass.handed
    <3>1. UNCHANGED <<said, unsure>>
      BY <1>6, <2>3
    <3> QED BY <1>1, <1>6, <1>7, <2>1, <2>2, <2>3, <3>1
            DEF SaidOk, OpenSaid, FollowSaid, RestSaid, SavedSaid, AtRest
  <2>4. CASE pass'.handed # pass.handed
    <3>1. /\ pass'.handed = pass.handed \cup {u}
          /\ pass.kind # "closed" => said'[k] = (IF Anew(k) THEN {} ELSE said[k]) \cup {u}
          /\ pass.kind = "closed" => said' = said
      BY <1>2, <1>6, <2>1, <2>4
    <3>2. pass.kind = "open" => OpenSaid(k)'
      <4> SUFFICES ASSUME pass.kind = "open" PROVE OpenSaid(k)'
        OBVIOUS
      <4>1. OpenSaid(k)
        BY <1>1, <2>1 DEF SaidOk
      <4>2. said'[k] = pass'.handed
        <5>1. CASE pass.handed = {}
          <6>1. CASE Anew(k)
            BY <3>1, <5>1, <6>1
          <6>2. CASE ~ Anew(k)
            <7>1. ~ IsSaid(rows[k])
              BY <5>1, <6>2 DEF Anew, IsSaid
            <7>2. said[k] = {}
              BY <4>1, <5>1, <7>1 DEF OpenSaid, ToldAre
            <7> QED BY <3>1, <5>1, <6>2, <7>2
          <6> QED BY <6>1, <6>2
        <5>2. CASE pass.handed # {}
          <6>1. ~ Anew(k) /\ said[k] = pass.handed
            BY <4>1, <5>2 DEF Anew, OpenSaid
          <6> QED BY <3>1, <6>1
        <5> QED BY <5>1, <5>2
      <4> QED BY <1>6, <1>7, <3>1, <4>1, <4>2 DEF OpenSaid
    <3>3. pass.kind = "follow" => FollowSaid(k)'
      <4> SUFFICES ASSUME pass.kind = "follow" PROVE FollowSaid(k)'
        OBVIOUS
      <4>1. FollowSaid(k) /\ ~ Anew(k)
        BY <1>1, <2>1 DEF SaidOk, Anew
      <4> QED BY <1>6, <1>7, <2>2, <3>1, <4>1 DEF FollowSaid
    <3>4. pass.kind = "closed" => RestSaid(k)' /\ pass'.to \cup pass'.handed \subseteq said'[k]
      BY <1>1, <1>6, <1>7, <2>1, <2>2, <3>1 DEF SaidOk, RestSaid, AtRest
    <3>5. pass.kind # "none"
      BY <1>2, <1>3 DEF PlanOk
    <3> QED BY <1>6, <3>2, <3>3, <3>4, <3>5 DEF SaidOk
  <2> QED BY <2>3, <2>4
<1>14. AllAtRest'
  <2>1. \A j \in Keys \ {k} : j \notin unsure' => AtRest(j, rows[j])'
    BY <1>1, <1>7, <1>9, OthersRest
  <2> QED BY <1>6, <2>1 DEF AllAtRest, InHand, Writing
<1>15. TodoOk'
  BY <1>1, <1>6 DEF NotifyInv, TodoOk
<1> QED BY <1>11, <1>12, <1>13, <1>14, <1>15 DEF NotifyInv

LEMMA DeliveredKeeps ==
    ASSUME NoticeConsts, NotifyInv, Delivered
    PROVE  NotifyInv'
<1> DEFINE k == pass.key
           at == IF pass.handed # {} /\ pass.kind \in {"open", "follow"} THEN "record" ELSE "save"
           save == IF pass.handed # {} THEN pass.sent ELSE pass.held
<1>1. pass.at = "send" /\ pass.at \in Writing /\ pass.to = {}
  BY DEF Delivered, Running, Writing
<1>2. /\ PlanOk(k) /\ k \in Keys /\ pass \in PassType /\ (k \notin unsure => SaidOk(k))
  BY <1>1, HandlingHas
<1>3. at \in Ats /\ at \in Writing /\ save \in Planned
  BY <1>2, PassParts DEF Ats, Writing
<1>4. pass' = [pass EXCEPT !.at = at, !.save = save]
  BY DEF Delivered
<1>5. /\ pass' \in PassType /\ pass'.at = at /\ pass'.key = k /\ pass'.todo = pass.todo
      /\ pass'.kind = pass.kind /\ pass'.first = pass.first /\ pass'.to = pass.to
      /\ pass'.handed = pass.handed /\ pass'.sent = pass.sent /\ pass'.held = pass.held /\ pass'.save = save
  <2> HIDE DEF at, save, k
  <2> QED BY <1>2, <1>3, <1>4 DEF PassType, k
<1>6. UNCHANGED <<enabled, doms, hears, wrong, cert, rows, owed, hour, said, asked, unsure>>
  BY DEF Delivered, world, tables, past
<1>7. NotifyTyped'
  BY <1>5, <1>6 DEF NotifyInv, NotifyTyped, WorldTyped, RowsTyped, OwedTyped, PastTyped
<1>8. PlanInStep'
  <2>1. pass'.at = "record" => pass.handed # {} /\ pass.kind \in {"open", "follow"} /\ pass'.save = pass.sent
    BY <1>5
  <2>2. MaybeRow(cert, k, save)
    BY <1>2 DEF PlanOk
  <2>3. PlanOk(k)'
    BY <1>1, <1>2, <1>5, <1>6, <2>1, <2>2 DEF PlanOk, OpenPlan, FollowPlan
  <2> QED BY <1>5, <2>3 DEF PlanInStep
<1>9. SaidInStep'
  <2> SUFFICES ASSUME k \notin unsure PROVE SaidOk(k)'
    BY <1>5, <1>6 DEF SaidInStep
  <2>1. SaidOk(k)
    BY <1>2
  <2>2. CASE at = "record"
    <3>1. pass.kind \in {"open", "follow"}
      BY <2>2
    <3>2. pass.kind = "open" => OpenSaid(k)'
      BY <1>1, <1>5, <1>6, <2>1 DEF SaidOk, OpenSaid
    <3>3. pass.kind = "follow" => FollowSaid(k)'
      BY <1>1, <1>5, <1>6, <2>1 DEF SaidOk, FollowSaid
    <3> QED BY <1>5, <2>2, <3>1, <3>2, <3>3 DEF SaidOk
  <2>3. CASE at = "save"
    <3>1. CASE pass.handed # {}
      <4>1. pass.kind \in {"closed", "none"}
        BY <1>2, <2>3, <3>1, PassParts DEF MessageKinds
      <4>2. save = NoRow
        BY <1>2, <3>1, <4>1 DEF PlanOk
      <4> QED BY <1>5, <2>3, <4>2, RowIsNone DEF SaidOk, SavedSaid
    <3>2. CASE pass.handed = {} /\ pass.kind = "open"
      <4>1. OpenSaid(k) /\ OpenPlan(k)
        BY <1>1, <1>2, <2>1, <3>2 DEF SaidOk, PlanOk
      <4>2. save = Keep => AtRest(k, rows[k])
        BY <3>2, <4>1 DEF OpenSaid, AtRest, Rest
      <4>3. save \notin {Keep, NoRow} => AtRest(k, save)
        BY <3>2, <4>1 DEF OpenSaid, OpenPlan, AtRest, Rest, ToldAre, IsSaid, Follows
      <4> QED BY <1>5, <1>6, <2>3, <4>2, <4>3 DEF SaidOk, SavedSaid, AtRest
    <3>3. CASE pass.handed = {} /\ pass.kind = "follow"
      <4>1. FollowSaid(k) /\ FollowPlan(k)
        BY <1>1, <1>2, <2>1, <3>3 DEF SaidOk, PlanOk
      <4>2. save = Keep /\ AtRest(k, rows[k])
        BY <3>3, <4>1 DEF FollowSaid, FollowPlan, AtRest, Rest, ToldAre
      <4> QED BY <1>5, <1>6, <2>3, <4>2 DEF SaidOk, SavedSaid, AtRest
    <3>4. CASE pass.handed = {} /\ pass.kind \in {"closed", "none"}
      <4>1. RestSaid(k)
        BY <1>1, <2>1, <3>4 DEF SaidOk
      <4>2. AtRest(k, rows[k]) /\ (save \in {Keep, NoRow} \/ AtRest(k, save))
        BY <3>4, <4>1 DEF RestSaid
      <4> QED BY <1>5, <1>6, <2>3, <4>2 DEF SaidOk, SavedSaid, AtRest
    <3> QED BY <1>2, <3>1, <3>2, <3>3, <3>4, PassParts DEF MessageKinds
  <2> QED BY <2>2, <2>3
<1>10. AllAtRest'
  <2>1. \A j \in Keys \ {k} : j \notin unsure' => AtRest(j, rows[j])'
    BY <1>1, <1>6, OthersRest
  <2> QED BY <1>3, <1>5, <2>1 DEF AllAtRest, InHand
<1>11. TodoOk'
  BY <1>1, <1>3, <1>5 DEF NotifyInv, TodoOk, Writing
<1> QED BY <1>7, <1>8, <1>9, <1>10, <1>11 DEF NotifyInv

LEMMA RecordKeeps ==
    ASSUME NoticeConsts, NotifyInv, Record
    PROVE  NotifyInv'
<1> DEFINE k == pass.key
<1>1. pass.at = "record" /\ pass.at \in Writing
  BY DEF Record, Running, Writing
<1>2. /\ PlanOk(k) /\ k \in Keys /\ pass \in PassType /\ (k \notin unsure => SaidOk(k))
      /\ pass.kind \in {"open", "follow"} /\ pass.save = pass.sent /\ pass.handed # {}
  BY <1>1, HandlingHas DEF PlanOk
<1>3. pass' = [pass EXCEPT !.at = "save"]
  BY DEF Record
<1>4. /\ pass' \in PassType /\ pass'.at = "save" /\ pass'.key = k /\ pass'.todo = pass.todo
      /\ pass'.kind = pass.kind /\ pass'.first = pass.first /\ pass'.to = pass.to /\ pass'.save = pass.save
      /\ pass'.handed = pass.handed /\ pass'.sent = pass.sent /\ pass'.held = pass.held
  BY <1>2, <1>3 DEF PassType, Ats
<1>5. UNCHANGED <<enabled, doms, hears, wrong, cert, rows, hour, asked, said>>
  BY DEF Record, world, LoseWrite
<1>6. \/ owed' = [owed EXCEPT ![k] = Addressees(k)] /\ unsure' = unsure
      \/ owed' = owed /\ unsure' = unsure \cup {k}
  BY DEF Record, LoseWrite
<1>7. NotifyTyped
  BY DEF NotifyInv
<1>8. /\ owed \in [Keys -> OwedType] /\ asked \in [Keys -> SUBSET Users] /\ pass.handed \in SUBSET Users
      /\ owed[k].told \in SUBSET Users /\ owed[k].due \in SUBSET Users /\ owed[k].told \cap owed[k].due = {}
  BY <1>2, <1>7, PassParts DEF NotifyTyped, OwedTyped, OwedType, PastTyped
<1>9. /\ Addressees(k) \in OwedType /\ Addressees(k).told \cap Addressees(k).due = {}
      /\ pass.kind = "open" => Addressees(k).told = pass.handed /\ Addressees(k).due = asked[k] \ pass.handed
      /\ pass.kind = "follow" => /\ Addressees(k).told = owed[k].told \cup pass.handed
                                 /\ Addressees(k).due = owed[k].due \ pass.handed
  <2>1. asked[k] \in SUBSET Users
    BY <1>2, <1>8
  <2>2. CASE pass.kind = "open"
    <3>1. Addressees(k) = [told |-> pass.handed, due |-> asked[k] \ pass.handed]
      BY <2>2 DEF Addressees
    <3> QED BY <1>8, <2>1, <2>2, <3>1 DEF OwedType
  <2>3. CASE pass.kind = "follow"
    <3>1. Addressees(k) = [told |-> owed[k].told \cup pass.handed, due |-> owed[k].due \ pass.handed]
      BY <2>3 DEF Addressees
    <3> QED BY <1>8, <2>3, <3>1 DEF OwedType
  <2> QED BY <1>2, <2>2, <2>3
<1>10. /\ OwedTyped' /\ PastTyped'
       /\ \A j \in Keys \ {k} : owed'[j] = owed[j] /\ (j \notin unsure' => j \notin unsure)
       /\ k \notin unsure' => k \notin unsure /\ owed'[k] = Addressees(k)
  <2> HIDE DEF k
  <2>1. CASE owed' = [owed EXCEPT ![k] = Addressees(k)] /\ unsure' = unsure
    <3>1. /\ owed' \in [Keys -> OwedType] /\ owed'[k] = Addressees(k)
          /\ \A j \in Keys \ {k} : owed'[j] = owed[j]
      BY <1>2, <1>8, <1>9, <2>1
    <3> QED BY <1>5, <1>7, <1>9, <2>1, <3>1 DEF NotifyTyped, OwedTyped, PastTyped
  <2>2. CASE owed' = owed /\ unsure' = unsure \cup {k}
    BY <1>2, <1>5, <1>7, <2>2 DEF NotifyTyped, OwedTyped, PastTyped
  <2> QED BY <1>6, <2>1, <2>2 DEF k
<1>11. NotifyTyped'
  BY <1>4, <1>5, <1>7, <1>10 DEF NotifyTyped, WorldTyped, RowsTyped
<1>12. PlanInStep'
  <2>1. MaybeRow(cert, k, pass.save)
    BY <1>2 DEF PlanOk
  <2>2. PlanOk(k)'
    BY <1>2, <1>4, <1>5, <2>1 DEF PlanOk, OpenPlan, FollowPlan
  <2> QED BY <1>4, <2>2 DEF PlanInStep
<1>13. SaidInStep'
  <2> SUFFICES ASSUME k \notin unsure' PROVE SavedSaid(k)'
    BY <1>4 DEF SaidInStep, SaidOk
  <2>1. SaidOk(k) /\ owed'[k] = Addressees(k)
    BY <1>2, <1>10
  <2>2. CASE pass.kind = "open"
    <3>1. OpenSaid(k) /\ OpenPlan(k)
      BY <1>1, <1>2, <2>1, <2>2 DEF SaidOk, PlanOk
    <3>2. said[k] = pass.handed /\ IsSaid(pass.sent) /\ pass.sent \notin {Keep, NoRow}
      BY <1>2, <3>1, RowIsNone DEF OpenSaid, OpenPlan, RowOk
    <3>3. AtRest(k, pass.sent)'
      <4>1. Rest(cert, k, pass.sent, said[k], owed'[k], asked[k])
        BY <1>2, <1>9, <2>1, <2>2, <3>2 DEF Rest, ToldAre
      <4> QED BY <1>4, <1>5, <4>1 DEF AtRest
    <3> QED BY <1>2, <1>4, <1>5, <3>2, <3>3 DEF SavedSaid, AtRest
  <2>3. CASE pass.kind = "follow"
    <3>1. FollowSaid(k) /\ FollowPlan(k)
      BY <1>1, <1>2, <2>1, <2>3 DEF SaidOk, PlanOk
    <3>2. Rest(cert, k, rows[k], said[k], owed'[k], asked[k])
      BY <1>2, <1>9, <2>1, <2>3, <3>1 DEF Rest, ToldAre, FollowSaid
    <3>3. pass'.save = Keep
      BY <1>2, <1>4, <3>1 DEF FollowPlan
    <3> QED BY <1>4, <1>5, <3>2, <3>3 DEF SavedSaid, AtRest
  <2> QED BY <1>2, <2>2, <2>3
<1>14. AllAtRest'
  <2>1. \A j \in Keys \ {k} : j \notin unsure' => AtRest(j, rows[j])'
    BY <1>1, <1>5, <1>10, OthersRest
  <2> QED BY <1>4, <2>1 DEF AllAtRest, InHand, Writing
<1>15. TodoOk'
  BY <1>1, <1>4 DEF NotifyInv, TodoOk, Writing
<1> QED BY <1>11, <1>12, <1>13, <1>14, <1>15 DEF NotifyInv

LEMMA SaveKeeps ==
    ASSUME NoticeConsts, NotifyInv, Save
    PROVE  NotifyInv'
<1> DEFINE k == pass.key
           at == Stage(k)
           todo == pass.todo
           names == pass.names
<1>1. pass.at = "save" /\ pass.at \in Writing
  BY DEF Save, Running, Writing
<1>2. /\ PlanOk(k) /\ k \in Keys /\ pass \in PassType /\ (k \notin unsure => SavedSaid(k))
      /\ MaybeRow(cert, k, pass.save)
  BY <1>1, HandlingHas DEF PlanOk, SaidOk
<1>3. /\ at \in Ats /\ at \notin Writing /\ todo \in SUBSET Keys /\ names \in SUBSET Domains
      /\ (at = "dns" <=> k[1] = "dns") /\ (at = "limits" <=> k[1] = "limit")
  BY <1>2, KeyParts, PassParts
<1>4. pass' = [NoPass EXCEPT !.at = at, !.todo = todo, !.names = names]
  BY DEF Save
<1>5. pass' \in PassType /\ pass'.at = at /\ pass'.todo = todo
  <2> HIDE DEF at, todo, names
  <2>1. pass' = [at |-> at, todo |-> todo, names |-> names, key |-> NoRow, kind |-> "none",
                 first |-> Keep, to |-> {}, handed |-> {}, sent |-> Keep, held |-> Keep, save |-> Keep]
    BY <1>4 DEF NoPass
  <2> QED BY <1>3, <2>1 DEF PassType, Planned, MessageKinds
<1>6. UNCHANGED <<enabled, doms, hears, wrong, cert, hour>>
  BY DEF Save, world
<1>7. asked' = IF pass.save = NoRow THEN [asked EXCEPT ![k] = {}] ELSE asked
  BY DEF Save
<1>8. Write(k, pass.save) \/ LoseWrite(k)
  BY DEF Save
<1>9. NotifyTyped
  BY DEF NotifyInv
<1>10. asked' \in [Keys -> SUBSET Users] /\ \A j \in Keys \ {k} : asked'[j] = asked[j]
  BY <1>2, <1>7, <1>9 DEF NotifyTyped, PastTyped
<1>11. /\ RowsTyped' /\ OwedTyped' /\ PastTyped'
       /\ \A j \in Keys \ {k} : /\ rows'[j] = rows[j] /\ owed'[j] = owed[j] /\ said'[j] = said[j]
                                /\ j \notin unsure' => j \notin unsure
  <2>1. CASE Write(k, pass.save)
    <3>1. /\ RowsTyped' /\ OwedTyped' /\ said' \in [Keys -> SUBSET Users] /\ unsure' \subseteq unsure
          /\ \A j \in Keys \ {k} : /\ rows'[j] = rows[j] /\ owed'[j] = owed[j] /\ said'[j] = said[j]
                                   /\ j \notin unsure' => j \notin unsure
      BY <1>2, <1>6, <1>9, <2>1, WriteDoes
    <3> QED BY <1>9, <1>10, <3>1 DEF NotifyTyped, PastTyped
  <2>2. CASE LoseWrite(k)
    BY <1>2, <1>6, <1>9, <1>10, <2>2 DEF LoseWrite, NotifyTyped, RowsTyped, OwedTyped, PastTyped
  <2> QED BY <1>8, <2>1, <2>2
<1>12. NotifyTyped'
  BY <1>5, <1>6, <1>9, <1>11 DEF NotifyTyped, WorldTyped
<1>13. PlanInStep' /\ SaidInStep'
  BY <1>3, <1>5 DEF PlanInStep, SaidInStep
<1>14. k \notin unsure' => Rest(cert', k, rows'[k], said'[k], owed'[k], asked'[k])
  <2> SUFFICES ASSUME k \notin unsure' PROVE Rest(cert', k, rows'[k], said'[k], owed'[k], asked'[k])
    OBVIOUS
  <2>1. Write(k, pass.save)
    BY <1>8 DEF LoseWrite
  <2>2. /\ pass.save = Keep => UNCHANGED <<rows, owed, said, unsure>>
        /\ pass.save = NoRow => rows'[k] = NoRow /\ owed'[k] = NoOne /\ said'[k] = {} /\ k \notin unsure'
        /\ pass.save \notin {Keep, NoRow} => rows'[k] = pass.save /\ UNCHANGED <<owed, said, unsure>>
    BY <1>2, <1>6, <1>9, <2>1, WriteDoes
  <2>3. CASE pass.save = Keep
    <3>1. AtRest(k, rows[k]) /\ asked' = asked /\ UNCHANGED <<rows, owed, said>>
      BY <1>2, <1>7, <2>2, <2>3, RowIsNone DEF SavedSaid
    <3> QED BY <1>6, <3>1 DEF AtRest
  <2>4. CASE pass.save = NoRow
    BY <2>2, <2>4 DEF Rest, ToldAre, Follows, IsSaid
  <2>5. CASE pass.save \notin {Keep, NoRow}
    <3>1. AtRest(k, pass.save) /\ asked' = asked /\ rows'[k] = pass.save /\ UNCHANGED <<owed, said>>
      BY <1>2, <1>7, <2>2, <2>5 DEF SavedSaid
    <3> QED BY <1>6, <3>1 DEF AtRest
  <2> QED BY <2>3, <2>4, <2>5
<1>15. AllAtRest'
  <2>1. \A j \in Keys \ {k} : j \notin unsure' => AtRest(j, rows[j])'
    BY <1>1, <1>6, <1>10, <1>11, OthersRest
  <2> SUFFICES ASSUME NEW j \in Keys, j \notin unsure' PROVE AtRest(j, rows[j])'
    BY DEF AllAtRest
  <2>2. CASE j = k
    BY <1>14, <2>2 DEF AtRest
  <2>3. CASE j # k
    BY <2>1, <2>3
  <2> QED BY <2>2, <2>3
<1>16. TodoOk'
  BY <1>1, <1>3, <1>5 DEF NotifyInv, TodoOk
<1> QED BY <1>12, <1>13, <1>15, <1>16 DEF NotifyInv

-----------------------------------------------------------------------------
(* Time, the world, a kill and the start.                                  *)

LEMMA IdleIs == NoPass \in PassType /\ NoPass.at = "idle" /\ NoPass.at \notin Writing
<1> DEFINE at == "idle"
           none == {}
<1>1. at \in Ats /\ at \notin Writing /\ none \in SUBSET Keys /\ none \in SUBSET Domains
  BY DEF Ats, Writing
<1>2. NoPass = [at |-> at, todo |-> none, names |-> none, key |-> NoRow, kind |-> "none",
                first |-> Keep, to |-> none, handed |-> none, sent |-> Keep, held |-> Keep, save |-> Keep]
  BY DEF NoPass
<1>3. none \in SUBSET Users
  OBVIOUS
<1> HIDE DEF at, none
<1>4. NoPass \in PassType /\ NoPass.at = at
  BY <1>1, <1>2, <1>3 DEF PassType, Planned, MessageKinds
<1> QED BY <1>1, <1>4 DEF at

LEMMA CheckKeeps ==
    ASSUME NoticeConsts, NotifyInv, Check
    PROVE  NotifyInv'
<1> DEFINE todo == {Key("dns", d) : d \in IF "dns" \in Watched THEN doms ELSE {}}
           at == "dns"
           names == doms
<1>1. pass.at = "idle" /\ Looking /\ StillThere /\ asked' = asked
  BY DEF Check, Starts, Running, Looking, Writing, StillThere, past
<1>2. doms \in SUBSET Domains
  BY DEF NotifyInv, NotifyTyped, WorldTyped
<1>3. todo \in SUBSET Keys /\ \A k \in todo : k[1] = "dns"
  BY <1>2 DEF Key, Keys
<1>4. CASE enabled
  <2>1. pass' = [NoPass EXCEPT !.at = "dns", !.names = doms, !.todo = todo]
    BY <1>4 DEF Check
  <2>2. at \in Ats /\ names \in SUBSET Domains
    BY <1>2 DEF Ats
  <2>3. pass' \in PassType /\ pass'.at = at /\ pass'.todo = todo
    <3> HIDE DEF todo, at, names
    <3>1. pass' = [at |-> at, todo |-> todo, names |-> names, key |-> NoRow, kind |-> "none",
                   first |-> Keep, to |-> {}, handed |-> {}, sent |-> Keep, held |-> Keep, save |-> Keep]
      BY <2>1 DEF at, names, NoPass
    <3> QED BY <1>3, <2>2, <3>1 DEF PassType, Planned, MessageKinds
  <2>4. TodoOk' /\ pass'.at \notin Writing
    BY <1>3, <2>3 DEF TodoOk, Writing
  <2> QED BY <1>1, <2>3, <2>4, NothingKeeps
<1>5. CASE ~ enabled
  <2>1. pass' = pass
    BY <1>5 DEF Check
  <2>2. pass' \in PassType /\ pass'.at \notin Writing /\ TodoOk'
    BY <1>1, <2>1 DEF NotifyInv, NotifyTyped, Looking, TodoOk
  <2> QED BY <1>1, <2>2, NothingKeeps
<1> QED BY <1>4, <1>5

LEMMA CheckLimitsKeeps ==
    ASSUME NoticeConsts, NotifyInv, CheckLimits
    PROVE  NotifyInv'
<1> DEFINE todo == {k \in wrong : k[1] = "limit"}
           at == "limits"
           names == {}
<1>1. pass.at = "idle" /\ Looking /\ StillThere /\ asked' = asked
  BY DEF CheckLimits, Starts, Running, Looking, Writing, StillThere, past
<1>2. todo \in SUBSET Keys /\ \A k \in todo : k[1] = "limit"
  BY DEF NotifyInv, NotifyTyped, WorldTyped
<1>3. CASE enabled
  <2>1. pass' = [NoPass EXCEPT !.at = "limits", !.todo = todo]
    BY <1>3 DEF CheckLimits
  <2>2. at \in Ats /\ names \in SUBSET Domains
    BY DEF Ats
  <2>3. pass' \in PassType /\ pass'.at = at /\ pass'.todo = todo
    <3> HIDE DEF todo, at, names
    <3>1. pass' = [at |-> at, todo |-> todo, names |-> names, key |-> NoRow, kind |-> "none",
                   first |-> Keep, to |-> {}, handed |-> {}, sent |-> Keep, held |-> Keep, save |-> Keep]
      BY <2>1 DEF at, names, NoPass
    <3> QED BY <1>2, <2>2, <3>1 DEF PassType, Planned, MessageKinds
  <2>4. TodoOk' /\ pass'.at \notin Writing
    BY <1>2, <2>3 DEF TodoOk, Writing
  <2> QED BY <1>1, <2>3, <2>4, NothingKeeps
<1>4. CASE ~ enabled
  <2>1. pass' = pass
    BY <1>4 DEF CheckLimits
  <2>2. pass' \in PassType /\ pass'.at \notin Writing /\ TodoOk'
    BY <1>1, <2>1 DEF NotifyInv, NotifyTyped, Looking, TodoOk
  <2> QED BY <1>1, <2>2, NothingKeeps
<1> QED BY <1>3, <1>4

LEMMA DoneKeeps ==
    ASSUME NoticeConsts, NotifyInv, Done
    PROVE  NotifyInv'
<1>1. pass.at = "done" /\ Looking /\ StillThere /\ asked' = asked /\ pass' = NoPass
  BY DEF Done, Running, Looking, Writing, StillThere, past
<1>2. pass' \in PassType /\ pass'.at \notin Writing /\ TodoOk'
  BY <1>1, IdleIs DEF TodoOk
<1> QED BY <1>1, <1>2, NothingKeeps

\* A row an hour older.
Aged(k, r) ==
    [r EXCEPT !.since = IF k[1] = "dns" THEN AtMost(@ + 1, DNSApart) ELSE 0,
              !.mark = IF k[1] = "dns" THEN AtMost(@ + 1, DNSApart) ELSE @,
              !.sent = IF k[1] = "limit" THEN AtMost(@ + 1, Days) ELSE 0]

LEMMA AgedIs ==
    ASSUME NoticeConsts, NEW k \in Keys, NEW r \in RowType, RowOk(cert, k, r)
    PROVE  /\ RowOk(cert, k, Aged(k, r)) /\ (IsSaid(Aged(k, r)) <=> IsSaid(r))
           /\ Follows(cert, k, Aged(k, r)) => Follows(cert, k, r)
<1> DEFINE s == IF k[1] = "dns" THEN AtMost(r.since + 1, DNSApart) ELSE 0
           m == IF k[1] = "dns" THEN AtMost(r.mark + 1, DNSApart) ELSE r.mark
           n == IF k[1] = "limit" THEN AtMost(r.sent + 1, Days) ELSE 0
           aged == [r EXCEPT !.since = s, !.mark = m, !.sent = n]
<1>1. /\ DNSApart \in Nat /\ LimitRepeat \in Nat /\ Days \in Nat /\ Days > LimitRepeat
      /\ r.since + 1 \in Nat /\ r.mark + 1 \in Nat /\ r.sent + 1 \in Nat /\ r.sent \in Nat /\ r.mark \in Nat
  BY RowParts DEF NoticeConsts, NotifierConstants, Days
<1>2. s \in Nat /\ m \in Nat /\ n \in Nat
  BY <1>1, LeastOfTwo
<1>3. Aged(k, r) = aged
  BY DEF Aged
<1>4. aged \in RowType /\ aged.phase = r.phase /\ aged.mark = m /\ aged.sent = n
  <2> HIDE DEF s, m, n
  <2> QED BY <1>2 DEF RowType, DNSChecks
<1>5. k[1] = "limit" => (n < LimitRepeat => r.sent < LimitRepeat)
  <2> SUFFICES ASSUME k[1] = "limit", n < LimitRepeat PROVE r.sent < LimitRepeat
    OBVIOUS
  <2>1. n \in {r.sent + 1, Days}
    BY <1>1, LeastOfTwo
  <2> QED BY <1>1, <2>1
<1>6. k[1] = "cert" => m = r.mark
  OBVIOUS
<1> HIDE DEF m, n, aged
<1>7. r # NoRow /\ aged # NoRow
  BY <1>4, RowIsNone
<1> QED BY <1>3, <1>4, <1>5, <1>6, <1>7 DEF RowOk, CertRow, IsSaid, Follows

LEMMA TickKeeps ==
    ASSUME NoticeConsts, NotifyInv, Tick
    PROVE  NotifyInv'
<1>1. pass.at = "idle" /\ pass' = pass /\ pass.at \notin Writing
  BY DEF Tick, Running, Writing
<1>2. UNCHANGED <<enabled, doms, hears, wrong, cert, owed, said, asked, unsure>> /\ hour' = 0
  BY DEF Tick, world
<1>3. rows' = [k \in Keys |-> IF rows[k] = NoRow THEN NoRow ELSE Aged(k, rows[k])]
  BY DEF Tick, Aged
<1>4. NotifyTyped /\ (\A k \in Keys : rows[k] = NoRow \/ RowOk(cert, k, rows[k]))
  BY DEF NotifyInv, NotifyTyped, RowsTyped
<1>5. ASSUME NEW k \in Keys
      PROVE  /\ rows'[k] = NoRow \/ RowOk(cert, k, rows'[k])
             /\ AtRest(k, rows[k]) => AtRest(k, rows'[k])
  <2>1. CASE rows[k] = NoRow
    BY <1>3, <2>1
  <2>2. CASE rows[k] # NoRow
    <3>1. RowOk(cert, k, rows[k]) /\ rows[k] \in RowType /\ rows'[k] = Aged(k, rows[k])
      BY <1>3, <1>4, <2>2 DEF RowOk
    <3>2. /\ RowOk(cert, k, rows'[k]) /\ (IsSaid(rows'[k]) <=> IsSaid(rows[k]))
          /\ Follows(cert, k, rows'[k]) => Follows(cert, k, rows[k])
      BY <3>1, AgedIs
    <3> QED BY <3>2 DEF AtRest, Rest, ToldAre
  <2> QED BY <2>1, <2>2
<1>6. RowsTyped'
  <2>1. rows' = [k \in Keys |-> rows'[k]]
    BY <1>3
  <2> QED BY <1>2, <1>5, <2>1 DEF RowsTyped
<1>7. NotifyTyped'
  <2>1. hour' \in 0..HourlyCeiling
    BY <1>2 DEF NoticeConsts, NotifierConstants
  <2> QED BY <1>1, <1>2, <1>4, <1>6, <2>1 DEF NotifyTyped, WorldTyped, OwedTyped, PastTyped
<1>8. PlanInStep' /\ SaidInStep' /\ TodoOk'
  BY <1>1 DEF PlanInStep, SaidInStep, TodoOk, NotifyInv
<1>9. AllAtRest'
  <2> SUFFICES ASSUME NEW k \in Keys, k \notin unsure' PROVE AtRest(k, rows[k])'
    BY DEF AllAtRest
  <2>1. AtRest(k, rows[k])
    BY <1>1, <1>2 DEF NotifyInv, AllAtRest, InHand
  <2>2. AtRest(k, rows'[k])
    BY <1>5, <2>1
  <2> QED BY <1>2, <2>2 DEF AtRest
<1> QED BY <1>7, <1>8, <1>9 DEF NotifyInv

\* A certificate nears its end, waits or is replaced; or stays.
CertMoved ==
    \/ cert' = cert
    \/ cert' = [cert EXCEPT !.level = IF @ = "" THEN "first" ELSE "last"]
    \/ cert' = [cert EXCEPT !.waiting = ~@]
    \/ cert' = [serial |-> cert.serial + 1, level |-> "", waiting |-> FALSE]

LEMMA CertMovedIs ==
    ASSUME cert \in CertType, CertMoved
    PROVE  /\ cert' \in CertType /\ cert.serial \in Nat /\ cert'.serial \in Nat /\ cert.level \in {"", "first", "last"}
           /\ \/ cert'.serial = cert.serial /\ cert'.level = cert.level
              \/ /\ cert'.serial = cert.serial
                 /\ cert'.level = IF cert.level = "" THEN "first" ELSE "last"
              \/ cert'.serial = cert.serial + 1 /\ cert'.level = ""
<1>1. cert.serial \in Nat /\ cert.level \in {"", "first", "last"} /\ cert.waiting \in BOOLEAN
  BY DEF CertType
<1>2. CASE cert' = cert
  BY <1>1, <1>2
<1>3. CASE cert' = [cert EXCEPT !.level = IF @ = "" THEN "first" ELSE "last"]
  <2> DEFINE level == IF cert.level = "" THEN "first" ELSE "last"
  <2>1. level \in {"", "first", "last"} /\ cert' = [cert EXCEPT !.level = level]
    BY <1>3
  <2> HIDE DEF level
  <2>2. cert' \in CertType /\ cert'.serial = cert.serial /\ cert'.level = level
    BY <2>1 DEF CertType
  <2> QED BY <1>1, <2>2 DEF level
<1>4. CASE cert' = [cert EXCEPT !.waiting = ~@]
  <2> DEFINE waiting == ~ cert.waiting
  <2>1. waiting \in BOOLEAN /\ cert' = [cert EXCEPT !.waiting = waiting]
    BY <1>4
  <2> HIDE DEF waiting
  <2>2. cert' \in CertType /\ cert'.serial = cert.serial /\ cert'.level = cert.level
    BY <2>1 DEF CertType
  <2> QED BY <1>1, <2>2
<1>5. CASE cert' = [serial |-> cert.serial + 1, level |-> "", waiting |-> FALSE]
  <2> DEFINE n == cert.serial + 1
             fresh == ""
             no == FALSE
  <2>0. no \in BOOLEAN
    OBVIOUS
  <2>a. n \in Nat
    <3>1. cert.serial \in Nat
      BY <1>1
    <3> QED BY <3>1
  <2>b. fresh \in {"", "first", "last"}
    OBVIOUS
  <2>1. n \in Nat /\ fresh \in {"", "first", "last"} /\ no \in BOOLEAN
    <3> HIDE DEF n, fresh, no
    <3> QED BY <2>0, <2>a, <2>b
  <2>2. cert' = [serial |-> n, level |-> fresh, waiting |-> no]
    BY <1>5
  <2> HIDE DEF n, fresh, no
  <2>3. cert' \in CertType /\ cert'.serial = n /\ cert'.level = fresh
    BY <2>1, <2>2 DEF CertType
  <2> QED BY <1>1, <2>1, <2>3 DEF n, fresh
<1> QED BY <1>2, <1>3, <1>4, <1>5 DEF CertMoved

\* No move of the certificate makes a row wrong, or lets it be followed where
\* it was not.
LEMMA RowsOutlive ==
    ASSUME cert \in CertType, CertMoved, NEW k, NEW r
    PROVE  /\ RowOk(cert, k, r) => RowOk(cert', k, r)
           /\ RowOk(cert, k, r) /\ Follows(cert', k, r) => Follows(cert, k, r)
<1> SUFFICES ASSUME RowOk(cert, k, r)
             PROVE  RowOk(cert', k, r) /\ (Follows(cert', k, r) => Follows(cert, k, r))
  OBVIOUS
<1>1. r \in RowType /\ r.mark \in Nat /\ (k[1] = "cert" => CertRow(cert, r))
  BY RowParts DEF RowOk
<1>a. /\ cert.serial \in Nat /\ cert'.serial \in Nat /\ cert.level \in {"", "first", "last"}
      /\ \/ cert'.serial = cert.serial /\ cert'.level = cert.level
         \/ /\ cert'.serial = cert.serial
            /\ cert'.level = IF cert.level = "" THEN "first" ELSE "last"
         \/ cert'.serial = cert.serial + 1 /\ cert'.level = ""
  BY CertMovedIs
<1>b. k[1] = "cert" => /\ r.mark <= cert.serial
                       /\ r.mark = cert.serial => cert.level # "" /\ (r.phase = "last" => cert.level = "last")
  BY <1>1 DEF CertRow
<1>2. k[1] = "cert" => CertRow(cert', r) /\ (r.mark = cert'.serial /\ r.phase \in {cert'.level, "last"} =>
                                               r.mark = cert.serial /\ r.phase \in {cert.level, "last"})
  <2>1. CASE cert'.serial = cert.serial /\ cert'.level = cert.level
    BY <1>b, <2>1 DEF CertRow
  <2>2. CASE cert'.serial = cert.serial /\ cert'.level = IF cert.level = "" THEN "first" ELSE "last"
    BY <1>a, <1>b, <2>2 DEF CertRow
  <2>3. CASE cert'.serial = cert.serial + 1
    <3>1. \A a, b \in Nat : a <= b => a # b + 1 /\ a <= b + 1
      OBVIOUS
    <3>2. k[1] = "cert" => r.mark # cert.serial + 1 /\ r.mark <= cert.serial + 1
      <4>1. r.mark \in Nat /\ cert.serial \in Nat
        BY <1>1, <1>a
      <4>2. k[1] = "cert" => r.mark <= cert.serial
        BY <1>b
      <4> QED BY <3>1, <4>1, <4>2
    <3>3. k[1] = "cert" => r.mark # cert'.serial /\ r.mark <= cert'.serial
      BY <2>3, <3>2
    <3> QED BY <3>3 DEF CertRow
  <2> QED BY <1>a, <2>1, <2>2, <2>3
<1>3. Follows(cert', k, r) => Follows(cert, k, r)
  BY <1>2 DEF Follows
<1> QED BY <1>2, <1>3 DEF RowOk

LEMMA WorldMoves ==
    ASSUME NotifyInv, World
    PROVE  /\ CertMoved /\ enabled' \in BOOLEAN /\ doms' \subseteq Domains /\ wrong' \subseteq Keys
           /\ hears' \in [Users -> SUBSET (Domains \cup {Server})]
           /\ UNCHANGED <<tables, hour, pass, past>>
<1>1. WorldTyped
  BY DEF NotifyInv, NotifyTyped
<1>2. CASE SetNotificationsEnabled
  BY <1>1, <1>2 DEF WorldTyped, SetNotificationsEnabled, Change, CertMoved
<1>3. CASE CertificateChanges
  <2>1. /\ CertMoved /\ UNCHANGED <<enabled, doms, hears, tables, hour, pass, past>>
    BY <1>3 DEF CertificateChanges, Change, CertMoved
  <2>2. wrong' = wrong \cup {Key("cert", Server)} \/ wrong' = wrong \ {Key("cert", Server)}
    BY <1>3 DEF CertificateChanges
  <2>3. Key("cert", Server) \in Keys
    BY DEF Keys, Key
  <2> QED BY <1>1, <2>1, <2>2, <2>3 DEF WorldTyped
<1>4. ASSUME NEW u \in Users, ChangeUser(u)
      PROVE  /\ CertMoved /\ enabled' = enabled /\ doms' = doms /\ wrong' = wrong
             /\ hears' \in [Users -> SUBSET (Domains \cup {Server})]
             /\ UNCHANGED <<tables, hour, pass, past>>
  BY <1>1, <1>4 DEF WorldTyped, ChangeUser, Change, CertMoved
<1>5. ASSUME NEW d \in Domains, AddOrDeleteDomain(d)
      PROVE  /\ CertMoved /\ enabled' = enabled /\ doms' \subseteq Domains /\ wrong' \subseteq wrong
             /\ hears' = hears /\ UNCHANGED <<tables, hour, pass, past>>
  BY <1>1, <1>5 DEF WorldTyped, AddOrDeleteDomain, Change, CertMoved
<1>6. ASSUME NEW k \in Keys, Turns(k)
      PROVE  /\ CertMoved /\ enabled' = enabled /\ doms' = doms /\ wrong' \subseteq wrong \cup {k}
             /\ hears' = hears /\ UNCHANGED <<tables, hour, pass, past>>
  BY <1>1, <1>6 DEF WorldTyped, Turns, Change, CertMoved
<1> QED BY <1>1, <1>2, <1>3, <1>4, <1>5, <1>6 DEF World, WorldTyped

LEMMA WorldKeeps ==
    ASSUME NoticeConsts, NotifyInv, World
    PROVE  NotifyInv'
<1>1. NotifyTyped /\ cert \in CertType /\ CertMoved
  BY WorldMoves DEF NotifyInv, NotifyTyped, WorldTyped
<1>2. UNCHANGED <<rows, owed, hour, pass, said, asked, unsure>>
  BY WorldMoves DEF tables, past
<1>3. \A k, r : /\ RowOk(cert, k, r) => RowOk(cert', k, r)
                /\ RowOk(cert, k, r) /\ Follows(cert', k, r) => Follows(cert, k, r)
  BY <1>1, RowsOutlive
<1>4. cert' \in CertType
  BY <1>1, CertMovedIs
<1>5. NotifyTyped'
  BY <1>1, <1>2, <1>3, <1>4, WorldMoves DEF NotifyTyped, WorldTyped, RowsTyped, OwedTyped, PastTyped
<1>6. \A k, r : MaybeRow(cert, k, r) => MaybeRow(cert', k, r)
  BY <1>3 DEF MaybeRow
<1>7. \A k, r, s, o, a : (r = NoRow \/ RowOk(cert, k, r)) /\ Rest(cert, k, r, s, o, a) => Rest(cert', k, r, s, o, a)
  BY <1>3 DEF Rest, Follows, IsSaid
<1>8. \A k \in Keys : rows[k] = NoRow \/ RowOk(cert, k, rows[k])
  BY <1>1 DEF NotifyTyped, RowsTyped
<1>9. PlanInStep'
  <2> SUFFICES ASSUME pass.at \in Writing PROVE PlanOk(pass.key)'
    BY <1>2 DEF PlanInStep
  <2>1. PlanOk(pass.key)
    BY DEF NotifyInv, PlanInStep
  <2>2. pass.kind = "open" => OpenPlan(pass.key)'
    BY <1>2, <1>3, <2>1 DEF PlanOk, OpenPlan
  <2>3. pass.kind = "follow" => FollowPlan(pass.key)'
    BY <1>2, <1>3, <2>1 DEF PlanOk, FollowPlan
  <2> QED BY <1>2, <1>6, <2>1, <2>2, <2>3 DEF PlanOk
<1>10. SaidInStep'
  <2> SUFFICES ASSUME pass.at \in Writing, pass.key \notin unsure PROVE SaidOk(pass.key)'
    BY <1>2 DEF SaidInStep
  <2>1. SaidOk(pass.key) /\ PlanOk(pass.key) /\ pass.key \in Keys
    BY HandlingHas
  <2>2. \A r : MaybeRow(cert, pass.key, r) /\ r # Keep /\ AtRest(pass.key, r) =>
               Rest(cert', pass.key, r, said[pass.key], owed[pass.key], asked[pass.key])
    BY <1>7 DEF MaybeRow, AtRest
  <2>3. AtRest(pass.key, rows[pass.key]) =>
          Rest(cert', pass.key, rows[pass.key], said[pass.key], owed[pass.key], asked[pass.key])
    BY <1>7, <1>8, <2>1 DEF AtRest
  <2>4. pass.at # "save" /\ pass.kind = "open" => OpenSaid(pass.key)'
    BY <1>2, <1>3, <1>8, <2>1 DEF SaidOk, OpenSaid, Follows, IsSaid
  <2>5. pass.at # "save" /\ pass.kind = "follow" => FollowSaid(pass.key)'
    BY <1>2, <2>1 DEF SaidOk, FollowSaid
  <2>6. pass.at # "save" /\ pass.kind \in {"closed", "none"} => RestSaid(pass.key)'
    BY <1>2, <2>1, <2>2, <2>3 DEF SaidOk, PlanOk, RestSaid, AtRest
  <2>7. pass.at = "save" => SavedSaid(pass.key)'
    BY <1>2, <2>1, <2>2, <2>3 DEF SaidOk, PlanOk, SavedSaid, AtRest
  <2>8. pass.at # "save" /\ pass.kind = "closed" => (pass.to \cup pass.handed \subseteq said[pass.key])'
    BY <1>2, <2>1 DEF SaidOk
  <2> QED BY <1>2, <2>4, <2>5, <2>6, <2>7, <2>8 DEF SaidOk
<1>11. AllAtRest'
  <2> SUFFICES ASSUME NEW k \in Keys, k \notin unsure, ~ InHand(k) PROVE AtRest(k, rows[k])'
    BY <1>2 DEF AllAtRest, InHand
  <2>1. AtRest(k, rows[k])
    BY DEF NotifyInv, AllAtRest
  <2> QED BY <1>2, <1>7, <1>8, <2>1 DEF AtRest
<1>12. TodoOk'
  BY <1>2 DEF NotifyInv, TodoOk
<1> QED BY <1>5, <1>9, <1>10, <1>11, <1>12 DEF NotifyInv

LEMMA CrashKeeps ==
    ASSUME NoticeConsts, NotifyInv, Crash
    PROVE  NotifyInv'
<1>1. UNCHANGED <<enabled, doms, hears, wrong, cert, rows, owed, said, asked>> /\ hour' = 0 /\ pass' = NoPass
  BY DEF Crash, world, tables
<1>2. /\ unsure' \subseteq Keys /\ unsure \subseteq unsure'
      /\ \A k \in Keys : k \notin unsure' => ~ InHand(k)
  BY HandlingHas DEF Crash, InHand, NotifyInv, NotifyTyped, PastTyped
<1>3. NotifyTyped'
  <2>1. hour' \in 0..HourlyCeiling
    BY <1>1 DEF NoticeConsts, NotifierConstants
  <2> QED BY <1>1, <1>2, <2>1, IdleIs DEF NotifyInv, NotifyTyped, WorldTyped, RowsTyped, OwedTyped, PastTyped
<1>4. PlanInStep' /\ SaidInStep' /\ TodoOk'
  BY <1>1, IdleIs DEF PlanInStep, SaidInStep, TodoOk
<1>5. AllAtRest'
  BY <1>1, <1>2 DEF NotifyInv, AllAtRest, AtRest
<1> QED BY <1>3, <1>4, <1>5 DEF NotifyInv

LEMMA NotifyInit ==
    ASSUME NoticeConsts, NoticeInit
    PROVE  NotifyInv
<1>1. WorldTyped
  BY DEF NoticeInit, NoticeConsts, NotifierConstants, WorldTyped, CertType
<1>2. RowsTyped
  BY DEF NoticeInit, RowsTyped
<1>3. \A k \in Keys : rows[k] = NoRow /\ said[k] = {} /\ owed[k] = NoOne
  BY DEF NoticeInit
<1>4. OwedTyped
  <2>1. NoOne \in OwedType /\ NoOne.told = {} /\ NoOne.due = {}
    BY DEF NoOne, OwedType
  <2>2. owed = [k \in Keys |-> NoOne]
    BY DEF NoticeInit
  <2> QED BY <2>1, <2>2 DEF OwedTyped
<1>5. PastTyped
  BY DEF NoticeInit, PastTyped
<1>6. hour \in 0..HourlyCeiling /\ pass = NoPass
  <2>1. HourlyCeiling \in Nat
    BY DEF NoticeConsts, NotifierConstants
  <2>2. hour = 0 /\ pass = NoPass
    BY DEF NoticeInit
  <2> QED BY <2>1, <2>2
<1>7. NotifyTyped
  BY <1>1, <1>2, <1>4, <1>5, <1>6, IdleIs DEF NotifyTyped
<1>8. AllAtRest
  BY <1>3 DEF AllAtRest, AtRest, Rest, ToldAre, Follows, IsSaid
<1>9. PlanInStep /\ SaidInStep /\ TodoOk
  BY <1>6, IdleIs DEF PlanInStep, SaidInStep, TodoOk
<1> QED BY <1>7, <1>8, <1>9 DEF NotifyInv

LEMMA NotifyStutters ==
    ASSUME NotifyInv, UNCHANGED noticeVars
    PROVE  NotifyInv'
BY DEF noticeVars, world, tables, past, NotifyInv, NotifyTyped, WorldTyped, RowsTyped, OwedTyped, PastTyped,
       PlanInStep, PlanOk, OpenPlan, FollowPlan, SaidInStep, SaidOk, OpenSaid, FollowSaid, RestSaid, SavedSaid,
       AllAtRest, AtRest, InHand, TodoOk

LEMMA NotifyStep ==
    ASSUME NoticeConsts, NotifyInv, NoticeNext
    PROVE  NotifyInv'
<1>1. CASE Check \/ CheckLimits
  BY <1>1, CheckKeeps, CheckLimitsKeeps
<1>2. CASE Pass
  BY <1>2, CheckDomainKeeps, ForgetDomainsKeeps, CheckCertificateKeeps, CheckQueueKeeps, CheckLimitKeeps,
     ForgetLimitsKeeps, DoneKeeps, SaveFirstKeeps, DeliverKeeps, DeliveredKeeps, RecordKeeps, SaveKeeps DEF Pass
<1>3. CASE Tick \/ World \/ Crash
  BY <1>3, TickKeeps, WorldKeeps, CrashKeeps
<1> QED BY <1>1, <1>2, <1>3 DEF NoticeNext

\* While it has nothing in hand a subject's row, the messages handed over and
\* the addressees recorded agree; while it has, its plan says by how much they
\* are apart (dnsStep, open, followUp, closed).
THEOREM NotifierInvariant == NoticeSpec => []NotifyInv
<1>c. NoticeConsts
  BY NotifierConstants, NotifierValues DEF NoticeConsts
<1>1. NoticeInit => NotifyInv
  BY <1>c, NotifyInit
<1>2. NotifyInv /\ [NoticeNext]_noticeVars => NotifyInv'
  BY <1>c, NotifyStep, NotifyStutters
<1> QED BY <1>1, <1>2, PTL DEF NoticeSpec

LEMMA NotifyInvTypes ==
    ASSUME NoticeConsts, NotifyInv
    PROVE  NoticeTypeOK
<1>1. NotifyTyped
  BY DEF NotifyInv
<1>2. doms \subseteq Domains /\ wrong \subseteq Keys /\ unsure \subseteq Keys /\ hour \in 0 .. HourlyCeiling
  BY <1>1 DEF NotifyTyped, WorldTyped, PastTyped
<1>3. ASSUME NEW k \in Keys
      PROVE  /\ owed[k].told \cap owed[k].due = {} /\ owed[k].told \cup owed[k].due \subseteq Users
             /\ rows[k] # NoRow => /\ rows[k].phase \in {"pending", "open", "first", "last"}
                                   /\ rows[k].count \in 0 .. DNSChecks
             /\ rows[k] = NoRow /\ k \notin unsure /\ pass.key # k => owed[k] = NoOne
  <2>1. owed[k].told \cap owed[k].due = {} /\ owed[k].told \cup owed[k].due \subseteq Users
    BY <1>1 DEF NotifyTyped, OwedTyped, OwedType
  <2>2. rows[k] # NoRow => rows[k] \in RowType
    BY <1>1 DEF NotifyTyped, RowsTyped, RowOk
  <2>3. rows[k] # NoRow => rows[k].phase \in {"pending", "open", "first", "last"} /\ rows[k].count \in 0..2
    BY <2>2, RowParts
  <2>4. rows[k] = NoRow /\ k \notin unsure /\ pass.key # k => owed[k] = NoOne
    BY DEF NotifyInv, AllAtRest, InHand, AtRest, Rest, ToldAre, IsSaid
  <2> QED BY <2>1, <2>3, <2>4 DEF DNSChecks
<1> QED BY <1>2, <1>3 DEF NoticeTypeOK

\* The types of the notifier's state, and that of a subject forgotten no
\* addressee is left behind.
THEOREM NotifierTypes == NoticeSpec => []NoticeTypeOK
<1>c. NoticeConsts
  BY NotifierConstants, NotifierValues DEF NoticeConsts
<1>1. NotifyInv => NoticeTypeOK
  BY <1>c, NotifyInvTypes
<1> QED BY <1>1, NotifierInvariant, PTL

-----------------------------------------------------------------------------
(* Who is handed what.                                                     *)

LEMMA OnlyDeliverHands ==
    ASSUME NotifyInv, [NoticeNext]_noticeVars, NEW u, Handed(u)
    PROVE  Deliver
<1>1. pass.at = "send" /\ u \in pass'.handed \ pass.handed /\ pass \in PassType
  BY DEF Handed, NotifyInv, NotifyTyped
<1>2. pass' # pass /\ pass' # NoPass
  BY <1>1 DEF NoPass
<1>3. ~ Check /\ ~ CheckLimits /\ ~ Done /\ ~ Tick
  BY <1>1 DEF Check, CheckLimits, Starts, Done, Tick, Running
<1>4. ~ CheckDomain /\ ~ ForgetDomains /\ ~ CheckCertificate /\ ~ CheckQueue /\ ~ CheckLimit /\ ~ ForgetLimits
  BY <1>1 DEF CheckDomain, ForgetDomains, CheckCertificate, CheckQueue, CheckLimit, ForgetLimits, Running
<1>5. ~ SaveFirst /\ ~ Record /\ ~ Save
  BY <1>1 DEF SaveFirst, Record, Save, Running
<1>6. ~ World
  BY <1>2, WorldMoves
<1>7. ~ Crash /\ ~ UNCHANGED noticeVars
  BY <1>2 DEF Crash, noticeVars
<1>8. ~ Delivered
  <2> DEFINE at == IF pass.handed # {} /\ pass.kind \in {"open", "follow"} THEN "record" ELSE "save"
             save == IF pass.handed # {} THEN pass.sent ELSE pass.held
  <2> SUFFICES ASSUME Delivered PROVE FALSE
    OBVIOUS
  <2>1. pass' = [pass EXCEPT !.at = at, !.save = save]
    BY DEF Delivered
  <2> HIDE DEF at, save
  <2>2. pass'.handed = pass.handed
    BY <1>1, <2>1 DEF PassType
  <2> QED BY <1>1, <2>2
<1> QED BY <1>3, <1>4, <1>5, <1>6, <1>7, <1>8 DEF NoticeNext, Pass

LEMMA HandedOnce ==
    ASSUME NoticeConsts, NotifyInv, [NoticeNext]_noticeVars, NEW u \in Users, Handed(u)
    PROVE  \/ pass.key \in unsure
           \/ pass.kind = "open"   /\ (Anew(pass.key) \/ u \notin said[pass.key])
           \/ pass.kind = "follow" /\ u \in asked[pass.key] \ said[pass.key]
           \/ pass.kind = "closed" /\ u \in said[pass.key]
<1>1. Deliver
  BY OnlyDeliverHands
<1>2. pass.at = "send" /\ pass.at \in Writing /\ u \in pass'.handed /\ u \notin pass.handed
  BY DEF Handed, Writing
<1>3. /\ PlanOk(pass.key) /\ pass.key \in Keys /\ pass \in PassType
      /\ pass.key \notin unsure => SaidOk(pass.key)
  BY <1>2, HandlingHas
<1>4. u \in pass.to
  <2>1. PICK v \in pass.to : \/ pass' = [pass EXCEPT !.to = @ \ {v}, !.handed = @ \cup {v}]
                             \/ pass' = [pass EXCEPT !.to = @ \ {v}]
    BY <1>1, DeliverDoes
  <2> DEFINE to == pass.to \ {v}
             more == pass.handed \cup {v}
  <2>2. pass' = [pass EXCEPT !.to = to, !.handed = more] \/ pass' = [pass EXCEPT !.to = to]
    BY <2>1
  <2>3. pass'.handed \in {pass.handed, more}
    <3> HIDE DEF to, more
    <3> QED BY <1>3, <2>2 DEF PassType
  <2> QED BY <1>2, <2>1, <2>3
<1> SUFFICES ASSUME pass.key \notin unsure
             PROVE  \/ pass.kind = "open"   /\ (Anew(pass.key) \/ u \notin said[pass.key])
                    \/ pass.kind = "follow" /\ u \in asked[pass.key] \ said[pass.key]
                    \/ pass.kind = "closed" /\ u \in said[pass.key]
  OBVIOUS
<1>5. SaidOk(pass.key)
  BY <1>3
<1>6. pass.kind \in {"open", "follow", "closed"}
  BY <1>3, <1>4, PassParts DEF PlanOk, MessageKinds
<1>7. CASE pass.kind = "open"
  <2>1. OpenSaid(pass.key)
    BY <1>2, <1>5, <1>7 DEF SaidOk
  <2>2. CASE pass.handed # {}
    BY <1>2, <1>7, <2>1, <2>2 DEF OpenSaid
  <2>3. CASE pass.handed = {} /\ ~ IsSaid(rows[pass.key])
    BY <1>7, <2>1, <2>3 DEF OpenSaid, ToldAre
  <2>4. CASE pass.handed = {} /\ IsSaid(rows[pass.key])
    BY <1>7, <2>4 DEF Anew, IsSaid
  <2> QED BY <2>2, <2>3, <2>4
<1>8. CASE pass.kind = "follow"
  <2>1. FollowSaid(pass.key)
    BY <1>2, <1>5, <1>8 DEF SaidOk
  <2>2. owed[pass.key].told \cap owed[pass.key].due = {}
    BY <1>3 DEF NotifyInv, NotifyTyped, OwedTyped
  <2>3. u \in owed[pass.key].due /\ u \in asked[pass.key] /\ u \notin owed[pass.key].told
    BY <1>4, <2>1, <2>2 DEF FollowSaid
  <2> QED BY <1>2, <1>8, <2>1, <2>3 DEF FollowSaid
<1>9. CASE pass.kind = "closed"
  BY <1>2, <1>4, <1>5, <1>9 DEF SaidOk
<1> QED BY <1>6, <1>7, <1>8, <1>9

\* A subject's message is handed to nobody twice and, once it is open, to none
\* who was not to hear of it when it was opened; that it is over goes to those
\* who were told (open, followUp, closed, deliver).
THEOREM MessagesAreToldOnce == NoticeSpec => ToldOnce
<1>c. NoticeConsts
  BY NotifierConstants, NotifierValues DEF NoticeConsts
<1>1. NotifyInv /\ [NoticeNext]_noticeVars =>
        [\A u \in Users : Handed(u) =>
         \/ pass.key \in unsure
         \/ pass.kind = "open"   /\ (Anew(pass.key) \/ u \notin said[pass.key])
         \/ pass.kind = "follow" /\ u \in asked[pass.key] \ said[pass.key]
         \/ pass.kind = "closed" /\ u \in said[pass.key]]_noticeVars
  BY <1>c, HandedOnce
<1> QED BY <1>1, NotifierInvariant, PTL DEF NoticeSpec, ToldOnce

-----------------------------------------------------------------------------
(***************************************************************************)
(* A domain's records are called wrong, or right again, on checks that     *)
(* agreed.                                                                 *)
(***************************************************************************)

\* The checks of a domain that agreed: their verdict, their number, and how
\* long the first of them is ago.
ReadingType == [bad : BOOLEAN, n : 0..2, age : Nat]
ReadingsTyped == readings \in [Domains -> ReadingType]

\* What a row counts, checks have said: a pending row counts those that found
\* the records wrong, an open one those that found them right.
RowAge(r) == IF r.phase = "pending" THEN r.since ELSE r.mark
CountedBy(g, r) == g.bad = (r.phase = "pending") /\ r.count <= g.n /\ RowAge(r) <= g.age
Backed(g, r) ==
    \/ r \in {Keep, NoRow}
    \/ /\ r.phase = "pending" => r.count > 0
       /\ r.count > 0 => CountedBy(g, r)
Agreed(g, bad) == g.bad = bad /\ g.n >= DNSChecks /\ g.age >= DNSApart

\* A plan of a domain saves a row if it is no follow-up, and what it writes
\* first is a row.
DNSPlan ==
    /\ pass.first # NoRow /\ (pass.at = "first" => pass.first # Keep)
    /\ pass.kind # "follow" => pass.held # Keep

\* The rows a plan is to write are backed, and the checks agreed on what is to
\* be sent.  A follow-up's row is once it is written.
DNSHand(g, k) ==
    /\ Backed(g, pass.first) /\ Backed(g, pass.sent) /\ Backed(g, pass.held)
    /\ pass.kind = "open" => Agreed(g, TRUE)
    /\ pass.kind = "closed" => Agreed(g, FALSE)
    /\ pass.kind = "follow" /\ pass.at # "first" => Backed(g, rows[k])
    /\ pass.at = "save" => Backed(g, pass.save) /\ (pass.save = Keep => Backed(g, rows[k]))

DNSInHand ==
    pass.at \in Writing /\ pass.key[1] = "dns" =>
        DNSPlan /\ (pass.key \notin unsure => DNSHand(readings[pass.key[2]], pass.key))
DNSAtRest ==
    \A k \in Keys : k[1] = "dns" /\ k \notin unsure /\ ~ InHand(k) => Backed(readings[k[2]], rows[k])

DNSInv == ReadingsTyped /\ DNSInHand /\ DNSAtRest

-----------------------------------------------------------------------------
(* Rows and the checks they count.                                         *)

LEMMA NextReading ==
    ASSUME NEW g \in ReadingType, NEW bad \in BOOLEAN, NEW h, h = NextOf(g, bad)
    PROVE  /\ h \in ReadingType /\ h.bad = bad /\ h.n >= 1
           /\ g.n > 0 /\ g.bad = bad => h.age = g.age /\ h.n = 2
<1>1. g.n \in 0..2 /\ g.age \in Nat /\ g.bad \in BOOLEAN
  BY DEF ReadingType
<1>2. CASE g.n > 0 /\ g.bad = bad
  <2> DEFINE n == AtMost(g.n + 1, DNSChecks)
  <2>1. n = 2
    <3>1. g.n + 1 \in Nat /\ g.n + 1 >= 2
      BY <1>1, <1>2
    <3>2. n <= 2 /\ n \in {g.n + 1, 2}
      BY <3>1, LeastOfTwo DEF DNSChecks
    <3> QED BY <3>1, <3>2
  <2>2. h = [g EXCEPT !.n = n]
    BY <1>2 DEF NextOf
  <2> HIDE DEF n
  <2>3. n \in 0..2
    BY <2>1
  <2>4. h \in ReadingType /\ h.n = n /\ h.bad = g.bad /\ h.age = g.age
    BY <2>2, <2>3 DEF ReadingType
  <2> QED BY <1>2, <2>1, <2>4
<1>3. CASE ~ (g.n > 0 /\ g.bad = bad)
  <2> DEFINE n == 1
             age == 0
  <2>1. h = [bad |-> bad, n |-> n, age |-> age]
    BY <1>3 DEF NextOf
  <2>2. n \in 0..2 /\ age \in Nat /\ n >= 1
    OBVIOUS
  <2> HIDE DEF n, age
  <2>3. h \in ReadingType /\ h.bad = bad /\ h.n = n
    BY <2>1, <2>2 DEF ReadingType
  <2> QED BY <1>3, <2>2, <2>3
<1> QED BY <1>2, <1>3

LEMMA OneMore ==
    ASSUME NEW r \in RowType
    PROVE  /\ Counted(r) \in RowType /\ Counted(r).phase = r.phase
           /\ Counted(r).since = r.since /\ Counted(r).mark = r.mark
           /\ Counted(r).count = IF r.count = 0 THEN 1 ELSE 2
<1> DEFINE c == AtMost(r.count + 1, DNSChecks)
<1>1. r.count \in 0..2 /\ r.count + 1 \in Nat
  BY RowParts
<1>2. c = IF r.count = 0 THEN 1 ELSE 2
  <2>1. c <= r.count + 1 /\ c <= 2 /\ c \in {r.count + 1, 2}
    BY <1>1, LeastOfTwo DEF DNSChecks
  <2> QED BY <1>1, <2>1
<1>3. Counted(r) = [r EXCEPT !.count = c]
  BY DEF Counted
<1> HIDE DEF c
<1>4. c \in 0..2
  BY <1>2
<1>5. /\ Counted(r) \in RowType /\ Counted(r).phase = r.phase /\ Counted(r).count = c
      /\ Counted(r).since = r.since /\ Counted(r).mark = r.mark
  BY <1>3, <1>4 DEF RowType, DNSChecks
<1> QED BY <1>2, <1>5

LEMMA NotARow ==
    ASSUME NoticeConsts, NEW r \in RowType, NEW g
    PROVE  Backed(g, r) <=> /\ r.phase = "pending" => r.count > 0
                            /\ r.count > 0 => CountedBy(g, r)
<1>1. r \notin {Keep, NoRow}
  BY RowIsNone
<1> QED BY <1>1 DEF Backed

LEMMA PendingCounted ==
    ASSUME NoticeConsts, NEW r \in RowType, r.phase = "pending", NEW g \in ReadingType, Backed(g, r),
           NEW h, h \in ReadingType, h.bad = TRUE, h.n >= 1,
           g.n > 0 /\ g.bad = TRUE => h.age = g.age /\ h.n = 2
    PROVE  Backed(h, Counted(r)) /\ (LongEnough(Counted(r).count, r.since) => Agreed(h, TRUE))
<1>1. r.count > 0 /\ g.bad = TRUE /\ r.count <= g.n /\ r.since <= g.age
  BY NotARow DEF CountedBy, RowAge
<1>2. g.n \in 0..2 /\ g.age \in Nat /\ r.count \in 0..2 /\ r.since \in Nat
  BY RowParts DEF ReadingType
<1>3. g.n > 0
  BY <1>1, <1>2
<1>4. h.bad = TRUE /\ h.n = 2 /\ h.age = g.age
  BY <1>1, <1>3
<1>5. /\ Counted(r) \in RowType /\ Counted(r).phase = "pending" /\ Counted(r).since = r.since
      /\ Counted(r).count \in {1, 2}
  BY OneMore
<1>6. CountedBy(h, Counted(r))
  <2>1. Counted(r).count <= h.n /\ RowAge(Counted(r)) <= h.age
    BY <1>1, <1>4, <1>5 DEF RowAge
  <2> QED BY <1>4, <1>5, <2>1 DEF CountedBy
<1>7. Backed(h, Counted(r))
  <2>1. Counted(r).count > 0
    BY <1>5
  <2> QED BY <1>5, <1>6, <2>1, NotARow
<1>8. r.since >= DNSApart => Agreed(h, TRUE)
  <2>1. DNSApart \in Nat
    BY DEF NoticeConsts, NotifierConstants
  <2>2. r.since >= DNSApart => h.age >= DNSApart
    BY <1>1, <1>2, <1>4, <2>1
  <2>3. h.n >= DNSChecks
    BY <1>4 DEF DNSChecks
  <2> QED BY <1>4, <2>2, <2>3 DEF Agreed
<1> QED BY <1>7, <1>8 DEF LongEnough

LEMMA OpenCounted ==
    ASSUME NoticeConsts, NEW r \in RowType, r.phase = "open", NEW g \in ReadingType, Backed(g, r),
           NEW h, h \in ReadingType, h.bad = FALSE, h.n >= 1,
           g.n > 0 /\ g.bad = FALSE => h.age = g.age /\ h.n = 2,
           NEW good, good = IF Counted(r).count = 1 THEN [Counted(r) EXCEPT !.mark = 0] ELSE Counted(r)
    PROVE  /\ Backed(h, good) /\ good \in RowType
           /\ LongEnough(good.count, good.mark) => Agreed(h, FALSE)
<1>1. /\ g.n \in 0..2 /\ g.age \in Nat /\ r.count \in 0..2 /\ r.mark \in Nat /\ DNSApart \in Nat
  BY RowParts DEF ReadingType, NoticeConsts, NotifierConstants
<1>2. h \in ReadingType /\ h.bad = FALSE /\ h.n >= 1 /\ h.n \in 0..2 /\ h.age \in Nat
  BY DEF ReadingType
<1> DEFINE up == Counted(r)
<1>3. /\ up \in RowType /\ up.phase = "open" /\ up.mark = r.mark
      /\ up.count = IF r.count = 0 THEN 1 ELSE 2
  BY OneMore
<1> HIDE DEF up
<1>4. CASE r.count = 0
  <2>1. good = [up EXCEPT !.mark = 0] /\ up.count = 1
    BY <1>3, <1>4 DEF up
  <2>2. good \in RowType /\ good.phase = "open" /\ good.mark = 0 /\ good.count = 1
    <3> DEFINE m == 0
    <3>1. m \in Nat /\ m = 0
      OBVIOUS
    <3>2. good = [up EXCEPT !.mark = m]
      BY <2>1
    <3> HIDE DEF m
    <3>3. good \in RowType /\ good.phase = up.phase /\ good.mark = m /\ good.count = up.count
      BY <1>3, <3>1, <3>2 DEF RowType
    <3> QED BY <1>3, <2>1, <3>1, <3>3
  <2>3. good.count <= h.n /\ RowAge(good) <= h.age
    BY <1>2, <2>2 DEF RowAge
  <2>4. CountedBy(h, good)
    BY <1>2, <2>2, <2>3 DEF CountedBy
  <2>5. Backed(h, good)
    BY <2>2, <2>4, NotARow
  <2>6. ~ LongEnough(good.count, good.mark)
    BY <2>2 DEF LongEnough, DNSChecks
  <2> QED BY <2>2, <2>5, <2>6
<1>5. CASE r.count # 0
  <2>1. good = up /\ up.count = 2
    BY <1>3, <1>5 DEF up
  <2>2. r.count > 0
    BY <1>1, <1>5
  <2>3. g.bad = FALSE /\ r.count <= g.n /\ r.mark <= g.age
    <3>1. CountedBy(g, r)
      BY <2>2, NotARow
    <3> QED BY <3>1 DEF CountedBy, RowAge
  <2>4. g.n > 0
    BY <1>1, <2>2, <2>3
  <2>5. h.n = 2 /\ h.age = g.age
    BY <2>3, <2>4
  <2>6. good.count <= h.n /\ RowAge(good) <= h.age
    <3>1. RowAge(good) = r.mark
      BY <1>3, <2>1 DEF RowAge
    <3> QED BY <2>1, <2>3, <2>5, <3>1
  <2>7. CountedBy(h, good)
    BY <1>2, <1>3, <2>1, <2>6 DEF CountedBy
  <2>8. Backed(h, good)
    BY <1>3, <2>1, <2>7, NotARow
  <2>9. good.mark >= DNSApart => Agreed(h, FALSE)
    <3>1. good.mark >= DNSApart => h.age >= DNSApart
      BY <1>1, <1>3, <2>1, <2>3, <2>5
    <3>2. h.n >= DNSChecks
      BY <2>5 DEF DNSChecks
    <3> QED BY <1>2, <3>1, <3>2 DEF Agreed
  <2> QED BY <1>3, <2>1, <2>8, <2>9 DEF LongEnough
<1> QED BY <1>4, <1>5

LEMMA AgedBacked ==
    ASSUME NoticeConsts, NEW k \in Keys, k[1] = "dns", NEW r \in RowType, NEW g \in ReadingType, Backed(g, r),
           NEW h, h = [g EXCEPT !.age = IF g.n = 0 THEN 0 ELSE AtMost(@ + 1, DNSApart)]
    PROVE  Backed(h, Aged(k, r)) /\ h \in ReadingType
<1>1. /\ g.n \in 0..2 /\ g.age \in Nat /\ r.count \in 0..2 /\ r.since \in Nat /\ r.mark \in Nat
      /\ DNSApart \in Nat
  BY RowParts DEF ReadingType, NoticeConsts, NotifierConstants
<1> DEFINE s == AtMost(r.since + 1, DNSApart)
           m == AtMost(r.mark + 1, DNSApart)
           a == IF g.n = 0 THEN 0 ELSE AtMost(g.age + 1, DNSApart)
           sent == IF k[1] = "limit" THEN AtMost(r.sent + 1, Days) ELSE 0
<1>2. /\ s \in Nat /\ s <= r.since + 1 /\ s <= DNSApart
      /\ m \in Nat /\ m <= r.mark + 1 /\ m <= DNSApart
      /\ a \in Nat /\ (g.n # 0 => a \in {g.age + 1, DNSApart})
  <2>1. r.since + 1 \in Nat /\ r.mark + 1 \in Nat /\ g.age + 1 \in Nat
    BY <1>1
  <2> QED BY <1>1, <2>1, LeastOfTwo
<1>3. Aged(k, r) = [r EXCEPT !.since = s, !.mark = m, !.sent = sent]
  BY DEF Aged
<1>4. h = [g EXCEPT !.age = a]
  OBVIOUS
<1>5. sent = 0
  OBVIOUS
<1>6. g.n # 0 /\ r.since <= g.age => s <= a
  BY <1>1, <1>2
<1>7. g.n # 0 /\ r.mark <= g.age => m <= a
  BY <1>1, <1>2
<1> HIDE DEF s, m, a, sent
<1>8. sent \in Nat
  BY <1>5
<1>9. /\ Aged(k, r) \in RowType /\ Aged(k, r).phase = r.phase /\ Aged(k, r).count = r.count
      /\ Aged(k, r).since = s /\ Aged(k, r).mark = m
  BY <1>2, <1>3, <1>8 DEF RowType
<1>10. h \in ReadingType /\ h.bad = g.bad /\ h.n = g.n /\ h.age = a
  BY <1>2, <1>4 DEF ReadingType
<1>11. r.count > 0 => CountedBy(h, Aged(k, r))
  <2> SUFFICES ASSUME r.count > 0 PROVE CountedBy(h, Aged(k, r))
    OBVIOUS
  <2>1. CountedBy(g, r)
    BY NotARow
  <2>2. r.count <= g.n /\ RowAge(r) <= g.age
    BY <2>1 DEF CountedBy
  <2>3. g.n # 0
    BY <1>1, <2>2
  <2>4. RowAge(Aged(k, r)) <= a
    BY <1>6, <1>7, <1>9, <2>2, <2>3 DEF RowAge
  <2> QED BY <1>9, <1>10, <2>1, <2>2, <2>4 DEF CountedBy
<1>12. r.phase = "pending" => r.count > 0
  BY NotARow
<1> QED BY <1>9, <1>10, <1>11, <1>12, NotARow

-----------------------------------------------------------------------------
(* A look at the subjects plans what the checks bear out.                  *)

\* Nothing is planned, or for a subject that is no domain, or what the last
\* checks of the domain bear out.
PlanBacked(g, k, first, kind, sent, held) ==
    /\ first # NoRow /\ (kind # "follow" => held # Keep)
    /\ k \notin unsure =>
         /\ Backed(g, first) /\ Backed(g, sent) /\ Backed(g, held)
         /\ kind = "open" => Agreed(g, TRUE)
         /\ kind = "closed" => Agreed(g, FALSE)
         /\ kind = "follow" /\ first = Keep => Backed(g, rows[k])
PlansDomain(g, k) == \E first, kind, to, sent, held :
    Plan(k, first, kind, to, sent, held) /\ PlanBacked(g, k, first, kind, sent, held)

LEMMA PlanIs ==
    ASSUME pass \in PassType, NEW k, NEW first, NEW kind, NEW to, NEW sent, NEW held,
           Plan(k, first, kind, to, sent, held)
    PROVE  /\ pass'.at = (IF first = Keep THEN "send" ELSE "first") /\ pass'.key = k /\ pass'.kind = kind
           /\ pass'.first = first /\ pass'.sent = sent /\ pass'.held = held
<1> DEFINE at == IF first = Keep THEN "send" ELSE "first"
           todo == pass.todo \ {k}
<1>1. pass' = [pass EXCEPT !.at = at, !.todo = todo, !.key = k, !.kind = kind, !.first = first,
                 !.to = to, !.handed = {}, !.sent = sent, !.held = held]
  BY DEF Plan
<1> HIDE DEF at, todo
<1>2. /\ pass'.at = at /\ pass'.key = k /\ pass'.kind = kind
      /\ pass'.first = first /\ pass'.sent = sent /\ pass'.held = held
  BY <1>1 DEF PassType
<1> QED BY <1>2 DEF at

LEMMA PlanBackedMakes ==
    ASSUME pass \in PassType, NEW k, rows' = rows, unsure' = unsure, PlansDomain(readings'[k[2]], k)
    PROVE  pass'.key = k /\ pass'.at \in Writing /\ DNSInHand'
<1>0. PICK g : g = readings'[k[2]]
  OBVIOUS
<1>1. PICK first, kind, to, sent, held :
        Plan(k, first, kind, to, sent, held) /\ PlanBacked(g, k, first, kind, sent, held)
  BY <1>0 DEF PlansDomain
<1>2. /\ pass'.at = (IF first = Keep THEN "send" ELSE "first") /\ pass'.key = k /\ pass'.kind = kind
      /\ pass'.first = first /\ pass'.sent = sent /\ pass'.held = held
  BY <1>1, PlanIs
<1>3. pass'.at \in Writing
  BY <1>2 DEF Writing
<1>4. DNSPlan'
  BY <1>1, <1>2 DEF DNSPlan, PlanBacked
<1>5. k \notin unsure => DNSHand(g, k)'
  <2> SUFFICES ASSUME k \notin unsure PROVE DNSHand(g, k)'
    OBVIOUS
  <2>1. /\ Backed(g, first) /\ Backed(g, sent) /\ Backed(g, held)
        /\ kind = "open" => Agreed(g, TRUE)
        /\ kind = "closed" => Agreed(g, FALSE)
        /\ kind = "follow" /\ first = Keep => Backed(g, rows[k])
    BY <1>1 DEF PlanBacked
  <2>2. pass'.at # "save" /\ (pass'.at # "first" => first = Keep)
    BY <1>2
  <2> QED BY <1>2, <2>1, <2>2 DEF DNSHand
<1> QED BY <1>0, <1>2, <1>3, <1>4, <1>5 DEF DNSInHand

\* A look that leaves the domains alone.
LEMMA LooksElsewhere ==
    ASSUME DNSInv, Looking, UNCHANGED <<rows, unsure, readings>>,
           pass'.at \in Writing => pass'.key[1] # "dns" \/ DNSInHand'
    PROVE  DNSInv'
<1>1. ReadingsTyped'
  BY DEF DNSInv, ReadingsTyped
<1>2. DNSInHand'
  BY DEF DNSInHand
<1>3. DNSAtRest'
  BY DEF DNSInv, DNSAtRest, InHand, Looking
<1> QED BY <1>1, <1>2, <1>3 DEF DNSInv

LEMMA DNSStepPlans ==
    ASSUME NoticeConsts, NotifyInv, NEW k, Turn(k), k[1] = "dns", NEW bad \in BOOLEAN, DNSStep(k[2], bad),
           NEW g \in ReadingType, k \notin unsure => Backed(g, rows[k]),
           NEW h \in ReadingType, h.bad = bad, h.n >= 1, g.n > 0 /\ g.bad = bad => h.age = g.age /\ h.n = 2
    PROVE  (Nothing(k) /\ rows[k] = NoRow) \/ PlansDomain(h, k)
<1> DEFINE st == rows[k]
           up == Counted(st)
           good == IF up.count = 1 THEN [up EXCEPT !.mark = 0] ELSE up
<1>1. k \in Keys /\ Key("dns", k[2]) = k
  BY KeyParts DEF Turn
<1>2. st # NoRow => st \in RowType /\ st.phase \in {"pending", "open"}
  BY Resting DEF RowOk, Phases
<1>3. Keep # NoRow /\ \A r \in RowType : r # NoRow /\ r # Keep
  BY RowIsNone
<1>4. Backed(h, Keep) /\ Backed(h, NoRow)
  BY DEF Backed
<1>5. st # NoRow => up \in RowType /\ good \in RowType
  <2> SUFFICES ASSUME st # NoRow PROVE up \in RowType /\ good \in RowType
    OBVIOUS
  <2>1. up \in RowType
    BY <1>2, OneMore
  <2> DEFINE m == 0
  <2>2. m \in Nat /\ good \in {[up EXCEPT !.mark = m], up}
    OBVIOUS
  <2> HIDE DEF up, m, good
  <2>3. [up EXCEPT !.mark = m] \in RowType
    BY <2>1, <2>2, RowMarked
  <2> QED BY <2>1, <2>2, <2>3
<1>6. ASSUME NEW row, row # Keep, JustSave(k, row), k \notin unsure => Backed(h, row)
      PROVE  PlansDomain(h, k)
  <2>1. PlanBacked(h, k, Keep, "none", Keep, row)
    BY <1>3, <1>4, <1>6 DEF PlanBacked
  <2> QED BY <1>6, <2>1 DEF PlansDomain, JustSave
<1>7. CASE st = NoRow /\ ~ bad
  BY <1>1, <1>7 DEF DNSStep
<1>8. CASE st = NoRow /\ bad
  <2> DEFINE one == 1
             row == [Row("pending") EXCEPT !.count = one]
  <2>1. JustSave(k, row)
    BY <1>1, <1>8 DEF DNSStep
  <2>2. one \in 0..2 /\ one = 1
    OBVIOUS
  <2>3. row \in RowType /\ row.phase = "pending" /\ row.count = one /\ row.since = 0
    <3> HIDE DEF one
    <3>1. Row("pending") \in RowType /\ Row("pending").phase = "pending" /\ Row("pending").since = 0
      BY NewRow DEF Row
    <3> QED BY <2>2, <3>1 DEF RowType, DNSChecks
  <2> HIDE DEF row, one
  <2>4. row.count <= h.n /\ RowAge(row) <= h.age
    <3>1. h.age \in Nat
      BY DEF ReadingType
    <3> QED BY <2>2, <2>3, <3>1 DEF RowAge
  <2>5. CountedBy(h, row)
    BY <1>8, <2>3, <2>4 DEF CountedBy
  <2>6. row.count > 0
    BY <2>2, <2>3
  <2>7. Backed(h, row)
    BY <2>3, <2>5, <2>6, NotARow
  <2> QED BY <1>3, <1>6, <2>1, <2>3, <2>7
<1>9. CASE st # NoRow /\ st.phase = "pending" /\ ~ bad
  <2>1. JustSave(k, NoRow)
    BY <1>1, <1>9 DEF DNSStep
  <2> QED BY <1>3, <1>4, <1>6, <2>1
<1>10. CASE st # NoRow /\ st.phase = "pending" /\ bad
  <2> DEFINE row == [st EXCEPT !.phase = "open", !.count = 0, !.mark = 0, !.sent = 0]
  <2>1. k \notin unsure => Backed(h, up) /\ (LongEnough(up.count, st.since) => Agreed(h, TRUE))
    BY <1>2, <1>10, PendingCounted
  <2>2. CASE LongEnough(up.count, st.since)
    <3>1. Open(k, Keep, row, up)
      BY <1>1, <1>10, <2>2 DEF DNSStep
    <3>2. row \in RowType /\ row.phase = "open" /\ row.count = 0
      <4>1. row \in RowType /\ row.phase = "open"
        BY <1>2, <1>10, RowBegun
      <4>2. row.count = 0
        BY <1>2, <1>10 DEF RowType
      <4> QED BY <4>1, <4>2
    <3> HIDE DEF row
    <3>3. Backed(h, row)
      BY <3>2, NotARow
    <3>4. PlanBacked(h, k, Keep, "open", row, up)
      <4> HIDE DEF up
      <4> QED BY <1>3, <1>4, <1>5, <1>10, <2>1, <2>2, <3>3 DEF PlanBacked
    <3> QED BY <3>1, <3>4 DEF PlansDomain, Open
  <2>3. CASE ~ LongEnough(up.count, st.since)
    <3>1. JustSave(k, up)
      BY <1>1, <1>10, <2>3 DEF DNSStep
    <3> HIDE DEF up
    <3> QED BY <1>3, <1>5, <1>6, <1>10, <2>1, <3>1
  <2> QED BY <2>2, <2>3
<1>11. CASE st # NoRow /\ st.phase = "open" /\ bad
  <2> DEFINE row == [st EXCEPT !.count = 0, !.mark = 0]
             first == IF st.count = 0 THEN Keep ELSE row
  <2>1. FollowUp(k, first)
    BY <1>1, <1>11 DEF DNSStep
  <2>2. row \in RowType /\ row.phase = "open" /\ row.count = 0
    <3>1. row \in RowType /\ row.phase = "open"
      BY <1>2, <1>11, RowBegun
    <3>2. row.count = 0
      BY <1>2, <1>11 DEF RowType
    <3> QED BY <3>1, <3>2
  <2> HIDE DEF row
  <2>3. Backed(h, row)
    BY <2>2, NotARow
  <2>4. st.count = 0 => Backed(h, st)
    BY <1>2, <1>11, NotARow
  <2>5. first \in {Keep, row} /\ (first = Keep => st.count = 0)
    BY <1>3, <2>2
  <2> HIDE DEF first
  <2>6. PlanBacked(h, k, first, "follow", Keep, Keep)
    BY <1>3, <1>4, <2>2, <2>3, <2>4, <2>5 DEF PlanBacked
  <2> QED BY <2>1, <2>6 DEF PlansDomain, FollowUp
<1>12. CASE st # NoRow /\ st.phase = "open" /\ ~ bad
  <2>1. k \notin unsure => Backed(h, good) /\ (LongEnough(good.count, good.mark) => Agreed(h, FALSE))
    BY <1>2, <1>12, OpenCounted
  <2>2. good \in RowType
    BY <1>5, <1>12
  <2>3. IF LongEnough(good.count, good.mark) THEN Closed(k, good) ELSE JustSave(k, good)
    BY <1>1, <1>12 DEF DNSStep
  <2> HIDE DEF good
  <2>4. CASE JustSave(k, good)
    BY <1>3, <1>6, <2>1, <2>2, <2>4
  <2>5. CASE LongEnough(good.count, good.mark) /\ Closed(k, good) /\ Told(k) = {}
    <3>1. JustSave(k, NoRow)
      BY <2>5 DEF Closed
    <3> QED BY <1>3, <1>4, <1>6, <3>1
  <2>6. CASE LongEnough(good.count, good.mark) /\ Closed(k, good) /\ Told(k) # {}
    <3>1. Plan(k, Keep, "closed", Told(k), NoRow, good)
      BY <2>6 DEF Closed
    <3>2. PlanBacked(h, k, Keep, "closed", NoRow, good)
      BY <1>3, <1>4, <2>1, <2>2, <2>6 DEF PlanBacked
    <3> QED BY <3>1, <3>2 DEF PlansDomain
  <2> QED BY <2>3, <2>4, <2>5, <2>6
<1> QED BY <1>2, <1>7, <1>8, <1>9, <1>10, <1>11, <1>12

LEMMA CheckDomainBacks ==
    ASSUME NoticeConsts, NotifyInv, DNSInv, CheckDomain
    PROVE  DNSInv'
<1>1. Looking /\ pass.at = "dns" /\ pass \in PassType /\ UNCHANGED <<rows, unsure>>
  BY DEF CheckDomain, Running, Looking, Writing, NotifyInv, NotifyTyped, tables
<1>2. PICK k \in pass.todo : \/ Reading(k[2], k \in wrong) /\ DNSStep(k[2], k \in wrong)
                             \/ Nothing(k) /\ UNCHANGED readings
  BY DEF CheckDomain, NothingLearned
<1>3. k \in Keys /\ k[1] = "dns" /\ Turn(k)
  <2>1. TodoOk
    BY DEF NotifyInv
  <2>2. k \in Keys /\ k[1] = "dns"
    BY <1>1, <1>2, <2>1, PassParts DEF TodoOk
  <2> QED BY <1>1, <2>2 DEF Turn
<1>4. k[2] \in Domains /\ readings \in [Domains -> ReadingType] /\ (k \notin unsure => Backed(readings[k[2]], rows[k]))
  BY <1>1, <1>3, KeyParts DEF DNSInv, ReadingsTyped, DNSAtRest, InHand, Looking
<1>5. ASSUME Nothing(k) PROVE pass'.at \notin Writing
  <2>1. NothingPlanned
    BY <1>3, <1>5, NothingMakes
  <2> QED BY <2>1 DEF NothingPlanned
<1>6. CASE Nothing(k) /\ UNCHANGED readings
  BY <1>1, <1>5, <1>6, LooksElsewhere
<1>7. CASE Reading(k[2], k \in wrong) /\ DNSStep(k[2], k \in wrong)
  <2> DEFINE bad == k \in wrong
  <2>0. bad \in BOOLEAN /\ Reading(k[2], bad) /\ DNSStep(k[2], bad)
    BY <1>7
  <2> HIDE DEF bad
  <2>1. PICK g \in ReadingType : g = readings[k[2]]
    BY <1>4
  <2>2. PICK h : h = NextOf(g, bad)
    OBVIOUS
  <2>3. /\ h \in ReadingType /\ h.bad = bad /\ h.n >= 1
        /\ g.n > 0 /\ g.bad = bad => h.age = g.age /\ h.n = 2
    BY <2>0, <2>2, NextReading
  <2>4. readings' = [readings EXCEPT ![k[2]] = h]
    BY <2>0, <2>1, <2>2 DEF Reading
  <2>5. /\ ReadingsTyped' /\ readings'[k[2]] = h
        /\ \A d \in Domains \ {k[2]} : readings'[d] = readings[d]
    BY <1>4, <2>3, <2>4 DEF ReadingsTyped
  <2>6. (Nothing(k) /\ rows[k] = NoRow) \/ PlansDomain(h, k)
    BY <1>3, <1>4, <2>0, <2>1, <2>3, DNSStepPlans
  <2>7. \A j \in Keys \ {k} : j[1] = "dns" => j[2] \in Domains /\ j[2] # k[2]
    BY <1>3, KeyParts
  <2>8. \A j \in Keys \ {k} : j[1] = "dns" /\ j \notin unsure' => Backed(readings[j[2]], rows[j])'
    <3> SUFFICES ASSUME NEW j \in Keys \ {k}, j[1] = "dns", j \notin unsure'
                 PROVE  Backed(readings[j[2]], rows[j])'
      OBVIOUS
    <3>1. Backed(readings[j[2]], rows[j])
      BY <1>1 DEF DNSInv, DNSAtRest, InHand, Looking
    <3>2. readings'[j[2]] = readings[j[2]] /\ rows'[j] = rows[j]
      BY <1>1, <2>5, <2>7
    <3> QED BY <3>1, <3>2 DEF Backed, CountedBy
  <2>9. CASE Nothing(k) /\ rows[k] = NoRow
    <3>1. DNSInHand'
      BY <1>5, <2>9 DEF DNSInHand
    <3>2. Backed(readings[k[2]], rows[k])'
      BY <1>1, <2>9 DEF Backed
    <3>3. DNSAtRest'
      BY <2>8, <3>2 DEF DNSAtRest
    <3> QED BY <2>5, <3>1, <3>3 DEF DNSInv
  <2>10. CASE PlansDomain(h, k)
    <3>1. pass'.key = k /\ pass'.at \in Writing /\ DNSInHand'
      BY <1>1, <2>5, <2>10, PlanBackedMakes
    <3>2. DNSAtRest'
      BY <2>8, <3>1 DEF DNSAtRest, InHand
    <3> QED BY <2>5, <3>1, <3>2 DEF DNSInv
  <2> QED BY <2>6, <2>9, <2>10
<1> QED BY <1>2, <1>6, <1>7

LEMMA ForgetDomainsBacks ==
    ASSUME NoticeConsts, NotifyInv, DNSInv, ForgetDomains
    PROVE  DNSInv'
<1>1. Looking /\ pass.at = "dns" /\ pass \in PassType /\ UNCHANGED <<rows, unsure, readings>>
  BY DEF ForgetDomains, Running, Looking, Writing, NotifyInv, NotifyTyped, tables
<1>2. CASE \E k \in Keys : k[1] = "dns" /\ JustSave(k, NoRow)
  <2>1. PICK k \in Keys : k[1] = "dns" /\ JustSave(k, NoRow)
    BY <1>2
  <2>2. \A g : PlanBacked(g, k, Keep, "none", Keep, NoRow)
    BY RowIsNone DEF PlanBacked, Backed
  <2>3. PlansDomain(readings'[k[2]], k)
    BY <2>1, <2>2 DEF PlansDomain, JustSave
  <2>4. DNSInHand'
    BY <1>1, <2>3, PlanBackedMakes
  <2> QED BY <1>1, <2>4, LooksElsewhere
<1>3. CASE pass' = [pass EXCEPT !.at = "cert"]
  <2>1. pass'.at = "cert"
    BY <1>1, <1>3 DEF PassType
  <2> QED BY <1>1, <2>1, LooksElsewhere DEF Writing
<1> QED BY <1>2, <1>3 DEF ForgetDomains

LEMMA ElsewhereBacks ==
    ASSUME NoticeConsts, NotifyInv, DNSInv, CheckCertificate \/ CheckQueue \/ CheckLimit \/ ForgetLimits
    PROVE  DNSInv'
<1>1. /\ Looking /\ pass.at # "dns" /\ pass \in PassType /\ UNCHANGED <<rows, unsure, readings>>
  BY DEF CheckCertificate, CheckQueue, CheckLimit, ForgetLimits, Running, Looking, Writing,
         NotifyInv, NotifyTyped, tables
<1>2. ASSUME NEW k \in Keys, k[1] # "dns", NEW first, NEW kind, NEW to, NEW sent, NEW held,
             Plan(k, first, kind, to, sent, held)
      PROVE  DNSInv'
  <2>1. pass'.key = k
    BY <1>1, <1>2, PlanIs
  <2> QED BY <1>1, <1>2, <2>1, LooksElsewhere
<1>3. ASSUME NEW at, at \notin Writing, NEW todo, pass' = [pass EXCEPT !.at = at, !.todo = todo]
      PROVE  DNSInv'
  <2>1. pass'.at = at
    BY <1>1, <1>3 DEF PassType
  <2> QED BY <1>1, <1>3, <2>1, LooksElsewhere
<1>4. ASSUME NEW k \in Keys, k[1] # "dns", Nothing(k) PROVE DNSInv'
  <2>1. Stage(k) \notin Writing
    BY <1>4, KeyParts
  <2> QED BY <1>3, <1>4, <2>1 DEF Nothing
<1>5. ASSUME NEW k \in Keys, k[1] # "dns", NEW row, JustSave(k, row) PROVE DNSInv'
  BY <1>2, <1>5 DEF JustSave
<1>6. ASSUME NEW k \in Keys, k[1] # "dns", NEW first, NEW row, NEW held,
             FollowUp(k, first) \/ Open(k, first, row, held) \/ Closed(k, held)
      PROVE  DNSInv'
  BY <1>2, <1>5, <1>6 DEF FollowUp, Open, Closed
<1>7. CASE CheckCertificate
  <2> DEFINE k == Key("cert", Server)
  <2>1. k \in Keys /\ k[1] # "dns"
    BY DEF Keys, Key
  <2>2. Nothing(k) \/ CertificateStep(k, rows[k])
    BY <1>7 DEF CheckCertificate
  <2> HIDE DEF k
  <2>3. \/ Nothing(k) \/ JustSave(k, NoRow) \/ FollowUp(k, Keep)
        \/ \E first, row : Open(k, first, row, Keep)
    BY <2>2 DEF CertificateStep
  <2> QED BY <1>4, <1>5, <1>6, <2>1, <2>3
<1>8. CASE CheckQueue
  <2> DEFINE k == Key("queue", Server)
  <2>1. k \in Keys /\ k[1] # "dns"
    BY DEF Keys, Key
  <2>2. Nothing(k) \/ Open(k, Keep, Row("open"), Keep) \/ FollowUp(k, Keep) \/ Closed(k, Keep)
    BY <1>8 DEF CheckQueue
  <2> HIDE DEF k
  <2> QED BY <1>4, <1>6, <2>1, <2>2
<1>9. CASE CheckLimit
  <2>1. pass.at = "limits"
    BY <1>9 DEF CheckLimit, Running
  <2>2. PICK k \in pass.todo : FollowUp(k, Keep) \/ Open(k, Keep, Row("open"), Keep)
    BY <1>9 DEF CheckLimit
  <2>3. k \in Keys /\ k[1] = "limit"
    BY <1>1, <2>1, <2>2, PassParts DEF NotifyInv, TodoOk
  <2> QED BY <1>6, <2>2, <2>3
<1>10. CASE ForgetLimits
  <2>1. \/ \E k \in Keys : k[1] = "limit" /\ JustSave(k, NoRow)
        \/ pass' = [pass EXCEPT !.at = "done"]
    BY <1>10 DEF ForgetLimits
  <2>2. CASE pass' = [pass EXCEPT !.at = "done"]
    <3>1. pass'.at = "done"
      BY <1>1, <2>2 DEF PassType
    <3> QED BY <1>1, <3>1, LooksElsewhere DEF Writing
  <2> QED BY <1>5, <2>1, <2>2
<1> QED BY <1>7, <1>8, <1>9, <1>10

-----------------------------------------------------------------------------
(* The writes and the messages, time, a kill.                              *)

\* A write under way: other domains' rows are as they were.
LEMMA HandlingBacks ==
    ASSUME NoticeConsts, NotifyInv, DNSInv, pass.at \in Writing, readings' = readings,
           \A j \in Keys \ {pass.key} : rows'[j] = rows[j] /\ (j \notin unsure' => j \notin unsure),
           pass'.at \in Writing => pass'.key = pass.key,
           pass.key[1] = "dns" /\ pass'.at \in Writing =>
               DNSPlan' /\ (pass.key \notin unsure' => DNSHand(readings[pass.key[2]], pass.key)'),
           pass.key[1] = "dns" /\ pass'.at \notin Writing /\ pass.key \notin unsure' =>
               Backed(readings'[pass.key[2]], rows'[pass.key])
    PROVE  DNSInv'
<1>1. ReadingsTyped'
  BY DEF DNSInv, ReadingsTyped
<1>2. DNSInHand'
  BY DEF DNSInHand
<1>3. DNSAtRest'
  <2> SUFFICES ASSUME NEW j \in Keys, j[1] = "dns", j \notin unsure', ~ InHand(j)'
               PROVE  Backed(readings[j[2]], rows[j])'
    BY DEF DNSAtRest
  <2>1. CASE j = pass.key
    <3>1. pass'.at \notin Writing
      BY <2>1 DEF InHand
    <3>2. Backed(readings'[pass.key[2]], rows'[pass.key])
      BY <2>1, <3>1
    <3> QED BY <2>1, <3>2
  <2>2. CASE j # pass.key
    <3>1. Backed(readings[j[2]], rows[j])
      BY <2>2 DEF DNSInv, DNSAtRest, InHand
    <3>2. rows'[j] = rows[j]
      BY <2>2
    <3> QED BY <3>1, <3>2 DEF Backed, CountedBy
  <2> QED BY <2>1, <2>2
<1> QED BY <1>1, <1>2, <1>3 DEF DNSInv

LEMMA HandlingHasDNS ==
    ASSUME NoticeConsts, NotifyInv, DNSInv, pass.at \in Writing
    PROVE  /\ pass.key \in Keys /\ pass \in PassType /\ PlanOk(pass.key) /\ NotifyTyped
           /\ pass.key[1] = "dns" => /\ DNSPlan
                                     /\ pass.key \notin unsure => DNSHand(readings[pass.key[2]], pass.key)
BY HandlingHas DEF DNSInv, DNSInHand, NotifyInv

LEMMA SaveFirstBacks ==
    ASSUME NoticeConsts, NotifyInv, DNSInv, SaveFirst
    PROVE  DNSInv'
<1>1. PICK k : k = pass.key
  OBVIOUS
<1>2. pass.at = "first" /\ pass.at \in Writing /\ UNCHANGED <<cert, readings>>
  BY DEF SaveFirst, Running, Writing, world
<1>3. /\ k \in Keys /\ pass \in PassType /\ PlanOk(k) /\ NotifyTyped
      /\ k[1] = "dns" => DNSPlan /\ (k \notin unsure => DNSHand(readings[k[2]], k))
  BY <1>1, <1>2, HandlingHasDNS
<1>4. /\ pass'.at = "send" /\ pass'.key = k /\ pass'.kind = pass.kind
      /\ pass'.first = pass.first /\ pass'.sent = pass.sent /\ pass'.held = pass.held
  BY <1>1, <1>3 DEF SaveFirst, PassType
<1>5. MaybeRow(cert, k, pass.first)
  BY <1>3 DEF PlanOk
<1>6. Write(k, pass.first) \/ LoseWrite(k)
  BY <1>1 DEF SaveFirst
<1>7. CASE LoseWrite(k)
  <2>1. rows' = rows /\ unsure' = unsure \cup {k}
    BY <1>7 DEF LoseWrite
  <2>2. k[1] = "dns" => DNSPlan'
    BY <1>3, <1>4 DEF DNSPlan
  <2> QED BY <1>1, <1>2, <1>4, <2>1, <2>2, HandlingBacks DEF Writing
<1>8. CASE Write(k, pass.first)
  <2>1. /\ \A j \in Keys \ {k} : rows'[j] = rows[j] /\ (j \notin unsure' => j \notin unsure)
        /\ pass.first = Keep => UNCHANGED <<rows, unsure>>
        /\ pass.first \notin {Keep, NoRow} => rows'[k] = pass.first /\ UNCHANGED unsure
    BY <1>2, <1>3, <1>5, <1>8, WriteDoes
  <2>2. k[1] = "dns" => DNSPlan'
    BY <1>3, <1>4 DEF DNSPlan
  <2>3. ASSUME k[1] = "dns", k \notin unsure' PROVE DNSHand(readings[k[2]], k)'
    <3>1. pass.first # NoRow
      BY <1>3, <2>3 DEF DNSPlan
    <3>2. k \notin unsure
      BY <2>1, <2>3, <3>1
    <3>3. DNSHand(readings[k[2]], k)
      BY <1>3, <2>3, <3>2
    <3>4. pass.kind = "follow" => Backed(readings[k[2]], rows'[k])
      <4>1. CASE pass.first # Keep
        BY <2>1, <3>1, <3>3, <4>1 DEF DNSHand
      <4>2. CASE pass.first = Keep
        BY <1>2, <1>3, <2>3, <4>2 DEF DNSPlan
      <4> QED BY <4>1, <4>2
    <3> QED BY <1>2, <1>4, <3>3, <3>4 DEF DNSHand
  <2> QED BY <1>1, <1>2, <1>4, <2>1, <2>2, <2>3, HandlingBacks DEF Writing
<1> QED BY <1>6, <1>7, <1>8

LEMMA DeliverBacks ==
    ASSUME NoticeConsts, NotifyInv, DNSInv, Deliver
    PROVE  DNSInv'
<1>1. PICK k : k = pass.key
  OBVIOUS
<1>2. pass.at = "send" /\ pass.at \in Writing /\ UNCHANGED <<rows, readings>>
  BY DEF Deliver, Running, Writing, tables
<1>3. /\ k \in Keys /\ pass \in PassType
      /\ k[1] = "dns" => DNSPlan /\ (k \notin unsure => DNSHand(readings[k[2]], k))
  BY <1>1, <1>2, HandlingHasDNS
<1>4. PICK u \in pass.to : /\ \/ pass' = [pass EXCEPT !.to = @ \ {u}, !.handed = @ \cup {u}]
                              \/ pass' = [pass EXCEPT !.to = @ \ {u}]
                           /\ unsure' = unsure \/ unsure' = unsure \cup {k}
  BY <1>1, DeliverDoes
<1> DEFINE to == pass.to \ {u}
           more == pass.handed \cup {u}
<1>5. /\ pass'.at = "send" /\ pass'.key = k /\ pass'.kind = pass.kind
      /\ pass'.first = pass.first /\ pass'.sent = pass.sent /\ pass'.held = pass.held
  <2>1. pass' = [pass EXCEPT !.to = to, !.handed = more] \/ pass' = [pass EXCEPT !.to = to]
    BY <1>4
  <2> HIDE DEF to, more
  <2> QED BY <1>1, <1>2, <1>3, <2>1 DEF PassType
<1>6. k[1] = "dns" => DNSPlan' /\ (k \notin unsure' => DNSHand(readings[k[2]], k)')
  BY <1>2, <1>3, <1>4, <1>5 DEF DNSPlan, DNSHand
<1> QED BY <1>1, <1>2, <1>4, <1>5, <1>6, HandlingBacks DEF Writing

\* What is saved in the end is backed, or the row there is.
LEMMA SavedIsBacked ==
    ASSUME NoticeConsts, NEW k, k[1] = "dns", PlanOk(k), DNSPlan, NEW g, DNSHand(g, k), pass.at # "first",
           pass \in PassType, NEW save \in {pass.sent, pass.held}, save = pass.sent => pass.handed # {}
    PROVE  Backed(g, save) /\ (save = Keep => Backed(g, rows[k]))
<1>1. Backed(g, save)
  BY DEF DNSHand
<1>2. ASSUME save = Keep PROVE pass.kind = "follow"
  <2>1. CASE save = pass.held /\ save # pass.sent
    BY <1>2, <2>1 DEF DNSPlan
  <2>2. CASE save = pass.sent
    <3>1. pass.kind \notin {"none", "closed"}
      BY <1>2, <2>2, RowIsNone DEF PlanOk
    <3>2. pass.kind # "open"
      BY <1>2, <2>2, RowIsNone DEF PlanOk, OpenPlan, RowOk
    <3> QED BY <3>1, <3>2, PassParts DEF MessageKinds
  <2> QED BY <2>1, <2>2
<1> QED BY <1>1, <1>2 DEF DNSHand

LEMMA DeliveredBacks ==
    ASSUME NoticeConsts, NotifyInv, DNSInv, Delivered
    PROVE  DNSInv'
<1>1. PICK k : k = pass.key
  OBVIOUS
<1>2. pass.at = "send" /\ pass.at \in Writing /\ UNCHANGED <<rows, readings, unsure>>
  BY DEF Delivered, Running, Writing, tables, past
<1>3. /\ k \in Keys /\ pass \in PassType /\ PlanOk(k)
      /\ k[1] = "dns" => DNSPlan /\ (k \notin unsure => DNSHand(readings[k[2]], k))
  BY <1>1, <1>2, HandlingHasDNS
<1> DEFINE at == IF pass.handed # {} /\ pass.kind \in {"open", "follow"} THEN "record" ELSE "save"
           save == IF pass.handed # {} THEN pass.sent ELSE pass.held
<1>4. pass' = [pass EXCEPT !.at = at, !.save = save]
  BY DEF Delivered
<1>5. at \in {"record", "save"}
  OBVIOUS
<1>6. PICK s \in {pass.sent, pass.held} : s = save
  OBVIOUS
<1>7. s = pass.sent /\ pass.handed = {} => s = pass.held
  BY <1>6
<1>8. ASSUME k[1] = "dns", k \notin unsure
      PROVE  Backed(readings[k[2]], s) /\ (s = Keep => Backed(readings[k[2]], rows[k]))
  <2>1. DNSPlan /\ DNSHand(readings[k[2]], k) /\ pass.at # "first"
    BY <1>2, <1>3, <1>8
  <2>2. CASE pass.handed # {}
    BY <1>3, <1>6, <1>8, <2>1, <2>2, SavedIsBacked
  <2>3. CASE pass.handed = {}
    <3>1. s = pass.held
      BY <1>6, <2>3
    <3> QED BY <2>1, <3>1 DEF DNSPlan, DNSHand
  <2> QED BY <2>2, <2>3
<1> HIDE DEF at, save
<1>9. /\ pass'.at = at /\ pass'.key = k /\ pass'.kind = pass.kind /\ pass'.save = s
      /\ pass'.first = pass.first /\ pass'.sent = pass.sent /\ pass'.held = pass.held
  BY <1>1, <1>3, <1>4, <1>6 DEF PassType
<1>10. k[1] = "dns" => DNSPlan' /\ (k \notin unsure' => DNSHand(readings[k[2]], k)')
  BY <1>2, <1>3, <1>5, <1>8, <1>9 DEF DNSPlan, DNSHand
<1> QED BY <1>1, <1>2, <1>5, <1>9, <1>10, HandlingBacks DEF Writing

LEMMA RecordBacks ==
    ASSUME NoticeConsts, NotifyInv, DNSInv, Record
    PROVE  DNSInv'
<1>1. PICK k : k = pass.key
  OBVIOUS
<1>2. pass.at = "record" /\ pass.at \in Writing /\ UNCHANGED <<rows, readings>> /\ unsure' \in {unsure, unsure \cup {k}}
  BY <1>1 DEF Record, Running, Writing, LoseWrite
<1>3. /\ k \in Keys /\ pass \in PassType /\ PlanOk(k)
      /\ k[1] = "dns" => DNSPlan /\ (k \notin unsure => DNSHand(readings[k[2]], k))
  BY <1>1, <1>2, HandlingHasDNS
<1>4. pass' = [pass EXCEPT !.at = "save"]
  BY DEF Record
<1>5. /\ pass'.at = "save" /\ pass'.key = k /\ pass'.kind = pass.kind /\ pass'.save = pass.save
      /\ pass'.first = pass.first /\ pass'.sent = pass.sent /\ pass'.held = pass.held
  BY <1>1, <1>3, <1>4 DEF PassType
<1>6. ASSUME k[1] = "dns", k \notin unsure
      PROVE  Backed(readings[k[2]], pass.save) /\ (pass.save = Keep => Backed(readings[k[2]], rows[k]))
  <2>1. DNSPlan /\ DNSHand(readings[k[2]], k) /\ pass.at # "first"
    BY <1>2, <1>3, <1>6
  <2>2. pass.save = pass.sent /\ pass.handed # {}
    BY <1>2, <1>3 DEF PlanOk
  <2> QED BY <1>3, <1>6, <2>1, <2>2, SavedIsBacked
<1>7. k[1] = "dns" => DNSPlan' /\ (k \notin unsure' => DNSHand(readings[k[2]], k)')
  BY <1>2, <1>3, <1>5, <1>6 DEF DNSPlan, DNSHand
<1> QED BY <1>1, <1>2, <1>5, <1>7, HandlingBacks DEF Writing

LEMMA SaveBacks ==
    ASSUME NoticeConsts, NotifyInv, DNSInv, Save
    PROVE  DNSInv'
<1>1. PICK k : k = pass.key
  OBVIOUS
<1>2. pass.at = "save" /\ pass.at \in Writing /\ UNCHANGED <<cert, readings>>
  BY DEF Save, Running, Writing, world
<1>3. /\ k \in Keys /\ pass \in PassType /\ PlanOk(k) /\ NotifyTyped
      /\ k[1] = "dns" => DNSPlan /\ (k \notin unsure => DNSHand(readings[k[2]], k))
  BY <1>1, <1>2, HandlingHasDNS
<1>4. pass'.at \notin Writing
  <2> DEFINE at == Stage(k)
             todo == pass.todo
             names == pass.names
  <2>1. pass' = [NoPass EXCEPT !.at = at, !.todo = todo, !.names = names]
    BY <1>1 DEF Save
  <2>2. at \notin Writing
    BY <1>3, KeyParts
  <2> HIDE DEF at, todo, names
  <2>3. pass'.at = at
    BY <2>1 DEF NoPass
  <2> QED BY <2>2, <2>3
<1>5. Write(k, pass.save) \/ LoseWrite(k)
  BY <1>1 DEF Save
<1>6. CASE LoseWrite(k)
  <2>1. rows' = rows /\ unsure' = unsure \cup {k}
    BY <1>6 DEF LoseWrite
  <2> QED BY <1>1, <1>2, <1>4, <2>1, HandlingBacks
<1>7. CASE Write(k, pass.save)
  <2>1. MaybeRow(cert, k, pass.save)
    BY <1>2, <1>3 DEF PlanOk
  <2>2. /\ \A j \in Keys \ {k} : rows'[j] = rows[j] /\ (j \notin unsure' => j \notin unsure)
        /\ pass.save = Keep => UNCHANGED <<rows, unsure>>
        /\ pass.save = NoRow => rows'[k] = NoRow
        /\ pass.save \notin {Keep, NoRow} => rows'[k] = pass.save /\ UNCHANGED unsure
    BY <1>2, <1>3, <1>7, <2>1, WriteDoes
  <2>3. ASSUME k[1] = "dns", k \notin unsure' PROVE Backed(readings[k[2]], rows'[k])
    <3>1. CASE pass.save = NoRow
      BY <2>2, <3>1 DEF Backed
    <3>2. CASE pass.save # NoRow
      <4>1. DNSHand(readings[k[2]], k)
        BY <1>3, <2>2, <2>3, <3>2
      <4> QED BY <1>2, <2>2, <3>2, <4>1 DEF DNSHand
    <3> QED BY <3>1, <3>2
  <2> QED BY <1>1, <1>2, <1>4, <2>2, <2>3, HandlingBacks
<1> QED BY <1>5, <1>6, <1>7

LEMMA StartsBack ==
    ASSUME NotifyInv, DNSInv, Check \/ CheckLimits \/ Done
    PROVE  DNSInv'
<1>1. pass.at \in {"idle", "done"} /\ Looking /\ UNCHANGED <<rows, unsure, readings>>
  BY DEF Check, CheckLimits, Done, Starts, Running, Looking, Writing, tables, past
<1>2. pass'.at \notin Writing
  <2>1. CASE pass' = pass
    BY <1>1, <2>1 DEF Looking
  <2>2. CASE pass' # pass
    <3>1. \/ \E names, todo : pass' = [NoPass EXCEPT !.at = "dns", !.names = names, !.todo = todo]
          \/ \E todo : pass' = [NoPass EXCEPT !.at = "limits", !.todo = todo]
          \/ pass' = NoPass
      BY <2>2 DEF Check, CheckLimits, Done
    <3>2. ASSUME NEW at, NEW names, NEW todo,
                 \/ pass' = [NoPass EXCEPT !.at = at, !.names = names, !.todo = todo]
                 \/ pass' = [NoPass EXCEPT !.at = at, !.todo = todo]
          PROVE  pass'.at = at
      BY <3>2 DEF NoPass
    <3>3. pass'.at \in {"dns", "limits"} \/ pass' = NoPass
      BY <3>1, <3>2
    <3> QED BY <3>3, IdleIs DEF Writing
  <2> QED BY <2>1, <2>2
<1> QED BY <1>1, <1>2, LooksElsewhere

LEMMA TickBacks ==
    ASSUME NoticeConsts, NotifyInv, DNSInv, Tick
    PROVE  DNSInv'
<1>1. pass.at = "idle" /\ pass' = pass /\ pass.at \notin Writing /\ unsure' = unsure
  BY DEF Tick, Running, Writing
<1>2. rows' = [k \in Keys |-> IF rows[k] = NoRow THEN NoRow ELSE Aged(k, rows[k])]
  BY DEF Tick, Aged
<1>3. readings' = [d \in Domains |->
                     [readings[d] EXCEPT !.age = IF readings[d].n = 0 THEN 0 ELSE AtMost(readings[d].age + 1, DNSApart)]]
  BY DEF Tick
<1>4. readings \in [Domains -> ReadingType]
  BY DEF DNSInv, ReadingsTyped
<1>5. ASSUME NEW d \in Domains
      PROVE  /\ readings[d] \in ReadingType
             /\ readings'[d] = [readings[d] EXCEPT !.age = IF readings[d].n = 0 THEN 0 ELSE AtMost(@ + 1, DNSApart)]
  BY <1>3, <1>4
<1>6. ASSUME NEW d \in Domains PROVE readings'[d] \in ReadingType
  <2>1. PICK g \in ReadingType : g = readings[d]
    BY <1>5
  <2> DEFINE a == IF g.n = 0 THEN 0 ELSE AtMost(g.age + 1, DNSApart)
  <2>2. a \in Nat
    <3>1. g.age + 1 \in Nat /\ DNSApart \in Nat
      BY DEF ReadingType, NoticeConsts, NotifierConstants
    <3> QED BY <3>1, LeastOfTwo
  <2>3. readings'[d] = [g EXCEPT !.age = a]
    BY <1>5, <2>1
  <2> HIDE DEF a
  <2>4. [g EXCEPT !.age = a] \in ReadingType
    BY <2>2 DEF ReadingType
  <2> QED BY <2>3, <2>4
<1>7. ReadingsTyped'
  BY <1>3, <1>6 DEF ReadingsTyped
<1>8. ASSUME NEW k \in Keys, k[1] = "dns", k \notin unsure PROVE Backed(readings'[k[2]], rows'[k])
  <2>1. k[2] \in Domains
    BY <1>8, KeyParts
  <2>2. Backed(readings[k[2]], rows[k])
    BY <1>1, <1>8 DEF DNSInv, DNSAtRest, InHand
  <2>3. CASE rows[k] = NoRow
    BY <1>2, <2>3 DEF Backed
  <2>4. CASE rows[k] # NoRow
    <3>1. rows[k] \in RowType
      BY <2>4 DEF NotifyInv, NotifyTyped, RowsTyped, RowOk
    <3>2. rows'[k] = Aged(k, rows[k])
      BY <1>2, <2>4
    <3>3. Backed(readings'[k[2]], Aged(k, rows[k]))
      BY <1>5, <1>8, <2>1, <2>2, <3>1, AgedBacked
    <3> QED BY <3>2, <3>3
  <2> QED BY <2>3, <2>4
<1>9. DNSAtRest'
  BY <1>1, <1>8 DEF DNSAtRest
<1>10. DNSInHand'
  BY <1>1 DEF DNSInHand
<1> QED BY <1>7, <1>9, <1>10 DEF DNSInv

LEMMA DNSStutters ==
    ASSUME DNSInv, UNCHANGED <<rows, pass, readings, unsure>>
    PROVE  DNSInv'
BY DEF DNSInv, ReadingsTyped, DNSInHand, DNSPlan, DNSHand, DNSAtRest, InHand

LEMMA WorldBacks ==
    ASSUME NotifyInv, DNSInv, World
    PROVE  DNSInv'
<1>1. UNCHANGED <<rows, pass, readings, unsure>>
  BY WorldMoves DEF tables, past
<1> QED BY <1>1, DNSStutters

LEMMA CrashBacks ==
    ASSUME NotifyInv, DNSInv, Crash
    PROVE  DNSInv'
<1>1. UNCHANGED <<rows, readings>> /\ pass'.at \notin Writing
  BY IdleIs DEF Crash, tables
<1>2. unsure \subseteq unsure' /\ \A k \in Keys : k \notin unsure' => ~ InHand(k)
  BY DEF Crash, InHand
<1>3. DNSAtRest'
  BY <1>1, <1>2 DEF DNSInv, DNSAtRest, Backed, CountedBy
<1>4. ReadingsTyped' /\ DNSInHand'
  BY <1>1 DEF DNSInv, ReadingsTyped, DNSInHand
<1> QED BY <1>3, <1>4 DEF DNSInv

LEMMA DNSInvStep ==
    ASSUME NoticeConsts, NotifyInv, DNSInv, [NoticeNext]_noticeVars
    PROVE  DNSInv'
<1>1. CASE Check \/ CheckLimits \/ Done
  BY <1>1, StartsBack
<1>2. CASE CheckDomain \/ ForgetDomains
  BY <1>2, CheckDomainBacks, ForgetDomainsBacks
<1>3. CASE CheckCertificate \/ CheckQueue \/ CheckLimit \/ ForgetLimits
  BY <1>3, ElsewhereBacks
<1>4. CASE SaveFirst \/ Deliver \/ Delivered \/ Record \/ Save
  BY <1>4, SaveFirstBacks, DeliverBacks, DeliveredBacks, RecordBacks, SaveBacks
<1>5. CASE Tick \/ World \/ Crash
  BY <1>5, TickBacks, WorldBacks, CrashBacks
<1>6. CASE UNCHANGED noticeVars
  BY <1>6, DNSStutters DEF noticeVars, tables, past
<1> QED BY <1>1, <1>2, <1>3, <1>4, <1>5, <1>6 DEF NoticeNext, Pass

LEMMA DNSInit ==
    ASSUME NoticeConsts, NoticeInit
    PROVE  DNSInv
<1> DEFINE no == FALSE
           n == 0
           age == 0
<1>1. no \in BOOLEAN /\ n \in 0..2 /\ age \in Nat
  OBVIOUS
<1>2. readings = [d \in Domains |-> [bad |-> no, n |-> n, age |-> age]]
  BY DEF NoticeInit
<1> HIDE DEF no, n, age
<1>3. ReadingsTyped
  BY <1>1, <1>2 DEF ReadingsTyped, ReadingType
<1>4. pass.at \notin Writing /\ \A k \in Keys : rows[k] = NoRow
  BY IdleIs DEF NoticeInit
<1> QED BY <1>3, <1>4 DEF DNSInv, DNSInHand, DNSAtRest, Backed

LEMMA HandedWhenAgreed ==
    ASSUME NoticeConsts, NotifyInv, DNSInv, [NoticeNext]_noticeVars,
           pass.at = "send", pass.key[1] = "dns", pass'.handed # pass.handed
    PROVE  \/ pass.key \in unsure \/ pass.kind = "follow"
           \/ LET r == readings[pass.key[2]] IN
              r.bad = (pass.kind = "open") /\ r.n >= DNSChecks /\ r.age >= DNSApart
<1> SUFFICES ASSUME pass.key \notin unsure, pass.kind # "follow"
             PROVE  LET r == readings[pass.key[2]] IN
                    r.bad = (pass.kind = "open") /\ r.n >= DNSChecks /\ r.age >= DNSApart
  OBVIOUS
<1>1. /\ pass \in PassType /\ PlanOk(pass.key) /\ DNSHand(readings[pass.key[2]], pass.key)
  BY HandlingHasDNS DEF Writing
<1>2. pass.kind # "none"
  <2> SUFFICES ASSUME pass.kind = "none" PROVE FALSE
    OBVIOUS
  <2>1. pass.to = {} /\ pass.handed = {}
    BY <1>1 DEF PlanOk
  <2>2. \E u : u \in pass'.handed
    BY <2>1
  <2>3. Deliver
    BY <2>1, <2>2, OnlyDeliverHands DEF Handed
  <2> QED BY <2>1, <2>3 DEF Deliver
<1>3. CASE pass.kind = "open"
  <2>1. Agreed(readings[pass.key[2]], TRUE)
    BY <1>1, <1>3 DEF DNSHand
  <2> QED BY <1>3, <2>1 DEF Agreed
<1>4. CASE pass.kind = "closed"
  <2>1. Agreed(readings[pass.key[2]], FALSE)
    BY <1>1, <1>4 DEF DNSHand
  <2> QED BY <1>4, <2>1 DEF Agreed
<1> QED BY <1>1, <1>2, <1>3, <1>4, PassParts DEF MessageKinds

\* A domain's records are called wrong, or right again, on checks that agreed
\* at least DNSApart apart with none between them that did not - whatever was
\* read in between from a table that restarts, switches and domains deleted and
\* added again leave as it is (dnsStep, open, closed).
THEOREM WrongOnlyWhenChecksAgree == NoticeSpec => NotOnOneReading
<1>c. NoticeConsts
  BY NotifierConstants, NotifierValues DEF NoticeConsts
<1>1. NoticeInit => NotifyInv /\ DNSInv
  BY <1>c, NotifyInit, DNSInit
<1>2. NotifyInv /\ DNSInv /\ [NoticeNext]_noticeVars => (NotifyInv /\ DNSInv)'
  BY <1>c, NotifyStep, NotifyStutters, DNSInvStep
<1>3. NotifyInv /\ DNSInv /\ [NoticeNext]_noticeVars =>
        [pass.at = "send" /\ pass.key[1] = "dns" /\ pass'.handed # pass.handed =>
         \/ pass.key \in unsure \/ pass.kind = "follow"
         \/ LET r == readings[pass.key[2]] IN
            r.bad = (pass.kind = "open") /\ r.n >= DNSChecks /\ r.age >= DNSApart]_noticeVars
  BY <1>c, HandedWhenAgreed
<1> QED BY <1>1, <1>2, <1>3, PTL DEF NoticeSpec, NotOnOneReading

=============================================================================
