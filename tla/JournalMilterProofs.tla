------------------------ MODULE JournalMilterProofs ------------------------
(***************************************************************************)
(* Proofs about JournalMilter, for any number of sessions, messages,       *)
(* logins, domains and addresses, any ceilings, window and TTL, and with   *)
(* or without store errors; and about DeliveryLog, for any queue ids and   *)
(* recipients, any number of rows, lines and stops, and with or without    *)
(* its switches.                                                           *)
(***************************************************************************)
EXTENDS JournalMilter, DeliveryLog, FiniteSetTheorems, SequenceTheorems, TLAPS

Under == {"open", "record", "release"}    \* a message is under way
Checking == {"applimit", "domlimit", "count", "admit"}

\* A session that is not about a message holds nothing.
IdleHoldsNothing ==
    \A s \in Session : pc[s] \in {"down", "idle"} =>
        cur[s] = 0 /\ slots[s] = {} /\ key[s] = NoKey

\* A session that checks or receives a message has its number, and it has
\* chosen a key when it counts and none before.
BusyHasMessage ==
    \A s \in Session :
        /\ pc[s] \notin {"down", "idle"} => cur[s] \in 1 .. serial
        /\ pc[s] \in {"applimit", "domlimit"} => key[s] = NoKey
        /\ pc[s] \in {"count", "admit"} => key[s] \in Key

\* No two sessions are about the same message.
OwnMessage ==
    \A s, t \in Session : s # t /\ cur[s] # 0 => cur[s] # cur[t]

\* A session holds at most the slot of its own message, and none while that
\* message is being checked.
OwnSlot ==
    \A s \in Session :
        /\ slots[s] \subseteq {cur[s]}
        /\ pc[s] \in Checking => slots[s] = {}

\* The message of a live session is no message of a broken connection.
LeakedIsGone ==
    /\ leaked \subseteq 1 .. serial
    /\ \A s \in Session : cur[s] \notin leaked

\* A message under way that had a limit holds its slot, and the slot is in the
\* registry until it expires.
SlotHeld ==
    \A s \in Session :
        /\ pc[s] \in Under /\ key[s] # NoKey /\ ~failed[s] => slots[s] = {cur[s]}
        /\ \A m \in slots[s] : res[m].key = key[s] /\ (m \in flight \/ res[m].at < now - TTL)

\* Rows with a queue id are those of accepted messages.
RowsNumbered == \A r \in log : r.status = "queued" <=> r.msg # 0

\* What CountMessages answered is what is recorded, or less when stale.
CountHolds ==
    \A s \in Session : pc[s] = "admit" =>
        /\ stored[s] <= Cardinality(Recorded(key[s], since[s]))
        /\ ~stale[s] => stored[s] = Cardinality(Recorded(key[s], since[s]))

\* A message that is checked or under way passed the address list, and the
\* address a session knows is the client's.
ClientChecked ==
    \A s \in Session :
        /\ ip[s] \in {peer[s], NoIP}
        /\ pc[s] \in Checking \cup Under /\ ~failed[s] => AuthIPAllowed(login[s], peer[s])

IInv ==
    /\ TypeOK
    /\ IdleHoldsNothing
    /\ BusyHasMessage
    /\ OwnMessage
    /\ OwnSlot
    /\ LeakedIsGone
    /\ SlotHeld
    /\ RowsNumbered
    /\ CountHolds
    /\ NoOrphanReservation
    /\ ClientChecked

-----------------------------------------------------------------------------

LEMMA CountIsNat ==
    ASSUME SharedTypeOK, NEW k, NEW t
    PROVE  Cardinality(StoredSince(k, t)) \in Nat
<1>1. StoredSince(k, t) \in SUBSET (0 .. MaxMsgs)
  BY DEF SharedTypeOK, StoredSince, Row
<1>2. IsFiniteSet(0 .. MaxMsgs)
  BY FS_Interval, BoundAssumption
<1> QED
  BY <1>1, <1>2, FS_Subset, FS_CardinalityType

LEMMA CeilingsNat == \A c \in Ceilings \cup {0} : c \in Nat
<1>1. \A c \in Ceilings : c \in Nat
  BY LimitAssumption, Zenon
<1> QED
  BY <1>1

LEMMA CeilingIsNat ==
    ASSUME SharedTypeOK, NEW k
    PROVE  /\ Ceiling(k) \in Nat
           /\ Ceiling(k) > 0 => k \in Key
<1>1. CASE k \in Domain \/ LoginDomain(k) # NoDomain
  <2>1. k \in Key
    BY <1>1 DEF LoginDomain, Key
  <2>2. limit[k] \in Nat
    <3>1. limit[k] \in Ceilings \cup {0}
      BY <2>1 DEF SharedTypeOK
    <3> QED
      BY <3>1, CeilingsNat
  <2> QED
    BY <1>1, <2>1, <2>2 DEF Ceiling
<1>2. CASE ~(k \in Domain \/ LoginDomain(k) # NoDomain)
  BY <1>2 DEF Ceiling
<1> QED
  BY <1>1, <1>2

LEMMA TempFailType ==
    ASSUME TypeOK, NEW s \in Session, NEW l \in Login \cup {NoLogin}, TempFail(s, l),
           flight' \subseteq Msg, serial' \in 0 .. MaxMsgs
    PROVE  TypeOK'
<1> USE BoundAssumption DEF TypeOK, TempFail
<1>1. log' \subseteq Row
  <2>1. [msg |-> 0, login |-> l, rcpt |-> NoRcpt, at |-> now, status |-> "rejected"] \in Row
    BY DEF SharedTypeOK, Row, Time
  <2> QED
    BY <2>1 DEF SharedTypeOK, RecordRejected
<1>2. SharedTypeOK'
  BY <1>1 DEF SharedTypeOK
<1>3. MessageTypeOK'
  BY DEF MessageTypeOK, NewMilter, Goto, Steps
<1>4. LimitTypeOK' /\ ObservedTypeOK'
  BY DEF LimitTypeOK, ObservedTypeOK, NewMilter, DropLocals
<1> QED
  BY <1>2, <1>3, <1>4

LEMMA ProceedType ==
    ASSUME TypeOK, NEW s \in Session, NEW step \in Steps, step # "record", Proceed(s, step)
    PROVE  SharedTypeOK' /\ MessageTypeOK'
  BY DEF TypeOK, SharedTypeOK, MessageTypeOK, Proceed, Goto, Steps, shared

LEMMA DropLocalsType ==
    ASSUME TypeOK, NEW s \in Session, DropLocals(s)
    PROVE  /\ max' \in [Session -> Nat] /\ since' \in [Session -> Int]
           /\ stored' \in [Session -> Nat] /\ stale' \in [Session -> BOOLEAN]
  BY DEF TypeOK, LimitTypeOK, ObservedTypeOK, DropLocals

LEMMA EnforceType ==
    ASSUME TypeOK, NEW s \in Session, NEW k, Ceiling(k) > 0, Enforce(s, k)
    PROVE  LimitTypeOK'
  BY CeilingIsNat DEF TypeOK, LimitTypeOK, Enforce

LEMMA TypeStep == TypeOK /\ BusyHasMessage /\ [Next]_vars => TypeOK'
<1> SUFFICES ASSUME TypeOK, BusyHasMessage, [Next]_vars PROVE TypeOK'
  OBVIOUS
<1> USE BoundAssumption, LimitAssumption DEF TypeOK
<1>1. ASSUME NEW s \in Session, Connect(s) PROVE TypeOK'
  <2>1. SharedTypeOK'
    BY <1>1 DEF SharedTypeOK, MessageTypeOK, BusyHasMessage, Row, Msg, Time, Connect, Goto, KeepLocals, shared
  <2>2. MessageTypeOK'
    BY <1>1 DEF MessageTypeOK, SharedTypeOK, BusyHasMessage, Steps, Msg, Connect, Goto, KeepLocals, shared
  <2>3. LimitTypeOK'
    BY <1>1 DEF LimitTypeOK, SharedTypeOK, Key, LoginDomain, BusyHasMessage, Connect, Goto, KeepLocals, shared
  <2>4. ObservedTypeOK'
    BY <1>1 DEF ObservedTypeOK, MessageTypeOK, Connect, Goto, KeepLocals, shared
  <2> QED
    BY <2>1, <2>2, <2>3, <2>4
<1>2. ASSUME NEW s \in Session, MailFrom(s) PROVE TypeOK'
  <2> PICK l \in Login \cup {NoLogin}, a \in {ip[s], peer[s]} : ClientPasses(s, l, a) \/ TempFail(s, l)
    BY <1>2 DEF MailFrom
  <2>1. flight' \subseteq Msg /\ serial' \in 0 .. MaxMsgs
    BY <1>2 DEF MailFrom, Released, SharedTypeOK
  <2>2. CASE TempFail(s, l)
    BY <2>1, <2>2, TempFailType
  <2>3. CASE ClientPasses(s, l, a)
    <3>1. SharedTypeOK'
      BY <2>1, <2>3 DEF ClientPasses, SharedTypeOK
    <3>2. MessageTypeOK'
      BY <1>2, <2>3 DEF MailFrom, ClientPasses, SharedTypeOK, MessageTypeOK, ObservedTypeOK, Goto, Steps
    <3>3. LimitTypeOK' /\ ObservedTypeOK'
      BY <2>3 DEF ClientPasses, LimitTypeOK, ObservedTypeOK, KeepLocals, StoreFails
    <3> QED
      BY <3>1, <3>2, <3>3
  <2> QED
    BY <2>2, <2>3
<1>3. ASSUME NEW s \in Session, AppLimit(s) PROVE TypeOK'
  <2>1. PICK step \in {"open", "count", "domlimit"} : Proceed(s, step)
    BY <1>3 DEF AppLimit, PassUnlimited, Enforce
  <2>2. SharedTypeOK' /\ MessageTypeOK'
    BY <2>1, ProceedType DEF Steps
  <2>3. LimitTypeOK'
    BY <1>3, EnforceType, DropLocalsType DEF AppLimit, LimitTypeOK, KeepLocals, PassUnlimited
  <2>4. ObservedTypeOK'
    BY <1>3, <2>1, DropLocalsType
       DEF AppLimit, ObservedTypeOK, KeepLocals, PassUnlimited, Enforce, Proceed, StoreAnswers, StoreFails
  <2> QED
    BY <2>2, <2>3, <2>4
<1>4. ASSUME NEW s \in Session, DomainLimit(s) PROVE TypeOK'
  <2>1. PICK step \in {"open", "count"} : Proceed(s, step)
    BY <1>4 DEF DomainLimit, PassUnlimited, Enforce
  <2>2. SharedTypeOK' /\ MessageTypeOK'
    BY <2>1, ProceedType DEF Steps
  <2>3. LimitTypeOK'
    BY <1>4, EnforceType, DropLocalsType DEF DomainLimit, LimitTypeOK, PassUnlimited
  <2>4. ObservedTypeOK'
    BY <1>4, <2>1, DropLocalsType
       DEF DomainLimit, ObservedTypeOK, PassUnlimited, Enforce, Proceed, StoreAnswers, StoreFails
  <2> QED
    BY <2>2, <2>3, <2>4
<1>5. ASSUME NEW s \in Session, CountMessages(s) PROVE TypeOK'
  <2>1. PICK step \in {"open", "admit"} : Proceed(s, step)
    BY <1>5 DEF CountMessages, PassUnlimited
  <2>2. SharedTypeOK' /\ MessageTypeOK'
    BY <2>1, ProceedType DEF Steps
  <2>3. now - Window \in Int /\ Cardinality(StoredSince(key[s], now - Window)) \in Nat
    BY CountIsNat DEF SharedTypeOK, Time
  <2>4. LimitTypeOK' /\ stale' \in [Session -> BOOLEAN]
    <3>1. CASE DropLocals(s) /\ UNCHANGED key
      BY <3>1, DropLocalsType DEF LimitTypeOK
    <3>2. CASE /\ since' = [since EXCEPT ![s] = now - Window]
               /\ stored' = [stored EXCEPT ![s] = Cardinality(StoredSince(key[s], now - Window))]
               /\ stale' = [stale EXCEPT ![s] = FALSE]
               /\ UNCHANGED <<key, max>>
      BY <2>3, <3>2 DEF LimitTypeOK, ObservedTypeOK
    <3> QED
      BY <1>5, <3>1, <3>2 DEF CountMessages, PassUnlimited
  <2>5. ObservedTypeOK'
    BY <1>5, <2>1, <2>4 DEF CountMessages, ObservedTypeOK, Proceed, StoreAnswers, StoreFails
  <2> QED
    BY <2>2, <2>4, <2>5
<1>6. ASSUME NEW s \in Session, TryAdmit(s) PROVE TypeOK'
  <2>1. /\ cur[s] \in Msg /\ key[s] \in Key
        /\ Pruned(key[s]) \subseteq Msg
    <3>1. cur[s] \in 1 .. serial /\ key[s] \in Key /\ serial \in 0 .. MaxMsgs
      BY <1>6 DEF TryAdmit, BusyHasMessage, SharedTypeOK
    <3>2. cur[s] \in Msg
      BY <3>1 DEF Msg
    <3> QED
      BY <3>1, <3>2 DEF SharedTypeOK, Pruned
  <2>2. CASE Refuse(s)
    BY <2>1, <2>2, TempFailType DEF Refuse, SharedTypeOK, MessageTypeOK
  <2>3. CASE Admit(s)
    <3>1. SharedTypeOK'
      BY <2>1, <2>3 DEF Admit, SharedTypeOK, Reservation
    <3>2. MessageTypeOK'
      BY <2>1, <2>3 DEF Admit, MessageTypeOK, Goto, Steps
    <3>3. LimitTypeOK' /\ ObservedTypeOK'
      BY <2>3, DropLocalsType DEF Admit, LimitTypeOK, ObservedTypeOK
    <3> QED
      BY <3>1, <3>2, <3>3
  <2> QED
    BY <1>6, <2>2, <2>3 DEF TryAdmit
<1>7. ASSUME NEW s \in Session, RcptTo(s) PROVE TypeOK'
  <2>1. SharedTypeOK'
    BY <1>7 DEF SharedTypeOK, MessageTypeOK, BusyHasMessage, Row, Msg, Time, RcptTo, KeepLocals, shared
  <2>2. MessageTypeOK'
    BY <1>7 DEF MessageTypeOK, SharedTypeOK, BusyHasMessage, Steps, Msg, RcptTo, KeepLocals, shared
  <2>3. LimitTypeOK'
    BY <1>7 DEF LimitTypeOK, SharedTypeOK, Key, LoginDomain, BusyHasMessage, RcptTo, KeepLocals, shared
  <2>4. ObservedTypeOK'
    BY <1>7 DEF ObservedTypeOK, MessageTypeOK, RcptTo, KeepLocals, shared
  <2> QED
    BY <2>1, <2>2, <2>3, <2>4
<1>8. ASSUME NEW s \in Session, Body(s) PROVE TypeOK'
  <2>1. SharedTypeOK'
    BY <1>8 DEF SharedTypeOK, MessageTypeOK, BusyHasMessage, Row, Msg, Time, Body, RowsToWrite, Goto, KeepLocals, shared
  <2>2. MessageTypeOK'
    BY <1>8 DEF MessageTypeOK, SharedTypeOK, BusyHasMessage, Steps, Msg, Body, RowsToWrite, Goto, KeepLocals, shared
  <2>3. LimitTypeOK'
    BY <1>8 DEF LimitTypeOK, SharedTypeOK, Key, LoginDomain, BusyHasMessage, Body, RowsToWrite, Goto, KeepLocals, shared
  <2>4. ObservedTypeOK'
    BY <1>8 DEF ObservedTypeOK, MessageTypeOK, Body, RowsToWrite, Goto, KeepLocals, shared
  <2> QED
    BY <2>1, <2>2, <2>3, <2>4
<1>9. ASSUME NEW s \in Session, Record(s) PROVE TypeOK'
  <2> PICK r \in todo[s] : Record(s)!2!(r)
    BY <1>9 DEF Record
  <2> DEFINE row == [msg |-> cur[s], login |-> login[s], rcpt |-> r, at |-> now, status |-> "queued"]
  <2>1. row \in Row
    BY DEF SharedTypeOK, MessageTypeOK, Row
  <2>2. SharedTypeOK'
    BY <1>9, <2>1 DEF SharedTypeOK, Record
  <2>3. MessageTypeOK'
    BY <1>9 DEF MessageTypeOK, Record, Goto, Steps
  <2>4. LimitTypeOK' /\ ObservedTypeOK'
    BY <1>9 DEF LimitTypeOK, ObservedTypeOK, Record
  <2> QED
    BY <2>2, <2>3, <2>4
<1>10. ASSUME NEW s \in Session, Release(s) PROVE TypeOK'
  <2>1. SharedTypeOK'
    BY <1>10 DEF SharedTypeOK, MessageTypeOK, BusyHasMessage, Row, Msg, Time, Release, EndTransaction, Released, Goto, KeepLocals
  <2>2. MessageTypeOK'
    BY <1>10 DEF MessageTypeOK, SharedTypeOK, BusyHasMessage, Steps, Msg, Release, EndTransaction, Released, Goto, KeepLocals
  <2>3. LimitTypeOK'
    BY <1>10 DEF LimitTypeOK, SharedTypeOK, Key, LoginDomain, BusyHasMessage, Release, EndTransaction, Released, Goto, KeepLocals
  <2>4. ObservedTypeOK'
    BY <1>10 DEF ObservedTypeOK, MessageTypeOK, Release, EndTransaction, Released, Goto, KeepLocals
  <2> QED
    BY <2>1, <2>2, <2>3, <2>4
<1>11. ASSUME NEW s \in Session, Abort(s) PROVE TypeOK'
  <2>1. SharedTypeOK'
    BY <1>11 DEF SharedTypeOK, MessageTypeOK, BusyHasMessage, Row, Msg, Time, Abort, EndTransaction, Released, Goto, KeepLocals
  <2>2. MessageTypeOK'
    BY <1>11 DEF MessageTypeOK, SharedTypeOK, BusyHasMessage, Steps, Msg, Abort, EndTransaction, Released, Goto, KeepLocals
  <2>3. LimitTypeOK'
    BY <1>11 DEF LimitTypeOK, SharedTypeOK, Key, LoginDomain, BusyHasMessage, Abort, EndTransaction, Released, Goto, KeepLocals
  <2>4. ObservedTypeOK'
    BY <1>11 DEF ObservedTypeOK, MessageTypeOK, Abort, EndTransaction, Released, Goto, KeepLocals
  <2> QED
    BY <2>1, <2>2, <2>3, <2>4
<1>12. ASSUME NEW s \in Session, Disconnect(s) PROVE TypeOK'
  <2>1. SharedTypeOK'
    BY <1>12 DEF SharedTypeOK, MessageTypeOK, BusyHasMessage, Row, Msg, Time, Disconnect, NewMilter, Goto, KeepLocals, shared
  <2>2. MessageTypeOK'
    BY <1>12 DEF MessageTypeOK, SharedTypeOK, BusyHasMessage, Steps, Msg, Disconnect, NewMilter, Goto, KeepLocals, shared
  <2>3. LimitTypeOK'
    BY <1>12 DEF LimitTypeOK, SharedTypeOK, Key, LoginDomain, BusyHasMessage, Disconnect, NewMilter, Goto, KeepLocals, shared
  <2>4. ObservedTypeOK'
    BY <1>12 DEF ObservedTypeOK, MessageTypeOK, Disconnect, NewMilter, Goto, KeepLocals, shared
  <2> QED
    BY <2>1, <2>2, <2>3, <2>4
<1>13. ASSUME NEW k \in Key, SetRateLimit(k) PROVE TypeOK'
  BY <1>13 DEF SharedTypeOK, MessageTypeOK, LimitTypeOK, ObservedTypeOK, SetRateLimit, sessionVars, observed
<1>14. CASE Crash
  BY <1>14 DEF SharedTypeOK, MessageTypeOK, LimitTypeOK, ObservedTypeOK, Crash, Steps
<1>15. CASE Tick
  BY <1>15 DEF SharedTypeOK, MessageTypeOK, LimitTypeOK, ObservedTypeOK, Tick, Time, sessionVars, observed
<1>16. CASE UNCHANGED vars
  BY <1>16 DEF SharedTypeOK, MessageTypeOK, LimitTypeOK, ObservedTypeOK, vars, shared, sessionVars, observed
<1> QED
  BY <1>1, <1>2, <1>3, <1>4, <1>5, <1>6, <1>7, <1>8, <1>9, <1>10, <1>11, <1>12, <1>13, <1>14, <1>15, <1>16 DEF Next, Key

-----------------------------------------------------------------------------
(* Ownership of messages and slots: who is about which message.                  *)

Ownership ==
    /\ IdleHoldsNothing
    /\ BusyHasMessage
    /\ OwnMessage
    /\ OwnSlot
    /\ LeakedIsGone

LEMMA OwnershipStep == TypeOK /\ Ownership /\ [Next]_vars => Ownership'
<1> SUFFICES ASSUME TypeOK, Ownership, [Next]_vars PROVE Ownership'
  OBVIOUS
<1>0. /\ serial \in Nat
      /\ pc \in [Session -> Steps] /\ cur \in [Session -> Nat]
      /\ slots \in [Session -> SUBSET Msg] /\ key \in [Session -> Key \cup {NoKey}]
  BY BoundAssumption DEF TypeOK, SharedTypeOK, MessageTypeOK, LimitTypeOK
<1>k. \A k : Ceiling(k) > 0 => k \in Key
  BY CeilingIsNat DEF TypeOK
<1> USE <1>0 DEF Ownership
<1>1. ASSUME NEW s \in Session, Connect(s) PROVE Ownership'
  <2>1. IdleHoldsNothing'
    BY <1>1 DEF IdleHoldsNothing, Connect, Goto, shared
  <2>2. BusyHasMessage'
    BY <1>1 DEF IdleHoldsNothing, BusyHasMessage, Connect, Goto, shared
  <2>3. OwnMessage'
    BY <1>1 DEF IdleHoldsNothing, BusyHasMessage, OwnMessage, Connect, Goto, shared
  <2>4. OwnSlot'
    BY <1>1 DEF IdleHoldsNothing, BusyHasMessage, OwnMessage, OwnSlot, Checking, Connect, Goto, shared
  <2>5. LeakedIsGone'
    BY <1>1 DEF IdleHoldsNothing, BusyHasMessage, OwnMessage, OwnSlot, LeakedIsGone, Connect, Goto, shared
  <2> QED
    BY <2>1, <2>2, <2>3, <2>4, <2>5
<1>2. ASSUME NEW s \in Session, MailFrom(s) PROVE Ownership'
  <2>1. IdleHoldsNothing'
    BY <1>2 DEF IdleHoldsNothing, MailFrom, ClientPasses, Goto, TempFail, NewMilter
  <2>2. BusyHasMessage'
    BY <1>2 DEF IdleHoldsNothing, BusyHasMessage, MailFrom, ClientPasses, Goto, TempFail, NewMilter
  <2>3. OwnMessage'
    BY <1>2 DEF IdleHoldsNothing, BusyHasMessage, OwnMessage, MailFrom, ClientPasses, Goto, TempFail, NewMilter
  <2>4. OwnSlot'
    BY <1>2 DEF IdleHoldsNothing, BusyHasMessage, OwnMessage, OwnSlot, Checking, MailFrom, ClientPasses, Goto, TempFail, NewMilter
  <2>5. LeakedIsGone'
    BY <1>2 DEF IdleHoldsNothing, BusyHasMessage, OwnMessage, OwnSlot, LeakedIsGone, MailFrom, ClientPasses, Goto, TempFail, NewMilter
  <2> QED
    BY <2>1, <2>2, <2>3, <2>4, <2>5
<1>3. ASSUME NEW s \in Session, AppLimit(s) PROVE Ownership'
  <2>1. IdleHoldsNothing'
    BY <1>3 DEF IdleHoldsNothing, AppLimit, PassUnlimited, Enforce, Proceed, Goto, shared
  <2>2. BusyHasMessage'
    BY <1>3, <1>k DEF IdleHoldsNothing, BusyHasMessage, AppLimit, PassUnlimited, Enforce, Proceed, Goto, shared
  <2>3. OwnMessage'
    BY <1>3 DEF IdleHoldsNothing, BusyHasMessage, OwnMessage, AppLimit, PassUnlimited, Enforce, Proceed, Goto, shared
  <2>4. OwnSlot'
    BY <1>3 DEF IdleHoldsNothing, BusyHasMessage, OwnMessage, OwnSlot, Checking, AppLimit, PassUnlimited, Enforce, Proceed, Goto, shared
  <2>5. LeakedIsGone'
    BY <1>3 DEF IdleHoldsNothing, BusyHasMessage, OwnMessage, OwnSlot, LeakedIsGone, AppLimit, PassUnlimited, Enforce, Proceed, Goto, shared
  <2> QED
    BY <2>1, <2>2, <2>3, <2>4, <2>5
<1>4. ASSUME NEW s \in Session, DomainLimit(s) PROVE Ownership'
  <2>1. IdleHoldsNothing'
    BY <1>4 DEF IdleHoldsNothing, DomainLimit, PassUnlimited, Enforce, Proceed, Goto, shared
  <2>2. BusyHasMessage'
    BY <1>4, <1>k DEF IdleHoldsNothing, BusyHasMessage, DomainLimit, PassUnlimited, Enforce, Proceed, Goto, shared
  <2>3. OwnMessage'
    BY <1>4 DEF IdleHoldsNothing, BusyHasMessage, OwnMessage, DomainLimit, PassUnlimited, Enforce, Proceed, Goto, shared
  <2>4. OwnSlot'
    BY <1>4 DEF IdleHoldsNothing, BusyHasMessage, OwnMessage, OwnSlot, Checking, DomainLimit, PassUnlimited, Enforce, Proceed, Goto, shared
  <2>5. LeakedIsGone'
    BY <1>4 DEF IdleHoldsNothing, BusyHasMessage, OwnMessage, OwnSlot, LeakedIsGone, DomainLimit, PassUnlimited, Enforce, Proceed, Goto, shared
  <2> QED
    BY <2>1, <2>2, <2>3, <2>4, <2>5
<1>5. ASSUME NEW s \in Session, CountMessages(s) PROVE Ownership'
  <2>1. IdleHoldsNothing'
    BY <1>5 DEF IdleHoldsNothing, CountMessages, PassUnlimited, Enforce, Proceed, Goto, shared
  <2>2. BusyHasMessage'
    BY <1>5 DEF IdleHoldsNothing, BusyHasMessage, CountMessages, PassUnlimited, Enforce, Proceed, Goto, shared
  <2>3. OwnMessage'
    BY <1>5 DEF IdleHoldsNothing, BusyHasMessage, OwnMessage, CountMessages, PassUnlimited, Enforce, Proceed, Goto, shared
  <2>4. OwnSlot'
    BY <1>5 DEF IdleHoldsNothing, BusyHasMessage, OwnMessage, OwnSlot, Checking, CountMessages, PassUnlimited, Enforce, Proceed, Goto, shared
  <2>5. LeakedIsGone'
    BY <1>5 DEF IdleHoldsNothing, BusyHasMessage, OwnMessage, OwnSlot, LeakedIsGone, CountMessages, PassUnlimited, Enforce, Proceed, Goto, shared
  <2> QED
    BY <2>1, <2>2, <2>3, <2>4, <2>5
<1>6. ASSUME NEW s \in Session, TryAdmit(s) PROVE Ownership'
  <2>1. IdleHoldsNothing'
    BY <1>6 DEF IdleHoldsNothing, TryAdmit, Admit, Refuse, Goto, TempFail, NewMilter
  <2>2. BusyHasMessage'
    BY <1>6 DEF IdleHoldsNothing, BusyHasMessage, TryAdmit, Admit, Refuse, Goto, TempFail, NewMilter
  <2>3. OwnMessage'
    BY <1>6 DEF IdleHoldsNothing, BusyHasMessage, OwnMessage, TryAdmit, Admit, Refuse, Goto, TempFail, NewMilter
  <2>4. OwnSlot'
    BY <1>6 DEF IdleHoldsNothing, BusyHasMessage, OwnMessage, OwnSlot, Checking, TryAdmit, Admit, Refuse, Goto, TempFail, NewMilter
  <2>5. LeakedIsGone'
    <3>1. UNCHANGED <<leaked, serial>> /\ \A t \in Session : cur'[t] \in {0, cur[t]}
      BY <1>6 DEF TryAdmit, Admit, Refuse, TempFail, NewMilter
    <3>2. 0 \notin leaked
      BY DEF LeakedIsGone
    <3> QED
      BY <3>1, <3>2 DEF LeakedIsGone
  <2> QED
    BY <2>1, <2>2, <2>3, <2>4, <2>5
<1>7. ASSUME NEW s \in Session, RcptTo(s) PROVE Ownership'
  <2>1. IdleHoldsNothing'
    BY <1>7 DEF IdleHoldsNothing, RcptTo, shared
  <2>2. BusyHasMessage'
    BY <1>7 DEF IdleHoldsNothing, BusyHasMessage, RcptTo, shared
  <2>3. OwnMessage'
    BY <1>7 DEF IdleHoldsNothing, BusyHasMessage, OwnMessage, RcptTo, shared
  <2>4. OwnSlot'
    BY <1>7 DEF IdleHoldsNothing, BusyHasMessage, OwnMessage, OwnSlot, Checking, RcptTo, shared
  <2>5. LeakedIsGone'
    BY <1>7 DEF IdleHoldsNothing, BusyHasMessage, OwnMessage, OwnSlot, LeakedIsGone, RcptTo, shared
  <2> QED
    BY <2>1, <2>2, <2>3, <2>4, <2>5
<1>8. ASSUME NEW s \in Session, Body(s) PROVE Ownership'
  <2>1. IdleHoldsNothing'
    BY <1>8 DEF IdleHoldsNothing, Body, Goto, shared
  <2>2. BusyHasMessage'
    BY <1>8 DEF IdleHoldsNothing, BusyHasMessage, Body, Goto, shared
  <2>3. OwnMessage'
    BY <1>8 DEF IdleHoldsNothing, BusyHasMessage, OwnMessage, Body, Goto, shared
  <2>4. OwnSlot'
    BY <1>8 DEF IdleHoldsNothing, BusyHasMessage, OwnMessage, OwnSlot, Checking, Body, Goto, shared
  <2>5. LeakedIsGone'
    BY <1>8 DEF IdleHoldsNothing, BusyHasMessage, OwnMessage, OwnSlot, LeakedIsGone, Body, Goto, shared
  <2> QED
    BY <2>1, <2>2, <2>3, <2>4, <2>5
<1>9. ASSUME NEW s \in Session, Record(s) PROVE Ownership'
  <2>1. IdleHoldsNothing'
    BY <1>9 DEF IdleHoldsNothing, Record, Goto
  <2>2. BusyHasMessage'
    BY <1>9 DEF IdleHoldsNothing, BusyHasMessage, Record, Goto
  <2>3. OwnMessage'
    BY <1>9 DEF IdleHoldsNothing, BusyHasMessage, OwnMessage, Record, Goto
  <2>4. OwnSlot'
    BY <1>9 DEF IdleHoldsNothing, BusyHasMessage, OwnMessage, OwnSlot, Checking, Record, Goto
  <2>5. LeakedIsGone'
    BY <1>9 DEF IdleHoldsNothing, BusyHasMessage, OwnMessage, OwnSlot, LeakedIsGone, Record, Goto
  <2> QED
    BY <2>1, <2>2, <2>3, <2>4, <2>5
<1>10. ASSUME NEW s \in Session, Release(s) PROVE Ownership'
  <2>1. IdleHoldsNothing'
    BY <1>10 DEF IdleHoldsNothing, Release, EndTransaction, Goto
  <2>2. BusyHasMessage'
    BY <1>10 DEF IdleHoldsNothing, BusyHasMessage, Release, EndTransaction, Goto
  <2>3. OwnMessage'
    BY <1>10 DEF IdleHoldsNothing, BusyHasMessage, OwnMessage, Release, EndTransaction, Goto
  <2>4. OwnSlot'
    BY <1>10 DEF IdleHoldsNothing, BusyHasMessage, OwnMessage, OwnSlot, Checking, Release, EndTransaction, Goto
  <2>5. LeakedIsGone'
    BY <1>10 DEF IdleHoldsNothing, BusyHasMessage, OwnMessage, OwnSlot, LeakedIsGone, Release, EndTransaction, Goto
  <2> QED
    BY <2>1, <2>2, <2>3, <2>4, <2>5
<1>11. ASSUME NEW s \in Session, Abort(s) PROVE Ownership'
  <2>1. IdleHoldsNothing'
    BY <1>11 DEF IdleHoldsNothing, Abort, EndTransaction, Goto
  <2>2. BusyHasMessage'
    BY <1>11 DEF IdleHoldsNothing, BusyHasMessage, Abort, EndTransaction, Goto
  <2>3. OwnMessage'
    BY <1>11 DEF IdleHoldsNothing, BusyHasMessage, OwnMessage, Abort, EndTransaction, Goto
  <2>4. OwnSlot'
    BY <1>11 DEF IdleHoldsNothing, BusyHasMessage, OwnMessage, OwnSlot, Checking, Abort, EndTransaction, Goto
  <2>5. LeakedIsGone'
    BY <1>11 DEF IdleHoldsNothing, BusyHasMessage, OwnMessage, OwnSlot, LeakedIsGone, Abort, EndTransaction, Goto
  <2> QED
    BY <2>1, <2>2, <2>3, <2>4, <2>5
<1>12. ASSUME NEW s \in Session, Disconnect(s) PROVE Ownership'
  <2>1. IdleHoldsNothing'
    BY <1>12 DEF IdleHoldsNothing, Disconnect, NewMilter, Goto, shared
  <2>2. BusyHasMessage'
    BY <1>12 DEF IdleHoldsNothing, BusyHasMessage, Disconnect, NewMilter, Goto, shared
  <2>3. OwnMessage'
    BY <1>12 DEF IdleHoldsNothing, BusyHasMessage, OwnMessage, Disconnect, NewMilter, Goto, shared
  <2>4. OwnSlot'
    BY <1>12 DEF IdleHoldsNothing, BusyHasMessage, OwnMessage, OwnSlot, Checking, Disconnect, NewMilter, Goto, shared
  <2>5. LeakedIsGone'
    <3>1. slots[s] \subseteq {cur[s]} \cap 1 .. serial
      BY <1>12 DEF Disconnect, IdleHoldsNothing, BusyHasMessage, OwnSlot
    <3>2. /\ leaked' = leaked \cup slots[s] /\ UNCHANGED serial
          /\ cur' = [cur EXCEPT ![s] = 0]
      BY <1>12 DEF Disconnect, NewMilter, shared
    <3>3. leaked' \subseteq 1 .. serial'
      BY <3>1, <3>2 DEF LeakedIsGone
    <3>4. ASSUME NEW t \in Session PROVE cur'[t] \notin leaked'
      <4>1. CASE t = s
        BY <3>2, <3>3, <4>1
      <4>2. CASE t # s
        BY <3>1, <3>2, <4>2 DEF LeakedIsGone, OwnMessage
      <4> QED
        BY <4>1, <4>2
    <3> QED
      BY <3>3, <3>4 DEF LeakedIsGone
  <2> QED
    BY <2>1, <2>2, <2>3, <2>4, <2>5
<1>13. ASSUME NEW k \in Key, SetRateLimit(k) PROVE Ownership'
  BY <1>13 DEF IdleHoldsNothing, BusyHasMessage, OwnMessage, OwnSlot, LeakedIsGone, SetRateLimit, sessionVars, observed
<1>14. CASE Crash
  BY <1>14 DEF IdleHoldsNothing, BusyHasMessage, OwnMessage, OwnSlot, LeakedIsGone, Crash, Checking
<1>15. CASE Tick
  BY <1>15 DEF IdleHoldsNothing, BusyHasMessage, OwnMessage, OwnSlot, LeakedIsGone, Tick, sessionVars, observed
<1>16. CASE UNCHANGED vars
  BY <1>16 DEF IdleHoldsNothing, BusyHasMessage, OwnMessage, OwnSlot, LeakedIsGone, vars, shared, sessionVars, observed
<1> QED
  BY <1>1, <1>2, <1>3, <1>4, <1>5, <1>6, <1>7, <1>8, <1>9, <1>10, <1>11, <1>12, <1>13, <1>14, <1>15, <1>16, LimitAssumption DEF Next, Key

-----------------------------------------------------------------------------
(* The registry: slots under way are counted, and no slot is lost.         *)

LEMMA HoldingStep == TypeOK /\ Ownership /\ SlotHeld /\ NoOrphanReservation /\ [Next]_vars => (SlotHeld /\ NoOrphanReservation)'
<1> SUFFICES ASSUME TypeOK, Ownership, SlotHeld, NoOrphanReservation, [Next]_vars PROVE (SlotHeld /\ NoOrphanReservation)'
  OBVIOUS
<1>0. /\ pc \in [Session -> Steps] /\ cur \in [Session -> Nat]
      /\ slots \in [Session -> SUBSET Msg] /\ key \in [Session -> Key \cup {NoKey}]
      /\ failed \in [Session -> BOOLEAN]
      /\ res \in [Msg -> [key : Key \cup {NoKey}, at : Time]] /\ now \in Nat /\ TTL \in Nat
      /\ serial \in Nat /\ Time \subseteq Nat
  BY BoundAssumption, LimitAssumption
     DEF TypeOK, SharedTypeOK, MessageTypeOK, LimitTypeOK, ObservedTypeOK, Reservation, Time
<1>t. \A m \in Msg : res[m].at \in Nat
  BY <1>0
<1> USE <1>0
<1>1. ASSUME NEW s \in Session, Connect(s) PROVE (SlotHeld /\ NoOrphanReservation)'
  <2>1. SlotHeld'
    BY <1>1 DEF SlotHeld, Under, Checking, Ownership, IdleHoldsNothing, BusyHasMessage, OwnMessage, OwnSlot, Connect, Goto, shared
  <2>2. NoOrphanReservation'
    BY <1>1 DEF NoOrphanReservation, Checking, Ownership, IdleHoldsNothing, OwnSlot, Connect, Goto, shared
  <2> QED
    BY <2>1, <2>2
<1>2. ASSUME NEW s \in Session, MailFrom(s) PROVE (SlotHeld /\ NoOrphanReservation)'
  <2>1. SlotHeld'
    BY <1>2 DEF SlotHeld, Under, Checking, Ownership, IdleHoldsNothing, BusyHasMessage, OwnMessage, OwnSlot, MailFrom, ClientPasses, Released, Goto, TempFail, NewMilter, StoreFails
  <2>2. NoOrphanReservation'
    BY <1>2 DEF NoOrphanReservation, Checking, Ownership, IdleHoldsNothing, OwnSlot, MailFrom, ClientPasses, Released, Goto, TempFail, NewMilter, StoreFails
  <2> QED
    BY <2>1, <2>2
<1>3. ASSUME NEW s \in Session, AppLimit(s) PROVE (SlotHeld /\ NoOrphanReservation)'
  <2>1. SlotHeld'
    BY <1>3 DEF SlotHeld, Under, Checking, Ownership, IdleHoldsNothing, BusyHasMessage, OwnMessage, OwnSlot, AppLimit, PassUnlimited, Enforce, Proceed, Goto, StoreAnswers, StoreFails, shared
  <2>2. NoOrphanReservation'
    BY <1>3 DEF NoOrphanReservation, Checking, Ownership, IdleHoldsNothing, OwnSlot, AppLimit, PassUnlimited, Enforce, Proceed, Goto, StoreAnswers, StoreFails, shared
  <2> QED
    BY <2>1, <2>2
<1>4. ASSUME NEW s \in Session, DomainLimit(s) PROVE (SlotHeld /\ NoOrphanReservation)'
  <2>1. SlotHeld'
    BY <1>4 DEF SlotHeld, Under, Checking, Ownership, IdleHoldsNothing, BusyHasMessage, OwnMessage, OwnSlot, DomainLimit, PassUnlimited, Enforce, Proceed, Goto, StoreAnswers, StoreFails, shared
  <2>2. NoOrphanReservation'
    BY <1>4 DEF NoOrphanReservation, Checking, Ownership, IdleHoldsNothing, OwnSlot, DomainLimit, PassUnlimited, Enforce, Proceed, Goto, StoreAnswers, StoreFails, shared
  <2> QED
    BY <2>1, <2>2
<1>5. ASSUME NEW s \in Session, CountMessages(s) PROVE (SlotHeld /\ NoOrphanReservation)'
  <2>1. SlotHeld'
    BY <1>5 DEF SlotHeld, Under, Checking, Ownership, IdleHoldsNothing, BusyHasMessage, OwnMessage, OwnSlot, CountMessages, PassUnlimited, Enforce, Proceed, Goto, StoreAnswers, StoreFails, shared
  <2>2. NoOrphanReservation'
    BY <1>5 DEF NoOrphanReservation, Checking, Ownership, IdleHoldsNothing, OwnSlot, CountMessages, PassUnlimited, Enforce, Proceed, Goto, StoreAnswers, StoreFails, shared
  <2> QED
    BY <2>1, <2>2
<1>6. ASSUME NEW s \in Session, TryAdmit(s) PROVE (SlotHeld /\ NoOrphanReservation)'
  <2>1. SlotHeld'
    <3>0. /\ pc[s] = "admit" /\ cur[s] \in Msg /\ slots[s] = {}
      <4>1. pc[s] = "admit" /\ cur[s] \in 1 .. serial /\ slots[s] = {}
        BY <1>6 DEF TryAdmit, Ownership, BusyHasMessage, OwnSlot, Checking
      <4>2. serial \in 0 .. MaxMsgs
        BY DEF TypeOK, SharedTypeOK
      <4> QED
        BY <4>1, <4>2, BoundAssumption DEF Msg
    <3>1. /\ pc[s] = "admit" /\ cur[s] \in Msg /\ slots[s] = {}
          /\ \A m \in flight : m \in Pruned(key[s]) \/ res[m].at < now - TTL
      BY <3>0, <1>t DEF Pruned, Unexpired, TypeOK, SharedTypeOK
    <3>2. CASE Admit(s)
      <4>1. ASSUME NEW t \in Session, t # s PROVE SlotHeld!(t)'
        <5>1. \A m \in slots[t] : m # cur[s]
          BY <3>1, <4>1 DEF Ownership, OwnSlot, OwnMessage, Msg
        <5> QED
          BY <3>1, <3>2, <4>1, <5>1 DEF Admit, SlotHeld, Goto, Under
      <4>2. SlotHeld!(s)'
        BY <3>1, <3>2 DEF Admit, SlotHeld, Goto, Under
      <4> QED
        BY <4>1, <4>2 DEF SlotHeld
    <3>3. CASE Refuse(s)
      BY <3>1, <3>3 DEF Refuse, TempFail, NewMilter, SlotHeld, Goto, Under
    <3> QED
      BY <1>6, <3>2, <3>3 DEF TryAdmit
  <2>2. NoOrphanReservation'
    BY <1>6 DEF NoOrphanReservation, Checking, Ownership, IdleHoldsNothing, OwnSlot, TryAdmit, Admit, Refuse, Pruned, Unexpired, Goto, TempFail, NewMilter
  <2> QED
    BY <2>1, <2>2
<1>7. ASSUME NEW s \in Session, RcptTo(s) PROVE (SlotHeld /\ NoOrphanReservation)'
  <2>1. SlotHeld'
    BY <1>7 DEF SlotHeld, Under, Checking, Ownership, IdleHoldsNothing, BusyHasMessage, OwnMessage, OwnSlot, RcptTo, shared
  <2>2. NoOrphanReservation'
    BY <1>7 DEF NoOrphanReservation, Checking, Ownership, IdleHoldsNothing, OwnSlot, RcptTo, shared
  <2> QED
    BY <2>1, <2>2
<1>8. ASSUME NEW s \in Session, Body(s) PROVE (SlotHeld /\ NoOrphanReservation)'
  <2>1. SlotHeld'
    BY <1>8 DEF SlotHeld, Under, Checking, Ownership, IdleHoldsNothing, BusyHasMessage, OwnMessage, OwnSlot, Body, Goto, shared
  <2>2. NoOrphanReservation'
    BY <1>8 DEF NoOrphanReservation, Checking, Ownership, IdleHoldsNothing, OwnSlot, Body, Goto, shared
  <2> QED
    BY <2>1, <2>2
<1>9. ASSUME NEW s \in Session, Record(s) PROVE (SlotHeld /\ NoOrphanReservation)'
  <2>1. SlotHeld'
    BY <1>9 DEF SlotHeld, Under, Checking, Ownership, IdleHoldsNothing, BusyHasMessage, OwnMessage, OwnSlot, Record, Goto
  <2>2. NoOrphanReservation'
    BY <1>9 DEF NoOrphanReservation, Checking, Ownership, IdleHoldsNothing, OwnSlot, Record, Goto
  <2> QED
    BY <2>1, <2>2
<1>10. ASSUME NEW s \in Session, Release(s) PROVE (SlotHeld /\ NoOrphanReservation)'
  <2>1. SlotHeld'
    BY <1>10 DEF SlotHeld, Under, Checking, Ownership, IdleHoldsNothing, BusyHasMessage, OwnMessage, OwnSlot, Release, EndTransaction, Released, Goto
  <2>2. NoOrphanReservation'
    BY <1>10 DEF NoOrphanReservation, Checking, Ownership, IdleHoldsNothing, OwnSlot, Release, EndTransaction, Released, Goto
  <2> QED
    BY <2>1, <2>2
<1>11. ASSUME NEW s \in Session, Abort(s) PROVE (SlotHeld /\ NoOrphanReservation)'
  <2>1. SlotHeld'
    BY <1>11 DEF SlotHeld, Under, Checking, Ownership, IdleHoldsNothing, BusyHasMessage, OwnMessage, OwnSlot, Abort, EndTransaction, Released, Goto
  <2>2. NoOrphanReservation'
    BY <1>11 DEF NoOrphanReservation, Checking, Ownership, IdleHoldsNothing, OwnSlot, Abort, EndTransaction, Released, Goto
  <2> QED
    BY <2>1, <2>2
<1>12. ASSUME NEW s \in Session, Disconnect(s) PROVE (SlotHeld /\ NoOrphanReservation)'
  <2>1. SlotHeld'
    BY <1>12 DEF SlotHeld, Under, Checking, Ownership, IdleHoldsNothing, BusyHasMessage, OwnMessage, OwnSlot, Disconnect, NewMilter, Goto, shared
  <2>2. NoOrphanReservation'
    BY <1>12 DEF NoOrphanReservation, Checking, Ownership, IdleHoldsNothing, OwnSlot, Disconnect, NewMilter, Goto, shared
  <2> QED
    BY <2>1, <2>2
<1>13. ASSUME NEW k \in Key, SetRateLimit(k) PROVE (SlotHeld /\ NoOrphanReservation)'
  BY <1>13 DEF SlotHeld, Under, Checking, Ownership, IdleHoldsNothing, BusyHasMessage, OwnMessage, OwnSlot, NoOrphanReservation, SetRateLimit, sessionVars, observed
<1>14. CASE Crash
  BY <1>14 DEF SlotHeld, Under, Checking, Ownership, IdleHoldsNothing, BusyHasMessage, OwnMessage, OwnSlot, NoOrphanReservation, Crash
<1>15. CASE Tick
  <2>1. /\ now' = now + 1 /\ UNCHANGED <<flight, res, pc, cur, slots, key, failed, leaked>>
    BY <1>15 DEF Tick, sessionVars, observed
  <2>2. \A s \in Session : \A m \in slots[s] : res[m].at < now - TTL => res[m].at < now' - TTL
    BY <2>1, <1>t
  <2>3. SlotHeld'
    BY <2>1, <2>2 DEF SlotHeld
  <2> QED
    BY <2>1, <2>3 DEF NoOrphanReservation
<1>16. CASE UNCHANGED vars
  BY <1>16 DEF SlotHeld, Under, Checking, Ownership, IdleHoldsNothing, BusyHasMessage, OwnMessage, OwnSlot, NoOrphanReservation, vars, shared, sessionVars, observed
<1> QED
  BY <1>1, <1>2, <1>3, <1>4, <1>5, <1>6, <1>7, <1>8, <1>9, <1>10, <1>11, <1>12,
     <1>13, <1>14, <1>15, <1>16, LimitAssumption DEF Next, Key

LEMMA ClientStep == TypeOK /\ Ownership /\ ClientChecked /\ [Next]_vars => ClientChecked'
<1> SUFFICES ASSUME TypeOK, Ownership, ClientChecked, [Next]_vars PROVE ClientChecked'
  OBVIOUS
<1>0. /\ pc \in [Session -> Steps]
      /\ ip \in [Session -> IP \cup {NoIP}] /\ peer \in [Session -> IP \cup {NoIP}]
      /\ login \in [Session -> Login \cup {NoLogin}] /\ failed \in [Session -> BOOLEAN]
  BY DEF TypeOK, SharedTypeOK, MessageTypeOK, ObservedTypeOK
<1> USE <1>0
<1>1. ASSUME NEW s \in Session, Connect(s) PROVE ClientChecked'
  BY <1>1 DEF ClientChecked, Under, Checking, Connect, Goto, shared
<1>2. ASSUME NEW s \in Session, MailFrom(s) PROVE ClientChecked'
  <2> PICK l \in Login \cup {NoLogin}, a \in {ip[s], peer[s]} : ClientPasses(s, l, a) \/ TempFail(s, l)
    BY <1>2 DEF MailFrom
  <2>1. CASE TempFail(s, l)
    BY <2>1 DEF TempFail, NewMilter, Goto, ClientChecked, Under, Checking
  <2>2. CASE ClientPasses(s, l, a)
    <3>1. a \in {peer[s], NoIP} /\ (AuthIPAllowed(l, a) => AuthIPAllowed(l, peer[s]))
      BY NameAssumption DEF ClientChecked, AuthIPAllowed
    <3> QED
      BY <2>2, <3>1 DEF ClientPasses, StoreFails, Goto, ClientChecked, Under, Checking
  <2> QED
    BY <2>1, <2>2
<1>3. ASSUME NEW s \in Session, AppLimit(s) PROVE ClientChecked'
  BY <1>3 DEF ClientChecked, Under, Checking, AppLimit, PassUnlimited, Enforce, Proceed, Goto, StoreAnswers, StoreFails, shared
<1>4. ASSUME NEW s \in Session, DomainLimit(s) PROVE ClientChecked'
  BY <1>4 DEF ClientChecked, Under, Checking, DomainLimit, PassUnlimited, Enforce, Proceed, Goto, StoreAnswers, StoreFails, shared
<1>5. ASSUME NEW s \in Session, CountMessages(s) PROVE ClientChecked'
  BY <1>5 DEF ClientChecked, Under, Checking, CountMessages, PassUnlimited, Enforce, Proceed, Goto, StoreAnswers, StoreFails, shared
<1>6. ASSUME NEW s \in Session, TryAdmit(s) PROVE ClientChecked'
  BY <1>6 DEF ClientChecked, Under, Checking, TryAdmit, Admit, Refuse, Pruned, Unexpired, Goto, TempFail, NewMilter
<1>7. ASSUME NEW s \in Session, RcptTo(s) PROVE ClientChecked'
  BY <1>7 DEF ClientChecked, Under, Checking, RcptTo, shared
<1>8. ASSUME NEW s \in Session, Body(s) PROVE ClientChecked'
  BY <1>8 DEF ClientChecked, Under, Checking, Body, Goto, shared
<1>9. ASSUME NEW s \in Session, Record(s) PROVE ClientChecked'
  BY <1>9 DEF ClientChecked, Under, Checking, Record, Goto
<1>10. ASSUME NEW s \in Session, Release(s) PROVE ClientChecked'
  BY <1>10 DEF ClientChecked, Under, Checking, Release, EndTransaction, Released, Goto
<1>11. ASSUME NEW s \in Session, Abort(s) PROVE ClientChecked'
  BY <1>11 DEF ClientChecked, Under, Checking, Abort, EndTransaction, Released, Goto
<1>12. ASSUME NEW s \in Session, Disconnect(s) PROVE ClientChecked'
  BY <1>12 DEF ClientChecked, Under, Checking, Disconnect, NewMilter, Goto, shared
<1>13. ASSUME NEW k \in Key, SetRateLimit(k) PROVE ClientChecked'
  BY <1>13 DEF ClientChecked, Under, Checking, SetRateLimit, sessionVars, observed
<1>14. CASE Crash
  BY <1>14 DEF ClientChecked, Under, Checking, Crash
<1>15. CASE Tick
  BY <1>15 DEF ClientChecked, Under, Checking, Tick, sessionVars, observed
<1>16. CASE UNCHANGED vars
  BY <1>16 DEF ClientChecked, Under, Checking, vars, shared, sessionVars, observed
<1> QED
  BY <1>1, <1>2, <1>3, <1>4, <1>5, <1>6, <1>7, <1>8, <1>9, <1>10, <1>11, <1>12,
     <1>13, <1>14, <1>15, <1>16, LimitAssumption DEF Next, Key

-----------------------------------------------------------------------------
(* The count: what CountMessages answered stays true until a session       *)
(* records a message of the key.                                           *)

\* A set of messages is finite, and a subset has no more of them.
LEMMA MessageSets ==
    ASSUME NEW A \in SUBSET Msg, NEW B \in SUBSET Msg
    PROVE  /\ IsFiniteSet(A) /\ Cardinality(A) \in Nat
           /\ A \subseteq B => Cardinality(A) <= Cardinality(B)
           /\ Cardinality(A \cup B) <= Cardinality(A) + Cardinality(B)
<1>1. IsFiniteSet(Msg)
  BY FS_Interval, BoundAssumption DEF Msg
<1>2. IsFiniteSet(A) /\ IsFiniteSet(B)
  BY <1>1, FS_Subset
<1>3. Cardinality(A) \in Nat /\ Cardinality(B) \in Nat /\ Cardinality(A \cap B) \in Nat
  <2>1. IsFiniteSet(A \cap B)
    BY <1>2, FS_Intersection
  <2> QED
    BY <1>2, <2>1, FS_CardinalityType
<1>4. A \subseteq B => Cardinality(A) <= Cardinality(B)
  BY <1>2, FS_Subset
<1>5. Cardinality(A \cup B) = Cardinality(A) + Cardinality(B) - Cardinality(A \cap B)
  BY <1>2, FS_Union
<1> QED
  BY <1>2, <1>3, <1>4, <1>5

LEMMA RecordedSubset == \A L, k, t : RecordedIn(L, k, t) \in SUBSET Msg
  BY DEF RecordedIn

\* CountMessages counts what the property counts.
LEMMA StoredIsRecorded ==
    ASSUME TypeOK, RowsNumbered, NEW k, NEW t
    PROVE  StoredSince(k, t) = Recorded(k, t)
<1>1. \A r \in log : r.status = "queued" <=> r.msg \in Msg
  BY BoundAssumption DEF TypeOK, SharedTypeOK, RowsNumbered, Row, Msg
<1> QED
  BY <1>1 DEF StoredSince, Recorded, RecordedIn

\* A row that is no message's changes no count.
LEMMA RefusalNotRecorded ==
    ASSUME NEW row, row.msg = 0, NEW L, NEW k, NEW t
    PROVE  RecordedIn(L \cup {row}, k, t) = RecordedIn(L, k, t)
  BY BoundAssumption DEF RecordedIn, Msg

\* Nothing that CountHolds is about has changed for a session that has counted.
CountFrame ==
    /\ \A k, t : RecordedIn(log', k, t) = RecordedIn(log, k, t)
    /\ \A t \in Session : pc'[t] = "admit" =>
         /\ pc[t] = "admit" /\ key'[t] = key[t] /\ since'[t] = since[t]
         /\ stored'[t] = stored[t] /\ stale'[t] = stale[t]

LEMMA CountFrameStep == CountHolds /\ CountFrame => CountHolds'
  BY DEF CountHolds, CountFrame, Recorded

LEMMA TempFailCount ==
    ASSUME TypeOK, RowsNumbered, NEW s \in Session, NEW l, TempFail(s, l)
    PROVE  RowsNumbered' /\ CountFrame
<1> DEFINE row == [msg |-> 0, login |-> l, rcpt |-> NoRcpt, at |-> now, status |-> "rejected"]
<1>1. log' = log \/ log' = log \cup {row}
  BY DEF TempFail, RecordRejected
<1>2. row.msg = 0 /\ row.status = "rejected"
  OBVIOUS
<1>3. RowsNumbered'
  BY <1>1, <1>2 DEF RowsNumbered
<1>4. \A k, t : RecordedIn(log', k, t) = RecordedIn(log, k, t)
  BY <1>1, <1>2, RefusalNotRecorded
<1>5. pc' = [pc EXCEPT ![s] = "idle"] /\ pc \in [Session -> Steps]
      /\ key' = [key EXCEPT ![s] = NoKey] /\ key \in [Session -> Key \cup {NoKey}]
  BY DEF TempFail, Goto, NewMilter, TypeOK, MessageTypeOK, LimitTypeOK
<1>6. /\ max' = [max EXCEPT ![s] = 0] /\ since' = [since EXCEPT ![s] = 0]
      /\ stored' = [stored EXCEPT ![s] = 0] /\ stale' = [stale EXCEPT ![s] = FALSE]
      /\ since \in [Session -> Int] /\ stored \in [Session -> Nat] /\ stale \in [Session -> BOOLEAN]
  BY DEF TempFail, DropLocals, TypeOK, LimitTypeOK, ObservedTypeOK
<1> QED
  BY <1>3, <1>4, <1>5, <1>6 DEF CountFrame

LEMMA CountStep ==
    TypeOK /\ Ownership /\ RowsNumbered /\ CountHolds /\ [Next]_vars => (RowsNumbered /\ CountHolds)'
<1> SUFFICES ASSUME TypeOK, Ownership, RowsNumbered, CountHolds, [Next]_vars
             PROVE  (RowsNumbered /\ CountHolds)'
  OBVIOUS
<1>0. /\ pc \in [Session -> Steps] /\ key \in [Session -> Key \cup {NoKey}]
      /\ since \in [Session -> Int] /\ stored \in [Session -> Nat] /\ stale \in [Session -> BOOLEAN]
  BY DEF TypeOK, MessageTypeOK, LimitTypeOK, ObservedTypeOK
<1>f. log' = log /\ CountFrame => (RowsNumbered /\ CountHolds)'
  BY CountFrameStep DEF RowsNumbered
<1> USE <1>0
<1>1. ASSUME NEW s \in Session, Connect(s) PROVE (RowsNumbered /\ CountHolds)'
  BY <1>1, <1>f DEF CountFrame, Connect, Goto, KeepLocals, shared
<1>2. ASSUME NEW s \in Session, MailFrom(s) PROVE (RowsNumbered /\ CountHolds)'
  <2> PICK l, a : ClientPasses(s, l, a) \/ TempFail(s, l)
    BY <1>2 DEF MailFrom
  <2>1. CASE TempFail(s, l)
    BY <2>1, TempFailCount, CountFrameStep
  <2>2. CASE ClientPasses(s, l, a)
    BY <2>2, <1>f DEF ClientPasses, CountFrame, Goto, KeepLocals
  <2> QED
    BY <2>1, <2>2
<1>3. ASSUME NEW s \in Session, AppLimit(s) PROVE (RowsNumbered /\ CountHolds)'
  BY <1>3, <1>f DEF CountFrame, AppLimit, PassUnlimited, Enforce, Proceed, Goto, KeepLocals, DropLocals, shared
<1>4. ASSUME NEW s \in Session, DomainLimit(s) PROVE (RowsNumbered /\ CountHolds)'
  BY <1>4, <1>f DEF CountFrame, DomainLimit, PassUnlimited, Enforce, Proceed, Goto, DropLocals, shared
<1>5. ASSUME NEW s \in Session, CountMessages(s) PROVE (RowsNumbered /\ CountHolds)'
  <2>1. CASE PassUnlimited(s) /\ UNCHANGED key
    BY <2>1, <1>f DEF CountFrame, PassUnlimited, Proceed, Goto, DropLocals, shared
  <2>2. CASE /\ since' = [since EXCEPT ![s] = now - Window]
             /\ stored' = [stored EXCEPT ![s] = Cardinality(StoredSince(key[s], now - Window))]
             /\ stale' = [stale EXCEPT ![s] = FALSE]
             /\ Proceed(s, "admit")
             /\ UNCHANGED <<key, max>>
    <3>1. log' = log /\ RowsNumbered'
      BY <2>2 DEF Proceed, shared, RowsNumbered
    <3>2. stored'[s] = Cardinality(RecordedIn(log, key[s], now - Window)) /\ since'[s] = now - Window
      BY <2>2, StoredIsRecorded DEF Recorded
    <3>3. RecordedIn(log, key[s], now - Window) \in SUBSET Msg
      BY RecordedSubset
    <3>4. Cardinality(RecordedIn(log, key[s], now - Window)) \in Nat
      BY <3>3, MessageSets
    <3>5. CountHolds!(s)'
      BY <2>2, <3>1, <3>2, <3>4 DEF CountHolds, Recorded
    <3>6. ASSUME NEW t \in Session, t # s PROVE CountHolds!(t)'
      BY <2>2, <3>1, <3>6 DEF CountHolds, Recorded, Proceed, Goto
    <3> QED
      BY <3>1, <3>5, <3>6 DEF CountHolds
  <2> QED
    BY <1>5, <2>1, <2>2 DEF CountMessages
<1>6. ASSUME NEW s \in Session, TryAdmit(s) PROVE (RowsNumbered /\ CountHolds)'
  <2>1. CASE Admit(s)
    BY <2>1, <1>f DEF CountFrame, Admit, Goto, DropLocals
  <2>2. CASE Refuse(s)
    BY <2>2, TempFailCount, CountFrameStep DEF Refuse
  <2> QED
    BY <1>6, <2>1, <2>2 DEF TryAdmit
<1>7. ASSUME NEW s \in Session, RcptTo(s) PROVE (RowsNumbered /\ CountHolds)'
  BY <1>7, <1>f DEF CountFrame, RcptTo, KeepLocals, shared
<1>8. ASSUME NEW s \in Session, Body(s) PROVE (RowsNumbered /\ CountHolds)'
  BY <1>8, <1>f DEF CountFrame, Body, Goto, KeepLocals, shared
<1>9. ASSUME NEW s \in Session, Record(s) PROVE (RowsNumbered /\ CountHolds)'
  <2> PICK r \in todo[s] : Record(s)!2!(r)
    BY <1>9 DEF Record
  <2> DEFINE row == [msg |-> cur[s], login |-> login[s], rcpt |-> r, at |-> now, status |-> "queued"]
  <2>0. /\ pc[s] = "record" /\ cur[s] # 0 /\ row.msg = cur[s] /\ row.status = "queued"
        /\ UNCHANGED <<key, since, stored>>
        /\ \A t \in Session : pc'[t] = "admit" => pc[t] = "admit"
    BY <1>9 DEF Record, Goto, Ownership, BusyHasMessage
  <2>1. CASE UNCHANGED <<log, stale>>
    BY <2>0, <2>1, <1>f DEF CountFrame
  <2>2. CASE /\ log' = log \cup {row}
             /\ stale' = [t \in Session |->
                  IF pc[t] = "admit" /\ CountsFor(row, key[t]) THEN TRUE ELSE stale[t]]
    <3>1. RowsNumbered'
      BY <2>0, <2>2 DEF RowsNumbered
    <3>2. ASSUME NEW t \in Session, pc'[t] = "admit" PROVE CountHolds!(t)!2'
      <4> DEFINE A == RecordedIn(log, key[t], since[t])
                 B == RecordedIn(log', key[t], since[t])
      <4>1. A \in SUBSET Msg /\ B \in SUBSET Msg /\ A \subseteq B
        BY <2>2 DEF RecordedIn
      <4>2. Cardinality(A) <= Cardinality(B) /\ Cardinality(A) \in Nat /\ Cardinality(B) \in Nat
        BY <4>1, MessageSets
      <4>3. ~CountsFor(row, key[t]) => A = B
        BY <2>2 DEF RecordedIn
      <4>4. /\ pc[t] = "admit" /\ stored'[t] = stored[t] /\ stored[t] \in Nat
            /\ key'[t] = key[t] /\ since'[t] = since[t]
        BY <2>0, <3>2
      <4>5. stored[t] <= Cardinality(A) /\ (~stale[t] => stored[t] = Cardinality(A))
        BY <4>4 DEF CountHolds, Recorded
      <4>6. stored'[t] <= Cardinality(B)
        BY <4>2, <4>4, <4>5
      <4>7. ASSUME ~stale'[t] PROVE stored'[t] = Cardinality(B)
        BY <2>2, <4>3, <4>4, <4>5, <4>7
      <4> HIDE DEF A, B
      <4> QED
        BY <4>4, <4>6, <4>7 DEF Recorded, A, B
    <3> QED
      BY <3>1, <3>2 DEF CountHolds
  <2> QED
    BY <2>1, <2>2
<1>10. ASSUME NEW s \in Session, Release(s) PROVE (RowsNumbered /\ CountHolds)'
  BY <1>10, <1>f DEF CountFrame, Release, EndTransaction, Goto, KeepLocals
<1>11. ASSUME NEW s \in Session, Abort(s) PROVE (RowsNumbered /\ CountHolds)'
  BY <1>11, <1>f DEF CountFrame, Abort, EndTransaction, Goto, KeepLocals
<1>12. ASSUME NEW s \in Session, Disconnect(s) PROVE (RowsNumbered /\ CountHolds)'
  BY <1>12, <1>f DEF CountFrame, Disconnect, NewMilter, Goto, KeepLocals, shared
<1>13. ASSUME NEW k \in Key, SetRateLimit(k) PROVE (RowsNumbered /\ CountHolds)'
  BY <1>13, <1>f DEF CountFrame, SetRateLimit, sessionVars, observed
<1>14. CASE Crash
  BY <1>14, <1>f DEF CountFrame, Crash
<1>15. CASE Tick
  BY <1>15, <1>f DEF CountFrame, Tick, sessionVars, observed
<1>16. CASE UNCHANGED vars
  BY <1>16, <1>f DEF CountFrame, vars, shared, sessionVars, observed
<1> QED
  BY <1>1, <1>2, <1>3, <1>4, <1>5, <1>6, <1>7, <1>8, <1>9, <1>10, <1>11, <1>12,
     <1>13, <1>14, <1>15, <1>16, LimitAssumption DEF Next, Key

-----------------------------------------------------------------------------
(* The theorems.                                                           *)

LEMMA InitIInv == Init => IInv
<1> SUFFICES ASSUME Init PROVE IInv
  OBVIOUS
<1>1. TypeOK
  <2>1. SharedTypeOK
    BY BoundAssumption DEF Init, SharedTypeOK, Time, Reservation, Msg
  <2>2. MessageTypeOK
    BY BoundAssumption DEF Init, MessageTypeOK, Steps
  <2>3. LimitTypeOK /\ ObservedTypeOK
    BY DEF Init, LimitTypeOK, ObservedTypeOK
  <2> QED
    BY <2>1, <2>2, <2>3 DEF TypeOK
<1>2. Ownership
  BY DEF Init, Ownership, IdleHoldsNothing, BusyHasMessage, OwnMessage, OwnSlot, LeakedIsGone, Checking
<1>3. SlotHeld /\ RowsNumbered /\ CountHolds /\ NoOrphanReservation /\ ClientChecked
  BY DEF Init, SlotHeld, RowsNumbered, CountHolds, NoOrphanReservation, ClientChecked, Under, Checking
<1> QED
  BY <1>1, <1>2, <1>3 DEF IInv, Ownership

LEMMA NextIInv == IInv /\ [Next]_vars => IInv'
  BY TypeStep, OwnershipStep, HoldingStep, ClientStep, CountStep DEF IInv, Ownership

\* The inductive invariant holds of every reachable state.
THEOREM Invariance == Spec => []IInv
  BY InitIInv, NextIInv, PTL DEF Spec

\* Every variable keeps its type and record always has a row to write (the
\* session and store fields of internal/milter).
THEOREM TypeCorrect == Spec => []TypeOK
<1>1. IInv => TypeOK
  BY DEF IInv
<1> QED
  BY <1>1, Invariance, PTL

\* No reservation of the registry is ever lost: not when a refusal replaces
\* the session, not when MAIL FROM follows MAIL FROM, not on ABORT.
THEOREM ReservationsKept == Spec => []NoOrphanReservation
<1>1. IInv => NoOrphanReservation
  BY DEF IInv
<1> QED
  BY <1>1, Invariance, PTL

\* An application's address list holds for every message under way whose
\* MAIL FROM met no store error (authIPAllowed).
THEOREM ClientListTheorem == Spec => []ClientListHolds
<1>1. IInv => ClientListHolds
  BY DEF IInv, ClientChecked, ClientListHolds, AuthIPAllowed, LoginDomain, Under
<1> QED
  BY <1>1, Invariance, PTL

\* A session leaves the step before tryAdmit's lock by tryAdmit only.
LEMMA OnlyTryAdmit ==
    ASSUME [Next]_vars, NEW s \in Session, pc \in [Session -> Steps],
           pc[s] = "admit", pc'[s] \in {"open", "idle"}
    PROVE  TryAdmit(s)
<1> SUFFICES ASSUME ~TryAdmit(s) PROVE FALSE
  OBVIOUS
<1>1. ASSUME NEW t \in Session, Connect(t) PROVE FALSE
  BY <1>1 DEF Connect, Goto
<1>2. ASSUME NEW t \in Session, MailFrom(t) PROVE FALSE
  BY <1>2 DEF MailFrom, ClientPasses, TempFail, Goto
<1>3. ASSUME NEW t \in Session, AppLimit(t) PROVE FALSE
  BY <1>3 DEF AppLimit, PassUnlimited, Enforce, Proceed, Goto
<1>4. ASSUME NEW t \in Session, DomainLimit(t) PROVE FALSE
  BY <1>4 DEF DomainLimit, PassUnlimited, Enforce, Proceed, Goto
<1>5. ASSUME NEW t \in Session, CountMessages(t) PROVE FALSE
  BY <1>5 DEF CountMessages, PassUnlimited, Proceed, Goto
<1>6. ASSUME NEW t \in Session, TryAdmit(t) PROVE FALSE
  BY <1>6 DEF TryAdmit, Admit, Refuse, TempFail, Goto
<1>7. ASSUME NEW t \in Session, RcptTo(t) PROVE FALSE
  BY <1>7 DEF RcptTo
<1>8. ASSUME NEW t \in Session, Body(t) PROVE FALSE
  BY <1>8 DEF Body, Goto
<1>9. ASSUME NEW t \in Session, Record(t) PROVE FALSE
  BY <1>9 DEF Record, Goto
<1>10. ASSUME NEW t \in Session, Release(t) PROVE FALSE
  BY <1>10 DEF Release, EndTransaction, Goto
<1>11. ASSUME NEW t \in Session, Abort(t) PROVE FALSE
  BY <1>11 DEF Abort, EndTransaction, Goto
<1>12. ASSUME NEW t \in Session, Disconnect(t) PROVE FALSE
  BY <1>12 DEF Disconnect, Goto
<1>13. ASSUME NEW k, SetRateLimit(k) PROVE FALSE
  BY <1>13 DEF SetRateLimit, sessionVars
<1>14. ASSUME Crash \/ Tick \/ UNCHANGED vars PROVE FALSE
  BY <1>14 DEF Crash, Tick, vars, sessionVars
<1> QED
  BY <1>1, <1>2, <1>3, <1>4, <1>5, <1>6, <1>7, <1>8, <1>9, <1>10, <1>11, <1>12, <1>13, <1>14 DEF Next

\* Every admission leaves the messages recorded in the window and those under
\* way below the ceiling, or has one of the two causes (enforceLimit, tryAdmit).
THEOREM AdmissionTheorem == Spec => AdmittedWithinCeiling
<1> DEFINE A == \A s \in Session : Admits(s) =>
        \/ Cardinality(Spent(key[s], since[s])) < max[s]
        \/ stale[s]
        \/ \E t \in InTransaction(key[s]) : Unseen(t, since[s])
<1>1. IInv /\ [Next]_vars => A
  <2> SUFFICES ASSUME IInv, [Next]_vars, NEW s \in Session, Admits(s), ~stale[s],
                      \A t \in InTransaction(key[s]) : ~Unseen(t, since[s])
               PROVE  Cardinality(Spent(key[s], since[s])) < max[s]
    OBVIOUS
  <2>1. Total(s) < max[s]
    <3>1. pc[s] = "admit" /\ pc'[s] = "open" /\ pc \in [Session -> Steps]
      BY DEF Admits, IInv, TypeOK, MessageTypeOK
    <3>2. TryAdmit(s)
      BY <3>1, OnlyTryAdmit
    <3> QED
      BY <3>1, <3>2 DEF TryAdmit, Admit, Refuse, TempFail, Goto
  <2>2. stored[s] = Cardinality(Recorded(key[s], since[s]))
    BY DEF IInv, CountHolds, Admits
  <2> DEFINE R == Recorded(key[s], since[s])
             U == {cur[t] : t \in InTransaction(key[s])}
             H == HeldSince(key[s], since[s])
  <2>3. U \subseteq H
    <3> SUFFICES ASSUME NEW t \in InTransaction(key[s]) PROVE cur[t] \in H
      OBVIOUS
    <3>1. t \in Session /\ pc[t] \in Under /\ key[t] = key[s] /\ ~Unseen(t, since[s])
      BY DEF InTransaction, Under
    <3>2. key[s] # NoKey
      BY NameAssumption DEF IInv, BusyHasMessage, Admits, Key, NoKey
    <3>3. slots[t] = {cur[t]} /\ res[cur[t]].key = key[s]
          /\ (cur[t] \in flight \/ res[cur[t]].at < now - TTL)
      BY <3>1, <3>2 DEF IInv, SlotHeld, Unseen
    <3>4. cur[t] \in flight /\ ~(res[cur[t]].at < now - TTL) /\ ~(res[cur[t]].at < since[s])
      BY <3>1, <3>3 DEF Unseen
    <3>5. cur[t] \in Msg /\ since[s] \in Int /\ now \in Int /\ TTL \in Int
      <4>1. cur[t] \in Msg
        BY <3>4 DEF IInv, TypeOK, SharedTypeOK
      <4>2. since[s] \in Int /\ now \in Int
        BY DEF IInv, TypeOK, SharedTypeOK, LimitTypeOK, Time
      <4> QED
        BY <4>1, <4>2, LimitAssumption
    <3>6. res[cur[t]].at \in Int
      BY <3>5 DEF IInv, TypeOK, SharedTypeOK, Reservation, Time
    <3> QED
      BY <3>3, <3>4, <3>5, <3>6 DEF HeldSince, Unexpired
  <2>4. R \in SUBSET Msg /\ H \in SUBSET Msg
    BY DEF Recorded, RecordedIn, HeldSince, Unexpired, IInv, TypeOK, SharedTypeOK
  <2>5. R \cup U \in SUBSET Msg /\ R \cup H \in SUBSET Msg /\ R \cup U \subseteq R \cup H
    BY <2>3, <2>4
  <2> HIDE DEF R, U, H
  <2>6. /\ Cardinality(R \cup U) <= Cardinality(R \cup H)
        /\ Cardinality(R \cup H) <= Cardinality(R) + Cardinality(H)
        /\ Cardinality(R \cup U) \in Nat /\ Cardinality(R \cup H) \in Nat
        /\ Cardinality(R) \in Nat /\ Cardinality(H) \in Nat
    BY <2>4, <2>5, MessageSets
  <2>7. max[s] \in Nat
    BY DEF IInv, TypeOK, LimitTypeOK
  <2>8. Cardinality(R) + Cardinality(H) < max[s]
    BY <2>1, <2>2 DEF Total, R, H
  <2>9. Cardinality(R \cup U) < max[s]
    BY <2>6, <2>7, <2>8
  <2> QED
    BY <2>9 DEF Spent, R, U
<1>2. IInv /\ [Next]_vars => [A]_vars
  BY <1>1
<1> QED
  BY <1>2, Invariance, PTL DEF Spec, AdmittedWithinCeiling

\* Every refusal for a limit is covered by messages that are recorded, under
\* way, or were cut off no longer than the TTL ago (tryAdmit, release).
THEOREM RefusalTheorem == Spec => RefusedOnlyAtCeiling
<1> DEFINE Cut(k) == {m \in leaked : res[m].key = k /\ res[m].at >= now - TTL}
           A == \A s \in Session : Refuses(s) =>
                  Cardinality(Recorded(key[s], since[s]))
                    + Cardinality({cur[t] : t \in InTransaction(key[s])} \cup Cut(key[s])) >= max[s]
<1>1. IInv /\ [Next]_vars => A
  <2> SUFFICES ASSUME IInv, [Next]_vars, NEW s \in Session, Refuses(s)
               PROVE  Cardinality(Recorded(key[s], since[s]))
                        + Cardinality({cur[t] : t \in InTransaction(key[s])} \cup Cut(key[s])) >= max[s]
    OBVIOUS
  <2>1. Total(s) >= max[s]
    <3>1. pc[s] = "admit" /\ pc'[s] = "idle" /\ pc \in [Session -> Steps]
      BY DEF Refuses, IInv, TypeOK, MessageTypeOK
    <3>2. TryAdmit(s)
      BY <3>1, OnlyTryAdmit
    <3> QED
      BY <3>1, <3>2 DEF TryAdmit, Admit, Goto, Refuse
  <2> DEFINE R == Recorded(key[s], since[s])
             V == {cur[t] : t \in InTransaction(key[s])} \cup Cut(key[s])
             H == HeldSince(key[s], since[s])
  <2>2. H \subseteq V
    <3> SUFFICES ASSUME NEW m \in H PROVE m \in V
      OBVIOUS
    <3>1. m \in flight /\ res[m].key = key[s] /\ res[m].at >= now - TTL
      BY DEF HeldSince, Unexpired
    <3>2. CASE m \in leaked
      BY <3>1, <3>2
    <3>3. ASSUME NEW t \in Session, m \in slots[t] PROVE m \in V
      <4>1. m = cur[t] /\ pc[t] \notin {"down", "idle"} /\ pc[t] \notin Checking
        BY <3>3 DEF IInv, OwnSlot, IdleHoldsNothing
      <4>2. pc[t] \in Under
        BY <4>1 DEF IInv, TypeOK, MessageTypeOK, Steps, Under, Checking
      <4>3. key[t] = key[s]
        BY <3>1, <3>3 DEF IInv, SlotHeld
      <4> QED
        BY <4>1, <4>2, <4>3 DEF InTransaction, Under
    <3> QED
      BY <3>1, <3>2, <3>3 DEF IInv, NoOrphanReservation
  <2>3. R \in SUBSET Msg /\ V \in SUBSET Msg /\ H \in SUBSET Msg
    <3>1. \A t \in InTransaction(key[s]) : cur[t] \in 1 .. serial
      BY DEF InTransaction, IInv, BusyHasMessage
    <3>2. 1 .. serial \subseteq Msg
      BY BoundAssumption DEF IInv, TypeOK, SharedTypeOK, Msg
    <3> QED
      BY <3>1, <3>2 DEF Recorded, RecordedIn, HeldSince, Unexpired, IInv, TypeOK, SharedTypeOK, ObservedTypeOK
  <2>4. stored[s] <= Cardinality(R) /\ stored[s] \in Nat /\ max[s] \in Nat
    BY DEF IInv, CountHolds, Refuses, TypeOK, LimitTypeOK
  <2>5. stored[s] + Cardinality(H) >= max[s]
    BY <2>1 DEF Total
  <2> HIDE DEF R, V, H
  <2>6. Cardinality(H) <= Cardinality(V) /\ Cardinality(H) \in Nat /\ Cardinality(V) \in Nat
        /\ Cardinality(R) \in Nat
    BY <2>2, <2>3, MessageSets
  <2>7. Cardinality(R) + Cardinality(V) >= max[s]
    BY <2>4, <2>5, <2>6
  <2> QED
    BY <2>7 DEF R, V
<1>2. IInv /\ [Next]_vars => [A]_vars
  BY <1>1
<1> QED
  BY <1>2, Invariance, PTL DEF Spec, RefusedOnlyAtCeiling

-----------------------------------------------------------------------------
(* The send log's rows (DeliveryLog)                                       *)

Placed(q) == arriving[q] \cup queue[q]
Holds(q, id) == \E r \in Recipient : <<r, id>> \in Placed(q)
Told(id) == \E i \in DOMAIN mailLog : id \in mailLog[i].about
Final(l) == l.kind = "expiry" \/ (l.kind = "delivery" /\ l.status # "deferred")
Known(id) == id \in testing \/ Told(id) \/ \E q \in QueueID : Holds(q, id)

\* A row Postfix has is a row of that recipient and that queue id, or of none
\* as yet; no other queue file has it, and its lines are of that id.
PlacesOk ==
    \A q \in QueueID, r \in Recipient, id \in RowID : <<r, id>> \in Placed(q) =>
        /\ id \in DOMAIN rows /\ rows[id].rcpt = r /\ rows[id].status # "rejected"
        /\ rows[id].qid \in {q, NoID} /\ id \notin testing
        /\ \A z \in QueueID : Holds(z, id) => z = q
        /\ \A i \in DOMAIN mailLog : id \in mailLog[i].about => mailLog[i].qid = q

\* A message is on its way in or in the queue.
OneStage == \A q \in QueueID : arriving[q] = {} \/ queue[q] = {}

\* Nothing was said of a test message sendmail still has.
TestingOk ==
    \A id \in testing : id \in RowID /\ rows[id].status # "rejected" /\ rows[id].qid = NoID /\ ~Told(id)

\* What a line is of: rows that are no refusals, of its recipient; and the
\* line with the Message-ID is the first of its row.
LinesOk ==
    \A i \in DOMAIN mailLog : \A id \in mailLog[i].about :
        /\ id \in DOMAIN rows /\ rows[id].status # "rejected"
        /\ mailLog[i].kind = "delivery" => rows[id].rcpt = mailLog[i].rcpt
        /\ mailLog[i].kind = "message-id" => \A k \in 1 .. i - 1 : id \notin mailLog[k].about

\* A final line is the last of its rows.
EndsOk ==
    \A i \in DOMAIN mailLog : \A id \in mailLog[i].about : Final(mailLog[i]) =>
        /\ \A q \in QueueID : ~Holds(q, id)
        /\ \A k \in i + 1 .. Len(mailLog) : id \notin mailLog[k].about

\* A row that was deleted though its message is known went with all before it.
GoneOk ==
    \A id \in DOMAIN rows : Known(id) /\ rows[id].status = "gone" =>
        \A o \in 1 .. id : rows[o].status = "gone"

\* A row as old as the grace, with a queue id, is not on its way in.
OldOk ==
    \A q \in QueueID, r \in Recipient, id \in RowID :
        <<r, id>> \in arriving[q] => ~rows[id].old \/ rows[id].qid = NoID

Structure == PlacesOk /\ OneStage /\ TestingOk /\ LinesOk /\ EndsOk /\ GoneOk /\ OldOk

\* The sweep works after the tailer caught up with what was in the log, on
\* old rows with a queue id, which Postfix has done with once it was asked.
SweepOk ==
    /\ caughtUp => base <= pos
    /\ sweep.at # "idle" => caughtUp
    /\ \A id \in sweep.rows :
         /\ rows[id].old /\ rows[id].qid # NoID
         /\ sweep.at \in {"scan", "close"} => \A q \in QueueID : ~Holds(q, id)
    /\ sweep.at = "idle" => sweep.rows = {}

\* A row that says "sent" has a line that says it.
SentOk ==
    \A id \in DOMAIN rows : rows[id].status = "sent" =>
        /\ rows[id].qid # NoID
        /\ OnlyOfItsID(id) => \E i \in DOMAIN mailLog : /\ id \in mailLog[i].about
                                                         /\ mailLog[i].kind = "delivery"
                                                         /\ mailLog[i].status = "sent"

\* A row shows the final result its message has in a line that was handled.
Showing(i, id) ==
    /\ mailLog[i].kind = "delivery" /\ mailLog[i].status # "deferred" =>
          rows[id].status \in {mailLog[i].status, "gone"}
    /\ mailLog[i].kind = "expiry" => rows[id].status \in {"bounced", "gone"}

ShownOk ==
    \A i \in 1 .. pos : i \notin lost => \A id \in mailLog[i].about :
        rows[id].qid = mailLog[i].qid /\ OnlyOfItsID(id) => Showing(i, id)

DeliveryInv == DeliveryTypeOK /\ Structure /\ SweepOk /\ SentOk /\ ShownOk
-----------------------------------------------------------------------------
(* Rows and how they change                                                *)

\* What every change leaves of a row.
Becomes(a, b) ==
    /\ b.rcpt = a.rcpt
    /\ a.qid # NoID => b.qid = a.qid
    /\ a.old => b.old
    /\ b.status = "rejected" => a.status = "rejected"
    /\ a.status = "gone" => b.status = "gone"

\* The rows of before are there and kept what they keep.
RowsKeep == /\ Len(rows') >= Len(rows) /\ \A id \in DOMAIN rows : Becomes(rows[id], rows'[id])
SameRows == /\ rows' \in Seq(LogRow) /\ Len(rows') = Len(rows) /\ RowsKeep

LEMMA RowFacts ==
  ASSUME RowsTyped
  PROVE  /\ Len(rows) \in Nat /\ DOMAIN rows = 1 .. Len(rows) /\ DOMAIN rows \subseteq RowID
         /\ \A id \in DOMAIN rows : rows[id] \in LogRow
  BY LogBounds DEF RowsTyped, RowID

LEMMA LineFacts ==
  ASSUME PostfixTyped
  PROVE  /\ Len(mailLog) \in Nat /\ DOMAIN mailLog = 1 .. Len(mailLog)
         /\ \A i \in DOMAIN mailLog : mailLog[i] \in LogLine
  BY DEF PostfixTyped

LEMMA FunIsSeq ==
  ASSUME NEW n \in Nat, NEW S, NEW f \in [1 .. n -> S]
  PROVE  f \in Seq(S) /\ Len(f) = n
  OBVIOUS

LEMMA SameLength ==
  ASSUME RowsTyped, NEW f, f = [id \in DOMAIN rows |-> f[id]], \A id \in DOMAIN rows : f[id] \in LogRow
  PROVE  f \in Seq(LogRow) /\ Len(f) = Len(rows)
<1>1. Len(rows) \in Nat /\ DOMAIN rows = 1 .. Len(rows)
  BY RowFacts
<1>2. f \in [1 .. Len(rows) -> LogRow]
  BY <1>1
<1> QED BY <1>1, <1>2

LEMMA NewRowTyped ==
  ASSUME NEW q \in QueueID \cup {NoID}, NEW r \in Recipient, NEW st \in Status, NEW t \in BOOLEAN
  PROVE  LET b == NewRow(q, r, st, t) IN
         b \in LogRow /\ b.qid = q /\ b.rcpt = r /\ b.status = st /\ b.old = FALSE
  BY DEF NewRow, LogRow

\* The handler of a delivery line.
LEMMA UpdateMoves ==
  ASSUME RowsTyped, NEW q \in QueueID, NEW r, NEW st \in {"sent", "deferred", "bounced"}, UpdateStatus(q, r, st)
  PROVE  /\ SameRows /\ days' \in [closed : Nat, missed : Nat, contradicted : Nat]
         /\ \A id \in DOMAIN rows :
              /\ rows'[id].qid = rows[id].qid /\ rows'[id].old = rows[id].old
              /\ id \in NewestRow(q, r) => rows'[id].status = st
              /\ id \notin NewestRow(q, r) => rows'[id] = rows[id]
<1> DEFINE hit == NewestRow(q, r)
           contradicted == {id \in hit : rows[id].reason = "reconcile"}
<1>1. /\ rows' = [id \in DOMAIN rows |->
                    IF id \in hit
                    THEN [rows[id] EXCEPT !.status = st,
                            !.reason = IF id \in contradicted THEN "reconcile-contradicted" ELSE @]
                    ELSE rows[id]]
      /\ days' = [days EXCEPT !.contradicted = IF contradicted = {} THEN @ ELSE @ + 1]
  BY DEF UpdateStatus
<1>2. days' \in [closed : Nat, missed : Nat, contradicted : Nat]
  <2> HIDE DEF contradicted
  <2>1. CASE contradicted = {}
    BY <1>1, <2>1 DEF RowsTyped
  <2>2. CASE contradicted # {}
    <3>1. days' = [days EXCEPT !.contradicted = days.contradicted + 1]
      BY <1>1, <2>2
    <3>2. days \in [closed : Nat, missed : Nat, contradicted : Nat]
      BY DEF RowsTyped
    <3> QED BY <3>1, <3>2
  <2> QED BY <2>1, <2>2
<1>3. ASSUME NEW id \in DOMAIN rows
      PROVE  /\ rows'[id] \in LogRow /\ Becomes(rows[id], rows'[id])
             /\ rows'[id].qid = rows[id].qid /\ rows'[id].old = rows[id].old
             /\ id \in hit => rows'[id].status = st
             /\ id \notin hit => rows'[id] = rows[id]
  <2>1. CASE id \notin hit
    <3>1. rows'[id] = rows[id]
      BY <1>1, <2>1
    <3> QED BY <2>1, <3>1, RowFacts DEF Becomes
  <2>2. CASE id \in hit
    <3> DEFINE w == IF id \in contradicted THEN "reconcile-contradicted" ELSE rows[id].reason
    <3>1. rows'[id] = [rows[id] EXCEPT !.status = st, !.reason = w]
      BY <1>1, <2>2
    <3>2. w \in {"", "reconcile", "reconcile-contradicted"}
      BY RowFacts DEF LogRow
    <3>3. rows[id].status # "gone" /\ st \in Status \ {"rejected"}
      BY <2>2 DEF NewestRow, Status
    <3> HIDE DEF w
    <3>4. /\ rows'[id] \in LogRow /\ Becomes(rows[id], rows'[id]) /\ rows'[id].status = st
          /\ rows'[id].qid = rows[id].qid /\ rows'[id].old = rows[id].old
      <4>1. rows[id] \in LogRow
        BY RowFacts
      <4> HIDE DEF hit, contradicted
      <4> QED BY <3>1, <3>2, <3>3, <4>1 DEF LogRow, Becomes, Status
    <3> QED BY <2>2, <3>4
  <2> QED BY <2>1, <2>2
<1> HIDE DEF hit, contradicted
<1>4. rows' \in Seq(LogRow) /\ Len(rows') = Len(rows)
  <2>1. rows' = [id \in DOMAIN rows |-> rows'[id]]
    BY <1>1
  <2> QED BY <1>3, <2>1, SameLength
<1> QED BY <1>2, <1>3, <1>4, RowFacts DEF hit, SameRows, RowsKeep

\* A change row by row that keeps each row's type.
LEMMA RowByRow ==
  ASSUME RowsTyped, rows' = [id \in DOMAIN rows |-> rows'[id]],
         \A id \in DOMAIN rows : rows'[id] \in LogRow /\ Becomes(rows[id], rows'[id])
  PROVE  SameRows
<1>1. rows' \in Seq(LogRow) /\ Len(rows') = Len(rows)
  BY SameLength
<1> QED BY <1>1, RowFacts DEF SameRows, RowsKeep

\* The handler of an expiry line.
LEMMA ExpireMoves ==
  ASSUME RowsTyped, NEW q \in QueueID, ExpireMessage(q)
  PROVE  /\ SameRows /\ UNCHANGED days
         /\ \A id \in DOMAIN rows :
              LET hit == Open(id) /\ \E r \in Recipient : id \in NewestRow(q, r) IN
              /\ rows'[id].qid = rows[id].qid /\ rows'[id].old = rows[id].old
              /\ hit => rows'[id].status = "bounced"
              /\ ~hit => rows'[id] = rows[id]
<1>1. /\ rows' = [id \in DOMAIN rows |->
                    IF Open(id) /\ id \in UNION {NewestRow(q, r) : r \in Recipient}
                    THEN [rows[id] EXCEPT !.status = "bounced"] ELSE rows[id]]
      /\ UNCHANGED days
  BY DEF ExpireMessage
<1>2. ASSUME NEW id \in DOMAIN rows
      PROVE  LET hit == Open(id) /\ \E r \in Recipient : id \in NewestRow(q, r) IN
             /\ rows'[id] \in LogRow /\ Becomes(rows[id], rows'[id])
             /\ rows'[id].qid = rows[id].qid /\ rows'[id].old = rows[id].old
             /\ hit => rows'[id].status = "bounced"
             /\ ~hit => rows'[id] = rows[id]
  <2>1. rows[id] \in LogRow
    BY RowFacts
  <2>2. CASE Open(id) /\ \E r \in Recipient : id \in NewestRow(q, r)
    <3>1. rows'[id] = [rows[id] EXCEPT !.status = "bounced"]
      BY <1>1, <2>2
    <3>2. rows[id].status # "gone"
      BY <2>2 DEF Open, OpenStatus
    <3> QED BY <2>1, <2>2, <3>1, <3>2 DEF LogRow, Becomes, Status
  <2>3. CASE ~(Open(id) /\ \E r \in Recipient : id \in NewestRow(q, r))
    <3>1. rows'[id] = rows[id]
      BY <1>1, <2>3
    <3> QED BY <2>1, <2>3, <3>1 DEF Becomes
  <2> QED BY <2>2, <2>3
<1>3. SameRows
  <2>1. rows' = [id \in DOMAIN rows |-> rows'[id]]
    BY <1>1
  <2> QED BY <1>2, <2>1, RowByRow
<1> QED BY <1>1, <1>2, <1>3

\* The handler of a line with a Message-ID.
LEMMA TakeMoves ==
  ASSUME RowsTyped, NEW l \in LogLine, TakeAwaited(l)
  PROVE  /\ SameRows /\ UNCHANGED days /\ awaited' \subseteq awaited
         /\ \A id \in DOMAIN rows :
              /\ rows'[id].status = rows[id].status /\ rows'[id].old = rows[id].old
              /\ rows'[id].qid # rows[id].qid =>
                   id \in l.about /\ ~rows[id].old /\ rows[id].qid = NoID /\ rows'[id].qid = l.qid
<1>1. /\ rows' = [id \in DOMAIN rows |->
                    IF id \in l.about \cap awaited /\ ~rows[id].old /\ rows[id].qid = NoID
                       /\ rows[id].status # "gone"
                    THEN [rows[id] EXCEPT !.qid = l.qid] ELSE rows[id]]
      /\ awaited' \subseteq awaited /\ UNCHANGED days
  BY DEF TakeAwaited
<1>2. ASSUME NEW id \in DOMAIN rows
      PROVE  /\ rows'[id] \in LogRow /\ Becomes(rows[id], rows'[id])
             /\ rows'[id].status = rows[id].status /\ rows'[id].old = rows[id].old
             /\ rows'[id].qid # rows[id].qid =>
                   id \in l.about /\ ~rows[id].old /\ rows[id].qid = NoID /\ rows'[id].qid = l.qid
  <2>1. rows[id] \in LogRow /\ l.qid \in QueueID
    BY RowFacts DEF LogLine
  <2>2. CASE rows'[id] = rows[id]
    BY <2>1, <2>2 DEF Becomes
  <2>3. CASE id \in l.about /\ ~rows[id].old /\ rows[id].qid = NoID /\ rows'[id] = [rows[id] EXCEPT !.qid = l.qid]
    BY <2>1, <2>3 DEF LogRow, Becomes
  <2> QED BY <1>1, <2>2, <2>3
<1>3. SameRows
  <2>1. rows' = [id \in DOMAIN rows |-> rows'[id]]
    BY <1>1
  <2> QED BY <1>2, <2>1, RowByRow
<1> QED BY <1>1, <1>2, <1>3

\* One row gets a new value.
LEMMA OneRowMoves ==
  ASSUME RowsTyped, NEW id \in DOMAIN rows, NEW b \in LogRow, rows' = [rows EXCEPT ![id] = b], Becomes(rows[id], b)
  PROVE  /\ SameRows /\ rows'[id] = b
         /\ \A o \in DOMAIN rows \ {id} : rows'[o] = rows[o]
<1>1. /\ DOMAIN rows' = DOMAIN rows /\ rows'[id] = b
      /\ \A o \in DOMAIN rows \ {id} : rows'[o] = rows[o]
  BY RowFacts
<1>2. \A o \in DOMAIN rows : rows'[o] \in LogRow /\ Becomes(rows[o], rows'[o])
  BY <1>1, RowFacts DEF Becomes
<1>3. rows' = [o \in DOMAIN rows |-> rows'[o]]
  OBVIOUS
<1> QED BY <1>1, <1>2, <1>3, RowByRow

\* The sweep closes a row that is still open.
LEMMA CloseMoves ==
  ASSUME RowsTyped, NEW id \in DOMAIN rows, rows' = CloseUnreported(id)
  PROVE  /\ SameRows
         /\ \A o \in DOMAIN rows :
              /\ rows'[o].qid = rows[o].qid /\ rows'[o].old = rows[o].old
              /\ rows'[o] # rows[o] => o = id /\ Open(o) /\ rows'[o].status = "bounced"
<1>1. rows[id] \in LogRow
  BY RowFacts
<1>2. CASE ~Open(id)
  <2>1. rows' = rows
    BY <1>2 DEF CloseUnreported
  <2> QED BY <2>1, RowFacts DEF SameRows, RowsKeep, Becomes, RowsTyped
<1>3. CASE Open(id)
  <2> DEFINE b == [rows[id] EXCEPT !.status = "bounced", !.reason = "reconcile"]
  <2>1. b \in LogRow /\ Becomes(rows[id], b) /\ b.status = "bounced" /\ b.qid = rows[id].qid /\ b.old = rows[id].old
    BY <1>1, <1>3 DEF LogRow, Becomes, Status, Open, OpenStatus
  <2>2. rows' = [rows EXCEPT ![id] = b]
    BY <1>3 DEF CloseUnreported
  <2> HIDE DEF b
  <2> QED BY <1>3, <2>1, <2>2, OneRowMoves
<1> QED BY <1>2, <1>3

\* What the sweep does of test messages nobody heard of.
LEMMA CloseTestsMoves ==
  ASSUME RowsTyped, CloseUnmatchedTestMessages
  PROVE  /\ SameRows
         /\ \A o \in DOMAIN rows :
              /\ rows'[o].qid = rows[o].qid /\ rows'[o].old = rows[o].old
              /\ rows'[o] # rows[o] => Open(o) /\ rows[o].qid = NoID /\ rows'[o].status = "bounced"
<1>1. rows' = [id \in DOMAIN rows |->
                 IF rows[id].test /\ rows[id].qid = NoID /\ rows[id].old /\ rows[id].status = "queued"
                 THEN [rows[id] EXCEPT !.status = "bounced", !.reason = "reconcile"] ELSE rows[id]]
  BY DEF CloseUnmatchedTestMessages
<1>2. ASSUME NEW o \in DOMAIN rows
      PROVE  /\ rows'[o] \in LogRow /\ Becomes(rows[o], rows'[o])
             /\ rows'[o].qid = rows[o].qid /\ rows'[o].old = rows[o].old
             /\ rows'[o] # rows[o] => Open(o) /\ rows[o].qid = NoID /\ rows'[o].status = "bounced"
  <2>1. rows[o] \in LogRow
    BY RowFacts
  <2>2. CASE rows'[o] = rows[o]
    BY <2>1, <2>2 DEF Becomes
  <2>3. CASE /\ rows[o].qid = NoID /\ rows[o].status = "queued"
             /\ rows'[o] = [rows[o] EXCEPT !.status = "bounced", !.reason = "reconcile"]
    BY <2>1, <2>3 DEF LogRow, Becomes, Status, Open, OpenStatus
  <2> QED BY <1>1, <2>2, <2>3
<1>3. SameRows
  <2>1. rows' = [id \in DOMAIN rows |-> rows'[id]]
    BY <1>1
  <2> QED BY <1>2, <2>1, RowByRow
<1> QED BY <1>2, <1>3

\* Rows at the end of the retention go, with all before them.
LEMMA PruneMoves ==
  ASSUME RowsTyped, NEW id, Prune(id)
  PROVE  /\ SameRows /\ id \in DOMAIN rows
         /\ \A o \in DOMAIN rows :
              /\ rows'[o].qid = rows[o].qid /\ rows'[o].old = rows[o].old
              /\ o <= id => rows'[o].status = "gone"
              /\ ~(o <= id) => rows'[o] = rows[o]
<1>1. /\ rows' = [o \in DOMAIN rows |-> IF o <= id THEN [rows[o] EXCEPT !.status = "gone"] ELSE rows[o]]
      /\ id \in DOMAIN rows
  BY DEF Prune
<1>2. ASSUME NEW o \in DOMAIN rows
      PROVE  /\ rows'[o] \in LogRow /\ Becomes(rows[o], rows'[o])
             /\ rows'[o].qid = rows[o].qid /\ rows'[o].old = rows[o].old
             /\ o <= id => rows'[o].status = "gone"
             /\ ~(o <= id) => rows'[o] = rows[o]
  <2>1. rows[o] \in LogRow
    BY RowFacts
  <2>2. CASE o <= id
    <3>1. rows'[o] = [rows[o] EXCEPT !.status = "gone"]
      BY <1>1, <2>2
    <3> QED BY <2>1, <2>2, <3>1 DEF LogRow, Becomes, Status
  <2>3. CASE ~(o <= id)
    <3>1. rows'[o] = rows[o]
      BY <1>1, <2>3
    <3> QED BY <2>1, <2>3, <3>1 DEF Becomes
  <2> QED BY <2>2, <2>3
<1>3. SameRows
  <2>1. rows' = [o \in DOMAIN rows |-> rows'[o]]
    BY <1>1
  <2> QED BY <1>2, <2>1, RowByRow
<1> QED BY <1>1, <1>2, <1>3

\* Time passes for a row that is not on its way in.
LEMMA AgeMoves ==
  ASSUME RowsTyped, NEW id, Age(id)
  PROVE  /\ SameRows /\ id \in DOMAIN rows /\ \A q \in QueueID : id \notin RowsOf(arriving[q])
         /\ \A o \in DOMAIN rows :
              /\ rows'[o].qid = rows[o].qid /\ rows'[o].status = rows[o].status
              /\ rows'[o] # rows[o] => o = id
<1>1. id \in DOMAIN rows /\ rows' = [rows EXCEPT ![id].old = TRUE] /\ \A q \in QueueID : id \notin RowsOf(arriving[q])
  BY DEF Age
<1> DEFINE b == [rows[id] EXCEPT !.old = TRUE]
<1>2. b \in LogRow /\ Becomes(rows[id], b) /\ b.status = rows[id].status /\ b.qid = rows[id].qid
  BY <1>1, RowFacts DEF LogRow, Becomes
<1>3. rows' = [rows EXCEPT ![id] = b]
  BY <1>1
<1> HIDE DEF b
<1> QED BY <1>1, <1>2, <1>3, OneRowMoves

\* Postfix did not take a test message.
LEMMA RefusedMoves ==
  ASSUME RowsTyped, NEW id, TestRefused(id)
  PROVE  /\ SameRows /\ id \in testing /\ testing' = testing \ {id} /\ awaited' \subseteq awaited
         /\ \A o \in DOMAIN rows :
              /\ rows'[o].qid = rows[o].qid /\ rows'[o].old = rows[o].old
              /\ rows'[o] # rows[o] => o = id /\ rows'[o].status = "gone"
<1>1. id \in testing /\ id \in DOMAIN rows /\ testing' = testing \ {id} /\ awaited' \subseteq awaited
  BY DEF TestRefused, RowsTyped
<1>2. CASE id \notin awaited
  <2>1. rows' = rows
    BY <1>2 DEF TestRefused
  <2> QED BY <1>1, <2>1, RowFacts DEF SameRows, RowsKeep, Becomes, RowsTyped
<1>3. CASE id \in awaited
  <2> DEFINE b == [rows[id] EXCEPT !.status = "gone"]
  <2>1. b \in LogRow /\ Becomes(rows[id], b) /\ b.status = "gone" /\ b.qid = rows[id].qid /\ b.old = rows[id].old
    BY <1>1, RowFacts DEF LogRow, Becomes, Status
  <2>2. rows' = [rows EXCEPT ![id] = b]
    BY <1>3 DEF TestRefused
  <2> HIDE DEF b
  <2> QED BY <1>1, <2>1, <2>2, OneRowMoves
<1> QED BY <1>2, <1>3

\* A row at the end.
LEMMA RowAppended ==
  ASSUME RowsTyped, Len(rows) < MaxRows, NEW b \in LogRow, rows' = Append(rows, b)
  PROVE  /\ rows' \in Seq(LogRow) /\ Len(rows') = Len(rows) + 1 /\ RowsKeep
         /\ rows'[Len(rows) + 1] = b
         /\ \A o \in DOMAIN rows : rows'[o] = rows[o]
<1>1. rows \in Seq(LogRow)
  BY DEF RowsTyped
<1>2. /\ rows' \in Seq(LogRow) /\ Len(rows') = Len(rows) + 1 /\ rows'[Len(rows) + 1] = b
      /\ \A o \in 1 .. Len(rows) : rows'[o] = rows[o]
  BY <1>1, AppendProperties
<1> QED BY <1>2, RowFacts DEF RowsKeep, Becomes

\* The rows the journal milter gives the first n recipients of a message.
RowsGiven(q, rs, n, to) ==
    /\ rows' \in Seq(LogRow) /\ Len(rows') = Len(rows) + n /\ RowsKeep
    /\ \A o \in DOMAIN rows : rows'[o] = rows[o]
    /\ \A i \in 1 .. n : LET b == rows'[Len(rows) + i] IN
         b.qid = q /\ b.rcpt = to[i] /\ b.status = "queued" /\ b.old = FALSE
    /\ arriving' = [arriving EXCEPT ![q] = Rowed(rs, n, to)]

LEMMA AcceptMoves ==
  ASSUME RowsTyped, NEW q \in QueueID, NEW rs \in SUBSET Recipient, Accept(q, rs)
  PROVE  \E n \in 0 .. MaxRows - Len(rows) : \E to \in [1 .. n -> rs] : RowsGiven(q, rs, n, to)
<1>1. PICK n \in 0 .. MaxRows - Len(rows) : \E to \in [1 .. n -> rs] :
        /\ \A i, k \in 1 .. n : to[i] = to[k] => i = k
        /\ rows' = rows \o [i \in 1 .. n |-> NewRow(q, to[i], "queued", FALSE)]
        /\ arriving' = [arriving EXCEPT ![q] = Rowed(rs, n, to)]
  BY Zenon DEF Accept
<1>2. PICK to \in [1 .. n -> rs] :
        /\ \A i, k \in 1 .. n : to[i] = to[k] => i = k
        /\ rows' = rows \o [i \in 1 .. n |-> NewRow(q, to[i], "queued", FALSE)]
        /\ arriving' = [arriving EXCEPT ![q] = Rowed(rs, n, to)]
  BY <1>1
<1> DEFINE new == [i \in 1 .. n |-> NewRow(q, to[i], "queued", FALSE)]
<1>3. n \in Nat /\ rows \in Seq(LogRow) /\ Len(rows) \in Nat
  BY RowFacts, LogBounds DEF RowsTyped
<1>4. \A i \in 1 .. n : LET b == new[i] IN
        b \in LogRow /\ b.qid = q /\ b.rcpt = to[i] /\ b.status = "queued" /\ b.old = FALSE
  <2> SUFFICES ASSUME NEW i \in 1 .. n
               PROVE  LET b == NewRow(q, to[i], "queued", FALSE) IN
                      b \in LogRow /\ b.qid = q /\ b.rcpt = to[i] /\ b.status = "queued" /\ b.old = FALSE
    OBVIOUS
  <2>1. to[i] \in Recipient /\ q \in QueueID \cup {NoID} /\ "queued" \in Status /\ FALSE \in BOOLEAN
    BY DEF Status
  <2> QED BY <2>1 DEF NewRow, LogRow
<1>5. new \in Seq(LogRow) /\ Len(new) = n
  <2>1. new \in [1 .. n -> LogRow]
    BY <1>4
  <2> HIDE DEF new
  <2> QED BY <1>3, <2>1, FunIsSeq
<1>6. rows' = rows \o new
  BY <1>2
<1> HIDE DEF new
<1>7. /\ rows' \in Seq(LogRow) /\ Len(rows') = Len(rows) + n
      /\ \A o \in 1 .. Len(rows) : rows'[o] = rows[o]
      /\ \A i \in 1 .. n : rows'[Len(rows) + i] = new[i]
  <2>1. /\ rows' \in Seq(LogRow) /\ Len(rows') = Len(rows) + Len(new)
        /\ \A i \in 1 .. Len(rows) + Len(new) : rows'[i] = IF i <= Len(rows) THEN rows[i] ELSE new[i - Len(rows)]
    BY <1>3, <1>5, <1>6, ConcatProperties
  <2>2. ASSUME NEW i \in 1 .. n PROVE rows'[Len(rows) + i] = new[i]
    BY <1>3, <1>5, <2>1
  <2> QED BY <1>3, <1>5, <2>1, <2>2
<1>8. \A o \in DOMAIN rows : rows'[o] = rows[o]
  BY <1>7, RowFacts
<1>9. RowsKeep
  BY <1>3, <1>7, <1>8, RowFacts DEF RowsKeep, Becomes
<1>10. \A i \in 1 .. n : LET b == rows'[Len(rows) + i] IN
         b.qid = q /\ b.rcpt = to[i] /\ b.status = "queued" /\ b.old = FALSE
  BY <1>4, <1>7
<1> QED BY <1>2, <1>7, <1>8, <1>9, <1>10 DEF RowsGiven

-----------------------------------------------------------------------------
(* Types                                                                   *)

\* A line at the end of the log.
LEMMA LineAppend ==
  ASSUME PostfixTyped, NEW l \in LogLine, mailLog' = Append(mailLog, l), Len(mailLog) < MaxLog
  PROVE  /\ mailLog' \in Seq(LogLine) /\ Len(mailLog') <= MaxLog /\ Len(mailLog') = Len(mailLog) + 1
         /\ mailLog'[Len(mailLog) + 1] = l
         /\ \A i \in DOMAIN mailLog : mailLog'[i] = mailLog[i]
<1>1. mailLog \in Seq(LogLine)
  BY DEF PostfixTyped
<1>2. /\ mailLog' \in Seq(LogLine) /\ Len(mailLog') = Len(mailLog) + 1 /\ mailLog'[Len(mailLog) + 1] = l
      /\ \A i \in 1 .. Len(mailLog) : mailLog'[i] = mailLog[i]
  BY <1>1, AppendProperties
<1> QED BY <1>2, LineFacts, LogBounds

LEMMA LineAppended ==
  ASSUME PostfixTyped, NEW kind \in {"delivery", "expiry", "message-id"}, NEW q \in QueueID,
         NEW r \in Recipient \cup {NoID}, NEW st \in {"", "sent", "deferred", "bounced"},
         NEW about \in SUBSET RowID, kind = "delivery" => st # "", LogOne(kind, q, r, st, about)
  PROVE  /\ mailLog' \in Seq(LogLine) /\ Len(mailLog') <= MaxLog /\ Len(mailLog') = Len(mailLog) + 1
         /\ \A i \in DOMAIN mailLog : mailLog'[i] = mailLog[i]
         /\ LET l == mailLog'[Len(mailLog) + 1] IN
            l.kind = kind /\ l.qid = q /\ l.rcpt = r /\ l.status = st /\ l.about = about
<1>1. PICK l \in LogLine : /\ l.kind = kind /\ l.qid = q /\ l.rcpt = r /\ l.status = st /\ l.about = about
                           /\ mailLog' = Append(mailLog, l)
  BY DEF LogLine, LogOne
<1>2. Len(mailLog) < MaxLog
  BY DEF LogOne
<1> QED BY <1>1, <1>2, LineAppend

\* A place is a recipient and a row, or none.
LEMMA PlaceParts ==
  ASSUME NEW p \in Place
  PROVE  p = <<p[1], p[2]>> /\ p[1] \in Recipient /\ p[2] \in 0 .. MaxRows
  BY DEF Place

LEMMA RowsOfTyped ==
  ASSUME NEW ps \in SUBSET Place
  PROVE  RowsOf(ps) \in SUBSET RowID /\ \A id : id \in RowsOf(ps) <=> id # 0 /\ \E r \in Recipient : <<r, id>> \in ps
<1>1. \A id : id \in RowsOf(ps) <=> id # 0 /\ \E p \in ps : p[2] = id
  BY DEF RowsOf
<1>2. \A p \in ps : p = <<p[1], p[2]>> /\ p[1] \in Recipient /\ p[2] \in 0 .. MaxRows
  BY PlaceParts
<1>3. \A id : id \in RowsOf(ps) => id \in RowID
  BY <1>1, <1>2, LogBounds DEF RowID
<1>4. ASSUME NEW id, id # 0, NEW p \in ps, p[2] = id PROVE \E r \in Recipient : <<r, id>> \in ps
  BY <1>2, <1>4
<1>5. ASSUME NEW id, NEW r \in Recipient, <<r, id>> \in ps PROVE \E p \in ps : p[2] = id
  BY <1>5
<1>6. RowsOf(ps) \in SUBSET RowID
  BY <1>3
<1>7. \A id : id \in RowsOf(ps) <=> id # 0 /\ \E r \in Recipient : <<r, id>> \in ps
  BY <1>1, <1>4, <1>5
<1> QED BY <1>6, <1>7

\* Whom an acceptance puts on its way.
LEMMA RowedParts ==
  ASSUME RowsTyped, NEW rs \in SUBSET Recipient, NEW n \in 0 .. MaxRows - Len(rows), NEW to \in [1 .. n -> rs]
  PROVE  /\ Rowed(rs, n, to) \in SUBSET Place
         /\ \A r, id : <<r, id>> \in Rowed(rs, n, to) =>
              id = 0 \/ (id > Len(rows) /\ id - Len(rows) \in 1 .. n /\ r = to[id - Len(rows)])
<1>1. Len(rows) \in Nat /\ MaxRows \in Nat /\ n \in Nat
  BY RowFacts, LogBounds
<1>2. ASSUME NEW p \in Rowed(rs, n, to)
      PROVE  (\E i \in 1 .. n : p = <<to[i], Len(rows) + i>>) \/ \E r \in rs : p = <<r, 0>>
  BY <1>2 DEF Rowed
<1>3. Rowed(rs, n, to) \in SUBSET Place
  BY <1>1, <1>2 DEF Place
<1>4. \A r, id : <<r, id>> \in Rowed(rs, n, to) =>
         id = 0 \/ (id > Len(rows) /\ id - Len(rows) \in 1 .. n /\ r = to[id - Len(rows)])
  <2> SUFFICES ASSUME NEW r, NEW id
               PROVE  <<r, id>> \in Rowed(rs, n, to) =>
                        id = 0 \/ (id > Len(rows) /\ id - Len(rows) \in 1 .. n /\ r = to[id - Len(rows)])
    BY Zenon
  <2> HAVE <<r, id>> \in Rowed(rs, n, to)
  <2>0. CASE id = 0
    BY <2>0, Zenon
  <2>3. CASE id # 0
    <3>1. PICK i \in 1 .. n : <<r, id>> = <<to[i], Len(rows) + i>>
      BY <1>2, <2>3
    <3>2. r = to[i] /\ id = Len(rows) + i
      BY <3>1
    <3> QED BY <1>1, <3>2
  <2> QED BY <2>0, <2>3
<1> QED BY <1>3, <1>4

LEMMA PostfixTypes ==
  ASSUME PostfixTyped, RowsTyped, NEW q \in QueueID
  PROVE  /\ \A rs \in SUBSET Recipient : Accept(q, rs) => PostfixTyped'
         /\ \A r \in Recipient : RefuseFrom(q, r) => PostfixTyped'
         /\ Enqueue(q) => PostfixTyped'
         /\ Expire(q) => PostfixTyped'
         /\ Drop(q) => PostfixTyped'
         /\ \A p \in queue[q], st \in {"sent", "deferred", "bounced"} : Attempt(q, p, st) => PostfixTyped'
         /\ \A id \in testing : TestTaken(id, q) => PostfixTyped'
<1>1. ASSUME NEW rs \in SUBSET Recipient, Accept(q, rs) PROVE PostfixTyped'
  <2>1. PICK n \in 0 .. MaxRows - Len(rows) : \E to \in [1 .. n -> rs] : arriving' = [arriving EXCEPT ![q] = Rowed(rs, n, to)]
    BY <1>1, Zenon DEF Accept
  <2>4. PICK to \in [1 .. n -> rs] : arriving' = [arriving EXCEPT ![q] = Rowed(rs, n, to)]
    BY <2>1
  <2>2. Rowed(rs, n, to) \in SUBSET Place
    BY RowedParts
  <2>3. used' = used \cup {q} /\ UNCHANGED <<queue, mailLog>>
    BY <1>1 DEF Accept
  <2> QED BY <2>2, <2>3, <2>4 DEF PostfixTyped
<1>2. ASSUME NEW r \in Recipient, RefuseFrom(q, r) PROVE PostfixTyped'
  BY <1>2 DEF RefuseFrom, PostfixTyped
<1>3. ASSUME Enqueue(q) PROVE PostfixTyped'
  BY <1>3 DEF Enqueue, PostfixTyped
<1>4. ASSUME Expire(q) PROVE PostfixTyped'
  <2>1. RowsOf(queue[q]) \in SUBSET RowID
    BY RowsOfTyped DEF PostfixTyped
  <2>2. mailLog' \in Seq(LogLine) /\ Len(mailLog') <= MaxLog
    BY <1>4, <2>1, LineAppended DEF Expire
  <2> QED BY <1>4, <2>2 DEF Expire, PostfixTyped
<1>5. ASSUME Drop(q) PROVE PostfixTyped'
  BY <1>5 DEF Drop, PostfixTyped
<1>6. ASSUME NEW p \in queue[q], NEW st \in {"sent", "deferred", "bounced"}, Attempt(q, p, st) PROVE PostfixTyped'
  <2>1. {p} \in SUBSET Place
    BY DEF PostfixTyped
  <2>2. RowsOf({p}) \in SUBSET RowID /\ p[1] \in Recipient
    BY <2>1, RowsOfTyped, PlaceParts
  <2>3. LogOne("delivery", q, p[1], st, RowsOf({p}))
    BY <1>6 DEF Attempt
  <2>4. mailLog' \in Seq(LogLine) /\ Len(mailLog') <= MaxLog
    BY <2>2, <2>3, LineAppended
  <2> QED BY <1>6, <2>4 DEF Attempt, PostfixTyped
<1>7. ASSUME NEW id \in testing, TestTaken(id, q) PROVE PostfixTyped'
  <2>1. id \in RowID /\ id \in DOMAIN rows
    BY RowFacts DEF RowsTyped
  <2>2. <<rows[id].rcpt, id>> \in Place
    <3>1. rows[id].rcpt \in Recipient
      BY <2>1, RowFacts DEF LogRow
    <3>2. id \in 0 .. MaxRows
      BY <2>1, LogBounds DEF RowID
    <3> QED BY <3>1, <3>2 DEF Place
  <2>3. LogOne("message-id", q, NoID, "", {id})
    BY <1>7 DEF TestTaken
  <2>4. mailLog' \in Seq(LogLine) /\ Len(mailLog') <= MaxLog
    <3>1. {id} \in SUBSET RowID
      BY <2>1
    <3> QED BY <2>3, <3>1, LineAppended
  <2> QED BY <1>7, <2>2, <2>4 DEF TestTaken, PostfixTyped
<1> QED BY <1>1, <1>2, <1>3, <1>4, <1>5, <1>6, <1>7

\* What a step that leaves the log's length, or adds to it, keeps of the tailer.
LEMMA LongerLog ==
  ASSUME PostfixTyped, TailerTyped, PostfixTyped', Len(mailLog') >= Len(mailLog), UNCHANGED <<pos, saved, caughtUp, witnessed>>
  PROVE  TailerTyped'
<1>1. Len(mailLog) \in Nat /\ Len(mailLog') \in Nat /\ DOMAIN mailLog = 1 .. Len(mailLog) /\ DOMAIN mailLog' = 1 .. Len(mailLog')
  BY DEF PostfixTyped
<1> QED BY <1>1 DEF TailerTyped, witnessed

LEMMA MoreRows ==
  ASSUME RowsTyped, SweepTyped, RowsTyped', Len(rows') >= Len(rows), UNCHANGED sweep
  PROVE  SweepTyped'
<1>1. DOMAIN rows \subseteq DOMAIN rows'
  <2>1. DOMAIN rows' = 1 .. Len(rows') /\ DOMAIN rows = 1 .. Len(rows) /\ Len(rows) \in Nat /\ Len(rows') \in Nat
    BY DEF RowsTyped
  <2> QED BY <2>1
<1> QED BY <1>1 DEF SweepTyped

LEMMA SameRowsTyped ==
  ASSUME RowsTyped, SameRows, days' \in [closed : Nat, missed : Nat, contradicted : Nat],
         awaited' \subseteq awaited, testing' \subseteq testing
  PROVE  RowsTyped' /\ DOMAIN rows' = DOMAIN rows /\ Len(rows') >= Len(rows)
<1>1. DOMAIN rows' = 1 .. Len(rows') /\ DOMAIN rows = 1 .. Len(rows) /\ Len(rows') = Len(rows) /\ Len(rows) \in Nat
  BY DEF RowsTyped, SameRows
<1> QED BY <1>1 DEF RowsTyped, SameRows

\* Postfix's steps leave the types.
LEMMA PostfixStepTyped ==
  ASSUME DeliveryTypeOK, Postfix
  PROVE  DeliveryTypeOK'
<1> USE DEF DeliveryTypeOK
<1>d. /\ DOMAIN rows = 1 .. Len(rows) /\ Len(rows) \in Nat /\ rows \in Seq(LogRow)
      /\ awaited \subseteq DOMAIN rows /\ testing \subseteq DOMAIN rows
  BY RowFacts DEF RowsTyped
<1>1. ASSUME NEW q \in QueueID, NEW rs \in SUBSET Recipient, Accept(q, rs)
      PROVE  DeliveryTypeOK'
  <2>1. UNCHANGED <<mailLog, saved, days, panel, witnessed>>
    BY <1>1 DEF Accept
  <2>2. rows' \in Seq(LogRow) /\ Len(rows') >= Len(rows) /\ Len(rows') <= MaxRows
    <3>1. \E n \in 0 .. MaxRows - Len(rows) : rows' \in Seq(LogRow) /\ Len(rows') = Len(rows) + n
      BY <1>1, AcceptMoves DEF RowsGiven
    <3> QED BY <1>d, <3>1, LogBounds
  <2>3. DOMAIN rows \subseteq DOMAIN rows'
    BY <1>d, <2>2
  <2>4. RowsTyped'
    BY <2>1, <2>2, <2>3 DEF RowsTyped, panel
  <2>5. PostfixTyped'
    BY <1>1, PostfixTypes
  <2>6. TailerTyped'
    BY <2>1, <2>5, LongerLog, LineFacts DEF panel
  <2>7. SweepTyped'
    BY <2>1, <2>2, <2>4, MoreRows DEF panel
  <2> QED BY <2>4, <2>5, <2>6, <2>7
<1>2. ASSUME NEW b \in LogRow, rows' = Append(rows, b), Len(rows) < MaxRows, PostfixTyped',
             UNCHANGED <<mailLog, saved, days, pos, caughtUp, sweep, witnessed>>,
             awaited' \subseteq awaited \cup {Len(rows) + 1}, testing' \subseteq testing \cup {Len(rows) + 1}
      PROVE  DeliveryTypeOK'
  <2>1. rows' \in Seq(LogRow) /\ Len(rows') = Len(rows) + 1
    BY <1>2, RowAppended
  <2>2. DOMAIN rows' = 1 .. Len(rows) + 1 /\ Len(rows') <= MaxRows /\ Len(rows') >= Len(rows)
    BY <1>2, <1>d, <2>1, LogBounds
  <2>3. RowsTyped'
    BY <1>2, <1>d, <2>1, <2>2 DEF RowsTyped
  <2>4. TailerTyped'
    BY <1>2, LongerLog, LineFacts
  <2>5. SweepTyped'
    BY <1>2, <2>2, <2>3, MoreRows
  <2> QED BY <1>2, <2>3, <2>4, <2>5
<1>3. ASSUME NEW q \in QueueID, NEW r \in Recipient, RefuseFrom(q, r)
      PROVE  DeliveryTypeOK'
  <2>1. NewRow(q, r, "rejected", FALSE) \in LogRow
    BY DEF NewRow, LogRow, Status
  <2>2. PostfixTyped'
    BY <1>3, PostfixTypes
  <2> QED BY <1>2, <1>3, <2>1, <2>2 DEF RefuseFrom, panel
<1>4. ASSUME NEW r \in Recipient, SendTest(r)
      PROVE  DeliveryTypeOK'
  <2>1. NewRow(NoID, r, "queued", TRUE) \in LogRow
    BY DEF NewRow, LogRow, Status
  <2>2. PostfixTyped'
    BY <1>4 DEF SendTest, postfix, PostfixTyped
  <2> QED BY <1>2, <1>4, <2>1, <2>2 DEF SendTest, postfix
<1>5. ASSUME PostfixTyped', Len(mailLog') >= Len(mailLog), testing' \subseteq testing,
             UNCHANGED <<rows, saved, days, pos, caughtUp, awaited, sweep, witnessed>>
      PROVE  DeliveryTypeOK'
  <2>1. RowsTyped' /\ SweepTyped'
    BY <1>5 DEF RowsTyped, SweepTyped
  <2>2. TailerTyped'
    BY <1>5, LongerLog
  <2> QED BY <1>5, <2>1, <2>2
<1>6. ASSUME NEW q \in QueueID, Enqueue(q) \/ Drop(q) PROVE DeliveryTypeOK'
  <2>1. PostfixTyped'
    BY <1>6, PostfixTypes
  <2> QED BY <1>5, <1>6, <2>1, LineFacts DEF Enqueue, Drop, panel
<1>7. ASSUME NEW kind, NEW q, NEW r, NEW st, NEW about, LogOne(kind, q, r, st, about)
      PROVE  Len(mailLog') >= Len(mailLog)
  BY <1>7 DEF LogOne, PostfixTyped
<1>8. ASSUME NEW q \in QueueID, Expire(q) PROVE DeliveryTypeOK'
  <2>1. PostfixTyped'
    BY <1>8, PostfixTypes
  <2> QED BY <1>5, <1>7, <1>8, <2>1 DEF Expire, panel
<1>9. ASSUME NEW q \in QueueID, NEW p \in queue[q], NEW st \in {"sent", "deferred", "bounced"}, Attempt(q, p, st)
      PROVE  DeliveryTypeOK'
  <2>1. PostfixTyped'
    BY <1>9, PostfixTypes
  <2> QED BY <1>5, <1>7, <1>9, <2>1 DEF Attempt, panel
<1>10. ASSUME NEW q \in QueueID, NEW id \in testing, TestTaken(id, q) PROVE DeliveryTypeOK'
  <2>1. PostfixTyped'
    BY <1>10, PostfixTypes
  <2> QED BY <1>5, <1>7, <1>10, <2>1 DEF TestTaken
<1>11. ASSUME NEW id \in testing, TestRefused(id) PROVE DeliveryTypeOK'
  <2>1. UNCHANGED <<postfix, saved, days, pos, caughtUp, sweep, witnessed>>
    BY <1>11 DEF TestRefused
  <2>2. SameRows /\ testing' \subseteq testing /\ awaited' \subseteq awaited
    BY <1>11, RefusedMoves
  <2>3. RowsTyped' /\ Len(rows') >= Len(rows)
    BY <2>1, <2>2, SameRowsTyped DEF RowsTyped
  <2>4. PostfixTyped' /\ TailerTyped'
    BY <2>1 DEF PostfixTyped, TailerTyped, postfix, witnessed
  <2>5. SweepTyped'
    BY <2>1, <2>3, MoreRows
  <2> QED BY <2>3, <2>4, <2>5
<1> QED BY <1>1, <1>3, <1>4, <1>6, <1>8, <1>9, <1>10, <1>11 DEF Postfix

\* The line the tailer is at.
LEMMA NextLineFacts ==
  ASSUME PostfixTyped, TailerTyped, pos < Len(mailLog)
  PROVE  NextLine \in LogLine /\ pos + 1 \in DOMAIN mailLog /\ pos \in Nat /\ pos + 1 \in 1 .. Len(mailLog)
  BY LineFacts DEF TailerTyped, NextLine

LEMMA HandlerMoves ==
  ASSUME DeliveryTypeOK, HandleDelivery \/ HandleExpiry \/ HandleMessageID
  PROVE  /\ SameRows /\ days' \in [closed : Nat, missed : Nat, contradicted : Nat] /\ awaited' \subseteq awaited
         /\ pos < Len(mailLog) /\ pos' = pos + 1 /\ NextLine \in LogLine /\ UNCHANGED lost
         /\ UNCHANGED <<postfix, saved, caughtUp, testing, sweep, stops, base>>
<1> USE DEF DeliveryTypeOK
<1>1. /\ pos < Len(mailLog) /\ pos' = pos + 1 /\ UNCHANGED lost
      /\ UNCHANGED <<postfix, saved, caughtUp, testing, sweep, stops, base>>
  BY DEF HandleDelivery, HandleExpiry, HandleMessageID, Advance
<1>2. NextLine \in LogLine /\ NextLine.qid \in QueueID
  BY <1>1, NextLineFacts DEF LogLine
<1>3. CASE HandleDelivery
  <2>1. UpdateStatus(NextLine.qid, NextLine.rcpt, NextLine.status) /\ NextLine.kind = "delivery" /\ UNCHANGED awaited
    BY <1>3 DEF HandleDelivery
  <2>2. NextLine.status \in {"sent", "deferred", "bounced"}
    BY <1>2, <2>1 DEF LogLine
  <2>3. SameRows /\ days' \in [closed : Nat, missed : Nat, contradicted : Nat]
    BY <1>2, <2>1, <2>2, UpdateMoves
  <2> QED BY <1>1, <1>2, <2>1, <2>3
<1>4. CASE HandleExpiry
  <2>1. ExpireMessage(NextLine.qid) /\ UNCHANGED awaited
    BY <1>4 DEF HandleExpiry
  <2>2. SameRows /\ UNCHANGED days
    BY <1>2, <2>1, ExpireMoves
  <2> QED BY <1>1, <1>2, <2>1, <2>2 DEF RowsTyped
<1>5. CASE HandleMessageID
  <2>1. TakeAwaited(NextLine)
    BY <1>5 DEF HandleMessageID
  <2>2. SameRows /\ UNCHANGED days /\ awaited' \subseteq awaited
    BY <1>2, <2>1, TakeMoves
  <2> QED BY <1>1, <1>2, <2>2 DEF RowsTyped
<1> QED BY <1>3, <1>4, <1>5

LEMMA TailerStepTyped ==
  ASSUME DeliveryTypeOK, Tailer \/ SavePlace
  PROVE  DeliveryTypeOK'
<1> USE DEF DeliveryTypeOK
<1>0. /\ pos \in Nat /\ Len(mailLog) \in Nat /\ DOMAIN mailLog = 1 .. Len(mailLog) /\ saved \in Nat
      /\ saved <= pos /\ pos <= Len(mailLog) /\ base \in 0 .. Len(mailLog)
  BY LineFacts DEF TailerTyped
<1>1. ASSUME HandleDelivery \/ HandleExpiry \/ HandleMessageID PROVE DeliveryTypeOK'
  <2>1. /\ SameRows /\ days' \in [closed : Nat, missed : Nat, contradicted : Nat] /\ awaited' \subseteq awaited
        /\ pos < Len(mailLog) /\ pos' = pos + 1 /\ UNCHANGED lost
        /\ UNCHANGED <<postfix, saved, caughtUp, testing, sweep, stops, base>>
    BY <1>1, HandlerMoves
  <2>2. RowsTyped' /\ Len(rows') >= Len(rows)
    BY <2>1, SameRowsTyped
  <2>3. PostfixTyped'
    BY <2>1 DEF PostfixTyped, postfix
  <2>4. TailerTyped'
    BY <1>0, <2>1 DEF TailerTyped, postfix
  <2>5. SweepTyped'
    BY <2>1, <2>2, MoreRows
  <2> QED BY <2>2, <2>3, <2>4, <2>5
<1>2. ASSUME HandleFails PROVE DeliveryTypeOK'
  <2>1. /\ pos < Len(mailLog) /\ pos' = pos + 1 /\ UNCHANGED <<rows, days>> /\ lost' = lost \cup {pos + 1}
        /\ UNCHANGED <<postfix, saved, caughtUp, testing, sweep, stops, base>> /\ awaited' \subseteq awaited
    BY <1>2 DEF HandleFails, Advance
  <2>2. PostfixTyped' /\ RowsTyped' /\ SweepTyped'
    BY <2>1 DEF PostfixTyped, RowsTyped, SweepTyped, postfix
  <2>3. TailerTyped'
    BY <1>0, <2>1 DEF TailerTyped, postfix
  <2> QED BY <2>2, <2>3
<1>3. ASSUME CatchUp PROVE DeliveryTypeOK'
  BY <1>3 DEF CatchUp, PostfixTyped, RowsTyped, SweepTyped, TailerTyped, postfix, witnessed
<1>4. ASSUME SavePlace PROVE DeliveryTypeOK'
  <2>1. PostfixTyped' /\ RowsTyped' /\ SweepTyped'
    BY <1>4 DEF SavePlace, PostfixTyped, RowsTyped, SweepTyped, postfix, panel
  <2>2. TailerTyped'
    BY <1>0, <1>4 DEF SavePlace, TailerTyped, postfix, panel, witnessed
  <2> QED BY <2>1, <2>2
<1> QED BY <1>1, <1>2, <1>3, <1>4 DEF Tailer

\* Rows past the end of what the sweep does; its record.
LEMMA SweepStepTyped ==
  ASSUME DeliveryTypeOK, Sweep
  PROVE  DeliveryTypeOK'
<1> USE DEF DeliveryTypeOK
<1>0. UNCHANGED <<postfix, saved, pos, caughtUp, awaited, testing, witnessed>>
  BY DEF Sweep, SweepStep, SweepList, SweepNothing, SweepQueueIDs, SweepNoListing, SweepResultsInLog,
         SweepClose, SweepCloseFails, SweepCount, CloseUnmatchedTestMessages
<1>1. PostfixTyped' /\ TailerTyped'
  BY <1>0 DEF PostfixTyped, TailerTyped, postfix, witnessed
<1>2. Idle \in SweepState
  BY DEF Idle, SweepState
<1>i. /\ sweep \in SweepState /\ sweep.rows \subseteq DOMAIN rows /\ sweep.inLog \subseteq sweep.rows
      /\ sweep.missed <= sweep.closed /\ sweep.closed \in Nat /\ sweep.missed \in Nat /\ sweep.rows \subseteq RowID
      /\ DOMAIN rows \subseteq RowID
  BY RowFacts DEF SweepTyped, SweepState
<1>3. ASSUME UNCHANGED <<rows, days>> PROVE RowsTyped'
  BY <1>0, <1>3 DEF RowsTyped
<1>4. ASSUME sweep' \in SweepState, sweep'.rows \subseteq DOMAIN rows, sweep'.inLog = {},
             sweep'.missed = 0, sweep'.closed = 0, UNCHANGED <<rows, days>>
      PROVE  DeliveryTypeOK'
  BY <1>1, <1>3, <1>4 DEF SweepTyped
<1>5. ASSUME SweepList PROVE DeliveryTypeOK'
  <2>1. ListOpenOlderThan \in SUBSET DOMAIN rows
    BY DEF ListOpenOlderThan
  <2>2. sweep' \in SweepState /\ sweep'.rows = ListOpenOlderThan /\ sweep'.inLog = {} /\ sweep'.missed = 0 /\ sweep'.closed = 0
    <3>1. ListOpenOlderThan \in SUBSET RowID
      BY <1>i, <2>1
    <3> QED BY <1>5, <3>1 DEF SweepList, Idle, SweepState
  <2> QED BY <1>4, <1>5, <2>1, <2>2 DEF SweepList
<1>6. ASSUME sweep' = [Idle EXCEPT !.at = "tests"], UNCHANGED <<rows, days>> PROVE DeliveryTypeOK'
  <2>1. sweep' \in SweepState /\ sweep'.rows = {} /\ sweep'.inLog = {} /\ sweep'.missed = 0 /\ sweep'.closed = 0
    BY <1>6 DEF Idle, SweepState
  <2> QED BY <1>4, <1>6, <2>1
<1>7. ASSUME SweepQueueIDs PROVE DeliveryTypeOK'
  <2> DEFINE ids == {id \in sweep.rows : queue[rows[id].qid] = {}}
  <2>1. sweep' = [sweep EXCEPT !.at = "scan", !.rows = ids] /\ UNCHANGED <<rows, days>> /\ sweep.at = "listed"
    BY <1>7 DEF SweepQueueIDs
  <2>2. ids \subseteq sweep.rows
    OBVIOUS
  <2> HIDE DEF ids
  <2>3. /\ sweep' \in SweepState /\ sweep'.rows = ids /\ sweep'.inLog = sweep.inLog
        /\ sweep'.missed = sweep.missed /\ sweep'.closed = sweep.closed /\ sweep'.at = "scan"
    BY <1>i, <2>1, <2>2 DEF SweepState
  <2>4. sweep.inLog = {}
    BY <2>1 DEF SweepTyped
  <2> QED BY <1>1, <1>3, <1>i, <2>1, <2>2, <2>3, <2>4 DEF SweepTyped
<1>8. ASSUME SweepResultsInLog PROVE DeliveryTypeOK'
  <2> DEFINE ids == ResultsInLog(sweep.rows)
  <2>1. sweep' = [sweep EXCEPT !.at = "close", !.inLog = ids] /\ UNCHANGED <<rows, days>>
    BY <1>8 DEF SweepResultsInLog
  <2>2. ids \subseteq sweep.rows
    BY DEF ResultsInLog
  <2> HIDE DEF ids
  <2>3. /\ sweep' \in SweepState /\ sweep'.rows = sweep.rows /\ sweep'.inLog = ids
        /\ sweep'.missed = sweep.missed /\ sweep'.closed = sweep.closed /\ sweep'.at = "close"
    BY <1>i, <2>1, <2>2 DEF SweepState
  <2> QED BY <1>1, <1>3, <1>i, <2>1, <2>2, <2>3 DEF SweepTyped
<1>9. ASSUME NEW id \in RowID, SweepClose(id) PROVE DeliveryTypeOK'
  <2> DEFINE c == IF Open(id) THEN sweep.closed + 1 ELSE sweep.closed
             m == IF Open(id) /\ id \in sweep.inLog THEN sweep.missed + 1 ELSE sweep.missed
  <2>1. /\ sweep' = [sweep EXCEPT !.rows = sweep.rows \ {id}, !.inLog = sweep.inLog \ {id}, !.closed = c, !.missed = m]
        /\ UNCHANGED days /\ rows' = CloseUnreported(id) /\ sweep.at = "close" /\ id \in sweep.rows
    BY <1>9 DEF SweepClose
  <2>2. SameRows
    BY <1>i, <2>1, CloseMoves
  <2>3. RowsTyped' /\ DOMAIN rows' = DOMAIN rows
    BY <1>0, <2>1, <2>2, SameRowsTyped DEF RowsTyped
  <2>4. c \in Nat /\ m \in Nat /\ m <= c
    BY <1>i
  <2> HIDE DEF c, m
  <2>5. /\ sweep' \in SweepState /\ sweep'.rows = sweep.rows \ {id} /\ sweep'.inLog = sweep.inLog \ {id}
        /\ sweep'.closed = c /\ sweep'.missed = m /\ sweep'.at = "close"
    <3>1. sweep.rows \ {id} \in SUBSET RowID /\ sweep.inLog \ {id} \in SUBSET RowID
      BY <1>i
    <3> QED BY <1>i, <2>1, <2>4, <3>1 DEF SweepState
  <2> QED BY <1>1, <1>i, <2>3, <2>4, <2>5 DEF SweepTyped
<1>10. ASSUME NEW id \in RowID, SweepCloseFails(id) PROVE DeliveryTypeOK'
  <2>1. /\ sweep' = [sweep EXCEPT !.rows = sweep.rows \ {id}, !.inLog = sweep.inLog \ {id}]
        /\ UNCHANGED <<rows, days>> /\ sweep.at = "close"
    BY <1>10 DEF SweepCloseFails
  <2>2. /\ sweep' \in SweepState /\ sweep'.rows = sweep.rows \ {id} /\ sweep'.inLog = sweep.inLog \ {id}
        /\ sweep'.closed = sweep.closed /\ sweep'.missed = sweep.missed /\ sweep'.at = "close"
    <3>1. sweep.rows \ {id} \in SUBSET RowID /\ sweep.inLog \ {id} \in SUBSET RowID
      BY <1>i
    <3> QED BY <1>i, <2>1, <3>1 DEF SweepState
  <2> QED BY <1>1, <1>3, <1>i, <2>1, <2>2 DEF SweepTyped
<1>11. ASSUME SweepCount PROVE DeliveryTypeOK'
  <2>1. /\ days' = [days EXCEPT !.closed = days.closed + sweep.closed, !.missed = days.missed + sweep.missed]
        /\ sweep' = [Idle EXCEPT !.at = "tests"] /\ UNCHANGED rows
    BY <1>11 DEF SweepCount
  <2>2. days' \in [closed : Nat, missed : Nat, contradicted : Nat]
    <3>1. days \in [closed : Nat, missed : Nat, contradicted : Nat]
      BY DEF RowsTyped
    <3> DEFINE c == days.closed + sweep.closed
               m == days.missed + sweep.missed
    <3>2. c \in Nat /\ m \in Nat
      BY <1>i, <3>1
    <3>3. days' = [days EXCEPT !.closed = c, !.missed = m]
      BY <2>1
    <3> HIDE DEF c, m
    <3> QED BY <3>1, <3>2, <3>3
  <2>3. sweep' \in SweepState /\ sweep'.rows = {} /\ sweep'.inLog = {} /\ sweep'.missed = 0 /\ sweep'.closed = 0
    BY <2>1 DEF Idle, SweepState
  <2>4. RowsTyped'
    BY <1>0, <2>1, <2>2 DEF RowsTyped
  <2> QED BY <1>1, <2>3, <2>4 DEF SweepTyped
<1>12. ASSUME CloseUnmatchedTestMessages PROVE DeliveryTypeOK'
  <2>1. SameRows /\ sweep' = Idle /\ UNCHANGED days
    BY <1>12, CloseTestsMoves DEF CloseUnmatchedTestMessages
  <2>2. RowsTyped'
    BY <1>0, <2>1, SameRowsTyped DEF RowsTyped
  <2> QED BY <1>1, <1>2, <2>1, <2>2 DEF SweepTyped, Idle
<1> QED BY <1>5, <1>6, <1>7, <1>8, <1>9, <1>10, <1>11, <1>12 DEF Sweep, SweepNothing, SweepNoListing

LEMMA TimeStepTyped ==
  ASSUME DeliveryTypeOK, (\E id \in RowID : Age(id) \/ Prune(id)) \/ Restart
  PROVE  DeliveryTypeOK'
<1> USE DEF DeliveryTypeOK
<1>1. ASSUME NEW id \in RowID, Age(id) \/ Prune(id) PROVE DeliveryTypeOK'
  <2>1. UNCHANGED <<postfix, saved, days, panel, witnessed>>
    BY <1>1 DEF Age, Prune
  <2>2. SameRows
    BY <1>1, AgeMoves, PruneMoves
  <2>3. RowsTyped' /\ Len(rows') >= Len(rows)
    BY <2>1, <2>2, SameRowsTyped DEF RowsTyped, panel
  <2>4. PostfixTyped' /\ TailerTyped'
    BY <2>1 DEF PostfixTyped, TailerTyped, postfix, panel, witnessed
  <2>5. SweepTyped'
    BY <2>1, <2>3, MoreRows DEF panel
  <2> QED BY <2>3, <2>4, <2>5
<1>2. ASSUME Restart PROVE DeliveryTypeOK'
  <2>1. /\ stops < MaxStops /\ stops' = stops + 1 /\ caughtUp' = FALSE /\ awaited' = {} /\ sweep' = Idle
        /\ base' = Len(mailLog) /\ UNCHANGED <<postfix, rows, days, testing>>
    BY <1>2 DEF Restart
  <2>2. PICK p \in saved .. Len(mailLog) : pos' = p /\ saved' = p /\ lost' = lost \cup (saved + 1 .. p)
    BY <1>2 DEF Restart
  <2>3. PostfixTyped' /\ RowsTyped'
    BY <2>1 DEF PostfixTyped, RowsTyped, postfix
  <2>4. TailerTyped'
    <3>1. Len(mailLog) \in Nat /\ DOMAIN mailLog = 1 .. Len(mailLog) /\ saved \in Nat /\ p \in Nat
      BY <2>2, LineFacts DEF TailerTyped
    <3>2. UNCHANGED mailLog
      BY <2>1 DEF postfix
    <3>3. lost' \subseteq DOMAIN mailLog
      BY <2>2, <3>1 DEF TailerTyped
    <3>i. p \in 0 .. Len(mailLog) /\ p \in 0 .. p
      BY <3>1
    <3>4. pos' \in 0 .. Len(mailLog') /\ saved' \in 0 .. pos'
      BY <2>2, <3>i, <3>2
    <3>5. base' \in 0 .. Len(mailLog')
      <4>1. Len(mailLog) \in 0 .. Len(mailLog)
        BY <3>1
      <4> QED BY <2>1, <3>2, <4>1
    <3>7. caughtUp' \in BOOLEAN
      BY <2>1
    <3>6. stops' \in 0 .. MaxStops
      BY <2>1, LogBounds DEF TailerTyped
    <3> QED BY <3>2, <3>3, <3>4, <3>5, <3>6, <3>7 DEF TailerTyped
  <2>5. SweepTyped'
    BY <2>1 DEF SweepTyped, Idle, SweepState
  <2> QED BY <2>3, <2>4, <2>5
<1> QED BY <1>1, <1>2

LEMMA DeliveryTypesStep ==
  ASSUME DeliveryTypeOK, [DeliveryNext]_deliveryVars
  PROVE  DeliveryTypeOK'
<1>1. CASE UNCHANGED deliveryVars
  BY <1>1 DEF DeliveryTypeOK, PostfixTyped, RowsTyped, TailerTyped, SweepTyped,
              deliveryVars, postfix, panel, witnessed
<1> QED BY <1>1, PostfixStepTyped, TailerStepTyped, SweepStepTyped, TimeStepTyped DEF DeliveryNext

LEMMA DeliveryInitTyped == DeliveryInit => DeliveryTypeOK
<1> SUFFICES ASSUME DeliveryInit PROVE DeliveryTypeOK
  OBVIOUS
<1>0. Len(mailLog) = 0 /\ Len(rows) = 0 /\ DOMAIN rows = {} /\ DOMAIN mailLog = {}
  BY DEF DeliveryInit
<1>1. PostfixTyped
  <2>1. mailLog \in Seq(LogLine)
    BY DEF DeliveryInit
  <2> QED BY <1>0, <2>1, LogBounds DEF DeliveryInit, PostfixTyped
<1>2. RowsTyped
  <2>1. rows \in Seq(LogRow)
    BY DEF DeliveryInit
  <2> QED BY <1>0, <2>1, LogBounds DEF DeliveryInit, RowsTyped
<1>3. TailerTyped
  <2>1. pos = 0 /\ saved = 0 /\ base = 0 /\ stops = 0 /\ lost = {} /\ caughtUp \in BOOLEAN
    BY DEF DeliveryInit
  <2>2. 0 \in 0 .. 0 /\ 0 \in 0 .. MaxStops
    BY LogBounds
  <2> QED BY <1>0, <2>1, <2>2 DEF TailerTyped
<1>4. SweepTyped
  BY <1>0 DEF DeliveryInit, SweepTyped, Idle, SweepState
<1> QED BY <1>1, <1>2, <1>3, <1>4 DEF DeliveryTypeOK

-----------------------------------------------------------------------------
(* Messages, their rows and their lines                                    *)

\* Steps of the panel: Postfix, its log and the recipients of a row stay.
LEMMA RowsOnly ==
  ASSUME DeliveryTypeOK, Structure, SameRows, UNCHANGED postfix, testing' \subseteq testing,
         \A id \in DOMAIN rows : rows[id].status # "gone" /\ rows'[id].status = "gone" =>
            ~Known(id)' \/ \A o \in 1 .. id : rows'[o].status = "gone",
         \A id \in DOMAIN rows : rows'[id].qid # rows[id].qid =>
            ~rows'[id].old /\ \E i \in DOMAIN mailLog :
                                 id \in mailLog[i].about /\ rows'[id].qid = mailLog[i].qid,
         \A id \in DOMAIN rows : rows'[id].old /\ ~rows[id].old =>
            \A q \in QueueID : id \notin RowsOf(arriving[q])
  PROVE  Structure'
<1> USE DEF Structure
<1>0. /\ DOMAIN rows' = DOMAIN rows /\ DOMAIN rows \subseteq RowID /\ DOMAIN rows = 1 .. Len(rows) /\ Len(rows) \in Nat
      /\ \A id \in DOMAIN rows : Becomes(rows[id], rows'[id])
  BY RowFacts DEF DeliveryTypeOK, SameRows, RowsKeep
<1>1. UNCHANGED <<arriving, queue, mailLog>> /\ testing \subseteq DOMAIN rows
  BY DEF postfix, DeliveryTypeOK, RowsTyped
<1>2. \A q, id : Holds(q, id)' <=> Holds(q, id)
  BY <1>1 DEF Holds, Placed
<1>3. PlacesOk'
  <2> SUFFICES ASSUME NEW q \in QueueID, NEW r \in Recipient, NEW id \in RowID, <<r, id>> \in Placed(q)'
               PROVE  /\ id \in DOMAIN rows' /\ rows'[id].rcpt = r /\ rows'[id].status # "rejected"
                      /\ rows'[id].qid \in {q, NoID} /\ id \notin testing'
                      /\ \A z \in QueueID : Holds(z, id)' => z = q
                      /\ \A i \in DOMAIN mailLog' : id \in mailLog'[i].about => mailLog'[i].qid = q
    BY DEF PlacesOk
  <2>1. <<r, id>> \in Placed(q)
    BY <1>1 DEF Placed
  <2>2. /\ id \in DOMAIN rows /\ rows[id].rcpt = r /\ rows[id].status # "rejected"
        /\ rows[id].qid \in {q, NoID} /\ id \notin testing
        /\ \A z \in QueueID : Holds(z, id) => z = q
        /\ \A i \in DOMAIN mailLog : id \in mailLog[i].about => mailLog[i].qid = q
    BY <2>1 DEF PlacesOk
  <2>3. rows'[id].qid \in {q, NoID}
    BY <2>2
  <2>4. rows'[id].rcpt = r /\ rows'[id].status # "rejected"
    BY <1>0, <2>2 DEF Becomes
  <2> QED BY <1>0, <1>1, <1>2, <2>2, <2>3, <2>4
<1>4. OneStage'
  BY <1>1 DEF OneStage
<1>5. TestingOk'
  <2> SUFFICES ASSUME NEW id \in testing'
               PROVE  id \in RowID /\ rows'[id].status # "rejected" /\ rows'[id].qid = NoID /\ ~Told(id)'
    BY DEF TestingOk
  <2>1. id \in DOMAIN rows /\ id \in RowID /\ rows[id].status # "rejected" /\ rows[id].qid = NoID /\ ~Told(id)
    BY <1>1 DEF TestingOk
  <2>2. ~Told(id)'
    BY <1>1, <2>1 DEF Told
  <2>3. rows'[id].qid = NoID
    BY <2>1 DEF Told
  <2>4. rows'[id].status # "rejected"
    BY <1>0, <2>1 DEF Becomes
  <2> QED BY <2>1, <2>2, <2>3, <2>4
<1>6. LinesOk'
  BY <1>0, <1>1 DEF LinesOk, Becomes
<1>7. EndsOk'
  BY <1>1, <1>2 DEF EndsOk, Final
<1>8. GoneOk'
  <2> SUFFICES ASSUME NEW id \in DOMAIN rows', Known(id)', rows'[id].status = "gone", NEW o \in 1 .. id
               PROVE  rows'[o].status = "gone"
    BY DEF GoneOk
  <2>1. id \in DOMAIN rows /\ o \in DOMAIN rows
    BY <1>0
  <2>2. Known(id)
    BY <1>1, <1>2 DEF Known, Told
  <2>3. CASE rows[id].status = "gone"
    BY <1>0, <2>1, <2>2, <2>3 DEF GoneOk, Becomes
  <2> QED BY <2>1, <2>3
<1>9. OldOk'
  <2> SUFFICES ASSUME NEW q \in QueueID, NEW r \in Recipient, NEW id \in RowID, <<r, id>> \in arriving'[q]
               PROVE  ~rows'[id].old \/ rows'[id].qid = NoID
    BY DEF OldOk
  <2>1. <<r, id>> \in arriving[q] /\ arriving[q] \in SUBSET Place
    BY <1>1 DEF DeliveryTypeOK, PostfixTyped
  <2>2. id \in RowsOf(arriving[q])
    BY <2>1, RowsOfTyped DEF RowID
  <2>3. id \in DOMAIN rows
    BY <2>1 DEF PlacesOk, Placed
  <2>4. ~rows[id].old \/ rows[id].qid = NoID
    BY <2>1 DEF OldOk
  <2> QED BY <2>2, <2>3, <2>4
<1> QED BY <1>3, <1>4, <1>5, <1>6, <1>7, <1>8, <1>9

\* Postfix goes on with messages it has: none is in a new place, and a line it
\* writes is of rows it had; a final one of rows it has no more.
LEMMA PostfixGoesOn ==
  ASSUME DeliveryTypeOK, Structure, UNCHANGED <<rows, testing>>, OneStage',
         \A q \in QueueID : arriving'[q] \subseteq arriving[q] /\ Placed(q)' \subseteq Placed(q),
         Len(mailLog') \in Nat, DOMAIN mailLog' = 1 .. Len(mailLog'), Len(mailLog') >= Len(mailLog),
         \A i \in DOMAIN mailLog : mailLog'[i] = mailLog[i],
         Len(mailLog') <= Len(mailLog) + 1,
         \A i \in DOMAIN mailLog' \ DOMAIN mailLog :
            /\ mailLog'[i].qid \in QueueID /\ mailLog'[i].kind \in {"delivery", "expiry"}
            /\ mailLog'[i].about \subseteq RowID
            /\ \A id \in mailLog'[i].about :
                 /\ Holds(mailLog'[i].qid, id)
                 /\ mailLog'[i].kind = "delivery" => <<mailLog'[i].rcpt, id>> \in Placed(mailLog'[i].qid)
                                                     /\ mailLog'[i].rcpt \in Recipient
                 /\ Final(mailLog'[i]) => \A q \in QueueID : q = mailLog'[i].qid => ~Holds(q, id)'
  PROVE  Structure'
<1> USE DEF Structure
<1>0. DOMAIN mailLog = 1 .. Len(mailLog) /\ Len(mailLog) \in Nat /\ DOMAIN rows \subseteq RowID
      /\ \A i \in DOMAIN mailLog : mailLog[i].about \subseteq RowID
  BY LineFacts, RowFacts DEF DeliveryTypeOK, LogLine
<1>1. \A q \in QueueID : \A id : Holds(q, id)' => Holds(q, id)
  BY DEF Holds
<1>2. \A q \in QueueID, id \in RowID : Holds(q, id) =>
        /\ id \in DOMAIN rows /\ rows[id].status # "rejected" /\ id \notin testing
        /\ \A z \in QueueID : Holds(z, id) => z = q
        /\ \A i \in DOMAIN mailLog : id \in mailLog[i].about => mailLog[i].qid = q
  BY DEF Holds, PlacesOk
<1>3. \A i \in DOMAIN mailLog' : i \in DOMAIN mailLog \/ (i \notin DOMAIN mailLog /\ i = Len(mailLog'))
  BY <1>0
<1>4. PlacesOk'
  <2> SUFFICES ASSUME NEW q \in QueueID, NEW r \in Recipient, NEW id \in RowID, <<r, id>> \in Placed(q)'
               PROVE  /\ id \in DOMAIN rows' /\ rows'[id].rcpt = r /\ rows'[id].status # "rejected"
                      /\ rows'[id].qid \in {q, NoID} /\ id \notin testing'
                      /\ \A z \in QueueID : Holds(z, id)' => z = q
                      /\ \A i \in DOMAIN mailLog' : id \in mailLog'[i].about => mailLog'[i].qid = q
    BY DEF PlacesOk
  <2>1. <<r, id>> \in Placed(q)
    OBVIOUS
  <2>2. /\ id \in DOMAIN rows /\ rows[id].rcpt = r /\ rows[id].status # "rejected"
        /\ rows[id].qid \in {q, NoID} /\ id \notin testing
        /\ \A z \in QueueID : Holds(z, id) => z = q
        /\ \A i \in DOMAIN mailLog : id \in mailLog[i].about => mailLog[i].qid = q
    BY <2>1 DEF PlacesOk
  <2>3. ASSUME NEW i \in DOMAIN mailLog', id \in mailLog'[i].about PROVE mailLog'[i].qid = q
    BY <1>3, <2>2, <2>3
  <2> QED BY <1>1, <2>2, <2>3
<1>5. TestingOk'
  <2>1. \A id \in testing : id \in RowID /\ ~Told(id)'
    <3> SUFFICES ASSUME NEW id \in testing, NEW i \in DOMAIN mailLog', id \in mailLog'[i].about PROVE FALSE
      BY DEF TestingOk, Told
    <3>1. i \in DOMAIN mailLog
      BY <1>2, <1>3
    <3> QED BY <3>1 DEF TestingOk, Told
  <2> QED BY <2>1 DEF TestingOk
<1>6. LinesOk'
  <2> SUFFICES ASSUME NEW i \in DOMAIN mailLog', NEW id \in mailLog'[i].about
               PROVE  /\ id \in DOMAIN rows /\ rows[id].status # "rejected"
                      /\ mailLog'[i].kind = "delivery" => rows[id].rcpt = mailLog'[i].rcpt
                      /\ mailLog'[i].kind = "message-id" => \A k \in 1 .. i - 1 : id \notin mailLog'[k].about
    BY DEF LinesOk
  <2>1. CASE i \in DOMAIN mailLog
    <3>1. \A k \in 1 .. i - 1 : mailLog'[k] = mailLog[k]
      BY <1>0, <2>1
    <3> QED BY <2>1, <3>1 DEF LinesOk
  <2>2. CASE i \notin DOMAIN mailLog
    <3>1. id \in RowID /\ Holds(mailLog'[i].qid, id) /\ mailLog'[i].kind # "message-id" /\ mailLog'[i].qid \in QueueID
      BY <2>2
    <3>2. ASSUME mailLog'[i].kind = "delivery" PROVE rows[id].rcpt = mailLog'[i].rcpt
      <4>1. <<mailLog'[i].rcpt, id>> \in Placed(mailLog'[i].qid) /\ mailLog'[i].rcpt \in Recipient
        BY <2>2, <3>2
      <4> QED BY <3>1, <4>1 DEF PlacesOk
    <3> QED BY <1>2, <3>1, <3>2
  <2> QED BY <2>1, <2>2
<1>7. EndsOk'
  <2> SUFFICES ASSUME NEW i \in DOMAIN mailLog', NEW id \in mailLog'[i].about, Final(mailLog'[i])
               PROVE  /\ \A q \in QueueID : ~Holds(q, id)'
                      /\ \A k \in i + 1 .. Len(mailLog') : id \notin mailLog'[k].about
    BY DEF EndsOk
  <2>1. CASE i \in DOMAIN mailLog
    <3>1. \A q \in QueueID : ~Holds(q, id)
      BY <2>1 DEF EndsOk
    <3>2. ASSUME NEW k \in i + 1 .. Len(mailLog') PROVE id \notin mailLog'[k].about
      <4>1. k \in DOMAIN mailLog'
        BY <1>0, <2>1
      <4>2. CASE k \in DOMAIN mailLog
        <5>1. k \in i + 1 .. Len(mailLog)
          BY <1>0, <4>2
        <5> QED BY <2>1, <4>2, <5>1 DEF EndsOk
      <4>3. CASE k \notin DOMAIN mailLog
        BY <3>1, <4>1, <4>3
      <4> QED BY <4>2, <4>3
    <3> QED BY <1>1, <3>1, <3>2
  <2>2. CASE i \notin DOMAIN mailLog
    <3>1. id \in RowID /\ Holds(mailLog'[i].qid, id) /\ mailLog'[i].qid \in QueueID
         /\ \A q \in QueueID : q = mailLog'[i].qid => ~Holds(q, id)'
      BY <2>2
    <3>2. ASSUME NEW q \in QueueID, Holds(q, id)' PROVE FALSE
      <4>1. Holds(q, id)
        BY <1>1, <3>2
      <4>2. q = mailLog'[i].qid
        BY <1>2, <3>1, <4>1
      <4> QED BY <3>1, <3>2, <4>2
    <3>3. i + 1 .. Len(mailLog') = {}
      BY <1>0, <2>2
    <3> QED BY <3>2, <3>3
  <2> QED BY <2>1, <2>2
<1>8. GoneOk'
  <2> SUFFICES ASSUME NEW id \in DOMAIN rows, Known(id)', rows[id].status = "gone"
               PROVE  \A o \in 1 .. id : rows[o].status = "gone"
    BY DEF GoneOk
  <2>1. Known(id)
    BY <1>1, <1>3 DEF Known, Told
  <2> QED BY <2>1 DEF GoneOk
<1>9. OldOk'
  BY DEF OldOk
<1> QED BY <1>4, <1>5, <1>6, <1>7, <1>8, <1>9

\* A step with new rows: of a message on its way in, of none yet, or of a
\* refusal.
LEMMA RowsMore ==
  ASSUME DeliveryTypeOK, Structure, UNCHANGED <<queue, mailLog>>, OneStage',
         DOMAIN rows \subseteq DOMAIN rows', \A o \in DOMAIN rows : rows'[o] = rows[o],
         \A id \in DOMAIN rows' \ DOMAIN rows : rows'[id].status # "gone" /\ rows'[id].old = FALSE,
         \A q \in QueueID, r \in Recipient, id \in RowID : <<r, id>> \in arriving'[q] =>
            \/ <<r, id>> \in arriving[q]
            \/ /\ id \in DOMAIN rows' \ DOMAIN rows /\ rows'[id].rcpt = r /\ rows'[id].status = "queued"
               /\ rows'[id].qid = q /\ id \notin testing',
         \A id \in testing' : \/ id \in testing
                              \/ /\ id \in DOMAIN rows' \ DOMAIN rows /\ id \in RowID
                                 /\ rows'[id].status = "queued" /\ rows'[id].qid = NoID,
         \A id \in testing' : id \in DOMAIN rows => id \in testing
  PROVE  Structure'
<1> USE DEF Structure
<1>0. /\ DOMAIN rows \subseteq RowID /\ \A i \in DOMAIN mailLog : mailLog[i].about \subseteq RowID
      /\ DOMAIN rows = 1 .. Len(rows) /\ Len(rows) \in Nat
  BY LineFacts, RowFacts DEF DeliveryTypeOK, LogLine
<1>1. \A i \in DOMAIN mailLog : mailLog[i].about \subseteq DOMAIN rows
  BY DEF LinesOk
<1>2. \A q \in QueueID, r \in Recipient, id \in RowID : <<r, id>> \in Placed(q)' =>
        \/ <<r, id>> \in Placed(q)
        \/ /\ id \in DOMAIN rows' \ DOMAIN rows /\ rows'[id].rcpt = r /\ rows'[id].status = "queued"
           /\ rows'[id].qid = q /\ id \notin testing'
  BY DEF Placed
<1>3. \A q \in QueueID, r \in Recipient, id \in RowID : <<r, id>> \in Placed(q) => id \in DOMAIN rows
  BY DEF PlacesOk
<1>4. \A q \in QueueID, id \in RowID : Holds(q, id)' =>
        Holds(q, id) \/ (id \notin DOMAIN rows /\ rows'[id].qid = q)
  BY <1>2 DEF Holds
<1>5. \A q \in QueueID, id \in RowID : Holds(q, id) => id \in DOMAIN rows
  BY <1>3 DEF Holds
<1>6. PlacesOk'
  <2> SUFFICES ASSUME NEW q \in QueueID, NEW r \in Recipient, NEW id \in RowID, <<r, id>> \in Placed(q)'
               PROVE  /\ id \in DOMAIN rows' /\ rows'[id].rcpt = r /\ rows'[id].status # "rejected"
                      /\ rows'[id].qid \in {q, NoID} /\ id \notin testing'
                      /\ \A z \in QueueID : Holds(z, id)' => z = q
                      /\ \A i \in DOMAIN mailLog' : id \in mailLog'[i].about => mailLog'[i].qid = q
    BY DEF PlacesOk
  <2>1. CASE <<r, id>> \in Placed(q)
    <3>1. /\ id \in DOMAIN rows /\ rows[id].rcpt = r /\ rows[id].status # "rejected"
          /\ rows[id].qid \in {q, NoID} /\ id \notin testing
          /\ \A z \in QueueID : Holds(z, id) => z = q
          /\ \A i \in DOMAIN mailLog : id \in mailLog[i].about => mailLog[i].qid = q
      BY <2>1 DEF PlacesOk
    <3>2. \A z \in QueueID : Holds(z, id)' => z = q
      BY <1>4, <3>1
    <3> QED BY <3>1, <3>2
  <2>2. CASE <<r, id>> \notin Placed(q)
    <3>1. /\ id \in DOMAIN rows' \ DOMAIN rows /\ rows'[id].rcpt = r /\ rows'[id].status = "queued"
          /\ rows'[id].qid = q /\ id \notin testing'
      BY <1>2, <2>2
    <3>2. \A z \in QueueID : Holds(z, id)' => z = q
      BY <1>4, <1>5, <3>1
    <3> QED BY <1>1, <3>1, <3>2
  <2> QED BY <2>1, <2>2
<1>7. TestingOk'
  <2> SUFFICES ASSUME NEW id \in testing'
               PROVE  id \in RowID /\ rows'[id].status # "rejected" /\ rows'[id].qid = NoID /\ ~Told(id)'
    BY DEF TestingOk
  <2>1. CASE id \in testing
    <3>1. id \in DOMAIN rows
      BY <2>1 DEF DeliveryTypeOK, RowsTyped
    <3> QED BY <2>1, <3>1 DEF TestingOk, Told
  <2>2. CASE id \notin testing
    BY <1>1, <2>2 DEF Told
  <2> QED BY <2>1, <2>2
<1>8. LinesOk'
  BY <1>1 DEF LinesOk
<1>9. EndsOk'
  <2> SUFFICES ASSUME NEW i \in DOMAIN mailLog, NEW id \in mailLog[i].about, Final(mailLog[i])
               PROVE  /\ \A q \in QueueID : ~Holds(q, id)'
                      /\ \A k \in i + 1 .. Len(mailLog) : id \notin mailLog[k].about
    BY DEF EndsOk, Final
  <2>1. /\ \A q \in QueueID : ~Holds(q, id)
        /\ \A k \in i + 1 .. Len(mailLog) : id \notin mailLog[k].about
    BY DEF EndsOk
  <2> QED BY <1>0, <1>1, <1>4, <2>1
<1>10. GoneOk'
  <2> SUFFICES ASSUME NEW id \in DOMAIN rows', Known(id)', rows'[id].status = "gone", NEW o \in 1 .. id
               PROVE  rows'[o].status = "gone"
    BY DEF GoneOk
  <2>1. id \in DOMAIN rows /\ rows[id].status = "gone" /\ id \in RowID
    BY <1>0
  <2>2. Known(id)
    BY <1>4, <2>1 DEF Known, Told
  <2>3. o \in DOMAIN rows
    BY <1>0, <2>1
  <2> QED BY <2>1, <2>2, <2>3 DEF GoneOk
<1>11. OldOk'
  <2> SUFFICES ASSUME NEW q \in QueueID, NEW r \in Recipient, NEW id \in RowID, <<r, id>> \in arriving'[q]
               PROVE  ~rows'[id].old \/ rows'[id].qid = NoID
    BY DEF OldOk
  <2>1. CASE <<r, id>> \in arriving[q]
    <3>1. id \in DOMAIN rows
      BY <1>3, <2>1 DEF Placed
    <3> QED BY <2>1, <3>1 DEF OldOk
  <2> QED BY <2>1
<1> QED BY <1>6, <1>7, <1>8, <1>9, <1>10, <1>11

\* The panel's test message is taken: its row has a place and its first line.
LEMMA TestTakenStructure ==
  ASSUME DeliveryTypeOK, Structure, NEW q \in QueueID, NEW t \in testing, TestTaken(t, q)
  PROVE  Structure'
<1> USE DEF Structure
<1> DEFINE n == Len(mailLog) + 1
<1>0. /\ DOMAIN mailLog = 1 .. Len(mailLog) /\ Len(mailLog) \in Nat /\ DOMAIN rows \subseteq RowID
      /\ \A i \in DOMAIN mailLog : mailLog[i].about \subseteq RowID
      /\ testing \subseteq DOMAIN rows /\ \A o \in DOMAIN rows : rows[o].rcpt \in Recipient
  BY LineFacts, RowFacts DEF DeliveryTypeOK, LogLine, RowsTyped, LogRow
<1>1. /\ LogOne("message-id", q, NoID, "", {t}) /\ Free(q) /\ testing' = testing \ {t} /\ UNCHANGED <<queue, rows>>
      /\ arriving' = [arriving EXCEPT ![q] = {<<rows[t].rcpt, t>>}]
  BY DEF TestTaken
<1>2. /\ Len(mailLog') = n /\ DOMAIN mailLog' = 1 .. n
      /\ \A i \in DOMAIN mailLog : mailLog'[i] = mailLog[i]
      /\ mailLog'[n].kind = "message-id" /\ mailLog'[n].qid = q /\ mailLog'[n].about = {t}
  <2>1. {t} \in SUBSET RowID
    BY <1>0
  <2>2. /\ mailLog' \in Seq(LogLine) /\ Len(mailLog') = n
        /\ \A i \in DOMAIN mailLog : mailLog'[i] = mailLog[i]
        /\ mailLog'[n].kind = "message-id" /\ mailLog'[n].qid = q /\ mailLog'[n].about = {t}
    BY <1>1, <2>1, LineAppended DEF DeliveryTypeOK
  <2> QED BY <2>2
<1> HIDE DEF n
<1>n. n = Len(mailLog) + 1
  BY DEF n
<1>3. \A i \in DOMAIN mailLog' : i \in DOMAIN mailLog \/ (i = n /\ i \notin DOMAIN mailLog)
  BY <1>0, <1>2, <1>n
<1>4. arriving[q] = {} /\ queue[q] = {} /\ arriving'[q] = {<<rows[t].rcpt, t>>}
      /\ \A z \in QueueID \ {q} : arriving'[z] = arriving[z]
  BY <1>1 DEF Free, DeliveryTypeOK, PostfixTyped
<1>5. /\ \A z \in QueueID \ {q} : Placed(z)' = Placed(z)
      /\ Placed(q)' = {<<rows[t].rcpt, t>>} /\ Placed(q) = {}
  BY <1>1, <1>4 DEF Placed
<1>6. t \in RowID /\ t \in DOMAIN rows /\ rows[t].status # "rejected" /\ rows[t].qid = NoID /\ ~Told(t)
  BY <1>0 DEF TestingOk
<1>7. \A z \in QueueID : ~Holds(z, t)
  BY <1>6 DEF PlacesOk, Holds
<1>8. \A z \in QueueID, id \in RowID : Holds(z, id)' <=> Holds(z, id) \/ (z = q /\ id = t)
  <2> SUFFICES ASSUME NEW z \in QueueID, NEW id \in RowID
               PROVE  Holds(z, id)' <=> Holds(z, id) \/ (z = q /\ id = t)
    OBVIOUS
  <2>1. CASE z # q
    BY <1>5, <2>1 DEF Holds
  <2>2. CASE z = q
    <3>1. ~Holds(z, id)
      BY <1>5, <2>2 DEF Holds
    <3>2. Holds(z, id)' <=> \E r \in Recipient : <<r, id>> = <<rows[t].rcpt, t>>
      BY <1>5, <2>2 DEF Holds
    <3> QED BY <1>0, <1>6, <2>2, <3>1, <3>2
  <2> QED BY <2>1, <2>2
<1>9. \A id \in RowID : Told(id)' <=> Told(id) \/ id = t
  <2>1. n \in DOMAIN mailLog'
    BY <1>0, <1>2, <1>n
  <2>2. \A i \in DOMAIN mailLog : i \in DOMAIN mailLog'
    BY <1>0, <1>2, <1>n
  <2> QED BY <1>2, <1>3, <2>1, <2>2 DEF Told
<1>10. PlacesOk'
  <2> SUFFICES ASSUME NEW z \in QueueID, NEW r \in Recipient, NEW id \in RowID, <<r, id>> \in Placed(z)'
               PROVE  /\ id \in DOMAIN rows' /\ rows'[id].rcpt = r /\ rows'[id].status # "rejected"
                      /\ rows'[id].qid \in {z, NoID} /\ id \notin testing'
                      /\ \A y \in QueueID : Holds(y, id)' => y = z
                      /\ \A i \in DOMAIN mailLog' : id \in mailLog'[i].about => mailLog'[i].qid = z
    BY DEF PlacesOk
  <2>1. CASE z = q
    <3>1. r = rows[t].rcpt /\ id = t
      BY <1>5, <2>1
    <3>2. \A y \in QueueID : Holds(y, id)' => y = z
      BY <1>7, <1>8, <2>1, <3>1
    <3>3. \A i \in DOMAIN mailLog' : id \in mailLog'[i].about => mailLog'[i].qid = z
      BY <1>2, <1>3, <1>6, <2>1, <3>1 DEF Told
    <3> QED BY <1>1, <1>6, <3>1, <3>2, <3>3
  <2>2. CASE z # q
    <3>1. <<r, id>> \in Placed(z)
      BY <1>5, <2>2
    <3>2. /\ id \in DOMAIN rows /\ rows[id].rcpt = r /\ rows[id].status # "rejected"
          /\ rows[id].qid \in {z, NoID} /\ id \notin testing
          /\ \A y \in QueueID : Holds(y, id) => y = z
          /\ \A i \in DOMAIN mailLog : id \in mailLog[i].about => mailLog[i].qid = z
      BY <3>1 DEF PlacesOk
    <3>3. id # t
      BY <3>2
    <3>4. \A y \in QueueID : Holds(y, id)' => y = z
      BY <1>8, <3>2, <3>3
    <3>5. \A i \in DOMAIN mailLog' : id \in mailLog'[i].about => mailLog'[i].qid = z
      BY <1>2, <1>3, <3>2, <3>3
    <3> QED BY <1>1, <3>2, <3>4, <3>5
  <2> QED BY <2>1, <2>2
<1>11. OneStage'
  BY <1>1, <1>4 DEF OneStage
<1>12. TestingOk'
  BY <1>1, <1>9 DEF TestingOk
<1>13. LinesOk'
  <2> SUFFICES ASSUME NEW i \in DOMAIN mailLog', NEW id \in mailLog'[i].about
               PROVE  /\ id \in DOMAIN rows /\ rows[id].status # "rejected"
                      /\ mailLog'[i].kind = "delivery" => rows[id].rcpt = mailLog'[i].rcpt
                      /\ mailLog'[i].kind = "message-id" => \A k \in 1 .. i - 1 : id \notin mailLog'[k].about
    BY <1>1 DEF LinesOk
  <2>1. CASE i \in DOMAIN mailLog
    <3>1. \A k \in 1 .. i - 1 : mailLog'[k] = mailLog[k]
      BY <1>0, <1>2, <2>1
    <3>2. mailLog'[i] = mailLog[i]
      BY <1>2, <2>1
    <3> QED BY <2>1, <3>1, <3>2 DEF LinesOk
  <2>2. CASE i = n
    <3>1. \A k \in 1 .. i - 1 : k \in DOMAIN mailLog /\ mailLog'[k] = mailLog[k]
      BY <1>0, <1>2, <1>n, <2>2
    <3> QED BY <1>2, <1>6, <2>2, <3>1 DEF Told
  <2> QED BY <1>3, <2>1, <2>2
<1>14. EndsOk'
  <2> SUFFICES ASSUME NEW i \in DOMAIN mailLog', NEW id \in mailLog'[i].about, Final(mailLog'[i])
               PROVE  /\ \A z \in QueueID : ~Holds(z, id)'
                      /\ \A k \in i + 1 .. Len(mailLog') : id \notin mailLog'[k].about
    BY DEF EndsOk, Final
  <2>1. i \in DOMAIN mailLog /\ mailLog'[i] = mailLog[i]
    BY <1>2, <1>3 DEF Final
  <2>2. /\ \A z \in QueueID : ~Holds(z, id)
        /\ \A k \in i + 1 .. Len(mailLog) : id \notin mailLog[k].about
    BY <2>1 DEF EndsOk
  <2>3. id \in RowID /\ id # t
    BY <1>0, <1>6, <2>1 DEF Told
  <2>4. ASSUME NEW k \in i + 1 .. Len(mailLog') PROVE id \notin mailLog'[k].about
    <3>1. k = n \/ (k \in i + 1 .. Len(mailLog) /\ k \in DOMAIN mailLog)
      BY <1>0, <1>2, <1>n, <2>1
    <3> QED BY <1>2, <2>2, <2>3, <3>1
  <2> QED BY <1>8, <2>2, <2>3, <2>4
<1>15. GoneOk'
  <2> SUFFICES ASSUME NEW id \in DOMAIN rows, Known(id)', rows[id].status = "gone"
               PROVE  \A o \in 1 .. id : rows[o].status = "gone"
    BY <1>1 DEF GoneOk
  <2>1. Known(id)
    <3>1. id \in RowID
      BY <1>0
    <3> QED BY <1>1, <1>8, <1>9, <3>1 DEF Known
  <2> QED BY <2>1 DEF GoneOk
<1>16. OldOk'
  <2> SUFFICES ASSUME NEW z \in QueueID, NEW r \in Recipient, NEW id \in RowID, <<r, id>> \in arriving'[z]
               PROVE  ~rows[id].old \/ rows[id].qid = NoID
    BY <1>1 DEF OldOk
  <2>1. CASE z = q
    BY <1>4, <1>6, <2>1
  <2>2. CASE z # q
    BY <1>4, <2>2 DEF OldOk
  <2> QED BY <2>1, <2>2
<1> QED BY <1>10, <1>11, <1>12, <1>13, <1>14, <1>15, <1>16

\* Steps that change a row's status only, and delete none.
LEMMA StatusOnly ==
  ASSUME DeliveryTypeOK, Structure, SameRows, UNCHANGED postfix, testing' \subseteq testing,
         \A id \in DOMAIN rows : /\ rows'[id].qid = rows[id].qid /\ rows'[id].old = rows[id].old
                                 /\ rows'[id].status = "gone" => rows[id].status = "gone"
  PROVE  Structure'
  BY RowsOnly

LEMMA RowsStay ==
  ASSUME DeliveryTypeOK, UNCHANGED rows
  PROVE  SameRows
  BY RowFacts DEF SameRows, RowsKeep, Becomes, DeliveryTypeOK, RowsTyped

LEMMA PanelStructure ==
  ASSUME DeliveryTypeOK, Structure,
         \/ Tailer \/ SavePlace \/ Sweep \/ Restart
         \/ \E id \in RowID : Age(id) \/ Prune(id)
         \/ \E id \in testing : TestRefused(id)
  PROVE  Structure'
<1>t. RowsTyped /\ PostfixTyped
  BY DEF DeliveryTypeOK
<1>a. \A id \in DOMAIN rows : rows[id] \in LogRow
  BY <1>t, RowFacts
<1>1. ASSUME UNCHANGED <<postfix, rows, testing>> PROVE Structure'
  BY <1>1, RowsStay, StatusOnly
<1>2. ASSUME HandleDelivery PROVE Structure'
  <2>1. /\ SameRows /\ UNCHANGED <<postfix, testing>> /\ NextLine \in LogLine /\ NextLine.kind = "delivery"
    BY <1>2, HandlerMoves DEF HandleDelivery
  <2>2. NextLine.qid \in QueueID /\ NextLine.status \in {"sent", "deferred", "bounced"}
    BY <2>1 DEF LogLine
  <2>3. UpdateStatus(NextLine.qid, NextLine.rcpt, NextLine.status)
    BY <1>2 DEF HandleDelivery
  <2>4. \A id \in DOMAIN rows :
          /\ rows'[id].qid = rows[id].qid /\ rows'[id].old = rows[id].old
          /\ id \in NewestRow(NextLine.qid, NextLine.rcpt) => rows'[id].status = NextLine.status
          /\ id \notin NewestRow(NextLine.qid, NextLine.rcpt) => rows'[id] = rows[id]
    BY <1>t, <2>2, <2>3, UpdateMoves
  <2> QED BY <2>1, <2>2, <2>4, StatusOnly
<1>3. ASSUME HandleExpiry PROVE Structure'
  <2>1. SameRows /\ UNCHANGED <<postfix, testing>> /\ NextLine \in LogLine
    BY <1>3, HandlerMoves
  <2>2. NextLine.qid \in QueueID
    BY <2>1 DEF LogLine
  <2>3. ExpireMessage(NextLine.qid)
    BY <1>3 DEF HandleExpiry
  <2>4. \A id \in DOMAIN rows :
          LET hit == Open(id) /\ \E r \in Recipient : id \in NewestRow(NextLine.qid, r) IN
          /\ rows'[id].qid = rows[id].qid /\ rows'[id].old = rows[id].old
          /\ hit => rows'[id].status = "bounced"
          /\ ~hit => rows'[id] = rows[id]
    BY <1>t, <2>2, <2>3, ExpireMoves
  <2>5. \A id \in DOMAIN rows :
          /\ rows'[id].qid = rows[id].qid /\ rows'[id].old = rows[id].old
          /\ rows'[id].status = "gone" => rows[id].status = "gone"
    BY <2>4
  <2> QED BY <2>1, <2>5, StatusOnly
<1>4. ASSUME HandleMessageID PROVE Structure'
  <2>1. /\ SameRows /\ UNCHANGED <<postfix, testing>> /\ NextLine \in LogLine /\ TakeAwaited(NextLine)
        /\ pos < Len(mailLog)
    BY <1>4, HandlerMoves DEF HandleMessageID
  <2>2. \A id \in DOMAIN rows :
          /\ rows'[id].status = rows[id].status /\ rows'[id].old = rows[id].old
          /\ rows'[id].qid # rows[id].qid =>
               id \in NextLine.about /\ ~rows[id].old /\ rows[id].qid = NoID /\ rows'[id].qid = NextLine.qid
    BY <1>t, <2>1, TakeMoves
  <2>3. pos + 1 \in DOMAIN mailLog
    BY <1>t, <2>1, NextLineFacts DEF DeliveryTypeOK
  <2>4. \A id \in DOMAIN rows : rows'[id].qid # rows[id].qid =>
            ~rows'[id].old /\ \E i \in DOMAIN mailLog :
                                 id \in mailLog[i].about /\ rows'[id].qid = mailLog[i].qid
    BY <2>2, <2>3 DEF NextLine
  <2> QED BY <2>1, <2>2, <2>4, RowsOnly
<1>5. ASSUME HandleFails \/ CatchUp \/ SavePlace PROVE Structure'
  <2>1. UNCHANGED <<postfix, rows, testing>>
    BY <1>5 DEF HandleFails, CatchUp, SavePlace, Advance, panel
  <2> QED BY <1>1, <2>1
<1>6. ASSUME NEW id \in RowID, SweepClose(id) PROVE Structure'
  <2>1. rows' = CloseUnreported(id) /\ id \in DOMAIN rows /\ UNCHANGED <<postfix, testing>>
    BY <1>6 DEF SweepClose, SweepStep, DeliveryTypeOK, SweepTyped
  <2>2. SameRows
    BY <1>t, <2>1, CloseMoves
  <2>3. \A o \in DOMAIN rows :
          /\ rows'[o].qid = rows[o].qid /\ rows'[o].old = rows[o].old
          /\ rows'[o] # rows[o] => o = id /\ Open(o) /\ rows'[o].status = "bounced"
    BY <1>t, <2>1, CloseMoves
  <2>4. \A o \in DOMAIN rows :
          /\ rows'[o].qid = rows[o].qid /\ rows'[o].old = rows[o].old
          /\ rows'[o].status = "gone" => rows[o].status = "gone"
    BY <2>3
  <2> QED BY <2>1, <2>2, <2>4, StatusOnly
<1>7. ASSUME CloseUnmatchedTestMessages PROVE Structure'
  <2>1. UNCHANGED <<postfix, testing>>
    BY <1>7 DEF CloseUnmatchedTestMessages, SweepStep
  <2>2. SameRows
    BY <1>t, <1>7, CloseTestsMoves
  <2>3. \A o \in DOMAIN rows :
          /\ rows'[o].qid = rows[o].qid /\ rows'[o].old = rows[o].old
          /\ rows'[o] # rows[o] => Open(o) /\ rows[o].qid = NoID /\ rows'[o].status = "bounced"
    BY <1>t, <1>7, CloseTestsMoves
  <2>4. \A o \in DOMAIN rows :
          /\ rows'[o].qid = rows[o].qid /\ rows'[o].old = rows[o].old
          /\ rows'[o].status = "gone" => rows[o].status = "gone"
    BY <2>3
  <2> QED BY <2>1, <2>2, <2>4, StatusOnly
<1>8. ASSUME Sweep PROVE Structure'
  <2>1. CASE UNCHANGED rows
    <3>1. UNCHANGED <<postfix, testing>>
      BY <1>8 DEF Sweep, SweepStep, SweepList, SweepNothing, SweepQueueIDs, SweepNoListing, SweepResultsInLog,
             SweepClose, SweepCloseFails, SweepCount, CloseUnmatchedTestMessages
    <3> QED BY <1>1, <2>1, <3>1
  <2>2. CASE (\E id \in RowID : SweepClose(id)) \/ CloseUnmatchedTestMessages
    BY <1>6, <1>7, <2>2
  <2>3. UNCHANGED rows \/ (\E id \in RowID : SweepClose(id)) \/ CloseUnmatchedTestMessages
    BY <1>8 DEF Sweep, SweepList, SweepNothing, SweepQueueIDs, SweepNoListing, SweepResultsInLog,
                SweepCloseFails, SweepCount
  <2> QED BY <2>1, <2>2, <2>3
<1>9. ASSUME NEW id \in RowID, Age(id) PROVE Structure'
  <2>1. /\ UNCHANGED <<postfix, testing>> /\ SameRows /\ \A q \in QueueID : id \notin RowsOf(arriving[q])
        /\ \A o \in DOMAIN rows :
              /\ rows'[o].qid = rows[o].qid /\ rows'[o].status = rows[o].status
              /\ rows'[o] # rows[o] => o = id
    BY <1>t, <1>9, AgeMoves DEF Age, panel
  <2>2. \A o \in DOMAIN rows : rows'[o].old /\ ~rows[o].old => \A q \in QueueID : o \notin RowsOf(arriving[q])
    BY <2>1
  <2> QED BY <2>1, <2>2, RowsOnly
<1>10. ASSUME NEW id \in RowID, Prune(id) PROVE Structure'
  <2>1. /\ UNCHANGED <<postfix, testing>> /\ SameRows /\ id \in DOMAIN rows
        /\ \A o \in DOMAIN rows :
              /\ rows'[o].qid = rows[o].qid /\ rows'[o].old = rows[o].old
              /\ o <= id => rows'[o].status = "gone"
              /\ ~(o <= id) => rows'[o] = rows[o]
    BY <1>t, <1>10, PruneMoves DEF Prune, panel
  <2>2. ASSUME NEW o \in DOMAIN rows, rows[o].status # "gone", rows'[o].status = "gone", NEW k \in 1 .. o
        PROVE  rows'[k].status = "gone"
    <3>1. o <= id
      BY <2>1, <2>2
    <3>2. k \in DOMAIN rows /\ k <= id
      BY <1>t, <2>1, <3>1, RowFacts
    <3> QED BY <2>1, <3>2
  <2> QED BY <2>1, <2>2, RowsOnly
<1>11. ASSUME NEW t \in testing, TestRefused(t) PROVE Structure'
  <2>1. /\ SameRows /\ testing' = testing \ {t}
        /\ \A o \in DOMAIN rows :
              /\ rows'[o].qid = rows[o].qid /\ rows'[o].old = rows[o].old
              /\ rows'[o] # rows[o] => o = t /\ rows'[o].status = "gone"
    BY <1>t, <1>11, RefusedMoves
  <2>2. UNCHANGED postfix
    BY <1>11 DEF TestRefused
  <2>3. ~Told(t) /\ t \in RowID
    BY DEF Structure, TestingOk
  <2>4. \A q \in QueueID : ~Holds(q, t)
    BY <2>3 DEF Structure, PlacesOk, Holds
  <2>5. ~Known(t)'
    BY <2>1, <2>2, <2>3, <2>4 DEF Known, Told, Holds, Placed, postfix
  <2>6. \A o \in DOMAIN rows : rows[o].status # "gone" /\ rows'[o].status = "gone" => o = t
    BY <2>1
  <2>7. \A o \in DOMAIN rows : rows[o].status # "gone" /\ rows'[o].status = "gone" =>
            ~Known(o)' \/ \A k \in 1 .. o : rows'[k].status = "gone"
    BY <2>5, <2>6
  <2> QED BY <2>1, <2>2, <2>7, RowsOnly
<1>12. ASSUME Restart PROVE Structure'
  <2>1. UNCHANGED <<postfix, rows, testing>>
    BY <1>12 DEF Restart
  <2> QED BY <1>1, <2>1
<1> QED BY <1>2, <1>3, <1>4, <1>5, <1>8, <1>9, <1>10, <1>11, <1>12 DEF Tailer

\* What a line Postfix writes adds to its log.
LEMMA LineAdded ==
  ASSUME PostfixTyped, NEW l \in LogLine, mailLog' = Append(mailLog, l), Len(mailLog) < MaxLog
  PROVE  /\ Len(mailLog') \in Nat /\ DOMAIN mailLog' = 1 .. Len(mailLog') /\ Len(mailLog') = Len(mailLog) + 1
         /\ \A i \in DOMAIN mailLog : mailLog'[i] = mailLog[i]
         /\ \A i \in DOMAIN mailLog' \ DOMAIN mailLog : mailLog'[i] = l
<1>1. /\ mailLog' \in Seq(LogLine) /\ Len(mailLog') = Len(mailLog) + 1
      /\ \A i \in DOMAIN mailLog : mailLog'[i] = mailLog[i]
      /\ mailLog'[Len(mailLog) + 1] = l
  BY LineAppend
<1>2. Len(mailLog') \in Nat /\ DOMAIN mailLog' = 1 .. Len(mailLog')
  BY <1>1
<1>3. Len(mailLog) \in Nat /\ DOMAIN mailLog = 1 .. Len(mailLog)
  BY LineFacts
<1>4. \A i \in DOMAIN mailLog' \ DOMAIN mailLog : i = Len(mailLog) + 1
  BY <1>1, <1>2, <1>3
<1> QED BY <1>1, <1>2, <1>4

LEMMA HeldRows ==
  ASSUME DeliveryTypeOK, NEW q \in QueueID, NEW id \in RowsOf(queue[q])
  PROVE  Holds(q, id) /\ id \in RowID
<1>1. queue[q] \in SUBSET Place
  BY DEF DeliveryTypeOK, PostfixTyped
<1>2. id # 0 /\ \E r \in Recipient : <<r, id>> \in queue[q]
  BY <1>1, RowsOfTyped
<1>3. id \in RowID
  BY <1>1, RowsOfTyped
<1> QED BY <1>2, <1>3 DEF Holds, Placed

LEMMA QueuedStructure ==
  ASSUME DeliveryTypeOK, Structure, NEW q \in QueueID, Enqueue(q) \/ Drop(q)
  PROVE  Structure'
<1>1. UNCHANGED <<rows, testing, mailLog>>
  BY DEF Enqueue, Drop, panel
<1>2. /\ arriving \in [QueueID -> SUBSET Place] /\ queue \in [QueueID -> SUBSET Place]
      /\ Len(mailLog) \in Nat /\ DOMAIN mailLog = 1 .. Len(mailLog)
  BY LineFacts DEF DeliveryTypeOK, PostfixTyped
<1>3. OneStage'
  BY <1>2 DEF Enqueue, Drop, OneStage, Structure
<1>4. \A z \in QueueID : arriving'[z] \subseteq arriving[z] /\ Placed(z)' \subseteq Placed(z)
  BY <1>2 DEF Enqueue, Drop, Placed
<1> QED BY <1>1, <1>2, <1>3, <1>4, PostfixGoesOn

LEMMA ExpireStructure ==
  ASSUME DeliveryTypeOK, Structure, NEW q \in QueueID, Expire(q)
  PROVE  Structure'
<1> DEFINE a == RowsOf(queue[q])
<1>1. /\ UNCHANGED <<rows, testing, arriving>> /\ LogOne("expiry", q, NoID, "", a)
      /\ queue[q] # {} /\ queue' = [queue EXCEPT ![q] = {}]
  BY DEF Expire, panel
<1>2. /\ queue \in [QueueID -> SUBSET Place] /\ arriving[q] = {}
      /\ Len(mailLog) \in Nat /\ DOMAIN mailLog = 1 .. Len(mailLog)
  BY <1>1, LineFacts DEF DeliveryTypeOK, PostfixTyped, Structure, OneStage
<1>3. a \in SUBSET RowID /\ \A id \in a : Holds(q, id)
  BY <1>2, RowsOfTyped, HeldRows
<1> HIDE DEF a
<1>l. PICK l \in LogLine : /\ l.kind = "expiry" /\ l.qid = q /\ l.about = a
                           /\ mailLog' = Append(mailLog, l) /\ Len(mailLog) < MaxLog
  <2>1. [kind |-> "expiry", qid |-> q, rcpt |-> NoID, status |-> "", about |-> a] \in LogLine
    BY <1>3 DEF LogLine
  <2> QED BY <1>1, <2>1 DEF LogOne
<1>4. /\ Len(mailLog') \in Nat /\ DOMAIN mailLog' = 1 .. Len(mailLog') /\ Len(mailLog') = Len(mailLog) + 1
      /\ \A i \in DOMAIN mailLog : mailLog'[i] = mailLog[i]
      /\ \A i \in DOMAIN mailLog' \ DOMAIN mailLog : mailLog'[i] = l
  BY <1>l, LineAdded DEF DeliveryTypeOK
<1>5. OneStage'
  BY <1>1, <1>2 DEF OneStage, Structure
<1>6. \A z \in QueueID : arriving'[z] \subseteq arriving[z] /\ Placed(z)' \subseteq Placed(z)
  BY <1>1, <1>2 DEF Placed
<1>7. \A id : ~Holds(q, id)'
  BY <1>1, <1>2 DEF Holds, Placed
<1>8. ASSUME NEW i \in DOMAIN mailLog' \ DOMAIN mailLog
      PROVE  /\ mailLog'[i].qid \in QueueID /\ mailLog'[i].kind \in {"delivery", "expiry"}
             /\ mailLog'[i].about \subseteq RowID
             /\ \A id \in mailLog'[i].about :
                 /\ Holds(mailLog'[i].qid, id)
                 /\ mailLog'[i].kind = "delivery" => <<mailLog'[i].rcpt, id>> \in Placed(mailLog'[i].qid)
                                                     /\ mailLog'[i].rcpt \in Recipient
                 /\ Final(mailLog'[i]) => \A z \in QueueID : z = mailLog'[i].qid => ~Holds(z, id)'
  <2>1. mailLog'[i].kind = "expiry" /\ mailLog'[i].qid = q /\ mailLog'[i].about = a
    BY <1>4, <1>l
  <2> QED BY <1>3, <1>7, <2>1
<1>9. /\ UNCHANGED <<rows, testing>> /\ Len(mailLog') \in Nat /\ DOMAIN mailLog' = 1 .. Len(mailLog')
      /\ Len(mailLog') >= Len(mailLog) /\ Len(mailLog') <= Len(mailLog) + 1
      /\ \A i \in DOMAIN mailLog : mailLog'[i] = mailLog[i]
  <2>1. UNCHANGED <<rows, testing>>
    BY <1>1
  <2>2. Len(mailLog') >= Len(mailLog) /\ Len(mailLog') <= Len(mailLog) + 1
    BY <1>2, <1>4
  <2> QED BY <1>4, <2>1, <2>2
<1> QED BY <1>5, <1>6, <1>8, <1>9, PostfixGoesOn

LEMMA AttemptStructure ==
  ASSUME DeliveryTypeOK, Structure, NEW q \in QueueID, NEW p \in queue[q],
         NEW st \in {"sent", "deferred", "bounced"}, Attempt(q, p, st)
  PROVE  Structure'
<1> DEFINE l == [kind |-> "delivery", qid |-> q, rcpt |-> p[1], status |-> st, about |-> RowsOf({p})]
<1>1. /\ UNCHANGED <<rows, testing, arriving>> /\ LogOne("delivery", q, p[1], st, RowsOf({p}))
      /\ queue' = IF st = "deferred" THEN queue ELSE [queue EXCEPT ![q] = @ \ {p}]
  BY DEF Attempt, panel
<1>2. /\ queue \in [QueueID -> SUBSET Place] /\ arriving[q] = {}
      /\ Len(mailLog) \in Nat /\ DOMAIN mailLog = 1 .. Len(mailLog)
  BY LineFacts DEF DeliveryTypeOK, PostfixTyped, Structure, OneStage
<1>3. /\ p \in Place /\ p = <<p[1], p[2]>> /\ p[1] \in Recipient
  BY <1>2, PlaceParts
<1>4. RowsOf({p}) \in SUBSET RowID /\ \A id \in RowsOf({p}) : id = p[2] /\ id \in RowID
  <2>1. RowsOf({p}) \in SUBSET RowID
    BY <1>3, RowsOfTyped
  <2> QED BY <2>1 DEF RowsOf
<1>5. /\ Len(mailLog') \in Nat /\ DOMAIN mailLog' = 1 .. Len(mailLog') /\ Len(mailLog') = Len(mailLog) + 1
      /\ \A i \in DOMAIN mailLog : mailLog'[i] = mailLog[i]
      /\ \A i \in DOMAIN mailLog' \ DOMAIN mailLog : mailLog'[i] = l
  <2>1. l \in LogLine
    BY <1>3, <1>4 DEF LogLine
  <2>2. mailLog' = Append(mailLog, l) /\ Len(mailLog) < MaxLog
    BY <1>1 DEF LogOne
  <2> HIDE DEF l
  <2> QED BY <2>1, <2>2, LineAdded DEF DeliveryTypeOK
<1> HIDE DEF l
<1>6. \A z \in QueueID : queue'[z] \subseteq queue[z]
  BY <1>1, <1>2
<1>7. OneStage'
  BY <1>1, <1>6 DEF OneStage, Structure
<1>8. \A z \in QueueID : arriving'[z] \subseteq arriving[z] /\ Placed(z)' \subseteq Placed(z)
  BY <1>1, <1>6 DEF Placed
<1>9. p \in Placed(q) /\ (st # "deferred" => p \notin Placed(q)')
  BY <1>1, <1>2 DEF Placed
<1>10. ASSUME NEW id \in RowsOf({p}) PROVE Holds(q, id) /\ <<p[1], id>> \in Placed(q) /\ (st # "deferred" => ~Holds(q, id)')
  <2>1. <<p[1], id>> \in Placed(q) /\ id \in RowID /\ <<p[1], id>> = p
    BY <1>3, <1>4, <1>9
  <2>2. ASSUME Holds(q, id)', st # "deferred" PROVE FALSE
    <3>1. PICK r \in Recipient : <<r, id>> \in Placed(q)'
      BY <2>2 DEF Holds
    <3>2. <<r, id>> \in Placed(q)
      BY <1>8, <3>1
    <3>3. rows[id].rcpt = r /\ rows[id].rcpt = p[1]
      BY <1>3, <2>1, <3>2 DEF Structure, PlacesOk
    <3> QED BY <1>9, <2>1, <2>2, <3>1, <3>3
  <2> QED BY <1>3, <2>1, <2>2 DEF Holds
<1>11. ASSUME NEW i \in DOMAIN mailLog' \ DOMAIN mailLog
       PROVE  /\ mailLog'[i].qid \in QueueID /\ mailLog'[i].kind \in {"delivery", "expiry"}
              /\ mailLog'[i].about \subseteq RowID
              /\ \A id \in mailLog'[i].about :
                 /\ Holds(mailLog'[i].qid, id)
                 /\ mailLog'[i].kind = "delivery" => <<mailLog'[i].rcpt, id>> \in Placed(mailLog'[i].qid)
                                                     /\ mailLog'[i].rcpt \in Recipient
                 /\ Final(mailLog'[i]) => \A z \in QueueID : z = mailLog'[i].qid => ~Holds(z, id)'
  <2>1. /\ mailLog'[i].kind = "delivery" /\ mailLog'[i].qid = q /\ mailLog'[i].about = RowsOf({p})
        /\ mailLog'[i].rcpt = p[1] /\ mailLog'[i].status = st
    <3>1. mailLog'[i] = l
      BY <1>5
    <3> QED BY <3>1 DEF l
  <2>2. Final(mailLog'[i]) => st # "deferred"
    BY <2>1 DEF Final
  <2> QED BY <1>3, <1>4, <1>10, <2>1, <2>2
<1> QED BY <1>1, <1>2, <1>5, <1>7, <1>8, <1>11, PostfixGoesOn

LEMMA AcceptStructure ==
  ASSUME DeliveryTypeOK, Structure, NEW q \in QueueID, NEW rs \in SUBSET Recipient, Accept(q, rs)
  PROVE  Structure'
<1>0. /\ RowsTyped /\ DOMAIN rows = 1 .. Len(rows) /\ Len(rows) \in Nat /\ testing \subseteq DOMAIN rows
      /\ arriving \in [QueueID -> SUBSET Place]
  BY RowFacts DEF DeliveryTypeOK, RowsTyped, PostfixTyped
<1>1. PICK n \in 0 .. MaxRows - Len(rows) : \E to \in [1 .. n -> rs] : RowsGiven(q, rs, n, to)
  BY <1>0, AcceptMoves
<1>p. PICK to \in [1 .. n -> rs] : RowsGiven(q, rs, n, to)
  BY <1>1
<1>2. /\ rows' \in Seq(LogRow) /\ Len(rows') = Len(rows) + n
      /\ \A o \in DOMAIN rows : rows'[o] = rows[o]
      /\ \A i \in 1 .. n : LET b == rows'[Len(rows) + i] IN
           b.qid = q /\ b.rcpt = to[i] /\ b.status = "queued" /\ b.old = FALSE
      /\ arriving' = [arriving EXCEPT ![q] = Rowed(rs, n, to)]
  BY <1>p DEF RowsGiven
<1>3. Free(q) /\ UNCHANGED <<queue, mailLog, testing>>
  BY DEF Accept, panel
<1>4. n \in Nat /\ Len(rows) + n <= MaxRows
  BY <1>0, LogBounds
<1>5. DOMAIN rows' = 1 .. Len(rows) + n
  BY <1>2
<1>6. DOMAIN rows \subseteq DOMAIN rows' /\ \A id \in DOMAIN rows' \ DOMAIN rows : id - Len(rows) \in 1 .. n /\ id = Len(rows) + (id - Len(rows))
  BY <1>0, <1>4, <1>5
<1>7. \A id \in DOMAIN rows' \ DOMAIN rows :
        /\ rows'[id].status = "queued" /\ rows'[id].old = FALSE /\ rows'[id].qid = q
        /\ rows'[id].rcpt = to[id - Len(rows)]
  BY <1>2, <1>6
<1>8. \A r, id : <<r, id>> \in Rowed(rs, n, to) =>
              id = 0 \/ (id > Len(rows) /\ id - Len(rows) \in 1 .. n /\ r = to[id - Len(rows)])
  BY <1>0, RowedParts
<1>9. \A z \in QueueID, r \in Recipient, id \in RowID : <<r, id>> \in arriving'[z] =>
            \/ <<r, id>> \in arriving[z]
            \/ /\ id \in DOMAIN rows' \ DOMAIN rows /\ rows'[id].rcpt = r /\ rows'[id].status = "queued"
               /\ rows'[id].qid = z /\ id \notin testing'
  <2> SUFFICES ASSUME NEW z \in QueueID, NEW r \in Recipient, NEW id \in RowID, <<r, id>> \in arriving'[z],
                      <<r, id>> \notin arriving[z]
               PROVE  /\ id \in DOMAIN rows' \ DOMAIN rows /\ rows'[id].rcpt = r /\ rows'[id].status = "queued"
                      /\ rows'[id].qid = z /\ id \notin testing'
    OBVIOUS
  <2>1. z = q /\ <<r, id>> \in Rowed(rs, n, to)
    BY <1>0, <1>2
  <2>2. id \in Nat /\ id > Len(rows) /\ id - Len(rows) \in 1 .. n /\ r = to[id - Len(rows)]
    <3>1. id # 0 /\ id \in Nat
      BY LogBounds DEF RowID
    <3> QED BY <1>8, <2>1, <3>1
  <2>3. id \in DOMAIN rows' \ DOMAIN rows
    BY <1>0, <1>4, <1>5, <2>2
  <2> QED BY <1>0, <1>3, <1>7, <2>1, <2>2, <2>3
<1>10. OneStage'
  <2>1. \A z \in QueueID \ {q} : arriving'[z] = arriving[z]
    BY <1>0, <1>2
  <2> QED BY <1>3, <2>1 DEF Structure, OneStage, Free
<1>11. \A id \in DOMAIN rows' \ DOMAIN rows : rows'[id].status # "gone" /\ rows'[id].old = FALSE
  BY <1>7
<1> QED BY <1>2, <1>3, <1>6, <1>9, <1>10, <1>11, RowsMore

\* A step that adds one row that is not on its way in.
LEMMA OneMoreRow ==
  ASSUME DeliveryTypeOK, Structure, UNCHANGED <<arriving, queue, mailLog>>, Len(rows) < MaxRows,
         NEW b \in LogRow, rows' = Append(rows, b), b.status # "gone", b.old = FALSE,
         testing' = testing \/ (testing' = testing \cup {Len(rows) + 1} /\ b.qid = NoID /\ b.status = "queued")
  PROVE  Structure'
<1>0. /\ RowsTyped /\ DOMAIN rows = 1 .. Len(rows) /\ Len(rows) \in Nat /\ testing \subseteq DOMAIN rows
  BY RowFacts DEF DeliveryTypeOK, RowsTyped
<1>1. /\ rows' \in Seq(LogRow) /\ Len(rows') = Len(rows) + 1
      /\ rows'[Len(rows) + 1] = b
      /\ \A o \in DOMAIN rows : rows'[o] = rows[o]
  BY <1>0, RowAppended
<1>2. DOMAIN rows' = 1 .. Len(rows) + 1
  BY <1>1
<1>3. /\ DOMAIN rows \subseteq DOMAIN rows' /\ \A id \in DOMAIN rows' \ DOMAIN rows : id = Len(rows) + 1
      /\ Len(rows) + 1 \in DOMAIN rows' \ DOMAIN rows /\ Len(rows) + 1 \in RowID
  BY <1>0, <1>2, LogBounds DEF RowID
<1>4. \A id \in DOMAIN rows' \ DOMAIN rows : rows'[id].status # "gone" /\ rows'[id].old = FALSE
  BY <1>1, <1>3
<1>5. \A id \in testing' : \/ id \in testing
                           \/ /\ id \in DOMAIN rows' \ DOMAIN rows /\ id \in RowID
                              /\ rows'[id].status = "queued" /\ rows'[id].qid = NoID
  BY <1>1, <1>3
<1>6. \A id \in testing' : id \in DOMAIN rows => id \in testing
  BY <1>3
<1>7. OneStage'
  BY DEF OneStage, Structure
<1> QED BY <1>1, <1>3, <1>4, <1>5, <1>6, <1>7, RowsMore

LEMMA StructureStep ==
  ASSUME DeliveryTypeOK, Structure, [DeliveryNext]_deliveryVars
  PROVE  Structure'
<1>1. CASE UNCHANGED deliveryVars
  <2>1. UNCHANGED <<postfix, rows, testing>>
    BY <1>1 DEF deliveryVars, panel
  <2> QED BY <2>1, RowsStay, StatusOnly
<1>2. ASSUME NEW q \in QueueID, NEW r \in Recipient, RefuseFrom(q, r) PROVE Structure'
  <2>1. LET b == NewRow(q, r, "rejected", FALSE) IN b \in LogRow /\ b.status # "gone" /\ b.old = FALSE
    BY DEF NewRow, LogRow, Status
  <2>2. UNCHANGED <<arriving, queue, mailLog, testing>> /\ Len(rows) < MaxRows
        /\ rows' = Append(rows, NewRow(q, r, "rejected", FALSE))
    BY <1>2 DEF RefuseFrom, panel
  <2> QED BY <2>1, <2>2, OneMoreRow
<1>3. ASSUME NEW r \in Recipient, SendTest(r) PROVE Structure'
  <2>1. LET b == NewRow(NoID, r, "queued", TRUE) IN
        b \in LogRow /\ b.status = "queued" /\ b.old = FALSE /\ b.qid = NoID
    BY DEF NewRow, LogRow, Status
  <2>2. UNCHANGED <<arriving, queue, mailLog>> /\ Len(rows) < MaxRows
        /\ rows' = Append(rows, NewRow(NoID, r, "queued", TRUE)) /\ testing' = testing \cup {Len(rows) + 1}
    BY <1>3 DEF SendTest, postfix
  <2> QED BY <2>1, <2>2, OneMoreRow
<1>4. ASSUME Postfix PROVE Structure' \/ \E id \in testing : TestRefused(id)
  BY <1>2, <1>3, <1>4, AcceptStructure, QueuedStructure, ExpireStructure, AttemptStructure,
     TestTakenStructure DEF Postfix
<1> QED BY <1>1, <1>4, PanelStructure DEF DeliveryNext

-----------------------------------------------------------------------------
(* What the rows show                                                      *)

LogExtends == DOMAIN mailLog \subseteq DOMAIN mailLog' /\ \A i \in DOMAIN mailLog : mailLog'[i] = mailLog[i]

LEMMA RowsKeepFacts ==
  ASSUME RowsTyped, RowsKeep, rows' \in Seq(LogRow)
  PROVE  DOMAIN rows \subseteq DOMAIN rows' /\ \A id \in DOMAIN rows : Becomes(rows[id], rows'[id])
<1>1. DOMAIN rows' = 1 .. Len(rows') /\ Len(rows') \in Nat
  OBVIOUS
<1> QED BY <1>1, RowFacts DEF RowsKeep

\* A row's queue id is its own only if it was before.
LEMMA OnlyBefore ==
  ASSUME RowsTyped, RowsKeep, rows' \in Seq(LogRow), LogExtends, NEW id \in DOMAIN rows, rows[id].qid # NoID,
         OnlyOfItsID(id)'
  PROVE  OnlyOfItsID(id)
<1>1. DOMAIN rows \subseteq DOMAIN rows' /\ \A o \in DOMAIN rows : Becomes(rows[o], rows'[o])
  BY RowsKeepFacts
<1>2. rows'[id].qid = rows[id].qid /\ rows'[id].rcpt = rows[id].rcpt
  BY <1>1 DEF Becomes
<1>3. ASSUME NEW o \in DOMAIN rows \ {id}, rows[o].qid = rows[id].qid, rows[o].rcpt = rows[id].rcpt
      PROVE  rows[o].status = "rejected"
  <2>1. rows'[o].qid = rows[o].qid /\ rows'[o].rcpt = rows[o].rcpt /\ o \in DOMAIN rows' \ {id}
    BY <1>1, <1>3 DEF Becomes
  <2>2. rows'[o].status = "rejected"
    BY <1>2, <1>3, <2>1 DEF OnlyOfItsID
  <2> QED BY <1>1, <2>2 DEF Becomes
<1>4. ASSUME NEW i \in DOMAIN mailLog, mailLog[i].kind = "delivery",
             mailLog[i].qid = rows[id].qid, mailLog[i].rcpt = rows[id].rcpt
      PROVE  id \in mailLog[i].about
  BY <1>2, <1>4 DEF OnlyOfItsID, LogExtends
<1> QED BY <1>3, <1>4 DEF OnlyOfItsID

LEMMA HandledLines ==
  ASSUME DeliveryTypeOK, LinesOk, NEW i \in 1 .. pos, NEW id \in mailLog[i].about
  PROVE  /\ i \in DOMAIN mailLog /\ id \in DOMAIN rows
         /\ mailLog[i].qid \in QueueID /\ mailLog[i].qid # NoID
<1>1. i \in DOMAIN mailLog
  BY LineFacts DEF DeliveryTypeOK, TailerTyped
<1> QED BY <1>1, LineFacts, LogNames DEF DeliveryTypeOK, LinesOk, LogLine

\* Steps beside the tailer and the sweep: no status but "gone" is written.
LEMMA BesideThem ==
  ASSUME DeliveryTypeOK, Structure, SweepOk, SentOk, ShownOk,
         RowsKeep, rows' \in Seq(LogRow), LogExtends, UNCHANGED <<pos, caughtUp, sweep, base, lost>>,
         \A id \in DOMAIN rows : rows'[id].qid = rows[id].qid /\ rows'[id].status \in {rows[id].status, "gone"},
         \A id \in DOMAIN rows' \ DOMAIN rows : rows'[id].status # "sent",
         \A q \in QueueID, id \in DOMAIN rows : Holds(q, id)' => Holds(q, id) \/ id \in testing
  PROVE  SweepOk' /\ SentOk' /\ ShownOk'
<1>1. RowsTyped /\ DOMAIN rows \subseteq DOMAIN rows' /\ \A o \in DOMAIN rows : Becomes(rows[o], rows'[o])
  BY RowsKeepFacts DEF DeliveryTypeOK
<1>2. SweepOk'
  <2>1. ASSUME NEW id \in sweep.rows
        PROVE  /\ rows'[id].old /\ rows'[id].qid # NoID
               /\ sweep.at \in {"scan", "close"} => \A q \in QueueID : ~Holds(q, id)'
    <3>1. id \in DOMAIN rows
      BY DEF DeliveryTypeOK, SweepTyped
    <3>2. rows[id].old /\ rows[id].qid # NoID /\ (sweep.at \in {"scan", "close"} => \A q \in QueueID : ~Holds(q, id))
      BY DEF SweepOk
    <3>3. id \notin testing
      BY <3>2 DEF Structure, TestingOk
    <3> QED BY <1>1, <3>1, <3>2, <3>3 DEF Becomes
  <2> QED BY <2>1 DEF SweepOk
<1>3. SentOk'
  <2> SUFFICES ASSUME NEW id \in DOMAIN rows', rows'[id].status = "sent"
               PROVE  /\ rows'[id].qid # NoID
                      /\ OnlyOfItsID(id)' => \E i \in DOMAIN mailLog' : /\ id \in mailLog'[i].about
                                                                        /\ mailLog'[i].kind = "delivery"
                                                                        /\ mailLog'[i].status = "sent"
    BY DEF SentOk
  <2>1. id \in DOMAIN rows /\ rows[id].status = "sent"
    OBVIOUS
  <2>2. rows'[id].qid # NoID /\ rows[id].qid # NoID
    BY <2>1 DEF SentOk
  <2>3. OnlyOfItsID(id)' => OnlyOfItsID(id)
    BY <1>1, <2>1, <2>2, OnlyBefore
  <2> QED BY <2>1, <2>2, <2>3 DEF SentOk, LogExtends
<1>4. ShownOk'
  <2> SUFFICES ASSUME NEW i \in 1 .. pos, i \notin lost, NEW id \in mailLog'[i].about,
                      rows'[id].qid = mailLog'[i].qid, OnlyOfItsID(id)'
               PROVE  Showing(i, id)'
    BY DEF ShownOk
  <2>0. i \in DOMAIN mailLog /\ mailLog'[i] = mailLog[i]
    BY LineFacts DEF DeliveryTypeOK, TailerTyped, LogExtends
  <2>1. id \in DOMAIN rows /\ mailLog[i].qid # NoID
    BY <2>0, HandledLines DEF Structure
  <2>2. rows[id].qid = mailLog[i].qid
    BY <2>0, <2>1
  <2>3. OnlyOfItsID(id)
    BY <1>1, <2>1, <2>2, OnlyBefore
  <2>4. Showing(i, id)
    BY <2>0, <2>2, <2>3 DEF ShownOk
  <2> QED BY <2>0, <2>1, <2>4 DEF Showing
<1> QED BY <1>2, <1>3, <1>4

\* Postfix is such a step.
LEMMA QueueHolds ==
  ASSUME DeliveryTypeOK, NEW q \in QueueID, Enqueue(q) \/ Drop(q) \/ Expire(q)
                                            \/ \E p \in queue[q], st \in {"sent", "deferred", "bounced"} : Attempt(q, p, st)
  PROVE  \A z \in QueueID, id \in DOMAIN rows : Holds(z, id)' => Holds(z, id)
<1>1. arriving \in [QueueID -> SUBSET Place] /\ queue \in [QueueID -> SUBSET Place]
  BY DEF DeliveryTypeOK, PostfixTyped
<1>2. \A z \in QueueID : Placed(z)' \subseteq Placed(z)
  <2>1. CASE Enqueue(q)
    BY <1>1, <2>1 DEF Enqueue, Placed
  <2>2. CASE Drop(q) \/ Expire(q)
    BY <1>1, <2>2 DEF Drop, Expire, Placed
  <2>3. CASE \E p \in queue[q], st \in {"sent", "deferred", "bounced"} : Attempt(q, p, st)
    BY <1>1, <2>3 DEF Attempt, Placed
  <2> QED BY <2>1, <2>2, <2>3
<1> QED BY <1>2 DEF Holds

LEMMA AcceptHolds ==
  ASSUME DeliveryTypeOK, NEW q \in QueueID, NEW rs \in SUBSET Recipient, Accept(q, rs)
  PROVE  /\ RowsKeep /\ rows' \in Seq(LogRow) /\ \A o \in DOMAIN rows : rows'[o] = rows[o]
         /\ \A id \in DOMAIN rows' \ DOMAIN rows : rows'[id].status # "sent"
         /\ \A z \in QueueID, id \in DOMAIN rows : Holds(z, id)' => Holds(z, id)
<1>0. /\ RowsTyped /\ DOMAIN rows = 1 .. Len(rows) /\ Len(rows) \in Nat
      /\ arriving \in [QueueID -> SUBSET Place]
  BY RowFacts DEF DeliveryTypeOK, PostfixTyped
<1>1. PICK n \in 0 .. MaxRows - Len(rows) : \E to \in [1 .. n -> rs] : RowsGiven(q, rs, n, to)
  BY <1>0, AcceptMoves
<1>2. PICK to \in [1 .. n -> rs] : RowsGiven(q, rs, n, to)
  BY <1>1
<1>3. /\ rows' \in Seq(LogRow) /\ Len(rows') = Len(rows) + n /\ RowsKeep
      /\ \A o \in DOMAIN rows : rows'[o] = rows[o]
      /\ \A i \in 1 .. n : rows'[Len(rows) + i].status = "queued"
      /\ arriving' = [arriving EXCEPT ![q] = Rowed(rs, n, to)]
  BY <1>2 DEF RowsGiven
<1>4. DOMAIN rows' = 1 .. Len(rows) + n /\ n \in Nat
  BY <1>0, <1>3, LogBounds
<1>5. \A id \in DOMAIN rows' \ DOMAIN rows : id - Len(rows) \in 1 .. n /\ id = Len(rows) + (id - Len(rows))
  BY <1>0, <1>4
<1>6. \A id \in DOMAIN rows' \ DOMAIN rows : rows'[id].status # "sent"
  BY <1>3, <1>5
<1>7. \A r, id : <<r, id>> \in Rowed(rs, n, to) =>
              id = 0 \/ (id > Len(rows) /\ id - Len(rows) \in 1 .. n /\ r = to[id - Len(rows)])
  BY <1>0, RowedParts
<1>8. ASSUME NEW z \in QueueID, NEW id \in DOMAIN rows, Holds(z, id)' PROVE Holds(z, id)
  <2>1. PICK r \in Recipient : <<r, id>> \in Placed(z)'
    BY <1>8 DEF Holds
  <2>2. UNCHANGED queue
    BY DEF Accept
  <2>3. ~(id = 0) /\ ~(id > Len(rows))
    BY <1>0
  <2>4. <<r, id>> \notin Rowed(rs, n, to)
    BY <1>7, <2>3
  <2>5. <<r, id>> \in Placed(z)
    BY <1>0, <1>3, <2>1, <2>2, <2>4 DEF Placed
  <2> QED BY <2>5 DEF Holds
<1> QED BY <1>3, <1>6, <1>8

LEMMA TestTakenHolds ==
  ASSUME DeliveryTypeOK, NEW q \in QueueID, NEW t \in testing, TestTaken(t, q)
  PROVE  \A z \in QueueID, id \in DOMAIN rows : Holds(z, id)' => Holds(z, id) \/ id \in testing
<1>1. arriving \in [QueueID -> SUBSET Place] /\ arriving' = [arriving EXCEPT ![q] = {<<rows[t].rcpt, t>>}] /\ UNCHANGED queue
  BY DEF DeliveryTypeOK, PostfixTyped, TestTaken
<1>2. ASSUME NEW z \in QueueID, NEW id \in DOMAIN rows, Holds(z, id)', id \notin testing PROVE Holds(z, id)
  <2>1. PICK r \in Recipient : <<r, id>> \in Placed(z)'
    BY <1>2 DEF Holds
  <2>2. <<r, id>> # <<rows[t].rcpt, t>>
    BY <1>2
  <2>3. <<r, id>> \in Placed(z)
    BY <1>1, <2>1, <2>2 DEF Placed
  <2> QED BY <2>3 DEF Holds
<1> QED BY <1>2

LEMMA LogKept ==
  ASSUME DeliveryTypeOK, UNCHANGED mailLog \/ \E l : mailLog' = Append(mailLog, l)
  PROVE  LogExtends
<1>1. CASE UNCHANGED mailLog
  BY <1>1 DEF LogExtends
<1>2. ASSUME NEW l, mailLog' = Append(mailLog, l) PROVE LogExtends
  <2>1. mailLog \in Seq(LogLine) /\ Len(mailLog) \in Nat
    BY DEF DeliveryTypeOK, PostfixTyped
  <2> QED BY <1>2, <2>1 DEF LogExtends
<1> QED BY <1>1, <1>2

LEMMA BesideStep ==
  ASSUME DeliveryTypeOK, Structure, SweepOk, SentOk, ShownOk,
         Postfix \/ SavePlace \/ \E id \in RowID : Age(id) \/ Prune(id)
  PROVE  SweepOk' /\ SentOk' /\ ShownOk'
<1>t. RowsTyped /\ Len(rows) \in Nat /\ DOMAIN rows = 1 .. Len(rows)
  BY RowFacts DEF DeliveryTypeOK
<1>1. UNCHANGED <<pos, caughtUp, sweep, base, lost>>
  BY DEF Postfix, SavePlace, Age, Prune, Accept, RefuseFrom, Enqueue, Expire, Drop, Attempt, TestTaken, SendTest, TestRefused, panel, witnessed
<1>2. LogExtends
  <2>1. UNCHANGED mailLog \/ \E l : mailLog' = Append(mailLog, l)
    BY DEF Postfix, SavePlace, Age, Prune, Accept, RefuseFrom, Enqueue, Expire, Drop, Attempt, TestTaken,
           SendTest, TestRefused, postfix, LogOne
  <2> QED BY <2>1, LogKept
<1>3. ASSUME RowsKeep, rows' \in Seq(LogRow),
             \A id \in DOMAIN rows : rows'[id].qid = rows[id].qid /\ rows'[id].status \in {rows[id].status, "gone"},
             \A id \in DOMAIN rows' \ DOMAIN rows : rows'[id].status # "sent",
             \A q \in QueueID, id \in DOMAIN rows : Holds(q, id)' => Holds(q, id) \/ id \in testing
      PROVE  SweepOk' /\ SentOk' /\ ShownOk'
  BY <1>1, <1>2, <1>3, BesideThem
<1>4. ASSUME UNCHANGED <<arriving, queue>> PROVE \A q \in QueueID, id \in DOMAIN rows : Holds(q, id)' => Holds(q, id)
  BY <1>4 DEF Holds, Placed
<1>5. ASSUME SameRows PROVE RowsKeep /\ rows' \in Seq(LogRow) /\ DOMAIN rows' = DOMAIN rows
  BY <1>5, <1>t DEF SameRows
<1>6. ASSUME UNCHANGED rows, \A q \in QueueID, id \in DOMAIN rows : Holds(q, id)' => Holds(q, id) \/ id \in testing
      PROVE  SweepOk' /\ SentOk' /\ ShownOk'
  BY <1>3, <1>5, <1>6, RowsStay
<1>7. ASSUME NEW b \in LogRow, rows' = Append(rows, b), Len(rows) < MaxRows, b.status # "sent", UNCHANGED <<arriving, queue>>
      PROVE  SweepOk' /\ SentOk' /\ ShownOk'
  <2>1. /\ rows' \in Seq(LogRow) /\ Len(rows') = Len(rows) + 1 /\ RowsKeep
        /\ rows'[Len(rows) + 1] = b /\ \A o \in DOMAIN rows : rows'[o] = rows[o]
    BY <1>t, <1>7, RowAppended
  <2>2. \A id \in DOMAIN rows' \ DOMAIN rows : id = Len(rows) + 1
    BY <1>t, <2>1
  <2> QED BY <1>3, <1>4, <1>7, <2>1, <2>2
<1>8. ASSUME NEW q \in QueueID, NEW rs \in SUBSET Recipient, Accept(q, rs) PROVE SweepOk' /\ SentOk' /\ ShownOk'
  BY <1>3, <1>8, AcceptHolds
<1>9. ASSUME NEW q \in QueueID, NEW r \in Recipient, RefuseFrom(q, r) PROVE SweepOk' /\ SentOk' /\ ShownOk'
  <2>1. LET b == NewRow(q, r, "rejected", FALSE) IN b \in LogRow /\ b.status # "sent"
    BY DEF NewRow, LogRow, Status
  <2> QED BY <1>7, <1>9, <2>1 DEF RefuseFrom
<1>10. ASSUME NEW r \in Recipient, SendTest(r) PROVE SweepOk' /\ SentOk' /\ ShownOk'
  <2>1. LET b == NewRow(NoID, r, "queued", TRUE) IN b \in LogRow /\ b.status # "sent"
    BY DEF NewRow, LogRow, Status
  <2> QED BY <1>7, <1>10, <2>1 DEF SendTest, postfix
<1>11. ASSUME NEW q \in QueueID, Enqueue(q) \/ Drop(q) \/ Expire(q)
                                  \/ \E p \in queue[q], st \in {"sent", "deferred", "bounced"} : Attempt(q, p, st)
       PROVE  SweepOk' /\ SentOk' /\ ShownOk'
  <2>1. UNCHANGED rows
    BY <1>11 DEF Enqueue, Drop, Expire, Attempt
  <2> QED BY <1>6, <1>11, <2>1, QueueHolds
<1>12. ASSUME NEW q \in QueueID, NEW t \in testing, TestTaken(t, q) PROVE SweepOk' /\ SentOk' /\ ShownOk'
  <2>1. UNCHANGED rows
    BY <1>12 DEF TestTaken
  <2> QED BY <1>6, <1>12, <2>1, TestTakenHolds
<1>13. ASSUME NEW t \in testing, TestRefused(t) PROVE SweepOk' /\ SentOk' /\ ShownOk'
  <2>1. /\ SameRows
        /\ \A o \in DOMAIN rows :
              /\ rows'[o].qid = rows[o].qid /\ rows'[o].old = rows[o].old
              /\ rows'[o] # rows[o] => o = t /\ rows'[o].status = "gone"
    BY <1>t, <1>13, RefusedMoves
  <2>2. UNCHANGED <<arriving, queue>>
    BY <1>13 DEF TestRefused, postfix
  <2> QED BY <1>3, <1>4, <1>5, <2>1, <2>2
<1>14. ASSUME SavePlace PROVE SweepOk' /\ SentOk' /\ ShownOk'
  BY <1>4, <1>6, <1>14 DEF SavePlace, postfix
<1>15. ASSUME NEW id \in RowID, Age(id) \/ Prune(id) PROVE SweepOk' /\ SentOk' /\ ShownOk'
  <2>1. SameRows /\ \A o \in DOMAIN rows : rows'[o].qid = rows[o].qid /\ rows'[o].status \in {rows[o].status, "gone"}
    <3>1. CASE Age(id)
      BY <1>t, <3>1, AgeMoves
    <3>2. CASE Prune(id)
      BY <1>t, <3>2, PruneMoves
    <3> QED BY <1>15, <3>1, <3>2
  <2>2. UNCHANGED <<arriving, queue>>
    BY <1>15 DEF Age, Prune, postfix
  <2> QED BY <1>3, <1>4, <1>5, <2>1, <2>2
<1>16. CASE Postfix
  BY <1>8, <1>9, <1>10, <1>11, <1>12, <1>13, <1>16 DEF Postfix
<1> QED BY <1>14, <1>15, <1>16

\* The steps of the sweep and its closings: an open row becomes "bounced".
ClosesOpen == \A o \in DOMAIN rows : /\ rows'[o].qid = rows[o].qid
                                     /\ rows'[o] # rows[o] => Open(o) /\ rows'[o].status = "bounced"

LEMMA ClosingSteps ==
  ASSUME DeliveryTypeOK, Structure, SentOk, ShownOk, SameRows, UNCHANGED <<mailLog, pos, lost>>, ClosesOpen
  PROVE  SentOk' /\ ShownOk'
<1>0. /\ RowsTyped /\ RowsKeep /\ rows' \in Seq(LogRow) /\ DOMAIN rows' = DOMAIN rows
      /\ \A i \in DOMAIN mailLog : mailLog[i] \in LogLine
  BY RowFacts, LineFacts DEF SameRows, DeliveryTypeOK
<1>1. LogExtends
  BY DEF LogExtends
<1>2. SentOk'
  <2> SUFFICES ASSUME NEW id \in DOMAIN rows, rows'[id].status = "sent"
               PROVE  /\ rows'[id].qid # NoID
                      /\ OnlyOfItsID(id)' => \E i \in DOMAIN mailLog : /\ id \in mailLog[i].about
                                                                        /\ mailLog[i].kind = "delivery"
                                                                        /\ mailLog[i].status = "sent"
    BY <1>0 DEF SentOk
  <2>1. rows'[id] = rows[id]
    BY DEF ClosesOpen
  <2>2. rows'[id].qid # NoID /\ rows[id].qid # NoID
    BY <2>1 DEF SentOk
  <2>3. OnlyOfItsID(id)' => OnlyOfItsID(id)
    BY <1>0, <1>1, <2>2, OnlyBefore
  <2> QED BY <2>1, <2>2, <2>3 DEF SentOk
<1>3. ShownOk'
  <2> SUFFICES ASSUME NEW i \in 1 .. pos, i \notin lost, NEW id \in mailLog[i].about,
                      rows'[id].qid = mailLog[i].qid, OnlyOfItsID(id)'
               PROVE  Showing(i, id)'
    BY DEF ShownOk
  <2>1. i \in DOMAIN mailLog /\ id \in DOMAIN rows /\ mailLog[i].qid # NoID
    BY HandledLines DEF Structure
  <2>2. rows[id].qid = mailLog[i].qid
    BY <2>1 DEF ClosesOpen
  <2>3. OnlyOfItsID(id)
    BY <1>0, <1>1, <2>1, <2>2, OnlyBefore
  <2>4. Showing(i, id)
    BY <2>2, <2>3 DEF ShownOk
  <2>5. mailLog[i].status \in {"", "sent", "deferred", "bounced"}
    BY <1>0, <2>1 DEF LogLine
  <2>6. mailLog[i].kind = "delivery" => mailLog[i].status # ""
    BY <1>0, <2>1 DEF LogLine
  <2>7. CASE rows'[id] = rows[id]
    BY <2>4, <2>7 DEF Showing
  <2>8. CASE rows'[id] # rows[id]
    <3>1. rows[id].status \in {"queued", "deferred"} /\ rows'[id].status = "bounced"
      BY <2>1, <2>8 DEF ClosesOpen, Open, OpenStatus
    <3> QED BY <2>4, <2>5, <2>6, <3>1 DEF Showing
  <2> QED BY <2>7, <2>8
<1> QED BY <1>2, <1>3

\* Postfix has done with an old row of a queue id that it does not list.
LEMMA NotListed ==
  ASSUME DeliveryTypeOK, Structure, NEW id \in DOMAIN rows, rows[id].old, rows[id].qid # NoID, queue[rows[id].qid] = {}
  PROVE  \A q \in QueueID : ~Holds(q, id)
<1> SUFFICES ASSUME NEW q \in QueueID, Holds(q, id) PROVE FALSE
  OBVIOUS
<1>1. id \in RowID
  BY RowFacts DEF DeliveryTypeOK
<1>2. PICK r \in Recipient : <<r, id>> \in Placed(q)
  BY DEF Holds
<1>3. rows[id].qid = q
  BY <1>1, <1>2 DEF Structure, PlacesOk
<1>4. <<r, id>> \in arriving[q]
  BY <1>2, <1>3 DEF Placed
<1> QED BY <1>1, <1>4 DEF Structure, OldOk

LEMMA SweepStepOk ==
  ASSUME DeliveryTypeOK, Structure, SweepOk, SentOk, ShownOk, Sweep
  PROVE  SweepOk' /\ SentOk' /\ ShownOk'
<1>t. RowsTyped /\ sweep.rows \subseteq DOMAIN rows
  BY DEF DeliveryTypeOK, SweepTyped
<1>0. UNCHANGED <<postfix, saved, pos, caughtUp, awaited, testing, witnessed>>
  BY DEF Sweep, SweepStep, SweepList, SweepNothing, SweepQueueIDs, SweepNoListing, SweepResultsInLog,
         SweepClose, SweepCloseFails, SweepCount, CloseUnmatchedTestMessages
<1>1. UNCHANGED <<arriving, queue, mailLog, pos, lost, base, caughtUp>>
  BY <1>0 DEF postfix, witnessed
<1>h. \A q, id : Holds(q, id)' <=> Holds(q, id)
  BY <1>1 DEF Holds, Placed
<1>2. ASSUME SameRows, ClosesOpen
      PROVE  SentOk' /\ ShownOk'
  BY <1>1, <1>2, ClosingSteps
<1>3. ASSUME UNCHANGED rows PROVE SentOk' /\ ShownOk'
  BY <1>2, <1>3, RowsStay DEF ClosesOpen
<1>4. ASSUME sweep'.at # "idle" => caughtUp, sweep'.at = "idle" => sweep'.rows = {},
             \A id \in sweep'.rows : /\ rows'[id].old /\ rows'[id].qid # NoID
                                     /\ sweep'.at \in {"scan", "close"} => \A q \in QueueID : ~Holds(q, id)
      PROVE  SweepOk'
  BY <1>1, <1>h, <1>4 DEF SweepOk
<1>5. sweep.at # "idle" => caughtUp
  BY DEF SweepOk
<1>6. ASSUME sweep' = [Idle EXCEPT !.at = "tests"], caughtUp PROVE SweepOk'
  <2>1. sweep'.rows = {} /\ sweep'.at = "tests"
    BY <1>6 DEF Idle
  <2> QED BY <1>4, <1>6, <2>1
<1>7. ASSUME SweepList PROVE SweepOk' /\ UNCHANGED rows
  <2>1. sweep'.rows = ListOpenOlderThan /\ sweep'.at = "listed" /\ caughtUp /\ UNCHANGED rows
    BY <1>7 DEF SweepList, Idle
  <2> QED BY <1>4, <2>1 DEF ListOpenOlderThan
<1>8. ASSUME SweepNothing \/ SweepNoListing \/ SweepCount PROVE SweepOk' /\ UNCHANGED rows
  BY <1>5, <1>6, <1>8 DEF SweepNothing, SweepNoListing, SweepCount
<1>9. ASSUME SweepQueueIDs PROVE SweepOk' /\ UNCHANGED rows
  <2> DEFINE ids == {id \in sweep.rows : queue[rows[id].qid] = {}}
  <2>1. sweep' = [sweep EXCEPT !.at = "scan", !.rows = ids] /\ UNCHANGED rows /\ sweep.at = "listed"
    BY <1>9 DEF SweepQueueIDs
  <2>2. \A id \in ids : id \in sweep.rows /\ queue[rows[id].qid] = {}
    OBVIOUS
  <2> HIDE DEF ids
  <2>3. sweep'.rows = ids /\ sweep'.at = "scan"
    BY <2>1 DEF DeliveryTypeOK, SweepTyped, SweepState
  <2>4. \A id \in ids : rows[id].old /\ rows[id].qid # NoID /\ id \in DOMAIN rows
    BY <1>t, <2>2 DEF SweepOk
  <2>5. \A id \in ids : \A q \in QueueID : ~Holds(q, id)
    BY <2>2, <2>4, NotListed
  <2> QED BY <1>4, <1>5, <2>1, <2>3, <2>4, <2>5
<1>10. ASSUME SweepResultsInLog PROVE SweepOk' /\ UNCHANGED rows
  <2>1. sweep' = [sweep EXCEPT !.at = "close", !.inLog = ResultsInLog(sweep.rows)] /\ UNCHANGED rows /\ sweep.at = "scan"
    BY <1>10 DEF SweepResultsInLog
  <2>2. sweep'.rows = sweep.rows /\ sweep'.at = "close"
    BY <2>1 DEF DeliveryTypeOK, SweepTyped, SweepState
  <2> QED BY <1>4, <1>5, <2>1, <2>2 DEF SweepOk
<1>11. ASSUME NEW id \in RowID, SweepClose(id) \/ SweepCloseFails(id) PROVE SweepOk' /\ SentOk' /\ ShownOk'
  <2>1. /\ sweep'.rows = sweep.rows \ {id} /\ sweep'.at = "close" /\ sweep.at = "close" /\ id \in sweep.rows
    BY <1>11 DEF SweepClose, SweepCloseFails, DeliveryTypeOK, SweepTyped, SweepState
  <2>2. /\ SameRows
        /\ \A o \in DOMAIN rows : /\ rows'[o].qid = rows[o].qid /\ rows'[o].old = rows[o].old
                                  /\ rows'[o] # rows[o] => Open(o) /\ rows'[o].status = "bounced"
    <3>1. CASE SweepClose(id)
      <4>1. rows' = CloseUnreported(id) /\ id \in DOMAIN rows
        BY <1>t, <2>1, <3>1 DEF SweepClose
      <4>2. SameRows
        BY <1>t, <4>1, CloseMoves
      <4>3. \A o \in DOMAIN rows :
              /\ rows'[o].qid = rows[o].qid /\ rows'[o].old = rows[o].old
              /\ rows'[o] # rows[o] => o = id /\ Open(o) /\ rows'[o].status = "bounced"
        BY <1>t, <4>1, CloseMoves
      <4> QED BY <4>2, <4>3
    <3>2. CASE SweepCloseFails(id)
      BY <3>2, RowsStay DEF SweepCloseFails
    <3> QED BY <1>11, <3>1, <3>2
  <2>3. \A o \in sweep'.rows : o \in sweep.rows /\ o \in DOMAIN rows
    BY <1>t, <2>1
  <2>4. SweepOk'
    <3>1. \A o \in sweep'.rows : /\ rows'[o].old /\ rows'[o].qid # NoID /\ \A q \in QueueID : ~Holds(q, o)
      BY <2>1, <2>2, <2>3 DEF SweepOk
    <3> QED BY <1>4, <1>5, <2>1, <3>1
  <2>5. ClosesOpen
    BY <2>2 DEF ClosesOpen
  <2> QED BY <1>2, <2>2, <2>4, <2>5
<1>12. ASSUME CloseUnmatchedTestMessages PROVE SweepOk' /\ SentOk' /\ ShownOk'
  <2>1. SameRows
    BY <1>t, <1>12, CloseTestsMoves
  <2>2. \A o \in DOMAIN rows :
          /\ rows'[o].qid = rows[o].qid /\ rows'[o].old = rows[o].old
          /\ rows'[o] # rows[o] => Open(o) /\ rows[o].qid = NoID /\ rows'[o].status = "bounced"
    BY <1>t, <1>12, CloseTestsMoves
  <2>3. sweep'.rows = {} /\ sweep'.at = "idle"
    BY <1>12 DEF CloseUnmatchedTestMessages, Idle
  <2>4. SweepOk'
    BY <1>4, <2>3
  <2>5. ClosesOpen
    BY <2>2 DEF ClosesOpen
  <2> QED BY <1>2, <2>1, <2>4, <2>5
<1> QED BY <1>3, <1>7, <1>8, <1>9, <1>10, <1>11, <1>12 DEF Sweep

LEMMA RestartOk ==
  ASSUME DeliveryTypeOK, Structure, SweepOk, SentOk, ShownOk, Restart
  PROVE  SweepOk' /\ SentOk' /\ ShownOk'
<1>1. /\ caughtUp' = FALSE /\ sweep' = Idle /\ UNCHANGED <<mailLog, rows>>
      /\ \E p \in saved .. Len(mailLog) : pos' = p /\ lost' = lost \cup (saved + 1 .. p)
  BY DEF Restart, postfix
<1>2. SweepOk'
  BY <1>1 DEF SweepOk, Idle
<1>3. SentOk'
  BY <1>1 DEF SentOk, OnlyOfItsID
<1>4. ShownOk'
  <2>1. PICK p \in saved .. Len(mailLog) : pos' = p /\ lost' = lost \cup (saved + 1 .. p)
    BY <1>1
  <2>2. saved \in Nat /\ pos \in Nat /\ saved <= pos /\ p \in Nat
    BY <2>1, LineFacts DEF DeliveryTypeOK, TailerTyped
  <2>3. \A i \in 1 .. pos' : i \notin lost' => i \in 1 .. pos /\ i \notin lost
    BY <2>1, <2>2
  <2> QED BY <1>1, <2>3 DEF ShownOk, OnlyOfItsID, Showing
<1> QED BY <1>2, <1>3, <1>4

\* The rows a line's row competes with, when its queue id is its own.
LEMMA OnlyIsNewest ==
  ASSUME RowsTyped, NEW id \in DOMAIN rows, OnlyOfItsID(id), rows[id].status \notin {"rejected", "gone"}
  PROVE  id \in NewestRow(rows[id].qid, rows[id].rcpt)
<1>1. \A o \in DOMAIN rows : rows[o].qid = rows[id].qid /\ rows[o].rcpt = rows[id].rcpt
                             /\ rows[o].status \notin {"rejected", "gone"} => o = id
  BY DEF OnlyOfItsID
<1>2. id <= id
  BY RowFacts
<1> QED BY <1>1, <1>2 DEF NewestRow

LEMMA TailerSweepOk ==
  ASSUME DeliveryTypeOK, SweepOk, SameRows, UNCHANGED <<postfix, caughtUp, sweep, base>>, pos' = pos + 1,
         \A id \in DOMAIN rows : rows'[id].old = rows[id].old
  PROVE  SweepOk'
<1>1. UNCHANGED <<arriving, queue>> /\ pos \in Nat /\ base \in Nat
  BY LineFacts DEF postfix, DeliveryTypeOK, TailerTyped
<1>2. \A q, id : Holds(q, id)' <=> Holds(q, id)
  BY <1>1 DEF Holds, Placed
<1>3. sweep.rows \subseteq DOMAIN rows
  BY DEF DeliveryTypeOK, SweepTyped
<1>4. \A id \in sweep.rows : rows'[id].old /\ rows'[id].qid # NoID
  BY <1>3, RowsKeepFacts DEF SweepOk, SameRows, Becomes, DeliveryTypeOK
<1>5. caughtUp => base <= pos'
  BY <1>1 DEF SweepOk
<1> QED BY <1>2, <1>4, <1>5 DEF SweepOk

\* The lines before the one the tailer is at.
LEMMA LinesHandled ==
  ASSUME DeliveryTypeOK, pos < Len(mailLog), pos' = pos + 1
  PROVE  /\ pos + 1 \in DOMAIN mailLog /\ mailLog[pos + 1] \in LogLine /\ NextLine = mailLog[pos + 1]
         /\ \A i \in 1 .. pos' : i \in 1 .. pos \/ i = pos + 1
         /\ \A i \in 1 .. pos : pos + 1 \in i + 1 .. Len(mailLog) /\ i \in DOMAIN mailLog
<1>1. pos \in Nat /\ Len(mailLog) \in Nat /\ DOMAIN mailLog = 1 .. Len(mailLog)
  BY LineFacts DEF DeliveryTypeOK, TailerTyped
<1>2. pos + 1 \in DOMAIN mailLog
  BY <1>1
<1>3. mailLog[pos + 1] \in LogLine
  BY <1>2, LineFacts DEF DeliveryTypeOK
<1>4. \A i \in 1 .. pos : pos + 1 \in i + 1 .. Len(mailLog) /\ i \in DOMAIN mailLog
  BY <1>1
<1> QED BY <1>1, <1>2, <1>3, <1>4 DEF NextLine

LEMMA DeliveryHandled ==
  ASSUME DeliveryTypeOK, Structure, SweepOk, SentOk, ShownOk, HandleDelivery
  PROVE  SweepOk' /\ SentOk' /\ ShownOk'
<1> DEFINE l == mailLog[pos + 1]
<1>1. /\ SameRows /\ pos < Len(mailLog) /\ pos' = pos + 1 /\ UNCHANGED lost
      /\ UNCHANGED <<postfix, caughtUp, sweep, base>>
  BY HandlerMoves
<1>2. UNCHANGED mailLog
  BY <1>1 DEF postfix
<1>3. /\ pos + 1 \in DOMAIN mailLog /\ l \in LogLine /\ NextLine = l
      /\ \A i \in 1 .. pos' : i \in 1 .. pos \/ i = pos + 1
      /\ \A i \in 1 .. pos : pos + 1 \in i + 1 .. Len(mailLog) /\ i \in DOMAIN mailLog
  BY <1>1, LinesHandled
<1>4. l.kind = "delivery" /\ UpdateStatus(l.qid, l.rcpt, l.status)
  BY <1>3 DEF HandleDelivery
<1>5. l.qid \in QueueID /\ l.qid # NoID /\ l.status \in {"sent", "deferred", "bounced"}
  BY <1>3, <1>4, LogNames DEF LogLine
<1>n. l = mailLog[pos + 1]
  OBVIOUS
<1> HIDE DEF l
<1>6. \A id \in DOMAIN rows :
        /\ rows'[id].qid = rows[id].qid /\ rows'[id].old = rows[id].old
        /\ id \in NewestRow(l.qid, l.rcpt) => rows'[id].status = l.status
        /\ id \notin NewestRow(l.qid, l.rcpt) => rows'[id] = rows[id]
  BY <1>4, <1>5, UpdateMoves DEF DeliveryTypeOK
<1>7. /\ RowsTyped /\ RowsKeep /\ rows' \in Seq(LogRow) /\ DOMAIN rows' = DOMAIN rows /\ LogExtends
      /\ \A id \in DOMAIN rows : Becomes(rows[id], rows'[id])
  BY <1>1, <1>2, RowFacts, RowsKeepFacts DEF SameRows, DeliveryTypeOK, LogExtends
<1>8. SweepOk'
  BY <1>1, <1>6, TailerSweepOk
<1>9. \A id \in DOMAIN rows : id \in NewestRow(l.qid, l.rcpt) => rows[id].qid = l.qid /\ rows[id].rcpt = l.rcpt
  BY DEF NewestRow
<1>10. SentOk'
  <2> SUFFICES ASSUME NEW id \in DOMAIN rows, rows'[id].status = "sent"
               PROVE  /\ rows'[id].qid # NoID
                      /\ OnlyOfItsID(id)' => \E i \in DOMAIN mailLog : /\ id \in mailLog[i].about
                                                                        /\ mailLog[i].kind = "delivery"
                                                                        /\ mailLog[i].status = "sent"
    BY <1>2, <1>7 DEF SentOk
  <2>1. CASE id \in NewestRow(l.qid, l.rcpt)
    <3>1. rows[id].qid = l.qid /\ rows[id].rcpt = l.rcpt /\ rows'[id].qid # NoID /\ l.status = "sent"
      BY <1>5, <1>6, <1>9, <2>1
    <3>2. OnlyOfItsID(id)' => OnlyOfItsID(id)
      BY <1>5, <1>7, <3>1, OnlyBefore
    <3>3. OnlyOfItsID(id) => id \in mailLog[pos + 1].about
      BY <1>3, <1>4, <1>n, <3>1 DEF OnlyOfItsID
    <3> QED BY <1>3, <1>4, <1>n, <3>1, <3>2, <3>3
  <2>2. CASE id \notin NewestRow(l.qid, l.rcpt)
    <3>1. rows'[id] = rows[id]
      BY <1>6, <2>2
    <3>2. rows'[id].qid # NoID /\ rows[id].qid # NoID
      BY <3>1 DEF SentOk
    <3>3. OnlyOfItsID(id)' => OnlyOfItsID(id)
      BY <1>7, <3>2, OnlyBefore
    <3> QED BY <3>1, <3>2, <3>3 DEF SentOk
  <2> QED BY <2>1, <2>2
<1>11. ShownOk'
  <2> SUFFICES ASSUME NEW i \in 1 .. pos', i \notin lost, NEW id \in mailLog[i].about,
                      rows'[id].qid = mailLog[i].qid, OnlyOfItsID(id)'
               PROVE  Showing(i, id)'
    BY <1>1, <1>2 DEF ShownOk
  <2>1. i \in DOMAIN mailLog
    BY <1>3
  <2>2. id \in DOMAIN rows /\ rows[id].status # "rejected" /\ (mailLog[i].kind = "delivery" => rows[id].rcpt = mailLog[i].rcpt)
    BY <2>1 DEF Structure, LinesOk
  <2>3. rows[id].qid = mailLog[i].qid /\ rows[id].qid # NoID
    <3>1. mailLog[i].qid \in QueueID
      BY <2>1, LineFacts DEF DeliveryTypeOK, LogLine
    <3> QED BY <1>6, <2>2, <3>1, LogNames
  <2>4. OnlyOfItsID(id)
    BY <1>7, <2>2, <2>3, OnlyBefore
  <2>5. CASE i \in 1 .. pos
    <3>1. Showing(i, id)
      BY <2>3, <2>4, <2>5 DEF ShownOk
    <3>2. CASE id \notin NewestRow(l.qid, l.rcpt)
      BY <1>2, <1>6, <2>2, <3>1, <3>2 DEF Showing
    <3>3. CASE id \in NewestRow(l.qid, l.rcpt)
      <4>1. id \in mailLog[pos + 1].about
        BY <1>3, <1>4, <1>9, <1>n, <2>2, <2>4, <3>3 DEF OnlyOfItsID
      <4>2. ~Final(mailLog[i])
        BY <1>3, <2>1, <2>5, <4>1 DEF Structure, EndsOk
      <4> QED BY <1>2, <4>2 DEF Final, Showing
    <3> QED BY <3>2, <3>3
  <2>6. CASE i = pos + 1
    <3>1. rows[id].qid = l.qid /\ rows[id].rcpt = l.rcpt /\ mailLog[i] = l
      BY <1>4, <1>n, <2>2, <2>3, <2>6
    <3>2. CASE rows[id].status = "gone"
      <4>1. rows'[id].status = "gone"
        BY <1>7, <2>2, <3>2 DEF Becomes
      <4> QED BY <1>2, <1>4, <3>1, <4>1 DEF Showing
    <3>3. CASE rows[id].status # "gone"
      <4>1. id \in NewestRow(l.qid, l.rcpt)
        BY <1>7, <2>2, <2>4, <3>1, <3>3, OnlyIsNewest
      <4>2. rows'[id].status = l.status
        BY <1>6, <2>2, <4>1
      <4> QED BY <1>2, <1>4, <3>1, <4>2 DEF Showing
    <3> QED BY <3>2, <3>3
  <2> QED BY <1>3, <2>5, <2>6
<1> QED BY <1>8, <1>10, <1>11

LEMMA ExpiryHandled ==
  ASSUME DeliveryTypeOK, Structure, SweepOk, SentOk, ShownOk, HandleExpiry
  PROVE  SweepOk' /\ SentOk' /\ ShownOk'
<1> DEFINE l == mailLog[pos + 1]
<1>1. /\ SameRows /\ pos < Len(mailLog) /\ pos' = pos + 1 /\ UNCHANGED lost
      /\ UNCHANGED <<postfix, caughtUp, sweep, base>>
  BY HandlerMoves
<1>2. UNCHANGED mailLog
  BY <1>1 DEF postfix
<1>3. /\ pos + 1 \in DOMAIN mailLog /\ l \in LogLine /\ NextLine = l
      /\ \A i \in 1 .. pos' : i \in 1 .. pos \/ i = pos + 1
      /\ \A i \in 1 .. pos : pos + 1 \in i + 1 .. Len(mailLog) /\ i \in DOMAIN mailLog
  BY <1>1, LinesHandled
<1>4. l.kind = "expiry" /\ ExpireMessage(l.qid)
  BY <1>3 DEF HandleExpiry
<1>5. l.qid \in QueueID /\ l.qid # NoID
  BY <1>3, LogNames DEF LogLine
<1>n. l = mailLog[pos + 1]
  OBVIOUS
<1> HIDE DEF l
<1>6. \A id \in DOMAIN rows :
        LET hit == Open(id) /\ \E r \in Recipient : id \in NewestRow(l.qid, r) IN
        /\ rows'[id].qid = rows[id].qid /\ rows'[id].old = rows[id].old
        /\ hit => rows'[id].status = "bounced"
        /\ ~hit => rows'[id] = rows[id]
  BY <1>4, <1>5, ExpireMoves DEF DeliveryTypeOK
<1>7. /\ RowsTyped /\ RowsKeep /\ rows' \in Seq(LogRow) /\ DOMAIN rows' = DOMAIN rows /\ LogExtends
      /\ \A id \in DOMAIN rows : Becomes(rows[id], rows'[id]) /\ rows[id] \in LogRow
  BY <1>1, <1>2, RowFacts, RowsKeepFacts DEF SameRows, DeliveryTypeOK, LogExtends
<1>8. SweepOk'
  BY <1>1, <1>6, TailerSweepOk
<1>9. \A id \in DOMAIN rows : /\ rows'[id].qid = rows[id].qid
                              /\ rows'[id] = rows[id] \/ (Open(id) /\ rows'[id].status = "bounced")
  BY <1>6
<1>10. SentOk'
  <2> SUFFICES ASSUME NEW id \in DOMAIN rows, rows'[id].status = "sent"
               PROVE  /\ rows'[id].qid # NoID
                      /\ OnlyOfItsID(id)' => \E i \in DOMAIN mailLog : /\ id \in mailLog[i].about
                                                                        /\ mailLog[i].kind = "delivery"
                                                                        /\ mailLog[i].status = "sent"
    BY <1>2, <1>7 DEF SentOk
  <2>1. rows'[id] = rows[id]
    BY <1>9
  <2>2. rows'[id].qid # NoID /\ rows[id].qid # NoID
    BY <2>1 DEF SentOk
  <2>3. OnlyOfItsID(id)' => OnlyOfItsID(id)
    BY <1>7, <2>2, OnlyBefore
  <2> QED BY <2>1, <2>2, <2>3 DEF SentOk
<1>11. ShownOk'
  <2> SUFFICES ASSUME NEW i \in 1 .. pos', i \notin lost, NEW id \in mailLog[i].about,
                      rows'[id].qid = mailLog[i].qid, OnlyOfItsID(id)'
               PROVE  Showing(i, id)'
    BY <1>1, <1>2 DEF ShownOk
  <2>1. i \in DOMAIN mailLog /\ mailLog[i] \in LogLine
    BY <1>3, LineFacts DEF DeliveryTypeOK
  <2>2. id \in DOMAIN rows /\ rows[id].status # "rejected"
    BY <2>1 DEF Structure, LinesOk
  <2>3. rows[id].qid = mailLog[i].qid /\ rows[id].qid # NoID
    <3>1. mailLog[i].qid \in QueueID
      BY <2>1 DEF LogLine
    <3> QED BY <1>9, <2>2, <3>1, LogNames
  <2>4. OnlyOfItsID(id)
    BY <1>7, <2>2, <2>3, OnlyBefore
  <2>5. CASE i \in 1 .. pos
    <3>1. Showing(i, id)
      BY <2>3, <2>4, <2>5 DEF ShownOk
    <3>2. CASE rows'[id] = rows[id]
      BY <1>2, <3>1, <3>2 DEF Showing
    <3>3. CASE Open(id) /\ rows'[id].status = "bounced"
      <4>1. rows[id].status \in {"queued", "deferred"}
        BY <3>3 DEF Open, OpenStatus
      <4>2. mailLog[i].status \in {"", "sent", "deferred", "bounced"} /\ (mailLog[i].kind = "delivery" => mailLog[i].status # "")
        BY <2>1 DEF LogLine
      <4> QED BY <1>2, <3>1, <3>3, <4>1, <4>2 DEF Showing
    <3> QED BY <1>9, <2>2, <3>2, <3>3
  <2>6. CASE i = pos + 1
    <3>1. mailLog[i] = l /\ rows[id].qid = l.qid
      BY <1>n, <2>3, <2>6
    <3>2. rows[id].status \in {"queued", "deferred", "sent", "bounced", "gone"} /\ rows[id].rcpt \in Recipient
      BY <1>7, <2>2 DEF LogRow, Status
    <3>3. rows[id].status # "sent"
      <4> SUFFICES ASSUME rows[id].status = "sent" PROVE FALSE
        OBVIOUS
      <4>1. PICK j \in DOMAIN mailLog : id \in mailLog[j].about /\ mailLog[j].kind = "delivery" /\ mailLog[j].status = "sent"
        BY <2>2, <2>4 DEF SentOk
      <4>2. Final(mailLog[j]) /\ Final(mailLog[i])
        BY <1>4, <3>1, <4>1 DEF Final
      <4>3. i \notin j + 1 .. Len(mailLog) /\ j \notin i + 1 .. Len(mailLog)
        BY <2>1, <4>1, <4>2 DEF Structure, EndsOk
      <4>4. i = j
        BY <2>1, <4>3, LineFacts DEF DeliveryTypeOK
      <4> QED BY <1>4, <3>1, <4>1, <4>4
    <3>4. CASE rows[id].status \in {"queued", "deferred"}
      <4>1. id \in NewestRow(l.qid, rows[id].rcpt) /\ Open(id)
        BY <1>7, <2>2, <2>4, <3>1, <3>4, OnlyIsNewest DEF Open, OpenStatus
      <4>2. rows'[id].status = "bounced"
        BY <1>6, <2>2, <3>2, <4>1
      <4> QED BY <1>2, <1>4, <3>1, <4>2 DEF Showing
    <3>5. CASE rows[id].status \in {"bounced", "gone"}
      <4>1. rows'[id] = rows[id]
        BY <1>9, <2>2, <3>5 DEF Open, OpenStatus
      <4> QED BY <1>2, <1>4, <3>1, <3>5, <4>1 DEF Showing
    <3> QED BY <3>2, <3>3, <3>4, <3>5
  <2> QED BY <1>3, <2>5, <2>6
<1> QED BY <1>8, <1>10, <1>11

LEMMA MessageIDHandled ==
  ASSUME DeliveryTypeOK, Structure, SweepOk, SentOk, ShownOk, HandleMessageID
  PROVE  SweepOk' /\ SentOk' /\ ShownOk'
<1> DEFINE l == mailLog[pos + 1]
<1>1. /\ SameRows /\ pos < Len(mailLog) /\ pos' = pos + 1 /\ UNCHANGED lost
      /\ UNCHANGED <<postfix, caughtUp, sweep, base>>
  BY HandlerMoves
<1>2. UNCHANGED mailLog
  BY <1>1 DEF postfix
<1>3. /\ pos + 1 \in DOMAIN mailLog /\ l \in LogLine /\ NextLine = l
      /\ \A i \in 1 .. pos' : i \in 1 .. pos \/ i = pos + 1
      /\ \A i \in 1 .. pos : pos + 1 \in i + 1 .. Len(mailLog) /\ i \in DOMAIN mailLog
  BY <1>1, LinesHandled
<1>4. l.kind = "message-id" /\ TakeAwaited(l)
  BY <1>3 DEF HandleMessageID
<1>n. l = mailLog[pos + 1]
  OBVIOUS
<1> HIDE DEF l
<1>6. \A id \in DOMAIN rows :
        /\ rows'[id].status = rows[id].status /\ rows'[id].old = rows[id].old
        /\ rows'[id].qid # rows[id].qid =>
             id \in l.about /\ ~rows[id].old /\ rows[id].qid = NoID /\ rows'[id].qid = l.qid
  BY <1>3, <1>4, TakeMoves DEF DeliveryTypeOK
<1>7. /\ RowsTyped /\ RowsKeep /\ rows' \in Seq(LogRow) /\ DOMAIN rows' = DOMAIN rows /\ LogExtends
  BY <1>1, <1>2, RowFacts, RowsKeepFacts DEF SameRows, DeliveryTypeOK, LogExtends
<1>8. SweepOk'
  BY <1>1, <1>6, TailerSweepOk
<1>10. SentOk'
  <2> SUFFICES ASSUME NEW id \in DOMAIN rows, rows'[id].status = "sent"
               PROVE  /\ rows'[id].qid # NoID
                      /\ OnlyOfItsID(id)' => \E i \in DOMAIN mailLog : /\ id \in mailLog[i].about
                                                                        /\ mailLog[i].kind = "delivery"
                                                                        /\ mailLog[i].status = "sent"
    BY <1>2, <1>7 DEF SentOk
  <2>1. rows[id].status = "sent" /\ rows[id].qid # NoID
    BY <1>6 DEF SentOk
  <2>2. rows'[id].qid # NoID
    BY <1>6, <2>1
  <2>3. OnlyOfItsID(id)' => OnlyOfItsID(id)
    BY <1>7, <2>1, OnlyBefore
  <2> QED BY <2>1, <2>2, <2>3 DEF SentOk
<1>11. ShownOk'
  <2> SUFFICES ASSUME NEW i \in 1 .. pos', i \notin lost, NEW id \in mailLog[i].about,
                      rows'[id].qid = mailLog[i].qid, OnlyOfItsID(id)'
               PROVE  Showing(i, id)'
    BY <1>1, <1>2 DEF ShownOk
  <2>1. i \in DOMAIN mailLog /\ mailLog[i] \in LogLine
    BY <1>3, LineFacts DEF DeliveryTypeOK
  <2>2. id \in DOMAIN rows
    BY <2>1 DEF Structure, LinesOk
  <2>3. CASE i = pos + 1
    BY <1>2, <1>4, <1>n, <2>3 DEF Showing
  <2>4. CASE i \in 1 .. pos
    <3>1. rows'[id].qid = rows[id].qid
      <4>1. i \in 1 .. (pos + 1) - 1
        BY <2>4, LineFacts DEF DeliveryTypeOK, TailerTyped
      <4>2. id \notin l.about
        BY <1>3, <1>4, <1>n, <4>1 DEF Structure, LinesOk
      <4> QED BY <1>6, <2>2, <4>2
    <3>2. rows[id].qid = mailLog[i].qid /\ rows[id].qid # NoID
      <4>1. mailLog[i].qid \in QueueID
        BY <2>1 DEF LogLine
      <4> QED BY <3>1, <4>1, LogNames
    <3>3. OnlyOfItsID(id)
      BY <1>7, <2>2, <3>2, OnlyBefore
    <3>4. Showing(i, id)
      BY <2>4, <3>2, <3>3 DEF ShownOk
    <3> QED BY <1>2, <1>6, <2>2, <3>4 DEF Showing
  <2> QED BY <1>3, <2>3, <2>4
<1> QED BY <1>8, <1>10, <1>11

LEMMA TailerStepOk ==
  ASSUME DeliveryTypeOK, Structure, SweepOk, SentOk, ShownOk, Tailer
  PROVE  SweepOk' /\ SentOk' /\ ShownOk'
<1>1. ASSUME HandleFails PROVE SweepOk' /\ SentOk' /\ ShownOk'
  <2>1. /\ pos < Len(mailLog) /\ pos' = pos + 1 /\ lost' = lost \cup {pos + 1} /\ UNCHANGED rows
        /\ UNCHANGED <<postfix, caughtUp, sweep, base>>
    BY <1>1 DEF HandleFails, Advance
  <2>2. UNCHANGED mailLog
    BY <2>1 DEF postfix
  <2>3. SweepOk'
    BY <2>1, TailerSweepOk, RowsStay
  <2>4. SentOk'
    BY <2>1, <2>2 DEF SentOk, OnlyOfItsID
  <2>5. \A i \in 1 .. pos' : i \notin lost' => i \in 1 .. pos /\ i \notin lost
    BY <2>1, LinesHandled
  <2>6. ShownOk'
    BY <2>1, <2>2, <2>5 DEF ShownOk, OnlyOfItsID, Showing
  <2> QED BY <2>3, <2>4, <2>6
<1>2. ASSUME CatchUp PROVE SweepOk' /\ SentOk' /\ ShownOk'
  <2>1. /\ pos = Len(mailLog) /\ caughtUp' = TRUE /\ UNCHANGED <<rows, mailLog, pos, sweep, base, lost, arriving, queue>>
    BY <1>2 DEF CatchUp, postfix, witnessed
  <2>2. base <= pos
    BY <2>1, LineFacts DEF DeliveryTypeOK, TailerTyped
  <2>3. SweepOk'
    BY <2>1, <2>2 DEF SweepOk, Holds, Placed
  <2>4. SentOk' /\ ShownOk'
    BY <2>1 DEF SentOk, OnlyOfItsID, ShownOk, Showing
  <2> QED BY <2>3, <2>4
<1> QED BY <1>1, <1>2, DeliveryHandled, ExpiryHandled, MessageIDHandled DEF Tailer

LEMMA ShownInit == DeliveryInit => Structure /\ SweepOk /\ SentOk /\ ShownOk
<1> SUFFICES ASSUME DeliveryInit PROVE Structure /\ SweepOk /\ SentOk /\ ShownOk
  OBVIOUS
<1>1. /\ DOMAIN rows = {} /\ DOMAIN mailLog = {} /\ pos = 0 /\ testing = {} /\ sweep = Idle /\ caughtUp = FALSE
      /\ \A q \in QueueID : arriving[q] = {} /\ queue[q] = {}
  BY DEF DeliveryInit
<1>2. Structure
  <2>1. PlacesOk /\ OneStage /\ OldOk
    BY <1>1 DEF PlacesOk, OneStage, OldOk, Placed
  <2>2. TestingOk /\ LinesOk /\ EndsOk /\ GoneOk
    BY <1>1 DEF TestingOk, LinesOk, EndsOk, GoneOk
  <2> QED BY <2>1, <2>2 DEF Structure
<1>3. SweepOk
  BY <1>1 DEF SweepOk, Idle
<1>4. SentOk /\ ShownOk
  BY <1>1 DEF SentOk, ShownOk
<1> QED BY <1>2, <1>3, <1>4

LEMMA DeliveryInvStep ==
  ASSUME DeliveryInv, [DeliveryNext]_deliveryVars
  PROVE  DeliveryInv'
<1> USE DEF DeliveryInv
<1>1. DeliveryTypeOK' /\ Structure'
  BY DeliveryTypesStep, StructureStep
<1>2. SweepOk' /\ SentOk' /\ ShownOk'
  <2>1. CASE UNCHANGED deliveryVars
    BY <2>1 DEF deliveryVars, postfix, panel, witnessed, SweepOk, Holds, Placed, SentOk, OnlyOfItsID, ShownOk, Showing
  <2> QED BY <2>1, BesideStep, TailerStepOk, SweepStepOk, RestartOk DEF DeliveryNext
<1> QED BY <1>1, <1>2

\* The inductive invariant of the send log's rows: what Postfix has, what its
\* lines are of, and what the rows say of the lines that were handled.
THEOREM DeliveryInvariant == DeliverySpec => []DeliveryInv
<1>1. DeliveryInit => DeliveryInv
  BY DeliveryInitTyped, ShownInit DEF DeliveryInv
<1> QED BY <1>1, DeliveryInvStep, PTL DEF DeliverySpec

\* Every variable of the delivery log has its type, whatever Postfix, the
\* tailer, the sweep, the panel's test message and stops do.
THEOREM DeliveryTypes == DeliverySpec => []DeliveryTypeOK
<1>1. DeliveryInv => DeliveryTypeOK
  BY DEF DeliveryInv
<1> QED BY <1>1, DeliveryInvariant, PTL

\* A row shows the final result its message has in the log, once the tailer is
\* at its end (UpdateStatus, ExpireMessage, CloseUnreported).
THEOREM FinalLineOnTheRow == DeliverySpec => []FinalLineShown
<1>1. DeliveryInv => FinalLineShown
  <2> SUFFICES ASSUME DeliveryInv, pos = Len(mailLog), NEW i \in DOMAIN mailLog \ lost, NEW id \in mailLog[i].about,
                      rows[id].qid = mailLog[i].qid /\ OnlyOfItsID(id)
               PROVE  Showing(i, id)
    BY DEF FinalLineShown, Showing
  <2>1. i \in 1 .. pos
    BY LineFacts DEF DeliveryInv, DeliveryTypeOK
  <2> QED BY <2>1 DEF DeliveryInv, ShownOk
<1> QED BY <1>1, DeliveryInvariant, PTL

LEMMA SweepClosesLast ==
  ASSUME DeliveryInv, [DeliveryNext]_deliveryVars, NEW id \in DOMAIN rows, ClosedBySweep(id)
  PROVE  ~InPostfix(id) /\ \A i \in pos + 1 .. base : id \notin mailLog[i].about
<1> USE DEF DeliveryInv
<1>1. sweep.at = "close" /\ sweep' # sweep /\ rows' # rows
  BY DEF ClosedBySweep
<1>2. PICK k \in RowID : SweepClose(k)
  <2>1. ~ UNCHANGED deliveryVars
    BY <1>1 DEF deliveryVars
  <2>2. ~Tailer /\ ~SavePlace
    BY <1>1 DEF Tailer, SavePlace, HandleDelivery, HandleExpiry, HandleMessageID, HandleFails, CatchUp, Advance, panel
  <2>3. ~Restart /\ ~(\E o \in RowID : Age(o) \/ Prune(o))
    BY <1>1 DEF Restart, Age, Prune, panel
  <2>4. ~Postfix
    BY <1>1 DEF Postfix, Accept, RefuseFrom, Enqueue, Expire, Drop, Attempt, TestTaken, SendTest, TestRefused, panel
  <2>5. Sweep
    BY <2>1, <2>2, <2>3, <2>4 DEF DeliveryNext
  <2> QED BY <1>1, <2>5 DEF Sweep, SweepList, SweepNothing, SweepQueueIDs, SweepNoListing, SweepResultsInLog,
                            SweepCloseFails, SweepCount, CloseUnmatchedTestMessages
<1>3. k \in sweep.rows /\ rows' = CloseUnreported(k) /\ k \in DOMAIN rows
  BY <1>2 DEF SweepClose, DeliveryTypeOK, SweepTyped
<1>4. id = k
  <2>1. \A o \in DOMAIN rows :
          /\ rows'[o].qid = rows[o].qid /\ rows'[o].old = rows[o].old
          /\ rows'[o] # rows[o] => o = k /\ Open(o) /\ rows'[o].status = "bounced"
    BY <1>3, CloseMoves DEF DeliveryTypeOK
  <2> QED BY <2>1 DEF ClosedBySweep
<1>5. \A q \in QueueID : ~Holds(q, id)
  BY <1>1, <1>3, <1>4 DEF SweepOk
<1>6. ~InPostfix(id)
  <2> SUFFICES ASSUME NEW q \in QueueID, NEW p \in arriving[q] \cup queue[q], p[2] = id PROVE FALSE
    BY DEF InPostfix
  <2>1. p \in Place
    BY DEF DeliveryTypeOK, PostfixTyped
  <2>2. p = <<p[1], id>> /\ p[1] \in Recipient
    BY <2>1, PlaceParts
  <2>3. Holds(q, id)
    BY <2>2 DEF Holds, Placed
  <2> QED BY <1>5, <2>3
<1>7. base <= pos /\ base \in Nat /\ pos \in Nat
  BY <1>1, LineFacts DEF SweepOk, DeliveryTypeOK, TailerTyped
<1> QED BY <1>6, <1>7

\* The sweep closes no row Postfix still has a message of, and none a line of
\* before the start is unread of (reconcile, reconcileLoop).
THEOREM SweepGuessesLastAlways == DeliverySpec => SweepGuessesLast
<1>1. DeliveryInv /\ [DeliveryNext]_deliveryVars =>
        [\A id \in DOMAIN rows : ClosedBySweep(id) =>
           /\ ~InPostfix(id)
           /\ \A i \in pos + 1 .. base : id \notin mailLog[i].about]_deliveryVars
  BY SweepClosesLast
<1> QED BY <1>1, DeliveryInvariant, PTL DEF DeliverySpec, SweepGuessesLast

\* The newest row of a queue id and recipient is no older than one a line of
\* it is about.
LEMMA NewestNotOlder ==
  ASSUME DeliveryInv, NEW i \in DOMAIN mailLog, NEW a \in mailLog[i].about, NEW q, NEW r,
         NEW id \in NewestRow(q, r), rows[a].qid = q, rows[a].rcpt = r
  PROVE  id >= a
<1> USE DEF DeliveryInv
<1>1. a \in DOMAIN rows /\ rows[a].status # "rejected"
  BY DEF Structure, LinesOk
<1>2. id \in DOMAIN rows /\ rows[id].status # "gone" /\ id \in Nat /\ a \in Nat /\ id >= 1
  BY <1>1, RowFacts DEF NewestRow, DeliveryTypeOK
<1>3. CASE rows[a].status # "gone"
  BY <1>1, <1>2, <1>3 DEF NewestRow
<1>4. CASE rows[a].status = "gone"
  <2>1. Known(a)
    BY DEF Known, Told
  <2>2. \A o \in 1 .. a : rows[o].status = "gone"
    BY <1>1, <1>4, <2>1 DEF Structure, GoneOk
  <2>3. id \notin 1 .. a
    BY <1>2, <2>2
  <2> QED BY <1>2, <2>3
<1> QED BY <1>3, <1>4

RewritesNone(id) ==
    rows'[id].status # rows[id].status =>
        /\ rows[id].status # "rejected"
        /\ \A a \in NextLine.about : rows[a].qid = NextLine.qid /\ rows[a].rcpt = rows[id].rcpt => id >= a

LEMMA LineRewritesNone ==
  ASSUME DeliveryInv, [DeliveryNext]_deliveryVars, pos' = pos + 1, NEW id \in DOMAIN rows
  PROVE  RewritesNone(id)
<1> USE DEF DeliveryInv
<1>0. pos \in Nat
  BY LineFacts DEF DeliveryTypeOK, TailerTyped
<1>1. ASSUME UNCHANGED rows PROVE RewritesNone(id)
  BY <1>1 DEF RewritesNone
<1>2. ASSUME HandleDelivery PROVE RewritesNone(id)
  <2>1. /\ pos < Len(mailLog) /\ NextLine \in LogLine /\ NextLine.kind = "delivery"
        /\ UpdateStatus(NextLine.qid, NextLine.rcpt, NextLine.status)
    BY <1>2, HandlerMoves DEF HandleDelivery
  <2>2. NextLine.qid \in QueueID /\ NextLine.status \in {"sent", "deferred", "bounced"}
    BY <2>1 DEF LogLine
  <2>3. \A o \in DOMAIN rows :
          /\ rows'[o].qid = rows[o].qid /\ rows'[o].old = rows[o].old
          /\ o \in NewestRow(NextLine.qid, NextLine.rcpt) => rows'[o].status = NextLine.status
          /\ o \notin NewestRow(NextLine.qid, NextLine.rcpt) => rows'[o] = rows[o]
    BY <2>1, <2>2, UpdateMoves DEF DeliveryTypeOK
  <2>4. pos + 1 \in DOMAIN mailLog /\ NextLine = mailLog[pos + 1]
    BY <2>1, LinesHandled
  <2>5. SUFFICES ASSUME id \in NewestRow(NextLine.qid, NextLine.rcpt) PROVE RewritesNone(id)
    BY <2>3 DEF RewritesNone
  <2>6. rows[id].rcpt = NextLine.rcpt /\ rows[id].status # "rejected"
    BY <2>5 DEF NewestRow
  <2>7. \A a \in NextLine.about : rows[a].qid = NextLine.qid /\ rows[a].rcpt = rows[id].rcpt => id >= a
    BY <2>4, <2>5, <2>6, NewestNotOlder
  <2> QED BY <2>6, <2>7 DEF RewritesNone
<1>3. ASSUME HandleExpiry PROVE RewritesNone(id)
  <2>1. pos < Len(mailLog) /\ NextLine \in LogLine /\ ExpireMessage(NextLine.qid)
    BY <1>3, HandlerMoves DEF HandleExpiry
  <2>2. NextLine.qid \in QueueID
    BY <2>1 DEF LogLine
  <2>3. \A o \in DOMAIN rows :
          LET hit == Open(o) /\ \E r \in Recipient : o \in NewestRow(NextLine.qid, r) IN
          /\ rows'[o].qid = rows[o].qid /\ rows'[o].old = rows[o].old
          /\ hit => rows'[o].status = "bounced"
          /\ ~hit => rows'[o] = rows[o]
    BY <2>1, <2>2, ExpireMoves DEF DeliveryTypeOK
  <2>4. pos + 1 \in DOMAIN mailLog /\ NextLine = mailLog[pos + 1]
    BY <2>1, LinesHandled
  <2>5. SUFFICES ASSUME NEW r \in Recipient, id \in NewestRow(NextLine.qid, r) PROVE RewritesNone(id)
    BY <2>3 DEF RewritesNone
  <2>6. rows[id].rcpt = r /\ rows[id].status # "rejected"
    BY <2>5 DEF NewestRow
  <2>7. \A a \in NextLine.about : rows[a].qid = NextLine.qid /\ rows[a].rcpt = rows[id].rcpt => id >= a
    BY <2>4, <2>5, <2>6, NewestNotOlder
  <2> QED BY <2>6, <2>7 DEF RewritesNone
<1>4. ASSUME HandleMessageID PROVE RewritesNone(id)
  <2>1. NextLine \in LogLine /\ TakeAwaited(NextLine)
    BY <1>4, HandlerMoves DEF HandleMessageID
  <2>2. rows'[id].status = rows[id].status
    BY <2>1, TakeMoves DEF DeliveryTypeOK
  <2> QED BY <2>2 DEF RewritesNone
<1>5. UNCHANGED rows \/ HandleDelivery \/ HandleExpiry \/ HandleMessageID
  <2>1. ~ UNCHANGED pos
    BY <1>0
  <2>2. ~ UNCHANGED deliveryVars /\ ~CatchUp /\ ~SavePlace /\ ~(\E o \in RowID : Age(o) \/ Prune(o))
    BY <2>1 DEF deliveryVars, panel, CatchUp, SavePlace, Age, Prune
  <2>3. ~Sweep
    BY <2>1 DEF Sweep, SweepStep, SweepList, SweepNothing, SweepQueueIDs, SweepNoListing, SweepResultsInLog,
         SweepClose, SweepCloseFails, SweepCount, CloseUnmatchedTestMessages
  <2>4. ~Postfix
    BY <2>1 DEF Postfix, Accept, RefuseFrom, Enqueue, Expire, Drop, Attempt, TestTaken, SendTest, TestRefused, panel
  <2> QED BY <2>2, <2>3, <2>4 DEF DeliveryNext, Tailer, HandleFails, Restart
<1> QED BY <1>1, <1>2, <1>3, <1>4, <1>5

\* No line rewrites the row of an older message or of a refusal (UpdateStatus,
\* ExpireMessage).
THEOREM NoOlderRowRewrittenAlways == DeliverySpec => NoOlderRowRewritten
<1>1. DeliveryInv /\ [DeliveryNext]_deliveryVars =>
        [pos' = pos + 1 =>
         \A id \in DOMAIN rows :
            rows'[id].status # rows[id].status =>
                /\ rows[id].status # "rejected"
                /\ \A a \in NextLine.about :
                      rows[a].qid = NextLine.qid /\ rows[a].rcpt = rows[id].rcpt => id >= a]_deliveryVars
  BY LineRewritesNone DEF RewritesNone
<1> QED BY <1>1, DeliveryInvariant, PTL DEF DeliverySpec, NoOlderRowRewritten
=============================================================================
