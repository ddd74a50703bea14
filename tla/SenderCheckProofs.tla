------------------------- MODULE SenderCheckProofs -------------------------
(***************************************************************************)
(* Proofs about SenderCheck: the judgement while the file of bindings is   *)
(* rewritten, and the rows, their names and lines, and the counts of what  *)
(* was refused or turned away through stops, kills and failing stores, for *)
(* any number of messages, connections and processes and any bounds.       *)
(***************************************************************************)
EXTENDS SenderCheck, FiniteSetTheorems, WellFoundedInduction, TLAPS

-----------------------------------------------------------------------------
(* The state.                                                              *)

OfMessage == {"client", "refused", "broken"}
OfClient == {"connect", "warning"}
LineType == [kind : OfMessage \cup OfClient \cup {"mail"}, of : Msg \cup Conn \cup Texts, by : Pid \cup {0}]
LineOk(l) ==
    /\ l \in LineType
    /\ l.kind \in OfMessage => l.of \in Msg /\ l.by = 0
    /\ l.kind \in OfClient => l.of \in Conn /\ l.by \in Pid
    /\ l.kind = "mail" => l.of \in Texts

RowType == [own : Nat, recovered : Nat, named : BOOLEAN]
WaitType == [of : Msg, line : Nat, start : Nat, named : BOOLEAN]
PendingType == [of : Texts, start : Nat]
LoginType == [of : Msg, start : Nat]
MsgState == {"new", "open", "answer", "refused", "done"}

\* The log holds lines; the places are within it; a start is where a line was.
LogOk == log \in Seq(LineType) /\ \A i \in 1 .. Len(log) : LineOk(log[i])

StoreOk ==
    /\ row \in [Msg -> RowType]
    /\ refused \in [Refusal -> Texts \cup {"none", "unwritten", "bare"}]
    /\ times \in [Conn \cup Msg -> Nat]
    /\ place \in 0 .. Len(log) /\ counted \in 0 .. Len(log)

TailerOk ==
    /\ pos \in 0 .. Len(log) /\ last \in 0 .. Len(log) /\ caughtUp \in BOOLEAN
    /\ logins \in SUBSET LoginType /\ recover \in SUBSET WaitType /\ pending \in SUBSET PendingType
    /\ failed \in SUBSET Pid
    /\ \A l \in logins : l.start < pos
    /\ \A w \in recover : w.start <= w.line /\ w.line < pos
    /\ \A p \in pending : p.start < pos

OutsideOk ==
    /\ up \in BOOLEAN
    /\ msg \in [Msg -> MsgState] /\ mail \in [Msg -> Mails]
    /\ buffer \in Seq(Msg) /\ Len(buffer) <= Room
    /\ smtpd \in [Pid -> Conn \cup {0}]

Typed == LogOk /\ StoreOk /\ TailerOk /\ OutsideOk

-----------------------------------------------------------------------------
(* What is kept between the stat, the read and the next rewrite.           *)

SessionType ==
    [at : {"none", "stat", "read", "looked", "judged"}, line : {"from", "sender"}, read : 0 .. 4,
     got : {"", "defer", "pass", "refuse"}, since : SUBSET Contents]
CacheType == [table : Contents, stamp : 0 .. 4]

JudgeTyped == stamp \in Stamps /\ table \in Contents /\ cache \in CacheType /\ session \in SessionType

\* One message is judged or answered at a time.
OneAtATime ==
    /\ \A m, n \in Msg : msg[m] \in {"open", "answer"} /\ msg[n] \in {"open", "answer"} => m = n
    /\ session.at = "none" <=> \A m \in Msg : msg[m] \notin {"open", "answer"}

\* What was read under the file's stamp is what the file holds.
CacheStands == cache.stamp = stamp /\ ~ blurred => cache.table = table

\* The file's content of now was in force since the stat.
InForce == session.at = "read" => table \in session.since

JudgeInv == JudgeTyped /\ OneAtATime /\ CacheStands /\ InForce /\ JudgedByTheTable

-----------------------------------------------------------------------------
(* What is kept of a refused message, between the buffer and the log.      *)

InBuffer(m) == \E i \in 1 .. Len(buffer) : buffer[i] = m
RefusedAt(m, i) == i \in 1 .. Len(log) /\ log[i].kind = "refused" /\ log[i].of = m

\* Before the client had its answer there is no line, before the verdict no row.
NothingBefore ==
    \A m \in Msg :
        /\ msg[m] \in {"new", "open"} => ~ InBuffer(m) /\ row[m].own = 0 /\ row[m].recovered = 0
        /\ msg[m] # "refused" => \A i \in 1 .. Len(log) : ~ RefusedAt(m, i)

\* A row waited for is that of a line read, and the place is before the line.
WaitsForALine == \A w \in recover : RefusedAt(w.of, w.line + 1) /\ place <= w.line

PlaceWasRead == place <= pos /\ (~ up => place = pos)

\* At most one row of each kind, and both only of a row the tailer did not wait
\* for long enough.
OneOfEach ==
    /\ \A i, j \in 1 .. Len(buffer) : buffer[i] = buffer[j] => i = j
    /\ \A m \in Msg :
        /\ row[m].own <= 1 /\ row[m].recovered <= 1
        /\ InBuffer(m) => row[m].own = 0
        /\ row[m].recovered = 1 /\ (InBuffer(m) \/ row[m].own = 1) => m \in late

\* A refused message without a row has its line to come, or a row waited for.
HasRow(m) == row[m].own + row[m].recovered >= 1
Coming(m) == \E i \in 1 .. Len(log) : RefusedAt(m, i) /\ (i > pos \/ \E w \in recover : w.of = m /\ w.line + 1 = i)
RowOrLine == \A m \in Msg : msg[m] = "refused" => HasRow(m) \/ m \in missed \/ Coming(m)

RowInv == NothingBefore /\ WaitsForALine /\ PlaceWasRead /\ OneOfEach /\ RowOrLine

-----------------------------------------------------------------------------
(* What is kept of a client turned away, between its lines and the count.  *)

Of(kind, x, i) == i \in 1 .. Len(log) /\ log[i].kind = kind /\ log[i].of = x
By(kind, p, i) == i \in 1 .. Len(log) /\ log[i].kind = kind /\ log[i].by = p
Warned(c, p, i) == i \in 1 .. Len(log) /\ log[i] = Line("warning", c, p)

\* A connection is one process's, from its connect line on.
OneProcess ==
    /\ \A c \in Conn, p, q \in Pid, i, j \in 1 .. Len(log) : Warned(c, p, i) /\ Warned(c, q, j) => p = q
    /\ \A p \in Pid : smtpd[p] # 0 => \E i \in 1 .. Len(log) : Warned(smtpd[p], p, i)

\* Past a process's next connect line the warnings are about its next client.
NoWarningAfter ==
    \A c \in Conn, p \in Pid, f, x \in 1 .. Len(log) : Warned(c, p, f) /\ By("connect", p, x) /\ f < x =>
        /\ smtpd[p] # c
        /\ \A i \in 1 .. Len(log) : Warned(c, p, i) => i < x

\* Between two connect lines the warnings of a process are about one client.
OneClientBetween ==
    \A p \in Pid, f \in 1 .. Len(log) : By("warning", p, f) =>
        /\ \A g \in 1 .. Len(log) : By("warning", p, g) /\ f < g /\ log[f].of # log[g].of =>
              \E x \in f .. g : By("connect", p, x)
        /\ smtpd[p] \notin {0, log[f].of} => \E x \in f .. Len(log) : By("connect", p, x)

AtMostTwo ==
    \A c \in Conn, p \in Pid, f, g, h \in 1 .. Len(log) :
        ~ (Warned(c, p, f) /\ Warned(c, p, g) /\ Warned(c, p, h) /\ f < g /\ g < h)

\* A message is cut short once.
CutOnce ==
    \A m \in Msg :
        /\ \A i, j \in 1 .. Len(log) : Of("broken", m, i) /\ Of("broken", m, j) => i = j
        /\ msg[m] # "done" => \A i \in 1 .. Len(log) : ~ Of("broken", m, i)

LinesOk == OneProcess /\ NoWarningAfter /\ OneClientBetween /\ AtMostTwo /\ CutOnce

\* Whom the tailer has a warning of in this life, by process.
FailedWereRead ==
    \A p \in failed : \E f \in 1 .. pos : By("warning", p, f) /\ \A x \in f .. pos : ~ By("connect", p, x)

\* A connection not split by a start: with a warning read in this life and more
\* that may come, its process is among them.
FailedRemembered ==
    up => \A c \in Conn \ split, p \in Pid, f \in 1 .. pos :
        /\ Warned(c, p, f)
        /\ smtpd[p] = c \/ \E i \in pos + 1 .. Len(log) : Warned(c, p, i)
        => p \in failed

CountsInStep == counted <= last /\ (caughtUp => last <= pos)

\* What was read or counted over has its count.
CountedIfRead ==
    \A i \in 1 .. Len(log) : log[i].kind \in {"warning", "broken"} /\ (i <= pos \/ i <= last) =>
        times[log[i].of] >= 1 \/ log[i].of \in missed

\* A count has its line, up to the place of counting.
CountHasItsLine ==
    /\ \A m \in Msg : times[m] <= 1 /\ (times[m] = 1 => \E i \in 1 .. counted : Of("broken", m, i))
    /\ \A c \in Conn :
        /\ times[c] <= 2
        /\ times[c] >= 1 => \E i \in 1 .. counted : Of("warning", c, i)
        /\ times[c] = 2 => c \in split /\ \E i, j \in 1 .. counted : Of("warning", c, i) /\ Of("warning", c, j) /\ i # j

MemoryInv == FailedWereRead /\ FailedRemembered
CountInv == CountsInStep /\ CountedIfRead /\ CountHasItsLine

-----------------------------------------------------------------------------
(* Facts about the operators.                                              *)

\* "Less than" descends nowhere in the naturals: what Min rests on.
LEMMA LessIsWellFounded == IsWellFoundedOn({ss \in Nat \X Nat : ss[1] < ss[2]}, Nat)
  BY NatLessThanWellFounded, Zenon DEF OpToRel

\* Min gives the least of places, as oldest() of the tailer computes it.
LEMMA LeastPlace ==
  ASSUME NEW S, S \subseteq Nat, S # {}
  PROVE  Min(S) \in S /\ \A y \in S : Min(S) <= y
<1> DEFINE Less == {ss \in Nat \X Nat : ss[1] < ss[2]}
<1>1. \E x \in S : \A y \in S : ~ (<<y, x>> \in Less)
  <2>1. IsWellFoundedOn(Less, Nat)
    BY LessIsWellFounded
  <2> HIDE DEF Less
  <2> QED
    BY <2>1, WFMin
<1>2. PICK x \in S : \A y \in S : ~ (y < x)
  BY <1>1
<1>3. \A y \in S : x <= y
  BY <1>2
<1> QED
  BY <1>3 DEF Min

\* The lines about the messages cut short by a stop of the panel, in any order.
LEMMA InAnyOrder ==
  ASSUME NEW S, IsFiniteSet(S)
  PROVE  /\ SetToSeq(S) \in Seq(S)
         /\ \A i, j \in 1 .. Len(SetToSeq(S)) : SetToSeq(S)[i] = SetToSeq(S)[j] => i = j
<1>1. Cardinality(S) \in Nat /\ ExistsBijection(1 .. Cardinality(S), S)
  BY FS_CardinalityType, Zenon
<1>2. \E f \in [1 .. Cardinality(S) -> S] : IsInjective(f)
  BY <1>1 DEF ExistsBijection, Bijection, Injection
<1>3. SetToSeq(S) \in [1 .. Cardinality(S) -> S] /\ IsInjective(SetToSeq(S))
  BY <1>2 DEF SetToSeq
<1> DEFINE q == SetToSeq(S)
<1> HIDE DEF q
<1>4. q \in [1 .. Cardinality(S) -> S] /\ IsInjective(q)
  BY <1>3 DEF q
<1>5. q \in Seq(S) /\ DOMAIN q = 1 .. Len(q)
  BY <1>1, <1>4
<1>6. \A i, j \in 1 .. Len(q) : q[i] = q[j] => i = j
  BY <1>4, <1>5 DEF IsInjective
<1> QED
  BY <1>5, <1>6 DEF q

\* The lines about those messages are lines, and no others.
CutLines(cut) == SetToSeq({Line("broken", m, 0) : m \in cut})

LEMMA LinesOfTheCut ==
  ASSUME NEW cut \in SUBSET Msg
  PROVE  /\ CutLines(cut) \in Seq(LineType)
         /\ \A i \in 1 .. Len(CutLines(cut)) : \E m \in cut : CutLines(cut)[i] = Line("broken", m, 0)
         /\ \A i, j \in 1 .. Len(CutLines(cut)) : CutLines(cut)[i] = CutLines(cut)[j] => i = j
<1> DEFINE L == {Line("broken", m, 0) : m \in cut}
<1>1. IsFiniteSet(cut)
  BY CheckKinds, FS_Subset, Zenon
<1>2. IsFiniteSet(L)
  <2> DEFINE f == [m \in cut |-> Line("broken", m, 0)]
  <2>1. f \in [cut -> L] /\ \A l \in L : \E m \in cut : f[m] = l
    OBVIOUS
  <2>2. f \in Surjection(cut, L)
    BY <2>1 DEF Surjection
  <2> QED
    BY <1>1, <2>2, FS_Surjection DEF ExistsSurjection
<1>3. \A l \in L : l \in LineType
  BY DEF Line, LineType, OfMessage, OfClient
<1>4. CutLines(cut) = SetToSeq(L)
  BY DEF CutLines
<1> HIDE DEF L
<1>5. CutLines(cut) \in Seq(L)
  BY <1>2, <1>4, InAnyOrder
<1>6. \A i, j \in 1 .. Len(CutLines(cut)) : CutLines(cut)[i] = CutLines(cut)[j] => i = j
  BY <1>2, <1>4, InAnyOrder
<1>7. \A i \in 1 .. Len(CutLines(cut)) : CutLines(cut)[i] \in L
  BY <1>5
<1>8. CutLines(cut) \in Seq(LineType)
  BY <1>5, <1>3
<1>9. \A l \in L : \E m \in cut : l = Line("broken", m, 0)
  BY DEF L
<1> QED
  BY <1>6, <1>7, <1>8, <1>9

\* A row more of one kind: InsertRejected's or RecoverRefusal's.
LEMMA OneRowMore ==
  ASSUME NEW r \in RowType, NEW k \in {"own", "recovered"}
  PROVE  /\ OneMore(r, k) \in RowType
         /\ k = "own" => OneMore(r, k).own = r.own + 1 /\ OneMore(r, k).recovered = r.recovered
         /\ k = "recovered" => OneMore(r, k).own = r.own /\ OneMore(r, k).recovered = r.recovered + 1
<1>1. CASE k = "own"
  <2>1. OneMore(r, k) = [r EXCEPT !.own = @ + 1]
    BY <1>1 DEF OneMore
  <2> QED
    BY <1>1, <2>1 DEF RowType
<1>2. CASE k = "recovered"
  <2>1. OneMore(r, k) = [r EXCEPT !.recovered = @ + 1]
    BY <1>2 DEF OneMore
  <2> QED
    BY <1>2, <2>1 DEF RowType
<1> QED
  BY <1>1, <1>2

\* The same, of the row of a message.
LEMMA RowInserted ==
  ASSUME row \in [Msg -> RowType], NEW m \in Msg, NEW k \in {"own", "recovered"}, NEW named \in BOOLEAN,
         Inserted(m, k, named)
  PROVE  /\ row' \in [Msg -> RowType] /\ row'[m].named = named /\ \A n \in Msg \ {m} : row'[n] = row[n]
         /\ k = "own" => row'[m].own = row[m].own + 1 /\ row'[m].recovered = row[m].recovered
         /\ k = "recovered" => row'[m].own = row[m].own /\ row'[m].recovered = row[m].recovered + 1
<1> DEFINE o == OneMore(row[m], k)
           s == [o EXCEPT !.named = named]
<1>1. row' = [row EXCEPT ![m] = s]
  BY DEF Inserted
<1>2. /\ o \in RowType
      /\ k = "own" => o.own = row[m].own + 1 /\ o.recovered = row[m].recovered
      /\ k = "recovered" => o.own = row[m].own /\ o.recovered = row[m].recovered + 1
  BY OneRowMore
<1> HIDE DEF o
<1>3. s \in RowType /\ s.named = named /\ s.own = o.own /\ s.recovered = o.recovered
  BY <1>2 DEF RowType
<1> HIDE DEF s
<1> QED
  BY <1>1, <1>2, <1>3

-----------------------------------------------------------------------------
(* The log only grows.                                                     *)

\* One line more, of whoever writes it.
LEMMA OneLineMore ==
  ASSUME LogOk, NEW l, LineOk(l), log' = Append(log, l)
  PROVE  /\ LogOk'
         /\ Len(log) \in Nat /\ Len(log') = Len(log) + 1 /\ log'[Len(log) + 1] = l
         /\ \A i \in 1 .. Len(log) : log'[i] = log[i]
<1>1. l \in LineType /\ log \in Seq(LineType)
  BY DEF LogOk, LineOk
<1>2. log' \in Seq(LineType) /\ Len(log') = Len(log) + 1 /\ log'[Len(log) + 1] = l
  BY <1>1
<1>3. \A i \in 1 .. Len(log) : log'[i] = log[i]
  BY <1>1
<1>4. \A i \in 1 .. Len(log') : LineOk(log'[i])
  <2> TAKE i \in 1 .. Len(log')
  <2>1. CASE i = Len(log) + 1
    BY <2>1, <1>2
  <2>2. CASE i # Len(log) + 1
    BY <2>2, <1>1, <1>2, <1>3 DEF LogOk
  <2> QED
    BY <2>1, <2>2
<1>5. LogOk'
  <2>1. LogOk' <=> log' \in Seq(LineType) /\ \A i \in 1 .. Len(log') : LineOk(log'[i])
    BY DEF LogOk, LineOk
  <2> QED
    BY <2>1, <1>2, <1>4
<1> QED
  BY <1>1, <1>2, <1>3, <1>5

\* Several lines more.
LEMMA LinesMore ==
  ASSUME LogOk, NEW q \in Seq(LineType), \A i \in 1 .. Len(q) : LineOk(q[i]), log' = log \o q
  PROVE  /\ LogOk'
         /\ Len(log) \in Nat /\ Len(q) \in Nat /\ Len(log') = Len(log) + Len(q)
         /\ \A i \in 1 .. Len(log) : log'[i] = log[i]
         /\ \A i \in Len(log) + 1 .. Len(log') : i - Len(log) \in 1 .. Len(q) /\ log'[i] = q[i - Len(log)]
<1>1. log \in Seq(LineType)
  BY DEF LogOk
<1>2. log' \in Seq(LineType) /\ Len(log') = Len(log) + Len(q) /\ Len(log) \in Nat /\ Len(q) \in Nat
  BY <1>1
<1>3. \A i \in 1 .. Len(log) : log'[i] = log[i]
  BY <1>1
<1>4. \A i \in Len(log) + 1 .. Len(log') : i - Len(log) \in 1 .. Len(q) /\ log'[i] = q[i - Len(log)]
  BY <1>1, <1>2
<1>5. \A i \in 1 .. Len(log') : LineOk(log'[i])
  <2> TAKE i \in 1 .. Len(log')
  <2>1. CASE i \in 1 .. Len(log)
    BY <2>1, <1>3 DEF LogOk
  <2>2. CASE i \in Len(log) + 1 .. Len(log')
    BY <2>2, <1>4
  <2> QED
    BY <2>1, <2>2, <1>2
<1>6. LogOk'
  <2>1. LogOk' <=> log' \in Seq(LineType) /\ \A i \in 1 .. Len(log') : LineOk(log'[i])
    BY DEF LogOk, LineOk
  <2> QED
    BY <2>1, <1>2, <1>5
<1> QED
  BY <1>2, <1>3, <1>4, <1>6

\* The line is one, whatever kind it is of.
LEMMA LineIsOne ==
  /\ \A k \in OfMessage, m \in Msg : LineOk(Line(k, m, 0))
  /\ \A k \in OfClient, c \in Conn, p \in Pid : LineOk(Line(k, c, p))
  /\ \A t \in Texts : LineOk(Line("mail", t, 0))
BY DEF Line, LineOk, LineType, OfMessage, OfClient

\* A client turned away leaves two lines.
LEMMA TurnedAwayLines ==
  ASSUME LogOk, NEW p \in Pid, NEW c \in Conn,
         log' = log \o <<Line("connect", c, p), Line("warning", c, p)>>
  PROVE  /\ LogOk'
         /\ Len(log) \in Nat /\ Len(log') = Len(log) + 2
         /\ \A i \in 1 .. Len(log) : log'[i] = log[i]
         /\ log'[Len(log) + 1] = Line("connect", c, p) /\ log'[Len(log) + 2] = Line("warning", c, p)
<1> DEFINE q == <<Line("connect", c, p), Line("warning", c, p)>>
<1>1. LineOk(Line("connect", c, p)) /\ LineOk(Line("warning", c, p))
  BY LineIsOne DEF OfClient
<1>2. q \in Seq(LineType) /\ Len(q) = 2 /\ q[1] = Line("connect", c, p) /\ q[2] = Line("warning", c, p)
  BY <1>1 DEF LineOk
<1>3. log' = log \o q
  OBVIOUS
<1> HIDE DEF q
<1>4. \A i \in 1 .. Len(q) : LineOk(q[i])
  <2> TAKE i \in 1 .. Len(q)
  <2>1. i = 1 \/ i = 2
    BY <1>2
  <2> QED
    BY <2>1, <1>1, <1>2
<1>5. /\ LogOk'
      /\ Len(log) \in Nat /\ Len(q) \in Nat /\ Len(log') = Len(log) + Len(q)
      /\ \A i \in 1 .. Len(log) : log'[i] = log[i]
      /\ \A i \in Len(log) + 1 .. Len(log') : i - Len(log) \in 1 .. Len(q) /\ log'[i] = q[i - Len(log)]
  BY <1>2, <1>3, <1>4, LinesMore
<1>6. Len(log) + 1 \in Len(log) + 1 .. Len(log') /\ Len(log) + 2 \in Len(log) + 1 .. Len(log')
  BY <1>2, <1>5
<1>7. log'[Len(log) + 1] = q[(Len(log) + 1) - Len(log)] /\ log'[Len(log) + 2] = q[(Len(log) + 2) - Len(log)]
  BY <1>5, <1>6
<1>8. (Len(log) + 1) - Len(log) = 1 /\ (Len(log) + 2) - Len(log) = 2
  BY <1>5
<1> QED
  BY <1>2, <1>5, <1>7, <1>8

Cut == {m \in Msg : msg[m] \in {"open", "answer"}}

\* A stop of the panel: a line for every message it cuts short.
LEMMA CutShortLines ==
  ASSUME LogOk, Goes
  PROVE  /\ LogOk'
         /\ Len(log) \in Nat /\ Len(log') \in Nat /\ Len(log) <= Len(log')
         /\ \A i \in 1 .. Len(log) : log'[i] = log[i]
         /\ \A i \in Len(log) + 1 .. Len(log') : \E m \in Cut : log'[i] = Line("broken", m, 0)
         /\ \A i, j \in Len(log) + 1 .. Len(log') : log'[i] = log'[j] => i = j
<1>1. log' = log \o CutLines(Cut) /\ Cut \in SUBSET Msg
  BY DEF Goes, CutLines, Cut
<1> DEFINE q == CutLines(Cut)
<1>2. /\ q \in Seq(LineType)
      /\ \A i \in 1 .. Len(q) : \E m \in Cut : q[i] = Line("broken", m, 0)
      /\ \A i, j \in 1 .. Len(q) : q[i] = q[j] => i = j
  BY <1>1, LinesOfTheCut
<1>3. \A i \in 1 .. Len(q) : LineOk(q[i])
  BY <1>1, <1>2, LineIsOne DEF OfMessage
<1> HIDE DEF q
<1>4. log' = log \o q
  BY <1>1 DEF q
<1>5. /\ LogOk'
      /\ Len(log) \in Nat /\ Len(q) \in Nat /\ Len(log') = Len(log) + Len(q)
      /\ \A i \in 1 .. Len(log) : log'[i] = log[i]
      /\ \A i \in Len(log) + 1 .. Len(log') : i - Len(log) \in 1 .. Len(q) /\ log'[i] = q[i - Len(log)]
  BY <1>2, <1>3, <1>4, LinesMore
<1>6. \A i \in Len(log) + 1 .. Len(log') : \E m \in Cut : log'[i] = Line("broken", m, 0)
  BY <1>2, <1>5
<1>7. \A i, j \in Len(log) + 1 .. Len(log') : log'[i] = log'[j] => i = j
  <2> SUFFICES ASSUME NEW i \in Len(log) + 1 .. Len(log'), NEW j \in Len(log) + 1 .. Len(log'),
                      log'[i] = log'[j]
               PROVE  i = j
    OBVIOUS
  <2>1. q[i - Len(log)] = q[j - Len(log)] /\ i - Len(log) \in 1 .. Len(q) /\ j - Len(log) \in 1 .. Len(q)
    BY <1>5
  <2>2. i - Len(log) = j - Len(log)
    BY <2>1, <1>2
  <2> QED
    BY <2>2, <1>5
<1> QED
  BY <1>5, <1>6, <1>7

\* Steps that leave the log alone.
Silent ==
    \/ \E m \in Msg : Judges(m) \/ Refuses(m) \/ LetsGo(m)
    \/ \E t \in Contents : Panel(t)
    \/ Writes
    \/ \E p \in Pid : ClientLeaves(p)
    \/ Tailer
    \/ Starts

LEMMA SilentStep == ASSUME Silent PROVE UNCHANGED log
<1>1. ASSUME NEW m \in Msg, Judges(m) \/ Refuses(m) \/ LetsGo(m) PROVE UNCHANGED log
  BY <1>1 DEF Judges, Refuses, LetsGo
<1>2. ASSUME NEW t \in Contents, Panel(t) PROVE UNCHANGED log
  BY <1>2 DEF Panel
<1>3. CASE Writes
  BY <1>3 DEF Writes
<1>4. ASSUME NEW p \in Pid, ClientLeaves(p) PROVE UNCHANGED log
  BY <1>4 DEF ClientLeaves
<1>5. CASE Tailer
  <2>1. CASE HandleClient \/ HandleRefused \/ HandleMail \/ HandleConnect \/ HandleWarning \/ HandleBroken
    BY <2>1 DEF HandleClient, HandleRefused, HandleMail, HandleConnect, HandleWarning, HandleBroken
  <2>2. ASSUME NEW w \in recover, Recovers(w) PROVE UNCHANGED log
    BY <2>2 DEF Recovers
  <2>3. ASSUME NEW p \in pending, Retries(p) PROVE UNCHANGED log
    BY <2>3 DEF Retries
  <2>4. CASE PassEnds
    BY <2>4 DEF PassEnds
  <2> QED
    BY <1>5, <2>1, <2>2, <2>3, <2>4 DEF Tailer
<1>6. CASE Starts
  BY <1>6 DEF Starts
<1> QED
  BY <1>1, <1>2, <1>3, <1>4, <1>5, <1>6 DEF Silent

\* The next step, by what it does to the log.
LEMMA StepsByLog ==
  ASSUME Next
  PROVE  \/ Silent
         \/ \E m \in Msg : Opens(m) \/ Answers(m)
         \/ \E p \in Pid : WarnsAgain(p) \/ \E c \in Conn : TurnsAway(p, c)
         \/ \E r \in Refusal, t \in Texts : MailRefused(r, t)
         \/ Goes
BY DEF Next, Silent, Stops, Dies

\* Whose line is added.
LEMMA OneLineSteps ==
  ASSUME Typed
  PROVE  /\ \A m \in Msg : Opens(m) => LineOk(Line("client", m, 0)) /\ log' = Append(log, Line("client", m, 0))
         /\ \A m \in Msg : Answers(m) => LineOk(Line("refused", m, 0)) /\ log' = Append(log, Line("refused", m, 0))
         /\ \A p \in Pid : WarnsAgain(p) =>
               /\ smtpd[p] \in Conn /\ LineOk(Line("warning", smtpd[p], p))
               /\ log' = Append(log, Line("warning", smtpd[p], p))
         /\ \A r \in Refusal, t \in Texts : MailRefused(r, t) =>
               LineOk(Line("mail", t, 0)) /\ log' = Append(log, Line("mail", t, 0))
<1>1. \A m \in Msg : LineOk(Line("client", m, 0)) /\ LineOk(Line("refused", m, 0))
  BY LineIsOne DEF OfMessage
<1>2. \A p \in Pid : smtpd[p] # 0 => smtpd[p] \in Conn /\ LineOk(Line("warning", smtpd[p], p))
  BY LineIsOne DEF OfClient, Typed, OutsideOk
<1> QED
  BY <1>1, <1>2, LineIsOne DEF Opens, Answers, WarnsAgain, MailRefused, Logs

\* No line of the log is taken back, and what is added is lines.
LEMMA LogOnlyGrows ==
  ASSUME Typed, [Next]_vars
  PROVE  /\ LogOk'
         /\ Len(log) \in Nat /\ Len(log') \in Nat /\ Len(log) <= Len(log')
         /\ \A i \in 1 .. Len(log) : log'[i] = log[i]
<1> DEFINE G == /\ LogOk'
                /\ Len(log) \in Nat /\ Len(log') \in Nat /\ Len(log) <= Len(log')
                /\ \A i \in 1 .. Len(log) : log'[i] = log[i]
<1>0. LogOk /\ Len(log) \in Nat
  BY DEF Typed, LogOk
<1>1. ASSUME NEW l, LineOk(l), log' = Append(log, l) PROVE G
  BY <1>0, <1>1, OneLineMore
<1>2. ASSUME log' = log PROVE G
  BY <1>0, <1>2 DEF LogOk, LineOk
<1> HIDE DEF G
<1>3. CASE Silent
  <2>1. log' = log
    BY <1>3, SilentStep
  <2> QED
    BY <1>2, <2>1 DEF G
<1>4. ASSUME NEW m \in Msg, Opens(m) \/ Answers(m) PROVE G
  <2>1. LineOk(Line("client", m, 0)) /\ LineOk(Line("refused", m, 0))
    BY LineIsOne DEF OfMessage
  <2>2. log' = Append(log, Line("client", m, 0)) \/ log' = Append(log, Line("refused", m, 0))
    BY <1>4, OneLineSteps
  <2> QED
    BY <1>1, <2>1, <2>2
<1>5. ASSUME NEW p \in Pid, WarnsAgain(p) PROVE G
  <2>1. LineOk(Line("warning", smtpd[p], p)) /\ log' = Append(log, Line("warning", smtpd[p], p))
    BY <1>5, OneLineSteps
  <2> QED
    BY <1>1, <2>1
<1>6. ASSUME NEW p \in Pid, NEW c \in Conn, TurnsAway(p, c) PROVE G
  <2>1. log' = log \o <<Line("connect", c, p), Line("warning", c, p)>>
    BY <1>6 DEF TurnsAway
  <2> QED
    BY <1>0, <2>1, TurnedAwayLines DEF G
<1>7. ASSUME NEW r \in Refusal, NEW t \in Texts, MailRefused(r, t) PROVE G
  <2>1. LineOk(Line("mail", t, 0)) /\ log' = Append(log, Line("mail", t, 0))
    BY <1>7, OneLineSteps
  <2> QED
    BY <1>1, <2>1
<1>8. CASE Goes
  BY <1>0, <1>8, CutShortLines DEF G
<1>9. CASE UNCHANGED vars
  <2>1. log' = log
    BY <1>9 DEF vars
  <2> QED
    BY <1>2, <2>1 DEF G
<1>10. CASE Next
  BY <1>3, <1>4, <1>5, <1>6, <1>7, <1>8, <1>10, StepsByLog DEF G
<1> QED
  BY <1>9, <1>10 DEF G

-----------------------------------------------------------------------------
(* The form of the state is kept.                                          *)

OutsideVars == <<up, msg, mail, buffer, smtpd>>

\* Steps that leave clients, buffer and processes alone.
LEMMA OutsideAlone ==
  /\ \A m \in Msg : Judges(m) => UNCHANGED OutsideVars
  /\ \A t \in Contents : Panel(t) => UNCHANGED OutsideVars
  /\ \A p \in Pid : WarnsAgain(p) => UNCHANGED OutsideVars
  /\ \A r \in Refusal, t \in Texts : MailRefused(r, t) => UNCHANGED OutsideVars
  /\ Tailer => UNCHANGED OutsideVars
<1>1. \A m \in Msg : Judges(m) => UNCHANGED OutsideVars
  BY DEF Judges, OutsideVars, outside
<1>2. \A t \in Contents : Panel(t) => UNCHANGED OutsideVars
  BY DEF Panel, OutsideVars, outside
<1>3. \A p \in Pid : WarnsAgain(p) => UNCHANGED OutsideVars
  BY DEF WarnsAgain, OutsideVars, outside
<1>4. \A r \in Refusal, t \in Texts : MailRefused(r, t) => UNCHANGED OutsideVars
  BY DEF MailRefused, OutsideVars, outside
<1>5. Tailer => UNCHANGED OutsideVars
  <2>1. HandleClient \/ HandleRefused \/ HandleMail \/ HandleConnect \/ HandleWarning \/ HandleBroken
           => UNCHANGED OutsideVars
    BY DEF HandleClient, HandleRefused, HandleMail, HandleConnect, HandleWarning, HandleBroken, OutsideVars, outside
  <2>2. \A w \in recover : Recovers(w) => UNCHANGED OutsideVars
    BY DEF Recovers, OutsideVars, outside
  <2>3. \A p \in pending : Retries(p) => UNCHANGED OutsideVars
    BY DEF Retries, OutsideVars, outside
  <2>4. PassEnds => UNCHANGED OutsideVars
    BY DEF PassEnds, OutsideVars, outside
  <2> QED
    BY <2>1, <2>2, <2>3, <2>4 DEF Tailer
<1> QED
  BY <1>1, <1>2, <1>3, <1>4, <1>5

LEMMA OutsideSame == ASSUME OutsideOk, UNCHANGED OutsideVars PROVE OutsideOk'
BY DEF OutsideOk, OutsideVars

\* The buffer holds Room rows at most: a row more is let go (record).
LEMMA BufferKept ==
  ASSUME OutsideOk, NEW m \in Msg, Records(m)
  PROVE  buffer' \in Seq(Msg) /\ Len(buffer') <= Room
BY CheckBounds DEF OutsideOk, Records

LEMMA OutsideKept == ASSUME OutsideOk, [Next]_vars PROVE OutsideOk'
<1> USE DEF MsgState
<1>1. ASSUME NEW m \in Msg, Opens(m) PROVE OutsideOk'
  BY <1>1 DEF OutsideOk, Opens
<1>2. ASSUME NEW m \in Msg, Refuses(m) PROVE OutsideOk'
  <2>1. buffer' \in Seq(Msg) /\ Len(buffer') <= Room
    BY <1>2, BufferKept DEF Refuses
  <2> QED
    BY <1>2, <2>1 DEF OutsideOk, Refuses
<1>3. ASSUME NEW m \in Msg, Answers(m) PROVE OutsideOk'
  BY <1>3 DEF OutsideOk, Answers
<1>4. ASSUME NEW m \in Msg, LetsGo(m) PROVE OutsideOk'
  BY <1>4 DEF OutsideOk, LetsGo
<1>5. CASE Writes
  <2>1. buffer' \in Seq(Msg) /\ Len(buffer') <= Room
    BY <1>5, CheckBounds DEF OutsideOk, Writes
  <2> QED
    BY <1>5, <2>1 DEF OutsideOk, Writes, outside
<1>6. ASSUME NEW p \in Pid, NEW c \in Conn, TurnsAway(p, c) PROVE OutsideOk'
  BY <1>6 DEF OutsideOk, TurnsAway
<1>7. ASSUME NEW p \in Pid, ClientLeaves(p) PROVE OutsideOk'
  BY <1>7 DEF OutsideOk, ClientLeaves
<1>8. CASE Goes
  <2>1. msg' = [m \in Msg |-> IF m \in Cut THEN "done" ELSE msg[m]] /\ buffer' = <<>> /\ up' = FALSE
    BY <1>8 DEF Goes, Cut
  <2>2. UNCHANGED <<mail, smtpd>>
    BY <1>8 DEF Goes
  <2>3. msg' \in [Msg -> MsgState] /\ up' \in BOOLEAN
    BY <2>1 DEF OutsideOk
  <2>4. buffer' \in Seq(Msg) /\ Len(buffer') <= Room
    BY <2>1, CheckBounds
  <2> QED
    BY <2>2, <2>3, <2>4 DEF OutsideOk
<1>9. CASE Starts
  BY <1>9 DEF OutsideOk, Starts, outside
<1>10. CASE UNCHANGED vars
  BY <1>10, OutsideSame DEF vars, outside, OutsideVars
<1>11. ASSUME UNCHANGED OutsideVars PROVE OutsideOk'
  BY <1>11, OutsideSame
<1>12. CASE Next
  <2>1. CASE \E m \in Msg : Judges(m)
    BY <2>1, <1>11, OutsideAlone
  <2>2. CASE \E t \in Contents : Panel(t)
    BY <2>2, <1>11, OutsideAlone
  <2>3. CASE \E p \in Pid : WarnsAgain(p)
    BY <2>3, <1>11, OutsideAlone
  <2>4. CASE \E r \in Refusal, t \in Texts : MailRefused(r, t)
    BY <2>4, <1>11, OutsideAlone
  <2>5. CASE Tailer
    BY <2>5, <1>11, OutsideAlone
  <2> QED
    BY <1>1, <1>2, <1>3, <1>4, <1>5, <1>6, <1>7, <1>8, <1>9, <1>12, <2>1, <2>2, <2>3, <2>4, <2>5
    DEF Next, Stops, Dies
<1> QED
  BY <1>10, <1>12

\* The line that is read next.
LEMMA NextLine ==
  ASSUME Typed, pos < Len(log)
  PROVE  pos + 1 \in 1 .. Len(log) /\ Next1 = log[pos + 1] /\ LineOk(Next1)
BY DEF Typed, LogOk, TailerOk, Next1

\* The place to save is within what was read, and before all that waits (oldest).
LEMMA HeldPlace ==
  ASSUME Typed
  PROVE  /\ Held \in Nat /\ Held <= pos
         /\ \A w \in recover : Held <= w.start
         /\ \A p \in pending : Held <= p.start
<1> DEFINE S == {pos} \cup {w.start : w \in recover} \cup {p.start : p \in pending}
<1>1. /\ pos \in Nat /\ (\A w \in recover : w.start \in Nat) /\ (\A p \in pending : p.start \in Nat)
  BY DEF Typed, TailerOk, LogOk, WaitType, PendingType
<1>2. S \subseteq Nat /\ pos \in S /\ (\A w \in recover : w.start \in S) /\ (\A p \in pending : p.start \in S)
  BY <1>1
<1>3. Held = Min(S)
  BY DEF Held
<1> HIDE DEF S
<1>4. Min(S) \in S /\ \A y \in S : Min(S) <= y
  <2>1. S # {} /\ S \subseteq Nat
    BY <1>2
  <2> QED
    BY <2>1, LeastPlace
<1> QED
  BY <1>2, <1>3, <1>4

\* What the store holds and the tailer remembers.
KeptVars == <<place, counted, row, refused, times, pos, last, caughtUp, logins, recover, pending, failed>>
KeptOk == StoreOk /\ TailerOk

\* Steps that leave store and tailer alone.
LEMMA KeptAlone ==
  /\ \A m \in Msg : Opens(m) \/ Judges(m) \/ Refuses(m) \/ Answers(m) \/ LetsGo(m) => UNCHANGED KeptVars
  /\ \A t \in Contents : Panel(t) => UNCHANGED KeptVars
  /\ \A p \in Pid, c \in Conn : TurnsAway(p, c) => UNCHANGED KeptVars
  /\ \A p \in Pid : WarnsAgain(p) \/ ClientLeaves(p) => UNCHANGED KeptVars
  /\ Starts => UNCHANGED KeptVars
<1> USE DEF KeptVars, store, tailer
<1>1. \A m \in Msg : Opens(m) \/ Judges(m) \/ Refuses(m) \/ Answers(m) \/ LetsGo(m) => UNCHANGED KeptVars
  BY DEF Opens, Judges, Refuses, Answers, LetsGo
<1>2. \A t \in Contents : Panel(t) => UNCHANGED KeptVars
  BY DEF Panel
<1>3. \A p \in Pid, c \in Conn : TurnsAway(p, c) => UNCHANGED KeptVars
  BY DEF TurnsAway
<1>4. \A p \in Pid : WarnsAgain(p) \/ ClientLeaves(p) => UNCHANGED KeptVars
  BY DEF WarnsAgain, ClientLeaves
<1>5. Starts => UNCHANGED KeptVars
  BY DEF Starts
<1> QED
  BY <1>1, <1>2, <1>3, <1>4, <1>5

LEMMA StoreKept == ASSUME Typed, [Next]_vars PROVE StoreOk'
<1>0. Len(log) \in Nat /\ Len(log') \in Nat /\ Len(log) <= Len(log')
  BY LogOnlyGrows
<1>1. StoreOk /\ TailerOk /\ LogOk /\ OutsideOk
  BY DEF Typed
<1>2. ASSUME row' \in [Msg -> RowType], UNCHANGED <<refused, times, place, counted>> PROVE StoreOk'
  BY <1>0, <1>1, <1>2 DEF StoreOk
<1>3. ASSUME refused' \in [Refusal -> Texts \cup {"none", "unwritten", "bare"}],
             UNCHANGED <<row, times, place, counted>>
      PROVE  StoreOk'
  BY <1>0, <1>1, <1>3 DEF StoreOk
<1>4. ASSUME times' \in [Conn \cup Msg -> Nat], counted' \in 0 .. Len(log), UNCHANGED <<row, refused, place>>
      PROVE  StoreOk'
  BY <1>0, <1>1, <1>4 DEF StoreOk
<1>5. ASSUME place' \in 0 .. Len(log), UNCHANGED <<row, refused, times, counted>> PROVE StoreOk'
  BY <1>0, <1>1, <1>5 DEF StoreOk
<1>6. ASSUME NEW m \in Msg, NEW k \in {"own", "recovered"}, NEW named \in BOOLEAN, Inserted(m, k, named)
      PROVE  row' \in [Msg -> RowType]
  <2>1. row \in [Msg -> RowType]
    BY <1>1 DEF StoreOk
  <2> QED
    BY <1>6, <2>1, RowInserted
<1>7. row \in [Msg -> RowType] /\ refused \in [Refusal -> Texts \cup {"none", "unwritten", "bare"}]
  BY <1>1 DEF StoreOk
<1>8. CASE Writes
  <2>1. Head(buffer) \in Msg
    BY <1>1, <1>8 DEF Writes, OutsideOk
  <2>2. row' \in [Msg -> RowType]
    <3>1. CASE Inserted(Head(buffer), "own", row[Head(buffer)].named)
      <4>1. row[Head(buffer)].named \in BOOLEAN
        BY <1>7, <2>1 DEF RowType
      <4> QED
        BY <2>1, <3>1, <4>1, <1>6
    <3>2. CASE UNCHANGED row
      BY <1>7, <3>2
    <3> QED
      BY <1>8, <3>1, <3>2 DEF Writes
  <2> QED
    BY <1>2, <1>8, <2>2 DEF Writes
<1>9. ASSUME NEW r \in Refusal, NEW t \in Texts, MailRefused(r, t) PROVE StoreOk'
  BY <1>3, <1>7, <1>9 DEF MailRefused
<1>10. ASSUME NEW t \in Texts, AttachOrFail(t) PROVE refused' \in [Refusal -> Texts \cup {"none", "unwritten", "bare"}]
  BY <1>7, <1>10 DEF AttachOrFail, Attach, Bare
<1>11. ASSUME NEW x \in Conn \cup Msg, Counts(x), pos < Len(log), UNCHANGED <<row, refused, place>>
       PROVE  StoreOk'
  <2>1. times \in [Conn \cup Msg -> Nat] /\ counted \in 0 .. Len(log) /\ pos \in 0 .. Len(log)
    BY <1>1 DEF StoreOk, TailerOk
  <2>2. times' \in [Conn \cup Msg -> Nat] /\ counted' \in 0 .. Len(log)
    BY <1>0, <1>11, <2>1 DEF Counts, Adds
  <2> QED
    BY <1>4, <1>11, <2>2
<1>12. ASSUME UNCHANGED <<row, refused, times, place, counted>> PROVE StoreOk'
  BY <1>2, <1>7, <1>12
<1>13. CASE Tailer
  <2>1. CASE HandleClient \/ HandleRefused \/ HandleConnect
    BY <1>12, <2>1 DEF HandleClient, HandleRefused, HandleConnect, store
  <2>2. CASE HandleMail
    <3>1. Next1.of \in Texts
      BY <2>2, NextLine DEF HandleMail, Handled, LineOk
    <3>2. refused' \in [Refusal -> Texts \cup {"none", "unwritten", "bare"}]
      BY <1>7, <1>10, <2>2, <3>1 DEF HandleMail
    <3> QED
      BY <1>3, <2>2, <3>2 DEF HandleMail
  <2>3. CASE HandleWarning
    <3>1. Next1.of \in Conn /\ pos < Len(log)
      BY <2>3, NextLine DEF HandleWarning, Handled, LineOk, OfClient
    <3>2. CASE Next1.by \in failed
      BY <1>12, <2>3, <3>2 DEF HandleWarning
    <3>3. CASE Next1.by \notin failed
      BY <1>11, <2>3, <3>1, <3>3 DEF HandleWarning
    <3> QED
      BY <3>2, <3>3
  <2>4. CASE HandleBroken
    <3>1. Next1.of \in Msg /\ pos < Len(log)
      BY <2>4, NextLine DEF HandleBroken, Handled, LineOk, OfMessage
    <3> QED
      BY <1>11, <2>4, <3>1 DEF HandleBroken
  <2>5. ASSUME NEW w \in recover, Recovers(w) PROVE StoreOk'
    <3>1. w.of \in Msg /\ w.named \in BOOLEAN
      BY <1>1 DEF TailerOk, WaitType
    <3>2. row' \in [Msg -> RowType]
      <4>1. CASE Inserted(w.of, "recovered", w.named)
        BY <3>1, <4>1, <1>6
      <4>2. CASE UNCHANGED row
        BY <1>7, <4>2
      <4> QED
        BY <2>5, <4>1, <4>2 DEF Recovers
    <3> QED
      BY <1>2, <2>5, <3>2 DEF Recovers
  <2>6. ASSUME NEW p \in pending, Retries(p) PROVE StoreOk'
    <3>1. p.of \in Texts
      BY <1>1 DEF TailerOk, PendingType
    <3>2. refused' \in [Refusal -> Texts \cup {"none", "unwritten", "bare"}]
      BY <1>7, <1>10, <2>6, <3>1 DEF Retries
    <3> QED
      BY <1>3, <2>6, <3>2 DEF Retries
  <2>7. CASE PassEnds
    <3>1. place' \in 0 .. Len(log)
      BY <1>0, <1>1, <2>7, HeldPlace DEF PassEnds, Saves, StoreOk, TailerOk
    <3> QED
      BY <1>5, <2>7, <3>1 DEF PassEnds
  <2> QED
    BY <1>13, <2>1, <2>2, <2>3, <2>4, <2>5, <2>6, <2>7 DEF Tailer
<1>14. CASE Stops \/ Dies
  <2>1. place' \in 0 .. Len(log)
    BY <1>0, <1>1, <1>14, HeldPlace DEF Stops, Dies, Saves, StoreOk, TailerOk
  <2> QED
    BY <1>5, <1>14, <2>1 DEF Stops, Dies, Goes
<1>15. ASSUME UNCHANGED KeptVars PROVE StoreOk'
  BY <1>12, <1>15 DEF KeptVars
<1>16. CASE UNCHANGED vars
  BY <1>12, <1>16 DEF vars, store
<1>17. CASE Next
  <2>1. CASE \E m \in Msg : Opens(m) \/ Judges(m) \/ Refuses(m) \/ Answers(m) \/ LetsGo(m)
    BY <2>1, <1>15, KeptAlone
  <2>2. CASE \E t \in Contents : Panel(t)
    BY <2>2, <1>15, KeptAlone
  <2>3. CASE \E p \in Pid : (\E c \in Conn : TurnsAway(p, c)) \/ WarnsAgain(p) \/ ClientLeaves(p)
    BY <2>3, <1>15, KeptAlone
  <2>4. CASE Starts
    BY <2>4, <1>15, KeptAlone
  <2> QED
    BY <1>8, <1>9, <1>13, <1>14, <1>17, <2>1, <2>2, <2>3, <2>4 DEF Next
<1> QED
  BY <1>16, <1>17

LEMMA TailerKept == ASSUME Typed, [Next]_vars PROVE TailerOk'
<1>0. Len(log) \in Nat /\ Len(log') \in Nat /\ Len(log) <= Len(log')
  BY LogOnlyGrows
<1>1. StoreOk /\ TailerOk /\ LogOk /\ OutsideOk
  BY DEF Typed
<1>2. pos \in Nat /\ last \in Nat /\ counted \in Nat /\ pos <= Len(log)
  BY <1>0, <1>1 DEF StoreOk, TailerOk
<1>3. ASSUME UNCHANGED <<pos, last, caughtUp, logins, recover, pending, failed>> PROVE TailerOk'
  BY <1>0, <1>1, <1>3 DEF TailerOk
\* A line more is read, and something of it kept.
<1>4. ASSUME pos < Len(log), pos' = pos + 1, last' \in 0 .. Len(log), caughtUp' \in BOOLEAN,
             failed' \in SUBSET Pid,
             logins' \in SUBSET LoginType, \A l \in logins' : l.start <= pos,
             recover' \in SUBSET WaitType, \A w \in recover' : w.start <= w.line /\ w.line <= pos,
             pending' \in SUBSET PendingType, \A p \in pending' : p.start <= pos
      PROVE  TailerOk'
  <2>1. /\ \A l \in logins' : l.start \in Nat
        /\ \A w \in recover' : w.start \in Nat /\ w.line \in Nat
        /\ \A p \in pending' : p.start \in Nat
    BY <1>4 DEF LoginType, WaitType, PendingType
  <2> QED
    BY <1>0, <1>1, <1>2, <1>4, <2>1 DEF TailerOk
<1>5. /\ \A l \in logins : l \in LoginType /\ l.start \in Nat /\ l.start <= pos
      /\ \A w \in recover : w \in WaitType /\ w.start \in Nat /\ w.line \in Nat /\ w.start <= w.line /\ w.line <= pos
      /\ \A p \in pending : p \in PendingType /\ p.start \in Nat /\ p.start <= pos
  BY <1>1, <1>2 DEF TailerOk, LoginType, WaitType, PendingType
<1>6. last \in 0 .. Len(log) /\ caughtUp \in BOOLEAN /\ failed \in SUBSET Pid
  BY <1>1 DEF TailerOk
<1>7. ASSUME NEW k, Handled(k) PROVE pos < Len(log) /\ pos' = pos + 1 /\ LineOk(Next1) /\ Next1.kind = k
  BY <1>7, NextLine DEF Handled
<1>8. CASE HandleClient
  <2>1. Handled("client") /\ logins' = logins \cup {[of |-> Next1.of, start |-> pos]}
    BY <1>8 DEF HandleClient
  <2>2. UNCHANGED <<last, caughtUp, recover, pending, failed>>
    BY <1>8 DEF HandleClient
  <2>3. Next1.of \in Msg
    BY <1>7, <2>1 DEF LineOk, OfMessage
  <2>4. \A l \in logins' : l \in LoginType /\ l.start <= pos
    BY <1>2, <1>5, <2>1, <2>3 DEF LoginType
  <2> QED
    BY <1>4, <1>5, <1>6, <1>7, <2>1, <2>2, <2>4
<1>9. CASE HandleRefused
  <2> DEFINE from == {l.start : l \in {l \in logins : l.of = Next1.of}}
             w0 == [of |-> Next1.of, line |-> pos, start |-> IF from = {} THEN pos ELSE Min(from),
                    named |-> from # {}]
  <2>1. Handled("refused") /\ recover' = recover \cup {w0}
    BY <1>9 DEF HandleRefused
  <2>2. UNCHANGED <<last, caughtUp, logins, pending, failed>>
    BY <1>9 DEF HandleRefused
  <2>3. Next1.of \in Msg
    BY <1>7, <2>1 DEF LineOk, OfMessage
  <2>4. from # {} => Min(from) \in Nat /\ Min(from) <= pos
    <3>1. \A n \in from : n \in Nat /\ n <= pos
      BY <1>5
    <3>2. from \subseteq Nat
      BY <3>1
    <3> HIDE DEF from
    <3> QED
      BY <3>1, <3>2, LeastPlace
  <2>5. w0 \in WaitType /\ w0.start <= w0.line /\ w0.line <= pos
    <3> HIDE DEF from
    <3> QED
      BY <1>2, <2>3, <2>4 DEF WaitType
  <2> HIDE DEF w0
  <2>6. \A w \in recover' : w \in WaitType /\ w.start <= w.line /\ w.line <= pos
    BY <1>5, <2>1, <2>5
  <2> QED
    BY <1>4, <1>5, <1>6, <1>7, <2>1, <2>2, <2>6
<1>10. CASE HandleMail
  <2>1. Handled("mail") /\ UNCHANGED <<last, caughtUp, logins, recover, failed>>
    BY <1>10 DEF HandleMail
  <2>2. Next1.of \in Texts
    BY <1>7, <2>1 DEF LineOk
  <2>3. \/ UNCHANGED pending
        \/ pending' = pending \cup {[of |-> Next1.of, start |-> pos]}
    BY <1>10 DEF HandleMail
  <2>4. \A p \in pending' : p \in PendingType /\ p.start <= pos
    BY <1>2, <1>5, <2>2, <2>3 DEF PendingType
  <2> QED
    BY <1>4, <1>5, <1>6, <1>7, <2>1, <2>4
<1>11. CASE HandleConnect
  <2>1. Handled("connect") /\ UNCHANGED <<last, caughtUp, logins, recover, pending>> /\ failed' \in SUBSET Pid
    BY <1>6, <1>11 DEF HandleConnect, store
  <2> QED
    BY <1>4, <1>5, <1>6, <1>7, <2>1
<1>12. ASSUME NEW x, Counts(x), pos < Len(log) PROVE last' \in 0 .. Len(log)
  BY <1>0, <1>2, <1>6, <1>12 DEF Counts
<1>13. CASE HandleWarning
  <2>1. Handled("warning") /\ UNCHANGED <<caughtUp, logins, recover, pending>> /\ failed' = failed \cup {Next1.by}
    BY <1>13 DEF HandleWarning
  <2>2. failed' \in SUBSET Pid
    BY <1>6, <1>7, <2>1 DEF LineOk, OfClient
  <2>3. last' \in 0 .. Len(log)
    <3>1. CASE Next1.by \in failed
      BY <1>6, <1>13, <3>1 DEF HandleWarning
    <3>2. CASE Next1.by \notin failed
      BY <1>7, <1>12, <1>13, <2>1, <3>2 DEF HandleWarning
    <3> QED
      BY <3>1, <3>2
  <2> QED
    BY <1>4, <1>5, <1>6, <1>7, <2>1, <2>2, <2>3
<1>14. CASE HandleBroken
  <2>1. Handled("broken") /\ UNCHANGED <<caughtUp, logins, recover, pending, failed>>
    BY <1>14 DEF HandleBroken
  <2>2. last' \in 0 .. Len(log)
    BY <1>7, <1>12, <1>14, <2>1 DEF HandleBroken
  <2> QED
    BY <1>4, <1>5, <1>6, <1>7, <2>1, <2>2
<1>15. ASSUME NEW w \in recover, Recovers(w) PROVE TailerOk'
  <2>1. recover' = recover \ {w} /\ UNCHANGED <<pos, last, caughtUp, logins, pending, failed>>
    BY <1>15 DEF Recovers
  <2> QED
    BY <1>0, <1>1, <2>1 DEF TailerOk
<1>16. ASSUME NEW p \in pending, Retries(p) PROVE TailerOk'
  <2>1. pending' = pending \ {p} /\ UNCHANGED <<pos, last, caughtUp, logins, recover, failed>>
    BY <1>16 DEF Retries
  <2> QED
    BY <1>0, <1>1, <2>1 DEF TailerOk
<1>17. CASE PassEnds
  <2>1. caughtUp' = TRUE /\ UNCHANGED <<pos, last, logins, recover, pending, failed>>
    BY <1>17 DEF PassEnds
  <2> QED
    BY <1>0, <1>1, <2>1 DEF TailerOk
<1>18. CASE Goes
  <2>1. /\ pos' = place' /\ caughtUp' = FALSE /\ logins' = {} /\ recover' = {} /\ pending' = {}
        /\ failed' = {} /\ last' = counted
    BY <1>18 DEF Goes
  <2>2. place' \in 0 .. Len(log') /\ counted \in 0 .. Len(log')
    BY <1>0, <1>1, StoreKept DEF StoreOk
  <2> QED
    BY <2>1, <2>2 DEF TailerOk
<1>19. ASSUME UNCHANGED KeptVars PROVE TailerOk'
  BY <1>3, <1>19 DEF KeptVars
<1>20. CASE UNCHANGED vars
  BY <1>3, <1>20 DEF vars, tailer
<1>21. CASE Next
  <2>1. CASE \E m \in Msg : Opens(m) \/ Judges(m) \/ Refuses(m) \/ Answers(m) \/ LetsGo(m)
    BY <2>1, <1>19, KeptAlone
  <2>2. CASE \E t \in Contents : Panel(t)
    BY <2>2, <1>19, KeptAlone
  <2>3. CASE \E p \in Pid : (\E c \in Conn : TurnsAway(p, c)) \/ WarnsAgain(p) \/ ClientLeaves(p)
    BY <2>3, <1>19, KeptAlone
  <2>4. CASE Starts
    BY <2>4, <1>19, KeptAlone
  <2>5. CASE Writes
    BY <2>5, <1>3 DEF Writes, tailer
  <2>6. CASE \E r \in Refusal, t \in Texts : MailRefused(r, t)
    BY <2>6, <1>3 DEF MailRefused, tailer
  <2>7. CASE Tailer
    BY <1>8, <1>9, <1>10, <1>11, <1>13, <1>14, <1>15, <1>16, <1>17, <2>7 DEF Tailer
  <2> QED
    BY <1>18, <1>21, <2>1, <2>2, <2>3, <2>4, <2>5, <2>6, <2>7 DEF Next, Stops, Dies
<1> QED
  BY <1>20, <1>21

LEMMA TypedInit == ASSUME Init PROVE Typed
<1>1. log = <<>> /\ Len(log) = 0
  BY DEF Init
<1>2. LogOk
  BY <1>1 DEF LogOk
<1>3. row \in [Msg -> RowType]
  BY DEF Init, RowType, NoRow
<1>4. StoreOk
  BY <1>1, <1>3 DEF Init, StoreOk
<1>5. TailerOk
  <2>1. /\ pos = 0 /\ last = 0 /\ caughtUp = FALSE
        /\ logins = {} /\ recover = {} /\ pending = {} /\ failed = {}
    BY DEF Init
  <2>2. pos \in 0 .. Len(log) /\ last \in 0 .. Len(log)
    BY <1>1, <2>1
  <2>3. caughtUp \in BOOLEAN
    BY <2>1
  <2> QED
    BY <2>1, <2>2, <2>3 DEF TailerOk
<1>6. buffer \in Seq(Msg) /\ Len(buffer) <= Room
  BY CheckBounds DEF Init
<1>7. OutsideOk
  BY <1>6 DEF Init, OutsideOk, MsgState
<1> QED
  BY <1>2, <1>4, <1>5, <1>7 DEF Typed

LEMMA TypedStep == ASSUME Typed, [Next]_vars PROVE Typed'
<1>1. LogOk'
  BY LogOnlyGrows
<1>2. StoreOk' /\ TailerOk'
  BY StoreKept, TailerKept
<1>3. OutsideOk'
  BY OutsideKept DEF Typed
<1> QED
  BY <1>1, <1>2, <1>3 DEF Typed

LEMMA AlwaysTyped == Spec => []Typed
BY TypedInit, TypedStep, PTL DEF Spec

\* Clients, buffer, log, rows and the tailer's memory keep their form, and every
\* place - saved, counted, read - is a place of the log, through stops and kills
\* (refusalLines, deferredCounter, tracker).
THEOREM CheckTypesHold == Spec => []CheckTypeOK
<1>1. ASSUME Typed PROVE CheckTypeOK
  BY <1>1 DEF Typed, StoreOk, TailerOk, OutsideOk, CheckTypeOK, RowType, MsgState
<1> QED
  BY <1>1, AlwaysTyped, PTL

-----------------------------------------------------------------------------
(* Each line is held against a table in force.                             *)

LEMMA FreshStamp == ASSUME NEW a, NEW b, NEW c PROVE Min(Stamps \ {a, b, c}) \in Stamps \ {a, b, c}
<1>1. Stamps \ {a, b, c} # {}
  <2>1. 1 \in Stamps /\ 2 \in Stamps /\ 3 \in Stamps /\ 4 \in Stamps
    BY DEF Stamps
  <2>2. \E s \in {1, 2, 3, 4} : s # a /\ s # b /\ s # c
    OBVIOUS
  <2> QED
    BY <2>1, <2>2
<1>2. Stamps \ {a, b, c} \subseteq Nat
  BY DEF Stamps
<1> QED
  BY <1>1, <1>2, LeastPlace

LEMMA AnswerIsOne == \A t, l, a : Answer(t, l, a) \in {"defer", "pass", "refuse"}
BY DEF Answer

LEMMA TakenType ==
  ASSUME NEW s \in SessionType, NEW x, NEW line \in {"from", "sender"}
  PROVE  LineTaken(s, x, line) \in SessionType /\ LineTaken(s, x, line).at \in {"judged", "stat"}
BY DEF LineTaken, SessionType

JudgeVars == <<table, stamp, cache, session, blurred, msg, mail>>

LEMMA JudgeSame == ASSUME JudgeInv, UNCHANGED JudgeVars PROVE JudgeInv'
BY DEF JudgeInv, JudgeVars, JudgeTyped, OneAtATime, CacheStands, InForce, JudgedByTheTable, Looked

LEMMA NoSessionType == NoSession \in SessionType /\ NoSession.at = "none"
BY DEF NoSession, SessionType

LEMMA NotReadType == NotRead \in CacheType /\ NotRead.stamp = 0
<1>1. Missing \in Contents
  BY DEF Contents
<1> QED
  BY <1>1 DEF NotRead, CacheType

LEMMA BeginsType ==
  ASSUME NEW x, JudgeBegins(x)
  PROVE  session' \in SessionType /\ session'.at \in {"judged", "stat"}
<1>1. NoSession \in SessionType
  BY DEF NoSession, SessionType
<1>2. [NoSession EXCEPT !.at = "judged", !.got = "refuse"] \in SessionType
  BY <1>1 DEF SessionType
<1>3. [NoSession EXCEPT !.at = "judged", !.got = "refuse"].at = "judged"
  BY DEF NoSession
<1> QED
  BY <1>1, <1>2, <1>3, TakenType DEF JudgeBegins

LEMMA JudgeStat ==
  ASSUME JudgeInv, NEW m \in Msg, msg[m] = "open", Stat(mail[m]), UNCHANGED <<msg, mail>>
  PROVE  JudgeInv'
<1> DEFINE stands == cache.stamp = stamp
           a == IF table = Missing \/ stands THEN "looked" ELSE "read"
           r == IF table = Missing \/ stands THEN 0 ELSE stamp
           g == IF table = Missing THEN "defer" ELSE IF stands THEN Looked(mail[m], cache.table) ELSE ""
           new == [session EXCEPT !.since = {table}, !.at = a, !.read = r, !.got = g]
<1>1. session' = new /\ UNCHANGED <<table, stamp, cache, blurred>> /\ session.at = "stat"
  BY DEF Stat
<1>2. /\ session \in SessionType /\ table \in Contents /\ stamp \in 0 .. 4
      /\ Looked(mail[m], cache.table) \in {"defer", "pass", "refuse"}
  BY AnswerIsOne DEF JudgeInv, JudgeTyped, Stamps, Looked
<1>a. a \in {"looked", "read"} /\ r \in 0 .. 4 /\ g \in {"", "defer", "pass", "refuse"}
  <2>1. a \in {"looked", "read"}
    OBVIOUS
  <2>2. r \in 0 .. 4
    BY <1>2
  <2>3. g \in {"", "defer", "pass", "refuse"}
    BY <1>2
  <2> QED
    BY <2>1, <2>2, <2>3
<1>b. /\ new \in SessionType /\ new.line = session.line /\ new.since = {table}
      /\ new.at = a /\ new.got = g
  <2> HIDE DEF a, r, g
  <2> QED
    BY <1>2, <1>a DEF SessionType
<1> HIDE DEF new
<1>3. /\ new \in SessionType /\ new.line = session.line /\ new.since = {table}
      /\ new.at = IF table = Missing \/ stands THEN "looked" ELSE "read"
      /\ new.got = IF table = Missing THEN "defer" ELSE IF stands THEN Looked(mail[m], cache.table) ELSE ""
  BY <1>b
<1>4. JudgeTyped'
  BY <1>1, <1>3 DEF JudgeInv, JudgeTyped
<1>5. OneAtATime'
  BY <1>1, <1>3 DEF JudgeInv, OneAtATime
<1>6. CacheStands' /\ InForce'
  BY <1>1, <1>3 DEF JudgeInv, CacheStands, InForce
<1>7. ASSUME session'.at = "looked", ~ blurred' PROVE session'.got = Looked(mail[m], table)'
  <2>1. Looked(mail[m], table)' = Looked(mail[m], table)
    BY <1>1, <1>3 DEF Looked
  <2>2. CASE table = Missing
    BY <1>1, <1>3, <2>1, <2>2 DEF Looked, Answer
  <2>3. CASE table # Missing
    <3>1. stands /\ cache.table = table
      BY <1>1, <1>3, <1>7, <2>3 DEF JudgeInv, CacheStands
    <3> QED
      BY <1>1, <1>3, <2>1, <2>3, <3>1
  <2> QED
    BY <2>2, <2>3
<1>8. JudgedByTheTable'
  <2>1. SUFFICES ASSUME session'.at = "looked", ~ blurred'
                 PROVE  \E n \in Msg : msg'[n] = "open" /\ \E t \in session'.since : session'.got = Looked(mail[n], t)'
    BY DEF JudgedByTheTable, Looked
  <2>2. msg'[m] = "open" /\ table \in session'.since
    BY <1>1, <1>3
  <2>3. session'.got = Looked(mail[m], table)'
    BY <1>7, <2>1
  <2> QED
    BY <1>1, <2>2, <2>3 DEF Looked
<1> QED
  BY <1>4, <1>5, <1>6, <1>8 DEF JudgeInv

LEMMA JudgeRead ==
  ASSUME JudgeInv, NEW m \in Msg, msg[m] = "open", Read(mail[m]), UNCHANGED <<msg, mail>>
  PROVE  JudgeInv'
<1> DEFINE new == [session EXCEPT !.at = "looked", !.read = 0, !.got = Looked(mail[m], table)]
<1>1. /\ session' = new /\ UNCHANGED <<table, stamp, blurred>> /\ session.at = "read"
      /\ cache' = IF table = Missing THEN cache ELSE [table |-> table, stamp |-> session.read]
  BY DEF Read
<1>2. /\ session \in SessionType /\ table \in Contents /\ cache \in CacheType
      /\ Looked(mail[m], table) \in {"defer", "pass", "refuse"}
  BY AnswerIsOne DEF JudgeInv, JudgeTyped, Looked
<1>3. /\ new \in SessionType /\ new.line = session.line /\ new.since = session.since
      /\ new.at = "looked" /\ new.got = Looked(mail[m], table)
  <2> DEFINE g == Looked(mail[m], table)
  <2>1. g \in {"defer", "pass", "refuse"} /\ 0 \in 0 .. 4
    BY <1>2
  <2> HIDE DEF g
  <2>2. new = [session EXCEPT !.at = "looked", !.read = 0, !.got = g]
    BY DEF g
  <2>3. new \in SessionType
    BY <1>2, <2>1, <2>2 DEF SessionType
  <2>4. new.line = session.line /\ new.since = session.since /\ new.at = "looked" /\ new.got = g
    BY <1>2, <2>2 DEF SessionType
  <2> QED
    BY <2>3, <2>4 DEF g
<1> HIDE DEF new
<1>4. cache' \in CacheType /\ CacheStands'
  BY <1>1, <1>2 DEF JudgeInv, CacheStands, CacheType, SessionType
<1>5. JudgeTyped' /\ InForce'
  BY <1>1, <1>3, <1>4 DEF JudgeInv, JudgeTyped, InForce
<1>6. OneAtATime'
  BY <1>1, <1>3 DEF JudgeInv, OneAtATime
<1>7. msg'[m] = "open" /\ table \in session'.since /\ session'.got = Looked(mail[m], table)'
  BY <1>1, <1>3 DEF JudgeInv, InForce, Looked
<1>8. JudgedByTheTable'
  BY <1>1, <1>7 DEF JudgedByTheTable, Looked
<1> QED
  BY <1>4, <1>5, <1>6, <1>8 DEF JudgeInv

LEMMA JudgeLine ==
  ASSUME JudgeInv, NEW m \in Msg, msg[m] = "open", LineJudged(mail[m]), UNCHANGED <<msg, mail>>
  PROVE  JudgeInv'
<1> DEFINE s == [session EXCEPT !.since = {}]
<1>1. /\ UNCHANGED <<table, stamp, cache, blurred>> /\ session.at = "looked"
      /\ session' = IF session.got # "pass" \/ session.line = "sender" \/ mail[m].sender = <<>>
                    THEN [s EXCEPT !.at = "judged"]
                    ELSE LineTaken([s EXCEPT !.got = ""], mail[m], "sender")
  BY DEF LineJudged
<1>2. session \in SessionType
  BY DEF JudgeInv, JudgeTyped
<1>3. s \in SessionType
  <2>1. {} \in SUBSET Contents
    OBVIOUS
  <2> QED
    BY <1>2, <2>1 DEF SessionType
<1> HIDE DEF s
<1>5. [s EXCEPT !.at = "judged"] \in SessionType /\ [s EXCEPT !.at = "judged"].at = "judged"
  BY <1>3 DEF SessionType
<1>6. [s EXCEPT !.got = ""] \in SessionType
  BY <1>3 DEF SessionType
<1>4. session' \in SessionType /\ session'.at \in {"judged", "stat"}
  BY <1>1, <1>5, <1>6, TakenType
<1> QED
  BY <1>1, <1>4 DEF JudgeInv, JudgeTyped, OneAtATime, CacheStands, InForce, JudgedByTheTable

LEMMA JudgeRewrite ==
  ASSUME JudgeInv, NEW t \in Contents, Rewrite(t), UNCHANGED <<msg, mail>>
  PROVE  JudgeInv'
<1> DEFINE more == [session EXCEPT !.since = @ \cup {t}]
<1>1. /\ table' = t /\ cache' = cache
      /\ session' = IF session.at = "read" THEN more ELSE session
  BY DEF Rewrite
<1>2. \/ stamp' \in Stamps \ {stamp, cache.stamp, session.read} /\ UNCHANGED blurred
      \/ UNCHANGED stamp /\ blurred' = TRUE
  BY FreshStamp DEF Rewrite
<1>3. session \in SessionType /\ stamp \in Stamps
  BY DEF JudgeInv, JudgeTyped
<1>4. /\ more \in SessionType /\ more.at = session.at /\ more.line = session.line
      /\ more.since = session.since \cup {t}
  BY <1>3 DEF SessionType
<1> HIDE DEF more
<1>5. /\ session' \in SessionType /\ session'.at = session.at /\ session'.line = session.line
      /\ session.at # "read" => session' = session
      /\ session.at = "read" => session'.since = session.since \cup {t}
  BY <1>1, <1>3, <1>4
<1>6. JudgeTyped' /\ CacheStands' /\ InForce'
  BY <1>1, <1>2, <1>3, <1>5 DEF JudgeInv, JudgeTyped, CacheStands, InForce
<1>7. OneAtATime'
  BY <1>5 DEF JudgeInv, OneAtATime
<1>8. JudgedByTheTable'
  <2>1. session'.at = "looked" /\ ~ blurred' => session' = session /\ ~ blurred /\ session.at = "looked"
    BY <1>2, <1>5
  <2> QED
    BY <2>1 DEF JudgeInv, JudgedByTheTable, Looked
<1> QED
  BY <1>6, <1>7, <1>8 DEF JudgeInv

LEMMA JudgeInit == ASSUME Init PROVE JudgeInv
<1>1. cache \in CacheType /\ session \in SessionType /\ session.at = "none" /\ cache.stamp = 0
  BY NoSessionType, NotReadType DEF Init, BindingsInit
<1>2. table \in Contents /\ stamp \in Stamps /\ stamp = 1 /\ \A m \in Msg : msg[m] = "new"
  BY DEF Init, BindingsInit, Contents, Stamps
<1>3. JudgeTyped /\ OneAtATime
  BY <1>1, <1>2 DEF JudgeTyped, OneAtATime
<1>4. CacheStands /\ InForce /\ JudgedByTheTable
  BY <1>1, <1>2 DEF CacheStands, InForce, JudgedByTheTable
<1> QED
  BY <1>3, <1>4 DEF JudgeInv

\* Steps outside the judgement.
LEMMA JudgeAlone ==
  /\ Writes \/ Tailer \/ Starts => UNCHANGED JudgeVars
  /\ \A p \in Pid, c \in Conn : TurnsAway(p, c) => UNCHANGED JudgeVars
  /\ \A p \in Pid : WarnsAgain(p) \/ ClientLeaves(p) => UNCHANGED JudgeVars
  /\ \A r \in Refusal, t \in Texts : MailRefused(r, t) => UNCHANGED JudgeVars
<1> USE DEF JudgeVars, bindings, outside
<1>1. Writes \/ Starts => UNCHANGED JudgeVars
  BY DEF Writes, Starts
<1>2. \A p \in Pid, c \in Conn : TurnsAway(p, c) => UNCHANGED JudgeVars
  BY DEF TurnsAway
<1>3. \A p \in Pid : WarnsAgain(p) \/ ClientLeaves(p) => UNCHANGED JudgeVars
  BY DEF WarnsAgain, ClientLeaves
<1>4. \A r \in Refusal, t \in Texts : MailRefused(r, t) => UNCHANGED JudgeVars
  BY DEF MailRefused
<1>5. HandleClient \/ HandleRefused \/ HandleMail \/ HandleConnect \/ HandleWarning \/ HandleBroken
        => UNCHANGED JudgeVars
  BY DEF HandleClient, HandleRefused, HandleMail, HandleConnect, HandleWarning, HandleBroken
<1>6. \A w \in recover : Recovers(w) => UNCHANGED JudgeVars
  BY DEF Recovers
<1>7. \A p \in pending : Retries(p) => UNCHANGED JudgeVars
  BY DEF Retries
<1>8. PassEnds => UNCHANGED JudgeVars
  BY DEF PassEnds
<1> QED
  BY <1>1, <1>2, <1>3, <1>4, <1>5, <1>6, <1>7, <1>8 DEF Tailer

LEMMA JudgeStep == ASSUME Typed, JudgeInv, [Next]_vars PROVE JudgeInv'
<1>0. msg \in [Msg -> MsgState]
  BY DEF Typed, OutsideOk
<1>1. ASSUME NEW m \in Msg, Opens(m) PROVE JudgeInv'
  <2>1. /\ session.at = "none" /\ msg' = [msg EXCEPT ![m] = "open"]
        /\ UNCHANGED <<table, stamp, cache, blurred>>
    BY <1>1 DEF Opens
  <2>2. session' \in SessionType /\ session'.at \in {"judged", "stat"}
    BY <1>1, BeginsType DEF Opens
  <2>3. OneAtATime'
    BY <1>0, <2>1, <2>2 DEF JudgeInv, OneAtATime
  <2>4. JudgeTyped' /\ CacheStands' /\ InForce' /\ JudgedByTheTable'
    BY <2>1, <2>2 DEF JudgeInv, JudgeTyped, CacheStands, InForce, JudgedByTheTable
  <2> QED
    BY <2>3, <2>4 DEF JudgeInv
<1>2. ASSUME NEW m \in Msg, Judges(m) PROVE JudgeInv'
  <2>1. msg[m] = "open" /\ UNCHANGED <<msg, mail>> /\ (Stat(mail[m]) \/ Read(mail[m]) \/ LineJudged(mail[m]))
    BY <1>2 DEF Judges, outside
  <2> QED
    BY <2>1, JudgeStat, JudgeRead, JudgeLine
<1>3. ASSUME NEW m \in Msg, Refuses(m) PROVE JudgeInv'
  <2>1. /\ msg[m] = "open" /\ msg' = [msg EXCEPT ![m] = "answer"] /\ session.at = "judged"
        /\ UNCHANGED <<table, stamp, cache, session, blurred>>
    BY <1>3 DEF Refuses, bindings
  <2>2. OneAtATime'
    BY <1>0, <2>1 DEF JudgeInv, OneAtATime
  <2> QED
    BY <2>1, <2>2 DEF JudgeInv, JudgeTyped, CacheStands, InForce, JudgedByTheTable
<1>4. ASSUME NEW m \in Msg, Answers(m) \/ LetsGo(m) PROVE JudgeInv'
  <2>1. /\ msg[m] \in {"open", "answer"} /\ session' = NoSession
        /\ msg' = [msg EXCEPT ![m] = "refused"] \/ msg' = [msg EXCEPT ![m] = "done"]
        /\ UNCHANGED <<table, stamp, cache, blurred>>
    BY <1>4 DEF Answers, LetsGo
  <2>2. session' \in SessionType /\ session'.at = "none"
    BY <2>1, NoSessionType
  <2>3. OneAtATime'
    BY <1>0, <2>1, <2>2 DEF JudgeInv, OneAtATime
  <2> QED
    BY <2>1, <2>2, <2>3 DEF JudgeInv, JudgeTyped, CacheStands, InForce, JudgedByTheTable
<1>5. ASSUME NEW t \in Contents, Panel(t) PROVE JudgeInv'
  <2>1. Rewrite(t) /\ UNCHANGED <<msg, mail>>
    BY <1>5 DEF Panel, outside
  <2> QED
    BY <2>1, JudgeRewrite
<1>6. CASE Goes
  <2>1. /\ cache' = NotRead /\ session' = NoSession /\ UNCHANGED <<table, stamp, blurred>>
        /\ msg' = [m \in Msg |-> IF m \in Cut THEN "done" ELSE msg[m]]
    BY <1>6 DEF Goes, Cut
  <2>2. session' \in SessionType /\ session'.at = "none" /\ cache' \in CacheType /\ cache'.stamp = 0
    BY <2>1, NoSessionType, NotReadType
  <2>3. \A m \in Msg : msg'[m] \notin {"open", "answer"}
    BY <2>1 DEF Cut
  <2> QED
    BY <2>1, <2>2, <2>3
    DEF JudgeInv, JudgeTyped, OneAtATime, CacheStands, InForce, JudgedByTheTable, Stamps
<1>7. ASSUME UNCHANGED JudgeVars PROVE JudgeInv'
  BY <1>7, JudgeSame
<1>8. CASE UNCHANGED vars
  BY <1>7, <1>8 DEF vars, bindings, outside, JudgeVars
<1>9. CASE Next
  <2>1. CASE Writes \/ Tailer \/ Starts
    BY <2>1, <1>7, JudgeAlone
  <2>2. CASE \E p \in Pid : (\E c \in Conn : TurnsAway(p, c)) \/ WarnsAgain(p) \/ ClientLeaves(p)
    BY <2>2, <1>7, JudgeAlone
  <2>3. CASE \E r \in Refusal, t \in Texts : MailRefused(r, t)
    BY <2>3, <1>7, JudgeAlone
  <2> QED
    BY <1>1, <1>2, <1>3, <1>4, <1>5, <1>6, <1>9, <2>1, <2>2, <2>3 DEF Next, Stops, Dies
<1> QED
  BY <1>8, <1>9

LEMMA AlwaysJudged == Spec => []JudgeInv
<1>1. Typed /\ JudgeInv /\ [Next]_vars => JudgeInv'
  BY JudgeStep
<1> QED
  BY <1>1, AlwaysTyped, JudgeInit, PTL DEF Spec

\* Each line is held against a table that was in force while it was looked up,
\* however the panel rewrites the file between the check's stat, its read and
\* its next message, unless a rewrite left the file its time and size
\* (tableFile.changed, Bindings.Allowed).
THEOREM AlwaysJudgedByTheTable == Spec => []JudgedByTheTable
<1>1. JudgeInv => JudgedByTheTable
  BY DEF JudgeInv
<1> QED
  BY <1>1, AlwaysJudged, PTL

-----------------------------------------------------------------------------
(* A refused message has its row.                                          *)

\* A line of a refusal stays, and a new one is that of an answer given now.
LEMMA RefusedLines ==
  ASSUME Typed, [Next]_vars
  PROVE  /\ \A m \in Msg, i \in 1 .. Len(log) : RefusedAt(m, i)' <=> RefusedAt(m, i)
         /\ \A m \in Msg, i \in Nat : RefusedAt(m, i)' => RefusedAt(m, i) \/ (Answers(m) /\ i = Len(log) + 1)
<1>0. /\ LogOk /\ Len(log) \in Nat /\ Len(log') \in Nat /\ Len(log) <= Len(log')
      /\ \A i \in 1 .. Len(log) : log'[i] = log[i]
  BY LogOnlyGrows DEF Typed
<1>1. \A m \in Msg, i \in 1 .. Len(log) : RefusedAt(m, i)' <=> RefusedAt(m, i)
  BY <1>0 DEF RefusedAt
<1>2. ASSUME NEW m \in Msg, NEW i \in Nat, RefusedAt(m, i)', ~ RefusedAt(m, i)
      PROVE  Answers(m) /\ i = Len(log) + 1
  <2>1. i \in Len(log) + 1 .. Len(log') /\ log'[i].kind = "refused" /\ log'[i].of = m
    BY <1>0, <1>1, <1>2 DEF RefusedAt
  <2>2. ASSUME UNCHANGED vars PROVE FALSE
    BY <1>0, <2>1, <2>2 DEF vars
  <2>3. CASE Silent
    <3>1. log' = log
      BY <2>3, SilentStep
    <3> QED
      BY <1>0, <2>1, <3>1
  <2>4. ASSUME NEW n \in Msg, Opens(n) PROVE FALSE
    <3>1. log' = Append(log, Line("client", n, 0)) /\ LineOk(Line("client", n, 0))
      BY <2>4, OneLineSteps
    <3>2. Len(log') = Len(log) + 1 /\ log'[Len(log) + 1] = Line("client", n, 0)
      BY <1>0, <3>1, OneLineMore
    <3> QED
      BY <1>0, <2>1, <3>2 DEF Line
  <2>5. ASSUME NEW n \in Msg, Answers(n) PROVE n = m /\ i = Len(log) + 1
    <3>1. log' = Append(log, Line("refused", n, 0)) /\ LineOk(Line("refused", n, 0))
      BY <2>5, OneLineSteps
    <3>2. Len(log') = Len(log) + 1 /\ log'[Len(log) + 1] = Line("refused", n, 0)
      BY <1>0, <3>1, OneLineMore
    <3> QED
      BY <1>0, <2>1, <3>2 DEF Line
  <2>6. ASSUME NEW p \in Pid, WarnsAgain(p) PROVE FALSE
    <3>1. log' = Append(log, Line("warning", smtpd[p], p)) /\ LineOk(Line("warning", smtpd[p], p))
      BY <2>6, OneLineSteps
    <3>2. Len(log') = Len(log) + 1 /\ log'[Len(log) + 1] = Line("warning", smtpd[p], p)
      BY <1>0, <3>1, OneLineMore
    <3> QED
      BY <1>0, <2>1, <3>2 DEF Line
  <2>7. ASSUME NEW p \in Pid, NEW c \in Conn, TurnsAway(p, c) PROVE FALSE
    <3>1. log' = log \o <<Line("connect", c, p), Line("warning", c, p)>>
      BY <2>7 DEF TurnsAway
    <3>2. /\ Len(log') = Len(log) + 2 /\ log'[Len(log) + 1] = Line("connect", c, p)
          /\ log'[Len(log) + 2] = Line("warning", c, p)
      BY <1>0, <3>1, TurnedAwayLines
    <3>3. i = Len(log) + 1 \/ i = Len(log) + 2
      BY <1>0, <2>1, <3>2
    <3> QED
      BY <2>1, <3>2, <3>3 DEF Line
  <2>8. ASSUME NEW r \in Refusal, NEW t \in Texts, MailRefused(r, t) PROVE FALSE
    <3>1. log' = Append(log, Line("mail", t, 0)) /\ LineOk(Line("mail", t, 0))
      BY <2>8, OneLineSteps
    <3>2. Len(log') = Len(log) + 1 /\ log'[Len(log) + 1] = Line("mail", t, 0)
      BY <1>0, <3>1, OneLineMore
    <3> QED
      BY <1>0, <2>1, <3>2 DEF Line
  <2>9. CASE Goes
    <3>1. \E n \in Cut : log'[i] = Line("broken", n, 0)
      BY <1>0, <2>1, <2>9, CutShortLines
    <3> QED
      BY <2>1, <3>1 DEF Line
  <2>10. Next
    BY <2>2
  <2> QED
    BY <2>3, <2>4, <2>5, <2>6, <2>7, <2>8, <2>9, <2>10, StepsByLog
<1> QED
  BY <1>1, <1>2

\* The same, while no message gets its answer.
LEMMA NoNewRefusedLine ==
  ASSUME Typed, [Next]_vars, NEW m \in Msg, msg'[m] = msg[m]
  PROVE  \A i \in 1 .. Len(log') : RefusedAt(m, i)' => RefusedAt(m, i)
<1>1. ~ Answers(m)
  <2>1. msg \in [Msg -> MsgState]
    BY DEF Typed, OutsideOk
  <2> QED
    BY <2>1 DEF Answers
<1>2. \A i \in 1 .. Len(log') : i \in Nat
  BY LogOnlyGrows
<1> QED
  BY <1>1, <1>2, RefusedLines

\* Steps that are not about refused messages: lines of others, reading on.
NotTheirLine == pos' = pos \/ (pos' = pos + 1 /\ log[pos + 1].kind # "refused")

LEMMA RowElsewhere ==
  ASSUME Typed, RowInv, [Next]_vars, UNCHANGED <<msg, buffer, row, place, recover, late>>,
         missed \subseteq missed', NotTheirLine, up \/ (pos' = pos), ~ up' => ~ up
  PROVE  RowInv'
<1>0. /\ LogOk /\ Len(log) \in Nat /\ Len(log') \in Nat /\ Len(log) <= Len(log')
      /\ pos \in Nat /\ pos <= Len(log) /\ place \in Nat
  BY LogOnlyGrows DEF Typed, TailerOk, StoreOk
<1>1. \A m \in Msg, i \in 1 .. Len(log) : RefusedAt(m, i)' <=> RefusedAt(m, i)
  BY RefusedLines
<1>2. \A m \in Msg, i \in 1 .. Len(log') : RefusedAt(m, i)' => RefusedAt(m, i)
  BY NoNewRefusedLine
<1>3. \A m \in Msg : InBuffer(m)' <=> InBuffer(m)
  BY DEF InBuffer
<1>4. NothingBefore'
  BY <1>2, <1>3 DEF RowInv, NothingBefore, RefusedAt
<1>5. WaitsForALine'
  <2>1. \A w \in recover : w.of \in Msg /\ w.line + 1 \in 1 .. Len(log)
    BY <1>0 DEF Typed, TailerOk, WaitType
  <2> QED
    BY <1>1, <2>1 DEF RowInv, WaitsForALine
<1>6. PlaceWasRead'
  BY <1>0 DEF RowInv, PlaceWasRead, NotTheirLine
<1>7. OneOfEach'
  BY <1>3 DEF RowInv, OneOfEach
<1>8. RowOrLine'
  <2> SUFFICES ASSUME NEW m \in Msg, msg'[m] = "refused" PROVE HasRow(m)' \/ m \in missed' \/ Coming(m)'
    BY DEF RowOrLine
  <2>1. HasRow(m) \/ m \in missed \/ Coming(m)
    BY DEF RowInv, RowOrLine
  <2>2. CASE HasRow(m) \/ m \in missed
    BY <2>2 DEF HasRow
  <2>3. ASSUME NEW i \in 1 .. Len(log), RefusedAt(m, i), i > pos \/ \E w \in recover : w.of = m /\ w.line + 1 = i
        PROVE  Coming(m)'
    <3>1. i > pos => i > pos'
      BY <1>0, <2>3 DEF NotTheirLine, RefusedAt
    <3>2. RefusedAt(m, i)' /\ i \in 1 .. Len(log')
      BY <1>0, <1>1, <2>3
    <3> QED
      BY <2>3, <3>1, <3>2 DEF Coming
  <2> QED
    BY <2>1, <2>2, <2>3 DEF Coming
<1> QED
  BY <1>4, <1>5, <1>6, <1>7, <1>8 DEF RowInv

LEMMA RowRefuses == ASSUME Typed, RowInv, [Next]_vars, NEW m \in Msg, Refuses(m) PROVE RowInv'
<1>0. /\ Len(log) \in Nat /\ msg \in [Msg -> MsgState] /\ buffer \in Seq(Msg)
      /\ msg[m] = "open" /\ msg' = [msg EXCEPT ![m] = "answer"] /\ Records(m)
      /\ UNCHANGED <<log, row, place, recover, late, missed, pos, up>>
  BY DEF Typed, LogOk, OutsideOk, Refuses, store, tailer, seen
<1>1. \A n \in Msg, i \in Nat : RefusedAt(n, i)' <=> RefusedAt(n, i)
  BY <1>0 DEF RefusedAt
<1>2. ~ InBuffer(m) /\ row[m].own = 0 /\ row[m].recovered = 0 /\ \A i \in 1 .. Len(log) : ~ RefusedAt(m, i)
  BY <1>0 DEF RowInv, NothingBefore
<1>3. /\ \A n \in Msg : InBuffer(n)' => InBuffer(n) \/ n = m
      /\ \A i, j \in 1 .. Len(buffer') : buffer'[i] = buffer'[j] => i = j
  <2>1. CASE buffer' = buffer
    BY <2>1 DEF RowInv, OneOfEach, InBuffer
  <2>2. CASE buffer' = Append(buffer, m)
    <3>1. /\ Len(buffer) \in Nat /\ Len(buffer') = Len(buffer) + 1 /\ buffer'[Len(buffer) + 1] = m
          /\ \A i \in 1 .. Len(buffer) : buffer'[i] = buffer[i]
      BY <1>0, <2>2
    <3>2. \A i \in 1 .. Len(buffer') : i \in 1 .. Len(buffer) \/ i = Len(buffer) + 1
      BY <3>1
    <3>3. \A i \in 1 .. Len(buffer) : buffer[i] # m
      BY <1>2 DEF InBuffer
    <3> QED
      BY <3>1, <3>2, <3>3 DEF RowInv, OneOfEach, InBuffer
  <2> QED
    BY <1>0, <2>1, <2>2 DEF Records
<1>4. NothingBefore'
  BY <1>0, <1>1, <1>2, <1>3 DEF RowInv, NothingBefore, RefusedAt
<1>5. WaitsForALine'
  BY <1>0 DEF RowInv, WaitsForALine, RefusedAt
<1>6. PlaceWasRead'
  BY <1>0 DEF RowInv, PlaceWasRead
<1>7. OneOfEach'
  BY <1>0, <1>2, <1>3 DEF RowInv, OneOfEach
<1>8. RowOrLine'
  BY <1>0 DEF RowInv, RowOrLine, HasRow, Coming, RefusedAt
<1> QED
  BY <1>4, <1>5, <1>6, <1>7, <1>8 DEF RowInv

\* Opened, answered or let go: only Postfix's answer leaves a line of a refusal.
LEMMA RowClient ==
  ASSUME Typed, RowInv, [Next]_vars, NEW m \in Msg, Opens(m) \/ Answers(m) \/ LetsGo(m)
  PROVE  RowInv'
<1>0. /\ LogOk /\ Len(log) \in Nat /\ Len(log') \in Nat /\ Len(log) <= Len(log') /\ msg \in [Msg -> MsgState]
      /\ pos \in Nat /\ pos <= Len(log)
  BY LogOnlyGrows DEF Typed, LogOk, OutsideOk, TailerOk
<1>1. /\ msg[m] \in {"new", "open", "answer"} /\ (Answers(m) => msg[m] = "answer")
      /\ \E s \in {"open", "refused", "done"} :
            msg' = [msg EXCEPT ![m] = s] /\ (s = "open" => msg[m] = "new") /\ (s = "refused" => Answers(m))
                                         /\ (Answers(m) => s = "refused")
      /\ UNCHANGED <<buffer, row, place, recover, late, missed, pos, up>>
  BY <1>0 DEF Opens, Answers, LetsGo, store, tailer, seen
<1>2. \A n \in Msg, i \in 1 .. Len(log) : RefusedAt(n, i)' <=> RefusedAt(n, i)
  BY RefusedLines
<1>3. \A n \in Msg, i \in 1 .. Len(log') : RefusedAt(n, i)' => RefusedAt(n, i) \/ (Answers(n) /\ i = Len(log) + 1)
  BY <1>0, RefusedLines
<1>4. \A n \in Msg : InBuffer(n)' <=> InBuffer(n)
  BY <1>1 DEF InBuffer
<1>5. NothingBefore'
  <2> SUFFICES ASSUME NEW n \in Msg
               PROVE  /\ msg'[n] \in {"new", "open"} => ~ InBuffer(n)' /\ row'[n].own = 0 /\ row'[n].recovered = 0
                      /\ msg'[n] # "refused" => \A i \in 1 .. Len(log') : ~ RefusedAt(n, i)'
    BY DEF NothingBefore, RefusedAt
  <2>1. msg'[n] \in {"new", "open"} => msg[n] \in {"new", "open"}
    BY <1>0, <1>1
  <2>2. msg'[n] # "refused" => msg[n] # "refused" /\ ~ Answers(n)
    <3>1. n # m => ~ Answers(n)
      <4>1. n # m => msg'[n] = msg[n]
        BY <1>0, <1>1
      <4>2. Answers(n) => msg[n] = "answer" /\ msg'[n] = "refused"
        BY <1>0 DEF Answers
      <4> QED
        BY <4>1, <4>2
    <3> QED
      BY <1>0, <1>1, <3>1
  <2> QED
    BY <1>1, <1>3, <1>4, <2>1, <2>2 DEF RowInv, NothingBefore, RefusedAt
<1>6. WaitsForALine'
  <2>1. \A w \in recover : w.of \in Msg /\ w.line + 1 \in 1 .. Len(log)
    BY <1>0 DEF Typed, TailerOk, WaitType
  <2> QED
    BY <1>1, <1>2, <2>1 DEF RowInv, WaitsForALine
<1>7. PlaceWasRead' /\ OneOfEach'
  BY <1>1, <1>4 DEF RowInv, PlaceWasRead, OneOfEach
<1>8. RowOrLine'
  <2> SUFFICES ASSUME NEW n \in Msg, msg'[n] = "refused" PROVE HasRow(n)' \/ n \in missed' \/ Coming(n)'
    BY DEF RowOrLine
  <2>1. CASE msg[n] = "refused"
    <3>1. HasRow(n) \/ n \in missed \/ Coming(n)
      BY <2>1 DEF RowInv, RowOrLine
    <3>2. Coming(n) => Coming(n)'
      BY <1>0, <1>1, <1>2 DEF Coming
    <3>3. HasRow(n) => HasRow(n)'
      BY <1>1 DEF HasRow
    <3> QED
      BY <1>1, <3>1, <3>2, <3>3
  <2>2. CASE msg[n] # "refused"
    <3>1. n = m /\ Answers(m)
      BY <1>0, <1>1, <2>2
    <3>2. log' = Append(log, Line("refused", m, 0)) /\ LineOk(Line("refused", m, 0))
      BY <3>1, OneLineSteps
    <3>3. Len(log') = Len(log) + 1 /\ log'[Len(log) + 1] = Line("refused", m, 0)
      BY <1>0, <3>2, OneLineMore
    <3> PICK i \in Nat : i = Len(log) + 1
      BY <1>0
    <3>4. RefusedAt(m, i)' /\ i \in 1 .. Len(log') /\ i > pos'
      BY <1>0, <1>1, <3>3 DEF RefusedAt, Line
    <3> QED
      BY <3>1, <3>4 DEF Coming
  <2> QED
    BY <2>1, <2>2
<1> QED
  BY <1>5, <1>6, <1>7, <1>8 DEF RowInv

\* The panel's own row: one less in the buffer, one more in the send log, or none.
LEMMA RowWrites == ASSUME Typed, RowInv, Writes PROVE RowInv'
<1> DEFINE h == Head(buffer)
<1>0. /\ buffer \in Seq(Msg) /\ buffer # <<>> /\ buffer' = Tail(buffer) /\ row \in [Msg -> RowType]
      /\ UNCHANGED <<log, msg, place, recover, late, missed, pos, up>>
      /\ Inserted(h, "own", row[h].named) \/ UNCHANGED row
  BY DEF Typed, OutsideOk, StoreOk, Writes, tailer, seen, outside
<1>1. /\ h \in Msg /\ h = buffer[1] /\ Len(buffer) \in Nat /\ Len(buffer) >= 1 /\ Len(buffer') = Len(buffer) - 1
      /\ \A i \in 1 .. Len(buffer') : buffer'[i] = buffer[i + 1]
  BY <1>0
<1>2. InBuffer(h)
  BY <1>1 DEF InBuffer
<1>3. \A m \in Msg : InBuffer(m)' => InBuffer(m) /\ m # h
  <2> SUFFICES ASSUME NEW m \in Msg, NEW i \in 1 .. Len(buffer'), buffer'[i] = m
               PROVE  InBuffer(m) /\ m # h
    BY DEF InBuffer
  <2>1. i + 1 \in 1 .. Len(buffer) /\ buffer[i + 1] = m /\ 1 \in 1 .. Len(buffer) /\ i + 1 # 1
    BY <1>1
  <2>2. m # h
    BY <1>1, <2>1 DEF RowInv, OneOfEach
  <2> QED
    BY <2>1, <2>2 DEF InBuffer
<1>4. \A i, j \in 1 .. Len(buffer') : buffer'[i] = buffer'[j] => i = j
  <2> TAKE i, j \in 1 .. Len(buffer')
  <2>1. i + 1 \in 1 .. Len(buffer) /\ j + 1 \in 1 .. Len(buffer)
    BY <1>1
  <2>2. buffer[i + 1] = buffer[j + 1] => i + 1 = j + 1
    BY <2>1 DEF RowInv, OneOfEach
  <2> QED
    BY <1>1, <2>2
<1> HIDE DEF h
<1>5. \/ row' = row
      \/ row'[h].own = row[h].own + 1 /\ row'[h].recovered = row[h].recovered
         /\ \A m \in Msg \ {h} : row'[m] = row[m]
  <2>1. ASSUME Inserted(h, "own", row[h].named)
        PROVE  row'[h].own = row[h].own + 1 /\ row'[h].recovered = row[h].recovered
               /\ \A m \in Msg \ {h} : row'[m] = row[m]
    <3>1. row[h].named \in BOOLEAN /\ "own" \in {"own", "recovered"}
      BY <1>0, <1>1 DEF RowType
    <3> DEFINE named == row[h].named
    <3> HIDE DEF named
    <3>2. named \in BOOLEAN /\ Inserted(h, "own", named)
      BY <2>1, <3>1 DEF named
    <3> QED
      BY <1>0, <1>1, <3>1, <3>2, RowInserted
  <2> QED
    BY <1>0, <2>1
<1>6. \A m \in Msg : row[m].own \in Nat /\ row[m].recovered \in Nat
  BY <1>0 DEF RowType
<1>7. NothingBefore'
  BY <1>0, <1>1, <1>2, <1>3, <1>5 DEF RowInv, NothingBefore, RefusedAt
<1>8. WaitsForALine' /\ PlaceWasRead'
  BY <1>0 DEF RowInv, WaitsForALine, PlaceWasRead, RefusedAt
<1>9. OneOfEach'
  <2> SUFFICES ASSUME NEW m \in Msg
               PROVE  /\ row'[m].own <= 1 /\ row'[m].recovered <= 1
                      /\ InBuffer(m)' => row'[m].own = 0
                      /\ row'[m].recovered = 1 /\ (InBuffer(m)' \/ row'[m].own = 1) => m \in late'
    BY <1>4 DEF OneOfEach, InBuffer
  <2>1. CASE row' = row
    BY <1>0, <1>3, <2>1 DEF RowInv, OneOfEach
  <2>2. CASE m = h /\ row'[h].own = row[h].own + 1 /\ row'[h].recovered = row[h].recovered
    BY <1>0, <1>1, <1>2, <1>3, <1>6, <2>2 DEF RowInv, OneOfEach
  <2>3. CASE m # h /\ row'[m] = row[m]
    BY <1>0, <1>3, <2>3 DEF RowInv, OneOfEach
  <2> QED
    BY <1>5, <2>1, <2>2, <2>3
<1>10. RowOrLine'
  <2>1. \A m \in Msg : HasRow(m) => HasRow(m)'
    <3> SUFFICES ASSUME NEW m \in Msg, HasRow(m)
                 PROVE  HasRow(m)'
      OBVIOUS
    <3>1. CASE row' = row
      BY <3>1 DEF HasRow
    <3>2. CASE m = h /\ row'[h].own = row[h].own + 1 /\ row'[h].recovered = row[h].recovered
      BY <1>6, <3>2 DEF HasRow
    <3>3. CASE m # h /\ row'[m] = row[m]
      BY <3>3 DEF HasRow
    <3> QED
      BY <1>5, <3>1, <3>2, <3>3
  <2> QED
    BY <1>0, <2>1 DEF RowInv, RowOrLine, Coming, RefusedAt
<1> QED
  BY <1>7, <1>8, <1>9, <1>10 DEF RowInv

\* cleanup's line is read: its row is waited for from now on.
LEMMA RowHandleRefused == ASSUME Typed, RowInv, HandleRefused PROVE RowInv'
<1>0. /\ pos < Len(log) /\ Next1.kind = "refused" /\ pos' = pos + 1
      /\ pos \in Nat /\ Len(log) \in Nat /\ up
      /\ UNCHANGED <<log, msg, buffer, row, place, late, missed, up>>
  BY DEF Typed, LogOk, TailerOk, HandleRefused, Handled, store, outside
<1>1. PICK w \in WaitType : recover' = recover \cup {w} /\ w.of = Next1.of /\ w.line = pos
  <2> DEFINE from == {l.start : l \in {l \in logins : l.of = Next1.of}}
             w == [of |-> Next1.of, line |-> pos, start |-> IF from = {} THEN pos ELSE Min(from), named |-> from # {}]
  <2>1. recover' = recover \cup {w} /\ w.of = Next1.of /\ w.line = pos
    BY DEF HandleRefused
  <2>2. w \in WaitType
    <3>1. TailerOk'
      BY TailerKept DEF Next, Tailer
    <3> QED
      BY <2>1, <3>1 DEF TailerOk
  <2> HIDE DEF w
  <2> QED
    BY <2>1, <2>2
<1>2. RefusedAt(w.of, w.line + 1) /\ w.of \in Msg
  BY <1>0, <1>1, NextLine DEF RefusedAt, LineOk, OfMessage
<1>3. \A m \in Msg : InBuffer(m)' <=> InBuffer(m)
  BY <1>0 DEF InBuffer
<1>4. NothingBefore' /\ OneOfEach'
  BY <1>0, <1>3 DEF RowInv, NothingBefore, OneOfEach, RefusedAt
<1>5. WaitsForALine' /\ PlaceWasRead'
  <2>1. place <= pos /\ place \in Nat
    BY <1>0 DEF RowInv, PlaceWasRead, Typed, StoreOk
  <2>2. WaitsForALine'
    BY <1>0, <1>1, <1>2, <2>1 DEF RowInv, WaitsForALine, RefusedAt
  <2> QED
    BY <1>0, <2>1, <2>2 DEF PlaceWasRead
<1>6. RowOrLine'
  <2> SUFFICES ASSUME NEW m \in Msg, msg'[m] = "refused" PROVE HasRow(m)' \/ m \in missed' \/ Coming(m)'
    BY DEF RowOrLine
  <2>1. HasRow(m) \/ m \in missed \/ Coming(m)
    BY <1>0 DEF RowInv, RowOrLine
  <2>2. ASSUME NEW i \in 1 .. Len(log), RefusedAt(m, i), i > pos \/ \E v \in recover : v.of = m /\ v.line + 1 = i
        PROVE  Coming(m)'
    <3>1. CASE i = pos + 1
      <4>1. w.of = m /\ w.line + 1 = i
        BY <1>0, <1>1, <2>2, <3>1 DEF RefusedAt, Next1
      <4> QED
        BY <1>0, <1>1, <2>2, <4>1 DEF Coming, RefusedAt
    <3>2. CASE i # pos + 1
      BY <1>0, <1>1, <2>2, <3>2 DEF Coming, RefusedAt
    <3> QED
      BY <3>1, <3>2
  <2> QED
    BY <1>0, <2>1, <2>2 DEF Coming, HasRow
<1> QED
  BY <1>4, <1>5, <1>6 DEF RowInv

\* The wait is over: the row is written if the message has none.
LEMMA RowRecovers == ASSUME Typed, RowInv, NEW w \in recover, Recovers(w) PROVE RowInv'
<1> DEFINE n == w.of
<1>0. /\ w \in WaitType /\ n \in Msg /\ w.named \in BOOLEAN
      /\ recover' = recover \ {w} /\ row \in [Msg -> RowType]
      /\ UNCHANGED <<log, msg, buffer, place, pos, up>>
  BY DEF Typed, TailerOk, StoreOk, WaitType, Recovers, outside
<1>1. late' = IF InBuffer(n) THEN late \cup {n} ELSE late
  <2>1. buffer \in Seq(Msg)
    BY DEF Typed, OutsideOk
  <2>2. (\E i \in DOMAIN buffer : buffer[i] = n) <=> InBuffer(n)
    BY <2>1 DEF InBuffer
  <2> QED
    BY <2>2 DEF Recovers
<1>2. \A m \in Msg : InBuffer(m)' <=> InBuffer(m)
  BY <1>0 DEF InBuffer
<1>3. \A m \in Msg : row[m].own \in Nat /\ row[m].recovered \in Nat
  BY <1>0 DEF RowType
<1> HIDE DEF n
<1>4. /\ missed \subseteq missed' /\ \A m \in Msg \ {n} : row'[m] = row[m]
      /\ \/ row' = row /\ (HasRow(n) \/ n \in missed')
         \/ row[n].own = 0 /\ row[n].recovered = 0 /\ row'[n].own = 0 /\ row'[n].recovered = 1
  <2>1. CASE row[n].own + row[n].recovered = 0 /\ Inserted(n, "recovered", w.named) /\ UNCHANGED missed
    <3> DEFINE named == w.named
    <3>1. named \in BOOLEAN /\ "recovered" \in {"own", "recovered"}
      BY <1>0
    <3> HIDE DEF named
    <3>2. Inserted(n, "recovered", named)
      BY <2>1 DEF named
    <3>3. \A m \in Msg \ {n} : row'[m] = row[m]
      BY <1>0, <3>1, <3>2, RowInserted DEF n
    <3>4. row'[n].own = row[n].own /\ row'[n].recovered = row[n].recovered + 1
      BY <1>0, <3>1, <3>2, RowInserted DEF n
    <3> QED
      BY <1>0, <1>3, <2>1, <3>3, <3>4 DEF n
  <2>2. CASE row[n].own + row[n].recovered # 0 /\ UNCHANGED <<row, missed>>
    BY <1>0, <1>3, <2>2 DEF HasRow, n
  <2>3. CASE missed' = missed \cup {n} /\ UNCHANGED row
    BY <2>3
  <2> QED
    BY <2>1, <2>2, <2>3 DEF Recovers, n
<1>5. RefusedAt(n, w.line + 1) /\ msg[n] = "refused" /\ n \in Msg
  <2>1. RefusedAt(n, w.line + 1)
    BY DEF RowInv, WaitsForALine, n
  <2> QED
    BY <1>0, <2>1 DEF RowInv, NothingBefore, RefusedAt, n
<1>6. NothingBefore'
  <2> SUFFICES ASSUME NEW m \in Msg
               PROVE  /\ msg'[m] \in {"new", "open"} => ~ InBuffer(m)' /\ row'[m].own = 0 /\ row'[m].recovered = 0
                      /\ msg'[m] # "refused" => \A i \in 1 .. Len(log') : ~ RefusedAt(m, i)'
    BY DEF NothingBefore, RefusedAt
  <2>1. msg'[m] \in {"new", "open"} => m # n
    BY <1>0, <1>5
  <2> QED
    BY <1>0, <1>2, <1>4, <2>1 DEF RowInv, NothingBefore, RefusedAt
<1>7. WaitsForALine' /\ PlaceWasRead'
  BY <1>0 DEF RowInv, WaitsForALine, PlaceWasRead, RefusedAt
<1>8. OneOfEach'
  <2> SUFFICES ASSUME NEW m \in Msg
               PROVE  /\ row'[m].own <= 1 /\ row'[m].recovered <= 1
                      /\ InBuffer(m)' => row'[m].own = 0
                      /\ row'[m].recovered = 1 /\ (InBuffer(m)' \/ row'[m].own = 1) => m \in late'
    BY <1>0 DEF OneOfEach, InBuffer, RowInv
  <2>1. CASE row'[m] = row[m]
    BY <1>1, <1>2, <2>1 DEF RowInv, OneOfEach
  <2>2. CASE m = n /\ row'[n].own = 0 /\ row'[n].recovered = 1
    BY <1>1, <1>2, <2>2
  <2> QED
    BY <1>4, <2>1, <2>2
<1>9. RowOrLine'
  <2> SUFFICES ASSUME NEW m \in Msg, msg'[m] = "refused" PROVE HasRow(m)' \/ m \in missed' \/ Coming(m)'
    BY DEF RowOrLine
  <2>1. CASE m = n
    BY <1>4, <2>1 DEF HasRow
  <2>2. CASE m # n
    <3>1. HasRow(m) \/ m \in missed \/ Coming(m)
      BY <1>0 DEF RowInv, RowOrLine
    <3>2. Coming(m) => Coming(m)'
      BY <1>0, <2>2 DEF Coming, RefusedAt, n
    <3>3. HasRow(m) => HasRow(m)'
      BY <1>4, <2>2 DEF HasRow
    <3> QED
      BY <1>4, <3>1, <3>2, <3>3
  <2> QED
    BY <2>1, <2>2
<1> QED
  BY <1>6, <1>7, <1>8, <1>9 DEF RowInv

\* The place is not saved past a line whose row is waited for.
LEMMA PlaceSaved ==
  ASSUME Typed, RowInv, place' = Held \/ place' = place
  PROVE  place' \in Nat /\ place' <= pos /\ \A w \in recover : w.line \in Nat /\ place' <= w.line
<1>1. /\ pos \in Nat /\ place \in Nat
      /\ \A w \in recover : w.start \in Nat /\ w.line \in Nat /\ w.start <= w.line
  BY DEF Typed, TailerOk, StoreOk, LogOk, WaitType
<1>2. CASE place' = Held
  BY <1>1, <1>2, HeldPlace
<1>3. CASE place' = place
  BY <1>1, <1>3 DEF RowInv, PlaceWasRead, WaitsForALine
<1> QED
  BY <1>2, <1>3

LEMMA RowPassEnds == ASSUME Typed, RowInv, PassEnds PROVE RowInv'
<1>1. /\ place' = Held \/ place' = place
      /\ UNCHANGED <<log, msg, buffer, row, recover, late, missed, pos, up>> /\ up
  BY DEF PassEnds, Saves, outside
<1>2. place' <= pos /\ \A w \in recover : place' <= w.line
  BY <1>1, PlaceSaved
<1>3. NothingBefore' /\ OneOfEach' /\ RowOrLine'
  BY <1>1 DEF RowInv, NothingBefore, OneOfEach, RowOrLine, InBuffer, RefusedAt, HasRow, Coming
<1>4. WaitsForALine' /\ PlaceWasRead'
  BY <1>1, <1>2 DEF RowInv, WaitsForALine, PlaceWasRead, RefusedAt
<1> QED
  BY <1>3, <1>4 DEF RowInv

\* A stop or a kill: the tailer goes on before the line of every row waited for.
LEMMA RowGoes == ASSUME Typed, RowInv, [Next]_vars, Stops \/ Dies PROVE RowInv'
<1>0. /\ Len(log) \in Nat /\ Len(log') \in Nat /\ Len(log) <= Len(log') /\ msg \in [Msg -> MsgState]
      /\ pos \in Nat
  BY LogOnlyGrows DEF Typed, TailerOk, LogOk, OutsideOk
<1>1. /\ place' = Held \/ place' = place
      /\ pos' = place' /\ recover' = {} /\ buffer' = <<>> /\ up' = FALSE
      /\ msg' = [m \in Msg |-> IF m \in Cut THEN "done" ELSE msg[m]]
      /\ UNCHANGED <<row, late, missed>>
  BY DEF Stops, Dies, Goes, Saves, Cut
<1>2. place' \in Nat /\ place' <= pos /\ \A w \in recover : w.line \in Nat /\ place' <= w.line
  BY <1>1, PlaceSaved
<1>3. \A m \in Msg : ~ InBuffer(m)'
  BY <1>1 DEF InBuffer
<1>4. \A m \in Msg : msg'[m] = msg[m] \/ (msg[m] \in {"open", "answer"} /\ msg'[m] = "done")
  BY <1>0, <1>1 DEF Cut
<1>5. ASSUME NEW m \in Msg, NEW i \in 1 .. Len(log'), RefusedAt(m, i)' PROVE RefusedAt(m, i)
  <2>1. ~ Answers(m)
    BY <1>0, <1>4 DEF Answers
  <2> QED
    BY <1>0, <1>5, <2>1, RefusedLines
<1>6. NothingBefore'
  <2> SUFFICES ASSUME NEW m \in Msg
               PROVE  /\ msg'[m] \in {"new", "open"} => ~ InBuffer(m)' /\ row'[m].own = 0 /\ row'[m].recovered = 0
                      /\ msg'[m] # "refused" => \A i \in 1 .. Len(log') : ~ RefusedAt(m, i)'
    BY DEF NothingBefore, RefusedAt
  <2>1. msg'[m] \in {"new", "open"} => msg[m] \in {"new", "open"}
    BY <1>4
  <2>2. msg'[m] # "refused" => msg[m] # "refused"
    BY <1>4
  <2> QED
    BY <1>1, <1>3, <1>5, <2>1, <2>2 DEF RowInv, NothingBefore, RefusedAt
<1>7. WaitsForALine' /\ PlaceWasRead'
  BY <1>1, <1>2 DEF WaitsForALine, PlaceWasRead
<1>8. OneOfEach'
  BY <1>1, <1>3 DEF RowInv, OneOfEach
<1>9. RowOrLine'
  <2> SUFFICES ASSUME NEW m \in Msg, msg'[m] = "refused" PROVE HasRow(m)' \/ m \in missed' \/ Coming(m)'
    BY DEF RowOrLine
  <2>1. HasRow(m) \/ m \in missed \/ Coming(m)
    BY <1>4 DEF RowInv, RowOrLine
  <2>2. CASE HasRow(m) \/ m \in missed
    BY <1>1, <2>2 DEF HasRow
  <2>3. ASSUME NEW i \in 1 .. Len(log), RefusedAt(m, i), i > pos \/ \E w \in recover : w.of = m /\ w.line + 1 = i
        PROVE  Coming(m)'
    <3>1. i > pos'
      BY <1>0, <1>1, <1>2, <2>3
    <3>2. RefusedAt(m, i)' /\ i \in 1 .. Len(log')
      BY <1>0, <2>3, RefusedLines
    <3> QED
      BY <3>1, <3>2 DEF Coming
  <2> QED
    BY <2>1, <2>2, <2>3 DEF Coming
<1> QED
  BY <1>6, <1>7, <1>8, <1>9 DEF RowInv

LEMMA RowInit == ASSUME Init PROVE RowInv
<1>1. /\ log = <<>> /\ buffer = <<>> /\ recover = {} /\ place = 0 /\ pos = 0 /\ up = TRUE
      /\ \A m \in Msg : msg[m] = "new" /\ row[m] = NoRow
  BY DEF Init
<1>2. NoRow.own = 0 /\ NoRow.recovered = 0
  BY DEF NoRow
<1>3. NothingBefore /\ OneOfEach
  BY <1>1, <1>2 DEF NothingBefore, OneOfEach, InBuffer, RefusedAt
<1>4. WaitsForALine /\ PlaceWasRead /\ RowOrLine
  BY <1>1 DEF WaitsForALine, PlaceWasRead, RowOrLine
<1> QED
  BY <1>3, <1>4 DEF RowInv

Apart ==
    /\ UNCHANGED <<msg, buffer, row, place, recover, late>>
    /\ missed \subseteq missed' /\ NotTheirLine /\ (up \/ pos' = pos) /\ (~ up' => ~ up)

\* What goes on apart from refused messages.
LEMMA ApartSteps ==
  ASSUME Typed
  PROVE  /\ \A m \in Msg : Judges(m) => Apart
         /\ \A t \in Contents : Panel(t) => Apart
         /\ \A p \in Pid, c \in Conn : TurnsAway(p, c) => Apart
         /\ \A p \in Pid : WarnsAgain(p) \/ ClientLeaves(p) => Apart
         /\ \A r \in Refusal, t \in Texts : MailRefused(r, t) => Apart
         /\ HandleClient \/ HandleMail \/ HandleConnect \/ HandleWarning \/ HandleBroken => Apart
         /\ \A p \in pending : Retries(p) => Apart
         /\ Starts => Apart
         /\ UNCHANGED vars => Apart
<1> USE DEF Apart, NotTheirLine, store, tailer, seen, outside
<1>1. \A m \in Msg : Judges(m) => Apart
  BY DEF Judges
<1>2. \A t \in Contents : Panel(t) => Apart
  BY DEF Panel
<1>3. \A p \in Pid, c \in Conn : TurnsAway(p, c) => Apart
  BY DEF TurnsAway
<1>4. \A p \in Pid : WarnsAgain(p) \/ ClientLeaves(p) => Apart
  BY DEF WarnsAgain, ClientLeaves
<1>5. \A r \in Refusal, t \in Texts : MailRefused(r, t) => Apart
  BY DEF MailRefused
<1>6. \A x : AttachOrFail(x) => missed \subseteq missed'
  BY DEF AttachOrFail
<1>7. \A x : Counts(x) => missed \subseteq missed'
  BY DEF Counts, Adds
<1>8. HandleClient \/ HandleConnect => Apart
  BY DEF HandleClient, HandleConnect, Handled, Next1
<1>9. HandleMail => Apart
  BY <1>6 DEF HandleMail, Handled, Next1
<1>10. HandleWarning \/ HandleBroken => Apart
  BY <1>7 DEF HandleWarning, HandleBroken, Handled, Next1
<1>11. \A p \in pending : Retries(p) => Apart
  BY <1>6 DEF Retries
<1>12. Starts => Apart
  BY DEF Starts
<1>13. UNCHANGED vars => Apart
  BY DEF vars
<1> QED
  BY <1>1, <1>2, <1>3, <1>4, <1>5, <1>8, <1>9, <1>10, <1>11, <1>12, <1>13

LEMMA RowStep == ASSUME Typed, RowInv, [Next]_vars PROVE RowInv'
<1>1. ASSUME Apart PROVE RowInv'
  BY <1>1, RowElsewhere DEF Apart
<1>2. ASSUME NEW m \in Msg, Opens(m) \/ Answers(m) \/ LetsGo(m) PROVE RowInv'
  BY <1>2, RowClient
<1>3. ASSUME NEW m \in Msg, Refuses(m) PROVE RowInv'
  BY <1>3, RowRefuses
<1>4. CASE Tailer
  <2>1. CASE HandleRefused
    BY <2>1, RowHandleRefused
  <2>2. CASE \E w \in recover : Recovers(w)
    BY <2>2, RowRecovers
  <2>3. CASE PassEnds
    BY <2>3, RowPassEnds
  <2>4. CASE HandleClient \/ HandleMail \/ HandleConnect \/ HandleWarning \/ HandleBroken
    BY <2>4, <1>1, ApartSteps
  <2>5. CASE \E p \in pending : Retries(p)
    BY <2>5, <1>1, ApartSteps
  <2> QED
    BY <1>4, <2>1, <2>2, <2>3, <2>4, <2>5 DEF Tailer
<1>5. CASE Stops \/ Dies
  BY <1>5, RowGoes
<1>6. CASE Writes
  BY <1>6, RowWrites
<1>7. CASE UNCHANGED vars
  BY <1>1, <1>7, ApartSteps
<1>8. CASE Next
  <2>1. CASE \E m \in Msg : Judges(m)
    BY <2>1, <1>1, ApartSteps
  <2>2. CASE \E t \in Contents : Panel(t)
    BY <2>2, <1>1, ApartSteps
  <2>3. CASE \E p \in Pid : (\E c \in Conn : TurnsAway(p, c)) \/ WarnsAgain(p) \/ ClientLeaves(p)
    BY <2>3, <1>1, ApartSteps
  <2>4. CASE \E r \in Refusal, t \in Texts : MailRefused(r, t)
    BY <2>4, <1>1, ApartSteps
  <2>5. CASE Starts
    BY <2>5, <1>1, ApartSteps
  <2> QED
    BY <1>2, <1>3, <1>4, <1>5, <1>6, <1>8, <2>1, <2>2, <2>3, <2>4, <2>5 DEF Next
<1> QED
  BY <1>7, <1>8

LEMMA RowsAlways == Spec => []RowInv
<1>1. Typed /\ RowInv /\ [Next]_vars => RowInv'
  BY RowStep
<1> QED
  BY <1>1, AlwaysTyped, RowInit, PTL DEF Spec

\* Once the log is read, a message refused to its client has one row in the send
\* log, whatever the buffer lost in a stop or for want of room and however often
\* its lines were read; a second one only if the panel wrote its own after the
\* tailer's wait, none only if the store failed (record, RecoverRefusal, oldest).
THEOREM RefusalAlwaysHasItsRow == Spec => []RefusalHasItsRow
<1>1. ASSUME Typed, RowInv PROVE RefusalHasItsRow
  <2> SUFFICES ASSUME AllRead, NEW m \in Msg, msg[m] = "refused"
               PROVE  row[m].own + row[m].recovered \in
                         (IF m \in missed THEN 0 ELSE 1) .. (IF m \in late THEN 2 ELSE 1)
    BY DEF RefusalHasItsRow
  <2>1. row[m].own \in Nat /\ row[m].recovered \in Nat
    BY <1>1 DEF Typed, StoreOk, RowType
  <2>2. pos = Len(log) /\ recover = {} /\ Len(log) \in Nat
    BY <1>1 DEF AllRead, Typed, LogOk
  <2>3. ~ Coming(m)
    BY <2>2 DEF Coming
  <2>4. row[m].own + row[m].recovered >= 1 \/ m \in missed
    BY <1>1, <2>3 DEF RowInv, RowOrLine, HasRow
  <2>5. /\ row[m].own <= 1 /\ row[m].recovered <= 1
        /\ row[m].recovered = 1 /\ row[m].own = 1 => m \in late
    BY <1>1 DEF RowInv, OneOfEach
  <2> QED
    BY <2>1, <2>4, <2>5
<1>2. Typed /\ RowInv => RefusalHasItsRow
  BY <1>1
<1> QED
  BY <1>2, AlwaysTyped, RowsAlways, PTL

-----------------------------------------------------------------------------
(* The lines about the clients turned away.                                *)

\* A warning, by its fields.
LEMMA WarnedFields ==
  ASSUME LogOk
  PROVE  \A c \in Conn, p \in Pid, i \in 1 .. Len(log) :
            Warned(c, p, i) <=> log[i].kind = "warning" /\ log[i].of = c /\ log[i].by = p
BY DEF LogOk, LineOk, LineType, Line, Warned

\* Steps that leave the connections' lines alone.
NoNewLine == \A i \in Len(log) + 1 .. Len(log') : log'[i].kind \in {"client", "refused", "mail", "broken"}

LEMMA ConnectionsElsewhere ==
  ASSUME Typed, LinesOk, [Next]_vars, NoNewLine,
         \A p \in Pid : smtpd'[p] \in {0, smtpd[p]}
  PROVE  OneProcess' /\ NoWarningAfter' /\ OneClientBetween' /\ AtMostTwo'
<1>0. /\ Len(log) \in Nat /\ Len(log') \in Nat /\ Len(log) <= Len(log')
      /\ \A i \in 1 .. Len(log) : log'[i] = log[i]
      /\ LogOk /\ LogOk'
  BY LogOnlyGrows DEF Typed
<1>1. \A i \in 1 .. Len(log') : i \in 1 .. Len(log) \/ log'[i].kind \in {"client", "refused", "mail", "broken"}
  BY <1>0 DEF NoNewLine
<1>2. \A c \in Conn, p \in Pid, i \in 1 .. Len(log') : Warned(c, p, i)' => i \in 1 .. Len(log) /\ Warned(c, p, i)
  BY <1>0, <1>1 DEF Warned, Line
<1>3. \A c \in Conn, p \in Pid, i \in 1 .. Len(log) : Warned(c, p, i) => i \in 1 .. Len(log') /\ Warned(c, p, i)'
  BY <1>0 DEF Warned
<1>4. \A k \in OfClient, p \in Pid, i \in 1 .. Len(log') : By(k, p, i)' => i \in 1 .. Len(log) /\ By(k, p, i)
  BY <1>0, <1>1 DEF By, OfClient
<1>5. \A k \in OfClient, p \in Pid, i \in 1 .. Len(log) : By(k, p, i) => i \in 1 .. Len(log') /\ By(k, p, i)'
  BY <1>0 DEF By
<1>7. smtpd \in [Pid -> Conn \cup {0}]
  BY DEF Typed, OutsideOk
<1>8. OneProcess'
  <2>1. \A c \in Conn, p, q \in Pid, i, j \in 1 .. Len(log') : Warned(c, p, i)' /\ Warned(c, q, j)' => p = q
    BY <1>2 DEF LinesOk, OneProcess
  <2>2. ASSUME NEW p \in Pid, smtpd'[p] # 0 PROVE \E i \in 1 .. Len(log') : Warned(smtpd[p], p, i)'
    <3>1. smtpd[p] # 0 /\ smtpd'[p] = smtpd[p] /\ smtpd[p] \in Conn
      BY <1>7, <2>2
    <3>2. PICK i \in 1 .. Len(log) : Warned(smtpd[p], p, i)
      BY <3>1 DEF LinesOk, OneProcess
    <3> QED
      BY <1>0, <3>1, <3>2 DEF Warned
  <2> QED
    BY <2>1, <2>2 DEF OneProcess, Warned
<1>9. NoWarningAfter'
  <2> SUFFICES ASSUME NEW c \in Conn, NEW p \in Pid, NEW f \in 1 .. Len(log'), NEW x \in 1 .. Len(log'),
                      Warned(c, p, f)', By("connect", p, x)', f < x
               PROVE  smtpd'[p] # c /\ \A i \in 1 .. Len(log') : Warned(c, p, i)' => i < x
    BY DEF NoWarningAfter, Warned, By
  <2>1. f \in 1 .. Len(log) /\ x \in 1 .. Len(log) /\ Warned(c, p, f) /\ By("connect", p, x)
    BY <1>2, <1>4 DEF OfClient
  <2>2. smtpd[p] # c /\ \A i \in 1 .. Len(log) : Warned(c, p, i) => i < x
    BY <2>1 DEF LinesOk, NoWarningAfter
  <2> QED
    BY <1>2, <2>2, CheckKinds
<1>10. OneClientBetween'
  <2> SUFFICES ASSUME NEW p \in Pid, NEW f \in 1 .. Len(log'), By("warning", p, f)'
               PROVE  /\ \A g \in 1 .. Len(log') : By("warning", p, g)' /\ f < g /\ log'[f].of # log'[g].of =>
                            \E x \in f .. g : By("connect", p, x)'
                      /\ smtpd'[p] \notin {0, log'[f].of} => \E x \in f .. Len(log') : By("connect", p, x)'
    BY DEF OneClientBetween, By
  <2>1. f \in 1 .. Len(log) /\ By("warning", p, f) /\ log'[f] = log[f]
    BY <1>0, <1>4 DEF OfClient
  <2>2. ASSUME NEW g \in 1 .. Len(log'), By("warning", p, g)', f < g, log'[f].of # log'[g].of
        PROVE  \E x \in f .. g : By("connect", p, x)'
    <3>1. g \in 1 .. Len(log) /\ By("warning", p, g) /\ log'[g] = log[g]
      BY <1>0, <1>4, <2>2 DEF OfClient
    <3>2. PICK x \in f .. g : By("connect", p, x)
      BY <2>1, <2>2, <3>1 DEF LinesOk, OneClientBetween
    <3>3. x \in 1 .. Len(log)
      BY <3>2 DEF By
    <3> QED
      BY <1>5, <3>2, <3>3 DEF OfClient
  <2>3. ASSUME smtpd'[p] \notin {0, log'[f].of} PROVE \E x \in f .. Len(log') : By("connect", p, x)'
    <3>1. smtpd[p] \notin {0, log[f].of}
      BY <2>1, <2>3
    <3>2. PICK x \in f .. Len(log) : By("connect", p, x)
      BY <2>1, <3>1 DEF LinesOk, OneClientBetween
    <3>3. x \in 1 .. Len(log) /\ x \in f .. Len(log')
      BY <1>0, <3>2 DEF By
    <3> QED
      BY <1>5, <3>2, <3>3 DEF OfClient
  <2> QED
    BY <2>2, <2>3
<1>11. AtMostTwo'
  <2> SUFFICES ASSUME NEW c \in Conn, NEW p \in Pid,
                      NEW f \in 1 .. Len(log'), NEW g \in 1 .. Len(log'), NEW h \in 1 .. Len(log'),
                      Warned(c, p, f)', Warned(c, p, g)', Warned(c, p, h)', f < g, g < h
               PROVE  FALSE
    BY DEF AtMostTwo, Warned
  <2> QED
    BY <1>2 DEF LinesOk, AtMostTwo
<1> QED
  BY <1>8, <1>9, <1>10, <1>11

\* And no message is cut short.
LEMMA LinesElsewhere ==
  ASSUME Typed, LinesOk, [Next]_vars, NoNewLine,
         \A i \in Len(log) + 1 .. Len(log') : log'[i].kind # "broken",
         \A p \in Pid : smtpd'[p] \in {0, smtpd[p]},
         \A m \in Msg : msg'[m] # "done" => msg[m] # "done"
  PROVE  LinesOk'
<1>1. /\ Len(log) \in Nat /\ Len(log') \in Nat /\ Len(log) <= Len(log')
      /\ \A i \in 1 .. Len(log) : log'[i] = log[i]
  BY LogOnlyGrows
<1>2. \A m \in Msg, i \in 1 .. Len(log') : Of("broken", m, i)' => i \in 1 .. Len(log) /\ Of("broken", m, i)
  BY <1>1 DEF Of
<1>3. CutOnce'
  <2> SUFFICES ASSUME NEW m \in Msg
               PROVE  /\ \A i, j \in 1 .. Len(log') : Of("broken", m, i)' /\ Of("broken", m, j)' => i = j
                      /\ msg'[m] # "done" => \A i \in 1 .. Len(log') : ~ Of("broken", m, i)'
    BY DEF CutOnce, Of
  <2> QED
    BY <1>2 DEF LinesOk, CutOnce
<1> QED
  BY <1>3, ConnectionsElsewhere DEF LinesOk

\* A second warning about the connection a process has.
LEMMA LinesWarnedAgain == ASSUME Typed, LinesOk, [Next]_vars, NEW d \in Pid, WarnsAgain(d) PROVE LinesOk'
<1> DEFINE e == smtpd[d]
<1>0. /\ LogOk /\ e \in Conn /\ UNCHANGED <<smtpd, msg>> /\ smtpd[d] # 0
      /\ log' = Append(log, Line("warning", e, d)) /\ LineOk(Line("warning", e, d))
  BY OneLineSteps DEF Typed, WarnsAgain, outside
<1>1. PICK n \in Nat : n = Len(log) + 1
  BY LogOnlyGrows
<1>2. /\ LogOk' /\ Len(log) \in Nat /\ Len(log') = n /\ log'[n] = Line("warning", e, d)
      /\ \A i \in 1 .. Len(log) : log'[i] = log[i]
  BY <1>0, <1>1, OneLineMore
<1>3. \A i \in 1 .. Len(log') : i \in 1 .. Len(log) \/ i = n
  BY <1>1, <1>2
<1>4. \A i, j \in 1 .. Len(log) : Warned(e, d, i) /\ Warned(e, d, j) => i = j
  <2> DEFINE S == {i \in DOMAIN log : log[i] = Line("warning", e, d)}
  <2>1. Cardinality(S) = 1
    BY DEF WarnsAgain
  <2>2. IsFiniteSet(1 .. Len(log))
    <3>1. 1 \in Int /\ Len(log) \in Int
      BY <1>2
    <3> QED
      BY <3>1, FS_Interval, Zenon
  <2>3. DOMAIN log = 1 .. Len(log)
    BY <1>0 DEF LogOk
  <2>4. S \in SUBSET (1 .. Len(log))
    <3>1. S \subseteq DOMAIN log
      OBVIOUS
    <3> QED
      BY <2>3, <3>1, Zenon
  <2>5. IsFiniteSet(S)
    BY <2>2, <2>4, FS_Subset, Zenon
  <2>6. \A i \in 1 .. Len(log) : Warned(e, d, i) => i \in S
    BY <2>3 DEF Warned
  <2> HIDE DEF S
  <2>7. \E x : S = {x}
    BY <2>1, <2>5, FS_Singleton, Zenon
  <2> QED
    BY <2>6, <2>7
<1>5. \E i \in 1 .. Len(log) : Warned(e, d, i)
  BY <1>0 DEF LinesOk, OneProcess
<1> HIDE DEF e
<1>6. \A c \in Conn, p \in Pid, i \in 1 .. Len(log') :
         Warned(c, p, i)' => (i \in 1 .. Len(log) /\ Warned(c, p, i)) \/ (i = n /\ c = e /\ p = d)
  BY <1>2, <1>3 DEF Warned, Line
<1>7. \A c \in Conn, p \in Pid, i \in 1 .. Len(log) : Warned(c, p, i) => i \in 1 .. Len(log') /\ Warned(c, p, i)'
  BY <1>1, <1>2 DEF Warned
<1>8. \A p \in Pid, i \in 1 .. Len(log') : By("connect", p, i)' => i \in 1 .. Len(log) /\ By("connect", p, i)
  BY <1>2, <1>3 DEF By, Line
<1>9. \A p \in Pid, i \in 1 .. Len(log) : By("connect", p, i) => i \in 1 .. Len(log') /\ By("connect", p, i)'
  BY <1>1, <1>2 DEF By
<1>10. smtpd'[d] = e /\ e # 0
  BY <1>0 DEF e
<1>11. OneProcess'
  <2>1. \A c \in Conn, p, q \in Pid, i, j \in 1 .. Len(log') : Warned(c, p, i)' /\ Warned(c, q, j)' => p = q
    BY <1>5, <1>6, <1>0 DEF LinesOk, OneProcess
  <2>2. ASSUME NEW p \in Pid, smtpd'[p] # 0 PROVE \E i \in 1 .. Len(log') : Warned(smtpd[p], p, i)'
    <3>1. smtpd[p] \in Conn /\ smtpd[p] # 0
      BY <1>0, <2>2 DEF Typed, OutsideOk
    <3>2. PICK i \in 1 .. Len(log) : Warned(smtpd[p], p, i)
      BY <3>1 DEF LinesOk, OneProcess
    <3> QED
      BY <1>0, <1>1, <1>2, <3>1, <3>2 DEF Warned
  <2> QED
    BY <1>0, <2>1, <2>2 DEF OneProcess, Warned
<1>12. NoWarningAfter'
  <2> SUFFICES ASSUME NEW c \in Conn, NEW p \in Pid, NEW f \in 1 .. Len(log'), NEW x \in 1 .. Len(log'),
                      Warned(c, p, f)', By("connect", p, x)', f < x
               PROVE  smtpd'[p] # c /\ \A i \in 1 .. Len(log') : Warned(c, p, i)' => i < x
    BY DEF NoWarningAfter, Warned, By
  <2>1. x \in 1 .. Len(log) /\ By("connect", p, x) /\ f \in 1 .. Len(log) /\ Warned(c, p, f)
    BY <1>1, <1>2, <1>6, <1>8
  <2>2. smtpd[p] # c /\ \A i \in 1 .. Len(log) : Warned(c, p, i) => i < x
    BY <2>1 DEF LinesOk, NoWarningAfter
  <2>3. ~ (c = e /\ p = d)
    BY <1>0, <1>10, <2>2
  <2> QED
    BY <1>0, <1>6, <2>2, <2>3
<1>13. OneClientBetween'
  <2> SUFFICES ASSUME NEW p \in Pid, NEW f \in 1 .. Len(log'), By("warning", p, f)'
               PROVE  /\ \A g \in 1 .. Len(log') : By("warning", p, g)' /\ f < g /\ log'[f].of # log'[g].of =>
                            \E x \in f .. g : By("connect", p, x)'
                      /\ smtpd'[p] \notin {0, log'[f].of} => \E x \in f .. Len(log') : By("connect", p, x)'
    BY DEF OneClientBetween, By
  <2>1. CASE f = n
    <3>1. p = d /\ log'[f].of = e
      BY <1>2, <2>1 DEF By, Line
    <3> QED
      BY <1>1, <1>2, <1>10, <2>1, <3>1
  <2>2. CASE f \in 1 .. Len(log)
    <3>1. By("warning", p, f) /\ log'[f] = log[f]
      BY <1>2, <2>2 DEF By
    <3>2. smtpd[p] \notin {0, log[f].of} => \E x \in f .. Len(log) : By("connect", p, x)
      BY <2>2, <3>1 DEF LinesOk, OneClientBetween
    <3>3. \A x \in f .. Len(log) : x \in 1 .. Len(log) /\ x \in f .. Len(log') /\ x \in f .. n
      BY <1>1, <1>2, <2>2
    <3>4. smtpd'[p] \notin {0, log'[f].of} => \E x \in f .. Len(log') : By("connect", p, x)'
      BY <1>0, <1>9, <3>1, <3>2, <3>3
    <3>5. ASSUME NEW g \in 1 .. Len(log'), By("warning", p, g)', f < g, log'[f].of # log'[g].of
          PROVE  \E x \in f .. g : By("connect", p, x)'
      <4>1. CASE g = n
        <5>1. p = d /\ log'[g].of = e
          BY <1>2, <3>5, <4>1 DEF By, Line
        <5>2. smtpd[p] \notin {0, log[f].of}
          BY <1>0, <1>10, <3>1, <3>5, <5>1
        <5> QED
          BY <1>9, <3>2, <3>3, <4>1, <5>2
      <4>2. CASE g \in 1 .. Len(log)
        <5>1. By("warning", p, g) /\ log'[g] = log[g]
          BY <1>2, <3>5, <4>2 DEF By
        <5>2. \E x \in f .. g : By("connect", p, x)
          BY <2>2, <3>1, <3>5, <4>2, <5>1 DEF LinesOk, OneClientBetween
        <5> QED
          BY <1>9, <5>2 DEF By
      <4> QED
        BY <1>3, <4>1, <4>2
    <3> QED
      BY <3>4, <3>5
  <2> QED
    BY <1>3, <2>1, <2>2
<1>14. AtMostTwo'
  <2> SUFFICES ASSUME NEW c \in Conn, NEW p \in Pid,
                      NEW f \in 1 .. Len(log'), NEW g \in 1 .. Len(log'), NEW h \in 1 .. Len(log'),
                      Warned(c, p, f)', Warned(c, p, g)', Warned(c, p, h)', f < g, g < h
               PROVE  FALSE
    BY DEF AtMostTwo, Warned
  <2>1. /\ f \in 1 .. Len(log) /\ Warned(c, p, f) /\ g \in 1 .. Len(log) /\ Warned(c, p, g)
        /\ (h \in 1 .. Len(log) /\ Warned(c, p, h)) \/ (c = e /\ p = d)
    BY <1>1, <1>2, <1>6
  <2> QED
    BY <1>4, <2>1 DEF LinesOk, AtMostTwo
<1>15. CutOnce'
  <2>1. \A m \in Msg, i \in 1 .. Len(log') : Of("broken", m, i)' => i \in 1 .. Len(log) /\ Of("broken", m, i)
    BY <1>2, <1>3 DEF Of, Line
  <2> SUFFICES ASSUME NEW m \in Msg
               PROVE  /\ \A i, j \in 1 .. Len(log') : Of("broken", m, i)' /\ Of("broken", m, j)' => i = j
                      /\ msg'[m] # "done" => \A i \in 1 .. Len(log') : ~ Of("broken", m, i)'
    BY DEF CutOnce, Of
  <2> QED
    BY <1>0, <2>1 DEF LinesOk, CutOnce
<1> QED
  BY <1>11, <1>12, <1>13, <1>14, <1>15 DEF LinesOk

\* A client turned away: its connect line and its first warning.
LEMMA LinesTurnedAway ==
  ASSUME Typed, LinesOk, [Next]_vars, NEW d \in Pid, NEW e \in Conn, TurnsAway(d, e)
  PROVE  LinesOk'
<1>0. /\ LogOk /\ smtpd \in [Pid -> Conn \cup {0}] /\ smtpd' = [smtpd EXCEPT ![d] = e] /\ smtpd[d] = 0
      /\ UNCHANGED msg /\ e # 0
      /\ \A i \in 1 .. Len(log) : log[i].of # e
      /\ log' = log \o <<Line("connect", e, d), Line("warning", e, d)>>
  BY CheckKinds DEF Typed, LogOk, OutsideOk, TurnsAway
<1>1. PICK x0 \in Nat, n \in Nat : x0 = Len(log) + 1 /\ n = Len(log) + 2
  BY LogOnlyGrows
<1>2. /\ LogOk' /\ Len(log) \in Nat /\ Len(log') = n
      /\ log'[x0] = Line("connect", e, d) /\ log'[n] = Line("warning", e, d)
      /\ \A i \in 1 .. Len(log) : log'[i] = log[i]
  BY <1>0, <1>1, TurnedAwayLines
<1>3. \A i \in 1 .. Len(log') : i \in 1 .. Len(log) \/ i = x0 \/ i = n
  BY <1>1, <1>2
<1>4. \A p \in Pid, i \in 1 .. Len(log) : ~ Warned(e, p, i)
  BY <1>0 DEF Warned, Line
<1>5. \A c \in Conn, p \in Pid, i \in 1 .. Len(log') :
         Warned(c, p, i)' => (i \in 1 .. Len(log) /\ Warned(c, p, i) /\ c # e) \/ (i = n /\ c = e /\ p = d)
  BY <1>2, <1>3, <1>4 DEF Warned, Line
<1>6. \A c \in Conn, p \in Pid, i \in 1 .. Len(log) : Warned(c, p, i) => i \in 1 .. Len(log') /\ Warned(c, p, i)'
  BY <1>1, <1>2 DEF Warned
<1>7. \A p \in Pid, i \in 1 .. Len(log') :
         By("connect", p, i)' => (i \in 1 .. Len(log) /\ By("connect", p, i)) \/ (i = x0 /\ p = d)
  BY <1>2, <1>3 DEF By, Line
<1>8. /\ \A p \in Pid, i \in 1 .. Len(log) : By("connect", p, i) => i \in 1 .. Len(log') /\ By("connect", p, i)'
      /\ By("connect", d, x0)' /\ x0 \in 1 .. Len(log')
  BY <1>1, <1>2 DEF By, Line
<1>9. Warned(e, d, n)' /\ n \in 1 .. Len(log')
  BY <1>1, <1>2 DEF Warned
<1>10. OneProcess'
  <2>1. \A c \in Conn, p, q \in Pid, i, j \in 1 .. Len(log') : Warned(c, p, i)' /\ Warned(c, q, j)' => p = q
    BY <1>5 DEF LinesOk, OneProcess
  <2>2. ASSUME NEW p \in Pid, smtpd'[p] # 0 PROVE \E i \in 1 .. Len(log') : log'[i] = Line("warning", smtpd'[p], p)
    <3>1. CASE p = d
      BY <1>0, <1>2, <1>9, <3>1
    <3>2. CASE p # d
      <4>1. smtpd[p] \in Conn /\ smtpd[p] # 0 /\ smtpd'[p] = smtpd[p]
        BY <1>0, <2>2, <3>2
      <4>2. PICK i \in 1 .. Len(log) : Warned(smtpd[p], p, i)
        BY <4>1 DEF LinesOk, OneProcess
      <4> QED
        BY <1>1, <1>2, <4>1, <4>2 DEF Warned
    <3> QED
      BY <3>1, <3>2
  <2> QED
    BY <2>1, <2>2 DEF OneProcess, Warned
<1>11. NoWarningAfter'
  <2> SUFFICES ASSUME NEW c \in Conn, NEW p \in Pid, NEW f \in 1 .. Len(log'), NEW x \in 1 .. Len(log'),
                      Warned(c, p, f)', By("connect", p, x)', f < x
               PROVE  smtpd'[p] # c /\ \A i \in 1 .. Len(log') : Warned(c, p, i)' => i < x
    BY DEF NoWarningAfter, Warned, By
  <2>1. f # n /\ f \in 1 .. Len(log) /\ Warned(c, p, f) /\ c # e
    BY <1>1, <1>2, <1>5
  <2>2. \A i \in 1 .. Len(log') : Warned(c, p, i)' => i \in 1 .. Len(log) /\ Warned(c, p, i)
    BY <1>5, <2>1
  <2>3. CASE x \in 1 .. Len(log) /\ By("connect", p, x)
    <3>1. smtpd[p] # c /\ \A i \in 1 .. Len(log) : Warned(c, p, i) => i < x
      BY <2>1, <2>3 DEF LinesOk, NoWarningAfter
    <3> QED
      BY <1>0, <2>1, <2>2, <3>1
  <2>4. CASE x = x0 /\ p = d
    BY <1>0, <1>1, <1>2, <2>1, <2>2, <2>4
  <2> QED
    BY <1>7, <2>3, <2>4
<1>12. OneClientBetween'
  <2> SUFFICES ASSUME NEW p \in Pid, NEW f \in 1 .. Len(log'), By("warning", p, f)'
               PROVE  /\ \A g \in 1 .. Len(log') : By("warning", p, g)' /\ f < g /\ log'[f].of # log'[g].of =>
                            \E x \in f .. g : By("connect", p, x)'
                      /\ smtpd'[p] \notin {0, log'[f].of} => \E x \in f .. Len(log') : By("connect", p, x)'
    BY DEF OneClientBetween, By
  <2>1. CASE f = n
    <3>1. p = d /\ log'[f].of = e
      BY <1>2, <2>1 DEF By, Line
    <3> QED
      BY <1>0, <1>1, <1>2, <2>1, <3>1
  <2>2. CASE f \in 1 .. Len(log)
    <3>1. By("warning", p, f) /\ log'[f] = log[f] /\ x0 \in f .. n /\ x0 \in f .. Len(log')
      BY <1>1, <1>2, <2>2 DEF By
    <3>2. smtpd'[p] \notin {0, log'[f].of} => \E x \in f .. Len(log') : By("connect", p, x)'
      <4>1. CASE p = d
        BY <1>8, <3>1, <4>1
      <4>2. CASE p # d
        <5>1. smtpd[p] \notin {0, log[f].of} => \E x \in f .. Len(log) : By("connect", p, x)
          BY <2>2, <3>1 DEF LinesOk, OneClientBetween
        <5>2. \A x \in f .. Len(log) : x \in 1 .. Len(log) /\ x \in f .. Len(log')
          BY <1>1, <1>2, <2>2
        <5> QED
          BY <1>0, <1>8, <3>1, <4>2, <5>1, <5>2
      <4> QED
        BY <4>1, <4>2
    <3>3. ASSUME NEW g \in 1 .. Len(log'), By("warning", p, g)', f < g, log'[f].of # log'[g].of
          PROVE  \E x \in f .. g : By("connect", p, x)'
      <4>1. CASE g = n
        <5>1. p = d
          BY <1>2, <3>3, <4>1 DEF By, Line
        <5> QED
          BY <1>8, <3>1, <4>1, <5>1
      <4>2. CASE g = x0
        BY <1>2, <3>3, <4>2 DEF By, Line
      <4>3. CASE g \in 1 .. Len(log)
        <5>1. By("warning", p, g) /\ log'[g] = log[g]
          BY <1>2, <3>3, <4>3 DEF By
        <5>2. \E x \in f .. g : By("connect", p, x)
          BY <2>2, <3>1, <3>3, <4>3, <5>1 DEF LinesOk, OneClientBetween
        <5> QED
          BY <1>8, <5>2 DEF By
      <4> QED
        BY <1>3, <4>1, <4>2, <4>3
    <3> QED
      BY <3>2, <3>3
  <2>3. CASE f = x0
    BY <1>2, <2>3 DEF By, Line
  <2> QED
    BY <1>3, <2>1, <2>2, <2>3
<1>13. AtMostTwo'
  <2> SUFFICES ASSUME NEW c \in Conn, NEW p \in Pid,
                      NEW f \in 1 .. Len(log'), NEW g \in 1 .. Len(log'), NEW h \in 1 .. Len(log'),
                      Warned(c, p, f)', Warned(c, p, g)', Warned(c, p, h)', f < g, g < h
               PROVE  FALSE
    BY DEF AtMostTwo, Warned
  <2> QED
    BY <1>5 DEF LinesOk, AtMostTwo
<1>14. CutOnce'
  <2>1. \A m \in Msg, i \in 1 .. Len(log') : Of("broken", m, i)' => i \in 1 .. Len(log) /\ Of("broken", m, i)
    BY <1>2, <1>3 DEF Of, Line
  <2> SUFFICES ASSUME NEW m \in Msg
               PROVE  /\ \A i, j \in 1 .. Len(log') : Of("broken", m, i)' /\ Of("broken", m, j)' => i = j
                      /\ msg'[m] # "done" => \A i \in 1 .. Len(log') : ~ Of("broken", m, i)'
    BY DEF CutOnce, Of
  <2> QED
    BY <1>0, <2>1 DEF LinesOk, CutOnce
<1> QED
  BY <1>10, <1>11, <1>12, <1>13, <1>14 DEF LinesOk

\* A stop of the panel: a message cut short has its one line.
LEMMA LinesGoes == ASSUME Typed, LinesOk, [Next]_vars, Goes PROVE LinesOk'
<1>0. /\ LogOk /\ UNCHANGED smtpd /\ msg' = [m \in Msg |-> IF m \in Cut THEN "done" ELSE msg[m]]
      /\ \A m \in Cut : m \in Msg /\ msg[m] # "done"
  BY DEF Typed, Goes, Cut
<1>1. /\ Len(log) \in Nat /\ Len(log') \in Nat /\ Len(log) <= Len(log')
      /\ \A i \in 1 .. Len(log) : log'[i] = log[i]
      /\ \A i \in Len(log) + 1 .. Len(log') : \E m \in Cut : log'[i] = Line("broken", m, 0)
      /\ \A i, j \in Len(log) + 1 .. Len(log') : log'[i] = log'[j] => i = j
  BY <1>0, CutShortLines
<1>l. \A m \in Cut : Line("broken", m, 0).kind = "broken" /\ Line("broken", m, 0).of = m
  BY DEF Line
<1>n. \A i \in Len(log) + 1 .. Len(log') : log'[i].kind = "broken" /\ log'[i] = Line("broken", log'[i].of, 0)
                                         /\ log'[i].of \in Cut
  BY <1>1, <1>l
<1>i. \A i \in 1 .. Len(log') : i \in 1 .. Len(log) \/ i \in Len(log) + 1 .. Len(log')
  BY <1>1
<1>2. NoNewLine
  BY <1>n DEF NoNewLine
<1>3. \A m \in Msg, i \in 1 .. Len(log') : Of("broken", m, i)' =>
         \/ i \in 1 .. Len(log) /\ Of("broken", m, i)
         \/ i \in Len(log) + 1 .. Len(log') /\ m \in Cut /\ log'[i] = Line("broken", m, 0)
  BY <1>1, <1>n, <1>i DEF Of
<1>4. CutOnce'
  <2> SUFFICES ASSUME NEW m \in Msg
               PROVE  /\ \A i, j \in 1 .. Len(log') : Of("broken", m, i)' /\ Of("broken", m, j)' => i = j
                      /\ msg'[m] # "done" => \A i \in 1 .. Len(log') : ~ Of("broken", m, i)'
    BY DEF CutOnce, Of
  <2>1. CASE m \in Cut
    <3>1. msg'[m] = "done" /\ \A i \in 1 .. Len(log) : ~ Of("broken", m, i)
      BY <1>0, <2>1 DEF LinesOk, CutOnce
    <3> QED
      BY <1>1, <1>3, <3>1
  <2>2. CASE m \notin Cut
    BY <1>0, <1>3, <2>2 DEF LinesOk, CutOnce
  <2> QED
    BY <2>1, <2>2
<1> QED
  BY <1>0, <1>2, <1>4, ConnectionsElsewhere DEF LinesOk

\* The steps that only add lines about mail.
LEMMA MailLines ==
  ASSUME Typed, [Next]_vars
  PROVE  /\ Silent \/ UNCHANGED vars => NoNewLine /\ \A i \in Len(log) + 1 .. Len(log') : log'[i].kind # "broken"
         /\ (\E m \in Msg : Opens(m) \/ Answers(m)) \/ (\E r \in Refusal, t \in Texts : MailRefused(r, t)) =>
               NoNewLine /\ \A i \in Len(log) + 1 .. Len(log') : log'[i].kind # "broken"
<1>0. LogOk /\ Len(log) \in Nat
  BY DEF Typed, LogOk
<1>1. ASSUME log' = log PROVE NoNewLine /\ \A i \in Len(log) + 1 .. Len(log') : log'[i].kind # "broken"
  BY <1>0, <1>1 DEF NoNewLine
<1>2. ASSUME NEW l, LineOk(l), log' = Append(log, l), l.kind \in {"client", "refused", "mail"}
      PROVE  NoNewLine /\ \A i \in Len(log) + 1 .. Len(log') : log'[i].kind # "broken"
  <2>1. Len(log') = Len(log) + 1 /\ log'[Len(log) + 1] = l
    BY <1>0, <1>2, OneLineMore
  <2>2. \A i \in Len(log) + 1 .. Len(log') : i = Len(log) + 1
    BY <1>0, <2>1
  <2> QED
    BY <1>2, <2>1, <2>2 DEF NoNewLine
<1>3. ASSUME Silent \/ UNCHANGED vars PROVE log' = log
  BY <1>3, SilentStep DEF vars
<1>4. ASSUME NEW m \in Msg, Opens(m) \/ Answers(m)
      PROVE  NoNewLine /\ \A i \in Len(log) + 1 .. Len(log') : log'[i].kind # "broken"
  <2>1. CASE Opens(m)
    <3>1. LineOk(Line("client", m, 0)) /\ log' = Append(log, Line("client", m, 0)) /\ Line("client", m, 0).kind = "client"
      BY <2>1, OneLineSteps DEF Line
    <3> QED
      BY <1>2, <3>1
  <2>2. CASE Answers(m)
    <3>1. LineOk(Line("refused", m, 0)) /\ log' = Append(log, Line("refused", m, 0))
          /\ Line("refused", m, 0).kind = "refused"
      BY <2>2, OneLineSteps DEF Line
    <3> QED
      BY <1>2, <3>1
  <2> QED
    BY <1>4, <2>1, <2>2
<1>5. ASSUME NEW r \in Refusal, NEW t \in Texts, MailRefused(r, t)
      PROVE  NoNewLine /\ \A i \in Len(log) + 1 .. Len(log') : log'[i].kind # "broken"
  <2>1. LineOk(Line("mail", t, 0)) /\ log' = Append(log, Line("mail", t, 0)) /\ Line("mail", t, 0).kind = "mail"
    BY <1>5, OneLineSteps DEF Line
  <2> QED
    BY <1>2, <2>1
<1> QED
  BY <1>1, <1>3, <1>4, <1>5

\* What they do to processes and messages.
LEMMA OthersKeep ==
  ASSUME Typed
  PROVE  Silent \/ UNCHANGED vars \/ (\E m \in Msg : Opens(m) \/ Answers(m))
         \/ (\E r \in Refusal, t \in Texts : MailRefused(r, t)) =>
            /\ \A p \in Pid : smtpd'[p] \in {0, smtpd[p]}
            /\ \A m \in Msg : msg'[m] # "done" => msg[m] # "done"
<1> DEFINE K == /\ \A p \in Pid : smtpd'[p] \in {0, smtpd[p]}
                /\ \A m \in Msg : msg'[m] # "done" => msg[m] # "done"
<1>0. smtpd \in [Pid -> Conn \cup {0}] /\ msg \in [Msg -> MsgState]
  BY DEF Typed, OutsideOk
<1>1. ASSUME UNCHANGED OutsideVars PROVE K
  BY <1>1 DEF OutsideVars
<1>2. ASSUME NEW m \in Msg, Opens(m) \/ Answers(m) \/ Refuses(m) \/ LetsGo(m) PROVE K
  <2>1. /\ smtpd' = smtpd /\ msg[m] # "done"
        /\ \E s \in MsgState : msg' = [msg EXCEPT ![m] = s]
    BY <1>2 DEF Opens, Answers, Refuses, LetsGo, MsgState
  <2> QED
    BY <1>0, <2>1
<1>3. ASSUME NEW p \in Pid, ClientLeaves(p) PROVE K
  BY <1>0, <1>3 DEF ClientLeaves
<1>4. ASSUME Writes \/ Starts PROVE K
  BY <1>4 DEF Writes, Starts, outside
<1>5. ASSUME UNCHANGED vars PROVE K
  BY <1>5 DEF vars, outside
<1> HIDE DEF K
<1>6. ASSUME \E m \in Msg : Judges(m) PROVE K
  BY <1>1, <1>6, OutsideAlone
<1>7. ASSUME \E t \in Contents : Panel(t) PROVE K
  BY <1>1, <1>7, OutsideAlone
<1>8. ASSUME \E r \in Refusal, t \in Texts : MailRefused(r, t) PROVE K
  BY <1>1, <1>8, OutsideAlone
<1>9. ASSUME Tailer PROVE K
  BY <1>1, <1>9, OutsideAlone
<1>10. ASSUME Silent PROVE K
  BY <1>2, <1>3, <1>4, <1>6, <1>7, <1>9, <1>10 DEF Silent
<1> QED
  BY <1>2, <1>5, <1>8, <1>10 DEF K

LEMMA LinesStep == ASSUME Typed, LinesOk, [Next]_vars PROVE LinesOk'
<1>1. CASE Silent \/ UNCHANGED vars \/ (\E m \in Msg : Opens(m) \/ Answers(m))
           \/ (\E r \in Refusal, t \in Texts : MailRefused(r, t))
  BY <1>1, MailLines, OthersKeep, LinesElsewhere
<1>2. ASSUME NEW p \in Pid, WarnsAgain(p) PROVE LinesOk'
  BY <1>2, LinesWarnedAgain
<1>3. ASSUME NEW p \in Pid, NEW c \in Conn, TurnsAway(p, c) PROVE LinesOk'
  BY <1>3, LinesTurnedAway
<1>4. CASE Goes
  BY <1>4, LinesGoes
<1> QED
  BY <1>1, <1>2, <1>3, <1>4, StepsByLog

LEMMA LinesInit == ASSUME Init PROVE LinesOk
<1>1. log = <<>> /\ Len(log) = 0 /\ \A p \in Pid : smtpd[p] = 0
  BY DEF Init
<1> QED
  BY <1>1 DEF LinesOk, OneProcess, NoWarningAfter, OneClientBetween, AtMostTwo, CutOnce

-----------------------------------------------------------------------------
(* The counts.                                                             *)

\* Steps that read on past other lines, or write some, and count nothing.
OtherLine == pos' = pos \/ (pos' = pos + 1 /\ pos < Len(log) /\ log[pos + 1].kind \in {"client", "refused", "mail", "broken"})

LEMMA MemoryElsewhere ==
  ASSUME Typed, MemoryInv, [Next]_vars, UNCHANGED <<failed, split, up>>, OtherLine,
         up => NoNewLine, \A p \in Pid : smtpd'[p] \in {0, smtpd[p]}
  PROVE  MemoryInv'
<1>0. /\ Len(log) \in Nat /\ Len(log') \in Nat /\ Len(log) <= Len(log') /\ pos \in Nat /\ pos <= Len(log)
      /\ \A i \in 1 .. Len(log) : log'[i] = log[i]
  BY LogOnlyGrows DEF Typed, TailerOk
<1>1. FailedWereRead'
  <2> SUFFICES ASSUME NEW p \in failed
               PROVE  \E f \in 1 .. pos' : By("warning", p, f)' /\ \A x \in f .. pos' : ~ By("connect", p, x)'
    BY DEF FailedWereRead, By
  <2>1. PICK f \in 1 .. pos : By("warning", p, f) /\ \A x \in f .. pos : ~ By("connect", p, x)
    BY DEF MemoryInv, FailedWereRead
  <2>2. f \in 1 .. pos' /\ By("warning", p, f)'
    BY <1>0, <2>1 DEF By, OtherLine
  <2>3. ASSUME NEW x \in f .. pos' PROVE ~ By("connect", p, x)'
    <3>1. CASE x \in f .. pos
      <4>1. x \in 1 .. Len(log) /\ ~ By("connect", p, x)
        BY <1>0, <2>1, <3>1
      <4> QED
        BY <1>0, <4>1 DEF By
    <3>2. CASE x = pos + 1 /\ pos' = pos + 1
      <4>1. x \in 1 .. Len(log) /\ log[x].kind \in {"client", "refused", "mail", "broken"}
        BY <1>0, <3>2 DEF OtherLine
      <4> QED
        BY <1>0, <4>1 DEF By
    <3> QED
      BY <1>0, <2>1, <3>1, <3>2 DEF OtherLine
  <2> QED
    BY <2>2, <2>3
<1>2. FailedRemembered'
  <2> SUFFICES ASSUME up, NEW c \in Conn \ split, NEW p \in Pid, NEW f \in 1 .. pos', Warned(c, p, f)',
                      smtpd'[p] = c \/ \E i \in pos' + 1 .. Len(log') : Warned(c, p, i)'
               PROVE  p \in failed
    BY DEF FailedRemembered, Warned
  <2>1. \A i \in 1 .. Len(log') : Warned(c, p, i)' => i \in 1 .. Len(log) /\ Warned(c, p, i) /\ log[i].kind = "warning"
    <3> SUFFICES ASSUME NEW i \in 1 .. Len(log'), Warned(c, p, i)'
                 PROVE  i \in 1 .. Len(log) /\ Warned(c, p, i) /\ log[i].kind = "warning"
      OBVIOUS
    <3>1. log'[i] = Line("warning", c, p) /\ log'[i].kind = "warning"
      BY DEF Warned, Line
    <3>2. i \notin Len(log) + 1 .. Len(log')
      BY <3>1 DEF NoNewLine
    <3>3. i \in 1 .. Len(log)
      BY <1>0, <3>2
    <3> QED
      BY <1>0, <3>1, <3>3 DEF Warned
  <2>2. f \in 1 .. Len(log') /\ Warned(c, p, f) /\ log[f].kind = "warning"
    BY <1>0, <2>1 DEF Warned
  <2>3. f \in 1 .. pos
    BY <1>0, <2>2 DEF OtherLine
  <2>4. smtpd[p] = c \/ \E i \in pos + 1 .. Len(log) : Warned(c, p, i)
    <3>1. CASE smtpd'[p] = c
      BY <3>1, CheckKinds
    <3>2. ASSUME NEW i \in pos' + 1 .. Len(log'), Warned(c, p, i)' PROVE i \in pos + 1 .. Len(log) /\ Warned(c, p, i)
      <4>1. i \in 1 .. Len(log')
        BY <1>0, <3>2 DEF OtherLine
      <4> QED
        BY <1>0, <2>1, <3>2, <4>1 DEF OtherLine
    <3> QED
      BY <3>1, <3>2
  <2> QED
    BY <2>2, <2>3, <2>4 DEF MemoryInv, FailedRemembered
<1> QED
  BY <1>1, <1>2 DEF MemoryInv

LEMMA CountElsewhere ==
  ASSUME Typed, CountInv, [Next]_vars, UNCHANGED <<last, counted, times>>, split \subseteq split',
         missed \subseteq missed', caughtUp' => last <= pos',
         \A i \in 1 .. Len(log) : i <= pos' /\ log[i].kind \in {"warning", "broken"} =>
            i <= pos \/ i <= last \/ times[log[i].of] >= 1 \/ log[i].of \in missed,
         pos' <= Len(log)
  PROVE  CountInv'
<1>0. /\ Len(log) \in Nat /\ Len(log') \in Nat /\ Len(log) <= Len(log') /\ last \in Nat /\ last <= Len(log)
      /\ counted \in Nat /\ counted <= Len(log) /\ pos \in Nat /\ pos' \in Nat
      /\ \A i \in 1 .. Len(log) : log'[i] = log[i]
  <2>1. TailerOk'
    BY TypedStep DEF Typed
  <2>2. Len(log) \in Nat /\ Len(log') \in Nat /\ Len(log) <= Len(log') /\ \A i \in 1 .. Len(log) : log'[i] = log[i]
    BY LogOnlyGrows
  <2> QED
    BY <2>1, <2>2 DEF Typed, TailerOk, StoreOk
<1>1. CountsInStep'
  BY DEF CountInv, CountsInStep
<1>2. CountedIfRead'
  <2> SUFFICES ASSUME NEW i \in 1 .. Len(log'), log'[i].kind \in {"warning", "broken"}, i <= pos' \/ i <= last'
               PROVE  times'[log'[i].of] >= 1 \/ log'[i].of \in missed'
    BY DEF CountedIfRead
  <2>1. i \in 1 .. Len(log) /\ log'[i] = log[i]
    BY <1>0
  <2> QED
    BY <1>0, <2>1 DEF CountInv, CountedIfRead
<1>3. \A k \in {"broken", "warning"}, x \in Conn \cup Msg, i \in 1 .. counted : Of(k, x, i) => Of(k, x, i)'
  BY <1>0 DEF Of
<1>4. CountHasItsLine'
  <2>1. ASSUME NEW m \in Msg PROVE times'[m] <= 1 /\ (times'[m] = 1 => \E i \in 1 .. counted : Of("broken", m, i)')
    BY <1>3 DEF CountInv, CountHasItsLine
  <2>2. ASSUME NEW c \in Conn
        PROVE  /\ times'[c] <= 2
               /\ times'[c] >= 1 => \E i \in 1 .. counted : Of("warning", c, i)'
               /\ times'[c] = 2 => c \in split' /\ \E i, j \in 1 .. counted : Of("warning", c, i)' /\ Of("warning", c, j)' /\ i # j
    BY <1>3 DEF CountInv, CountHasItsLine
  <2> QED
    BY <2>1, <2>2 DEF CountHasItsLine, Of
<1> QED
  BY <1>1, <1>2, <1>4 DEF CountInv


\* Steps that remember no client and none the less, and steps that count none.
Keeps == UNCHANGED <<failed, split, up>> /\ OtherLine
TellsNothing ==
    /\ UNCHANGED <<last, counted, times>> /\ split \subseteq split' /\ missed \subseteq missed'
    /\ pos' = pos \/ (pos' = pos + 1 /\ pos < Len(log) /\ log[pos + 1].kind \notin {"warning", "broken"})
    /\ caughtUp' => caughtUp \/ pos' = Len(log)

LEMMA KeepingSteps ==
  ASSUME Typed
  PROVE  /\ \A m \in Msg : Opens(m) \/ Judges(m) \/ Refuses(m) \/ Answers(m) \/ LetsGo(m) => Keeps /\ TellsNothing
         /\ \A t \in Contents : Panel(t) => Keeps /\ TellsNothing
         /\ Writes => Keeps /\ TellsNothing
         /\ \A p \in Pid : ClientLeaves(p) \/ WarnsAgain(p) => Keeps /\ TellsNothing
         /\ \A p \in Pid, c \in Conn : TurnsAway(p, c) => Keeps /\ TellsNothing
         /\ \A r \in Refusal, t \in Texts : MailRefused(r, t) => Keeps /\ TellsNothing
         /\ UNCHANGED vars => Keeps /\ TellsNothing
<1> USE DEF Keeps, TellsNothing, OtherLine, store, tailer, seen, outside
<1>1. \A m \in Msg : Opens(m) \/ Judges(m) \/ Refuses(m) \/ Answers(m) \/ LetsGo(m) => Keeps /\ TellsNothing
  BY DEF Opens, Judges, Refuses, Answers, LetsGo
<1>2. \A t \in Contents : Panel(t) => Keeps /\ TellsNothing
  BY DEF Panel
<1>3. Writes => Keeps /\ TellsNothing
  BY DEF Writes
<1>4. \A p \in Pid : ClientLeaves(p) \/ WarnsAgain(p) => Keeps /\ TellsNothing
  BY DEF ClientLeaves, WarnsAgain
<1>5. \A p \in Pid, c \in Conn : TurnsAway(p, c) => Keeps /\ TellsNothing
  BY DEF TurnsAway
<1>6. \A r \in Refusal, t \in Texts : MailRefused(r, t) => Keeps /\ TellsNothing
  BY DEF MailRefused
<1>7. UNCHANGED vars => Keeps /\ TellsNothing
  BY DEF vars
<1> QED
  BY <1>1, <1>2, <1>3, <1>4, <1>5, <1>6, <1>7

LEMMA ReadingSteps ==
  ASSUME Typed
  PROVE  /\ HandleClient \/ HandleRefused \/ HandleMail => Keeps /\ TellsNothing
         /\ \A w \in recover : Recovers(w) => Keeps /\ TellsNothing
         /\ \A p \in pending : Retries(p) => Keeps /\ TellsNothing
         /\ PassEnds => Keeps /\ TellsNothing
         /\ HandleConnect => TellsNothing
         /\ HandleBroken => Keeps
         /\ Starts => TellsNothing
<1> USE DEF Keeps, TellsNothing, OtherLine, store, tailer, seen, outside, Handled, Next1
<1>0. pos \in Nat /\ \A x : AttachOrFail(x) => missed \subseteq missed'
  BY DEF AttachOrFail, Typed, TailerOk, LogOk
<1>1. HandleClient \/ HandleRefused \/ HandleMail => Keeps /\ TellsNothing
  BY <1>0 DEF HandleClient, HandleRefused, HandleMail
<1>2. \A w \in recover : Recovers(w) => Keeps /\ TellsNothing
  BY DEF Recovers
<1>3. \A p \in pending : Retries(p) => Keeps /\ TellsNothing
  BY <1>0 DEF Retries
<1>4. PassEnds => Keeps /\ TellsNothing
  BY DEF PassEnds, Saves
<1>5. HandleConnect => TellsNothing
  BY DEF HandleConnect
<1>6. HandleBroken => Keeps
  BY DEF HandleBroken
<1>7. Starts => TellsNothing
  BY DEF Starts
<1> QED
  BY <1>1, <1>2, <1>3, <1>4, <1>5, <1>6, <1>7

\* A step that tells nothing leaves the counts in order.
LEMMA CountTold == ASSUME Typed, CountInv, [Next]_vars, TellsNothing PROVE CountInv'
<1>0. /\ pos \in Nat /\ pos <= Len(log) /\ Len(log) \in Nat /\ last \in Nat /\ last <= Len(log)
  BY DEF Typed, TailerOk, LogOk
<1>1. caughtUp' => last <= pos'
  BY <1>0 DEF TellsNothing, CountInv, CountsInStep
<1>2. pos' <= Len(log)
  BY <1>0 DEF TellsNothing
<1>3. \A i \in 1 .. Len(log) : i <= pos' /\ log[i].kind \in {"warning", "broken"} =>
         i <= pos \/ i <= last \/ times[log[i].of] >= 1 \/ log[i].of \in missed
  BY <1>0 DEF TellsNothing
<1>4. UNCHANGED <<last, counted, times>> /\ split \subseteq split' /\ missed \subseteq missed'
  BY DEF TellsNothing
<1> QED
  BY <1>1, <1>2, <1>3, <1>4, CountElsewhere

\* The clients remembered were read, while none is added and nothing read.
LEMMA ReadBefore ==
  ASSUME Typed, FailedWereRead, [Next]_vars, failed' \subseteq failed, pos' = pos
  PROVE  FailedWereRead'
<1>0. /\ Len(log) \in Nat /\ Len(log') \in Nat /\ Len(log) <= Len(log') /\ pos \in Nat /\ pos <= Len(log)
      /\ \A i \in 1 .. Len(log) : log'[i] = log[i]
  BY LogOnlyGrows DEF Typed, TailerOk
<1> SUFFICES ASSUME NEW p \in failed'
             PROVE  \E f \in 1 .. pos' : By("warning", p, f)' /\ \A x \in f .. pos' : ~ By("connect", p, x)'
  BY DEF FailedWereRead, By
<1>1. PICK f \in 1 .. pos : By("warning", p, f) /\ \A x \in f .. pos : ~ By("connect", p, x)
  BY DEF FailedWereRead
<1>2. By("warning", p, f)' /\ \A x \in f .. pos : ~ By("connect", p, x)'
  <2>1. \A x \in f .. pos : x \in 1 .. Len(log) /\ x \in 1 .. Len(log')
    BY <1>0, <1>1
  <2> QED
    BY <1>0, <1>1, <2>1 DEF By
<1> QED
  BY <1>1, <1>2

\* A second warning is one more of a client that might have drawn it.
LEMMA MemoryWarnsAgain == ASSUME Typed, MemoryInv, [Next]_vars, NEW d \in Pid, WarnsAgain(d) PROVE MemoryInv'
<1>0. /\ LogOk /\ smtpd[d] \in Conn /\ Len(log) \in Nat /\ pos \in Nat /\ pos <= Len(log)
      /\ UNCHANGED <<pos, smtpd, failed, split, up>>
      /\ log' = Append(log, Line("warning", smtpd[d], d)) /\ LineOk(Line("warning", smtpd[d], d))
  BY OneLineSteps DEF Typed, TailerOk, LogOk, WarnsAgain, outside, tailer, seen
<1>1. /\ Len(log') = Len(log) + 1 /\ log'[Len(log) + 1] = Line("warning", smtpd[d], d)
      /\ \A i \in 1 .. Len(log) : log'[i] = log[i]
  BY <1>0, OneLineMore
<1>2. FailedWereRead'
  BY <1>0, ReadBefore DEF MemoryInv
<1>3. FailedRemembered'
  <2> SUFFICES ASSUME up, NEW c \in Conn \ split, NEW p \in Pid, NEW f \in 1 .. pos, Warned(c, p, f)',
                      smtpd[p] = c \/ \E i \in pos + 1 .. Len(log') : Warned(c, p, i)'
               PROVE  p \in failed
    BY <1>0 DEF FailedRemembered, Warned
  <2>1. Warned(c, p, f)
    BY <1>0, <1>1 DEF Warned
  <2>2. ASSUME NEW i \in pos + 1 .. Len(log'), Warned(c, p, i)'
        PROVE  smtpd[p] = c \/ \E j \in pos + 1 .. Len(log) : Warned(c, p, j)
    <3>1. CASE i = Len(log) + 1
      BY <1>1, <2>2, <3>1 DEF Warned, Line
    <3>2. CASE i \in pos + 1 .. Len(log)
      BY <1>0, <1>1, <2>2, <3>2 DEF Warned
    <3> QED
      BY <1>0, <1>1, <3>1, <3>2
  <2> QED
    BY <2>1, <2>2 DEF MemoryInv, FailedRemembered
<1> QED
  BY <1>2, <1>3 DEF MemoryInv

LEMMA MemoryTurnsAway ==
  ASSUME Typed, MemoryInv, [Next]_vars, NEW d \in Pid, NEW e \in Conn, TurnsAway(d, e)
  PROVE  MemoryInv'
<1>1. UNCHANGED <<pos, failed, up>> /\ ~ up
  BY DEF TurnsAway, tailer
<1>2. FailedWereRead'
  BY <1>1, ReadBefore DEF MemoryInv
<1>3. FailedRemembered'
  BY <1>1 DEF FailedRemembered
<1> QED
  BY <1>2, <1>3 DEF MemoryInv

LEMMA MemoryGoes == ASSUME Goes PROVE MemoryInv'
<1>1. failed' = {} /\ ~ up'
  BY DEF Goes
<1> QED
  BY <1>1 DEF MemoryInv, FailedWereRead, FailedRemembered

\* A start: a connection with warnings on both sides of the place is split.
LEMMA MemoryStarts == ASSUME Typed, RowInv, MemoryInv, [Next]_vars, Starts PROVE MemoryInv'
<1>0. /\ Len(log) \in Nat /\ pos \in Nat /\ pos <= Len(log) /\ place = pos
      /\ UNCHANGED <<pos, smtpd, failed, log>>
      /\ split' = split \cup
            {c \in Conn : Warnings(c, 1 .. pos) # {}
                          /\ (Warnings(c, pos + 1 .. Len(log)) # {} \/ \E p \in Pid : smtpd[p] = c)}
  BY DEF Typed, TailerOk, LogOk, Starts, outside, tailer, RowInv, PlaceWasRead
<1>1. FailedWereRead'
  BY <1>0, ReadBefore DEF MemoryInv
<1>2. FailedRemembered'
  <2> SUFFICES ASSUME NEW c \in Conn \ split', NEW p \in Pid, NEW f \in 1 .. pos, Warned(c, p, f),
                      smtpd[p] = c \/ \E i \in pos + 1 .. Len(log) : Warned(c, p, i)
               PROVE  FALSE
    BY <1>0 DEF FailedRemembered, Warned
  <2>1. \A i \in 1 .. Len(log) : Warned(c, p, i) => i \in DOMAIN log /\ log[i].kind = "warning" /\ log[i].of = c
    BY DEF Typed, LogOk, Warned, Line
  <2>2. f \in Warnings(c, 1 .. pos)
    BY <1>0, <2>1 DEF Warnings
  <2>3. \A i \in pos + 1 .. Len(log) : Warned(c, p, i) => i \in Warnings(c, pos + 1 .. Len(log))
    BY <1>0, <2>1 DEF Warnings
  <2> QED
    BY <1>0, <2>2, <2>3
<1> QED
  BY <1>1, <1>2 DEF MemoryInv

\* A process's next connect line: its client of before is gone.
LEMMA MemoryConnect == ASSUME Typed, LinesOk, MemoryInv, HandleConnect PROVE MemoryInv'
<1>0. /\ pos \in Nat /\ Len(log) \in Nat /\ pos < Len(log) /\ pos' = pos + 1 /\ Next1 = log[pos + 1]
      /\ log[pos + 1].kind = "connect" /\ Next1.by \in Pid
      /\ failed' = failed \ {Next1.by}
      /\ UNCHANGED <<smtpd, log, split, up>>
  BY NextLine DEF Typed, TailerOk, LogOk, LineOk, OfClient, HandleConnect, Handled, outside
<1>1. PICK b \in Pid : b = Next1.by
  BY <1>0
<1>2. By("connect", b, pos + 1) /\ \A p \in Pid : By("connect", p, pos + 1) => p = b
  BY <1>0, <1>1 DEF By
<1>3. FailedWereRead'
  <2> SUFFICES ASSUME NEW p \in failed, p # b
               PROVE  \E f \in 1 .. pos' : By("warning", p, f) /\ \A x \in f .. pos' : ~ By("connect", p, x)
    BY <1>0, <1>1 DEF FailedWereRead, By
  <2>1. PICK f \in 1 .. pos : By("warning", p, f) /\ \A x \in f .. pos : ~ By("connect", p, x)
    BY DEF MemoryInv, FailedWereRead
  <2>2. \A x \in f .. pos + 1 : x \in f .. pos \/ x = pos + 1
    BY <1>0, <2>1
  <2>3. p \in Pid
    BY DEF Typed, TailerOk
  <2> QED
    BY <1>0, <1>2, <2>1, <2>2, <2>3
<1>4. FailedRemembered'
  <2> SUFFICES ASSUME up, NEW c \in Conn \ split, NEW p \in Pid, NEW f \in 1 .. pos + 1, Warned(c, p, f),
                      smtpd[p] = c \/ \E i \in pos + 2 .. Len(log) : Warned(c, p, i)
               PROVE  p \in failed /\ p # b
    BY <1>0, <1>1 DEF FailedRemembered, Warned
  <2>1. ~ Warned(c, p, pos + 1)
    BY <1>0 DEF Warned, Line
  <2>2. f \in 1 .. pos /\ f \in 1 .. Len(log) /\ pos + 1 \in 1 .. Len(log) /\ f < pos + 1
    BY <1>0, <2>1
  <2>3. p # b
    <3> SUFFICES ASSUME p = b PROVE FALSE
      OBVIOUS
    <3>1. smtpd[p] # c /\ \A i \in 1 .. Len(log) : Warned(c, p, i) => i < pos + 1
      BY <1>2, <2>2 DEF LinesOk, NoWarningAfter
    <3> QED
      BY <1>0, <3>1
  <2>4. smtpd[p] = c \/ \E i \in pos + 1 .. Len(log) : Warned(c, p, i)
    BY <1>0
  <2> QED
    BY <2>2, <2>3, <2>4 DEF MemoryInv, FailedRemembered
<1> QED
  BY <1>3, <1>4 DEF MemoryInv

\* A warning read: its process is remembered.
LEMMA MemoryWarning == ASSUME Typed, MemoryInv, HandleWarning PROVE MemoryInv'
<1>0. /\ pos \in Nat /\ Len(log) \in Nat /\ pos < Len(log) /\ pos' = pos + 1 /\ Next1 = log[pos + 1]
      /\ log[pos + 1].kind = "warning" /\ Next1.by \in Pid
      /\ failed' = failed \cup {Next1.by}
      /\ UNCHANGED <<smtpd, log, split, up>>
  BY NextLine DEF Typed, TailerOk, LogOk, LineOk, OfClient, HandleWarning, Handled, outside
<1>1. PICK b \in Pid : b = Next1.by
  BY <1>0
<1>2. By("warning", b, pos + 1) /\ \A p \in Pid : ~ By("connect", p, pos + 1)
  BY <1>0, <1>1 DEF By
<1>3. FailedWereRead'
  <2> SUFFICES ASSUME NEW p \in failed \cup {b}
               PROVE  \E f \in 1 .. pos' : By("warning", p, f) /\ \A x \in f .. pos' : ~ By("connect", p, x)
    BY <1>0, <1>1 DEF FailedWereRead, By
  <2>1. p \in Pid
    BY DEF Typed, TailerOk
  <2>2. CASE p = b
    <3>1. pos + 1 \in 1 .. pos + 1 /\ \A x \in pos + 1 .. pos + 1 : x = pos + 1
      BY <1>0
    <3> QED
      BY <1>0, <1>2, <2>2, <3>1
  <2>3. CASE p \in failed
    <3>1. PICK f \in 1 .. pos : By("warning", p, f) /\ \A x \in f .. pos : ~ By("connect", p, x)
      BY <2>3 DEF MemoryInv, FailedWereRead
    <3>2. f \in 1 .. pos + 1 /\ \A x \in f .. pos + 1 : x \in f .. pos \/ x = pos + 1
      BY <1>0, <3>1
    <3> QED
      BY <1>0, <1>2, <2>1, <3>1, <3>2
  <2> QED
    BY <2>2, <2>3
<1>4. FailedRemembered'
  <2> SUFFICES ASSUME up, NEW c \in Conn \ split, NEW p \in Pid, NEW f \in 1 .. pos + 1, Warned(c, p, f),
                      smtpd[p] = c \/ \E i \in pos + 2 .. Len(log) : Warned(c, p, i)
               PROVE  p \in failed \cup {b}
    BY <1>0, <1>1 DEF FailedRemembered, Warned
  <2>1. CASE f = pos + 1
    BY <1>0, <1>1, <2>1 DEF Warned, Line
  <2>2. CASE f \in 1 .. pos
    <3>1. smtpd[p] = c \/ \E i \in pos + 1 .. Len(log) : Warned(c, p, i)
      BY <1>0
    <3> QED
      BY <2>2, <3>1 DEF MemoryInv, FailedRemembered
  <2> QED
    BY <1>0, <2>1, <2>2
<1> QED
  BY <1>3, <1>4 DEF MemoryInv

LEMMA MemoryStep == ASSUME Typed, RowInv, LinesOk, MemoryInv, [Next]_vars PROVE MemoryInv'
<1>1. ASSUME Keeps, NoNewLine, \A p \in Pid : smtpd'[p] \in {0, smtpd[p]} PROVE MemoryInv'
  BY <1>1, MemoryElsewhere DEF Keeps
<1>2. CASE Silent \/ UNCHANGED vars
  <2>1. NoNewLine /\ \A p \in Pid : smtpd'[p] \in {0, smtpd[p]}
    BY <1>2, MailLines, OthersKeep
  <2>2. CASE Tailer
    <3>1. CASE HandleConnect
      BY <3>1, MemoryConnect
    <3>2. CASE HandleWarning
      BY <3>2, MemoryWarning
    <3>3. CASE HandleClient \/ HandleRefused \/ HandleMail \/ HandleBroken \/ PassEnds
      BY <1>1, <2>1, <3>3, ReadingSteps
    <3>4. CASE (\E w \in recover : Recovers(w)) \/ \E p \in pending : Retries(p)
      BY <1>1, <2>1, <3>4, ReadingSteps
    <3> QED
      BY <2>2, <3>1, <3>2, <3>3, <3>4 DEF Tailer
  <2>3. CASE Starts
    BY <2>3, MemoryStarts
  <2>4. CASE UNCHANGED vars \/ Writes \/ \E m \in Msg : Judges(m) \/ Refuses(m) \/ LetsGo(m)
    BY <1>1, <2>1, <2>4, KeepingSteps
  <2>5. CASE (\E t \in Contents : Panel(t)) \/ \E p \in Pid : ClientLeaves(p)
    BY <1>1, <2>1, <2>5, KeepingSteps
  <2> QED
    BY <1>2, <2>2, <2>3, <2>4, <2>5 DEF Silent
<1>3. CASE (\E m \in Msg : Opens(m) \/ Answers(m)) \/ \E r \in Refusal, t \in Texts : MailRefused(r, t)
  <2>1. NoNewLine /\ \A p \in Pid : smtpd'[p] \in {0, smtpd[p]}
    BY <1>3, MailLines, OthersKeep
  <2>2. Keeps
    BY <1>3, KeepingSteps
  <2> QED
    BY <1>1, <2>1, <2>2
<1>4. CASE \E p \in Pid : WarnsAgain(p) \/ \E c \in Conn : TurnsAway(p, c)
  BY <1>4, MemoryWarnsAgain, MemoryTurnsAway
<1>5. CASE Goes
  BY <1>5, MemoryGoes
<1> QED
  BY <1>2, <1>3, <1>4, <1>5, StepsByLog

\* Reading a line that is counted, or passed over.
ReadsOn ==
    /\ pos < Len(log) /\ pos' = pos + 1 /\ log[pos + 1].kind \in {"warning", "broken"}
    /\ UNCHANGED <<log, caughtUp, split>>

ReadFacts ==
    /\ pos \in Nat /\ Len(log) \in Nat /\ pos + 1 \in 1 .. Len(log) /\ last \in Nat /\ counted \in Nat
    /\ last <= Len(log) /\ counted <= Len(log)
    /\ log[pos + 1].of \in Conn \cup Msg
    /\ log[pos + 1].kind = "warning" => log[pos + 1].of \in Conn /\ log[pos + 1].by \in Pid
    /\ log[pos + 1].kind = "broken" => log[pos + 1].of \in Msg

LEMMA ReadingOn == ASSUME Typed, ReadsOn PROVE ReadFacts
<1>1. pos \in Nat /\ Len(log) \in Nat /\ pos + 1 \in 1 .. Len(log) /\ LineOk(log[pos + 1])
  BY NextLine DEF Typed, TailerOk, LogOk, ReadsOn
<1>2. last \in Nat /\ counted \in Nat /\ last <= Len(log) /\ counted <= Len(log)
  BY <1>1 DEF Typed, TailerOk, StoreOk
<1> QED
  BY <1>1, <1>2 DEF ReadsOn, ReadFacts, LineOk, OfMessage, OfClient

\* A line counted over, or about a client counted: nothing more to count.
LEMMA CountPassedOver ==
  ASSUME Typed, CountInv, [Next]_vars, ReadsOn, UNCHANGED <<times, counted, last, missed>>,
         \/ CountedAlready
         \/ ~ CountedAlready /\ (times[log[pos + 1].of] >= 1 \/ log[pos + 1].of \in missed)
  PROVE  CountInv'
<1>0. ReadFacts
  BY ReadingOn
<1>1. caughtUp' => last <= pos'
  BY <1>0 DEF ReadsOn, ReadFacts, CountInv, CountsInStep
<1>2. pos' <= Len(log)
  BY <1>0 DEF ReadsOn, ReadFacts
<1>3. \A i \in 1 .. Len(log) : i <= pos' /\ log[i].kind \in {"warning", "broken"} =>
         i <= pos \/ i <= last \/ times[log[i].of] >= 1 \/ log[i].of \in missed
  BY <1>0 DEF ReadsOn, ReadFacts, CountedAlready
<1> QED
  BY <1>1, <1>2, <1>3, CountElsewhere DEF ReadsOn

\* What is not counted already is past the place of counting.
LEMMA NotCounted ==
  ASSUME Typed, CountInv, ReadsOn, ~ CountedAlready
  PROVE  last <= pos /\ counted <= pos
<1>0. ReadFacts
  BY ReadingOn
<1>1. caughtUp \in BOOLEAN
  BY DEF Typed, TailerOk
<1>2. last <= pos
  BY <1>0, <1>1 DEF ReadFacts, CountInv, CountsInStep, CountedAlready
<1> QED
  BY <1>0, <1>2 DEF ReadFacts, CountInv, CountsInStep

\* A store that fails: the count is missed, and the place of counting is past it.
LEMMA CountMissed ==
  ASSUME Typed, CountInv, ReadsOn, ~ CountedAlready, UNCHANGED <<times, counted>>,
         missed' = missed \cup {log[pos + 1].of}, last' = pos + 1
  PROVE  CountInv'
<1>0. ReadFacts /\ last <= pos /\ counted <= pos
  BY ReadingOn, NotCounted
<1>1. CountsInStep'
  BY <1>0 DEF ReadFacts, ReadsOn, CountsInStep
<1>2. CountedIfRead'
  <2> SUFFICES ASSUME NEW i \in 1 .. Len(log), log[i].kind \in {"warning", "broken"}, i <= pos + 1
               PROVE  times[log[i].of] >= 1 \/ log[i].of \in missed'
    BY DEF CountedIfRead, ReadsOn
  <2>1. CASE i <= pos
    BY <2>1 DEF CountInv, CountedIfRead
  <2>2. CASE i = pos + 1
    BY <2>2
  <2> QED
    BY <1>0, <2>1, <2>2 DEF ReadFacts
<1>3. CountHasItsLine'
  BY DEF ReadsOn, CountInv, CountHasItsLine, Of
<1> QED
  BY <1>1, <1>2, <1>3 DEF CountInv

\* A count made: there was none before, but of a connection split by a start.
LEMMA CountMade ==
  ASSUME Typed, CountInv, ReadsOn, ~ CountedAlready, UNCHANGED missed,
         NEW x, x = log[pos + 1].of,
         x \in Msg => times[x] = 0,
         x \in Conn => times[x] <= 1 /\ (times[x] = 1 => x \in split),
         times' = [times EXCEPT ![x] = @ + 1], counted' = pos + 1, last' = pos + 1
  PROVE  CountInv'
<1>0. ReadFacts /\ last <= pos /\ counted <= pos /\ times \in [Conn \cup Msg -> Nat] /\ x \in Conn \cup Msg
  BY ReadingOn, NotCounted DEF Typed, StoreOk, ReadFacts
<1>1. /\ times'[x] = times[x] + 1 /\ times[x] \in Nat
      /\ \A y \in Conn \cup Msg : y # x => times'[y] = times[y]
      /\ \A y \in Conn \cup Msg : times[y] \in Nat /\ times'[y] \in Nat /\ times'[y] >= times[y]
  BY <1>0
<1>2. CountsInStep'
  BY <1>0 DEF ReadFacts, ReadsOn, CountsInStep
<1>3. CountedIfRead'
  <2> SUFFICES ASSUME NEW i \in 1 .. Len(log), log[i].kind \in {"warning", "broken"}, i <= pos + 1
               PROVE  times'[log[i].of] >= 1 \/ log[i].of \in missed
    BY DEF CountedIfRead, ReadsOn
  <2>1. CASE i <= pos
    <3>1. times[log[i].of] >= 1 \/ log[i].of \in missed
      BY <2>1 DEF CountInv, CountedIfRead
    <3>2. log[i].of \in Conn \cup Msg
      BY DEF Typed, LogOk, LineOk, OfMessage, OfClient
    <3> QED
      BY <1>1, <3>1, <3>2
  <2>2. CASE i = pos + 1
    BY <1>1, <2>2
  <2> QED
    BY <1>0, <2>1, <2>2 DEF ReadFacts
<1>4. \A i \in 1 .. counted : i \in 1 .. pos + 1 /\ i # pos + 1
  BY <1>0 DEF ReadFacts
<1>5. pos + 1 \in 1 .. pos + 1 /\ pos + 1 \in 1 .. Len(log)
  BY <1>0 DEF ReadFacts
<1>6. ASSUME NEW m \in Msg PROVE times'[m] <= 1 /\ (times'[m] = 1 => \E i \in 1 .. pos + 1 : Of("broken", m, i))
  <2>1. CASE m = x
    <3>1. log[pos + 1].kind = "broken"
      BY <1>0, <2>1, CheckKinds DEF ReadsOn, ReadFacts
    <3>2. Of("broken", m, pos + 1)
      BY <1>5, <2>1, <3>1 DEF Of
    <3> QED
      BY <1>1, <1>5, <2>1, <3>2
  <2>2. CASE m # x
    BY <1>1, <1>4, <2>2 DEF CountInv, CountHasItsLine
  <2> QED
    BY <2>1, <2>2
<1>7. ASSUME NEW c \in Conn
      PROVE  /\ times'[c] <= 2
             /\ times'[c] >= 1 => \E i \in 1 .. pos + 1 : Of("warning", c, i)
             /\ times'[c] = 2 => c \in split /\ \E i, j \in 1 .. pos + 1 : Of("warning", c, i) /\ Of("warning", c, j) /\ i # j
  <2>1. CASE c = x
    <3>1. log[pos + 1].kind = "warning"
      BY <1>0, <2>1, CheckKinds DEF ReadsOn, ReadFacts
    <3>2. Of("warning", c, pos + 1)
      BY <1>5, <2>1, <3>1 DEF Of
    <3>3. times[c] >= 1 => \E i \in 1 .. counted : Of("warning", c, i)
      BY DEF CountInv, CountHasItsLine
    <3> QED
      BY <1>1, <1>4, <1>5, <2>1, <3>2, <3>3
  <2>2. CASE c # x
    BY <1>1, <1>4, <2>2 DEF CountInv, CountHasItsLine
  <2> QED
    BY <2>1, <2>2
<1>8. CountHasItsLine'
  <2>1. UNCHANGED <<log, split>>
    BY DEF ReadsOn
  <2> QED
    BY <1>6, <1>7, <2>1 DEF CountHasItsLine, Of
<1> QED
  BY <1>2, <1>3, <1>8 DEF CountInv

\* The count of a line, whether the store takes it or not (Counts, Adds).
LEMMA CountDone ==
  ASSUME Typed, CountInv, [Next]_vars, ReadsOn, Counts(log[pos + 1].of),
         log[pos + 1].of \in Msg /\ ~ CountedAlready => times[log[pos + 1].of] = 0,
         log[pos + 1].of \in Conn /\ ~ CountedAlready =>
            times[log[pos + 1].of] <= 1 /\ (times[log[pos + 1].of] = 1 => log[pos + 1].of \in split)
  PROVE  CountInv'
<1>1. CASE CountedAlready
  <2>1. UNCHANGED <<times, counted, last, missed>>
    BY <1>1 DEF Counts
  <2> QED
    BY <1>1, <2>1, CountPassedOver
<1>2. CASE ~ CountedAlready
  <2>1. Adds(log[pos + 1].of) /\ last' = pos + 1
    BY <1>2 DEF Counts
  <2>2. PICK x : x = log[pos + 1].of
    OBVIOUS
  <2>3. \/ times' = [times EXCEPT ![x] = @ + 1] /\ counted' = pos + 1 /\ UNCHANGED missed
        \/ missed' = missed \cup {x} /\ UNCHANGED <<times, counted>>
    BY <2>1, <2>2 DEF Adds
  <2>4. CASE missed' = missed \cup {x} /\ UNCHANGED <<times, counted>>
    BY <1>2, <2>1, <2>2, <2>4, CountMissed
  <2>5. CASE times' = [times EXCEPT ![x] = @ + 1] /\ counted' = pos + 1 /\ UNCHANGED missed
    BY <1>2, <2>1, <2>2, <2>5, CountMade
  <2> QED
    BY <2>3, <2>4, <2>5
<1> QED
  BY <1>1, <1>2

\* A message cut short has its one line, so it was not counted before.
LEMMA CountBroken == ASSUME Typed, LinesOk, CountInv, [Next]_vars, HandleBroken PROVE CountInv'
<1>1. ReadsOn /\ log[pos + 1].kind = "broken" /\ Counts(log[pos + 1].of)
  BY DEF HandleBroken, Handled, Next1, ReadsOn
<1>2. PICK m : m = log[pos + 1].of
  OBVIOUS
<1>3. ReadFacts /\ m \in Msg /\ m \notin Conn
  BY <1>1, <1>2, ReadingOn, CheckKinds DEF ReadFacts
<1>4. ASSUME ~ CountedAlready PROVE times[m] = 0
  <2>1. counted <= pos
    BY <1>1, <1>4, NotCounted
  <2>2. Of("broken", m, pos + 1)
    BY <1>1, <1>2, <1>3 DEF Of, ReadFacts
  <2>3. \A i \in 1 .. Len(log) : Of("broken", m, i) => i = pos + 1
    BY <1>3, <2>2 DEF LinesOk, CutOnce, ReadFacts
  <2>4. ~ \E i \in 1 .. counted : Of("broken", m, i)
    BY <1>3, <2>1, <2>3 DEF ReadFacts
  <2>5. times[m] \in Nat /\ times[m] <= 1 /\ times[m] # 1
    BY <1>3, <2>4 DEF CountInv, CountHasItsLine, Typed, StoreOk
  <2> QED
    BY <2>5
<1> QED
  BY <1>1, <1>2, <1>3, <1>4, CountDone

\* A warning of a process remembered is one more about its client.
LEMMA CountOneMore ==
  ASSUME Typed, LinesOk, MemoryInv, CountInv, [Next]_vars, HandleWarning, Next1.by \in failed
  PROVE  CountInv'
<1>1. /\ ReadsOn /\ log[pos + 1].kind = "warning" /\ log[pos + 1].by \in failed
      /\ UNCHANGED <<times, counted, last, missed>>
  BY DEF HandleWarning, Handled, Next1, ReadsOn
<1>2. ReadFacts
  BY <1>1, ReadingOn
<1>3. PICK p \in Pid : p = log[pos + 1].by
  BY <1>1, <1>2 DEF ReadFacts
<1>4. PICK f \in 1 .. pos : By("warning", p, f) /\ \A x \in f .. pos : ~ By("connect", p, x)
  BY <1>1, <1>3 DEF MemoryInv, FailedWereRead
<1>5. By("warning", p, pos + 1) /\ ~ By("connect", p, pos + 1) /\ f < pos + 1 /\ f \in 1 .. Len(log)
  BY <1>1, <1>2, <1>3, <1>4 DEF By, ReadFacts
<1>6. ~ \E x \in f .. pos + 1 : By("connect", p, x)
  <2>1. \A x \in f .. pos + 1 : x \in f .. pos \/ x = pos + 1
    BY <1>2, <1>4 DEF ReadFacts
  <2> QED
    BY <1>4, <1>5, <2>1
<1>7. log[f].of = log[pos + 1].of
  BY <1>2, <1>4, <1>5, <1>6 DEF LinesOk, OneClientBetween, ReadFacts
<1>8. times[log[f].of] >= 1 \/ log[f].of \in missed
  BY <1>4, <1>5 DEF CountInv, CountedIfRead, By
<1> QED
  BY <1>1, <1>7, <1>8, CountPassedOver

\* A warning of a process not remembered is the first of a connection, or the
\* second of one split by a start.
LEMMA CountFirst ==
  ASSUME Typed, LinesOk, MemoryInv, CountInv, [Next]_vars, HandleWarning, Next1.by \notin failed
  PROVE  CountInv'
<1>1. /\ up /\ ReadsOn /\ log[pos + 1].kind = "warning" /\ log[pos + 1].by \notin failed
      /\ Counts(log[pos + 1].of)
  BY DEF HandleWarning, Handled, Next1, ReadsOn
<1>2. ReadFacts
  BY <1>1, ReadingOn
<1>3. PICK c \in Conn, p \in Pid : c = log[pos + 1].of /\ p = log[pos + 1].by
  BY <1>1, <1>2 DEF ReadFacts
<1>4. LogOk /\ c \notin Msg
  BY <1>3, CheckKinds DEF Typed
<1>5. Warned(c, p, pos + 1)
  BY <1>1, <1>2, <1>3, <1>4, WarnedFields DEF ReadFacts
<1>6. \A i \in 1 .. Len(log) : Of("warning", c, i) => Warned(c, p, i)
  <2> SUFFICES ASSUME NEW i \in 1 .. Len(log), Of("warning", c, i) PROVE Warned(c, p, i)
    OBVIOUS
  <2>1. log[i].by \in Pid /\ log[i].kind = "warning" /\ log[i].of = c
    BY <1>4 DEF LogOk, LineOk, OfClient, Of
  <2>2. Warned(c, log[i].by, i)
    BY <1>4, <2>1, WarnedFields
  <2>3. pos + 1 \in 1 .. Len(log)
    BY <1>2 DEF ReadFacts
  <2>4. log[i].by = p
    BY <1>5, <2>1, <2>2, <2>3 DEF LinesOk, OneProcess
  <2> QED
    BY <2>2, <2>4
<1>7. ASSUME ~ CountedAlready PROVE times[c] <= 1 /\ (times[c] = 1 => c \in split)
  <2>1. counted <= pos
    BY <1>1, <1>7, NotCounted
  <2>2. \A i \in 1 .. counted : i \in 1 .. pos /\ i \in 1 .. Len(log) /\ i < pos + 1 /\ i \in Nat
    BY <1>2, <2>1 DEF ReadFacts
  <2>3. times[c] \in Nat /\ times[c] <= 2 /\ times[c] # 2
    <3>1. times[c] \in Nat /\ times[c] <= 2
      BY DEF CountInv, CountHasItsLine, Typed, StoreOk
    <3>2. ASSUME times[c] = 2 PROVE FALSE
      <4>1. PICK i \in 1 .. counted, j \in 1 .. counted : Of("warning", c, i) /\ Of("warning", c, j) /\ i # j
        BY <3>2 DEF CountInv, CountHasItsLine
      <4>2. Warned(c, p, i) /\ Warned(c, p, j) /\ (i < j \/ j < i)
        BY <1>6, <2>2, <4>1
      <4> QED
        BY <1>2, <1>5, <2>2, <4>2 DEF LinesOk, AtMostTwo, ReadFacts
    <3> QED
      BY <3>1, <3>2
  <2>4. ASSUME times[c] = 1, c \notin split PROVE FALSE
    <3>1. PICK f \in 1 .. counted : Of("warning", c, f)
      BY <2>4 DEF CountInv, CountHasItsLine
    <3>2. f \in 1 .. pos /\ Warned(c, p, f)
      BY <1>6, <2>2, <3>1
    <3>3. pos + 1 \in pos + 1 .. Len(log)
      BY <1>2 DEF ReadFacts
    <3>4. p \in failed
      BY <1>1, <1>5, <2>4, <3>2, <3>3 DEF MemoryInv, FailedRemembered
    <3> QED
      BY <1>1, <1>3, <3>4
  <2> QED
    BY <2>3, <2>4
<1> QED
  BY <1>1, <1>3, <1>4, <1>7, CountDone

\* A stop: what the tailer goes back to, and what it counts from, was read before.
LEMMA CountGoes == ASSUME Typed, RowInv, CountInv, [Next]_vars, Stops \/ Dies PROVE CountInv'
<1>0. /\ Len(log) \in Nat /\ Len(log') \in Nat /\ Len(log) <= Len(log')
      /\ \A i \in 1 .. Len(log) : log'[i] = log[i]
  BY LogOnlyGrows
<1>1. /\ place' = Held \/ place' = place
      /\ pos' = place' /\ last' = counted /\ caughtUp' = FALSE
      /\ UNCHANGED <<times, counted, split, missed>>
  BY DEF Stops, Dies, Goes, Saves
<1>2. /\ place' \in Nat /\ place' <= pos /\ pos \in Nat /\ pos <= Len(log)
      /\ counted \in Nat /\ counted <= last /\ counted <= Len(log) /\ last \in Nat
  BY <1>1, PlaceSaved DEF Typed, TailerOk, StoreOk, LogOk, CountInv, CountsInStep
<1>3. CountsInStep'
  BY <1>1, <1>2 DEF CountsInStep
<1>4. CountedIfRead'
  <2> SUFFICES ASSUME NEW i \in 1 .. Len(log'), log'[i].kind \in {"warning", "broken"}, i <= place' \/ i <= counted
               PROVE  times[log'[i].of] >= 1 \/ log'[i].of \in missed
    BY <1>1 DEF CountedIfRead
  <2>1. i \in 1 .. Len(log) /\ log'[i] = log[i] /\ (i <= pos \/ i <= last)
    BY <1>0, <1>2
  <2> QED
    BY <2>1 DEF CountInv, CountedIfRead
<1>5. \A k \in {"broken", "warning"}, x \in Conn \cup Msg, i \in 1 .. counted : Of(k, x, i) => Of(k, x, i)'
  BY <1>0 DEF Of
<1>6. CountHasItsLine'
  <2>1. ASSUME NEW m \in Msg PROVE times'[m] <= 1 /\ (times'[m] = 1 => \E i \in 1 .. counted : Of("broken", m, i)')
    BY <1>1, <1>5 DEF CountInv, CountHasItsLine
  <2>2. ASSUME NEW c \in Conn
        PROVE  /\ times'[c] <= 2
               /\ times'[c] >= 1 => \E i \in 1 .. counted : Of("warning", c, i)'
               /\ times'[c] = 2 => c \in split /\ \E i, j \in 1 .. counted : Of("warning", c, i)' /\ Of("warning", c, j)' /\ i # j
    BY <1>1, <1>5 DEF CountInv, CountHasItsLine
  <2> QED
    BY <1>1, <2>1, <2>2 DEF CountHasItsLine, Of
<1> QED
  BY <1>3, <1>4, <1>6 DEF CountInv

LEMMA CountStep == ASSUME Typed, RowInv, LinesOk, MemoryInv, CountInv, [Next]_vars PROVE CountInv'
<1>1. ASSUME TellsNothing PROVE CountInv'
  BY <1>1, CountTold
<1>2. CASE Tailer
  <2>1. CASE HandleBroken
    BY <2>1, CountBroken
  <2>2. CASE HandleWarning
    BY <2>2, CountOneMore, CountFirst
  <2>3. CASE HandleClient \/ HandleRefused \/ HandleMail \/ HandleConnect \/ PassEnds
    BY <1>1, <2>3, ReadingSteps
  <2>4. CASE (\E w \in recover : Recovers(w)) \/ \E p \in pending : Retries(p)
    BY <1>1, <2>4, ReadingSteps
  <2> QED
    BY <1>2, <2>1, <2>2, <2>3, <2>4 DEF Tailer
<1>3. CASE Stops \/ Dies
  BY <1>3, CountGoes
<1>4. CASE Starts
  BY <1>1, <1>4, ReadingSteps
<1>5. CASE UNCHANGED vars
  BY <1>1, <1>5, KeepingSteps
<1>6. CASE Next
  <2>1. CASE \E m \in Msg : Opens(m) \/ Judges(m) \/ Refuses(m) \/ Answers(m) \/ LetsGo(m)
    BY <1>1, <2>1, KeepingSteps
  <2>2. CASE Writes \/ \E t \in Contents : Panel(t)
    BY <1>1, <2>2, KeepingSteps
  <2>3. CASE \E p \in Pid : (\E c \in Conn : TurnsAway(p, c)) \/ WarnsAgain(p) \/ ClientLeaves(p)
    BY <1>1, <2>3, KeepingSteps
  <2>4. CASE \E r \in Refusal, t \in Texts : MailRefused(r, t)
    BY <1>1, <2>4, KeepingSteps
  <2> QED
    BY <1>2, <1>3, <1>4, <1>6, <2>1, <2>2, <2>3, <2>4 DEF Next
<1> QED
  BY <1>5, <1>6

LEMMA CountInit == ASSUME Init PROVE MemoryInv /\ CountInv
<1>1. /\ log = <<>> /\ Len(log) = 0 /\ pos = 0 /\ last = 0 /\ counted = 0 /\ failed = {} /\ caughtUp = FALSE
      /\ \A x \in Conn \cup Msg : times[x] = 0
  BY DEF Init
<1>2. MemoryInv
  BY <1>1 DEF MemoryInv, FailedWereRead, FailedRemembered
<1>3. CountInv
  BY <1>1 DEF CountInv, CountsInStep, CountedIfRead, CountHasItsLine
<1> QED
  BY <1>2, <1>3

LEMMA CountsAlways == Spec => [](LinesOk /\ MemoryInv /\ CountInv)
<1>1. Init => LinesOk /\ MemoryInv /\ CountInv
  BY LinesInit, CountInit
<1>2. Typed /\ RowInv /\ (LinesOk /\ MemoryInv /\ CountInv) /\ [Next]_vars => (LinesOk /\ MemoryInv /\ CountInv)'
  BY LinesStep, MemoryStep, CountStep
<1> QED
  BY <1>1, <1>2, AlwaysTyped, RowsAlways, PTL DEF Spec

\* Once the log is read, a connection turned away and a message cut short are
\* counted once, however often their warnings are read - through every stop and
\* kill, with any number of them; twice only a connection the tailer was started
\* again in the middle of, not at all only what a failing store did not take
\* (deferredCounter.handle, countedAlready, AddSenderCheckDeferred).
THEOREM TurnedAwayAlwaysCountedOnce == Spec => []TurnedAwayCountedOnce
<1>1. ASSUME Typed, CountInv PROVE TurnedAwayCountedOnce
  <2> SUFFICES ASSUME AllRead, NEW i \in DOMAIN log, log[i].kind \in {"warning", "broken"}
               PROVE  times[log[i].of] \in
                         (IF log[i].of \in missed THEN 0 ELSE 1) .. (IF log[i].of \in split THEN 2 ELSE 1)
    BY DEF TurnedAwayCountedOnce
  <2>1. i \in 1 .. Len(log) /\ pos = Len(log) /\ i <= pos /\ LineOk(log[i])
    BY <1>1 DEF AllRead, Typed, LogOk
  <2>2. PICK x : x = log[i].of
    OBVIOUS
  <2>3. times[x] >= 1 \/ x \in missed
    BY <1>1, <2>1, <2>2 DEF CountInv, CountedIfRead
  <2>4. x \in Conn \cup Msg
    BY <2>1, <2>2 DEF LineOk, OfMessage, OfClient
  <2>5. times[x] \in Nat /\ times[x] <= 2 /\ (times[x] = 2 => x \in split)
    BY <1>1, <2>4 DEF CountInv, CountHasItsLine, Typed, StoreOk
  <2> QED
    BY <2>2, <2>3, <2>5
<1>2. Typed /\ CountInv => TurnedAwayCountedOnce
  BY <1>1
<1> QED
  BY <1>2, AlwaysTyped, CountsAlways, PTL

-----------------------------------------------------------------------------
(* What is kept of a message's talk, from its client line to its refusal,  *)
(* and of the login its row is to name.                                    *)

EndsOfTalk == {"client", "refused"}
NoneBetween(i, j) == \A k \in i + 1 .. j - 1 : log[k].kind \notin EndsOfTalk

\* A message has one client line, and one line of a refusal.
OneLineEach ==
    \A m \in Msg :
        /\ msg[m] = "new" => \A i \in 1 .. Len(log) : ~ Of("client", m, i)
        /\ \A i, j \in 1 .. Len(log) : Of("client", m, i) /\ Of("client", m, j) => i = j
        /\ \A i, j \in 1 .. Len(log) : RefusedAt(m, i) /\ RefusedAt(m, j) => i = j

\* From its client line to its refusal no other message begins or is refused.
TalksInTurn ==
    \A m \in Msg :
        /\ msg[m] \in {"open", "answer"} =>
              \E i \in 1 .. Len(log) : Of("client", m, i) /\ NoneBetween(i, Len(log) + 1)
        /\ \A j \in 1 .. Len(log) : RefusedAt(m, j) =>
              \E i \in 1 .. j - 1 : Of("client", m, i) /\ NoneBetween(i, j)

TalkInv == OneLineEach /\ TalksInTurn

RefusedBy(m, n) == \E j \in 1 .. n : RefusedAt(m, j)

\* A login stands in its client line, and one that was read is remembered until
\* the refusal - or until the place was saved past it.
LoginIsALine == \A l \in logins : Of("client", l.of, l.start + 1)
LoginKnown ==
    \A m \in Msg, i \in 1 .. pos : Of("client", m, i) =>
        (\E l \in logins : l.of = m) \/ m \in passedBy \/ RefusedBy(m, pos)

\* A row waited for is held from its client line, or has no name for a reason.
WaitIsNamed ==
    \A w \in recover :
        /\ w.named => Of("client", w.of, w.start + 1)
        /\ ~ w.named => w.start = w.line /\ w.of \in passedBy

\* A refusal read after a line that still waits is itself waited for.
WaitsInTurn ==
    \A p \in pending, m \in Msg, j \in 1 .. pos : RefusedAt(m, j) /\ p.start < j =>
        \E w \in recover : w.of = m /\ w.line + 1 = j

\* Up to the place no message is without its refusal, but for those passed by.
PlaceKnown ==
    \A m \in Msg, i \in 1 .. place : Of("client", m, i) => m \in passedBy \/ RefusedBy(m, place)

NameInv == LoginIsALine /\ LoginKnown /\ WaitIsNamed /\ WaitsInTurn /\ PlaceKnown /\ RecoveredRowIsNamed

\* How a message goes on while no line of a client or a refusal is written.
QuietMove ==
    \A m \in Msg : msg'[m] = msg[m] \/ (msg[m] = "open" /\ msg'[m] = "answer") \/ msg'[m] = "done"
QuietLines == \A i \in Len(log) + 1 .. Len(log') : log'[i].kind \notin EndsOfTalk

\* Only a message that begins or is answered has such a line.
LEMMA QuietSteps ==
  ASSUME Typed, [Next]_vars
  PROVE  (QuietLines /\ QuietMove) \/ \E m \in Msg : Opens(m) \/ Answers(m)
<1>0. LogOk /\ Len(log) \in Nat /\ msg \in [Msg -> MsgState]
  BY DEF Typed, LogOk, OutsideOk
<1>1. ASSUME UNCHANGED <<log, msg>> PROVE QuietLines /\ QuietMove
  BY <1>0, <1>1 DEF QuietLines, QuietMove
<1>2. ASSUME NEW m \in Msg, Refuses(m) \/ LetsGo(m) PROVE QuietMove
  BY <1>0, <1>2 DEF Refuses, LetsGo, QuietMove
<1>3. ASSUME Silent PROVE QuietLines /\ QuietMove
  <2>1. log' = log
    BY <1>3, SilentStep
  <2>2. QuietLines
    BY <1>0, <2>1 DEF QuietLines
  <2>3. CASE msg' = msg
    BY <2>3, <2>1, <1>1
  <2>4. CASE \E m \in Msg : Judges(m)
    <3>1. msg' = msg
      BY <2>4 DEF Judges, outside
    <3> QED
      BY <2>3, <3>1
  <2>5. CASE \E t \in Contents : Panel(t)
    <3>1. msg' = msg
      BY <2>5 DEF Panel, outside
    <3> QED
      BY <2>3, <3>1
  <2>6. CASE Writes \/ Starts
    <3>1. msg' = msg
      BY <2>6 DEF Writes, Starts, outside
    <3> QED
      BY <2>3, <3>1
  <2>7. CASE \E p \in Pid : ClientLeaves(p)
    <3>1. msg' = msg
      BY <2>7 DEF ClientLeaves
    <3> QED
      BY <2>3, <3>1
  <2>8. CASE Tailer
    <3>1. msg' = msg
      BY <2>8, OutsideAlone DEF OutsideVars
    <3> QED
      BY <2>3, <3>1
  <2> QED
    BY <1>2, <1>3, <2>2, <2>4, <2>5, <2>6, <2>7, <2>8 DEF Silent
<1>4. ASSUME NEW l, LineOk(l), log' = Append(log, l), l.kind \notin EndsOfTalk, msg' = msg
      PROVE  QuietLines /\ QuietMove
  <2>1. Len(log') = Len(log) + 1 /\ log'[Len(log) + 1] = l
    BY <1>0, <1>4, OneLineMore
  <2>2. \A i \in Len(log) + 1 .. Len(log') : i = Len(log) + 1
    BY <1>0, <2>1
  <2> QED
    BY <1>4, <2>1, <2>2 DEF QuietLines, QuietMove
<1>5. ASSUME NEW p \in Pid, WarnsAgain(p) PROVE QuietLines /\ QuietMove
  <2>1. LineOk(Line("warning", smtpd[p], p)) /\ log' = Append(log, Line("warning", smtpd[p], p))
    BY <1>5, OneLineSteps
  <2>2. Line("warning", smtpd[p], p).kind \notin EndsOfTalk /\ msg' = msg
    BY <1>5 DEF Line, EndsOfTalk, WarnsAgain, outside
  <2> QED
    BY <1>4, <2>1, <2>2
<1>6. ASSUME NEW p \in Pid, NEW c \in Conn, TurnsAway(p, c) PROVE QuietLines /\ QuietMove
  <2>1. log' = log \o <<Line("connect", c, p), Line("warning", c, p)>> /\ msg' = msg
    BY <1>6 DEF TurnsAway
  <2>2. /\ Len(log') = Len(log) + 2
        /\ log'[Len(log) + 1] = Line("connect", c, p) /\ log'[Len(log) + 2] = Line("warning", c, p)
    BY <1>0, <2>1, TurnedAwayLines
  <2>3. \A i \in Len(log) + 1 .. Len(log') : i = Len(log) + 1 \/ i = Len(log) + 2
    BY <1>0, <2>2
  <2>4. Line("connect", c, p).kind \notin EndsOfTalk /\ Line("warning", c, p).kind \notin EndsOfTalk
    BY DEF Line, EndsOfTalk
  <2> QED
    BY <2>1, <2>2, <2>3, <2>4 DEF QuietLines, QuietMove
<1>7. ASSUME NEW r \in Refusal, NEW t \in Texts, MailRefused(r, t) PROVE QuietLines /\ QuietMove
  <2>1. LineOk(Line("mail", t, 0)) /\ log' = Append(log, Line("mail", t, 0))
    BY <1>7, OneLineSteps
  <2>2. Line("mail", t, 0).kind \notin EndsOfTalk /\ msg' = msg
    BY <1>7 DEF Line, EndsOfTalk, MailRefused, outside
  <2> QED
    BY <1>4, <2>1, <2>2
<1>8. ASSUME Goes PROVE QuietLines /\ QuietMove
  <2>1. \A i \in Len(log) + 1 .. Len(log') : \E m \in Cut : log'[i] = Line("broken", m, 0)
    BY <1>0, <1>8, CutShortLines
  <2>2. \A m : Line("broken", m, 0).kind \notin EndsOfTalk
    BY DEF Line, EndsOfTalk
  <2>3. msg' = [m \in Msg |-> IF m \in Cut THEN "done" ELSE msg[m]]
    BY <1>8 DEF Goes, Cut
  <2> QED
    BY <2>1, <2>2, <2>3 DEF QuietLines, QuietMove
<1>9. ASSUME UNCHANGED vars PROVE QuietLines /\ QuietMove
  <2>1. UNCHANGED <<log, msg>>
    BY <1>9 DEF vars, outside
  <2> QED
    BY <1>1, <2>1
<1> QED
  BY <1>3, <1>5, <1>6, <1>7, <1>8, <1>9, StepsByLog

\* Such a step takes nothing from the talks.
LEMMA TalkQuiet == ASSUME Typed, TalkInv, [Next]_vars, QuietLines, QuietMove PROVE TalkInv'
<1>0. /\ Len(log) \in Nat /\ Len(log') \in Nat /\ Len(log) <= Len(log')
      /\ \A i \in 1 .. Len(log) : log'[i] = log[i]
  BY LogOnlyGrows
<1>i. \A i \in 1 .. Len(log') : i \in 1 .. Len(log) \/ i \in Len(log) + 1 .. Len(log')
  BY <1>0
<1>1. \A m \in Msg, i \in 1 .. Len(log') :
         /\ Of("client", m, i)' <=> i \in 1 .. Len(log) /\ Of("client", m, i)
         /\ RefusedAt(m, i)' <=> i \in 1 .. Len(log) /\ RefusedAt(m, i)
  BY <1>0, <1>i DEF QuietLines, EndsOfTalk, Of, RefusedAt
<1>2. OneLineEach'
  <2> SUFFICES ASSUME NEW m \in Msg
               PROVE  /\ msg'[m] = "new" => \A i \in 1 .. Len(log') : ~ Of("client", m, i)'
                      /\ \A i, j \in 1 .. Len(log') : Of("client", m, i)' /\ Of("client", m, j)' => i = j
                      /\ \A i, j \in 1 .. Len(log') : RefusedAt(m, i)' /\ RefusedAt(m, j)' => i = j
    BY DEF OneLineEach, Of, RefusedAt
  <2>1. msg'[m] = "new" => msg[m] = "new"
    BY DEF QuietMove
  <2> QED
    BY <1>1, <2>1 DEF TalkInv, OneLineEach
<1>3. \A i \in 1 .. Len(log), j \in 1 .. Len(log) : NoneBetween(i, j) => NoneBetween(i, j)'
  BY <1>0 DEF NoneBetween
<1>4. \A i \in 1 .. Len(log) : NoneBetween(i, Len(log) + 1) => NoneBetween(i, Len(log) + 1)'
  BY <1>0 DEF NoneBetween, QuietLines
<1>5. TalksInTurn'
  <2> SUFFICES ASSUME NEW m \in Msg
               PROVE  /\ msg'[m] \in {"open", "answer"} =>
                            \E i \in 1 .. Len(log') : Of("client", m, i)' /\ NoneBetween(i, Len(log) + 1)'
                      /\ \A j \in 1 .. Len(log') : RefusedAt(m, j)' =>
                            \E i \in 1 .. j - 1 : Of("client", m, i)' /\ NoneBetween(i, j)'
    BY DEF TalksInTurn, Of, RefusedAt, NoneBetween
  <2>1. msg'[m] \in {"open", "answer"} => msg[m] \in {"open", "answer"}
    BY DEF QuietMove
  <2>2. ASSUME msg'[m] \in {"open", "answer"}
        PROVE  \E i \in 1 .. Len(log') : Of("client", m, i)' /\ NoneBetween(i, Len(log) + 1)'
    <3>1. PICK i \in 1 .. Len(log) : Of("client", m, i) /\ NoneBetween(i, Len(log) + 1)
      BY <2>1, <2>2 DEF TalkInv, TalksInTurn
    <3>2. i \in 1 .. Len(log')
      BY <1>0
    <3> QED
      BY <1>1, <1>4, <3>1, <3>2
  <2>3. ASSUME NEW j \in 1 .. Len(log'), RefusedAt(m, j)'
        PROVE  \E i \in 1 .. j - 1 : Of("client", m, i)' /\ NoneBetween(i, j)'
    <3>1. j \in 1 .. Len(log) /\ RefusedAt(m, j)
      BY <1>1, <2>3
    <3>2. PICK i \in 1 .. j - 1 : Of("client", m, i) /\ NoneBetween(i, j)
      BY <3>1 DEF TalkInv, TalksInTurn
    <3>3. i \in 1 .. Len(log) /\ i \in 1 .. Len(log')
      BY <1>0, <3>1
    <3> QED
      BY <1>1, <1>3, <3>1, <3>2, <3>3
  <2> QED
    BY <2>2, <2>3
<1> QED
  BY <1>2, <1>5 DEF TalkInv

LineAdded(kind, m, e) ==
    /\ Len(log) \in Nat /\ Len(log') = e /\ e \in Nat /\ e > 0
    /\ \A i \in 1 .. Len(log') : i \in 1 .. Len(log) \/ i = e
    /\ \A n \in Msg, i \in 1 .. Len(log) : /\ Of("client", n, i)' <=> Of("client", n, i)
                                           /\ RefusedAt(n, i)' <=> RefusedAt(n, i)
    /\ \A n \in Msg : /\ Of("client", n, e)' <=> kind = "client" /\ n = m
                      /\ RefusedAt(n, e)' <=> kind = "refused" /\ n = m
    /\ \A i, j \in 1 .. e : NoneBetween(i, j) => NoneBetween(i, j)'

\* One line more, about a message.
LEMMA TalkLine ==
  ASSUME Typed, NEW m \in Msg, NEW kind \in EndsOfTalk,
         log' = Append(log, Line(kind, m, 0)), NEW e, e = Len(log) + 1
  PROVE  LineAdded(kind, m, e)
<1>1. LogOk /\ LineOk(Line(kind, m, 0))
  BY LineIsOne DEF Typed, EndsOfTalk, OfMessage
<1>2. /\ Len(log) \in Nat /\ Len(log') = e /\ e \in Nat /\ e > 0 /\ log'[e] = Line(kind, m, 0)
      /\ \A i \in 1 .. Len(log) : log'[i] = log[i]
  BY <1>1, OneLineMore
<1>3. log'[e].kind = kind /\ log'[e].of = m /\ e \in 1 .. Len(log')
  BY <1>2 DEF Line
<1>4. \A i, j \in 1 .. e : NoneBetween(i, j) => NoneBetween(i, j)'
  BY <1>2 DEF NoneBetween
<1>5. \A i \in 1 .. Len(log') : i \in 1 .. Len(log) \/ i = e
  BY <1>2
<1>6. \A n \in Msg, i \in 1 .. Len(log) : /\ Of("client", n, i)' <=> Of("client", n, i)
                                          /\ RefusedAt(n, i)' <=> RefusedAt(n, i)
  BY <1>2 DEF Of, RefusedAt
<1>7. \A n \in Msg : /\ Of("client", n, e)' <=> kind = "client" /\ n = m
                     /\ RefusedAt(n, e)' <=> kind = "refused" /\ n = m
  BY <1>3 DEF Of, RefusedAt
<1> QED
  BY <1>2, <1>4, <1>5, <1>6, <1>7 DEF LineAdded

\* A message begins: none is being judged or answered.
LEMMA TalkOpens == ASSUME Typed, JudgeInv, TalkInv, NEW m \in Msg, Opens(m) PROVE TalkInv'
<1>0. /\ msg[m] = "new" /\ msg' = [msg EXCEPT ![m] = "open"] /\ msg \in [Msg -> MsgState]
      /\ \A n \in Msg : msg[n] \notin {"open", "answer"}
      /\ log' = Append(log, Line("client", m, 0)) /\ "client" \in EndsOfTalk
  BY DEF Typed, OutsideOk, JudgeInv, OneAtATime, Opens, Logs, EndsOfTalk
<1>e. PICK e : e = Len(log) + 1
  OBVIOUS
<1>a. LineAdded("client", m, e)
  BY <1>0, <1>e, TalkLine
<1>1. /\ Len(log) \in Nat /\ Len(log') = e /\ e \in Nat /\ e > 0
      /\ \A i \in 1 .. Len(log') : i \in 1 .. Len(log) \/ i = e
      /\ \A n \in Msg, i \in 1 .. Len(log) : /\ Of("client", n, i)' <=> Of("client", n, i)
                                             /\ RefusedAt(n, i)' <=> RefusedAt(n, i)
      /\ \A n \in Msg : /\ Of("client", n, e)' <=> n = m
                        /\ ~ RefusedAt(n, e)'
      /\ \A i, j \in 1 .. e : NoneBetween(i, j) => NoneBetween(i, j)'
  BY <1>a DEF LineAdded
<1>2. OneLineEach'
  <2> SUFFICES ASSUME NEW n \in Msg
               PROVE  /\ msg'[n] = "new" => \A i \in 1 .. Len(log') : ~ Of("client", n, i)'
                      /\ \A i, j \in 1 .. Len(log') : Of("client", n, i)' /\ Of("client", n, j)' => i = j
                      /\ \A i, j \in 1 .. Len(log') : RefusedAt(n, i)' /\ RefusedAt(n, j)' => i = j
    BY DEF OneLineEach, Of, RefusedAt
  <2>1. CASE n = m
    <3>1. msg'[n] = "open" /\ \A i \in 1 .. Len(log) : ~ Of("client", n, i)
      BY <1>0, <2>1 DEF TalkInv, OneLineEach
    <3> QED
      BY <1>1, <3>1 DEF TalkInv, OneLineEach
  <2>2. CASE n # m
    BY <1>0, <1>1, <2>2 DEF TalkInv, OneLineEach
  <2> QED
    BY <2>1, <2>2
<1>3. TalksInTurn'
  <2> SUFFICES ASSUME NEW n \in Msg
               PROVE  /\ msg'[n] \in {"open", "answer"} =>
                            \E i \in 1 .. Len(log') : Of("client", n, i)' /\ NoneBetween(i, Len(log) + 1)'
                      /\ \A j \in 1 .. Len(log') : RefusedAt(n, j)' =>
                            \E i \in 1 .. j - 1 : Of("client", n, i)' /\ NoneBetween(i, j)'
    BY DEF TalksInTurn, Of, RefusedAt, NoneBetween
  <2>1. ASSUME msg'[n] \in {"open", "answer"}
        PROVE  \E i \in 1 .. Len(log') : Of("client", n, i)' /\ NoneBetween(i, Len(log) + 1)'
    <3>1. n = m
      BY <1>0, <2>1
    <3>2. NoneBetween(e, Len(log) + 1)'
      BY <1>1 DEF NoneBetween
    <3>3. e \in 1 .. Len(log')
      BY <1>1
    <3> QED
      BY <1>1, <3>1, <3>2, <3>3
  <2>2. ASSUME NEW j \in 1 .. Len(log'), RefusedAt(n, j)'
        PROVE  \E i \in 1 .. j - 1 : Of("client", n, i)' /\ NoneBetween(i, j)'
    <3>1. j \in 1 .. Len(log) /\ RefusedAt(n, j)
      BY <1>1, <2>2
    <3>2. PICK i \in 1 .. j - 1 : Of("client", n, i) /\ NoneBetween(i, j)
      BY <3>1 DEF TalkInv, TalksInTurn
    <3>3. i \in 1 .. Len(log) /\ i \in 1 .. e /\ j \in 1 .. e
      BY <1>1, <1>e, <3>1
    <3> QED
      BY <1>1, <3>2, <3>3
  <2> QED
    BY <2>1, <2>2
<1> QED
  BY <1>2, <1>3 DEF TalkInv

\* The refusal ends the talk it belongs to.
LEMMA TalkAnswers == ASSUME Typed, JudgeInv, RowInv, TalkInv, NEW m \in Msg, Answers(m) PROVE TalkInv'
<1>0. /\ msg[m] = "answer" /\ msg' = [msg EXCEPT ![m] = "refused"] /\ msg \in [Msg -> MsgState]
      /\ \A n \in Msg : msg[n] \in {"open", "answer"} => n = m
      /\ log' = Append(log, Line("refused", m, 0)) /\ "refused" \in EndsOfTalk
  BY DEF Typed, OutsideOk, JudgeInv, OneAtATime, Answers, Logs, EndsOfTalk
<1>e. PICK e : e = Len(log) + 1
  OBVIOUS
<1>a. LineAdded("refused", m, e)
  BY <1>0, <1>e, TalkLine
<1>1. /\ Len(log) \in Nat /\ Len(log') = e /\ e \in Nat /\ e > 0
      /\ \A i \in 1 .. Len(log') : i \in 1 .. Len(log) \/ i = e
      /\ \A n \in Msg, i \in 1 .. Len(log) : /\ Of("client", n, i)' <=> Of("client", n, i)
                                             /\ RefusedAt(n, i)' <=> RefusedAt(n, i)
      /\ \A n \in Msg : /\ ~ Of("client", n, e)'
                        /\ RefusedAt(n, e)' <=> n = m
      /\ \A i, j \in 1 .. e : NoneBetween(i, j) => NoneBetween(i, j)'
  BY <1>a DEF LineAdded
<1>2. \A i \in 1 .. Len(log) : ~ RefusedAt(m, i)
  BY <1>0 DEF RowInv, NothingBefore
<1>3. OneLineEach'
  <2> SUFFICES ASSUME NEW n \in Msg
               PROVE  /\ msg'[n] = "new" => \A i \in 1 .. Len(log') : ~ Of("client", n, i)'
                      /\ \A i, j \in 1 .. Len(log') : Of("client", n, i)' /\ Of("client", n, j)' => i = j
                      /\ \A i, j \in 1 .. Len(log') : RefusedAt(n, i)' /\ RefusedAt(n, j)' => i = j
    BY DEF OneLineEach, Of, RefusedAt
  <2>1. msg'[n] = "new" => msg[n] = "new"
    BY <1>0
  <2>2. CASE n = m
    BY <1>1, <1>2, <2>1, <2>2 DEF TalkInv, OneLineEach
  <2>3. CASE n # m
    BY <1>1, <2>1, <2>3 DEF TalkInv, OneLineEach
  <2> QED
    BY <2>2, <2>3
<1>4. TalksInTurn'
  <2> SUFFICES ASSUME NEW n \in Msg
               PROVE  /\ msg'[n] \notin {"open", "answer"}
                      /\ \A j \in 1 .. Len(log') : RefusedAt(n, j)' =>
                            \E i \in 1 .. j - 1 : Of("client", n, i)' /\ NoneBetween(i, j)'
    BY DEF TalksInTurn, Of, RefusedAt, NoneBetween
  <2>1. msg'[n] \notin {"open", "answer"}
    BY <1>0
  <2>2. ASSUME NEW j \in 1 .. Len(log'), RefusedAt(n, j)'
        PROVE  \E i \in 1 .. j - 1 : Of("client", n, i)' /\ NoneBetween(i, j)'
    <3>1. \E i \in 1 .. j - 1 : Of("client", n, i) /\ NoneBetween(i, j)
      <4>1. CASE j \in 1 .. Len(log)
        BY <1>1, <2>2, <4>1 DEF TalkInv, TalksInTurn
      <4>2. CASE j = e
        <5>1. n = m
          BY <1>1, <2>2, <4>2
        <5>2. PICK i \in 1 .. Len(log) : Of("client", m, i) /\ NoneBetween(i, e)
          BY <1>0, <1>e DEF TalkInv, TalksInTurn
        <5>3. i \in 1 .. j - 1
          BY <1>1, <1>e, <4>2
        <5> QED
          BY <1>e, <4>2, <5>1, <5>2, <5>3
      <4> QED
        BY <1>1, <4>1, <4>2
    <3>2. PICK i \in 1 .. j - 1 : Of("client", n, i) /\ NoneBetween(i, j)
      BY <3>1
    <3>3. i \in 1 .. Len(log) /\ i \in 1 .. e /\ j \in 1 .. e
      BY <1>1, <1>e
    <3> QED
      BY <1>1, <3>2, <3>3
  <2> QED
    BY <2>1, <2>2
<1> QED
  BY <1>3, <1>4 DEF TalkInv

LEMMA TalkStep == ASSUME Typed, JudgeInv, RowInv, TalkInv, [Next]_vars PROVE TalkInv'
<1>1. ASSUME NEW m \in Msg, Opens(m) \/ Answers(m) PROVE TalkInv'
  BY <1>1, TalkOpens, TalkAnswers
<1> QED
  BY <1>1, QuietSteps, TalkQuiet

-----------------------------------------------------------------------------
(* The login a row is to name.                                             *)

\* What was read stays as it was read, whatever is written after it.
LEMMA ReadLinesStay ==
  ASSUME Typed, [Next]_vars
  PROVE  /\ pos \in Nat /\ place \in Nat /\ Len(log) \in Nat /\ pos <= Len(log)
         /\ \A k \in OfMessage, m \in Msg, i \in 1 .. Len(log) : Of(k, m, i)' <=> Of(k, m, i)
         /\ \A m \in Msg, i \in 1 .. Len(log) : RefusedAt(m, i)' <=> RefusedAt(m, i)
         /\ \A m \in Msg, n \in 0 .. Len(log) : RefusedBy(m, n) => \E j \in 1 .. n : RefusedAt(m, j)'
<1>0. /\ Len(log) \in Nat /\ Len(log') \in Nat /\ Len(log) <= Len(log')
      /\ \A i \in 1 .. Len(log) : log'[i] = log[i]
  BY LogOnlyGrows
<1>1. pos \in Nat /\ place \in Nat /\ pos <= Len(log)
  BY <1>0 DEF Typed, TailerOk, StoreOk
<1>2. \A k \in OfMessage, m \in Msg, i \in 1 .. Len(log) : Of(k, m, i)' <=> Of(k, m, i)
  BY <1>0 DEF Of
<1>3. \A m \in Msg, i \in 1 .. Len(log) : RefusedAt(m, i)' <=> RefusedAt(m, i)
  BY <1>0 DEF RefusedAt
<1>4. \A m \in Msg, n \in 0 .. Len(log) : RefusedBy(m, n) => \E j \in 1 .. n : RefusedAt(m, j)'
  BY <1>0, <1>3 DEF RefusedBy
<1> QED
  BY <1>0, <1>1, <1>2, <1>3, <1>4

\* Steps apart from the logins and the refusals: other lines, other rows.
OtherTalk ==
    /\ UNCHANGED <<logins, recover, place, passedBy>>
    /\ \A m \in Msg : row'[m].named = row[m].named
    /\ pos' = pos \/ (pos' = pos + 1 /\ pos < Len(log) /\ log[pos + 1].kind \notin EndsOfTalk)
    /\ \A p \in pending' : p \in pending \/ p.start = pos

LEMMA NameElsewhere == ASSUME Typed, NameInv, [Next]_vars, OtherTalk PROVE NameInv'
<1>0. /\ pos \in Nat /\ place \in Nat /\ Len(log) \in Nat /\ pos <= Len(log) /\ place <= Len(log)
      /\ \A k \in OfMessage, m \in Msg, i \in 1 .. Len(log) : Of(k, m, i)' <=> Of(k, m, i)
      /\ \A m \in Msg, i \in 1 .. Len(log) : RefusedAt(m, i)' <=> RefusedAt(m, i)
      /\ \A m \in Msg, n \in 0 .. Len(log) : RefusedBy(m, n) => \E j \in 1 .. n : RefusedAt(m, j)'
      /\ "client" \in OfMessage
  BY ReadLinesStay DEF Typed, StoreOk, OfMessage
<1>1. /\ pos' \in Nat /\ pos <= pos' /\ pos' <= Len(log)
      /\ \A m \in Msg, i \in 1 .. pos' : Of("client", m, i) \/ RefusedAt(m, i) => i \in 1 .. pos
  BY <1>0 DEF OtherTalk, EndsOfTalk, Of, RefusedAt
<1>2. LoginIsALine'
  <2> SUFFICES ASSUME NEW l \in logins' PROVE Of("client", l.of, l.start + 1)'
    BY DEF LoginIsALine
  <2>1. l \in logins /\ l.of \in Msg /\ Of("client", l.of, l.start + 1)
    BY DEF OtherTalk, NameInv, LoginIsALine, Typed, TailerOk, LoginType
  <2>2. PICK s : s = l.start + 1
    OBVIOUS
  <2>3. s \in 1 .. Len(log) /\ Of("client", l.of, s)
    BY <2>1, <2>2 DEF Of
  <2> QED
    BY <1>0, <2>1, <2>2, <2>3
<1>3. LoginKnown'
  <2> SUFFICES ASSUME NEW m \in Msg, NEW i \in 1 .. pos', Of("client", m, i)'
               PROVE  (\E l \in logins' : l.of = m) \/ m \in passedBy' \/ \E j \in 1 .. pos' : RefusedAt(m, j)'
    BY DEF LoginKnown, RefusedBy
  <2>1. i \in 1 .. pos /\ Of("client", m, i)
    BY <1>0, <1>1
  <2>2. (\E l \in logins : l.of = m) \/ m \in passedBy \/ RefusedBy(m, pos)
    BY <2>1 DEF NameInv, LoginKnown
  <2>3. RefusedBy(m, pos) => \E j \in 1 .. pos' : RefusedAt(m, j)'
    BY <1>0, <1>1
  <2> QED
    BY <2>2, <2>3 DEF OtherTalk
<1>4. WaitIsNamed'
  <2> SUFFICES ASSUME NEW w \in recover'
               PROVE  /\ w.named => Of("client", w.of, w.start + 1)'
                      /\ ~ w.named => w.start = w.line /\ w.of \in passedBy'
    BY DEF WaitIsNamed
  <2>1. /\ w \in recover /\ w.of \in Msg
        /\ w.named => Of("client", w.of, w.start + 1)
        /\ ~ w.named => w.start = w.line /\ w.of \in passedBy
    BY DEF OtherTalk, NameInv, WaitIsNamed, Typed, TailerOk, WaitType
  <2>2. PICK s : s = w.start + 1
    OBVIOUS
  <2>3. w.named => Of("client", w.of, s)'
    BY <1>0, <2>1, <2>2 DEF Of
  <2> QED
    BY <2>1, <2>2, <2>3 DEF OtherTalk
<1>5. WaitsInTurn'
  <2> SUFFICES ASSUME NEW p \in pending', NEW m \in Msg, NEW j \in 1 .. pos', RefusedAt(m, j)', p.start < j
               PROVE  \E w \in recover' : w.of = m /\ w.line + 1 = j
    BY DEF WaitsInTurn
  <2>1. j \in 1 .. pos /\ RefusedAt(m, j)
    BY <1>0, <1>1
  <2>2. p \in pending
    BY <1>0, <2>1 DEF OtherTalk
  <2> QED
    BY <2>1, <2>2 DEF OtherTalk, NameInv, WaitsInTurn
<1>6. PlaceKnown'
  <2> SUFFICES ASSUME NEW m \in Msg, NEW i \in 1 .. place', Of("client", m, i)'
               PROVE  m \in passedBy' \/ \E j \in 1 .. place' : RefusedAt(m, j)'
    BY DEF PlaceKnown, RefusedBy
  <2>1. i \in 1 .. place /\ Of("client", m, i)
    BY <1>0 DEF OtherTalk
  <2> QED
    BY <1>0, <2>1 DEF OtherTalk, NameInv, PlaceKnown
<1>7. RecoveredRowIsNamed'
  BY DEF OtherTalk, NameInv, RecoveredRowIsNamed
<1> QED
  BY <1>2, <1>3, <1>4, <1>5, <1>6, <1>7 DEF NameInv

\* What is apart from them.
LEMMA OtherTalks ==
  ASSUME Typed
  PROVE  /\ \A m \in Msg : Opens(m) \/ Judges(m) \/ Refuses(m) \/ Answers(m) \/ LetsGo(m) => OtherTalk
         /\ \A t \in Contents : Panel(t) => OtherTalk
         /\ Writes => OtherTalk
         /\ \A p \in Pid, c \in Conn : TurnsAway(p, c) => OtherTalk
         /\ \A p \in Pid : WarnsAgain(p) \/ ClientLeaves(p) => OtherTalk
         /\ \A r \in Refusal, t \in Texts : MailRefused(r, t) => OtherTalk
         /\ HandleMail \/ HandleConnect \/ HandleWarning \/ HandleBroken => OtherTalk
         /\ \A p \in pending : Retries(p) => OtherTalk
         /\ Starts => OtherTalk
         /\ UNCHANGED vars => OtherTalk
<1> USE DEF OtherTalk, store, tailer, seen, outside, EndsOfTalk
<1>1. \A m \in Msg : Opens(m) \/ Judges(m) \/ Refuses(m) \/ Answers(m) \/ LetsGo(m) => OtherTalk
  BY DEF Opens, Judges, Refuses, Answers, LetsGo
<1>2. \A t \in Contents : Panel(t) => OtherTalk
  BY DEF Panel
<1>3. Writes => OtherTalk
  <2> SUFFICES ASSUME Writes PROVE OtherTalk
    OBVIOUS
  <2>1. row \in [Msg -> RowType] /\ buffer \in Seq(Msg) /\ buffer # <<>>
    BY DEF Typed, StoreOk, OutsideOk, Writes
  <2>2. PICK n \in Msg : n = Head(buffer)
    BY <2>1
  <2>3. PICK named \in BOOLEAN : named = row[n].named
    BY <2>1 DEF RowType
  <2>4. ASSUME Inserted(n, "own", named) PROVE \A m \in Msg : row'[m].named = row[m].named
    <3>1. row'[n].named = named /\ \A m \in Msg \ {n} : row'[m] = row[m]
      BY <2>1, <2>4, RowInserted
    <3> QED
      BY <2>3, <3>1
  <2>5. \A m \in Msg : row'[m].named = row[m].named
    BY <2>2, <2>3, <2>4 DEF Writes
  <2> QED
    BY <2>5 DEF Writes
<1>4. \A p \in Pid, c \in Conn : TurnsAway(p, c) => OtherTalk
  BY DEF TurnsAway
<1>5. \A p \in Pid : WarnsAgain(p) \/ ClientLeaves(p) => OtherTalk
  BY DEF WarnsAgain, ClientLeaves
<1>6. \A r \in Refusal, t \in Texts : MailRefused(r, t) => OtherTalk
  BY DEF MailRefused
<1>7. HandleConnect \/ HandleWarning \/ HandleBroken => OtherTalk
  BY DEF HandleConnect, HandleWarning, HandleBroken, Handled, Next1
<1>8. HandleMail => OtherTalk
  BY DEF HandleMail, Handled, Next1
<1>9. \A p \in pending : Retries(p) => OtherTalk
  BY DEF Retries
<1>10. Starts => OtherTalk
  BY DEF Starts
<1>11. UNCHANGED vars => OtherTalk
  BY DEF vars
<1> QED
  BY <1>1, <1>2, <1>3, <1>4, <1>5, <1>6, <1>7, <1>8, <1>9, <1>10, <1>11

\* The login is remembered from the client's line on (remember).
LEMMA NameHandleClient == ASSUME Typed, NameInv, HandleClient PROVE NameInv'
<1>0. /\ pos < Len(log) /\ Next1.kind = "client" /\ pos' = pos + 1 /\ Next1 = log[pos + 1]
      /\ pos \in Nat /\ Len(log) \in Nat
      /\ logins' = logins \cup {[of |-> Next1.of, start |-> pos]}
      /\ UNCHANGED <<log, row, place, recover, pending, passedBy>>
  BY NextLine DEF Typed, LogOk, TailerOk, HandleClient, Handled, store
<1>1. /\ Of("client", Next1.of, pos + 1) /\ Next1.of \in Msg
      /\ \A m \in Msg : ~ RefusedAt(m, pos + 1)
      /\ \A i \in 1 .. pos' : i \in 1 .. pos \/ i = pos + 1
  BY <1>0, NextLine DEF Of, RefusedAt, LineOk, OfMessage
<1>2. LoginIsALine'
  BY <1>0, <1>1 DEF NameInv, LoginIsALine, Of
<1>3. LoginKnown'
  <2> SUFFICES ASSUME NEW m \in Msg, NEW i \in 1 .. pos', Of("client", m, i)
               PROVE  (\E l \in logins' : l.of = m) \/ m \in passedBy' \/ RefusedBy(m, pos')
    BY <1>0 DEF LoginKnown, RefusedBy, RefusedAt, Of
  <2>1. CASE i = pos + 1
    <3>1. PICK l : l \in logins' /\ l.of = Next1.of
      <4> DEFINE l == [of |-> Next1.of, start |-> pos]
      <4>1. l \in logins' /\ l.of = Next1.of
        BY <1>0
      <4> QED
        BY <4>1, Zenon
    <3> QED
      BY <1>0, <2>1, <3>1 DEF Of
  <2>2. CASE i \in 1 .. pos
    <3>1. (\E l \in logins : l.of = m) \/ m \in passedBy \/ RefusedBy(m, pos)
      BY <2>2 DEF NameInv, LoginKnown
    <3> QED
      BY <1>0, <3>1 DEF RefusedBy
  <2> QED
    BY <1>1, <2>1, <2>2
<1>4. WaitIsNamed' /\ PlaceKnown' /\ RecoveredRowIsNamed'
  BY <1>0 DEF NameInv, WaitIsNamed, PlaceKnown, RecoveredRowIsNamed, Of, RefusedBy, RefusedAt
<1>5. WaitsInTurn'
  <2> SUFFICES ASSUME NEW p \in pending, NEW m \in Msg, NEW j \in 1 .. pos', RefusedAt(m, j), p.start < j
               PROVE  \E w \in recover : w.of = m /\ w.line + 1 = j
    BY <1>0 DEF WaitsInTurn, RefusedAt
  <2>1. j \in 1 .. pos
    BY <1>1
  <2> QED
    BY <2>1 DEF NameInv, WaitsInTurn
<1> QED
  BY <1>2, <1>3, <1>4, <1>5 DEF NameInv

\* The refusal's row waits with the login that was remembered; there is none
\* only if the place was saved past it.
LEMMA NameHandleRefused == ASSUME Typed, TalkInv, NameInv, HandleRefused PROVE NameInv'
<1> DEFINE from == {l.start : l \in {l \in logins : l.of = Next1.of}}
<1>0. /\ pos < Len(log) /\ Next1.kind = "refused" /\ pos' = pos + 1 /\ Next1 = log[pos + 1]
      /\ pos \in Nat /\ Len(log) \in Nat
      /\ UNCHANGED <<log, row, place, logins, pending, passedBy>>
  BY NextLine DEF Typed, LogOk, TailerOk, HandleRefused, Handled, store
<1>1. PICK n \in Msg : n = Next1.of
  BY <1>0, NextLine DEF LineOk, OfMessage
<1>2. /\ RefusedAt(n, pos + 1) /\ \A m \in Msg : RefusedAt(m, pos + 1) => m = n
      /\ \A m \in Msg : ~ Of("client", m, pos + 1)
      /\ \A i \in 1 .. pos' : i \in 1 .. pos \/ i = pos + 1
  BY <1>0, <1>1, NextLine DEF Of, RefusedAt
<1>3. /\ from \subseteq Nat
      /\ from = {} => \A l \in logins : l.of # n
      /\ \A s \in from : Of("client", n, s + 1)
  BY <1>1 DEF NameInv, LoginIsALine, Typed, TailerOk, LoginType
<1>4. PICK w : /\ recover' = recover \cup {w} /\ w.of = n /\ w.line = pos
               /\ w.named <=> from # {}
               /\ w.start = IF from = {} THEN pos ELSE Min(from)
  <2> DEFINE v == [of |-> Next1.of, line |-> pos, start |-> IF from = {} THEN pos ELSE Min(from), named |-> from # {}]
  <2>1. recover' = recover \cup {v}
    BY DEF HandleRefused
  <2>2. /\ v.of = n /\ v.line = pos /\ (v.named <=> from # {})
        /\ v.start = IF from = {} THEN pos ELSE Min(from)
    BY <1>1
  <2> HIDE DEF v
  <2> QED
    BY <2>1, <2>2
<1> HIDE DEF from
<1>5. w.named => Of("client", n, w.start + 1)
  BY <1>3, <1>4, LeastPlace
<1>6. ~ w.named => n \in passedBy
  <2> SUFFICES ASSUME ~ w.named PROVE n \in passedBy
    OBVIOUS
  <2>1. pos + 1 \in 1 .. Len(log)
    BY <1>0
  <2>2. PICK i \in 1 .. (pos + 1) - 1 : Of("client", n, i)
    BY <1>2, <2>1 DEF TalkInv, TalksInTurn
  <2>3. i \in 1 .. pos
    BY <1>0
  <2>4. n \in passedBy \/ RefusedBy(n, pos)
    BY <1>3, <1>4, <2>2, <2>3 DEF NameInv, LoginKnown
  <2>5. ~ RefusedBy(n, pos)
    <3> SUFFICES ASSUME NEW j \in 1 .. pos, RefusedAt(n, j) PROVE FALSE
      BY DEF RefusedBy
    <3>1. j \in 1 .. Len(log) /\ j # pos + 1
      BY <1>0
    <3> QED
      BY <1>2, <2>1, <3>1 DEF TalkInv, OneLineEach
  <2> QED
    BY <2>4, <2>5
<1>7. WaitIsNamed'
  <2> SUFFICES ASSUME NEW v \in recover'
               PROVE  /\ v.named => Of("client", v.of, v.start + 1)
                      /\ ~ v.named => v.start = v.line /\ v.of \in passedBy
    BY <1>0 DEF WaitIsNamed, Of
  <2>1. CASE v = w
    BY <1>4, <1>5, <1>6, <2>1
  <2>2. CASE v \in recover
    BY <2>2 DEF NameInv, WaitIsNamed
  <2> QED
    BY <1>4, <2>1, <2>2
<1>8. LoginIsALine' /\ PlaceKnown' /\ RecoveredRowIsNamed'
  BY <1>0 DEF NameInv, LoginIsALine, PlaceKnown, RecoveredRowIsNamed, Of, RefusedBy, RefusedAt
<1>9. LoginKnown'
  <2> SUFFICES ASSUME NEW m \in Msg, NEW i \in 1 .. pos', Of("client", m, i)
               PROVE  (\E l \in logins : l.of = m) \/ m \in passedBy \/ RefusedBy(m, pos')
    BY <1>0 DEF LoginKnown, RefusedBy, RefusedAt, Of
  <2>1. i \in 1 .. pos
    BY <1>2
  <2>2. (\E l \in logins : l.of = m) \/ m \in passedBy \/ RefusedBy(m, pos)
    BY <2>1 DEF NameInv, LoginKnown
  <2> QED
    BY <1>0, <2>2 DEF RefusedBy
<1>10. WaitsInTurn'
  <2> SUFFICES ASSUME NEW p \in pending, NEW m \in Msg, NEW j \in 1 .. pos', RefusedAt(m, j), p.start < j
               PROVE  \E v \in recover' : v.of = m /\ v.line + 1 = j
    BY <1>0 DEF WaitsInTurn, RefusedAt
  <2>1. CASE j = pos + 1
    BY <1>2, <1>4, <2>1
  <2>2. CASE j \in 1 .. pos
    BY <1>4, <2>2 DEF NameInv, WaitsInTurn
  <2> QED
    BY <1>2, <2>1, <2>2
<1> QED
  BY <1>7, <1>8, <1>9, <1>10 DEF NameInv

\* The wait is over only when that of every line before is: what still waits
\* is later than the refusal (retry).
LEMMA NameRecovers == ASSUME Typed, NameInv, NEW w \in recover, Recovers(w) PROVE NameInv'
<1> DEFINE n == w.of
<1>0. /\ w \in WaitType /\ n \in Msg /\ w.named \in BOOLEAN /\ w.line \in Nat
      /\ recover' = recover \ {w} /\ row \in [Msg -> RowType]
      /\ \A p \in pending : p.start > w.line /\ p.start \in Nat
      /\ UNCHANGED <<log, place, pos, logins, pending, passedBy>>
  BY DEF Typed, TailerOk, StoreOk, WaitType, PendingType, Recovers
<1>1. LoginIsALine' /\ LoginKnown' /\ PlaceKnown'
  BY <1>0 DEF NameInv, LoginIsALine, LoginKnown, PlaceKnown, Of, RefusedBy, RefusedAt
<1>2. WaitIsNamed'
  BY <1>0 DEF NameInv, WaitIsNamed, Of
<1>3. WaitsInTurn'
  <2> SUFFICES ASSUME NEW p \in pending, NEW m \in Msg, NEW j \in 1 .. pos, RefusedAt(m, j), p.start < j
               PROVE  \E v \in recover' : v.of = m /\ v.line + 1 = j
    BY <1>0 DEF WaitsInTurn, RefusedAt
  <2>1. PICK v \in recover : v.of = m /\ v.line + 1 = j
    BY DEF NameInv, WaitsInTurn
  <2>2. v # w
    BY <1>0, <2>1
  <2> QED
    BY <1>0, <2>1, <2>2
<1>4. RecoveredRowIsNamed'
  <2> SUFFICES ASSUME NEW m \in Msg PROVE row'[m].named \/ m \in passedBy
    BY <1>0 DEF RecoveredRowIsNamed
  <2>1. row[m].named \/ m \in passedBy
    BY DEF NameInv, RecoveredRowIsNamed
  <2>2. ASSUME Inserted(n, "recovered", w.named) PROVE row'[m].named \/ m \in passedBy
    <3>1. PICK named \in BOOLEAN : named = w.named
      BY <1>0
    <3>2. Inserted(n, "recovered", named)
      BY <2>2, <3>1
    <3>3. row'[n].named = named /\ \A x \in Msg \ {n} : row'[x] = row[x]
      BY <1>0, <3>2, RowInserted
    <3>4. w.named \/ n \in passedBy
      BY DEF NameInv, WaitIsNamed
    <3> QED
      BY <2>1, <3>1, <3>3, <3>4
  <2>3. Inserted(n, "recovered", w.named) \/ row' = row
    BY DEF Recovers
  <2> QED
    BY <2>1, <2>2, <2>3
<1> QED
  BY <1>1, <1>2, <1>3, <1>4 DEF NameInv

\* The place is where the reading stands, or where something that waits began.
LEMMA HeldBySomething ==
  ASSUME Typed
  PROVE  Held = pos \/ (\E w \in recover : Held = w.start) \/ (\E p \in pending : Held = p.start)
<1> DEFINE S == {pos} \cup {w.start : w \in recover} \cup {p.start : p \in pending}
<1>1. S \subseteq Nat /\ S # {}
  BY DEF Typed, TailerOk, LogOk, WaitType, PendingType
<1>2. Min(S) \in S
  <2> HIDE DEF S
  <2> QED
    BY <1>1, LeastPlace
<1> QED
  BY <1>2 DEF Held

\* oldest: no place is saved between a client's line and a refusal that was
\* read, but for a message that was passed by before.
LEMMA HeldApart ==
  ASSUME Typed, RowInv, TalkInv, NameInv, NEW m \in Msg, NEW i \in 1 .. Held, Of("client", m, i),
         NEW j \in 1 .. pos, RefusedAt(m, j), m \notin passedBy
  PROVE  j <= Held
<1>0. /\ Held \in Nat /\ Held <= pos /\ pos \in Nat /\ i \in 1 .. Len(log) /\ j \in 1 .. Len(log)
      /\ \A w \in recover : Held <= w.start /\ w.start \in Nat /\ w.of \in Msg
  BY HeldPlace DEF Typed, TailerOk, WaitType, Of, RefusedAt
<1> SUFFICES ASSUME j > Held PROVE FALSE
  BY <1>0
<1>1. NoneBetween(i, j)
  <2>1. PICK k \in 1 .. j - 1 : Of("client", m, k) /\ NoneBetween(k, j)
    BY <1>0 DEF TalkInv, TalksInTurn
  <2>2. k = i
    BY <1>0, <2>1 DEF TalkInv, OneLineEach, Of
  <2> QED
    BY <2>1, <2>2
<1>2. \A k \in Held + 1 .. j : k = j \/ (~ (\E n \in Msg : Of("client", n, k)) /\ ~ \E n \in Msg : RefusedAt(n, k))
  BY <1>0, <1>1 DEF NoneBetween, EndsOfTalk, Of, RefusedAt
<1>3. /\ \A n \in Msg : ~ Of("client", n, j)
      /\ \A n \in Msg : RefusedAt(n, j) => n = m
  BY DEF Of, RefusedAt
<1>4. Held + 1 \in Held + 1 .. j
  BY <1>0
<1>5. ASSUME NEW w \in recover, Held = w.start PROVE FALSE
  <2>1. CASE w.named
    BY <1>0, <1>2, <1>3, <1>4, <1>5, <2>1 DEF NameInv, WaitIsNamed
  <2>2. CASE ~ w.named
    <3>1. w.start = w.line /\ w.of \in passedBy /\ RefusedAt(w.of, w.line + 1)
      BY <2>2 DEF NameInv, WaitIsNamed, RowInv, WaitsForALine
    <3> QED
      BY <1>0, <1>2, <1>3, <1>4, <1>5, <3>1
  <2> QED
    BY <2>1, <2>2
<1>6. ASSUME NEW p \in pending, Held = p.start PROVE FALSE
  <2>1. PICK w \in recover : w.of = m /\ w.line + 1 = j
    BY <1>6 DEF NameInv, WaitsInTurn
  <2>2. w.named /\ Of("client", m, w.start + 1)
    BY <2>1 DEF NameInv, WaitIsNamed
  <2>3. w.start + 1 = i
    BY <1>0, <2>2 DEF TalkInv, OneLineEach, Of
  <2> QED
    BY <1>0, <2>3
<1> QED
  BY <1>0, <1>5, <1>6, HeldBySomething

\* What Saves leaves of it: a message whose client line is before the place has
\* its refusal before it too, or is passed by.
LEMMA SavedPlace ==
  ASSUME Typed, RowInv, TalkInv, NameInv, Saves(Held) \/ UNCHANGED <<place, passedBy>>
  PROVE  /\ place' \in Nat /\ place' <= pos /\ passedBy \subseteq passedBy'
         /\ \A m \in Msg, i \in 1 .. place' : Of("client", m, i) => m \in passedBy' \/ RefusedBy(m, place')
<1>0. place \in Nat /\ place <= pos /\ pos \in Nat /\ pos <= Len(log) /\ Len(log) \in Nat
  BY DEF RowInv, PlaceWasRead, Typed, TailerOk, StoreOk, LogOk
<1>1. CASE UNCHANGED <<place, passedBy>>
  BY <1>0, <1>1 DEF NameInv, PlaceKnown
<1>2. CASE Saves(Held)
  <2>1. /\ place' = Held /\ Held \in Nat /\ Held <= pos
        /\ passedBy' = passedBy \cup
              {m \in Msg : /\ \E i \in 1 .. Held : log[i] = Line("client", m, 0)
                           /\ \A i \in 1 .. pos : log[i] # Line("refused", m, 0)}
    BY <1>2, HeldPlace DEF Saves
  <2>2. ASSUME NEW m \in Msg, NEW i \in 1 .. place', Of("client", m, i), m \notin passedBy'
        PROVE  RefusedBy(m, place')
    <3>1. i \in 1 .. Held /\ i \in 1 .. Len(log) /\ m \notin passedBy
      BY <1>0, <2>1, <2>2
    <3>2. log[i] = Line("client", m, 0)
      BY <2>2, <3>1 DEF Of, Typed, LogOk, LineOk, LineType, OfMessage, Line
    <3>3. PICK j \in 1 .. pos : log[j] = Line("refused", m, 0)
      BY <2>1, <2>2, <3>1, <3>2
    <3>4. RefusedAt(m, j)
      BY <1>0, <3>3 DEF RefusedAt, Line
    <3>5. j <= Held
      BY <2>2, <3>1, <3>4, HeldApart
    <3> QED
      BY <2>1, <3>4, <3>5 DEF RefusedBy
  <2> QED
    BY <2>1, <2>2
<1> QED
  BY <1>1, <1>2

LEMMA NamePassEnds == ASSUME Typed, RowInv, TalkInv, NameInv, PassEnds PROVE NameInv'
<1>1. /\ Saves(Held) \/ UNCHANGED <<place, passedBy>>
      /\ UNCHANGED <<log, row, pos, logins, recover, pending>>
  BY DEF PassEnds
<1>2. /\ passedBy \subseteq passedBy'
      /\ \A m \in Msg, i \in 1 .. place' : Of("client", m, i) => m \in passedBy' \/ RefusedBy(m, place')
  BY <1>1, SavedPlace
<1>3. LoginIsALine' /\ LoginKnown' /\ WaitIsNamed' /\ WaitsInTurn' /\ RecoveredRowIsNamed'
  BY <1>1, <1>2 DEF NameInv, LoginIsALine, LoginKnown, WaitIsNamed, WaitsInTurn, RecoveredRowIsNamed,
                    Of, RefusedBy, RefusedAt
<1>4. PlaceKnown'
  BY <1>1, <1>2 DEF PlaceKnown, Of, RefusedBy, RefusedAt
<1> QED
  BY <1>3, <1>4 DEF NameInv

\* A stop or a kill: what was read up to the place is without its login now.
LEMMA NameGoes == ASSUME Typed, RowInv, TalkInv, NameInv, [Next]_vars, Stops \/ Dies PROVE NameInv'
<1>1. /\ Saves(Held) \/ UNCHANGED <<place, passedBy>>
      /\ pos' = place' /\ logins' = {} /\ recover' = {} /\ pending' = {} /\ row' = row
  BY DEF Stops, Dies, Goes
<1>2. /\ place' \in Nat /\ place' <= pos /\ passedBy \subseteq passedBy'
      /\ \A m \in Msg, i \in 1 .. place' : Of("client", m, i) => m \in passedBy' \/ RefusedBy(m, place')
  BY <1>1, SavedPlace
<1>3. /\ pos \in Nat /\ Len(log) \in Nat /\ pos <= Len(log)
      /\ \A k \in OfMessage, m \in Msg, i \in 1 .. Len(log) : Of(k, m, i)' <=> Of(k, m, i)
      /\ \A m \in Msg, n \in 0 .. Len(log) : RefusedBy(m, n) => \E j \in 1 .. n : RefusedAt(m, j)'
      /\ "client" \in OfMessage
  BY ReadLinesStay DEF OfMessage
<1>4. \A m \in Msg, i \in 1 .. place' : Of("client", m, i)' => m \in passedBy' \/ \E j \in 1 .. place' : RefusedAt(m, j)'
  <2> TAKE m \in Msg, i \in 1 .. place'
  <2>1. i \in 1 .. Len(log) /\ place' \in 0 .. Len(log)
    BY <1>2, <1>3
  <2>2. Of("client", m, i)' => Of("client", m, i)
    BY <1>3, <2>1
  <2>3. RefusedBy(m, place') => \E j \in 1 .. place' : RefusedAt(m, j)'
    BY <1>3, <2>1
  <2> QED
    BY <1>2, <2>2, <2>3
<1>5. LoginKnown' /\ PlaceKnown'
  BY <1>1, <1>4 DEF LoginKnown, PlaceKnown, RefusedBy
<1>6. LoginIsALine' /\ WaitIsNamed' /\ WaitsInTurn'
  BY <1>1 DEF LoginIsALine, WaitIsNamed, WaitsInTurn
<1>7. RecoveredRowIsNamed'
  BY <1>1, <1>2 DEF NameInv, RecoveredRowIsNamed
<1> QED
  BY <1>5, <1>6, <1>7 DEF NameInv

LEMMA NameStep == ASSUME Typed, RowInv, TalkInv, NameInv, [Next]_vars PROVE NameInv'
<1>1. ASSUME OtherTalk PROVE NameInv'
  BY <1>1, NameElsewhere
<1>2. CASE Tailer
  <2>1. CASE HandleClient
    BY <2>1, NameHandleClient
  <2>2. CASE HandleRefused
    BY <2>2, NameHandleRefused
  <2>3. CASE \E w \in recover : Recovers(w)
    BY <2>3, NameRecovers
  <2>4. CASE PassEnds
    BY <2>4, NamePassEnds
  <2>5. CASE HandleMail \/ HandleConnect \/ HandleWarning \/ HandleBroken
    BY <2>5, <1>1, OtherTalks
  <2>6. CASE \E p \in pending : Retries(p)
    BY <2>6, <1>1, OtherTalks
  <2> QED
    BY <1>2, <2>1, <2>2, <2>3, <2>4, <2>5, <2>6 DEF Tailer
<1>3. CASE Stops \/ Dies
  BY <1>3, NameGoes
<1>4. CASE UNCHANGED vars
  BY <1>1, <1>4, OtherTalks
<1>5. CASE Next
  <2>1. CASE \E m \in Msg : Opens(m) \/ Judges(m) \/ Refuses(m) \/ Answers(m) \/ LetsGo(m)
    BY <2>1, <1>1, OtherTalks
  <2>2. CASE \E t \in Contents : Panel(t)
    BY <2>2, <1>1, OtherTalks
  <2>3. CASE Writes \/ Starts
    BY <2>3, <1>1, OtherTalks
  <2>4. CASE \E p \in Pid : (\E c \in Conn : TurnsAway(p, c)) \/ WarnsAgain(p) \/ ClientLeaves(p)
    BY <2>4, <1>1, OtherTalks
  <2>5. CASE \E r \in Refusal, t \in Texts : MailRefused(r, t)
    BY <2>5, <1>1, OtherTalks
  <2> QED
    BY <1>2, <1>3, <1>5, <2>1, <2>2, <2>3, <2>4, <2>5 DEF Next
<1> QED
  BY <1>4, <1>5

LEMMA NameInit == ASSUME Init PROVE TalkInv /\ NameInv
<1>1. /\ log = <<>> /\ Len(log) = 0 /\ pos = 0 /\ place = 0 /\ logins = {} /\ recover = {} /\ pending = {}
      /\ \A m \in Msg : msg[m] = "new" /\ row[m].named
  BY DEF Init, NoRow
<1>2. TalkInv
  BY <1>1 DEF TalkInv, OneLineEach, TalksInTurn
<1>3. NameInv
  BY <1>1 DEF NameInv, LoginIsALine, LoginKnown, WaitIsNamed, WaitsInTurn, PlaceKnown, RecoveredRowIsNamed
<1> QED
  BY <1>2, <1>3

LEMMA NamesAlways == Spec => [](TalkInv /\ NameInv)
<1>1. Init => TalkInv /\ NameInv
  BY NameInit
<1>2. Typed /\ JudgeInv /\ RowInv /\ (TalkInv /\ NameInv) /\ [Next]_vars => (TalkInv /\ NameInv)'
  BY TalkStep, NameStep
<1> QED
  BY <1>1, <1>2, AlwaysTyped, AlwaysJudged, RowsAlways, PTL DEF Spec

\* A row the tailer writes names the application, through every stop, kill and
\* failing store, but for a message whose login the place was saved past before
\* its refusal was read (refusalLines.oldest, remember).
THEOREM RecoveredRowIsAlwaysNamed == Spec => []RecoveredRowIsNamed
<1>1. NameInv => RecoveredRowIsNamed
  BY DEF NameInv
<1> QED
  BY <1>1, NamesAlways, PTL

-----------------------------------------------------------------------------
(* What is kept of a refusal at MAIL FROM, between its row and its line.   *)

Given == {r \in Refusal : refused[r] # "none"}
MailAt == {i \in 1 .. Len(log) : log[i].kind = "mail"}

\* As many lines as refusals, with a row or without.
AsManyLines == IsFiniteSet(Given) /\ Cardinality(Given) = Cardinality(MailAt)

\* A line is on one row, and on a row is a line of the log.
OneRowEach == \A r, s \in Refusal : refused[r] \in Texts /\ refused[r] = refused[s] => r = s
RowHasALine == \A r \in Refusal : refused[r] \in Texts => \E i \in 1 .. Len(log) : Of("mail", refused[r], i)
WaitHasALine == \A p \in pending : Of("mail", p.of, p.start + 1)

\* A line that was read is on its row, if every row was written.
AllWritten == \A r \in Refusal : refused[r] # "unwritten"
ReadIsOnARow ==
    AllWritten => \A i \in 1 .. pos : log[i].kind = "mail" => OnRow(log[i].of) \/ log[i].of \in missed

AttachInv == AsManyLines /\ OneRowEach /\ RowHasALine /\ WaitHasALine /\ ReadIsOnARow

\* Steps that write no line of the kind, and give no refusal a row.
NoMailLine == \A i \in Len(log) + 1 .. Len(log') : log'[i].kind # "mail"

LEMMA NoMailSteps ==
  ASSUME Typed, [Next]_vars
  PROVE  NoMailLine \/ \E r \in Refusal, t \in Texts : MailRefused(r, t)
<1>0. LogOk /\ Len(log) \in Nat
  BY DEF Typed, LogOk
<1>1. ASSUME Silent \/ UNCHANGED vars PROVE NoMailLine
  <2>1. log' = log
    BY <1>1, SilentStep DEF vars
  <2> QED
    BY <1>0, <2>1 DEF NoMailLine
<1>2. ASSUME NEW l, LineOk(l), log' = Append(log, l), l.kind # "mail" PROVE NoMailLine
  <2>1. Len(log') = Len(log) + 1 /\ log'[Len(log) + 1] = l
    BY <1>0, <1>2, OneLineMore
  <2>2. \A i \in Len(log) + 1 .. Len(log') : i = Len(log) + 1
    BY <1>0, <2>1
  <2> QED
    BY <1>2, <2>1, <2>2 DEF NoMailLine
<1>3. ASSUME NEW m \in Msg, Opens(m) PROVE NoMailLine
  <2>1. LineOk(Line("client", m, 0)) /\ log' = Append(log, Line("client", m, 0))
    BY <1>3, OneLineSteps
  <2>2. Line("client", m, 0).kind # "mail"
    BY DEF Line
  <2> QED
    BY <1>2, <2>1, <2>2
<1>4. ASSUME NEW m \in Msg, Answers(m) PROVE NoMailLine
  <2>1. LineOk(Line("refused", m, 0)) /\ log' = Append(log, Line("refused", m, 0))
    BY <1>4, OneLineSteps
  <2>2. Line("refused", m, 0).kind # "mail"
    BY DEF Line
  <2> QED
    BY <1>2, <2>1, <2>2
<1>5. ASSUME NEW p \in Pid, WarnsAgain(p) PROVE NoMailLine
  <2>1. LineOk(Line("warning", smtpd[p], p)) /\ log' = Append(log, Line("warning", smtpd[p], p))
    BY <1>5, OneLineSteps
  <2>2. Line("warning", smtpd[p], p).kind # "mail"
    BY DEF Line
  <2> QED
    BY <1>2, <2>1, <2>2
<1>6. ASSUME NEW p \in Pid, NEW c \in Conn, TurnsAway(p, c) PROVE NoMailLine
  <2>1. log' = log \o <<Line("connect", c, p), Line("warning", c, p)>>
    BY <1>6 DEF TurnsAway
  <2>2. /\ Len(log') = Len(log) + 2
        /\ log'[Len(log) + 1] = Line("connect", c, p) /\ log'[Len(log) + 2] = Line("warning", c, p)
    BY <1>0, <2>1, TurnedAwayLines
  <2>3. \A i \in Len(log) + 1 .. Len(log') : i = Len(log) + 1 \/ i = Len(log) + 2
    BY <1>0, <2>2
  <2>4. Line("connect", c, p).kind # "mail" /\ Line("warning", c, p).kind # "mail"
    BY DEF Line
  <2> QED
    BY <2>2, <2>3, <2>4 DEF NoMailLine
<1>7. ASSUME Goes PROVE NoMailLine
  <2>1. \A i \in Len(log) + 1 .. Len(log') : \E m \in Cut : log'[i] = Line("broken", m, 0)
    BY <1>0, <1>7, CutShortLines
  <2>2. \A m : Line("broken", m, 0).kind # "mail"
    BY DEF Line
  <2> QED
    BY <2>1, <2>2 DEF NoMailLine
<1> QED
  BY <1>1, <1>3, <1>4, <1>5, <1>6, <1>7, StepsByLog

\* The lines are finitely many.
LEMMA FewMailLines == ASSUME Typed PROVE IsFiniteSet(MailAt) /\ Cardinality(MailAt) \in Nat
<1>1. Len(log) \in Nat
  BY DEF Typed, LogOk
<1>2. IsFiniteSet(1 .. Len(log))
  BY <1>1, FS_Interval
<1>3. MailAt \in SUBSET (1 .. Len(log))
  BY DEF MailAt
<1>4. IsFiniteSet(MailAt)
  BY <1>2, <1>3, FS_Subset
<1> QED
  BY <1>4, FS_CardinalityType

\* As many lines as rows, no two rows with one text: a line on no row has a row
\* that is without a line - AttachRefusalLine finds one.
LEMMA SomeRowIsBare ==
  ASSUME Typed, AttachInv, AllWritten, NEW e \in 1 .. Len(log), log[e].kind = "mail", ~ OnRow(log[e].of)
  PROVE  Bare # {}
<1> SUFFICES ASSUME Bare = {} PROVE FALSE
  OBVIOUS
<1>1. \A r \in Given : r \in Refusal /\ refused[r] \in Texts
  BY DEF Bare, Given, AllWritten, Typed, StoreOk
<1>2. \A r \in Given : \E i \in MailAt : log[i].of = refused[r]
  BY <1>1 DEF AttachInv, RowHasALine, Of, MailAt
<1> DEFINE f == [r \in Given |-> CHOOSE i \in MailAt : log[i].of = refused[r]]
<1>3. \A r \in Given : f[r] \in MailAt /\ log[f[r]].of = refused[r]
  BY <1>2
<1>4. f \in [Given -> MailAt]
  BY <1>3
<1> HIDE DEF f
<1>5. \A r, s \in Given : f[r] = f[s] => r = s
  BY <1>1, <1>3 DEF AttachInv, OneRowEach
<1>6. f \in Injection(Given, MailAt)
  BY <1>4, <1>5 DEF Injection, IsInjective
<1>7. f \in Surjection(Given, MailAt)
  BY <1>6, FewMailLines, FS_Injection DEF AttachInv, AsManyLines
<1>8. e \in MailAt
  BY DEF MailAt
<1>9. PICK r \in Given : f[r] = e
  BY <1>7, <1>8 DEF Surjection
<1> QED
  BY <1>1, <1>3, <1>9 DEF OnRow

\* What the log said stays said, and no line more is about such a refusal.
LEMMA MailLinesStay ==
  ASSUME Typed, [Next]_vars
  PROVE  /\ Len(log) \in Nat /\ Len(log') \in Nat /\ Len(log) <= Len(log') /\ pos \in Nat /\ pos <= Len(log)
         /\ \A i \in 1 .. Len(log) : log'[i] = log[i]
         /\ \A x, i : Of("mail", x, i) => Of("mail", x, i)'
         /\ NoMailLine => MailAt' = MailAt
<1>1. /\ Len(log) \in Nat /\ Len(log') \in Nat /\ Len(log) <= Len(log')
      /\ \A i \in 1 .. Len(log) : log'[i] = log[i]
  BY LogOnlyGrows
<1>2. pos \in Nat /\ pos <= Len(log)
  BY <1>1 DEF Typed, TailerOk
<1>3. \A x, i : Of("mail", x, i) => Of("mail", x, i)'
  BY <1>1 DEF Of
<1>4. ASSUME NoMailLine PROVE MailAt' = MailAt
  <2>1. \A i \in 1 .. Len(log') : i \in 1 .. Len(log) \/ i \in Len(log) + 1 .. Len(log')
    BY <1>1
  <2>2. \A i : i \in MailAt' <=> i \in 1 .. Len(log') /\ log'[i].kind = "mail"
    BY DEF MailAt
  <2>3. \A i : i \in MailAt <=> i \in 1 .. Len(log) /\ log[i].kind = "mail"
    BY DEF MailAt
  <2>4. \A i : i \in MailAt' <=> i \in MailAt
    BY <1>1, <1>4, <2>1, <2>2, <2>3 DEF NoMailLine
  <2> QED
    BY <2>4
<1> QED
  BY <1>1, <1>2, <1>3, <1>4

\* A line goes on a row that has none, or on no row.
Attaches == refused' = refused \/ \E t \in Texts : (\E i \in 1 .. Len(log) : Of("mail", t, i)) /\ Attach(t)

\* What such a step does to the rows.
LEMMA RowsAttached ==
  ASSUME Typed, OneRowEach, RowHasALine, Attaches
  PROVE  /\ Given' = Given /\ OneRowEach'
         /\ \A r \in Refusal : refused'[r] \in Texts => \E i \in 1 .. Len(log) : Of("mail", refused'[r], i)
         /\ AllWritten' => AllWritten
         /\ \A t \in Texts : OnRow(t) => OnRow(t)'
<1>0. /\ refused \in [Refusal -> Texts \cup {"none", "unwritten", "bare"}]
      /\ Texts \cap {"none", "unwritten", "bare"} = {}
  BY CheckKinds DEF Typed, StoreOk
<1>1. CASE refused' = refused
  BY <1>1 DEF Given, OneRowEach, RowHasALine, AllWritten, OnRow
<1>2. ASSUME NEW t \in Texts, NEW i \in 1 .. Len(log), Of("mail", t, i), ~ OnRow(t),
             NEW r \in Refusal, refused[r] = "bare", refused' = [refused EXCEPT ![r] = t]
      PROVE  /\ Given' = Given /\ OneRowEach'
             /\ \A s \in Refusal : refused'[s] \in Texts => \E j \in 1 .. Len(log) : Of("mail", refused'[s], j)
             /\ AllWritten' => AllWritten
             /\ \A u \in Texts : OnRow(u) => OnRow(u)'
  <2>1. refused'[r] = t /\ \A s \in Refusal \ {r} : refused'[s] = refused[s]
    BY <1>0, <1>2
  <2>2. "bare" \notin Texts /\ t # "none"
    BY <1>0
  <2>3. Given' = Given
    BY <1>2, <2>1, <2>2 DEF Given
  <2>4. OneRowEach'
    BY <1>2, <2>1 DEF OneRowEach, OnRow
  <2>5. \A s \in Refusal : refused'[s] \in Texts => \E j \in 1 .. Len(log) : Of("mail", refused'[s], j)
    BY <1>2, <2>1 DEF RowHasALine
  <2>6. (AllWritten' => AllWritten) /\ \A u \in Texts : OnRow(u) => OnRow(u)'
    BY <1>2, <2>1, <2>2 DEF AllWritten, OnRow
  <2> QED
    BY <2>3, <2>4, <2>5, <2>6
<1> QED
  BY <1>1, <1>2 DEF Attaches, Attach, Bare

\* Steps that write no such line: what is read more is on a row, or missed.
Reads == \A i \in 1 .. pos' : i <= pos \/ (log[i].kind = "mail" => (AllWritten => OnRow(log[i].of)' \/ log[i].of \in missed'))

LEMMA AttachKept ==
  ASSUME Typed, AttachInv, [Next]_vars, NoMailLine, Attaches, Reads, missed \subseteq missed',
         \A p \in pending' : p \in pending \/ Of("mail", p.of, p.start + 1)
  PROVE  AttachInv'
<1>0. /\ Len(log) \in Nat /\ Len(log') \in Nat /\ Len(log) <= Len(log') /\ pos \in Nat /\ pos <= Len(log)
      /\ \A i \in 1 .. Len(log) : log'[i] = log[i]
      /\ \A x, i : Of("mail", x, i) => Of("mail", x, i)'
      /\ MailAt' = MailAt
  BY MailLinesStay
<1>1. /\ Given' = Given /\ OneRowEach'
      /\ \A r \in Refusal : refused'[r] \in Texts => \E i \in 1 .. Len(log) : Of("mail", refused'[r], i)
      /\ AllWritten' => AllWritten
      /\ \A t \in Texts : OnRow(t) => OnRow(t)'
  BY RowsAttached DEF AttachInv
<1>2. AsManyLines'
  BY <1>0, <1>1 DEF AttachInv, AsManyLines
<1>3. RowHasALine'
  <2> SUFFICES ASSUME NEW r \in Refusal, refused'[r] \in Texts
               PROVE  \E i \in 1 .. Len(log') : Of("mail", refused[r], i)'
    BY DEF RowHasALine
  <2>1. PICK x : x = refused'[r]
    OBVIOUS
  <2>2. PICK i \in 1 .. Len(log) : Of("mail", x, i)
    BY <1>1, <2>1
  <2>3. i \in 1 .. Len(log') /\ Of("mail", x, i)'
    BY <1>0, <2>2
  <2> QED
    BY <2>1, <2>3 DEF Of
<1>4. WaitHasALine'
  <2> SUFFICES ASSUME NEW p \in pending' PROVE Of("mail", p.of, p.start + 1)'
    BY DEF WaitHasALine
  <2>1. Of("mail", p.of, p.start + 1)
    BY DEF AttachInv, WaitHasALine
  <2> QED
    BY <1>0, <2>1
<1>5. ReadIsOnARow'
  <2> SUFFICES ASSUME AllWritten', NEW i \in 1 .. pos', log'[i].kind = "mail"
               PROVE  OnRow(log[i].of)' \/ log'[i].of \in missed'
    BY DEF ReadIsOnARow
  <2>1. pos' \in Nat /\ pos' <= Len(log')
    BY TailerKept DEF TailerOk, Typed
  <2>2. i \in 1 .. Len(log)
    <3> SUFFICES ASSUME i \notin 1 .. Len(log) PROVE FALSE
      OBVIOUS
    <3>1. i \in Len(log) + 1 .. Len(log')
      BY <1>0, <2>1
    <3> QED
      BY <3>1 DEF NoMailLine
  <2>3. PICK x : x = log[i].of
    OBVIOUS
  <2>4. log'[i] = log[i] /\ x \in Texts
    BY <1>0, <2>2, <2>3 DEF Typed, LogOk, LineOk
  <2>5. OnRow(x)' \/ x \in missed'
    <3>1. CASE i <= pos
      <4>1. i \in 1 .. pos /\ log[i].kind = "mail"
        BY <1>0, <2>2, <2>4, <3>1
      <4>2. OnRow(x) \/ x \in missed
        BY <1>1, <2>3, <4>1 DEF AttachInv, ReadIsOnARow
      <4> QED
        BY <1>1, <2>4, <4>2
    <3>2. CASE ~ (i <= pos)
      <4>1. log[i].kind = "mail" => (OnRow(log[i].of)' \/ log[i].of \in missed')
        BY <1>1, <3>2 DEF Reads
      <4> QED
        BY <2>3, <2>4, <4>1 DEF OnRow
    <3> QED
      BY <3>1, <3>2
  <2> QED
    BY <2>3, <2>4, <2>5 DEF OnRow
<1> QED
  BY <1>1, <1>2, <1>3, <1>4, <1>5 DEF AttachInv

\* A refusal more, with a row or without, and its line.
LEMMA AttachMailRefused ==
  ASSUME Typed, AttachInv, [Next]_vars, NEW r \in Refusal, NEW t \in Texts, MailRefused(r, t)
  PROVE  AttachInv'
<1>0. /\ LogOk /\ Len(log) \in Nat /\ pos \in Nat /\ pos <= Len(log)
      /\ refused \in [Refusal -> Texts \cup {"none", "unwritten", "bare"}]
      /\ Texts \cap {"none", "unwritten", "bare"} = {}
      /\ \A x, i : Of("mail", x, i) => Of("mail", x, i)'
  BY CheckKinds, MailLinesStay DEF Typed, StoreOk
<1>1. PICK wrote \in {"bare", "unwritten"} : refused' = [refused EXCEPT ![r] = wrote]
  BY DEF MailRefused
<1>2. refused[r] = "none" /\ UNCHANGED <<pos, pending, missed>>
  BY DEF MailRefused, tailer, seen
<1>3. PICK e : e = Len(log) + 1
  OBVIOUS
<1>4. LineOk(Line("mail", t, 0)) /\ log' = Append(log, Line("mail", t, 0))
  BY OneLineSteps
<1>5. /\ Len(log') = e /\ log'[e] = Line("mail", t, 0) /\ e \in 1 .. Len(log')
      /\ \A i \in 1 .. Len(log) : log'[i] = log[i]
      /\ \A i \in 1 .. Len(log') : i \in 1 .. Len(log) \/ i = e
      /\ \A i \in 1 .. Len(log) : i \in 1 .. Len(log') /\ i # e
  BY <1>0, <1>3, <1>4, OneLineMore
<1>6. /\ refused'[r] = wrote /\ \A s \in Refusal \ {r} : refused'[s] = refused[s]
      /\ wrote \notin Texts /\ wrote # "none"
  BY <1>0, <1>1
<1>7. Given' = Given \cup {r} /\ r \notin Given
  BY <1>2, <1>6 DEF Given
<1>8. MailAt' = MailAt \cup {e} /\ e \notin MailAt
  <2>1. log'[e].kind = "mail"
    BY <1>5 DEF Line
  <2>2. \A i : i \in MailAt' <=> i \in 1 .. Len(log') /\ log'[i].kind = "mail"
    BY DEF MailAt
  <2>3. \A i : i \in MailAt <=> i \in 1 .. Len(log) /\ log[i].kind = "mail"
    BY DEF MailAt
  <2>4. \A i : i \in MailAt' <=> i \in MailAt \/ i = e
    BY <1>5, <2>1, <2>2, <2>3
  <2>5. e \notin MailAt
    BY <1>5, <2>3
  <2> QED
    BY <2>4, <2>5
<1>9. AsManyLines'
  <2>1. IsFiniteSet(Given) /\ Cardinality(Given) = Cardinality(MailAt)
    BY DEF AttachInv, AsManyLines
  <2>2. IsFiniteSet(Given') /\ Cardinality(Given') = Cardinality(Given) + 1
    BY <1>7, <2>1, FS_AddElement
  <2>3. Cardinality(MailAt') = Cardinality(MailAt) + 1
    BY <1>8, FewMailLines, FS_AddElement
  <2> QED
    BY <2>1, <2>2, <2>3 DEF AsManyLines
<1>10. OneRowEach'
  BY <1>6 DEF AttachInv, OneRowEach
<1>11. RowHasALine'
  <2> SUFFICES ASSUME NEW s \in Refusal, refused'[s] \in Texts
               PROVE  \E i \in 1 .. Len(log') : Of("mail", refused[s], i)'
    BY DEF RowHasALine
  <2>1. s # r /\ refused'[s] = refused[s]
    BY <1>6
  <2>2. PICK x : x = refused[s]
    OBVIOUS
  <2>3. PICK i \in 1 .. Len(log) : Of("mail", x, i)
    BY <2>1, <2>2 DEF AttachInv, RowHasALine
  <2>4. i \in 1 .. Len(log') /\ Of("mail", x, i)'
    BY <1>0, <1>5, <2>3
  <2> QED
    BY <2>1, <2>2, <2>4 DEF Of
<1>12. WaitHasALine'
  <2> SUFFICES ASSUME NEW p \in pending PROVE Of("mail", p.of, p.start + 1)'
    BY <1>2 DEF WaitHasALine
  <2> QED
    BY <1>0 DEF AttachInv, WaitHasALine
<1>13. ReadIsOnARow'
  <2> SUFFICES ASSUME AllWritten', NEW i \in 1 .. pos, log[i].kind = "mail"
               PROVE  (\E s \in Refusal : refused'[s] = log[i].of) \/ log[i].of \in missed
    BY <1>0, <1>2, <1>5 DEF ReadIsOnARow, OnRow
  <2>1. AllWritten
    BY <1>2, <1>6 DEF AllWritten
  <2>2. OnRow(log[i].of) \/ log[i].of \in missed
    BY <2>1 DEF AttachInv, ReadIsOnARow
  <2>3. log[i].of \in Texts
    BY <1>0 DEF LogOk, LineOk
  <2>4. ASSUME NEW s \in Refusal, refused[s] = log[i].of PROVE refused'[s] = log[i].of
    <3>1. s # r
      BY <1>0, <1>2, <2>3, <2>4
    <3> QED
      BY <1>6, <2>4, <3>1
  <2> QED
    BY <2>2, <2>4 DEF OnRow
<1> QED
  BY <1>9, <1>10, <1>11, <1>12, <1>13 DEF AttachInv

\* The line goes on a row, or is on one, or the store failed; else it has no row
\* to go on, for one was not written.
LEMMA AttachHandleMail == ASSUME Typed, AttachInv, [Next]_vars, NoMailLine, HandleMail PROVE AttachInv'
<1>0. /\ pos < Len(log) /\ Next1.kind = "mail" /\ pos' = pos + 1 /\ Next1 = log[pos + 1]
      /\ pos \in Nat /\ Len(log) \in Nat /\ log' = log
  BY NextLine DEF Typed, LogOk, TailerOk, HandleMail, Handled
<1>1. PICK t \in Texts : t = Next1.of
  BY <1>0, NextLine DEF LineOk
<1>2. pos + 1 \in 1 .. Len(log) /\ Of("mail", t, pos + 1)
  BY <1>0, <1>1 DEF Of
<1>3. \/ AttachOrFail(t) /\ UNCHANGED pending
      \/ /\ OnRow(t) \/ Bare = {}
         /\ pending' = pending \cup {[of |-> t, start |-> pos]}
         /\ UNCHANGED <<left, missed, refused>>
  BY <1>1 DEF HandleMail
<1>4. /\ Attaches /\ missed \subseteq missed'
      /\ OnRow(t)' \/ t \in missed' \/ OnRow(t) \/ Bare = {}
  <2>1. CASE Attach(t) /\ UNCHANGED missed
    BY <1>2, <2>1 DEF Attaches, Attach, OnRow, Bare, Typed, StoreOk
  <2>2. CASE missed' = missed \cup {t} /\ UNCHANGED refused
    BY <2>2 DEF Attaches
  <2>3. CASE (OnRow(t) \/ Bare = {}) /\ UNCHANGED <<missed, refused>>
    BY <2>3 DEF Attaches
  <2> QED
    BY <1>3, <2>1, <2>2, <2>3 DEF AttachOrFail
<1>5. \A p \in pending' : p \in pending \/ Of("mail", p.of, p.start + 1)
  BY <1>2, <1>3
<1>6. AllWritten => OnRow(t)' \/ t \in missed'
  <2>1. AllWritten /\ ~ OnRow(t) => Bare # {}
    BY <1>0, <1>1, <1>2, SomeRowIsBare
  <2>2. OnRow(t) => OnRow(t)'
    BY <1>4, RowsAttached DEF AttachInv
  <2> QED
    BY <1>4, <2>1, <2>2
<1>7. Reads
  <2> SUFFICES ASSUME NEW i \in 1 .. pos', ~ (i <= pos), AllWritten
               PROVE  OnRow(log[i].of)' \/ log[i].of \in missed'
    BY DEF Reads
  <2>1. i = pos + 1
    BY <1>0
  <2>2. log[i].of = t
    BY <1>0, <1>1, <2>1
  <2> QED
    BY <1>0, <1>6, <2>2 DEF OnRow
<1> QED
  BY <1>4, <1>5, <1>7, AttachKept

\* A line that waited goes on a row now, or is let go of.
LEMMA AttachRetries ==
  ASSUME Typed, AttachInv, [Next]_vars, NoMailLine, NEW p \in pending, Retries(p) PROVE AttachInv'
<1>1. /\ AttachOrFail(p.of) \/ UNCHANGED <<left, missed, refused>>
      /\ pending' \subseteq pending /\ pos' = pos /\ pos \in Nat
  BY DEF Retries, Typed, TailerOk, LogOk
<1>2. PICK t \in Texts : t = p.of
  BY DEF Typed, TailerOk, PendingType
<1>3. Of("mail", t, p.start + 1) /\ p.start + 1 \in 1 .. Len(log)
  BY <1>2 DEF AttachInv, WaitHasALine, Of
<1>4. Attaches /\ missed \subseteq missed'
  BY <1>1, <1>2, <1>3 DEF AttachOrFail, Attaches
<1>5. Reads
  BY <1>1 DEF Reads
<1> QED
  BY <1>1, <1>4, <1>5, AttachKept

\* Steps apart from such refusals.
OtherRefusal ==
    /\ refused' = refused /\ pending' \subseteq pending /\ missed \subseteq missed'
    /\ pos' <= pos \/ (pos' = pos + 1 /\ log[pos + 1].kind # "mail")

LEMMA AttachElsewhere ==
  ASSUME Typed, AttachInv, [Next]_vars, NoMailLine, OtherRefusal PROVE AttachInv'
<1>1. pos \in Nat
  BY DEF Typed, TailerOk, LogOk
<1>2. Attaches /\ missed \subseteq missed' /\ \A p \in pending' : p \in pending
  BY DEF OtherRefusal, Attaches
<1>3. \A i \in 1 .. pos' : i <= pos \/ log[i].kind # "mail"
  <2>0. pos' \in Int
    BY TailerKept DEF TailerOk
  <2>1. CASE pos' <= pos
    BY <1>1, <2>0, <2>1
  <2>2. CASE pos' = pos + 1 /\ log[pos + 1].kind # "mail"
    BY <1>1, <2>2
  <2> QED
    BY <1>1, <2>1, <2>2 DEF OtherRefusal
<1>4. Reads
  BY <1>3 DEF Reads
<1> QED
  BY <1>2, <1>4, AttachKept

\* What is apart from them.
LEMMA OtherRefusals ==
  ASSUME Typed, RowInv
  PROVE  /\ \A m \in Msg : Opens(m) \/ Judges(m) \/ Refuses(m) \/ Answers(m) \/ LetsGo(m) => OtherRefusal
         /\ \A t \in Contents : Panel(t) => OtherRefusal
         /\ Writes \/ Starts => OtherRefusal
         /\ \A p \in Pid, c \in Conn : TurnsAway(p, c) => OtherRefusal
         /\ \A p \in Pid : WarnsAgain(p) \/ ClientLeaves(p) => OtherRefusal
         /\ HandleClient \/ HandleRefused \/ HandleConnect \/ HandleWarning \/ HandleBroken => OtherRefusal
         /\ \A w \in recover : Recovers(w) => OtherRefusal
         /\ PassEnds => OtherRefusal
         /\ Stops \/ Dies => OtherRefusal
         /\ UNCHANGED vars => OtherRefusal
<1>0. pos \in Nat
  BY DEF Typed, TailerOk, LogOk
<1> USE <1>0 DEF OtherRefusal, store, tailer, seen, outside
<1>1. \A m \in Msg : Opens(m) \/ Judges(m) \/ Refuses(m) \/ Answers(m) \/ LetsGo(m) => OtherRefusal
  BY DEF Opens, Judges, Refuses, Answers, LetsGo
<1>2. \A t \in Contents : Panel(t) => OtherRefusal
  BY DEF Panel
<1>3. Writes \/ Starts => OtherRefusal
  BY DEF Writes, Starts
<1>4. \A p \in Pid, c \in Conn : TurnsAway(p, c) => OtherRefusal
  BY DEF TurnsAway
<1>5. \A p \in Pid : WarnsAgain(p) \/ ClientLeaves(p) => OtherRefusal
  BY DEF WarnsAgain, ClientLeaves
<1>6. \A x : Counts(x) => missed \subseteq missed'
  BY DEF Counts, Adds
<1>7. HandleClient \/ HandleRefused \/ HandleConnect => OtherRefusal
  BY DEF HandleClient, HandleRefused, HandleConnect, Handled, Next1
<1>8. HandleWarning \/ HandleBroken => OtherRefusal
  BY <1>6 DEF HandleWarning, HandleBroken, Handled, Next1
<1>9. \A w \in recover : Recovers(w) => OtherRefusal
  BY DEF Recovers
<1>10. PassEnds => OtherRefusal
  BY DEF PassEnds
<1>11. Stops \/ Dies => OtherRefusal
  <2> SUFFICES ASSUME Stops \/ Dies PROVE OtherRefusal
    OBVIOUS
  <2>1. /\ place' = Held \/ place' = place
        /\ pos' = place' /\ pending' = {} /\ UNCHANGED <<refused, missed>>
    BY DEF Stops, Dies, Goes, Saves
  <2>2. place' <= pos
    BY <2>1, PlaceSaved
  <2> QED
    BY <2>1, <2>2
<1>12. UNCHANGED vars => OtherRefusal
  BY DEF vars
<1> QED
  BY <1>1, <1>2, <1>3, <1>4, <1>5, <1>7, <1>8, <1>9, <1>10, <1>11, <1>12

LEMMA AttachStep == ASSUME Typed, RowInv, AttachInv, [Next]_vars PROVE AttachInv'
<1>1. CASE \E r \in Refusal, t \in Texts : MailRefused(r, t)
  BY <1>1, AttachMailRefused
<1>2. ASSUME NoMailLine, OtherRefusal PROVE AttachInv'
  BY <1>2, AttachElsewhere
<1>3. ASSUME NoMailLine, Tailer PROVE AttachInv'
  <2>1. CASE HandleMail
    BY <1>3, <2>1, AttachHandleMail
  <2>2. CASE \E p \in pending : Retries(p)
    BY <1>3, <2>2, AttachRetries
  <2>3. CASE HandleClient \/ HandleRefused \/ HandleConnect \/ HandleWarning \/ HandleBroken
    BY <1>2, <1>3, <2>3, OtherRefusals
  <2>4. CASE \E w \in recover : Recovers(w)
    BY <1>2, <1>3, <2>4, OtherRefusals
  <2>5. CASE PassEnds
    BY <1>2, <1>3, <2>5, OtherRefusals
  <2> QED
    BY <1>3, <2>1, <2>2, <2>3, <2>4, <2>5 DEF Tailer
<1>4. ASSUME NoMailLine, Next, ~ \E r \in Refusal, t \in Texts : MailRefused(r, t) PROVE AttachInv'
  <2>1. CASE \E m \in Msg : Opens(m) \/ Judges(m) \/ Refuses(m) \/ Answers(m) \/ LetsGo(m)
    BY <1>2, <1>4, <2>1, OtherRefusals
  <2>2. CASE \E t \in Contents : Panel(t)
    BY <1>2, <1>4, <2>2, OtherRefusals
  <2>3. CASE Writes \/ Starts
    BY <1>2, <1>4, <2>3, OtherRefusals
  <2>4. CASE \E p \in Pid : (\E c \in Conn : TurnsAway(p, c)) \/ WarnsAgain(p) \/ ClientLeaves(p)
    BY <1>2, <1>4, <2>4, OtherRefusals
  <2>5. CASE Stops \/ Dies
    BY <1>2, <1>4, <2>5, OtherRefusals
  <2> QED
    BY <1>3, <1>4, <2>1, <2>2, <2>3, <2>4, <2>5 DEF Next
<1>5. ASSUME NoMailLine, UNCHANGED vars PROVE AttachInv'
  BY <1>2, <1>5, OtherRefusals
<1> QED
  BY <1>1, <1>4, <1>5, NoMailSteps

LEMMA AttachInit == ASSUME Init PROVE AttachInv
<1>1. /\ log = <<>> /\ Len(log) = 0 /\ pos = 0 /\ pending = {} /\ \A r \in Refusal : refused[r] = "none"
  BY DEF Init
<1>2. Given = {} /\ MailAt = {}
  BY <1>1 DEF Given, MailAt
<1>3. AsManyLines
  BY <1>2, FS_EmptySet DEF AsManyLines
<1>4. "none" \notin Texts
  BY CheckKinds
<1> QED
  BY <1>1, <1>3, <1>4 DEF AttachInv, OneRowEach, RowHasALine, WaitHasALine, ReadIsOnARow

LEMMA AttachedAlways == Spec => []AttachInv
<1>1. Typed /\ RowInv /\ AttachInv /\ [Next]_vars => AttachInv'
  BY AttachStep
<1> QED
  BY <1>1, AlwaysTyped, RowsAlways, AttachInit, PTL DEF Spec

\* Postfix's line about a refusal at MAIL FROM ends on one row and no other, for
\* any number of refusals and any lines of equal text, through every stop and
\* kill, if every such row could be written (AttachRefusalLine, retry).
THEOREM LineAlwaysOnOneRow == Spec => []LineOnOneRow
<1>1. ASSUME Typed, AttachInv PROVE LineOnOneRow
  <2> SUFFICES ASSUME AllRead, \A r \in Refusal : refused[r] # "unwritten",
                      NEW i \in DOMAIN log, log[i].kind = "mail", log[i].of \notin missed
               PROVE  Cardinality({r \in Refusal : refused[r] = log[i].of}) = 1
    BY DEF LineOnOneRow
  <2>1. i \in 1 .. pos /\ log[i].of \in Texts
    BY <1>1 DEF AllRead, Typed, LogOk, LineOk
  <2>2. PICK r \in Refusal : refused[r] = log[i].of
    BY <1>1, <2>1 DEF AttachInv, ReadIsOnARow, AllWritten, OnRow
  <2>3. {s \in Refusal : refused[s] = log[i].of} = {r}
    BY <1>1, <2>1, <2>2 DEF AttachInv, OneRowEach
  <2> QED
    BY <2>3, FS_Singleton
<1>2. Typed /\ AttachInv => LineOnOneRow
  BY <1>1
<1> QED
  BY <1>2, AlwaysTyped, AttachedAlways, PTL
=============================================================================
