-------------------------- MODULE PanelFilesProofs --------------------------
(***************************************************************************)
(* Proofs about PanelFiles: the maps and lists of the inbound relay, and   *)
(* the report addresses, reports and limits of sending domains, for any    *)
(* names, ids, requests, jobs and bounds.                                  *)
(***************************************************************************)
EXTENDS PanelFiles, FiniteSetTheorems, WellFoundedInduction, TLAPS

LEMMA Least ==
    ASSUME NEW S \in SUBSET Nat, S # {}
    PROVE  \E x \in S : \A y \in S : x <= y
<1> DEFINE Less == {p \in Nat \X Nat : p[1] < p[2]}
<1>1. IsWellFoundedOn(Less, Nat)
  <2>1. Less = OpToRel(<, Nat)
    BY DEF OpToRel
  <2> QED BY <2>1, NatLessThanWellFounded
<1>2. PICK x \in S : \A y \in S : <<y, x>> \notin Less
  <2> HIDE DEF Less
  <2> QED BY <1>1, WFMin
<1>3. \A y \in S : ~ (y < x)
  BY <1>2
<1> QED BY <1>3

\* How many positions of K come before k.
Before(K, k) == {m \in K : m < k}

LEMMA RankGrows ==
    ASSUME NEW K \in SUBSET Nat, IsFiniteSet(K), NEW k \in K, NEW m \in K, k < m
    PROVE  /\ Cardinality(Before(K, k)) \in Nat /\ Cardinality(Before(K, m)) \in Nat
           /\ Cardinality(Before(K, k)) < Cardinality(Before(K, m))
           /\ Cardinality(Before(K, m)) < Cardinality(K)
<1>0. /\ Before(K, k) \in SUBSET K /\ Before(K, m) \in SUBSET K
      /\ Before(K, k) \in SUBSET Before(K, m)
  <2>1. \A x \in K : x < k => x < m
    OBVIOUS
  <2> QED BY <2>1 DEF Before
<1>1. IsFiniteSet(Before(K, k)) /\ IsFiniteSet(Before(K, m))
  BY <1>0, FS_Subset
<1>2. /\ Before(K, k) # Before(K, m) /\ Before(K, m) # K
      /\ k \in Before(K, m)
  BY DEF Before
<1>3. /\ Cardinality(Before(K, k)) <= Cardinality(Before(K, m))
      /\ Cardinality(Before(K, k)) # Cardinality(Before(K, m))
  BY <1>0, <1>1, <1>2, FS_Subset
<1>4. /\ Cardinality(Before(K, m)) <= Cardinality(K)
      /\ Cardinality(Before(K, m)) # Cardinality(K)
  BY <1>0, <1>1, <1>2, FS_Subset
<1>5. Cardinality(Before(K, k)) \in Nat /\ Cardinality(Before(K, m)) \in Nat /\ Cardinality(K) \in Nat
  BY <1>1, FS_CardinalityType
<1> QED BY <1>3, <1>4, <1>5

LEMMA RankBound ==
    ASSUME NEW K \in SUBSET Nat, IsFiniteSet(K), NEW k \in K
    PROVE  Cardinality(Before(K, k)) \in 0..(Cardinality(K) - 1)
<1>1. IsFiniteSet(Before(K, k)) /\ Before(K, k) \subseteq K /\ k \notin Before(K, k)
  BY FS_Subset DEF Before
<1>2. /\ Cardinality(Before(K, k)) <= Cardinality(K)
      /\ Cardinality(Before(K, k)) # Cardinality(K)
  BY <1>1, FS_Subset
<1> QED BY <1>1, <1>2, FS_CardinalityType

\* Every rank below the size of K is the rank of a position of K.
LEMMA RankTaken ==
    ASSUME NEW K \in SUBSET Nat, IsFiniteSet(K), NEW n \in 1..Cardinality(K)
    PROVE  \E k \in K : Cardinality(Before(K, k)) = n - 1
<1> DEFINE Has(r) == \E k \in K : Cardinality(Before(K, k)) = r - 1
           Bad == {r \in 1..Cardinality(K) : ~ Has(r)}
<1>0. Cardinality(K) \in Nat /\ (Cardinality(K) = 0 <=> K = {})
  BY FS_CardinalityType, FS_EmptySet
<1>1. SUFFICES ASSUME Bad # {} PROVE FALSE
  OBVIOUS
<1>2. PICK r \in Bad : \A q \in Bad : r <= q
  <2>1. Bad \in SUBSET Nat BY <1>0
  <2> HIDE DEF Bad
  <2> QED BY <2>1, <1>1, Least
<1>3. r \in 1..Cardinality(K) /\ ~ Has(r)
  BY <1>2
<1>4. ASSUME r = 1 PROVE FALSE
  <2>1. PICK k \in K : \A m \in K : k <= m
    BY <1>0, <1>3, Least
  <2>2. Before(K, k) = {}
    <3>1. \A m \in K : ~ (m < k)
      BY <2>1
    <3> QED BY <3>1 DEF Before
  <2> QED BY <2>2, <1>3, <1>4, FS_EmptySet
<1>5. ASSUME r # 1 PROVE FALSE
  <2>1. PICK k \in K : Cardinality(Before(K, k)) = r - 2
    BY <1>0, <1>2, <1>3, <1>5
  <2> DEFINE After == {m \in K : m > k}
  <2>2. After # {}
    <3>1. SUFFICES ASSUME After = {} PROVE FALSE
      OBVIOUS
    <3>2. K = Before(K, k) \cup {k}
      <4>1. \A m \in K : m = k \/ m < k
        BY <3>1
      <4> QED BY <4>1 DEF Before
    <3>3. IsFiniteSet(Before(K, k)) /\ k \notin Before(K, k)
      BY FS_Subset DEF Before
    <3>4. Cardinality(K) = r - 1
      BY <3>2, <3>3, <2>1, <1>3, <1>0, FS_AddElement
    <3> QED BY <3>4, <1>3, <1>0
  <2>3. PICK m \in After : \A x \in After : m <= x
    <3>1. After \in SUBSET Nat OBVIOUS
    <3> HIDE DEF After
    <3> QED BY <3>1, <2>2, Least
  <2>4. Before(K, m) = Before(K, k) \cup {k}
    <3>1. \A x \in K : x < m <=> x < k \/ x = k
      BY <2>3
    <3> QED BY <3>1 DEF Before
  <2>5. IsFiniteSet(Before(K, k)) /\ k \notin Before(K, k)
    BY FS_Subset DEF Before
  <2>6. Cardinality(Before(K, m)) = r - 1
    BY <2>4, <2>5, <2>1, <1>3, <1>0, FS_AddElement
  <2> QED BY <2>6, <2>3, <1>3
<1> QED BY <1>4, <1>5

LEMMA KeepingLen ==
    ASSUME NEW X, NEW s \in Seq(X), NEW K \in SUBSET (1..Len(s))
    PROVE  /\ Keeping(s, K) \in Seq(X) /\ Len(Keeping(s, K)) = Cardinality(K)
           /\ \A n \in 1..Len(Keeping(s, K)) : \E k \in K : Keeping(s, K)[n] = s[k]
           /\ \A k \in K : \E n \in 1..Len(Keeping(s, K)) : Keeping(s, K)[n] = s[k]
<1>1. IsFiniteSet(K) /\ K \in SUBSET Nat /\ Cardinality(K) \in Nat
  <2>1. IsFiniteSet(1..Len(s)) /\ 1..Len(s) \in SUBSET Nat
    BY FS_Interval
  <2>2. IsFiniteSet(K)
    BY <2>1, FS_Subset
  <2> QED BY <2>1, <2>2, FS_CardinalityType
<1> DEFINE At(n) == CHOOSE k \in K : Cardinality(Before(K, k)) = n - 1
<1>2. Keeping(s, K) = [n \in 1..Cardinality(K) |-> s[At(n)]]
  BY DEF Keeping, Before
<1>3. \A n \in 1..Cardinality(K) : At(n) \in K /\ Cardinality(Before(K, At(n))) = n - 1
  BY <1>1, RankTaken
<1> HIDE DEF At
<1>4. \A n \in 1..Cardinality(K) : s[At(n)] \in X
  <2>1. \A k \in K : s[k] \in X
    OBVIOUS
  <2> QED BY <1>3, <2>1
<1>5. Keeping(s, K) \in Seq(X) /\ Len(Keeping(s, K)) = Cardinality(K)
  BY <1>1, <1>2, <1>4
<1>6. ASSUME NEW k \in K
      PROVE  \E n \in 1..Cardinality(K) : At(n) = k
  <2> DEFINE n == Cardinality(Before(K, k)) + 1
  <2>1. n \in 1..Cardinality(K) /\ Cardinality(Before(K, k)) = n - 1
    BY <1>1, RankBound
  <2>2. At(n) \in K /\ Cardinality(Before(K, At(n))) = Cardinality(Before(K, k))
    BY <1>3, <2>1
  <2> HIDE DEF n
  <2>3. ASSUME NEW a \in K, NEW b \in K, a < b
        PROVE  Cardinality(Before(K, a)) # Cardinality(Before(K, b))
    BY <1>1, <2>3, RankGrows
  <2>4. At(n) = k
    <3>1. At(n) \in Nat /\ k \in Nat
      BY <2>2, <1>1
    <3>2. CASE At(n) < k BY <3>2, <2>2, <2>3
    <3>3. CASE k < At(n) BY <3>3, <2>2, <2>3
    <3> QED BY <3>1, <3>2, <3>3
  <2> QED BY <2>1, <2>4
<1> QED BY <1>2, <1>3, <1>5, <1>6
-----------------------------------------------------------------------------
(* The two parts of a step.                                                *)

InboundStep == (\E r \in Reqs : Asked(r) \/ Step(r)) \/ Killed

SettingsStep ==
    \/ \E j \in Jobs : JobAsked(j) \/ JobStep(j) \/ ResyncDMARC(j, "resync")
    \/ IngestStep \/ SettingsKilled

LEMMA PanelParts ==
    ASSUME [PanelNext]_panelVars
    PROVE  /\ InboundStep \/ UNCHANGED vars
           /\ SettingsStep \/ UNCHANGED settings
<1>1. CASE PanelNext
  <2>1. CASE (\E r \in Reqs : ((Up /\ Asked(r)) \/ Relay(r)) /\ UNCHANGED settings)
    BY <2>1 DEF InboundStep, Relay
  <2>2. CASE \E r \in Reqs : ReloadGoesOn(r)
    BY <2>2 DEF InboundStep, SettingsStep, ReloadGoesOn, Step
  <2>3. CASE (\E j \in Jobs : (ListsStarted /\ JobAsked(j)) \/ JobStep(j)) /\ UNCHANGED vars
    BY <2>3 DEF SettingsStep
  <2>4. CASE IngestStep /\ UNCHANGED vars
    BY <2>4 DEF SettingsStep
  <2>5. CASE PanelKilled
    BY <2>5 DEF InboundStep, SettingsStep, PanelKilled
  <2> QED BY <1>1, <2>1, <2>2, <2>3, <2>4, <2>5 DEF PanelNext
<1>2. CASE UNCHANGED panelVars
  BY <1>2 DEF panelVars
<1> QED BY <1>1, <1>2

-----------------------------------------------------------------------------
(* What holds of the settings of domains in every state.                   *)

AnyLimit == [mode : {"none", "manual", "auto"}, mult : Nat, max : 0..L1]
Reading == [id : RowIds, limit : AnyLimit, stale : BOOLEAN]

JobPcs == {"idle", "address", "limit", "rest", "list", "write", "unlimit", "drop",
           "recalc", "each", "stats", "store"}
JobOps == {"none", "add", "import", "delete", "address", "limit", "button",
           "recalcAll", "resync", "start"}
JobType == [pc : JobPcs, op : JobOps, id : 0..MaxRows, choice : Choices, limit : AnyLimit,
            stale : BOOLEAN, todo : SUBSET Reading, got : SUBSET Domains]

\* A job at one of these steps, and an import at any, has a row it is about.
AboutARow == {"address", "limit", "rest", "unlimit", "drop", "recalc", "stats", "store"}
JobOk(c) ==
    /\ c \in JobType
    /\ c.pc \in AboutARow \/ c.op = "import" => c.id \in RowIds
    /\ c.op = "import" /\ c.pc = "address" => c.choice # "none"

RowType == [name : Domains, hosted : BOOLEAN] \cup {NoRow}
DomainRows ==
    /\ issued \in Nat /\ domains \in [RowIds -> RowType]
    /\ \A i \in There : domains[i].name \in Domains
    /\ \A i \in RowIds : i > issued => i \notin There
    /\ \A i, k \in There : domains[i].name = domains[k].name => i = k

LimitRows == limits \in [RowIds -> AnyLimit] /\ saved \in [RowIds -> AnyLimit]

JobsOk == job \in [Jobs -> JobType] /\ \A j \in Jobs : JobOk(job[j])

MapsType == [recipients : SUBSET Domains, transport : SUBSET Domains, relay : SUBSET {"hostname"}]
SettingsTyped ==
    JobsOk /\ DomainRows /\ LimitRows /\ opened \in MapsType /\ owed \in {"no", "yes", "rebuilding"}

LEMMA AutoMaxBounded ==
    ASSUME NEW total \in Totals, NEW mult \in Nat
    PROVE  AutoMax(total, mult) \in 0..L1
<1>1. total \in Nat /\ Hours \in Nat \ {0} /\ L1 \in Nat \ {0}
  BY SettingsAssumption
<1> DEFINE a == total * mult + 10 * Hours - 1
           b == 10 * Hours
<1>2. a \in Int /\ b \in Nat \ {0}
  BY <1>1
<1>3. a \div b \in Int
  <2> HIDE DEF a, b
  <2> QED BY <1>2
<1>4. AutoMax(total, mult) = IF total = 0 THEN 0 ELSE IF a \div b < 1 THEN 1
                             ELSE IF a \div b > L1 THEN L1 ELSE a \div b
  BY DEF AutoMax
<1> HIDE DEF a, b
<1>5. \A m \in Int : (IF total = 0 THEN 0 ELSE IF m < 1 THEN 1 ELSE IF m > L1 THEN L1 ELSE m) \in 0..L1
  BY <1>1
<1> QED BY <1>3, <1>4, <1>5

LEMMA LimitsTyped ==
    /\ NoLimit \in AnyLimit /\ Limits \subseteq AnyLimit /\ ImportedLimits \subseteq AnyLimit
    /\ \A l \in AnyLimit, m \in 0..L1 : [l EXCEPT !.max = m] \in AnyLimit
<1>0. L1 \in Nat \ {0} /\ Multipliers \subseteq Nat
  BY SettingsAssumption
<1>1. NoLimit \in AnyLimit
  BY <1>0 DEF NoLimit, AnyLimit
<1>2. Limits \subseteq AnyLimit
  <2>1. \A m \in 1..L1 : Manual(m) \in AnyLimit
    BY <1>0 DEF Manual, AnyLimit
  <2>2. \A k \in Multipliers : Automatic(k) \in AnyLimit
    BY <1>0 DEF Automatic, AnyLimit
  <2> QED BY <1>1, <2>1, <2>2 DEF Limits
<1>3. \A l \in AnyLimit, m \in 0..L1 : [l EXCEPT !.max = m] \in AnyLimit
  BY DEF AnyLimit
<1>4. ImportedLimits \subseteq AnyLimit
  <2>1. \A l \in AnyLimit : l.max \in 0..L1 /\ 0 \in 0..L1
    BY <1>0 DEF AnyLimit
  <2>2. SUFFICES ASSUME NEW l \in Limits
                 PROVE  [l EXCEPT !.max = IF IsAuto(l) THEN 0 ELSE @] \in AnyLimit
    BY DEF ImportedLimits
  <2> QED BY <1>2, <1>3, <2>1
<1> QED BY <1>1, <1>2, <1>3, <1>4

LEMMA NoJobTyped ==
    /\ NoJob \in JobType /\ JobOk(NoJob)
    /\ NoJob.pc = "idle" /\ NoJob.op = "none" /\ NoJob.id = 0 /\ NoJob.choice = "none"
    /\ NoJob.limit = NoLimit /\ NoJob.stale = FALSE /\ NoJob.todo = {} /\ NoJob.got = {}
  BY LimitsTyped, SettingsAssumption DEF NoJob, JobOk, JobType, JobPcs, JobOps, Choices, AboutARow, RowIds

\* The changes the actions make to a job.
LEMMA JobParts ==
    ASSUME NEW c \in JobType
    PROVE  /\ \A x \in JobPcs : [c EXCEPT !.pc = x] \in JobType
           /\ \A x \in 0..MaxRows : [c EXCEPT !.id = x] \in JobType
           /\ \A x \in JobOps : [c EXCEPT !.op = x] \in JobType
           /\ \A x \in Choices : [c EXCEPT !.choice = x] \in JobType
           /\ \A x \in AnyLimit : [c EXCEPT !.limit = x] \in JobType
           /\ \A x \in BOOLEAN : [c EXCEPT !.stale = x] \in JobType
           /\ \A x \in SUBSET Reading : [c EXCEPT !.todo = x] \in JobType
           /\ \A x \in SUBSET Domains : [c EXCEPT !.got = x] \in JobType
<1> USE DEF JobType
<1> QED OBVIOUS
\* What a step makes of a job.
LEMMA Outcomes ==
    ASSUME NEW c \in JobType, JobOk(c)
    PROVE  /\ JobOk(AfterMaps(c)) /\ JobOk(Refused(c)) /\ JobOk(Recalculated(c))
           /\ c.id \in RowIds => JobOk(LimitOf(c)) /\ JobOk(AddressOf(c))
           /\ \A x \in AboutARow \ {"address"} : c.id \in RowIds => JobOk([c EXCEPT !.pc = x])
           /\ JobOk([c EXCEPT !.pc = "list"])
           /\ \A x \in SUBSET Domains : JobOk([c EXCEPT !.pc = "write", !.got = x])
<1> USE DEF JobType
<1>1. \A x \in AboutARow \cup {"list", "write", "each"} : x \in JobPcs
  BY DEF AboutARow, JobPcs
<1>2. \A x \in {"list", "write", "each"} : x \notin AboutARow /\ x # "address"
  BY DEF AboutARow
<1>3. {"address", "limit", "rest", "unlimit", "recalc"} \subseteq AboutARow
  BY DEF AboutARow
<1>4. JobOk(AfterMaps(c))
  <2>1. CASE c.op = "import" /\ IsAuto(c.limit)
    <3> DEFINE d == [NoJob EXCEPT !.op = "import", !.pc = "recalc", !.id = c.id]
    <3>1. d \in JobType /\ d.pc = "recalc" /\ d.id = c.id
      BY NoJobTyped, <1>1, <1>3 DEF JobOps
    <3> QED BY <2>1, <3>1 DEF JobOk, AfterMaps
  <2> QED BY <2>1, NoJobTyped DEF AfterMaps
<1>5. JobOk(Refused(c))
  BY NoJobTyped, <1>1, <1>3 DEF Refused, JobOk
<1>6. JobOk(Recalculated(c))
  <2> DEFINE d == [c EXCEPT !.pc = "each", !.id = 0, !.limit = NoLimit, !.stale = FALSE]
  <2>1. d \in JobType /\ d.pc = "each" /\ d.op = c.op
    <3>1. "each" \in JobPcs /\ NoLimit \in AnyLimit /\ 0 \in 0..MaxRows /\ FALSE \in BOOLEAN
      BY <1>1, LimitsTyped, SettingsAssumption
    <3> HIDE SettingsAssumption
    <3> QED BY <3>1
  <2>2. c.op = "recalcAll" => JobOk(d)
    BY <2>1, <1>2 DEF JobOk
  <2> QED BY <2>2, NoJobTyped DEF Recalculated
<1>7. ASSUME c.id \in RowIds PROVE JobOk(LimitOf(c)) /\ JobOk(AddressOf(c))
  <2>1. JobOk(LimitOf(c))
    BY <1>7, <1>1, <1>3 DEF LimitOf, JobOk
  <2> QED BY <2>1, <1>7, <1>1, <1>3 DEF AddressOf, JobOk
<1>8. ASSUME NEW x \in AboutARow \ {"address"}, c.id \in RowIds PROVE JobOk([c EXCEPT !.pc = x])
  BY <1>8, <1>1 DEF JobOk
<1>9. JobOk([c EXCEPT !.pc = "list"])
  BY <1>1, <1>2 DEF JobOk
<1>10. ASSUME NEW x \in SUBSET Domains PROVE JobOk([c EXCEPT !.pc = "write", !.got = x])
  BY <1>1, <1>2 DEF JobOk
<1> QED BY <1>4, <1>5, <1>6, <1>7, <1>8, <1>9, <1>10

\* Staled changes nothing of a job but what it knows of its readings.
LEMMA StaledParts ==
    ASSUME NEW f \in [Jobs -> JobType], NEW i, \A j \in Jobs : JobOk(f[j])
    PROVE  /\ Staled(f, i) \in [Jobs -> JobType] /\ \A j \in Jobs : JobOk(Staled(f, i)[j])
           /\ \A j \in Jobs :
                 LET c == f[j]  d == Staled(f, i)[j] IN
                 /\ d.pc = c.pc /\ d.op = c.op /\ d.id = c.id /\ d.choice = c.choice
                 /\ d.limit = c.limit /\ d.got = c.got
                 /\ d.stale = (c.stale \/ (c.id = i /\ c.pc \in {"stats", "store"}))
                 /\ d.todo = {[e EXCEPT !.stale = e.stale \/ e.id = i] : e \in c.todo}
<1> SUFFICES ASSUME NEW j \in Jobs
    PROVE  LET c == f[j]  d == Staled(f, i)[j] IN
           /\ d \in JobType /\ JobOk(d)
           /\ d.pc = c.pc /\ d.op = c.op /\ d.id = c.id /\ d.choice = c.choice
           /\ d.limit = c.limit /\ d.got = c.got
           /\ d.stale = (c.stale \/ (c.id = i /\ c.pc \in {"stats", "store"}))
           /\ d.todo = {[e EXCEPT !.stale = e.stale \/ e.id = i] : e \in c.todo}
  BY DEF Staled
<1> DEFINE c == f[j]
           s == (c.stale \/ (c.id = i /\ c.pc \in {"stats", "store"}))
           t == {[e EXCEPT !.stale = e.stale \/ e.id = i] : e \in c.todo}
           d == [c EXCEPT !.stale = s, !.todo = t]
<1>1. Staled(f, i)[j] = d
  BY DEF Staled
<1>2. c \in JobType /\ JobOk(c)
  OBVIOUS
<1>3. t \in SUBSET Reading
  <2>1. \A e \in Reading : [e EXCEPT !.stale = e.stale \/ e.id = i] \in Reading
    BY DEF Reading
  <2> QED BY <2>1, <1>2 DEF JobType
<1>4. s \in BOOLEAN
  BY <1>2 DEF JobType
<1> HIDE DEF t, s, c
<1>5. d \in JobType /\ d.stale = s /\ d.todo = t
      /\ d.pc = c.pc /\ d.op = c.op /\ d.id = c.id /\ d.choice = c.choice
      /\ d.limit = c.limit /\ d.got = c.got
  BY <1>2, <1>3, <1>4 DEF JobType
<1>6. JobOk(d)
  BY <1>2, <1>5 DEF JobOk
<1> QED BY <1>1, <1>5, <1>6 DEF c, s, t

LEMMA InitSettingsTyped == SettingsInit => SettingsTyped
<1> SUFFICES ASSUME SettingsInit PROVE SettingsTyped
  OBVIOUS
<1>0. PICK n \in Domains, h \in BOOLEAN :
         domains = [i \in RowIds |-> IF i <= issued THEN [name |-> n, hosted |-> h] ELSE NoRow]
  BY DEF SettingsInit
<1>1. issued \in Nat /\ issued <= 1
  BY DEF SettingsInit
<1>2. DomainRows
  <2>1. domains \in [RowIds -> RowType]
    BY <1>0 DEF RowType
  <2>2. \A i \in There : i = 1 /\ domains[i].name \in Domains
    BY <1>0, <1>1, SettingsAssumption DEF There, RowIds
  <2>3. \A i \in RowIds : i > issued => i \notin There
    BY <1>0, <1>1, SettingsAssumption DEF There, RowIds
  <2> QED BY <1>1, <2>1, <2>2, <2>3 DEF DomainRows
<1>3. JobsOk
  BY NoJobTyped DEF SettingsInit, JobsOk
<1>4. LimitRows
  BY LimitsTyped DEF SettingsInit, LimitRows
<1>5. opened \in MapsType
  <2>1. Hosted \subseteq Domains
    BY <1>2 DEF Hosted, DomainRows
  <2> QED BY <2>1 DEF SettingsInit, DmarcMaps, MapsType
<1> QED BY <1>2, <1>3, <1>4, <1>5 DEF SettingsInit, SettingsTyped
LEMMA JobSet ==
    ASSUME JobsOk, NEW j \in Jobs, NEW d, JobOk(d), job' = [job EXCEPT ![j] = d]
    PROVE  JobsOk'
<1>1. d \in JobType
  BY DEF JobOk
<1>2. job' \in [Jobs -> JobType] /\ \A k \in Jobs : job'[k] = IF k = j THEN d ELSE job[k]
  BY <1>1 DEF JobsOk
<1>3. \A k \in Jobs : JobOk(job'[k])
  BY <1>2 DEF JobsOk
<1> QED BY <1>2, <1>3 DEF JobsOk, JobOk

\* Every kind of job begins as one that may be.
LEMMA BegunOk ==
    ASSUME SettingsTyped, NEW i \in RowIds
    PROVE  /\ \A op \in {"add", "import"}, h \in Choices, l \in AnyLimit :
                 op = "import" \/ h = "none" =>
                 JobOk(AddressOf([NoJob EXCEPT !.op = op, !.id = i, !.choice = h, !.limit = l]))
           /\ JobOk([NoJob EXCEPT !.op = "delete", !.pc = "unlimit", !.id = i])
           /\ \A h \in Choices : JobOk([NoJob EXCEPT !.op = "address", !.pc = "address", !.id = i, !.choice = h])
           /\ \A l \in AnyLimit : JobOk([NoJob EXCEPT !.op = "limit", !.pc = "limit", !.id = i, !.limit = l])
           /\ JobOk([NoJob EXCEPT !.op = "button", !.pc = "recalc", !.id = i])
           /\ JobOk([NoJob EXCEPT !.op = "limit", !.pc = "recalc", !.id = i])
<1>0. i \in 0..MaxRows
  BY SettingsAssumption DEF RowIds
<1>1. {"add", "import", "delete", "address", "limit", "button"} \subseteq JobOps
      /\ {"unlimit", "address", "limit", "recalc"} \subseteq JobPcs
  BY DEF JobOps, JobPcs
<1> HIDE SettingsAssumption
<1>2. ASSUME NEW op \in {"add", "import"}, NEW h \in Choices, NEW l \in AnyLimit,
             op = "import" \/ h = "none"
      PROVE  JobOk(AddressOf([NoJob EXCEPT !.op = op, !.id = i, !.choice = h, !.limit = l]))
  <2> DEFINE c == [NoJob EXCEPT !.op = op, !.id = i, !.choice = h, !.limit = l]
  <2>1. c \in JobType /\ c.op = op /\ c.id = i /\ c.choice = h /\ c.pc = "idle"
    BY <1>0, <1>1, NoJobTyped DEF JobType
  <2> HIDE DEF c
  <2>2. JobOk(c)
    BY <2>1 DEF JobOk, AboutARow
  <2> QED BY <2>1, <2>2, Outcomes DEF c
<1>3. ASSUME NEW c \in JobType, c.id = i, c.op # "import" PROVE JobOk(c)
  BY <1>3 DEF JobOk
<1>4. JobOk([NoJob EXCEPT !.op = "delete", !.pc = "unlimit", !.id = i])
  <2> DEFINE c == [NoJob EXCEPT !.op = "delete", !.pc = "unlimit", !.id = i]
  <2>1. c \in JobType /\ c.id = i /\ c.op # "import"
    BY <1>0, <1>1, NoJobTyped DEF JobType
  <2> QED BY <2>1, <1>3
<1>5. ASSUME NEW h \in Choices
      PROVE  JobOk([NoJob EXCEPT !.op = "address", !.pc = "address", !.id = i, !.choice = h])
  <2> DEFINE c == [NoJob EXCEPT !.op = "address", !.pc = "address", !.id = i, !.choice = h]
  <2>1. c \in JobType /\ c.id = i /\ c.op # "import"
    BY <1>0, <1>1, NoJobTyped DEF JobType
  <2> QED BY <2>1, <1>3
<1>6. ASSUME NEW l \in AnyLimit
      PROVE  JobOk([NoJob EXCEPT !.op = "limit", !.pc = "limit", !.id = i, !.limit = l])
  <2> DEFINE c == [NoJob EXCEPT !.op = "limit", !.pc = "limit", !.id = i, !.limit = l]
  <2>1. c \in JobType /\ c.id = i /\ c.op # "import"
    BY <1>0, <1>1, NoJobTyped DEF JobType
  <2> QED BY <2>1, <1>3
<1>7. ASSUME NEW op \in {"button", "limit"}
      PROVE  JobOk([NoJob EXCEPT !.op = op, !.pc = "recalc", !.id = i])
  <2> DEFINE c == [NoJob EXCEPT !.op = op, !.pc = "recalc", !.id = i]
  <2>1. c \in JobType /\ c.id = i /\ c.op # "import"
    BY <1>0, <1>1, NoJobTyped DEF JobType
  <2> QED BY <2>1, <1>3
<1> QED BY <1>2, <1>4, <1>5, <1>6, <1>7

LEMMA JobsAsked ==
    ASSUME SettingsTyped, NEW j \in Jobs, JobAsked(j)
    PROVE  JobsOk'
<1> USE DEF BeginJob
<1>0. JobsOk /\ issued \in Nat /\ LimitRows
  BY DEF SettingsTyped, DomainRows
<1>1. ASSUME NEW n \in Domains, NEW op \in {"add", "import"}, NEW h \in Choices, NEW l \in AnyLimit,
             op = "import" \/ h = "none", AddDomain(j, n, op, h, l)
      PROVE  JobsOk'
  <2>1. issued + 1 \in RowIds
    BY <1>0, <1>1, SettingsAssumption DEF AddDomain, RowIds
  <2>2. JobOk(AddressOf([NoJob EXCEPT !.op = op, !.id = issued + 1, !.choice = h, !.limit = l]))
    BY <1>1, <2>1, BegunOk
  <2> QED BY <1>0, <1>1, <2>2, JobSet DEF AddDomain
<1>2. ASSUME NEW i \in RowIds, Remove(j, i) PROVE JobsOk'
  BY <1>0, <1>2, BegunOk, JobSet DEF Remove
<1>3. ASSUME NEW i \in RowIds, AskRecalc(j, i) PROVE JobsOk'
  BY <1>0, <1>3, BegunOk, JobSet DEF AskRecalc
<1>4. ASSUME NEW i \in RowIds, NEW h \in Choices, ChooseAddress(j, i, h) PROVE JobsOk'
  BY <1>0, <1>4, BegunOk, JobSet DEF ChooseAddress
<1>5. ASSUME NEW i \in RowIds, NEW l \in Limits, ChooseLimit(j, i, l) PROVE JobsOk'
  BY <1>0, <1>5, BegunOk, JobSet, LimitsTyped DEF ChooseLimit
<1>6. ASSUME RecalcAll(j) PROVE JobsOk'
  <2> DEFINE t == {[id |-> i, limit |-> limits[i], stale |-> FALSE] : i \in AutoLimits}
             d == [NoJob EXCEPT !.op = "recalcAll", !.pc = "each", !.todo = t]
  <2>1. t \in SUBSET Reading
    <3>1. \A i \in RowIds : [id |-> i, limit |-> limits[i], stale |-> FALSE] \in Reading
      BY <1>0 DEF LimitRows, Reading
    <3> QED BY <3>1 DEF AutoLimits
  <2> HIDE DEF t
  <2>2. d \in JobType /\ d.pc = "each" /\ d.op = "recalcAll"
    BY <2>1, NoJobTyped DEF JobType, JobPcs, JobOps
  <2>3. JobOk(d)
    BY <2>2 DEF JobOk, AboutARow
  <2>4. job' = [job EXCEPT ![j] = d]
    BY <1>6 DEF RecalcAll, t
  <2> HIDE DEF d
  <2> QED BY <1>0, <2>3, <2>4, JobSet
<1>7. "none" \in Choices /\ NoLimit \in AnyLimit /\ ImportedLimits \subseteq AnyLimit /\ Choices \ {"none"} \subseteq Choices
  BY LimitsTyped DEF Choices
<1>8. ASSUME NEW n \in Domains, AddDomain(j, n, "add", "none", NoLimit) PROVE JobsOk'
  BY <1>1, <1>7, <1>8
<1>9. ASSUME NEW n \in Domains, NEW h \in Choices, NEW l \in ImportedLimits, AddDomain(j, n, "import", h, l) PROVE JobsOk'
  BY <1>1, <1>7, <1>9
<1> QED BY <1>2, <1>3, <1>4, <1>5, <1>6, <1>7, <1>8, <1>9 DEF JobAsked

\* What is left of a job a step of which fails.
LEMMA Failed ==
    ASSUME job \in [Jobs -> JobType], NEW j \in Jobs, JobFails(j)
    PROVE  LET c == job[j]  d == job'[j] IN
           /\ job' = [job EXCEPT ![j] = d] /\ c.pc \notin {"idle", "each"}
           /\ c.pc \in {"list", "write"} => d = AfterMaps(c)
           /\ c.pc \in {"recalc", "stats", "store"} => d = Recalculated(c)
           /\ c.pc = "rest" /\ c.op = "add" => d = [c EXCEPT !.pc = "drop"]
           /\ c.pc \in {"address", "limit", "rest"} /\ ~ (c.pc = "rest" /\ c.op = "add") => d = Refused(c)
           /\ c.pc \in {"unlimit", "drop"} => d = NoJob
           /\ \/ d \in {AfterMaps(c), Recalculated(c), Refused(c), NoJob}
              \/ c.pc = "rest" /\ d = [c EXCEPT !.pc = "drop"]
<1> DEFINE c == job[j]
           dr == [c EXCEPT !.pc = "drop"]
           d == CASE c.pc \in {"list", "write"}            -> AfterMaps(c)
                  [] c.pc \in {"recalc", "stats", "store"} -> Recalculated(c)
                  [] c.pc = "rest" /\ c.op = "add"         -> dr
                  [] c.pc = "rest" /\ c.op # "add"         -> Refused(c)
                  [] c.pc \in {"address", "limit"}         -> Refused(c)
                  [] OTHER                                 -> NoJob
<1>1. job' = [job EXCEPT ![j] = d] /\ c.pc \notin {"idle", "each"}
  BY DEF JobFails
<1>2. c.pc \in JobPcs
  BY DEF JobType
<1>3. job'[j] = d
  BY <1>1
<1> HIDE DEF dr, c
<1>4. /\ c.pc \in {"list", "write"} => d = AfterMaps(c)
      /\ c.pc \in {"recalc", "stats", "store"} => d = Recalculated(c)
      /\ c.pc = "rest" /\ c.op = "add" => d = dr
      /\ c.pc \in {"address", "limit", "rest"} /\ ~ (c.pc = "rest" /\ c.op = "add") => d = Refused(c)
      /\ c.pc \notin {"list", "write", "recalc", "stats", "store", "address", "limit", "rest"} => d = NoJob
  <2>1. c.pc \in {"list", "write"} => d = AfterMaps(c)
    OBVIOUS
  <2>2. c.pc \in {"recalc", "stats", "store"} => d = Recalculated(c)
    OBVIOUS
  <2>3. c.pc = "rest" /\ c.op = "add" => d = dr
    OBVIOUS
  <2>4. c.pc \in {"address", "limit", "rest"} /\ ~ (c.pc = "rest" /\ c.op = "add") => d = Refused(c)
    OBVIOUS
  <2>5. c.pc \notin {"list", "write", "recalc", "stats", "store", "address", "limit", "rest"} => d = NoJob
    OBVIOUS
  <2> QED BY <2>1, <2>2, <2>3, <2>4, <2>5
<1> HIDE DEF d
<1>5. d \in {AfterMaps(c), Recalculated(c), Refused(c), NoJob} \/ (c.pc = "rest" /\ d = dr)
  BY <1>4
<1> QED BY <1>1, <1>3, <1>4, <1>5 DEF c, dr

LEMMA JobsStepOn ==
    ASSUME SettingsTyped, NEW j \in Jobs, JobStep(j) \/ ResyncDMARC(j, "resync")
    PROVE  JobsOk'
<1> DEFINE c == job[j]
<1>0. JobsOk /\ c \in JobType /\ JobOk(c) /\ Jobs = DOMAIN job /\ LimitRows /\ There \subseteq RowIds
  BY DEF SettingsTyped, JobsOk, There
<1>a. /\ c.pc \in AboutARow => c.id \in RowIds
      /\ c.id \in There => c.id \in RowIds
      /\ {"rest", "drop", "store", "unlimit", "stats", "limit", "recalc"} \subseteq AboutARow \ {"address"}
      /\ "address" \in AboutARow
  BY <1>0 DEF JobOk, AboutARow
<1>b. ASSUME NEW x \in AboutARow \ {"address"}, c.id \in RowIds PROVE JobOk([c EXCEPT !.pc = x])
  BY <1>b, <1>0, Outcomes
<1>c. JobOk(AfterMaps(c)) /\ JobOk(Refused(c)) /\ JobOk(Recalculated(c)) /\ JobOk([c EXCEPT !.pc = "list"])
  BY <1>0, Outcomes
<1>1. CASE RestDone(j)
  BY <1>1, <1>0, <1>c, JobSet DEF RestDone, To
<1>2. CASE ClearLimits(j)
  <2> DEFINE d == [c EXCEPT !.pc = "drop"]
             f == [job EXCEPT ![j] = d]
  <2>1. JobOk(d)
    BY <1>2, <1>a, <1>b DEF ClearLimits
  <2>2. f \in [Jobs -> JobType] /\ \A k \in Jobs : JobOk(f[k])
    BY <2>1, <1>0 DEF JobsOk, JobOk
  <2>3. job' = Staled(f, c.id)
    BY <1>2 DEF ClearLimits
  <2> HIDE DEF f
  <2> QED BY <2>2, <2>3, StaledParts DEF JobsOk
<1>3. CASE DropRow(j)
  BY <1>3, <1>0, NoJobTyped, JobSet DEF DropRow, Over
<1>4. CASE SaveAddress(j)
  BY <1>4, <1>0, <1>a, <1>c, Outcomes, JobSet DEF SaveAddress
<1>5. CASE ListHosted(j)
  <2>1. Hosted \in SUBSET Domains
    BY DEF SettingsTyped, DomainRows, Hosted
  <2>2. JobOk([c EXCEPT !.pc = "write", !.got = Hosted])
    BY <2>1, <1>0, Outcomes
  <2>3. job' = [job EXCEPT ![j] = [c EXCEPT !.pc = "write", !.got = Hosted]]
    BY <1>5, <1>0 DEF ListHosted
  <2> QED BY <1>0, <2>2, <2>3, JobSet
<1>6. CASE WriteDmarcMap(j)
  <2>1. CASE job' = [job EXCEPT ![j] = AfterMaps(c)]
    BY <2>1, <1>0, <1>c, JobSet
  <2>2. CASE UNCHANGED job
    BY <2>2, <1>0 DEF JobsOk
  <2> QED BY <1>6, <2>1, <2>2 DEF WriteDmarcMap
<1>7. CASE SaveLimit(j)
  <2> DEFINE d == IF c.op = "import" THEN [c EXCEPT !.pc = "rest"]
                  ELSE IF IsAuto(c.limit) THEN [NoJob EXCEPT !.op = "limit", !.pc = "recalc", !.id = c.id]
                  ELSE NoJob
             f == [job EXCEPT ![j] = d]
  <2>1. JobOk(d)
    BY <1>7, <1>a, <1>b, NoJobTyped, BegunOk DEF SaveLimit
  <2> HIDE DEF d
  <2>2. f \in [Jobs -> JobType] /\ \A k \in Jobs : JobOk(f[k])
    BY <2>1, <1>0 DEF JobsOk, JobOk
  <2>3. job' = Staled(f, c.id)
    BY <1>7 DEF SaveLimit, d
  <2> HIDE DEF f
  <2> QED BY <2>2, <2>3, StaledParts DEF JobsOk
<1>8. CASE ReadLimit(j)
  <2> DEFINE l == limits[c.id]
             d == [c EXCEPT !.pc = "stats", !.limit = l]
  <2>1. c.id \in RowIds /\ l \in AnyLimit
    BY <1>8, <1>0, <1>a DEF ReadLimit, LimitRows
  <2> HIDE DEF l
  <2>2. JobOk(d)
    BY <2>1, <1>0 DEF JobOk, JobType, JobPcs
  <2>3. job' = [job EXCEPT ![j] = IF IsAuto(l) THEN d ELSE NoJob]
    BY <1>8 DEF ReadLimit, l
  <2> HIDE DEF d
  <2> QED BY <1>0, <2>2, <2>3, NoJobTyped, JobSet
<1>9. CASE RecalcNext(j)
  <2>1. CASE c.todo = {} /\ Over(j)
    BY <2>1, <1>0, NoJobTyped, JobSet DEF Over
  <2>2. ASSUME NEW e \in c.todo,
               job' = [job EXCEPT ![j] = [c EXCEPT !.pc = "stats", !.id = e.id, !.limit = e.limit,
                                                   !.stale = e.stale, !.todo = c.todo \ {e}]]
        PROVE  JobsOk'
    <3> DEFINE d == [c EXCEPT !.pc = "stats", !.id = e.id, !.limit = e.limit,
                              !.stale = e.stale, !.todo = c.todo \ {e}]
    <3>1. e.id \in RowIds /\ e.id \in 0..MaxRows /\ e.limit \in AnyLimit /\ e.stale \in BOOLEAN
      BY <1>0, SettingsAssumption DEF JobType, Reading, RowIds
    <3>2. d \in JobType /\ d.id = e.id /\ d.pc = "stats"
      BY <3>1, <1>0 DEF JobType, JobPcs
    <3>3. JobOk(d)
      BY <3>1, <3>2 DEF JobOk
    <3>4. job' = [job EXCEPT ![j] = d]
      BY <2>2
    <3> HIDE DEF d
    <3> QED BY <1>0, <3>3, <3>4, JobSet
  <2> QED BY <1>9, <2>1, <2>2 DEF RecalcNext
<1>10. CASE ReadStats(j)
  BY <1>10, <1>0, <1>a, <1>b, <1>c, JobSet DEF ReadStats
<1>11. ASSUME NEW total \in MessagesSent, StoreLimit(j, total) PROVE JobsOk'
  BY <1>11, <1>0, <1>c, JobSet DEF StoreLimit
<1>12. CASE JobFails(j)
  <2>1. c.pc = "rest" => JobOk([c EXCEPT !.pc = "drop"])
    BY <1>a, <1>b
  <2>2. JobOk(job'[j]) /\ job' = [job EXCEPT ![j] = job'[j]]
    BY <2>1, <1>c, <1>0, <1>12, NoJobTyped, Failed DEF JobsOk
  <2> QED BY <1>0, <2>2, JobSet
<1>13. CASE ResyncDMARC(j, "resync")
  <2> DEFINE d == [NoJob EXCEPT !.op = "resync", !.pc = "list"]
  <2>1. d \in JobType /\ d.pc = "list" /\ d.op = "resync"
    BY NoJobTyped DEF JobType, JobPcs, JobOps
  <2>2. JobOk(d) /\ job' = [job EXCEPT ![j] = d]
    BY <1>13, <2>1 DEF JobOk, AboutARow, ResyncDMARC
  <2> HIDE DEF d
  <2> QED BY <1>0, <2>2, JobSet
<1> QED BY <1>1, <1>2, <1>3, <1>4, <1>5, <1>6, <1>7, <1>8, <1>9, <1>10, <1>11, <1>12, <1>13 DEF JobStep

\* What the panel starts with after a kill.
LEMMA StartTyped ==
    LET d == [NoJob EXCEPT !.op = "start", !.pc = "list"] IN
    /\ d \in JobType /\ JobOk(d) /\ d.pc = "list" /\ d.op = "start"
    /\ d.choice = "none" /\ d.todo = {} /\ d.id = 0
<1> DEFINE d == [NoJob EXCEPT !.op = "start", !.pc = "list"]
<1>1. /\ d \in JobType /\ d.pc = "list" /\ d.op = "start"
      /\ d.choice = "none" /\ d.todo = {} /\ d.id = 0
  BY NoJobTyped DEF JobType, JobPcs, JobOps
<1>2. JobOk(d)
  BY <1>1 DEF JobOk, AboutARow
<1> QED BY <1>1, <1>2

\* After a kill every job is idle, or is the start.
LEMMA Restarted ==
    ASSUME SettingsKilled
    PROVE  /\ job' \in [Jobs -> JobType]
           /\ \A j \in Jobs : \/ job'[j] = NoJob
                              \/ job'[j] = [NoJob EXCEPT !.op = "start", !.pc = "list"]
           /\ \E j \in Jobs : job'[j] = [NoJob EXCEPT !.op = "start", !.pc = "list"]
  BY StartTyped, NoJobTyped DEF SettingsKilled

LEMMA RowsStep ==
    ASSUME SettingsTyped, SettingsStep
    PROVE  DomainRows'
<1>0. DomainRows /\ JobsOk
  BY DEF SettingsTyped
<1>1. CASE UNCHANGED <<domains, issued>>
  BY <1>0, <1>1 DEF DomainRows, There
<1>2. ASSUME NEW j \in Jobs, NEW n \in Domains, NEW op, NEW h, NEW l, AddDomain(j, n, op, h, l)
      PROVE  DomainRows'
  <2> DEFINE row == [name |-> n, hosted |-> FALSE]
  <2>0. issued' = issued + 1 /\ issued \in Nat /\ issued + 1 \in RowIds
        /\ domains' = [domains EXCEPT ![issued + 1] = row]
    BY <1>0, <1>2, SettingsAssumption DEF AddDomain, DomainRows, RowIds
  <2>1. row \in RowType /\ row.name = n
    BY DEF RowType
  <2> HIDE DEF row
  <2>2. domains' \in [RowIds -> RowType]
    BY <1>0, <2>0, <2>1 DEF DomainRows
  <2>3. \A i \in RowIds : domains'[i] = IF i = issued + 1 THEN row ELSE domains[i]
    BY <1>0, <2>0 DEF DomainRows
  <2>4. There' \subseteq There \cup {issued + 1} /\ issued + 1 \notin There
    BY <1>0, <2>0, <2>3, SettingsAssumption DEF There, DomainRows, RowIds
  <2>5. \A i \in There : domains[i].name # n
    BY <1>2 DEF AddDomain, RowsNamed
  <2>6. \A i \in There' : domains'[i].name \in Domains
    BY <1>0, <2>3, <2>1, <2>4 DEF DomainRows, There
  <2>7. \A i \in RowIds : i > issued' => i \notin There'
    BY <1>0, <2>0, <2>4 DEF DomainRows, RowIds
  <2>8. \A i, k \in There' : domains'[i].name = domains'[k].name => i = k
    BY <1>0, <2>3, <2>1, <2>4, <2>5 DEF DomainRows, There
  <2> QED BY <2>0, <2>2, <2>6, <2>7, <2>8 DEF DomainRows
<1>3. ASSUME NEW j \in Jobs, DropRow(j) PROVE DomainRows'
  <2>1. CASE job[j].id \in There
    <3>1. domains' = [domains EXCEPT ![job[j].id] = NoRow] /\ UNCHANGED issued
      BY <1>3, <2>1 DEF DropRow, DeleteRow
    <3>2. domains' \in [RowIds -> RowType]
      BY <3>1, <1>0 DEF DomainRows, RowType
    <3>3. There' \subseteq There /\ \A i \in There' : domains'[i] = domains[i]
      BY <3>1, <1>0 DEF DomainRows, There
    <3> QED BY <1>0, <3>1, <3>2, <3>3 DEF DomainRows
  <2>2. CASE job[j].id \notin There
    BY <1>1, <1>3, <2>2 DEF DropRow
  <2> QED BY <2>1, <2>2
<1>4. ASSUME NEW j \in Jobs, SaveAddress(j) PROVE DomainRows'
  <2> DEFINE i == job[j].id
             h == (job[j].choice = "hosted")
  <2>1. CASE i \in There
    <3>1. domains' = [domains EXCEPT ![i] = [domains[i] EXCEPT !.hosted = h]] /\ UNCHANGED issued
      BY <1>4, <2>1 DEF SaveAddress
    <3>2. domains[i] \in [name : Domains, hosted : BOOLEAN] /\ i \in RowIds /\ domains[i] # NoRow
      BY <2>1, <1>0 DEF DomainRows, RowType, There
    <3>3. [domains[i] EXCEPT !.hosted = h] \in [name : Domains, hosted : BOOLEAN]
          /\ [domains[i] EXCEPT !.hosted = h].name = domains[i].name
      BY <3>2
    <3>4. domains' \in [RowIds -> RowType]
      BY <3>1, <3>3, <1>0 DEF DomainRows, RowType
    <3>5. There' \subseteq There /\ \A k \in There' : domains'[k].name = domains[k].name
      BY <3>1, <3>2, <3>3, <1>0 DEF DomainRows, There
    <3> QED BY <1>0, <3>1, <3>4, <3>5 DEF DomainRows
  <2>2. CASE i \notin There
    BY <1>1, <1>4, <2>2 DEF SaveAddress
  <2> QED BY <2>1, <2>2
<1>5. ASSUME NEW j \in Jobs, JobAsked(j) PROVE DomainRows'
  BY <1>1, <1>2, <1>5 DEF JobAsked, Remove, AskRecalc, ChooseAddress, ChooseLimit, RecalcAll, rowVars
<1>6. ASSUME NEW j \in Jobs, JobStep(j) PROVE DomainRows'
  BY <1>1, <1>3, <1>4, <1>6 DEF JobStep, RestDone, ClearLimits, ListHosted, WriteDmarcMap,
     SaveLimit, ReadLimit, RecalcNext, ReadStats, StoreLimit, JobFails, rowVars
<1>7. ASSUME NEW j \in Jobs, ResyncDMARC(j, "resync") PROVE DomainRows'
  BY <1>1, <1>7 DEF ResyncDMARC, rowVars
<1>8. CASE IngestStep
  BY <1>1, <1>8 DEF IngestStep, Arrive, CheckReport, InsertReport, PruneReports, IngestFails, NinetyDaysPass, rowVars
<1>9. CASE SettingsKilled
  BY <1>1, <1>9 DEF SettingsKilled, rowVars
<1> QED BY <1>5, <1>6, <1>7, <1>8, <1>9 DEF SettingsStep

LEMMA LimitsStep ==
    ASSUME SettingsTyped, SettingsStep
    PROVE  LimitRows'
<1>0. LimitRows /\ job \in [Jobs -> JobType]
  BY DEF SettingsTyped, JobsOk
<1>1. CASE UNCHANGED <<limits, saved>>
  BY <1>0, <1>1 DEF LimitRows
<1>2. ASSUME NEW i, NEW l \in AnyLimit, LimitSaved(i, l) PROVE LimitRows'
  BY <1>0, <1>2 DEF LimitSaved, LimitRows
<1>3. ASSUME NEW j \in Jobs, NEW total \in MessagesSent, StoreLimit(j, total) PROVE LimitRows'
  <2> DEFINE l == job[j].limit
             m == AutoMax(total, l.mult)
  <2>1. l \in AnyLimit /\ l.mult \in Nat
    BY <1>0 DEF JobType, AnyLimit
  <2>2. m \in 0..L1
    BY <2>1, AutoMaxBounded, <1>3 DEF MessagesSent
  <2> HIDE DEF m, l
  <2>3. [l EXCEPT !.max = m] \in AnyLimit
    BY <2>1, <2>2, LimitsTyped
  <2>4. limits' = [limits EXCEPT ![job[j].id] = [l EXCEPT !.max = m]] /\ saved' = saved
    BY <1>3 DEF StoreLimit, l, m
  <2> QED BY <1>0, <2>3, <2>4 DEF LimitRows
<1>4. ASSUME NEW j \in Jobs, ClearLimits(j) PROVE LimitRows'
  BY <1>2, <1>4, LimitsTyped DEF ClearLimits
<1>5. ASSUME NEW j \in Jobs, SaveLimit(j) PROVE LimitRows'
  <2>1. job[j].limit \in AnyLimit
    BY <1>0 DEF JobType
  <2> QED BY <1>2, <1>5, <2>1 DEF SaveLimit
<1>6. ASSUME NEW j \in Jobs, JobAsked(j) PROVE LimitRows'
  BY <1>1, <1>6 DEF JobAsked, AddDomain, Remove, AskRecalc, ChooseAddress, ChooseLimit, RecalcAll, limitVars
<1>7. ASSUME NEW j \in Jobs, JobStep(j) PROVE LimitRows'
  BY <1>1, <1>3, <1>4, <1>5, <1>7 DEF JobStep, RestDone, DropRow, SaveAddress, ListHosted, WriteDmarcMap,
     ReadLimit, RecalcNext, ReadStats, JobFails, limitVars
<1>8. CASE IngestStep \/ SettingsKilled \/ \E j \in Jobs : ResyncDMARC(j, "resync")
  BY <1>1, <1>8 DEF IngestStep, Arrive, CheckReport, InsertReport, PruneReports, IngestFails, NinetyDaysPass,
     SettingsKilled, ResyncDMARC, limitVars
<1> QED BY <1>6, <1>7, <1>8 DEF SettingsStep

LEMMA MapsStep ==
    ASSUME SettingsTyped, SettingsStep
    PROVE  opened' \in MapsType /\ owed' \in {"no", "yes", "rebuilding"}
<1>0. opened \in MapsType /\ owed \in {"no", "yes", "rebuilding"} /\ job \in [Jobs -> JobType]
  BY DEF SettingsTyped, JobsOk
<1>1. ASSUME NEW j \in Jobs, WriteDmarcMap(j)
      PROVE  opened' \in MapsType /\ owed' \in {"no", "yes", "rebuilding"}
  <2> DEFINE want == DmarcMaps(job[j].got)
  <2>1. want \in MapsType
    BY <1>0 DEF DmarcMaps, MapsType, JobType
  <2>2. \A f \in {"recipients", "transport", "relay"} : [opened EXCEPT ![f] = want[f]] \in MapsType
    <3> HIDE DEF want
    <3> QED BY <2>1, <1>0 DEF MapsType
  <2>3. ToWrite(want) # {} => NextToWrite(want) \in {"recipients", "transport", "relay"}
    <3> HIDE DEF want
    <3>1. SUFFICES ASSUME ToWrite(want) # {} PROVE \E k \in ToWrite(want) : \A m \in ToWrite(want) : k <= m
      BY DEF NextToWrite, ToWrite, DmarcOrder
    <3> QED BY <3>1 DEF ToWrite
  <2> QED BY <1>0, <1>1, <2>2, <2>3 DEF WriteDmarcMap
<1>2. ASSUME NEW j \in Jobs, JobAsked(j)
      PROVE  opened' \in MapsType /\ owed' \in {"no", "yes", "rebuilding"}
  BY <1>0, <1>2 DEF JobAsked, AddDomain, Remove, AskRecalc, ChooseAddress, ChooseLimit, RecalcAll, mapVars
<1>3. ASSUME NEW j \in Jobs, JobStep(j)
      PROVE  opened' \in MapsType /\ owed' \in {"no", "yes", "rebuilding"}
  BY <1>0, <1>1, <1>3 DEF JobStep, RestDone, ClearLimits, DropRow, SaveAddress, ListHosted, SaveLimit, StoreLimit,
     ReadLimit, RecalcNext, ReadStats, JobFails, mapVars
<1>4. CASE IngestStep \/ SettingsKilled \/ \E j \in Jobs : ResyncDMARC(j, "resync")
  BY <1>0, <1>4 DEF IngestStep, Arrive, CheckReport, InsertReport, PruneReports, IngestFails, NinetyDaysPass,
     SettingsKilled, ResyncDMARC, mapVars
<1> QED BY <1>2, <1>3, <1>4 DEF SettingsStep

LEMMA SettingsTypedStep ==
    ASSUME SettingsTyped, [SettingsStep]_settings
    PROVE  SettingsTyped'
<1>1. CASE SettingsStep
  <2>1. JobsOk'
    <3>1. CASE \E j \in Jobs : JobAsked(j) \/ JobStep(j) \/ ResyncDMARC(j, "resync")
      BY <3>1, JobsAsked, JobsStepOn
    <3>2. CASE IngestStep
      BY <3>2 DEF IngestStep, Arrive, CheckReport, InsertReport, PruneReports, IngestFails, NinetyDaysPass,
         SettingsTyped, JobsOk
    <3>3. CASE SettingsKilled
      BY <3>3, Restarted, StartTyped, NoJobTyped DEF JobsOk
    <3> QED BY <1>1, <3>1, <3>2, <3>3 DEF SettingsStep
  <2> QED BY <1>1, <2>1, RowsStep, LimitsStep, MapsStep DEF SettingsTyped
<1>2. CASE UNCHANGED settings
  BY <1>2 DEF settings, SettingsTyped, JobsOk, DomainRows, There, LimitRows
<1> QED BY <1>1, <1>2

-----------------------------------------------------------------------------
(* The report addresses.                                                   *)

\* A job that is still to list the rows: what it changed, or may have, is not
\* in the maps yet.
Due(c) == \/ c.pc = "list"
          \/ c.op = "import" /\ c.choice # "none" /\ c.pc \in {"limit", "rest"}
NoneIsDue == \A j \in Jobs : ~ Due(job[j])

Between(S) == Hosted \subseteq S /\ S \subseteq Hosted \cup gone

OneWriter == \A j, k \in Jobs : HoldsDmarc(j) /\ HoldsDmarc(k) => j = k

\* The writer of the maps has the rows as they are, unless a job is to list
\* them anew or a rebuild is owed.
WriterHasRows == \A j \in Jobs : HoldsDmarc(j) /\ owed # "yes" /\ NoneIsDue => Between(job[j].got)

MapsHaveRows ==
    owed = "no" /\ NoneIsDue /\ (\A j \in Jobs : ~ HoldsDmarc(j)) =>
        Between(opened.recipients) /\ opened = DmarcMaps(opened.recipients)

AddressInv == OneWriter /\ WriterHasRows /\ MapsHaveRows

LEMMA OutcomePcs ==
    ASSUME NEW c \in JobType
    PROVE  /\ AfterMaps(c).pc \in {"recalc", "idle"}
           /\ Refused(c).pc \in {"unlimit", "idle"}
           /\ Recalculated(c).pc \in {"each", "idle"}
           /\ LimitOf(c).pc \in {"limit", "rest"} /\ LimitOf(c).op = c.op /\ LimitOf(c).choice = c.choice
           /\ AddressOf(c).pc \in {"address", "limit", "rest"} /\ AddressOf(c).op = c.op
           /\ AddressOf(c).choice = c.choice /\ (c.choice # "none" => AddressOf(c).pc = "address")
           /\ LimitOf(c).got = c.got /\ LimitOf(c).todo = c.todo /\ AddressOf(c).todo = c.todo
           /\ AfterMaps(c).todo \subseteq c.todo /\ Refused(c).todo \subseteq c.todo /\ Recalculated(c).todo \subseteq c.todo
<1> USE NoJobTyped DEF JobType
<1>1. AfterMaps(c).pc \in {"recalc", "idle"} /\ AfterMaps(c).todo \subseteq c.todo
  BY DEF AfterMaps
<1>2. Refused(c).pc \in {"unlimit", "idle"} /\ Refused(c).todo \subseteq c.todo
  BY DEF Refused
<1>3. Recalculated(c).pc \in {"each", "idle"} /\ Recalculated(c).todo \subseteq c.todo
  BY DEF Recalculated
<1>4. LimitOf(c).pc \in {"limit", "rest"} /\ LimitOf(c).op = c.op /\ LimitOf(c).choice = c.choice
      /\ LimitOf(c).got = c.got /\ LimitOf(c).todo = c.todo
  BY DEF LimitOf
<1>5. /\ AddressOf(c).pc \in {"address", "limit", "rest"} /\ AddressOf(c).op = c.op
      /\ AddressOf(c).choice = c.choice /\ AddressOf(c).todo = c.todo
      /\ c.choice # "none" => AddressOf(c).pc = "address"
  BY <1>4 DEF AddressOf
<1> QED BY <1>1, <1>2, <1>3, <1>4, <1>5

\* What a step of one job leaves of the others.
LEMMA OthersKeep ==
    ASSUME SettingsTyped, NEW j \in Jobs, JobAsked(j) \/ JobStep(j) \/ ResyncDMARC(j, "resync"),
           NEW k \in Jobs, k # j
    PROVE  /\ job'[k].pc = job[k].pc /\ job'[k].op = job[k].op /\ job'[k].choice = job[k].choice
           /\ job'[k].got = job[k].got
<1>0. JobsOk
  BY DEF SettingsTyped
<1>1. ASSUME NEW d, job' = [job EXCEPT ![j] = d] PROVE job'[k] = job[k]
  BY <1>0, <1>1 DEF JobsOk
<1>2. CASE JobAsked(j)
  BY <1>1, <1>2 DEF JobAsked, AddDomain, Remove, AskRecalc, ChooseAddress, ChooseLimit, RecalcAll, BeginJob
<1>3. ASSUME NEW f, NEW i, job' = Staled(f, i), f \in [Jobs -> JobType], \A m \in Jobs : JobOk(f[m]), f[k] = job[k]
      PROVE  /\ job'[k].pc = job[k].pc /\ job'[k].op = job[k].op /\ job'[k].choice = job[k].choice
             /\ job'[k].got = job[k].got
  BY <1>3, StaledParts
<1>4. CASE ClearLimits(j)
  <2> DEFINE f == [job EXCEPT ![j] = [job[j] EXCEPT !.pc = "drop"]]
  <2>0. job[j] \in JobType /\ JobOk(job[j]) /\ job[j].id \in RowIds
    BY <1>0, <1>4 DEF JobsOk, JobOk, ClearLimits, AboutARow
  <2>1. JobOk([job[j] EXCEPT !.pc = "drop"])
    BY <2>0, Outcomes DEF AboutARow
  <2>2. f \in [Jobs -> JobType] /\ (\A m \in Jobs : JobOk(f[m])) /\ f[k] = job[k]
    BY <1>0, <2>1 DEF JobsOk, JobOk
  <2>3. job' = Staled(f, job[j].id)
    BY <1>4 DEF ClearLimits
  <2> HIDE DEF f
  <2> QED BY <1>3, <2>2, <2>3
<1>5. CASE SaveLimit(j)
  <2> DEFINE c == job[j]
             d == IF c.op = "import" THEN [c EXCEPT !.pc = "rest"]
                  ELSE IF IsAuto(c.limit) THEN [NoJob EXCEPT !.op = "limit", !.pc = "recalc", !.id = c.id]
                  ELSE NoJob
             f == [job EXCEPT ![j] = d]
  <2>0. job[j] \in JobType /\ JobOk(job[j]) /\ job[j].id \in RowIds
    BY <1>0, <1>5 DEF JobsOk, JobOk, SaveLimit, AboutARow
  <2>1. JobOk(d)
    <3>1. JobOk([c EXCEPT !.pc = "rest"])
      BY <2>0, Outcomes DEF AboutARow
    <3> QED BY <3>1, <2>0, NoJobTyped, BegunOk
  <2> HIDE DEF d
  <2>2. f \in [Jobs -> JobType] /\ (\A m \in Jobs : JobOk(f[m])) /\ f[k] = job[k]
    BY <1>0, <2>1 DEF JobsOk, JobOk
  <2>3. job' = Staled(f, job[j].id)
    BY <1>5 DEF SaveLimit, d
  <2> HIDE DEF f
  <2> QED BY <1>3, <2>2, <2>3
<1>6. CASE RecalcNext(j)
  BY <1>1, <1>6 DEF RecalcNext, Over
<1>7. CASE JobFails(j)
  <2>1. job' = [job EXCEPT ![j] = job'[j]]
    BY <1>0, <1>7, Failed DEF JobsOk
  <2> QED BY <1>1, <2>1
<1>8. CASE SaveAddress(j)
  BY <1>1, <1>8 DEF SaveAddress
<1>9. CASE WriteDmarcMap(j)
  BY <1>1, <1>9 DEF WriteDmarcMap
<1>10. CASE RestDone(j) \/ DropRow(j) \/ ListHosted(j) \/ ReadLimit(j) \/ ReadStats(j)
            \/ ResyncDMARC(j, "resync") \/ \E total \in MessagesSent : StoreLimit(j, total)
  <2>1. \E d : job' = [job EXCEPT ![j] = d]
    BY <1>10 DEF RestDone, DropRow, ListHosted, ReadLimit, ReadStats, ResyncDMARC, StoreLimit, To, Over
  <2> QED BY <1>1, <2>1
<1> QED BY <1>2, <1>4, <1>5, <1>6, <1>7, <1>8, <1>9, <1>10 DEF JobStep

\* Steps that open nothing, close nothing and settle nothing.
LEMMA Quiet ==
    ASSUME AddressInv,
           \A k \in Jobs : job'[k].pc = "write" => job[k].pc = "write" /\ job'[k].got = job[k].got,
           \/ owed' = "yes"
           \/ /\ \A k \in Jobs : Due(job[k]) => Due(job'[k])
              /\ \A k \in Jobs : job[k].pc = "write" => job'[k].pc = "write"
              /\ Hosted' \subseteq Hosted /\ Hosted \cup gone \subseteq Hosted' \cup gone'
              /\ opened' = opened /\ owed' = owed
    PROVE  AddressInv'
<1>1. OneWriter'
  BY DEF AddressInv, OneWriter, HoldsDmarc
<1>2. CASE owed' = "yes"
  BY <1>1, <1>2 DEF AddressInv, WriterHasRows, MapsHaveRows
<1>3. ASSUME owed' # "yes" PROVE WriterHasRows' /\ MapsHaveRows'
  <2>1. NoneIsDue' => NoneIsDue
    BY <1>3 DEF NoneIsDue
  <2>2. \A S : Between(S) => Between(S)'
    BY <1>3 DEF Between
  <2>3. WriterHasRows'
    BY <1>3, <2>1, <2>2 DEF AddressInv, WriterHasRows, HoldsDmarc
  <2>4. MapsHaveRows'
    BY <1>3, <2>1, <2>2 DEF AddressInv, MapsHaveRows, HoldsDmarc, DmarcMaps
  <2> QED BY <2>3, <2>4
<1> QED BY <1>1, <1>2, <1>3 DEF AddressInv

\* The step of one job, when it does not write.
LEMMA QuietJob ==
    ASSUME SettingsTyped, AddressInv, NEW j \in Jobs,
           JobAsked(j) \/ JobStep(j) \/ ResyncDMARC(j, "resync"),
           job'[j].pc # "write",
           \/ owed' = "yes"
           \/ /\ Due(job[j]) => Due(job'[j])
              /\ job[j].pc # "write"
              /\ Hosted' \subseteq Hosted /\ Hosted \cup gone \subseteq Hosted' \cup gone'
              /\ opened' = opened /\ owed' = owed
    PROVE  AddressInv'
<1>1. \A k \in Jobs : k # j => job'[k].pc = job[k].pc /\ (Due(job'[k]) <=> Due(job[k])) /\ job'[k].got = job[k].got
  BY OthersKeep DEF Due
<1> QED BY <1>1, Quiet

LEMMA AddressAsked ==
    ASSUME SettingsTyped, AddressInv, NEW j \in Jobs, JobAsked(j)
    PROVE  AddressInv'
<1> USE DEF BeginJob
<1>0. job \in [Jobs -> JobType] /\ DomainRows
  BY DEF SettingsTyped, JobsOk
<1>1. job[j] = NoJob
  BY DEF JobAsked, AddDomain, Remove, AskRecalc, ChooseAddress, ChooseLimit, RecalcAll
<1>2. job[j].pc = "idle" /\ job[j].op = "none"
  BY <1>1, NoJobTyped
<1>3. ~ Due(job[j]) /\ job[j].pc # "write"
  BY <1>2 DEF Due
<1>4. opened' = opened /\ owed' = owed /\ gone' = gone
  BY DEF JobAsked, AddDomain, Remove, AskRecalc, ChooseAddress, ChooseLimit, RecalcAll, mapVars, rowVars
<1>5. job'[j].pc # "write"
  <2>1. ASSUME NEW n, NEW op \in {"add", "import"}, NEW h \in Choices, NEW l \in AnyLimit, AddDomain(j, n, op, h, l)
        PROVE  job'[j].pc # "write"
    <3> DEFINE c == [NoJob EXCEPT !.op = op, !.id = issued + 1, !.choice = h, !.limit = l]
    <3>1. issued + 1 \in 0..MaxRows
      BY <2>1, <1>0, SettingsAssumption DEF AddDomain, DomainRows
    <3>2. c \in JobType
      BY <3>1, NoJobTyped DEF JobType, JobOps
    <3>3. job'[j] = AddressOf(c)
      BY <2>1, <1>0 DEF AddDomain
    <3> HIDE DEF c
    <3> QED BY <3>2, <3>3, OutcomePcs
  <2>2. "none" \in Choices /\ NoLimit \in AnyLimit /\ ImportedLimits \subseteq AnyLimit
    BY LimitsTyped DEF Choices
  <2>3. ASSUME NEW n, AddDomain(j, n, "add", "none", NoLimit) PROVE job'[j].pc # "write"
    BY <2>1, <2>2, <2>3
  <2>4. ASSUME NEW n, NEW h \in Choices, NEW l \in ImportedLimits, AddDomain(j, n, "import", h, l)
        PROVE  job'[j].pc # "write"
    BY <2>1, <2>2, <2>4
  <2>5. ASSUME NEW i, Remove(j, i) \/ AskRecalc(j, i) PROVE job'[j].pc # "write"
    <3>1. CASE Remove(j, i)
      BY <3>1, <1>0, NoJobTyped DEF Remove, JobType
    <3>2. CASE AskRecalc(j, i)
      BY <3>2, <1>0, NoJobTyped DEF AskRecalc, JobType
    <3> QED BY <2>5, <3>1, <3>2
  <2>6. ASSUME NEW i, NEW h, ChooseAddress(j, i, h) PROVE job'[j].pc # "write"
    BY <2>6, <1>0, NoJobTyped DEF ChooseAddress, JobType
  <2>7. ASSUME NEW i, NEW l, ChooseLimit(j, i, l) PROVE job'[j].pc # "write"
    BY <2>7, <1>0, NoJobTyped DEF ChooseLimit, JobType
  <2>8. ASSUME RecalcAll(j) PROVE job'[j].pc # "write"
    <3> DEFINE t == {[id |-> i, limit |-> limits[i], stale |-> FALSE] : i \in AutoLimits}
    <3>1. job'[j] = [NoJob EXCEPT !.op = "recalcAll", !.pc = "each", !.todo = t]
      BY <2>8, <1>0 DEF RecalcAll
    <3> HIDE DEF t
    <3> QED BY <3>1, NoJobTyped DEF JobType
  <2> QED BY <2>3, <2>4, <2>5, <2>6, <2>7, <2>8 DEF JobAsked
<1>6. Hosted' = Hosted
  <2>1. CASE UNCHANGED domains
    BY <2>1 DEF Hosted, There
  <2>2. ASSUME NEW n, NEW op, NEW h, NEW l, AddDomain(j, n, op, h, l) PROVE Hosted' = Hosted
    <3>1. /\ issued + 1 \in RowIds /\ issued + 1 \notin There
          /\ domains' = [domains EXCEPT ![issued + 1] = [name |-> n, hosted |-> FALSE]]
      BY <2>2, <1>0, SettingsAssumption DEF AddDomain, DomainRows, RowIds
    <3>2. There' \subseteq There \cup {issued + 1} /\ There \subseteq There'
          /\ \A i \in There : domains'[i] = domains[i]
      BY <3>1, <1>0 DEF There, DomainRows
    <3>3. domains'[issued + 1].hosted = FALSE
      BY <3>1, <1>0 DEF DomainRows
    <3> QED BY <3>2, <3>3 DEF Hosted
  <2> QED BY <2>1, <2>2 DEF JobAsked, Remove, AskRecalc, ChooseAddress, ChooseLimit, RecalcAll, rowVars
<1> QED BY <1>3, <1>4, <1>5, <1>6, QuietJob

LEMMA AddressStepOn ==
    ASSUME SettingsTyped, AddressInv, NEW j \in Jobs, JobStep(j) \/ ResyncDMARC(j, "resync")
    PROVE  AddressInv'
<1> DEFINE c == job[j]
<1>0. job \in [Jobs -> JobType] /\ c \in JobType /\ JobOk(c) /\ DomainRows /\ opened \in MapsType
  BY DEF SettingsTyped, JobsOk
<1>p. /\ AfterMaps(c).pc \in {"recalc", "idle"} /\ Refused(c).pc \in {"unlimit", "idle"}
      /\ Recalculated(c).pc \in {"each", "idle"}
      /\ LimitOf(c).pc \in {"limit", "rest"} /\ LimitOf(c).op = c.op /\ LimitOf(c).choice = c.choice
  BY <1>0, OutcomePcs
<1>n. NoJob.pc = "idle"
  BY NoJobTyped
<1>q. ASSUME UNCHANGED <<domains, gone, opened, owed>>, c.pc # "write", job'[j].pc # "write", Due(c) => Due(job'[j])
      PROVE  AddressInv'
  <2>1. Hosted' = Hosted
    BY <1>q DEF Hosted, There
  <2> QED BY <1>q, <2>1, QuietJob
<1>1. CASE RestDone(j)
  <2>1. c.pc = "rest" /\ UNCHANGED <<domains, gone, opened, owed>>
    BY <1>1 DEF RestDone, rowVars, mapVars
  <2>2. c.choice # "none" => job'[j].pc = "list"
    BY <1>1, <1>0 DEF RestDone, To, JobType
  <2>3. c.choice = "none" => job'[j] = AfterMaps(c)
    BY <1>1, <1>0 DEF RestDone
  <2> QED BY <2>1, <2>2, <2>3, <1>p, <1>q DEF Due
<1>2. CASE ClearLimits(j)
  <2> DEFINE f == [job EXCEPT ![j] = [c EXCEPT !.pc = "drop"]]
  <2>1. c.pc = "unlimit" /\ UNCHANGED <<domains, gone, opened, owed>> /\ job' = Staled(f, c.id) /\ c.id \in RowIds
    BY <1>2, <1>0 DEF ClearLimits, rowVars, mapVars, JobOk, AboutARow
  <2>2. JobOk([c EXCEPT !.pc = "drop"])
    BY <2>1, <1>0, Outcomes DEF AboutARow
  <2>3. f \in [Jobs -> JobType] /\ (\A m \in Jobs : JobOk(f[m])) /\ f[j].pc = "drop"
    BY <2>2, <1>0 DEF JobOk, SettingsTyped, JobsOk, JobType
  <2>4. job'[j].pc = "drop"
    <3> HIDE DEF f
    <3> QED BY <2>1, <2>3, StaledParts
  <2> QED BY <2>1, <2>4, <1>q DEF Due
<1>3. CASE DropRow(j)
  <2>1. c.pc = "drop" /\ UNCHANGED <<opened, owed>> /\ job'[j] = NoJob
    BY <1>3, <1>0 DEF DropRow, mapVars, Over
  <2>2. CASE c.id \in There
    <3>1. domains' = [domains EXCEPT ![c.id] = NoRow] /\ c.id \in RowIds
          /\ gone' = IF domains[c.id].hosted THEN gone \cup {domains[c.id].name} ELSE gone
      BY <1>3, <2>2 DEF DropRow, DeleteRow, There
    <3>2. There' = There \ {c.id} /\ \A i \in There' : domains'[i] = domains[i]
      BY <3>1, <1>0 DEF There, DomainRows
    <3>3. Hosted' \subseteq Hosted /\ Hosted \cup gone \subseteq Hosted' \cup gone'
      BY <3>1, <3>2 DEF Hosted
    <3> QED BY <2>1, <3>3, <1>n, QuietJob DEF Due
  <2>3. CASE c.id \notin There
    BY <1>3, <2>1, <2>3, <1>n, <1>q DEF DropRow, Due
  <2> QED BY <2>2, <2>3
<1>4. CASE SaveAddress(j)
  <2>0. c.pc = "address" /\ UNCHANGED <<gone, opened, owed>>
    BY <1>4 DEF SaveAddress, mapVars
  <2>1. CASE c.id \in There
    <3>1. job'[j] = IF c.op = "import" THEN LimitOf(c) ELSE [c EXCEPT !.pc = "list"]
      BY <1>4, <2>1, <1>0 DEF SaveAddress
    <3>2. c.op = "import" => c.choice # "none"
      BY <2>0, <1>0 DEF JobOk
    <3>3. Due(job'[j]) /\ job'[j].pc # "write"
      BY <3>1, <3>2, <1>p, <1>0 DEF Due, JobType
    <3>4. ~ NoneIsDue' /\ (\A k \in Jobs : job'[k].pc = "write" => job[k].pc = "write")
      BY <3>3, OthersKeep DEF NoneIsDue
    <3> QED BY <3>4 DEF AddressInv, OneWriter, WriterHasRows, MapsHaveRows, HoldsDmarc
  <2>2. CASE c.id \notin There
    <3>1. job'[j] = Refused(c) /\ UNCHANGED domains
      BY <1>4, <2>2, <1>0 DEF SaveAddress
    <3> QED BY <2>0, <3>1, <1>p, <1>q DEF Due
  <2> QED BY <2>1, <2>2
<1>5. CASE ListHosted(j)
  <2>1. /\ \A k \in Jobs : job[k].pc # "write"
        /\ job'[j].pc = "write" /\ job'[j].got = Hosted
        /\ UNCHANGED domains
    BY <1>5, <1>0 DEF ListHosted, HoldsDmarc, JobType
  <2>2. \A k \in Jobs : job'[k].pc = "write" => k = j
    BY <2>1, OthersKeep, <1>5 DEF JobStep
  <2>3. Hosted' = Hosted
    BY <2>1 DEF Hosted, There
  <2>4. Hosted' \subseteq job'[j].got /\ job'[j].got \subseteq Hosted' \cup gone'
    BY <2>1, <2>3
  <2>5. OneWriter' /\ MapsHaveRows' /\ WriterHasRows'
    BY <2>1, <2>2, <2>4 DEF OneWriter, MapsHaveRows, WriterHasRows, HoldsDmarc, Between
  <2> QED BY <2>5 DEF AddressInv
<1>6. CASE WriteDmarcMap(j)
  <2> DEFINE want == DmarcMaps(c.got)
  <2>0. c.pc = "write" /\ UNCHANGED <<domains, gone>> /\ Hosted' = Hosted
    BY <1>6 DEF WriteDmarcMap, rowVars, Hosted, There
  <2>1. CASE ToWrite(want) = {}
    <3>1. job'[j] = AfterMaps(c) /\ opened' = opened /\ owed' = (IF owed = "rebuilding" THEN "no" ELSE owed)
      BY <1>6, <2>1, <1>0 DEF WriteDmarcMap
    <3>2. opened = want
      <4>1. \A n \in 1..3 : opened[DmarcOrder[n]] = want[DmarcOrder[n]]
        BY <2>1 DEF ToWrite
      <4>2. opened["recipients"] = want["recipients"] /\ opened["transport"] = want["transport"]
            /\ opened["relay"] = want["relay"]
        BY <4>1 DEF DmarcOrder
      <4>3. want = [recipients |-> want.recipients, transport |-> want.transport, relay |-> want.relay]
        BY DEF DmarcMaps
      <4> QED BY <4>2, <4>3, <1>0 DEF MapsType
    <3>3. opened.recipients = c.got
      BY <3>2 DEF DmarcMaps
    <3>4. \A k \in Jobs : job'[k].pc # "write"
      BY <3>1, <1>p, OthersKeep, <1>6, <2>0 DEF JobStep, AddressInv, OneWriter, HoldsDmarc
    <3>5. OneWriter' /\ WriterHasRows'
      BY <3>4 DEF OneWriter, WriterHasRows, HoldsDmarc
    <3>6. MapsHaveRows'
      <4>1. SUFFICES ASSUME owed' = "no", NoneIsDue'
                     PROVE  Between(opened.recipients) /\ opened = DmarcMaps(opened.recipients)
        BY <3>1, <2>0 DEF MapsHaveRows, Between, DmarcMaps
      <4>2. NoneIsDue
        <5>1. \A k \in Jobs : k # j => ~ Due(job[k])
          BY <4>1, OthersKeep, <1>6 DEF NoneIsDue, JobStep, Due
        <5> QED BY <5>1, <2>0 DEF NoneIsDue, Due
      <4>3. owed # "yes"
        BY <4>1, <3>1
      <4>4. Between(c.got)
        BY <4>2, <4>3, <2>0 DEF AddressInv, WriterHasRows, HoldsDmarc
      <4> QED BY <4>4, <3>2, <3>3
    <3> QED BY <3>5, <3>6 DEF AddressInv
  <2>2. CASE ToWrite(want) # {}
    <3>1. job' = job /\ owed' = owed
      BY <1>6, <2>2 DEF WriteDmarcMap
    <3>2. OneWriter' /\ WriterHasRows'
      BY <3>1, <2>0 DEF AddressInv, OneWriter, WriterHasRows, HoldsDmarc, NoneIsDue, Between
    <3>3. MapsHaveRows'
      BY <3>1, <2>0 DEF MapsHaveRows, HoldsDmarc
    <3> QED BY <3>2, <3>3 DEF AddressInv
  <2> QED BY <2>1, <2>2
<1>7. CASE SaveLimit(j)
  <2> DEFINE d == IF c.op = "import" THEN [c EXCEPT !.pc = "rest"]
                  ELSE IF IsAuto(c.limit) THEN [NoJob EXCEPT !.op = "limit", !.pc = "recalc", !.id = c.id]
                  ELSE NoJob
             f == [job EXCEPT ![j] = d]
  <2>1. c.pc = "limit" /\ UNCHANGED <<domains, gone, opened, owed>> /\ job' = Staled(f, c.id) /\ c.id \in RowIds
    BY <1>7, <1>0 DEF SaveLimit, rowVars, mapVars, JobOk, AboutARow
  <2>2. JobOk(d)
    <3>1. JobOk([c EXCEPT !.pc = "rest"])
      BY <2>1, <1>0, Outcomes DEF AboutARow
    <3> QED BY <3>1, <2>1, NoJobTyped, BegunOk
  <2>3. d.pc # "write" /\ (Due(c) => Due(d))
    BY <2>1, <1>0, NoJobTyped DEF Due, JobType
  <2> HIDE DEF d
  <2>4. f \in [Jobs -> JobType] /\ (\A m \in Jobs : JobOk(f[m])) /\ f[j] = d
    BY <2>2, <1>0 DEF JobOk, SettingsTyped, JobsOk
  <2> HIDE DEF f
  <2>5. job'[j].pc = d.pc /\ job'[j].op = d.op /\ job'[j].choice = d.choice
    BY <2>1, <2>4, StaledParts
  <2> QED BY <2>1, <2>3, <2>5, <1>q DEF Due
<1>8. CASE ReadLimit(j)
  <2>1. c.pc = "recalc" /\ c.op \in JobOps /\ UNCHANGED <<domains, gone, opened, owed>>
    BY <1>8, <1>0 DEF ReadLimit, rowVars, mapVars, JobType
  <2>2. job'[j].pc \in {"stats", "idle"}
    BY <1>8, <1>0, <1>n DEF ReadLimit, JobType
  <2> QED BY <2>1, <2>2, <1>q DEF Due
<1>9. CASE RecalcNext(j)
  <2>1. c.pc = "each" /\ UNCHANGED <<domains, gone, opened, owed>>
    BY <1>9 DEF RecalcNext, rowVars, mapVars
  <2>2. job'[j].pc \in {"stats", "idle"}
    <3>1. CASE Over(j)
      BY <3>1, <1>0, <1>n DEF Over
    <3>2. CASE \E e \in c.todo :
                 job' = [job EXCEPT ![j] = [c EXCEPT !.pc = "stats", !.id = e.id, !.limit = e.limit,
                                                     !.stale = e.stale, !.todo = c.todo \ {e}]]
      BY <3>2, <1>0 DEF JobType
    <3> QED BY <1>9, <3>1, <3>2 DEF RecalcNext
  <2> QED BY <2>1, <2>2, <1>q DEF Due
<1>10. CASE ReadStats(j)
  <2>1. c.pc = "stats" /\ UNCHANGED <<domains, gone, opened, owed>>
    BY <1>10 DEF ReadStats, rowVars, mapVars
  <2>2. job'[j].pc \in {"store", "each", "idle"}
    BY <1>10, <1>0, <1>p DEF ReadStats, JobType
  <2> QED BY <2>1, <2>2, <1>q DEF Due
<1>11. ASSUME NEW total \in MessagesSent, StoreLimit(j, total) PROVE AddressInv'
  <2>1. c.pc = "store" /\ UNCHANGED <<domains, gone, opened, owed>> /\ job'[j] = Recalculated(c)
    BY <1>11, <1>0 DEF StoreLimit, rowVars, mapVars
  <2> QED BY <2>1, <1>p, <1>q DEF Due
<1>12. CASE JobFails(j)
  <2>1. UNCHANGED <<domains, gone, opened>> /\ owed' = IF AddressPending(j) THEN "yes" ELSE owed
    BY <1>12 DEF JobFails, rowVars
  <2>2. Due(c) \/ c.pc = "write" => AddressPending(j)
    BY DEF Due, AddressPending
  <2>3. job'[j].pc # "write"
    BY <1>0, <1>12, Failed, <1>p, <1>n DEF JobType
  <2>4. Hosted' = Hosted
    BY <2>1 DEF Hosted, There
  <2> QED BY <2>1, <2>2, <2>3, <2>4, QuietJob DEF JobStep
<1>13. CASE ResyncDMARC(j, "resync")
  <2>1. c.pc = "idle" /\ UNCHANGED <<domains, gone, opened, owed>> /\ job'[j] = [NoJob EXCEPT !.op = "resync", !.pc = "list"]
    BY <1>13, <1>0, <1>n DEF ResyncDMARC, rowVars, mapVars
  <2>2. job'[j].pc = "list"
    BY <2>1, NoJobTyped DEF JobType
  <2> QED BY <2>1, <2>2, <1>q DEF Due
<1> QED BY <1>1, <1>2, <1>3, <1>4, <1>5, <1>6, <1>7, <1>8, <1>9, <1>10, <1>11, <1>12, <1>13 DEF JobStep

LEMMA AddressStep ==
    ASSUME SettingsTyped, AddressInv, [SettingsStep]_settings
    PROVE  AddressInv'
<1>1. CASE \E j \in Jobs : JobAsked(j) \/ JobStep(j) \/ ResyncDMARC(j, "resync")
  BY <1>1, AddressAsked, AddressStepOn
<1>2. CASE IngestStep \/ UNCHANGED settings
  <2>1. UNCHANGED <<domains, gone, opened, owed, job>>
    BY <1>2 DEF IngestStep, Arrive, CheckReport, InsertReport, PruneReports, IngestFails, NinetyDaysPass,
       rowVars, mapVars, settings
  <2> QED BY <2>1 DEF AddressInv, OneWriter, WriterHasRows, MapsHaveRows, HoldsDmarc, NoneIsDue, Between, Hosted, There, DmarcMaps
<1>3. CASE SettingsKilled
  <2>1. /\ \A j \in Jobs : job'[j].pc # "write"
        /\ \E j \in Jobs : job'[j].pc = "list"
    BY <1>3, Restarted, StartTyped, NoJobTyped
  <2>2. ~ NoneIsDue'
    BY <2>1 DEF NoneIsDue, Due
  <2> QED BY <2>1, <2>2 DEF AddressInv, OneWriter, WriterHasRows, MapsHaveRows, HoldsDmarc
<1> QED BY <1>1, <1>2, <1>3 DEF SettingsStep

LEMMA AddressInit == SettingsInit => AddressInv
<1> SUFFICES ASSUME SettingsInit PROVE AddressInv
  OBVIOUS
<1>1. \A j \in Jobs : job[j].pc = "idle" /\ job[j].op = "none"
  BY NoJobTyped DEF SettingsInit
<1>2. opened = DmarcMaps(Hosted) /\ opened.recipients = Hosted
  BY DEF SettingsInit, DmarcMaps
<1> QED BY <1>1, <1>2 DEF AddressInv, OneWriter, WriterHasRows, MapsHaveRows, HoldsDmarc, Between

LEMMA AddressesFollowed == AddressInv => AddressesFollow
  BY DEF AddressInv, MapsHaveRows, NoneIsDue, Due, Between, AddressesFollow, AddressPending, HoldsDmarc

-----------------------------------------------------------------------------
(* The limits.                                                             *)

\* An automatic limit as it was read, with the number it had then, is the one
\* that was saved.
Fits(l, i) == IsAuto(l) /\ [l EXCEPT !.max = 0] = saved[i]

\* A recalculation that knows of no later save goes on with what was saved,
\* and a job that saves a limit brings no number of an automatic one.
ReadingFits(c) ==
    /\ c.pc \in {"stats", "store"} /\ ~ c.stale /\ c.id \notin overrun => Fits(c.limit, c.id)
    /\ \A e \in c.todo : ~ e.stale /\ e.id \notin overrun => Fits(e.limit, e.id)
    /\ c.pc \in {"address", "limit"} /\ IsAuto(c.limit) => c.limit.max = 0

LimitInv ==
    /\ \A i \in RowIds : IsAuto(saved[i]) => saved[i].max = 0
    /\ \A j \in Jobs : ReadingFits(job[j])
    /\ SavedLimitStays

LEMMA NoReading ==
    ASSUME NEW c, NEW d, ReadingFits(c), d.todo \subseteq c.todo,
           d.pc \notin {"stats", "store", "address", "limit"}
    PROVE  ReadingFits(d)
  BY DEF ReadingFits

LEMMA IdleReads ==
    /\ ReadingFits(NoJob)
    /\ \A i \in RowIds : ReadingFits([NoJob EXCEPT !.op = "limit", !.pc = "recalc", !.id = i])
  BY NoJobTyped DEF ReadingFits, JobType

\* No limit is touched.
LEMMA ReadingSet ==
    ASSUME SettingsTyped, LimitInv, NEW j \in Jobs, NEW d, job' = [job EXCEPT ![j] = d],
           ReadingFits(d), UNCHANGED limitVars
    PROVE  LimitInv'
<1>1. limits' = limits /\ saved' = saved /\ overrun' = overrun /\ job \in [Jobs -> JobType]
  BY DEF limitVars, SettingsTyped, JobsOk
<1>2. \A k \in Jobs : ReadingFits(job'[k])
  BY <1>1 DEF LimitInv
<1>3. (\A k \in Jobs : ReadingFits(job[k]))'
  BY <1>1, <1>2 DEF ReadingFits, Fits
<1> QED BY <1>1, <1>3 DEF LimitInv, SavedLimitStays

\* A limit is saved, or cleared.
LEMMA SavedSet ==
    ASSUME SettingsTyped, LimitInv, NEW f \in [Jobs -> JobType], NEW i \in RowIds, NEW l \in AnyLimit,
           \A j \in Jobs : JobOk(f[j]) /\ ReadingFits(f[j]),
           IsAuto(l) => l.max = 0,
           LimitSaved(i, l), job' = Staled(f, i)
    PROVE  LimitInv'
<1>0. limits \in [RowIds -> AnyLimit] /\ saved \in [RowIds -> AnyLimit]
  BY DEF SettingsTyped, LimitRows
<1>1. /\ limits' = [limits EXCEPT ![i] = l] /\ saved' = [saved EXCEPT ![i] = l]
      /\ overrun' = overrun \ {i}
  BY DEF LimitSaved
<1>2. \A k \in RowIds : IsAuto(saved'[k]) => saved'[k].max = 0
  BY <1>0, <1>1 DEF LimitInv
<1>3. SavedLimitStays'
  <2>1. IsAuto(l) => [l EXCEPT !.max = 0] = l
    BY DEF AnyLimit
  <2>2. \A k \in RowIds : k # i => limits'[k] = limits[k] /\ saved'[k] = saved[k]
    BY <1>0, <1>1
  <2>3. limits'[i] = l /\ saved'[i] = l
    BY <1>0, <1>1
  <2> QED BY <1>1, <2>1, <2>2, <2>3 DEF LimitInv, SavedLimitStays
<1>4. ASSUME NEW m, NEW k \in RowIds, k # i, k \notin overrun => Fits(m, k) PROVE (k \notin overrun => Fits(m, k))'
  BY <1>0, <1>1, <1>4 DEF Fits
<1>5. ASSUME NEW j \in Jobs PROVE ReadingFits(job[j])'
  <2> DEFINE c == f[j]
             d == Staled(f, i)[j]
  <2>0. job'[j] = d /\ c \in JobType /\ JobOk(c) /\ ReadingFits(c)
    OBVIOUS
  <2>1. /\ d.pc = c.pc /\ d.id = c.id /\ d.limit = c.limit
        /\ d.stale = (c.stale \/ (c.id = i /\ c.pc \in {"stats", "store"}))
        /\ d.todo = {[e EXCEPT !.stale = e.stale \/ e.id = i] : e \in c.todo}
    BY StaledParts
  <2> HIDE DEF d, c
  <2>2. ASSUME d.pc \in {"stats", "store"}, ~ d.stale, d.id \notin overrun'
        PROVE  Fits(d.limit, d.id)'
    <3>1. c.id # i /\ ~ c.stale /\ c.id \in RowIds /\ c.id \notin overrun
      BY <2>0, <2>1, <2>2, <1>1 DEF JobOk, AboutARow
    <3>2. Fits(c.limit, c.id)
      BY <3>1, <2>0, <2>1, <2>2 DEF ReadingFits
    <3>3. saved'[c.id] = saved[c.id]
      BY <3>1, <1>0, <1>1
    <3> QED BY <3>2, <3>3, <2>1 DEF Fits
  <2>3. ASSUME NEW g \in d.todo, ~ g.stale, g.id \notin overrun'
        PROVE  Fits(g.limit, g.id)'
    <3>1. PICK e \in c.todo : g = [e EXCEPT !.stale = e.stale \/ e.id = i]
      BY <2>1
    <3>2. e \in Reading
      BY <2>0 DEF JobType
    <3>3. g.limit = e.limit /\ g.id = e.id /\ e.id # i /\ ~ e.stale /\ e.id \in RowIds /\ e.id \notin overrun
      BY <3>1, <3>2, <2>3, <1>1 DEF Reading
    <3>4. Fits(e.limit, e.id)
      BY <3>3, <2>0 DEF ReadingFits
    <3>5. saved'[e.id] = saved[e.id]
      BY <3>3, <1>0, <1>1
    <3> QED BY <3>3, <3>4, <3>5 DEF Fits
  <2>4. d.pc \in {"address", "limit"} /\ IsAuto(d.limit) => d.limit.max = 0
    BY <2>0, <2>1 DEF ReadingFits
  <2> QED BY <2>0, <2>2, <2>3, <2>4 DEF ReadingFits, Fits
<1> QED BY <1>2, <1>3, <1>5 DEF LimitInv

LEMMA LimitsAsked ==
    ASSUME SettingsTyped, LimitInv, NEW j \in Jobs, JobAsked(j)
    PROVE  LimitInv'
<1> USE DEF BeginJob
<1>0. UNCHANGED limitVars /\ issued \in Nat /\ limits \in [RowIds -> AnyLimit] /\ RowIds \subseteq 0..MaxRows
  <2>1. UNCHANGED limitVars
    BY DEF JobAsked, AddDomain, Remove, AskRecalc, ChooseAddress, ChooseLimit, RecalcAll
  <2>2. issued \in Nat /\ limits \in [RowIds -> AnyLimit]
    BY DEF SettingsTyped, DomainRows, LimitRows
  <2>3. RowIds \subseteq 0..MaxRows
    BY SettingsAssumption DEF RowIds
  <2> QED BY <2>1, <2>2, <2>3
<1>1. ASSUME NEW n, NEW op \in {"add", "import"}, NEW h \in Choices, NEW l \in AnyLimit,
             IsAuto(l) => l.max = 0, AddDomain(j, n, op, h, l)
      PROVE  LimitInv'
  <2> DEFINE c == [NoJob EXCEPT !.op = op, !.id = issued + 1, !.choice = h, !.limit = l]
  <2>1. issued + 1 \in 0..MaxRows
    BY <1>1, <1>0, SettingsAssumption DEF AddDomain
  <2>2. c \in JobType /\ c.limit = l /\ c.todo = {}
    BY <2>1, NoJobTyped DEF JobType, JobOps
  <2>3. job' = [job EXCEPT ![j] = AddressOf(c)]
    BY <1>1 DEF AddDomain
  <2> HIDE DEF c
  <2>4. AddressOf(c).limit = l
    BY <2>2 DEF AddressOf, LimitOf, JobType
  <2>5. ReadingFits(AddressOf(c))
    BY <2>2, <2>4, <1>1, OutcomePcs DEF ReadingFits
  <2> QED BY <1>0, <2>3, <2>5, ReadingSet
<1>2. "none" \in Choices /\ NoLimit \in AnyLimit /\ ImportedLimits \subseteq AnyLimit /\ Limits \subseteq AnyLimit
      /\ ~ IsAuto(NoLimit)
  BY LimitsTyped DEF Choices, IsAuto, NoLimit
<1>3. \A l \in ImportedLimits \cup Limits : IsAuto(l) => l.max = 0
  <2>1. ASSUME NEW l \in Limits PROVE IsAuto(l) => l.max = 0
    BY DEF Limits, NoLimit, Manual, Automatic, IsAuto
  <2>2. ASSUME NEW l \in Limits, IsAuto(l)
        PROVE  [l EXCEPT !.max = 0].max = 0
    BY <2>2, <1>2 DEF AnyLimit
  <2>3. ASSUME NEW l \in Limits, ~ IsAuto(l)
        PROVE  ~ IsAuto([l EXCEPT !.max = l.max])
    BY <2>3, <1>2 DEF AnyLimit, IsAuto
  <2>4. ASSUME NEW l \in Limits
        PROVE  LET m == [l EXCEPT !.max = IF IsAuto(l) THEN 0 ELSE @] IN IsAuto(m) => m.max = 0
    BY <2>2, <2>3
  <2> QED BY <2>1, <2>4 DEF ImportedLimits
<1>4. ASSUME NEW n, AddDomain(j, n, "add", "none", NoLimit) PROVE LimitInv'
  BY <1>1, <1>2, <1>4
<1>5. ASSUME NEW n, NEW h \in Choices, NEW l \in ImportedLimits, AddDomain(j, n, "import", h, l) PROVE LimitInv'
  BY <1>1, <1>2, <1>3, <1>5
<1>6. ASSUME NEW i \in RowIds, Remove(j, i) \/ AskRecalc(j, i) PROVE LimitInv'
  <2> DEFINE d1 == [NoJob EXCEPT !.op = "delete", !.pc = "unlimit", !.id = i]
             d2 == [NoJob EXCEPT !.op = "button", !.pc = "recalc", !.id = i]
  <2>1. ReadingFits(d1) /\ ReadingFits(d2)
    BY NoJobTyped DEF ReadingFits, JobType
  <2>2. job' = [job EXCEPT ![j] = d1] \/ job' = [job EXCEPT ![j] = d2]
    BY <1>6 DEF Remove, AskRecalc
  <2> HIDE DEF d1, d2
  <2> QED BY <1>0, <2>1, <2>2, ReadingSet
<1>7. ASSUME NEW i \in RowIds, NEW h \in Choices, ChooseAddress(j, i, h) PROVE LimitInv'
  <2> DEFINE d == [NoJob EXCEPT !.op = "address", !.pc = "address", !.id = i, !.choice = h]
  <2>1. ReadingFits(d)
    BY NoJobTyped, <1>2 DEF ReadingFits, JobType
  <2>2. job' = [job EXCEPT ![j] = d]
    BY <1>7 DEF ChooseAddress
  <2> HIDE DEF d
  <2> QED BY <1>0, <2>1, <2>2, ReadingSet
<1>8. ASSUME NEW i \in RowIds, NEW l \in Limits, ChooseLimit(j, i, l) PROVE LimitInv'
  <2> DEFINE d == [NoJob EXCEPT !.op = "limit", !.pc = "limit", !.id = i, !.limit = l]
  <2>1. ReadingFits(d)
    BY NoJobTyped, <1>3 DEF ReadingFits, JobType
  <2>2. job' = [job EXCEPT ![j] = d]
    BY <1>8 DEF ChooseLimit
  <2> HIDE DEF d
  <2> QED BY <1>0, <2>1, <2>2, ReadingSet
<1>9. ASSUME RecalcAll(j) PROVE LimitInv'
  <2> DEFINE t == {[id |-> i, limit |-> limits[i], stale |-> FALSE] : i \in AutoLimits}
             d == [NoJob EXCEPT !.op = "recalcAll", !.pc = "each", !.todo = t]
  <2>1. ASSUME NEW e \in t, e.id \notin overrun PROVE Fits(e.limit, e.id)
    <3>1. PICK i \in AutoLimits : e = [id |-> i, limit |-> limits[i], stale |-> FALSE]
      OBVIOUS
    <3>2. e.limit = limits[i] /\ e.id = i /\ i \in RowIds /\ IsAuto(limits[i]) /\ limits[i] \in AnyLimit
      BY <3>1, <1>0 DEF AutoLimits
    <3>3. IF IsAuto(saved[i]) THEN [limits[i] EXCEPT !.max = 0] = saved[i] ELSE limits[i] = saved[i]
      BY <3>2, <2>1 DEF LimitInv, SavedLimitStays
    <3> QED BY <3>2, <3>3 DEF Fits
  <2>2. job' = [job EXCEPT ![j] = d]
    BY <1>9 DEF RecalcAll
  <2> HIDE DEF t
  <2>3. d.pc = "each" /\ d.todo = t
    BY NoJobTyped DEF JobType
  <2>4. ReadingFits(d)
    BY <2>1, <2>3 DEF ReadingFits
  <2> HIDE DEF d
  <2> QED BY <1>0, <2>2, <2>4, ReadingSet
<1> QED BY <1>4, <1>5, <1>6, <1>7, <1>8, <1>9 DEF JobAsked

LEMMA LimitStepOn ==
    ASSUME SettingsTyped, LimitInv, NEW j \in Jobs, JobStep(j) \/ ResyncDMARC(j, "resync")
    PROVE  LimitInv'
<1> DEFINE c == job[j]
<1>0. /\ job \in [Jobs -> JobType] /\ c \in JobType /\ JobOk(c) /\ ReadingFits(c)
      /\ limits \in [RowIds -> AnyLimit] /\ saved \in [RowIds -> AnyLimit] /\ There \subseteq RowIds
  BY DEF SettingsTyped, JobsOk, LimitInv, LimitRows, There
<1>t. c.pc \in AboutARow => c.id \in RowIds
  BY <1>0 DEF JobOk
<1>p. /\ AfterMaps(c).pc \in {"recalc", "idle"} /\ Refused(c).pc \in {"unlimit", "idle"}
      /\ Recalculated(c).pc \in {"each", "idle"}
      /\ AfterMaps(c).todo \subseteq c.todo /\ Refused(c).todo \subseteq c.todo
      /\ Recalculated(c).todo \subseteq c.todo
  BY <1>0, OutcomePcs
<1>r. ReadingFits(AfterMaps(c)) /\ ReadingFits(Refused(c)) /\ ReadingFits(Recalculated(c))
  BY <1>0, <1>p, NoReading
<1>a. \A x \in JobPcs \ {"stats", "store", "address", "limit"} : ReadingFits([c EXCEPT !.pc = x])
  BY <1>0 DEF ReadingFits, JobType
<1>b. {"drop", "rest", "list", "write"} \subseteq JobPcs \ {"stats", "store", "address", "limit"}
  BY DEF JobPcs
<1>q. ASSUME NEW d, job' = [job EXCEPT ![j] = d], ReadingFits(d), UNCHANGED limitVars PROVE LimitInv'
  BY <1>q, ReadingSet
<1>s. ASSUME NEW d, NEW l \in AnyLimit, JobOk(d), ReadingFits(d), c.id \in RowIds, IsAuto(l) => l.max = 0,
             LimitSaved(c.id, l), job' = Staled([job EXCEPT ![j] = d], c.id)
      PROVE  LimitInv'
  <2> DEFINE f == [job EXCEPT ![j] = d]
  <2>1. f \in [Jobs -> JobType] /\ \A k \in Jobs : JobOk(f[k]) /\ ReadingFits(f[k])
    BY <1>s, <1>0 DEF SettingsTyped, JobsOk, JobOk, LimitInv
  <2>2. job' = Staled(f, c.id)
    BY <1>s
  <2> HIDE DEF f
  <2> QED BY <1>s, <2>1, <2>2, SavedSet
<1>1. CASE RestDone(j)
  <2>1. job' = [job EXCEPT ![j] = [c EXCEPT !.pc = "list"]] \/ job' = [job EXCEPT ![j] = AfterMaps(c)]
    BY <1>1 DEF RestDone, To
  <2>2. UNCHANGED limitVars
    BY <1>1 DEF RestDone
  <2> QED BY <2>1, <2>2, <1>q, <1>r, <1>a, <1>b
<1>2. CASE ClearLimits(j)
  <2>1. c.id \in RowIds /\ JobOk([c EXCEPT !.pc = "drop"]) /\ ~ IsAuto(NoLimit)
    BY <1>2, <1>t, <1>0, Outcomes DEF ClearLimits, AboutARow, IsAuto, NoLimit
  <2>2. LimitSaved(c.id, NoLimit) /\ job' = Staled([job EXCEPT ![j] = [c EXCEPT !.pc = "drop"]], c.id)
    BY <1>2 DEF ClearLimits
  <2> QED BY <2>1, <2>2, <1>s, <1>a, <1>b, LimitsTyped
<1>3. CASE DropRow(j)
  BY <1>3, <1>q, IdleReads DEF DropRow, Over
<1>4. CASE SaveAddress(j)
  <2> DEFINE d1 == LimitOf(c)
             d2 == [c EXCEPT !.pc = "list"]
  <2>1. ReadingFits(d1)
    <3>1. d1.pc \in {"limit", "rest"} /\ d1.limit = c.limit /\ d1.todo = c.todo /\ c.pc = "address"
      BY <1>0, <1>4 DEF LimitOf, JobType, SaveAddress
    <3> QED BY <3>1, <1>0 DEF ReadingFits
  <2>2. ReadingFits(d2)
    BY <1>a, <1>b
  <2>3. /\ \/ job' = [job EXCEPT ![j] = d1] \/ job' = [job EXCEPT ![j] = d2]
           \/ job' = [job EXCEPT ![j] = Refused(c)]
        /\ UNCHANGED limitVars
    BY <1>4 DEF SaveAddress
  <2> HIDE DEF d1, d2
  <2> QED BY <2>1, <2>2, <2>3, <1>r, <1>q
<1>5. CASE ListHosted(j)
  <2> DEFINE d == [c EXCEPT !.pc = "write", !.got = Hosted]
  <2>1. ReadingFits(d)
    BY <1>0 DEF ReadingFits, JobType
  <2>2. job' = [job EXCEPT ![j] = d] /\ UNCHANGED limitVars
    BY <1>5, <1>0 DEF ListHosted
  <2> HIDE DEF d
  <2> QED BY <2>1, <2>2, <1>q
<1>6. CASE WriteDmarcMap(j)
  <2>1. UNCHANGED limitVars /\ (job' = [job EXCEPT ![j] = AfterMaps(c)] \/ job' = job)
    BY <1>6 DEF WriteDmarcMap
  <2>2. job = [job EXCEPT ![j] = c]
    BY <1>0
  <2> HIDE DEF c
  <2> QED BY <2>1, <2>2, <1>q, <1>r, <1>0
<1>7. CASE SaveLimit(j)
  <2> DEFINE d == IF c.op = "import" THEN [c EXCEPT !.pc = "rest"]
                  ELSE IF IsAuto(c.limit) THEN [NoJob EXCEPT !.op = "limit", !.pc = "recalc", !.id = c.id]
                  ELSE NoJob
  <2>1. c.id \in RowIds /\ c.limit \in AnyLimit /\ (IsAuto(c.limit) => c.limit.max = 0)
    BY <1>7, <1>t, <1>0 DEF SaveLimit, AboutARow, JobType, ReadingFits
  <2>2. JobOk([c EXCEPT !.pc = "rest"]) /\ ReadingFits([c EXCEPT !.pc = "rest"])
    BY <2>1, <1>0, <1>a, <1>b, Outcomes DEF AboutARow
  <2>3. JobOk(d) /\ ReadingFits(d)
    BY <2>1, <2>2, NoJobTyped, BegunOk, IdleReads
  <2>4. LimitSaved(c.id, c.limit) /\ job' = Staled([job EXCEPT ![j] = d], c.id)
    BY <1>7 DEF SaveLimit
  <2> HIDE DEF d
  <2> QED BY <2>1, <2>3, <2>4, <1>s
<1>8. CASE ReadLimit(j)
  <2> DEFINE l == limits[c.id]
             d == [c EXCEPT !.pc = "stats", !.limit = l]
  <2>1. c.id \in RowIds /\ l \in AnyLimit
    BY <1>8, <1>0, <1>t DEF ReadLimit, AboutARow
  <2>2. IsAuto(l) /\ c.id \notin overrun => Fits(l, c.id)
    BY <2>1 DEF LimitInv, SavedLimitStays, Fits
  <2>3. job' = [job EXCEPT ![j] = IF IsAuto(l) THEN d ELSE NoJob] /\ UNCHANGED limitVars
    BY <1>8 DEF ReadLimit
  <2> HIDE DEF l
  <2>4. d.pc = "stats" /\ d.limit = l /\ d.id = c.id /\ d.todo = c.todo
    BY <1>0 DEF JobType
  <2> HIDE DEF d
  <2>5. IsAuto(l) => ReadingFits(d)
    BY <2>2, <2>4, <1>0 DEF ReadingFits
  <2> QED BY <2>3, <2>5, <1>q, IdleReads
<1>9. CASE RecalcNext(j)
  <2>0. UNCHANGED limitVars
    BY <1>9 DEF RecalcNext
  <2>1. CASE c.todo = {} /\ Over(j)
    BY <2>0, <2>1, <1>q, IdleReads DEF Over
  <2>2. ASSUME NEW e \in c.todo,
               job' = [job EXCEPT ![j] = [c EXCEPT !.pc = "stats", !.id = e.id, !.limit = e.limit,
                                                   !.stale = e.stale, !.todo = c.todo \ {e}]]
        PROVE  LimitInv'
    <3> DEFINE d == [c EXCEPT !.pc = "stats", !.id = e.id, !.limit = e.limit,
                              !.stale = e.stale, !.todo = c.todo \ {e}]
    <3>1. /\ d.pc = "stats" /\ d.id = e.id /\ d.limit = e.limit /\ d.stale = e.stale
          /\ d.todo = c.todo \ {e}
      BY <1>0 DEF JobType
    <3>2. ReadingFits(d)
      BY <3>1, <1>0 DEF ReadingFits
    <3>3. job' = [job EXCEPT ![j] = d]
      BY <2>2
    <3> HIDE DEF d
    <3> QED BY <2>0, <3>2, <3>3, <1>q
  <2> QED BY <1>9, <2>1, <2>2 DEF RecalcNext
<1>10. CASE ReadStats(j)
  <2> DEFINE d == [c EXCEPT !.pc = "store"]
  <2>1. ReadingFits(d)
    BY <1>0, <1>10 DEF ReadingFits, JobType, ReadStats
  <2>2. UNCHANGED limitVars /\ (job' = [job EXCEPT ![j] = d] \/ job' = [job EXCEPT ![j] = Recalculated(c)])
    BY <1>10 DEF ReadStats
  <2> HIDE DEF d
  <2> QED BY <2>1, <2>2, <1>q, <1>r
<1>11. ASSUME NEW total \in MessagesSent, StoreLimit(j, total) PROVE LimitInv'
  <2> DEFINE m == AutoMax(total, c.limit.mult)
             l == [c.limit EXCEPT !.max = m]
             d == Recalculated(c)
  <2>0. c.id \in RowIds /\ c.limit \in AnyLimit
    BY <1>11, <1>0, <1>t DEF StoreLimit, AboutARow, JobType
  <2>1. /\ limits' = [limits EXCEPT ![c.id] = l] /\ saved' = saved
        /\ overrun' = IF c.stale THEN overrun \cup {c.id} ELSE overrun
        /\ job' = [job EXCEPT ![j] = d] /\ c.pc = "store"
    BY <1>11 DEF StoreLimit
  <2> HIDE DEF m
  <2>2. [l EXCEPT !.max = 0] = [c.limit EXCEPT !.max = 0] /\ (IsAuto(l) <=> IsAuto(c.limit))
    BY <2>0 DEF AnyLimit, IsAuto
  <2>3. c.id \notin overrun' => Fits(c.limit, c.id)
    BY <2>1, <1>0 DEF ReadingFits, JobType
  <2> HIDE DEF l
  <2>4. SavedLimitStays'
    <3>1. SUFFICES ASSUME NEW i \in RowIds, i \notin overrun'
                   PROVE  IF IsAuto(saved[i]) THEN [limits'[i] EXCEPT !.max = 0] = saved[i] ELSE limits'[i] = saved[i]
      BY <2>1 DEF SavedLimitStays
    <3>2. CASE i = c.id
      <4>1. limits'[i] = l /\ IsAuto(saved[i]) /\ [c.limit EXCEPT !.max = 0] = saved[i]
        <5>1. [c.limit EXCEPT !.max = 0] = saved[i] /\ IsAuto(c.limit)
          BY <3>1, <3>2, <2>3 DEF Fits
        <5>2. IsAuto([c.limit EXCEPT !.max = 0])
          BY <5>1, <2>0 DEF AnyLimit, IsAuto
        <5> QED BY <5>1, <5>2, <3>2, <2>1, <1>0
      <4> QED BY <4>1, <2>2
    <3>3. CASE i # c.id
      <4>1. limits'[i] = limits[i] /\ i \notin overrun
        BY <3>1, <3>3, <2>1, <1>0
      <4> QED BY <4>1 DEF LimitInv, SavedLimitStays
    <3> QED BY <3>2, <3>3
  <2> HIDE DEF d
  <2>5. ASSUME NEW k \in Jobs PROVE ReadingFits(job[k])'
    <3>1. ReadingFits(job'[k])
      BY <2>1, <1>r, <1>0 DEF LimitInv, d
    <3> QED BY <3>1, <2>1 DEF ReadingFits, Fits
  <2> QED BY <2>1, <2>4, <2>5 DEF LimitInv
<1>12. CASE JobFails(j)
  <2>1. c.pc = "rest" => ReadingFits([c EXCEPT !.pc = "drop"])
    BY <1>a, <1>b
  <2>2. ReadingFits(job'[j]) /\ job' = [job EXCEPT ![j] = job'[j]]
    BY <2>1, <1>r, <1>0, <1>12, IdleReads, Failed
  <2>3. UNCHANGED limitVars
    BY <1>12 DEF JobFails
  <2> QED BY <2>2, <2>3, <1>q
<1>13. CASE ResyncDMARC(j, "resync")
  <2> DEFINE d == [NoJob EXCEPT !.op = "resync", !.pc = "list"]
  <2>1. ReadingFits(d)
    BY NoJobTyped DEF ReadingFits, JobType
  <2>2. job' = [job EXCEPT ![j] = d] /\ UNCHANGED limitVars
    BY <1>13 DEF ResyncDMARC
  <2> HIDE DEF d
  <2> QED BY <2>1, <2>2, <1>q
<1> QED BY <1>1, <1>2, <1>3, <1>4, <1>5, <1>6, <1>7, <1>8, <1>9, <1>10, <1>11, <1>12, <1>13 DEF JobStep

LEMMA LimitStep ==
    ASSUME SettingsTyped, LimitInv, [SettingsStep]_settings
    PROVE  LimitInv'
<1>1. CASE \E j \in Jobs : JobAsked(j) \/ JobStep(j) \/ ResyncDMARC(j, "resync")
  BY <1>1, LimitsAsked, LimitStepOn
<1>2. CASE IngestStep \/ UNCHANGED settings
  <2>1. limits' = limits /\ saved' = saved /\ overrun' = overrun /\ job' = job
    BY <1>2 DEF IngestStep, Arrive, CheckReport, InsertReport, PruneReports, IngestFails, NinetyDaysPass,
       limitVars, settings
  <2> QED BY <2>1 DEF LimitInv, ReadingFits, Fits, SavedLimitStays
<1>3. CASE SettingsKilled
  <2>1. limits' = limits /\ saved' = saved /\ overrun' = overrun
    BY <1>3 DEF SettingsKilled, limitVars
  <2>2. \A j \in Jobs : job'[j].todo = {} /\ job'[j].pc \in {"idle", "list"}
    BY <1>3, Restarted, StartTyped, NoJobTyped
  <2> QED BY <2>1, <2>2 DEF LimitInv, ReadingFits, Fits, SavedLimitStays
<1> QED BY <1>1, <1>2, <1>3 DEF SettingsStep

LEMMA LimitInit == SettingsInit => LimitInv
<1> SUFFICES ASSUME SettingsInit PROVE LimitInv
  OBVIOUS
<1>1. \A i \in RowIds : limits[i] = NoLimit /\ saved[i] = NoLimit
  BY DEF SettingsInit
<1>2. \A j \in Jobs : job[j] = NoJob
  BY DEF SettingsInit
<1>3. ~ IsAuto(NoLimit)
  BY DEF IsAuto, NoLimit
<1> QED BY <1>1, <1>2, <1>3, IdleReads DEF LimitInv, SavedLimitStays

-----------------------------------------------------------------------------
(* The reports.                                                            *)

ReportType == [domain : Subjects, to : Domains, key : Keys, row : RowIds, late : BOOLEAN, old : BOOLEAN]
Queued == [pc : {"queued"}, to : Domains, about : Subjects, key : Keys]
Checked == [pc : {"insert", "prune"}, to : Domains, about : Subjects, key : Keys, row : RowIds]

\* The ingest has a report of the domain whose address it came to, checked by
\* a row that was the domain's, and is if it is still there.
IngestOk ==
    \/ ingest = NoMail \/ ingest \in Queued
    \/ ingest \in Checked /\ ingest.to = ingest.about /\ ingest.row <= issued
       /\ (ingest.row \in There => domains[ingest.row].name = ingest.about)

ReportOk(p) ==
    /\ p.to = p.domain /\ p.row <= issued
    /\ ~ p.late => p.row \in There /\ domains[p.row].name = p.domain

ReportInv ==
    /\ IngestOk /\ reports \in Seq(ReportType)
    /\ \A k \in 1..Len(reports) : ReportOk(reports[k])

\* Rows may come and go, and a name keeps its row or loses it.
LEMMA SameReports ==
    ASSUME ReportInv, issued \in Nat, issued' \in Nat, issued <= issued', UNCHANGED <<ingest, reports>>,
           \A i \in RowIds : i <= issued => (i \in There' <=> i \in There)
                                             /\ (i \in There => domains'[i].name = domains[i].name)
    PROVE  ReportInv'
<1>1. ingest \in Checked => ingest.row \in RowIds
  BY DEF Checked
<1>2. \A i \in RowIds : i \in Nat
  BY SettingsAssumption DEF RowIds
<1>3. IngestOk'
  BY <1>1, <1>2 DEF ReportInv, IngestOk
<1>4. \A k \in 1..Len(reports) : reports[k].row \in RowIds
  <2>1. \A k \in 1..Len(reports) : reports[k] \in ReportType
    BY DEF ReportInv
  <2> QED BY <2>1 DEF ReportType
<1>5. ASSUME NEW k \in 1..Len(reports) PROVE ReportOk(reports[k])'
  BY <1>2, <1>4 DEF ReportInv, ReportOk
<1> QED BY <1>3, <1>5 DEF ReportInv

LEMMA ReportsAsked ==
    ASSUME SettingsTyped, ReportInv, NEW j \in Jobs, JobAsked(j)
    PROVE  ReportInv'
<1>0. DomainRows /\ issued \in Nat
  BY DEF SettingsTyped, DomainRows
<1>1. CASE UNCHANGED <<domains, issued, reports, ingest>>
  BY <1>0, <1>1, SameReports DEF There
<1>2. ASSUME NEW n, NEW op, NEW h, NEW l, AddDomain(j, n, op, h, l) PROVE ReportInv'
  <2>1. /\ issued' = issued + 1 /\ issued + 1 \in RowIds
        /\ domains' = [domains EXCEPT ![issued + 1] = [name |-> n, hosted |-> FALSE]]
        /\ UNCHANGED <<reports, ingest>>
    BY <1>2, <1>0, SettingsAssumption DEF AddDomain, RowIds, ingestVars
  <2>2. \A i \in RowIds : i <= issued => domains'[i] = domains[i]
    BY <2>1, <1>0, SettingsAssumption DEF DomainRows, RowIds
  <2> QED BY <1>0, <2>1, <2>2, SameReports DEF There
<1> QED BY <1>1, <1>2 DEF JobAsked, Remove, AskRecalc, ChooseAddress, ChooseLimit, RecalcAll, rowVars, ingestVars

\* A row goes, and the reports of its domain with it.
LEMMA ReportsDrop ==
    ASSUME SettingsTyped, ReportInv, NEW i \in There, DeleteRow(i), UNCHANGED <<issued, ingest>>
    PROVE  ReportInv'
<1> DEFINE K == {k \in 1..Len(reports) : reports[k].domain # domains[i].name}
<1>0. DomainRows /\ There \subseteq RowIds
  BY DEF SettingsTyped, There
<1>1. domains' = [domains EXCEPT ![i] = NoRow] /\ reports' = Keeping(reports, K)
  BY DEF DeleteRow, DropReportsOf
<1>2. There' = There \ {i} /\ \A m \in There' : domains'[m] = domains[m]
  BY <1>0, <1>1 DEF There, DomainRows
<1>3. /\ reports' \in Seq(ReportType)
      /\ \A n \in 1..Len(reports') : \E k \in K : reports'[n] = reports[k]
  <2>1. K \in SUBSET (1..Len(reports)) /\ reports \in Seq(ReportType)
    BY DEF ReportInv
  <2> HIDE DEF K
  <2> QED BY <2>1, <1>1, KeepingLen
<1>4. ASSUME NEW n \in 1..Len(reports') PROVE ReportOk(reports[n])'
  <2>1. PICK k \in K : reports'[n] = reports[k]
    BY <1>3
  <2>2. ReportOk(reports[k]) /\ reports[k].domain # domains[i].name
    BY <2>1 DEF ReportInv
  <2> QED BY <2>1, <2>2, <1>2 DEF ReportOk
<1>5. IngestOk'
  BY <1>2 DEF ReportInv, IngestOk
<1> QED BY <1>3, <1>4, <1>5 DEF ReportInv

LEMMA ReportsStepOn ==
    ASSUME SettingsTyped, ReportInv, NEW j \in Jobs, JobStep(j) \/ ResyncDMARC(j, "resync")
    PROVE  ReportInv'
<1>0. DomainRows /\ issued \in Nat
  BY DEF SettingsTyped, DomainRows
<1>1. CASE UNCHANGED <<domains, issued, reports, ingest>>
  BY <1>0, <1>1, SameReports DEF There
<1>2. CASE DropRow(j)
  <2>1. CASE job[j].id \in There
    BY <1>2, <2>1, ReportsDrop DEF DropRow, ingestVars
  <2>2. CASE job[j].id \notin There
    BY <1>1, <1>2, <2>2 DEF DropRow, ingestVars
  <2> QED BY <2>1, <2>2
<1>3. CASE SaveAddress(j)
  <2> DEFINE i == job[j].id
             h == (job[j].choice = "hosted")
  <2>1. CASE i \in There
    <3>1. domains' = [domains EXCEPT ![i] = [domains[i] EXCEPT !.hosted = h]] /\ UNCHANGED <<issued, reports, ingest>>
      BY <1>3, <2>1 DEF SaveAddress, ingestVars
    <3>2. domains[i] \in [name : Domains, hosted : BOOLEAN] /\ i \in RowIds /\ domains[i] # NoRow
      BY <2>1, <1>0 DEF DomainRows, RowType, There
    <3> DEFINE row == [domains[i] EXCEPT !.hosted = h]
    <3>3. row.name = domains[i].name /\ domains'[i] = row
      BY <3>1, <3>2, <1>0 DEF DomainRows
    <3>4. \A m \in RowIds : m # i => domains'[m] = domains[m]
      BY <3>1, <1>0 DEF DomainRows
    <3>5. row # NoRow
      BY <3>2, SettingsAssumption DEF NoRow
    <3> HIDE DEF row
    <3>6. \A m \in RowIds : (m \in There' <=> m \in There) /\ domains'[m].name = domains[m].name
      BY <3>2, <3>3, <3>4, <3>5 DEF There
    <3> QED BY <3>1, <3>6, <1>0, SameReports
  <2>2. CASE i \notin There
    BY <1>1, <1>3, <2>2 DEF SaveAddress, ingestVars
  <2> QED BY <2>1, <2>2
<1> QED BY <1>1, <1>2, <1>3 DEF JobStep, RestDone, ClearLimits, ListHosted, WriteDmarcMap, SaveLimit, StoreLimit,
     ReadLimit, RecalcNext, ReadStats, JobFails, ResyncDMARC, rowVars, ingestVars

LEMMA ReportParts ==
    ASSUME ReportInv, NEW k \in 1..Len(reports)
    PROVE  /\ reports[k] \in ReportType /\ ReportOk(reports[k])
           /\ \A b \in BOOLEAN : LET q == [reports[k] EXCEPT !.old = b] IN
                 q \in ReportType /\ (ReportOk(q) <=> ReportOk(reports[k]))
<1>1. reports[k] \in ReportType /\ ReportOk(reports[k])
  BY DEF ReportInv
<1>2. ASSUME NEW b \in BOOLEAN
      PROVE  LET q == [reports[k] EXCEPT !.old = b] IN
             /\ q \in ReportType /\ q.to = reports[k].to /\ q.domain = reports[k].domain
             /\ q.row = reports[k].row /\ q.late = reports[k].late
  BY <1>1 DEF ReportType
<1> QED BY <1>1, <1>2 DEF ReportOk

\* What is kept of the reports are reports.
LEMMA KeptOk ==
    ASSUME ReportInv, NEW K \in SUBSET (1..Len(reports))
    PROVE  /\ Keeping(reports, K) \in Seq(ReportType)
           /\ \A n \in 1..Len(Keeping(reports, K)) : \E k \in K : Keeping(reports, K)[n] = reports[k]
           /\ \A k \in K : \E n \in 1..Len(Keeping(reports, K)) : Keeping(reports, K)[n] = reports[k]
<1>1. reports \in Seq(ReportType)
  BY DEF ReportInv
<1> QED BY <1>1, KeepingLen

LEMMA IngestParts ==
    ASSUME ReportInv, ingest.pc # "none"
    PROVE  /\ ingest \in Queued \/ (ingest \in Checked /\ ingest.to = ingest.about)
           /\ ingest.to \in Domains /\ ingest.about \in Subjects /\ ingest.key \in Keys
           /\ ingest.pc \in {"insert", "prune"} =>
                 /\ ingest.to = ingest.about /\ ingest.row \in RowIds /\ ingest.row <= issued
                 /\ ingest.row \in There => domains[ingest.row].name = ingest.about
<1>1. ingest # NoMail
  BY DEF NoMail
<1>2. CASE ingest \in Queued
  BY <1>2 DEF Queued
<1>3. CASE ingest \in Checked
  BY <1>1, <1>3 DEF Checked, ReportInv, IngestOk, Queued
<1> QED BY <1>1, <1>2, <1>3 DEF ReportInv, IngestOk

\* What a step of the ingest leaves, and what it cannot push out.
LEMMA ReportsIngest ==
    ASSUME SettingsTyped, ReportInv, IngestStep
    PROVE  ReportInv' /\ NoneCrowdedOut
<1> DEFINE Stays(k, q) == \E m \in 1..Len(q) : [q[m] EXCEPT !.old = reports[k].old] = reports[k]
<1>0. DomainRows /\ issued \in Nat /\ RowIds \subseteq Nat
  BY SettingsAssumption DEF SettingsTyped, DomainRows, RowIds
<1>1. UNCHANGED <<domains, issued>> /\ There' = There
  BY DEF IngestStep, Arrive, CheckReport, InsertReport, PruneReports, IngestFails, NinetyDaysPass, rowVars, There
<1>2. ASSUME NEW k \in 1..Len(reports) PROVE [reports[k] EXCEPT !.old = reports[k].old] = reports[k]
  BY ReportParts DEF ReportType
<1>3. ASSUME reports' = reports PROVE NoneCrowdedOut
  BY <1>2, <1>3 DEF NoneCrowdedOut
<1>4. ASSUME reports' = reports, IngestOk' PROVE ReportInv'
  BY <1>1, <1>4 DEF ReportInv, ReportOk
<1>5. ASSUME NEW t \in Domains, NEW a \in Subjects, NEW k \in Keys, ingest' = Report(t, a, k), reports' = reports
      PROVE  ReportInv' /\ NoneCrowdedOut
  <2>1. ingest' \in Queued
    BY <1>5 DEF Report, Queued
  <2> QED BY <2>1, <1>3, <1>4, <1>5 DEF IngestOk
<1>6. CASE CheckReport
  <2>1. reports' = reports
    BY <1>6 DEF CheckReport, rowVars
  <2>2. IngestOk'
    <3>1. CASE ingest' = NoMail
      BY <3>1 DEF IngestOk
    <3>2. CASE ingest' # NoMail
      <4>1. /\ ingest.pc = "queued" /\ ingest.to = ingest.about
            /\ \E i \in RowsNamed(ingest.about) :
                  ingest' = [pc |-> "insert", to |-> ingest.to, about |-> ingest.about, key |-> ingest.key, row |-> i]
        BY <1>6, <3>2 DEF CheckReport, OwnAddress
      <4>2. PICK i \in RowsNamed(ingest.about) :
                  ingest' = [pc |-> "insert", to |-> ingest.to, about |-> ingest.about, key |-> ingest.key, row |-> i]
        BY <4>1
      <4>3. i \in RowIds /\ i \in There /\ domains[i].name = ingest.about /\ i <= issued
        <5>1. i \in There /\ i \in RowIds /\ domains[i].name = ingest.about
          BY <4>2 DEF RowsNamed, There
        <5>2. ~ (i > issued)
          BY <5>1, <1>0 DEF DomainRows
        <5> QED BY <5>1, <5>2, <1>0
      <4>4. ingest.to \in Domains /\ ingest.about \in Subjects /\ ingest.key \in Keys
        BY <4>1, IngestParts
      <4>5. ingest' \in Checked /\ ingest'.to = ingest'.about /\ ingest'.row = i /\ ingest'.about = ingest.about
        BY <4>1, <4>2, <4>3, <4>4 DEF Checked
      <4> QED BY <4>3, <4>5, <1>1 DEF IngestOk
    <3> QED BY <3>1, <3>2
  <2> QED BY <2>1, <2>2, <1>3, <1>4
<1>7. CASE InsertReport
  <2> DEFINE K == {k \in 1..Len(reports) : reports[k].key # ingest.key \/ reports[k].domain # ingest.about}
             new == [domain |-> ingest.about, to |-> ingest.to, key |-> ingest.key, row |-> ingest.row,
                     late |-> ingest.row \notin There, old |-> FALSE]
             kept == Keeping(reports, K)
  <2>0. ingest.pc = "insert" /\ reports' = Append(kept, new) /\ ingest' = [ingest EXCEPT !.pc = "prune"]
    BY <1>7 DEF InsertReport
  <2>1. /\ ingest \in Checked /\ ingest.to = ingest.about /\ ingest.row \in RowIds /\ ingest.row <= issued
        /\ ingest.to \in Domains /\ ingest.about \in Subjects /\ ingest.key \in Keys
        /\ ingest.row \in There => domains[ingest.row].name = ingest.about
    BY <2>0, IngestParts DEF Queued
  <2>2. new \in ReportType /\ new.domain = ingest.about /\ new.to = ingest.about /\ new.key = ingest.key
    BY <2>1 DEF ReportType
  <2>3. ReportOk(new)
    BY <2>1 DEF ReportOk
  <2> HIDE DEF new
  <2>4. /\ kept \in Seq(ReportType) /\ Len(kept) \in Nat
        /\ \A n \in 1..Len(kept) : \E k \in K : kept[n] = reports[k]
        /\ \A k \in K : \E n \in 1..Len(kept) : kept[n] = reports[k]
    <3>1. K \in SUBSET (1..Len(reports))
      OBVIOUS
    <3> HIDE DEF K
    <3> QED BY <3>1, KeptOk
  <2> HIDE DEF kept
  <2>5. /\ reports' \in Seq(ReportType) /\ Len(reports') = Len(kept) + 1
        /\ \A n \in 1..Len(kept) : reports'[n] = kept[n]
        /\ reports'[Len(kept) + 1] = new
    BY <2>0, <2>2, <2>4
  <2>6. ASSUME NEW n \in 1..Len(reports') PROVE ReportOk(reports[n])'
    <3>1. ReportOk(reports'[n])
      <4>1. CASE n = Len(kept) + 1
        BY <4>1, <2>5, <2>3
      <4>2. CASE n \in 1..Len(kept)
        <5>1. PICK k \in K : kept[n] = reports[k]
          BY <4>2, <2>4
        <5> QED BY <5>1, <4>2, <2>5, ReportParts
      <4> QED BY <4>1, <4>2, <2>4, <2>5
    <3> QED BY <3>1, <1>1 DEF ReportOk
  <2>7. IngestOk'
    <3>1. /\ ingest' \in Checked /\ ingest'.to = ingest.to /\ ingest'.about = ingest.about
          /\ ingest'.row = ingest.row
      BY <2>0, <2>1 DEF Checked
    <3> QED BY <3>1, <2>1, <1>1 DEF IngestOk
  <2>8. NoneCrowdedOut
    <3>1. ASSUME NEW k \in 1..Len(reports), k \in K PROVE Stays(k, reports')
      <4>1. PICK n \in 1..Len(kept) : kept[n] = reports[k]
        BY <3>1, <2>4
      <4>2. n \in 1..Len(reports') /\ reports'[n] = reports[k]
        BY <4>1, <2>4, <2>5
      <4> QED BY <4>2, <1>2
    <3>2. ASSUME NEW k \in 1..Len(reports), k \notin K
          PROVE  \E m \in 1..Len(reports') : /\ reports'[m].domain = reports[k].domain
                                              /\ reports'[m].key = reports[k].key
                                              /\ reports'[m].to = reports[k].domain
      <4>1. reports[k].key = ingest.key /\ reports[k].domain = ingest.about
        BY <3>2
      <4>2. Len(kept) + 1 \in 1..Len(reports')
        BY <2>4, <2>5
      <4> QED BY <4>1, <4>2, <2>2, <2>5
    <3> QED BY <3>1, <3>2 DEF NoneCrowdedOut
  <2> QED BY <2>5, <2>6, <2>7, <2>8 DEF ReportInv
<1>8. CASE PruneReports
  <2> DEFINE young == {k \in 1..Len(reports) : ~reports[k].old}
             Newer(k) == {m \in young : m > k /\ PerDomain(reports[m])}
             K == {k \in young : PerDomain(reports[k]) => Cardinality(Newer(k)) < Keep}
             kept == Keeping(reports, K)
  <2>0. ingest.pc = "prune" /\ reports' = kept /\ ingest' = NoMail
    BY <1>8 DEF PruneReports
  <2>1. /\ kept \in Seq(ReportType)
        /\ \A n \in 1..Len(kept) : \E k \in K : kept[n] = reports[k]
        /\ \A k \in K : \E n \in 1..Len(kept) : kept[n] = reports[k]
    <3>1. K \in SUBSET (1..Len(reports))
      OBVIOUS
    <3> HIDE DEF K
    <3> QED BY <3>1, KeptOk
  <2> HIDE DEF kept
  <2>2. ASSUME NEW n \in 1..Len(reports') PROVE ReportOk(reports[n])'
    <3>1. PICK k \in K : reports'[n] = reports[k]
      BY <2>0, <2>1
    <3>2. ReportOk(reports[k])
      BY <3>1, ReportParts
    <3> QED BY <3>1, <3>2, <1>1 DEF ReportOk
  <2>3. ASSUME NEW k \in 1..Len(reports), ~ reports[k].old, k \notin K
        PROVE  Cardinality({m \in 1..Len(reports) : m > k /\ reports[m].domain = reports[k].domain
                                                     /\ reports[m].to = reports[k].domain}) >= Keep
    <3> DEFINE Own == {m \in 1..Len(reports) : m > k /\ reports[m].domain = reports[k].domain
                                                /\ reports[m].to = reports[k].domain}
    <3>1. PerDomain(reports[k]) /\ ~ (Cardinality(Newer(k)) < Keep)
      BY <2>3
    <3>2. Newer(k) \in SUBSET Own
      <4>1. ASSUME NEW m \in Newer(k) PROVE m \in Own
        <5>1. m \in 1..Len(reports) /\ m > k /\ reports[m].domain = ingest.about
          BY DEF PerDomain
        <5>2. reports[m].to = reports[m].domain /\ reports[k].domain = ingest.about
          BY <5>1, <3>1, ReportParts DEF ReportOk, PerDomain
        <5> QED BY <5>1, <5>2
      <4> QED BY <4>1
    <3>3. IsFiniteSet(Own)
      <4>1. IsFiniteSet(1..Len(reports)) /\ Own \in SUBSET (1..Len(reports))
        BY FS_Interval DEF ReportInv
      <4> QED BY <4>1, FS_Subset
    <3> HIDE DEF Own, Newer
    <3>4. Cardinality(Newer(k)) <= Cardinality(Own) /\ Cardinality(Own) \in Nat /\ Cardinality(Newer(k)) \in Nat
      BY <3>2, <3>3, FS_Subset, FS_CardinalityType
    <3>5. Cardinality(Own) >= Keep
      BY <3>1, <3>4, SettingsAssumption
    <3> QED BY <3>5 DEF Own
  <2>4. ASSUME NEW k \in 1..Len(reports), k \in K PROVE Stays(k, reports')
    <3>1. PICK n \in 1..Len(kept) : kept[n] = reports[k]
      BY <2>1, <2>4
    <3> QED BY <3>1, <2>0, <1>2
  <2> HIDE DEF K
  <2>5. NoneCrowdedOut
    BY <2>3, <2>4 DEF NoneCrowdedOut
  <2>6. IngestOk'
    BY <2>0 DEF IngestOk
  <2> QED BY <2>0, <2>1, <2>2, <2>5, <2>6 DEF ReportInv
<1>9. CASE IngestFails
  <2>1. ingest.pc # "none" /\ ingest' = Report(ingest.to, ingest.about, ingest.key) /\ reports' = reports
    BY <1>9 DEF IngestFails, rowVars
  <2> QED BY <2>1, <1>5, IngestParts
<1>10. CASE NinetyDaysPass
  <2> DEFINE Aged(k) == [reports[k] EXCEPT !.old = TRUE]
  <2>1. reports' = [k \in 1..Len(reports) |-> Aged(k)] /\ ingest' = ingest /\ Len(reports) \in Nat
    BY <1>10 DEF NinetyDaysPass, ReportInv
  <2>2. \A k \in 1..Len(reports) : Aged(k) \in ReportType /\ (ReportOk(Aged(k)) <=> ReportOk(reports[k]))
    BY ReportParts
  <2>3. ASSUME NEW k \in 1..Len(reports) PROVE [Aged(k) EXCEPT !.old = reports[k].old] = reports[k]
    BY ReportParts DEF ReportType
  <2> HIDE DEF Aged
  <2>4. reports' \in Seq(ReportType) /\ Len(reports') = Len(reports) /\ \A k \in 1..Len(reports) : reports'[k] = Aged(k)
    BY <2>1, <2>2
  <2>5. ASSUME NEW n \in 1..Len(reports') PROVE ReportOk(reports[n])'
    <3>1. ReportOk(Aged(n))
      BY <2>2, <2>4, ReportParts
    <3> QED BY <3>1, <2>4, <1>1 DEF ReportOk
  <2>6. IngestOk'
    BY <2>1, <1>1 DEF IngestOk, ReportInv
  <2>7. NoneCrowdedOut
    BY <2>3, <2>4 DEF NoneCrowdedOut
  <2> QED BY <2>4, <2>5, <2>6, <2>7 DEF ReportInv
<1>11. ASSUME NEW t \in Domains, NEW a \in Subjects, NEW k \in Keys, Arrive(t, a, k)
       PROVE  ReportInv' /\ NoneCrowdedOut
  BY <1>5, <1>11 DEF Arrive, rowVars
<1> QED BY <1>6, <1>7, <1>8, <1>9, <1>10, <1>11 DEF IngestStep

LEMMA ReportsStep ==
    ASSUME SettingsTyped, ReportInv, [SettingsStep]_settings
    PROVE  ReportInv' /\ [NoneCrowdedOut]_settings
<1>0. DomainRows /\ issued \in Nat /\ There \subseteq RowIds
  BY DEF SettingsTyped, DomainRows, There
<1>2. ASSUME NEW k \in 1..Len(reports) PROVE [reports[k] EXCEPT !.old = reports[k].old] = reports[k]
  BY ReportParts DEF ReportType
<1>3. ASSUME reports' = reports \/ domains' # domains PROVE NoneCrowdedOut
  BY <1>2, <1>3 DEF NoneCrowdedOut
<1>4. CASE UNCHANGED settings \/ SettingsKilled
  <2>1. UNCHANGED <<domains, issued, reports, ingest>>
    BY <1>4 DEF settings, SettingsKilled, rowVars, ingestVars
  <2> QED BY <2>1, <1>0, <1>3, SameReports DEF There
<1>5. CASE IngestStep
  BY <1>5, ReportsIngest
<1>6. ASSUME NEW j \in Jobs, JobAsked(j) \/ JobStep(j) \/ ResyncDMARC(j, "resync")
      PROVE  ReportInv' /\ NoneCrowdedOut
  <2>1. ReportInv'
    BY <1>6, ReportsAsked, ReportsStepOn
  <2>2. reports' = reports \/ domains' # domains
    <3>1. CASE DropRow(j)
      <4>1. CASE job[j].id \in There
        <5>1. domains'[job[j].id] = NoRow /\ domains[job[j].id] # NoRow
          BY <3>1, <4>1, <1>0 DEF DropRow, DeleteRow, There, DomainRows
        <5> QED BY <5>1
      <4>2. CASE job[j].id \notin There
        BY <3>1, <4>2 DEF DropRow
      <4> QED BY <4>1, <4>2
    <3>2. CASE JobAsked(j)
      BY <3>2 DEF JobAsked, AddDomain, Remove, AskRecalc, ChooseAddress, ChooseLimit, RecalcAll, rowVars
    <3>3. CASE JobStep(j) /\ ~ DropRow(j)
      BY <3>3 DEF JobStep, RestDone, ClearLimits, SaveAddress, ListHosted, WriteDmarcMap, SaveLimit, StoreLimit,
         ReadLimit, RecalcNext, ReadStats, JobFails, rowVars
    <3>4. CASE ResyncDMARC(j, "resync")
      BY <3>4 DEF ResyncDMARC, rowVars
    <3> QED BY <1>6, <3>1, <3>2, <3>3, <3>4
  <2> QED BY <2>1, <2>2, <1>3
<1> QED BY <1>4, <1>5, <1>6 DEF SettingsStep

LEMMA ReportsInit == SettingsInit => ReportInv
  BY DEF SettingsInit, ReportInv, IngestOk

LEMMA ReportsHeld ==
    ASSUME SettingsTyped, ReportInv
    PROVE  ReportsStayWithTheirDomain
<1>1. SUFFICES ASSUME NEW k \in 1..Len(reports), ~ reports[k].late
               PROVE  RowsNamed(reports[k].domain) = {reports[k].row}
  BY DEF ReportsStayWithTheirDomain
<1>2. reports[k].row \in There /\ domains[reports[k].row].name = reports[k].domain
  BY <1>1, ReportParts DEF ReportOk
<1>3. \A i \in There : domains[i].name = domains[reports[k].row].name => i = reports[k].row
  BY <1>2 DEF SettingsTyped, DomainRows
<1> QED BY <1>2, <1>3 DEF RowsNamed

-----------------------------------------------------------------------------
(* The inbound relay.                                                      *)

ReqPcs == {"idle", "own", "others", "list", "get", "write", "reload", "relist", "rollback",
           "sync", "file", "undo"}
ReqOps == {None, "add", "transport", "recipients", "delete", "reload", "addEntry", "deleteEntry", "start"}
ReqType == [pc : ReqPcs, op : ReqOps, id : Ids \cup {0}, up : Ups \cup {None} \cup MapFiles,
            mode : Modes \cup {None} \cup Values, rcpt : {None}, todo : SUBSET (Ids \cup MapFiles),
            got : SUBSET Row, stale : BOOLEAN, undo : BOOLEAN]

\* A save of an upstream has one that may be saved.
ReqOk(c) ==
    /\ c \in ReqType
    /\ c.pc \in {"own", "others"} => c.op = "transport" /\ c.up \in Ups /\ c.mode \in Modes

ReqsOk == req \in [Reqs -> ReqType] /\ \A r \in Reqs : ReqOk(req[r])

MapFilesType == [relay : SUBSET Names, transport : SUBSET (Names \X (Ups \cup {None})),
                 recipients : SUBSET (Names \X (Rcpts \cup {None})), tls : SUBSET ((Ups \cup {None}) \X Modes)]

RelayTyped ==
    /\ ReqsOk /\ rows \in [Ids -> Row \cup {None}] /\ maps \in MapFilesType
    /\ files \in [MapFiles -> SUBSET Values] /\ behind \in {"no", "yes", "rebuilding"}

LEMMA IdleTyped ==
    /\ Idle \in ReqType /\ ReqOk(Idle) /\ Idle.pc = "idle" /\ Idle.op = None
    /\ Idle.todo = {} /\ Idle.got = {}
  BY DEF Idle, ReqType, ReqOk, ReqPcs, ReqOps

LEMMA ReqSet ==
    ASSUME ReqsOk, NEW r \in Reqs, NEW d, ReqOk(d), req' = [req EXCEPT ![r] = d]
    PROVE  /\ ReqsOk' /\ req'[r] = d
           /\ \A q \in Reqs \ {r} : req'[q] = req[q]
<1>1. req' \in [Reqs -> ReqType] /\ \A q \in Reqs : req'[q] = IF q = r THEN d ELSE req[q]
  BY DEF ReqsOk, ReqOk
<1>2. \A q \in Reqs : ReqOk(req'[q])
  BY <1>1 DEF ReqsOk
<1> QED BY <1>1, <1>2 DEF ReqsOk, ReqOk

\* What the actions make of a request.
LEMMA ReqParts ==
    ASSUME NEW c \in ReqType, ReqOk(c)
    PROVE  /\ \A x \in ReqPcs \ {"own", "others"} :
                 LET d == [c EXCEPT !.pc = x] IN
                 ReqOk(d) /\ d.pc = x /\ d.op = c.op /\ d.todo = c.todo /\ d.got = c.got
           /\ \A x \in SUBSET (Ids \cup MapFiles) :
                 LET d == [c EXCEPT !.todo = x] IN
                 ReqOk(d) /\ d.pc = c.pc /\ d.op = c.op /\ d.todo = x /\ d.got = c.got
           /\ LET d == [c EXCEPT !.stale = TRUE] IN
              ReqOk(d) /\ d.pc = c.pc /\ d.op = c.op /\ d.todo = c.todo /\ d.got = c.got
  BY DEF ReqOk, ReqType

LEMMA NowStaleParts ==
    ASSUME NEW f \in [Reqs -> ReqType], \A q \in Reqs : ReqOk(f[q]), NEW r \in Reqs
    PROVE  /\ NowStale(f, r) \in [Reqs -> ReqType] /\ \A q \in Reqs : ReqOk(NowStale(f, r)[q])
           /\ NowStale(f, r)[r] = f[r]
           /\ \A q \in Reqs :
                 LET c == f[q]  d == NowStale(f, r)[q] IN
                 d.pc = c.pc /\ d.op = c.op /\ d.todo = c.todo /\ d.got = c.got
<1> SUFFICES ASSUME NEW q \in Reqs
    PROVE  LET c == f[q]  d == NowStale(f, r)[q] IN
           /\ ReqOk(d) /\ (q = r => d = c)
           /\ d.pc = c.pc /\ d.op = c.op /\ d.todo = c.todo /\ d.got = c.got
  BY DEF NowStale, ReqOk
<1>1. NowStale(f, r)[q] \in {f[q], [f[q] EXCEPT !.stale = TRUE]} /\ (q = r => NowStale(f, r)[q] = f[q])
  BY DEF NowStale
<1>2. CASE NowStale(f, r)[q] = f[q]
  BY <1>2
<1>3. CASE q # r /\ NowStale(f, r)[q] = [f[q] EXCEPT !.stale = TRUE]
  <2>1. f[q] \in ReqType /\ ReqOk(f[q])
    OBVIOUS
  <2> QED BY <1>3, <2>1, ReqParts
<1> QED BY <1>1, <1>2, <1>3

\* How a request begins.
Asking(op) == [Idle EXCEPT !.pc = "list", !.op = op]
Adding(i) == [Idle EXCEPT !.pc = "list", !.op = "add", !.id = i]
Saving(i, u, m, t) == [Idle EXCEPT !.pc = "own", !.op = "transport", !.id = i, !.up = u, !.mode = m, !.todo = t]
Listing(op, f, v) == [Idle EXCEPT !.pc = "sync", !.op = op, !.up = f, !.mode = v]
Starting == [Idle EXCEPT !.pc = "sync", !.op = "start"]

LEMMA BegunReq ==
    /\ \A op \in {"recipients", "delete", "reload"} :
          ReqOk(Asking(op)) /\ Asking(op).pc = "list" /\ Asking(op).op = op
    /\ \A i \in Ids : ReqOk(Adding(i)) /\ Adding(i).pc = "list" /\ Adding(i).op = "add"
    /\ ReqOk(Starting) /\ Starting.pc = "sync" /\ Starting.op = "start"
<1> USE IdleTyped DEF ReqOk, ReqType, ReqPcs, ReqOps
<1>1. ASSUME NEW op \in {"recipients", "delete", "reload"}
      PROVE  ReqOk(Asking(op)) /\ Asking(op).pc = "list" /\ Asking(op).op = op
  BY DEF Asking
<1>2. ASSUME NEW i \in Ids
      PROVE  ReqOk(Adding(i)) /\ Adding(i).pc = "list" /\ Adding(i).op = "add"
  BY DEF Adding
<1>3. ReqOk(Starting) /\ Starting.pc = "sync" /\ Starting.op = "start"
  BY DEF Starting
<1> QED BY <1>1, <1>2, <1>3

LEMMA SavingOk ==
    ASSUME NEW i \in Ids, NEW u \in Ups, NEW m \in Modes, NEW t \in SUBSET Ids
    PROVE  ReqOk(Saving(i, u, m, t)) /\ Saving(i, u, m, t).pc = "own"
<1> DEFINE d == Saving(i, u, m, t)
<1>1. d \in ReqType
  BY IdleTyped DEF ReqType, ReqPcs, ReqOps, Saving
<1>2. d.pc = "own" /\ d.op = "transport" /\ d.up = u /\ d.mode = m
  BY IdleTyped DEF ReqType, Saving
<1> HIDE DEF d
<1>3. ReqOk(d)
  BY <1>1, <1>2 DEF ReqOk
<1> QED BY <1>2, <1>3 DEF d

LEMMA ListingOk ==
    ASSUME NEW op \in {"addEntry", "deleteEntry"}, NEW f \in MapFiles, NEW v \in Values
    PROVE  ReqOk(Listing(op, f, v)) /\ Listing(op, f, v).pc = "sync"
<1> DEFINE d == Listing(op, f, v)
<1>1. d \in ReqType
  BY IdleTyped DEF ReqType, ReqPcs, ReqOps, Listing
<1>2. d.pc = "sync"
  BY IdleTyped DEF ReqType, Listing
<1> HIDE DEF d
<1>3. ReqOk(d)
  BY <1>1, <1>2 DEF ReqOk
<1> QED BY <1>2, <1>3 DEF d

\* What a step of one request leaves of the others.
OthersStand(r) ==
    \A q \in Reqs \ {r} :
        /\ req'[q].pc = req[q].pc /\ req'[q].op = req[q].op
        /\ req'[q].todo = req[q].todo /\ req'[q].got = req[q].got

\* An upstream saved in a row, and what is left to do.
LEMMA SavedReqs ==
    ASSUME ReqsOk, NEW r \in Reqs, NEW d, ReqOk(d), req' = NowStale([req EXCEPT ![r] = d], r)
    PROVE  ReqsOk' /\ OthersStand(r) /\ req'[r] = d
<1> DEFINE f == [req EXCEPT ![r] = d]
<1>1. f \in [Reqs -> ReqType] /\ (\A q \in Reqs : ReqOk(f[q])) /\ f[r] = d /\ \A q \in Reqs \ {r} : f[q] = req[q]
  BY DEF ReqsOk, ReqOk
<1>2. req' = NowStale(f, r)
  OBVIOUS
<1> HIDE DEF f
<1> DEFINE g == NowStale(f, r)
<1>7. /\ g \in [Reqs -> ReqType] /\ \A q \in Reqs : ReqOk(g[q])
      /\ g[r] = f[r]
      /\ \A q \in Reqs : g[q].pc = f[q].pc /\ g[q].op = f[q].op /\ g[q].todo = f[q].todo /\ g[q].got = f[q].got
  BY <1>1, NowStaleParts
<1>8. req' = g
  BY <1>2
<1> HIDE DEF g
<1>3. /\ req' \in [Reqs -> ReqType] /\ \A q \in Reqs : ReqOk(req'[q])
      /\ req'[r] = f[r]
  BY <1>7, <1>8
<1>4. \A q \in Reqs : req'[q].pc = f[q].pc /\ req'[q].op = f[q].op /\ req'[q].todo = f[q].todo /\ req'[q].got = f[q].got
  BY <1>7, <1>8
<1>5. ReqsOk'
  BY <1>3 DEF ReqsOk, ReqOk
<1>6. OthersStand(r)
  BY <1>1, <1>4 DEF OthersStand
<1> QED BY <1>1, <1>3, <1>5, <1>6

LEMMA ReqAsked ==
    ASSUME RelayTyped, NEW r \in Reqs, Asked(r)
    PROVE  /\ ReqsOk' /\ OthersStand(r) /\ req[r] = Idle
           /\ req'[r].pc \in {"list", "own", "sync"}
           /\ req'[r].pc = "sync" => ListsFree /\ UNCHANGED rows
           /\ req'[r].pc = "own" => UNCHANGED rows
           /\ req'[r].pc = "list" => req'[r].op # "reload" \/ UNCHANGED rows
           /\ req'[r].pc # "sync" => UNCHANGED entries
           /\ UNCHANGED <<maps, behind, files, lagging>>
<1> USE DEF Begins
<1>0. ReqsOk
  BY DEF RelayTyped
<1>1. ASSUME NEW d, ReqOk(d), req' = [req EXCEPT ![r] = d] PROVE ReqsOk' /\ OthersStand(r) /\ req'[r] = d
  BY <1>0, <1>1, ReqSet DEF OthersStand
<1>2. ASSUME NEW n \in Names, Add(r, n)
      PROVE  /\ ReqsOk' /\ OthersStand(r) /\ req[r] = Idle /\ req'[r].pc = "list" /\ req'[r].op = "add"
             /\ UNCHANGED <<maps, behind, files, lagging, entries>>
  <2>1. PICK i \in FreshIds : Begins(r, [Idle EXCEPT !.pc = "list", !.op = "add", !.id = i])
    BY <1>2 DEF Add
  <2>2. i \in Ids
    BY DEF FreshIds
  <2>3. req' = [req EXCEPT ![r] = Adding(i)] /\ req[r] = Idle
    BY <2>1 DEF Adding
  <2> DEFINE d == Adding(i)
  <2>4. ReqOk(d) /\ d.pc = "list" /\ d.op = "add"
    BY <2>2, BegunReq
  <2> HIDE DEF d
  <2>5. req' = [req EXCEPT ![r] = d]
    BY <2>3 DEF d
  <2>6. UNCHANGED <<maps, behind, files, lagging, entries>>
    BY <1>2 DEF Add, lists
  <2> QED BY <1>1, <2>3, <2>4, <2>5, <2>6
<1>3. ASSUME NEW i \in Ids, NEW um \in Savable, NEW may, SetTransport(r, i, um, may)
      PROVE  /\ ReqsOk' /\ OthersStand(r) /\ req[r] = Idle /\ req'[r].pc = "own"
             /\ UNCHANGED <<rows, maps, behind, files, lagging, entries>>
  <2> DEFINE d == Saving(i, um[1], um[2], Others(i, um))
  <2>1. um[1] \in Ups /\ um[2] \in Modes /\ Others(i, um) \in SUBSET Ids
    BY DEF Savable, Others, Live
  <2>2. ReqOk(d) /\ d.pc = "own"
    BY <2>1, SavingOk
  <2>3. req' = [req EXCEPT ![r] = d] /\ req[r] = Idle
    BY <1>3 DEF SetTransport, Saving
  <2> HIDE DEF d
  <2> QED BY <1>1, <1>3, <2>2, <2>3 DEF SetTransport, registry, lists
<1>4. ASSUME (\E i \in Ids, rc \in Accepting : SetRecipients(r, i, rc))
             \/ (\E i \in Ids : Delete(r, i)) \/ Reload(r)
      PROVE  /\ ReqsOk' /\ OthersStand(r) /\ req[r] = Idle /\ req'[r].pc = "list"
             /\ (req'[r].op # "reload" \/ UNCHANGED rows)
             /\ UNCHANGED <<maps, behind, files, lagging, entries>>
  <2>1. /\ \E op \in {"recipients", "delete", "reload"} :
              /\ req' = [req EXCEPT ![r] = Asking(op)]
              /\ op = "reload" => UNCHANGED rows
        /\ req[r] = Idle /\ UNCHANGED <<maps, behind, files, lagging, entries>>
    BY <1>4 DEF SetRecipients, Delete, Reload, registry, lists, Asking
  <2>2. PICK op \in {"recipients", "delete", "reload"} :
              /\ req' = [req EXCEPT ![r] = Asking(op)]
              /\ op = "reload" => UNCHANGED rows
    BY <2>1
  <2> QED BY <1>1, <2>1, <2>2, BegunReq
<1>5. ASSUME NEW e \in Listable, AddEntry(r, e) \/ DeleteEntry(r, e)
      PROVE  /\ ReqsOk' /\ OthersStand(r) /\ req[r] = Idle /\ req'[r].pc = "sync" /\ ListsFree
             /\ UNCHANGED <<rows, maps, behind, files, lagging>>
  <2>1. e[1] \in MapFiles /\ e[2] \in Values
    BY DEF Listable
  <2>2. PICK op \in {"addEntry", "deleteEntry"} :
           req' = [req EXCEPT ![r] = Listing(op, e[1], e[2])]
    BY <1>5 DEF AddEntry, DeleteEntry, Listing
  <2> DEFINE d == Listing(op, e[1], e[2])
  <2>3. ReqOk(d) /\ d.pc = "sync"
    BY <2>1, ListingOk
  <2>4. req' = [req EXCEPT ![r] = d]
    BY <2>2
  <2> HIDE DEF d
  <2> QED BY <1>1, <1>5, <2>3, <2>4 DEF AddEntry, DeleteEntry, registry
<1> QED BY <1>2, <1>3, <1>4, <1>5 DEF Asked

\* The rows of a set of ids, and the requests that have changed rows and not
\* yet listed them for the rebuild.
RowsOf(S) == {rows[i] : i \in S}
RowsDue(c) == c.pc = "others" \/ (c.op # "reload" /\ c.pc = "list")
NoneDue == \A r \in Reqs : ~ RowsDue(req[r])

\* What a rebuild has got, with what it is to get, is what the rows say.
Reads(c) ==
    /\ c.pc = "get" /\ c.todo \subseteq Live => Used(c.got \cup RowsOf(c.todo)) = Used(RowsOf(Live))
    /\ c.pc = "write" => Used(c.got) = Used(RowsOf(Live))
ReaderHasRows == behind # "yes" /\ NoneDue => \A r \in Reqs : Reads(req[r])

Rebuilds(c) == c.pc = "write" \/ (c.op # "reload" /\ c.pc = "get")
MapsHaveAll ==
    behind = "no" /\ NoneDue /\ (\A r \in Reqs : ~ Rebuilds(req[r])) => maps = Rendered(RowsOf(Live))

\* Between the writes the accepted addresses have a transport, or the two maps
\* before theirs are already new.
Covered == \A p \in maps.recipients : \E t \in maps.transport : t[1] = p[1]
Wrote(c) ==
    /\ c.pc = "write"
    /\ maps.relay = Rendered(c.got).relay /\ maps.transport = Rendered(c.got).transport
RouteKept == behind = "no" => Covered \/ \E r \in Reqs : Wrote(req[r])

RelayCore == ReaderHasRows /\ MapsHaveAll /\ RouteKept

OneHolder == \A q, r \in Reqs : HoldsResync(q) /\ HoldsResync(r) => q = r

\* A request the core does not speak of.
Aside(c) == c.pc \notin {"others", "get", "write"} /\ (c.pc = "list" => c.op = "reload")

LEMMA CoreBehind ==
    ASSUME behind' = "yes"
    PROVE  RelayCore'
  BY DEF RelayCore, ReaderHasRows, MapsHaveAll, RouteKept

LEMMA CoreSame ==
    ASSUME RelayCore, UNCHANGED <<rows, maps, behind>>, NEW r \in Reqs, OthersStand(r),
           Aside(req[r]), Aside(req'[r])
    PROVE  RelayCore'
<1>1. \A q \in Reqs : /\ RowsDue(req[q])' <=> RowsDue(req[q])
                      /\ Rebuilds(req[q])' <=> Rebuilds(req[q])
                      /\ Reads(req[q]) => Reads(req[q])'
                      /\ Wrote(req[q]) => Wrote(req[q])'
  <2> SUFFICES ASSUME NEW q \in Reqs
               PROVE  /\ RowsDue(req[q])' <=> RowsDue(req[q])
                      /\ Rebuilds(req[q])' <=> Rebuilds(req[q])
                      /\ Reads(req[q]) => Reads(req[q])'
                      /\ Wrote(req[q]) => Wrote(req[q])'
    OBVIOUS
  <2>1. CASE q = r
    BY <2>1 DEF Aside, RowsDue, Rebuilds, Reads, Wrote
  <2>2. CASE q # r
    BY <2>2 DEF OthersStand, RowsDue, Rebuilds, Reads, Wrote, Live, RowsOf
  <2> QED BY <2>1, <2>2
<1>2. NoneDue' <=> NoneDue
  BY <1>1 DEF NoneDue
<1>3. Covered' <=> Covered
  BY DEF Covered
<1>4. RowsOf(Live)' = RowsOf(Live)
  BY DEF RowsOf, Live
<1> QED BY <1>1, <1>2, <1>3, <1>4 DEF RelayCore, ReaderHasRows, MapsHaveAll, RouteKept

\* A request has changed rows, or is to.
LEMMA CoreDue ==
    ASSUME RelayCore, UNCHANGED <<maps, behind>>, NEW r \in Reqs, OthersStand(r),
           req[r].pc # "write", RowsDue(req'[r])
    PROVE  RelayCore'
<1>1. ~ NoneDue'
  BY DEF NoneDue, RowsDue
<1>2. \A q \in Reqs : Wrote(req[q]) => Wrote(req[q])'
  <2> SUFFICES ASSUME NEW q \in Reqs, Wrote(req[q]) PROVE Wrote(req[q])'
    OBVIOUS
  <2> QED BY DEF Wrote, OthersStand
<1>3. Covered' <=> Covered
  BY DEF Covered
<1> QED BY <1>1, <1>2, <1>3 DEF RelayCore, ReaderHasRows, MapsHaveAll, RouteKept

LEMMA HolderKept ==
    ASSUME OneHolder, NEW r \in Reqs, OthersStand(r),
           HoldsResync(r)' => HoldsResync(r) \/ ~ \E q \in Reqs : HoldsResync(q)
    PROVE  OneHolder'
<1>1. \A q \in Reqs \ {r} : HoldsResync(q)' <=> HoldsResync(q)
  BY DEF OthersStand, HoldsResync
<1> QED BY <1>1 DEF OneHolder

\* The first of listed rows, by name.
LEMMA FirstListed ==
    ASSUME NEW S \in SUBSET Live, S # {}, rows \in [Ids -> Row \cup {None}]
    PROVE  FirstOf(Listed(S)).id \in S
<1> DEFINE N == {rows[i].name : i \in S}
<1>1. \A i \in S : rows[i] \in Row /\ rows[i].name \in Nat
  BY RelayAssumption DEF Live, Row
<1>2. N \in SUBSET Nat /\ N # {}
  BY <1>1
<1>3. PICK n \in N : \A m \in N : n <= m
  <2> HIDE DEF N
  <2> QED BY <1>2, Least
<1>4. PICK i \in S : rows[i].name = n
  OBVIOUS
<1>5. \E d \in Listed(S) : \A e \in Listed(S) : d.name <= e.name
  <2>1. [id |-> i, name |-> n] \in Listed(S)
    BY <1>4 DEF Listed
  <2>2. ASSUME NEW e \in Listed(S) PROVE e.name \in N
    BY <2>2 DEF Listed
  <2> QED BY <2>1, <2>2, <1>3
<1>6. FirstOf(Listed(S)) \in Listed(S)
  BY <1>5 DEF FirstOf
<1>7. ASSUME NEW e \in Listed(S) PROVE e.id \in S
  BY <1>7 DEF Listed
<1> QED BY <1>6, <1>7

\* The files of a rebuild.
LEMMA RenderedTyped ==
    ASSUME NEW R \in SUBSET Row
    PROVE  /\ Rendered(R) \in MapFilesType
           /\ Rendered(R).relay = {r.name : r \in Used(R)}
           /\ Rendered(R).transport = {<<r.name, r.up>> : r \in Used(R)}
           /\ \A p \in Rendered(R).recipients : p[1] \in Rendered(R).relay
<1> DEFINE U == Used(R)
           FirstTo(u) == CHOOSE r \in U : r.up = u /\ \A q \in U : q.up = u => r.name <= q.name
<1>1. U \in SUBSET Row /\ \A r \in U : r.name \in Names /\ r.name \in Nat /\ r.up \in Ups /\ r.mode \in Modes
                                       /\ r.rcpt \in Rcpts \cup {None}
  BY RelayAssumption DEF Used, Row
<1>2. Rendered(R) = [relay |-> {r.name : r \in U}, transport |-> {<<r.name, r.up>> : r \in U},
                     recipients |-> {<<r.name, r.rcpt>> : r \in {q \in U : q.rcpt # None}},
                     tls |-> {<<u, FirstTo(u).mode>> : u \in {r.up : r \in U}}]
  BY DEF Rendered, Lines
<1> HIDE DEF U
<1>3. \A u \in {r.up : r \in U} : FirstTo(u) \in U
  <2> SUFFICES ASSUME NEW u \in {r.up : r \in U} PROVE FirstTo(u) \in U
    OBVIOUS
  <2> DEFINE N == {q.name : q \in {r \in U : r.up = u}}
  <2>1. N \in SUBSET Nat /\ N # {}
    BY <1>1
  <2>2. PICK n \in N : \A m \in N : n <= m
    <3> HIDE DEF N
    <3> QED BY <2>1, Least
  <2>3. \E r \in U : r.up = u /\ \A q \in U : q.up = u => r.name <= q.name
    BY <2>2
  <2> QED BY <2>3
<1> HIDE DEF FirstTo
<1>4. {<<u, FirstTo(u).mode>> : u \in {r.up : r \in U}} \in SUBSET ((Ups \cup {None}) \X Modes)
  BY <1>1, <1>3
<1>5. /\ {r.name : r \in U} \in SUBSET Names
      /\ {<<r.name, r.up>> : r \in U} \in SUBSET (Names \X (Ups \cup {None}))
      /\ {<<r.name, r.rcpt>> : r \in {q \in U : q.rcpt # None}} \in SUBSET (Names \X (Rcpts \cup {None}))
      /\ \A p \in {<<r.name, r.rcpt>> : r \in {q \in U : q.rcpt # None}} : p[1] \in {r.name : r \in U}
  BY <1>1
<1>6. Rendered(R) \in MapFilesType
  BY <1>2, <1>4, <1>5 DEF MapFilesType
<1> QED BY <1>2, <1>5, <1>6 DEF U

RelayInv == RelayTyped /\ OneHolder /\ RelayCore

\* A step that touches neither the rows nor the maps, of a request that has
\* nothing to do with them before or after.
LEMMA RelayAside ==
    ASSUME RelayInv, UNCHANGED <<rows, maps, behind>>, NEW r \in Reqs, OthersStand(r), ReqsOk',
           files' \in [MapFiles -> SUBSET Values], Aside(req[r]), Aside(req'[r]),
           HoldsResync(r)' => HoldsResync(r)
    PROVE  RelayInv'
<1>1. RelayCore'
  BY CoreSame DEF RelayInv
<1>2. OneHolder'
  BY HolderKept DEF RelayInv
<1> QED BY <1>1, <1>2 DEF RelayInv, RelayTyped

LEMMA RowsInserted ==
    ASSUME rows \in [Ids -> Row \cup {None}]
    PROVE  /\ \A i \in Ids, n \in Names : Inserted(i, n) \in [Ids -> Row \cup {None}]
           /\ \A i \in Live, rc \in Rcpts : WithRecipients(i, rc) \in [Ids -> Row \cup {None}]
           /\ \A i \in Live, u \in Ups, m \in Modes : WithUpstream(i, u, m) \in [Ids -> Row \cup {None}]
           /\ \A i : Deleted(i) \in [Ids -> Row \cup {None}]
<1>1. ASSUME NEW i \in Ids, NEW n \in Names PROVE Inserted(i, n) \in [Ids -> Row \cup {None}]
  BY RelayAssumption DEF Inserted, NewRow, Row
<1>2. ASSUME NEW i \in Live, NEW rc \in Rcpts PROVE WithRecipients(i, rc) \in [Ids -> Row \cup {None}]
  <2>1. i \in Ids /\ rows[i] \in Row
    BY DEF Live
  <2>2. [rows[i] EXCEPT !.rcpt = rc] \in Row
    BY <2>1 DEF Row
  <2> QED BY <2>1, <2>2 DEF WithRecipients
<1>3. ASSUME NEW i \in Live, NEW u \in Ups, NEW m \in Modes
      PROVE  WithUpstream(i, u, m) \in [Ids -> Row \cup {None}]
  <2>1. i \in Ids /\ rows[i] \in Row
    BY DEF Live
  <2>2. [[rows[i] EXCEPT !.up = u] EXCEPT !.mode = m] \in Row
    BY <2>1 DEF Row
  <2>3. WithUpstream(i, u, m) = [rows EXCEPT ![i] = [[rows[i] EXCEPT !.up = u] EXCEPT !.mode = m]]
    BY <2>1 DEF WithUpstream
  <2> QED BY <2>1, <2>2, <2>3
<1>4. ASSUME NEW i PROVE Deleted(i) \in [Ids -> Row \cup {None}]
  BY DEF Deleted
<1> QED BY <1>1, <1>2, <1>3, <1>4

LEMMA RelayAsked ==
    ASSUME RelayInv, NEW r \in Reqs, Asked(r)
    PROVE  RelayInv'
<1>1. /\ ReqsOk' /\ OthersStand(r) /\ req[r] = Idle
      /\ req'[r].pc \in {"list", "own", "sync"}
      /\ req'[r].pc = "sync" => ListsFree /\ UNCHANGED rows
      /\ req'[r].pc = "own" => UNCHANGED rows
      /\ req'[r].pc = "list" => req'[r].op # "reload" \/ UNCHANGED rows
      /\ UNCHANGED <<maps, behind, files, lagging>>
  BY ReqAsked DEF RelayInv
<1>2. rows' \in [Ids -> Row \cup {None}]
  <2>0. rows \in [Ids -> Row \cup {None}]
    BY DEF RelayInv, RelayTyped
  <2>1. ASSUME NEW n \in Names, Add(r, n) PROVE rows' \in [Ids -> Row \cup {None}]
    <3>1. PICK i \in FreshIds : rows' = Inserted(i, n)
      BY <2>1 DEF Add
    <3> QED BY <3>1, <2>0, RowsInserted DEF FreshIds
  <2>2. ASSUME NEW i \in Ids, NEW rc \in Accepting, SetRecipients(r, i, rc) PROVE rows' \in [Ids -> Row \cup {None}]
    BY <2>0, <2>2, RowsInserted DEF SetRecipients, Accepting
  <2>3. ASSUME NEW i \in Ids, Delete(r, i) PROVE rows' \in [Ids -> Row \cup {None}]
    BY <2>0, <2>3, RowsInserted DEF Delete
  <2>4. CASE \/ \E i \in Ids, um \in Savable : \E may \in MayChange(i) : SetTransport(r, i, um, may)
             \/ Reload(r) \/ \E e \in Listable : AddEntry(r, e) \/ DeleteEntry(r, e)
    BY <2>0, <2>4 DEF SetTransport, Reload, AddEntry, DeleteEntry, registry
  <2> QED BY <2>1, <2>2, <2>3, <2>4 DEF Asked
<1>3. RelayTyped'
  BY <1>1, <1>2 DEF RelayInv, RelayTyped
<1>4. OneHolder'
  BY <1>1, HolderKept DEF RelayInv, HoldsResync
<1>5. RelayCore'
  <2>1. Aside(req[r])
    BY <1>1, IdleTyped DEF Aside
  <2>2. CASE req'[r].pc = "list" /\ req'[r].op # "reload"
    BY <2>1, <2>2, <1>1, CoreDue DEF RelayInv, RowsDue, Aside
  <2>3. CASE ~ (req'[r].pc = "list" /\ req'[r].op # "reload")
    BY <2>1, <2>3, <1>1, CoreSame DEF RelayInv, Aside
  <2> QED BY <2>2, <2>3
<1> QED BY <1>3, <1>4, <1>5 DEF RelayInv

\* A request after a step, its fields the ones the step does not set.
LEMMA ReqTo ==
    ASSUME ReqsOk, NEW r \in Reqs, NEW x \in ReqPcs \ {"own", "others"}, req' = [req EXCEPT ![r].pc = x]
    PROVE  /\ ReqsOk' /\ OthersStand(r)
           /\ req'[r].pc = x /\ req'[r].op = req[r].op /\ req'[r].todo = req[r].todo /\ req'[r].got = req[r].got
<1> DEFINE d == [req[r] EXCEPT !.pc = x]
<1>1. req[r] \in ReqType /\ ReqOk(req[r])
  BY DEF ReqsOk
<1>2. ReqOk(d) /\ d.pc = x /\ d.op = req[r].op /\ d.todo = req[r].todo /\ d.got = req[r].got
  BY <1>1, ReqParts
<1>3. req' = [req EXCEPT ![r] = d]
  OBVIOUS
<1> HIDE DEF d
<1> QED BY <1>2, <1>3, ReqSet DEF OthersStand

LEMMA ReqEnds ==
    ASSUME ReqsOk, NEW r \in Reqs, Ends(r)
    PROVE  /\ ReqsOk' /\ OthersStand(r) /\ req'[r] = Idle /\ Aside(req'[r]) /\ ~ HoldsResync(r)' /\ ~ HoldsLists(r)'
<1>1. req' = [req EXCEPT ![r] = Idle]
  BY DEF Ends
<1>2. ReqsOk' /\ req'[r] = Idle /\ \A q \in Reqs \ {r} : req'[q] = req[q]
  BY <1>1, IdleTyped, ReqSet
<1> QED BY <1>2, IdleTyped DEF OthersStand, Aside, HoldsResync, HoldsLists

LEMMA ReqFails ==
    ASSUME ReqsOk, NEW r \in Reqs, RebuildFails(r)
    PROVE  /\ ReqsOk' /\ OthersStand(r) /\ Aside(req'[r]) /\ ~ HoldsResync(r)' /\ ~ HoldsLists(r)'
           /\ req'[r].pc # "file"
<1>1. CASE req[r].op = "add"
  <2> DEFINE c == [req[r] EXCEPT !.pc = "rollback"]
             d == [[c EXCEPT !.todo = {}] EXCEPT !.got = {}]
  <2>1. req[r] \in ReqType /\ ReqOk(req[r])
    BY DEF ReqsOk
  <2>2. d \in ReqType /\ d.pc = "rollback"
    BY <2>1 DEF ReqType, ReqPcs
  <2>3. req' = [req EXCEPT ![r] = d]
    BY <1>1, <2>1 DEF RebuildFails
  <2> HIDE DEF d
  <2>4. ReqOk(d)
    BY <2>2 DEF ReqOk
  <2>5. ReqsOk' /\ req'[r] = d /\ \A q \in Reqs \ {r} : req'[q] = req[q]
    BY <2>3, <2>4, ReqSet
  <2> QED BY <2>2, <2>5 DEF OthersStand, Aside, HoldsResync, HoldsLists
<1>2. CASE req[r].op # "add"
  <2>1. Ends(r)
    BY <1>2 DEF RebuildFails, Ends
  <2> QED BY <2>1, ReqEnds, IdleTyped
<1> QED BY <1>1, <1>2

\* The steps of a save.
LEMMA RelaySaves ==
    ASSUME RelayInv, NEW r \in Reqs, SaveOwn(r) \/ SaveOther(r) \/ SaveOtherFails(r) \/ OthersSaved(r)
    PROVE  RelayInv'
<1>0. /\ ReqsOk /\ req \in [Reqs -> ReqType] /\ req[r] \in ReqType /\ ReqOk(req[r])
      /\ rows \in [Ids -> Row \cup {None}] /\ RelayCore /\ OneHolder
  BY DEF RelayInv, RelayTyped, ReqsOk
<1>1. UNCHANGED <<maps, files>>
  BY DEF SaveOwn, SaveOther, SaveOtherFails, OthersSaved, lists
<1>2. ASSUME ReqsOk', OthersStand(r), ~ HoldsResync(r)', RelayCore', rows' \in [Ids -> Row \cup {None}],
             behind' \in {"no", "yes", "rebuilding"}
      PROVE  RelayInv'
  BY <1>0, <1>1, <1>2, HolderKept DEF RelayInv, RelayTyped
<1>3. CASE SaveOwn(r)
  <2>0. req[r].pc = "own" /\ req[r].op = "transport" /\ UNCHANGED behind /\ Aside(req[r])
    BY <1>3 DEF SaveOwn, Aside
  <2>1. CASE req[r].id \in Live
    <3> DEFINE d == [req[r] EXCEPT !.pc = "others"]
    <3>1. ReqOk(d) /\ d.pc = "others"
      BY <1>0, <2>0 DEF ReqOk, ReqType, ReqPcs
    <3>2. [req EXCEPT ![r].pc = "others"] = [req EXCEPT ![r] = d]
      OBVIOUS
    <3>3. req' = NowStale([req EXCEPT ![r] = d], r) /\ rows' = WithUpstream(req[r].id, req[r].up, req[r].mode)
      BY <1>3, <2>1, <3>2 DEF SaveOwn, Saved
    <3> HIDE DEF d
    <3>4. ReqsOk' /\ OthersStand(r) /\ req'[r] = d
      BY <1>0, <3>1, <3>3, SavedReqs
    <3>5. req[r].up \in Ups /\ req[r].mode \in Modes
      BY <1>0, <2>0 DEF ReqOk
    <3>6. rows' \in [Ids -> Row \cup {None}]
      BY <1>0, <2>1, <3>3, <3>5, RowsInserted
    <3>7. RelayCore'
      BY <1>0, <1>1, <2>0, <3>1, <3>4, CoreDue DEF RowsDue
    <3> QED BY <1>0, <1>2, <2>0, <3>1, <3>4, <3>6, <3>7 DEF HoldsResync, RelayInv, RelayTyped
  <2>2. CASE req[r].id \notin Live
    <3>1. Ends(r) /\ UNCHANGED rows
      BY <1>3, <2>2 DEF SaveOwn
    <3>2. ReqsOk' /\ OthersStand(r) /\ Aside(req'[r]) /\ ~ HoldsResync(r)'
      BY <1>0, <3>1, ReqEnds
    <3> QED BY <1>1, <2>0, <3>1, <3>2, RelayAside DEF RelayInv, RelayTyped
  <2> QED BY <2>1, <2>2
<1>4. ASSUME Ends(r), behind' = "yes", UNCHANGED rows PROVE RelayInv'
  <2>1. RelayCore'
    BY <1>4, CoreBehind
  <2>2. ReqsOk' /\ OthersStand(r) /\ ~ HoldsResync(r)'
    BY <1>0, <1>4, ReqEnds
  <2> QED BY <1>0, <1>2, <1>4, <2>1, <2>2
<1>5. CASE SaveOtherFails(r)
  BY <1>4, <1>5 DEF SaveOtherFails
<1>6. CASE OthersSaved(r)
  <2>1. req[r].pc = "others" /\ UNCHANGED <<rows, behind>> /\ req' = [req EXCEPT ![r].pc = "list"]
    BY <1>6 DEF OthersSaved, Goes
  <2>2. ReqsOk' /\ OthersStand(r) /\ req'[r].pc = "list" /\ req'[r].op = req[r].op
    BY <1>0, <2>1, ReqTo DEF ReqPcs
  <2>3. req[r].op = "transport"
    BY <1>0, <2>1 DEF ReqOk
  <2>4. RelayCore'
    BY <1>0, <1>1, <2>1, <2>2, <2>3, CoreDue DEF RowsDue
  <2> QED BY <1>0, <1>2, <2>1, <2>2, <2>4 DEF HoldsResync, RelayInv, RelayTyped
<1>7. CASE SaveOther(r)
  <2>0. req[r].pc = "others" /\ req[r].todo # {}
    BY <1>7 DEF SaveOther
  <2>1. CASE req[r].todo \ Live # {}
    BY <1>4, <1>7, <2>1 DEF SaveOther
  <2>2. CASE req[r].todo \ Live = {}
    <3> DEFINE i == FirstOf(Listed(req[r].todo)).id
               d == [req[r] EXCEPT !.todo = req[r].todo \ {i}]
    <3>1. i \in Live
      BY <1>0, <2>0, <2>2, FirstListed
    <3>2. /\ rows' = WithUpstream(i, req[r].up, req[r].mode) /\ UNCHANGED behind
          /\ req' = NowStale([req EXCEPT ![r] = d], r)
      BY <1>7, <2>2 DEF SaveOther, Saved
    <3> HIDE DEF i
    <3>3. ReqOk(d) /\ d.pc = "others"
      <4>1. req[r].todo \ {i} \in SUBSET (Ids \cup MapFiles)
        BY <1>0 DEF ReqType
      <4> QED BY <1>0, <2>0, <4>1, ReqParts
    <3> HIDE DEF d
    <3>4. ReqsOk' /\ OthersStand(r) /\ req'[r] = d
      BY <1>0, <3>2, <3>3, SavedReqs
    <3>5. req[r].up \in Ups /\ req[r].mode \in Modes
      BY <1>0, <2>0 DEF ReqOk
    <3>6. rows' \in [Ids -> Row \cup {None}]
      BY <1>0, <3>1, <3>2, <3>5, RowsInserted
    <3>7. RelayCore'
      BY <1>0, <1>1, <2>0, <3>2, <3>3, <3>4, CoreDue DEF RowsDue
    <3> QED BY <1>0, <1>2, <3>2, <3>3, <3>4, <3>6, <3>7 DEF HoldsResync, RelayInv, RelayTyped
  <2> QED BY <2>1, <2>2
<1> QED BY <1>3, <1>5, <1>6, <1>7

\* resyncMu is free for the one that lists the domains.
LEMMA RelayLists ==
    ASSUME RelayInv, NEW r \in Reqs, ListDomains(r)
    PROVE  RelayInv'
<1>0. /\ ReqsOk /\ req \in [Reqs -> ReqType] /\ req[r] \in ReqType /\ ReqOk(req[r])
      /\ rows \in [Ids -> Row \cup {None}] /\ RelayCore /\ OneHolder /\ behind \in {"no", "yes", "rebuilding"}
  BY DEF RelayInv, RelayTyped, ReqsOk
<1> DEFINE d == [[[req[r] EXCEPT !.pc = "get"] EXCEPT !.todo = Live] EXCEPT !.got = {}]
<1>1. /\ req[r].pc = "list" /\ \A q \in Reqs : ~ HoldsResync(q)
      /\ req' = [req EXCEPT ![r] = d]
      /\ behind' = IF behind = "yes" THEN "rebuilding" ELSE behind
      /\ UNCHANGED <<rows, maps, files>>
  BY DEF ListDomains, lists
<1>2. ReqOk(d) /\ d.pc = "get" /\ d.op = req[r].op /\ d.todo = Live /\ d.got = {}
  BY <1>0 DEF ReqOk, ReqType, ReqPcs, Live
<1> HIDE DEF d
<1>3. ReqsOk' /\ req'[r] = d /\ \A q \in Reqs \ {r} : req'[q] = req[q]
  BY <1>0, <1>1, <1>2, ReqSet
<1>4. \A q \in Reqs \ {r} : req'[q].pc \notin {"get", "write"} /\ req[q].pc \notin {"get", "write"}
  BY <1>1, <1>3 DEF HoldsResync
<1>5. RelayTyped'
  BY <1>0, <1>1, <1>3 DEF RelayInv, RelayTyped
<1>6. OneHolder'
  BY <1>0, <1>1, <1>3, HolderKept DEF OthersStand
<1>7. Live' = Live /\ RowsOf(Live)' = RowsOf(Live)
  BY <1>1 DEF Live, RowsOf
<1>8. ReaderHasRows'
  <2>1. Reads(req[r])'
    <3>1. {} \cup RowsOf(Live)' = RowsOf(Live)'
      OBVIOUS
    <3> QED BY <1>2, <1>3, <1>7, <3>1 DEF Reads, RowsOf
  <2>2. \A q \in Reqs \ {r} : Reads(req[q])'
    BY <1>4 DEF Reads
  <2> QED BY <2>1, <2>2 DEF ReaderHasRows
<1>9. MapsHaveAll'
  <2>1. SUFFICES ASSUME behind' = "no", NoneDue', ~ Rebuilds(req[r])' PROVE maps = Rendered(RowsOf(Live))
    BY <1>1, <1>7 DEF MapsHaveAll
  <2>2. req[r].op = "reload" /\ behind = "no"
    BY <1>1, <1>2, <1>3, <2>1 DEF Rebuilds
  <2>3. \A q \in Reqs : ~ RowsDue(req[q]) /\ ~ Rebuilds(req[q])
    <3>1. ~ RowsDue(req[r]) /\ ~ Rebuilds(req[r])
      BY <1>1, <2>2 DEF RowsDue, Rebuilds
    <3>2. ASSUME NEW q \in Reqs \ {r} PROVE ~ RowsDue(req[q]) /\ ~ Rebuilds(req[q])
      BY <1>3, <1>4, <2>1 DEF RowsDue, Rebuilds, NoneDue
    <3> QED BY <3>1, <3>2
  <2> QED BY <1>0, <2>2, <2>3 DEF RelayCore, MapsHaveAll, NoneDue
<1>10. RouteKept'
  <2>1. \A q \in Reqs : ~ Wrote(req[q])
    BY <1>1 DEF Wrote, HoldsResync
  <2>2. behind' = "no" => behind = "no"
    BY <1>1
  <2> QED BY <1>0, <1>1, <2>1, <2>2 DEF RelayCore, RouteKept, Covered
<1> QED BY <1>5, <1>6, <1>8, <1>9, <1>10 DEF RelayInv, RelayCore

LEMMA RelayGets ==
    ASSUME RelayInv, NEW r \in Reqs, GetDomain(r) \/ GotAll(r)
    PROVE  RelayInv'
<1>0. /\ ReqsOk /\ req \in [Reqs -> ReqType] /\ req[r] \in ReqType /\ ReqOk(req[r])
      /\ rows \in [Ids -> Row \cup {None}] /\ RelayCore /\ OneHolder /\ behind \in {"no", "yes", "rebuilding"}
  BY DEF RelayInv, RelayTyped, ReqsOk
<1>1. req[r].pc = "get" /\ UNCHANGED <<rows, maps, files>> /\ HoldsResync(r)
  BY DEF GetDomain, GotAll, registry, lists, HoldsResync
<1>2. CASE GetDomain(r) /\ ~ (req[r].todo \subseteq Live)
  <2>1. RebuildFails(r) /\ behind' = "yes"
    BY <1>2 DEF GetDomain
  <2>2. ReqsOk' /\ OthersStand(r) /\ ~ HoldsResync(r)'
    BY <1>0, <2>1, ReqFails
  <2>3. RelayCore' /\ OneHolder'
    BY <1>0, <2>1, <2>2, CoreBehind, HolderKept
  <2> QED BY <1>1, <2>1, <2>2, <2>3 DEF RelayInv, RelayTyped
\* What it has got and is to get stays the same, and what another one knows.
<1>3. ASSUME UNCHANGED behind, NEW d, ReqOk(d), req' = [req EXCEPT ![r] = d],
             d.pc \in {"get", "write"}, d.op = req[r].op,
             d.pc = "get" => req[r].todo \subseteq Live,
             d.pc = "get" => d.got \cup RowsOf(d.todo) = req[r].got \cup RowsOf(req[r].todo),
             d.pc = "write" => req[r].todo = {} /\ d.got = req[r].got
      PROVE  RelayInv'
  <2>1. ReqsOk' /\ req'[r] = d /\ \A q \in Reqs \ {r} : req'[q] = req[q]
    BY <1>0, <1>3, ReqSet
  <2>2. RelayTyped'
    BY <1>1, <1>3, <2>1 DEF RelayInv, RelayTyped
  <2>3. OneHolder'
    BY <1>0, <1>1, <2>1, HolderKept DEF OthersStand
  <2>4. NoneDue' <=> NoneDue
    BY <1>1, <1>3, <2>1 DEF NoneDue, RowsDue
  <2>5. Live' = Live /\ RowsOf(Live)' = RowsOf(Live) /\ \A S : RowsOf(S)' = RowsOf(S)
    BY <1>1 DEF Live, RowsOf
  <2>6. ReaderHasRows'
    <3>1. SUFFICES ASSUME behind # "yes", NoneDue, NEW q \in Reqs PROVE Reads(req[q])'
      BY <1>3, <2>4 DEF ReaderHasRows
    <3>2. Reads(req[r]) /\ Reads(req[q])
      BY <1>0, <3>1 DEF RelayCore, ReaderHasRows
    <3>3. CASE q # r
      BY <1>1, <2>1, <2>5, <3>2, <3>3 DEF Reads, RowsOf
    <3>4. CASE q = r /\ d.pc = "get"
      <4>1. Used(req[r].got \cup RowsOf(req[r].todo)) = Used(RowsOf(Live))
        BY <1>1, <1>3, <3>2, <3>4 DEF Reads
      <4>2. Used(d.got \cup RowsOf(d.todo)) = Used(RowsOf(Live))
        BY <1>3, <3>4, <4>1
      <4>3. req'[q] = d /\ d.pc # "write"
        BY <2>1, <3>4
      <4> QED BY <2>5, <4>2, <4>3, <1>1 DEF Reads, RowsOf
    <3>5. CASE q = r /\ d.pc = "write"
      <4>1. req[r].todo \subseteq Live /\ RowsOf(req[r].todo) = {}
        BY <1>3, <3>5 DEF RowsOf
      <4>2. Used(req[r].got) = Used(RowsOf(Live))
        <5>1. req[r].got \cup RowsOf(req[r].todo) = req[r].got
          BY <4>1
        <5> QED BY <1>1, <3>2, <4>1, <5>1 DEF Reads
      <4>3. req'[q] = d /\ d.pc # "get" /\ d.got = req[r].got
        BY <1>3, <2>1, <3>5
      <4> QED BY <2>5, <4>2, <4>3 DEF Reads
    <3> QED BY <1>3, <3>3, <3>4, <3>5
  <2>7. MapsHaveAll'
    <3>1. Rebuilds(req[r]) => Rebuilds(req[r])'
      BY <1>1, <1>3, <2>1 DEF Rebuilds
    <3>2. \A q \in Reqs : Rebuilds(req[q]) => Rebuilds(req[q])'
      BY <2>1, <3>1 DEF Rebuilds
    <3> QED BY <1>0, <1>1, <1>3, <2>4, <2>5, <3>2 DEF RelayCore, MapsHaveAll
  <2>8. RouteKept'
    <3>1. \A q \in Reqs : Wrote(req[q]) => Wrote(req[q])'
      <4> SUFFICES ASSUME NEW q \in Reqs, Wrote(req[q]) PROVE Wrote(req[q])'
        OBVIOUS
      <4>1. q # r
        BY <1>1 DEF Wrote
      <4> QED BY <1>1, <2>1, <4>1 DEF Wrote
    <3>2. Covered' <=> Covered
      BY <1>1 DEF Covered
    <3> QED BY <1>0, <1>3, <3>1, <3>2 DEF RelayCore, RouteKept
  <2> QED BY <2>2, <2>3, <2>6, <2>7, <2>8 DEF RelayInv, RelayCore
<1>4. CASE GotAll(r)
  <2> DEFINE d == [req[r] EXCEPT !.pc = "write"]
  <2>1. ReqOk(d) /\ d.pc = "write" /\ d.op = req[r].op /\ d.got = req[r].got
    BY <1>0, ReqParts DEF ReqPcs
  <2>2. req' = [req EXCEPT ![r] = d] /\ UNCHANGED behind /\ req[r].todo = {}
    BY <1>4 DEF GotAll, Goes, registry
  <2> HIDE DEF d
  <2> QED BY <1>3, <2>1, <2>2
<1>5. CASE GetDomain(r) /\ req[r].todo \subseteq Live
  <2> DEFINE i == FirstOf(Listed(req[r].todo)).id
             c == [req[r] EXCEPT !.todo = req[r].todo \ {i}]
             d == [c EXCEPT !.got = req[r].got \cup {rows[i]}]
  <2>1. i \in req[r].todo
    BY <1>0, <1>5, FirstListed DEF GetDomain
  <2>2. req' = [req EXCEPT ![r] = d] /\ UNCHANGED behind
    <3>1. c \in ReqType /\ c.got = req[r].got
      BY <1>0 DEF ReqType
    <3> QED BY <1>0, <1>5, <3>1 DEF GetDomain
  <2> HIDE DEF i
  <2>3. i \in Ids /\ rows[i] \in Row
    BY <1>0, <1>5, <2>1 DEF Live
  <2>4. d \in ReqType /\ d.pc = "get" /\ d.op = req[r].op /\ d.todo = req[r].todo \ {i}
        /\ d.got = req[r].got \cup {rows[i]}
    BY <1>0, <1>1, <2>3 DEF ReqType
  <2> HIDE DEF c, d
  <2>5. d.got \cup RowsOf(d.todo) = req[r].got \cup RowsOf(req[r].todo)
    BY <2>1, <2>4 DEF RowsOf
  <2>6. ReqOk(d)
    BY <2>4 DEF ReqOk
  <2> QED BY <1>3, <1>5, <2>2, <2>4, <2>5, <2>6
<1> QED BY <1>2, <1>4, <1>5 DEF GetDomain

\* The first map that is not yet what it should be.
LEMMA FirstDiffers ==
    ASSUME NEW want, Differing(want) # {}
    PROVE  \E k \in 1..4 : /\ FirstDiffering(want) = MapNames[k]
                           /\ maps[MapNames[k]] # want[MapNames[k]]
                           /\ \A j \in 1..4 : j < k => maps[MapNames[j]] = want[MapNames[j]]
<1>1. Len(MapNames) = 4
  BY DEF MapNames
<1>2. Differing(want) \in SUBSET Nat /\ Differing(want) \subseteq 1..4
  BY <1>1 DEF Differing
<1>3. \E k \in Differing(want) : \A j \in Differing(want) : k <= j
  BY <1>2, Least
<1> DEFINE k == CHOOSE k \in Differing(want) : \A j \in Differing(want) : k <= j
<1>4. k \in Differing(want) /\ \A j \in Differing(want) : k <= j
  BY <1>3
<1>5. FirstDiffering(want) = MapNames[k]
  BY DEF FirstDiffering
<1> HIDE DEF k
<1>6. \A j \in 1..4 : j < k => j \notin Differing(want)
  BY <1>2, <1>4
<1> QED BY <1>1, <1>2, <1>4, <1>5, <1>6 DEF Differing

\* One map is written: the accepted addresses last.
LEMMA RelayWrites ==
    ASSUME RelayInv, NEW r \in Reqs, WriteMap(r)
    PROVE  RelayInv'
<1> DEFINE want == Rendered(req[r].got)
<1>0. /\ ReqsOk /\ req[r] \in ReqType
      /\ rows \in [Ids -> Row \cup {None}] /\ RelayCore /\ OneHolder /\ maps \in MapFilesType
  BY DEF RelayInv, RelayTyped, ReqsOk
<1>1. /\ req[r].pc = "write" /\ Differing(want) # {}
      /\ maps' = [maps EXCEPT ![FirstDiffering(want)] = want[FirstDiffering(want)]]
      /\ UNCHANGED <<rows, behind, req, files>>
  BY DEF WriteMap, lists
<1>2. req[r].got \in SUBSET Row
  BY <1>0 DEF ReqType
<1>3. want \in MapFilesType
  BY <1>2, RenderedTyped
<1>4. PICK k \in 1..4 : /\ FirstDiffering(want) = MapNames[k]
                        /\ maps[MapNames[k]] # want[MapNames[k]]
                        /\ \A j \in 1..4 : j < k => maps[MapNames[j]] = want[MapNames[j]]
  BY <1>1, FirstDiffers
<1> HIDE DEF want
<1>5. MapNames[1] = "relay" /\ MapNames[2] = "transport" /\ MapNames[3] = "recipients" /\ MapNames[4] = "tls"
  BY DEF MapNames
<1>6. k = 1 \/ k = 2 \/ k = 3 \/ k = 4
  OBVIOUS
<1>7. \/ k = 1 /\ maps' = [maps EXCEPT !.relay = want.relay] /\ maps.relay # want.relay
      \/ k = 2 /\ maps' = [maps EXCEPT !.transport = want.transport] /\ maps.relay = want.relay
      \/ k = 3 /\ maps' = [maps EXCEPT !.recipients = want.recipients]
         /\ maps.relay = want.relay /\ maps.transport = want.transport
      \/ k = 4 /\ maps' = [maps EXCEPT !.tls = want.tls]
         /\ maps.relay = want.relay /\ maps.transport = want.transport
  <2>1. maps' = [maps EXCEPT ![MapNames[k]] = want[MapNames[k]]]
    BY <1>1, <1>4
  <2>2. CASE k = 1
    BY <1>4, <1>5, <2>1, <2>2
  <2>3. CASE k = 2
    <3>1. maps.relay = want.relay
      BY <1>4, <1>5, <2>3
    <3> QED BY <1>5, <2>1, <2>3, <3>1
  <2>4. CASE k = 3 \/ k = 4
    <3>1. maps[MapNames[1]] = want[MapNames[1]] /\ maps[MapNames[2]] = want[MapNames[2]]
      BY <1>4, <2>4
    <3>2. maps.relay = want.relay /\ maps.transport = want.transport
      BY <1>5, <3>1
    <3>3. CASE k = 3
      BY <1>5, <2>1, <3>2, <3>3
    <3>4. CASE k = 4
      BY <1>5, <2>1, <3>2, <3>4
    <3> QED BY <2>4, <3>3, <3>4
  <2> QED BY <1>6, <2>2, <2>3, <2>4
<1>8. maps' \in MapFilesType
  BY <1>0, <1>3, <1>7 DEF MapFilesType
<1>9. RelayTyped'
  BY <1>1, <1>8 DEF RelayInv, RelayTyped, ReqsOk
<1>10. OneHolder'
  BY <1>0, <1>1 DEF OneHolder, HoldsResync
<1>11. ReaderHasRows'
  <2>1. Live' = Live /\ RowsOf(Live)' = RowsOf(Live) /\ (NoneDue' <=> NoneDue)
    BY <1>1 DEF Live, RowsOf, NoneDue, RowsDue
  <2>2. ASSUME NEW q \in Reqs, Reads(req[q]) PROVE Reads(req[q])'
    BY <1>1, <2>1, <2>2 DEF Reads, RowsOf
  <2> QED BY <1>0, <1>1, <2>1, <2>2 DEF RelayCore, ReaderHasRows
<1>12. MapsHaveAll'
  BY <1>1 DEF MapsHaveAll, Rebuilds
<1>13. RouteKept'
  <2>1. SUFFICES ASSUME behind = "no" PROVE Covered' \/ Wrote(req[r])'
    BY <1>1 DEF RouteKept
  <2>2. CASE k = 1
    <3>1. ~ \E q \in Reqs : Wrote(req[q])
      <4>1. SUFFICES ASSUME NEW q \in Reqs, Wrote(req[q]) PROVE FALSE
        OBVIOUS
      <4>2. q = r
        BY <1>0, <1>1, <4>1 DEF OneHolder, HoldsResync, Wrote
      <4> QED BY <1>7, <2>2, <4>1, <4>2 DEF Wrote, want
    <3>2. Covered
      BY <1>0, <2>1, <3>1 DEF RelayCore, RouteKept
    <3>3. maps'.recipients = maps.recipients /\ maps'.transport = maps.transport
      BY <1>0, <1>7, <2>2 DEF MapFilesType
    <3> QED BY <3>2, <3>3 DEF Covered
  <2>3. CASE k # 1
    <3>1. maps'.relay = want.relay /\ maps'.transport = want.transport
      BY <1>0, <1>7, <2>3 DEF MapFilesType
    <3> QED BY <1>1, <3>1 DEF Wrote, want
  <2> QED BY <2>2, <2>3
<1> QED BY <1>9, <1>10, <1>11, <1>12, <1>13 DEF RelayInv, RelayCore

\* The transport of every accepted address is in the files of a rebuild.
LEMMA RenderedCovers ==
    ASSUME NEW R \in SUBSET Row, NEW p \in Rendered(R).relay
    PROVE  \E t \in Rendered(R).transport : t[1] = p
<1>1. PICK q \in Used(R) : p = q.name
  BY RenderedTyped
<1>2. <<q.name, q.up>> \in Rendered(R).transport
  BY RenderedTyped
<1> QED BY <1>1, <1>2

LEMMA RelayWritten ==
    ASSUME RelayInv, NEW r \in Reqs, Written(r)
    PROVE  RelayInv'
<1> DEFINE want == Rendered(req[r].got)
           d == [[req[r] EXCEPT !.pc = "reload"] EXCEPT !.got = {}]
<1>0. /\ ReqsOk /\ req \in [Reqs -> ReqType] /\ req[r] \in ReqType
      /\ rows \in [Ids -> Row \cup {None}] /\ RelayCore /\ OneHolder /\ maps \in MapFilesType
      /\ behind \in {"no", "yes", "rebuilding"}
  BY DEF RelayInv, RelayTyped, ReqsOk
<1>1. /\ req[r].pc = "write" /\ Differing(want) = {}
      /\ req' = [req EXCEPT ![r] = d]
      /\ behind' = IF behind = "rebuilding" THEN "no" ELSE behind
      /\ UNCHANGED <<rows, maps, files>>
  BY DEF Written, lists
<1>2. d \in ReqType /\ d.pc = "reload" /\ d.op = req[r].op
  BY <1>0 DEF ReqType, ReqPcs
<1>3. req[r].got \in SUBSET Row
  BY <1>0 DEF ReqType
<1>4. want \in MapFilesType
  BY <1>3, RenderedTyped
<1> HIDE DEF d
<1>5. ReqOk(d)
  BY <1>2 DEF ReqOk
<1>6. ReqsOk' /\ req'[r] = d /\ \A q \in Reqs \ {r} : req'[q] = req[q]
  BY <1>0, <1>1, <1>5, ReqSet
<1>7. maps = want
  <2> HIDE DEF want
  <2>1. \A k \in 1..4 : maps[MapNames[k]] = want[MapNames[k]]
    BY <1>1 DEF Differing, MapNames
  <2>2. maps.relay = want.relay /\ maps.transport = want.transport /\ maps.recipients = want.recipients
        /\ maps.tls = want.tls
    BY <2>1 DEF MapNames
  <2> QED BY <1>0, <1>4, <2>2 DEF MapFilesType
<1>8. \A q \in Reqs : req'[q].pc \notin {"get", "write"}
  BY <1>0, <1>1, <1>2, <1>6 DEF OneHolder, HoldsResync
<1>9. RelayTyped'
  BY <1>0, <1>1, <1>6 DEF RelayInv, RelayTyped
<1>10. OneHolder'
  BY <1>0, <1>1, <1>6, HolderKept DEF OthersStand, HoldsResync
<1>11. ReaderHasRows'
  BY <1>8 DEF ReaderHasRows, Reads
<1>12. MapsHaveAll'
  <2>1. SUFFICES ASSUME behind' = "no", NoneDue' PROVE maps = Rendered(RowsOf(Live))
    BY <1>1 DEF MapsHaveAll, Live, RowsOf
  <2>2. behind # "yes"
    BY <1>1, <2>1
  <2>3. NoneDue
    BY <1>1, <1>6, <2>1 DEF NoneDue, RowsDue
  <2>4. Used(req[r].got) = Used(RowsOf(Live))
    BY <1>0, <1>1, <2>2, <2>3 DEF RelayCore, ReaderHasRows, Reads
  <2> QED BY <1>7, <2>4 DEF Rendered
<1>13. RouteKept'
  <2>1. \A p \in maps.recipients : \E t \in maps.transport : t[1] = p[1]
    BY <1>3, <1>7, RenderedTyped, RenderedCovers
  <2> QED BY <1>1, <2>1 DEF RouteKept, Covered
<1> QED BY <1>9, <1>10, <1>11, <1>12, <1>13 DEF RelayInv, RelayCore

\* The row a failed Add takes back is in no map, or the maps are behind.
LEMMA RelayRollsBack ==
    ASSUME RelayInv, NEW r \in Reqs, Rollback(r)
    PROVE  RelayInv'
<1> DEFINE i == req[r].id
<1>0. /\ ReqsOk /\ req \in [Reqs -> ReqType] /\ RelayCore /\ OneHolder
      /\ rows \in [Ids -> Row \cup {None}] /\ behind \in {"no", "yes", "rebuilding"}
  BY DEF RelayInv, RelayTyped, ReqsOk
<1>1. /\ req[r].pc = "rollback" /\ rows' = Deleted(i) /\ Ends(r)
      /\ behind' = IF i \in Live /\ rows[i].up # None THEN "yes" ELSE behind
      /\ UNCHANGED <<maps, files>>
  BY DEF Rollback, lists
<1> HIDE DEF i
<1>2. /\ ReqsOk' /\ OthersStand(r) /\ Aside(req'[r]) /\ ~ HoldsResync(r)' /\ req'[r] = Idle
  BY <1>0, <1>1, ReqEnds
<1>3. rows' \in [Ids -> Row \cup {None}]
  BY <1>0, <1>1, RowsInserted
<1>4. RelayTyped'
  BY <1>0, <1>1, <1>2, <1>3 DEF RelayInv, RelayTyped
<1>5. OneHolder'
  BY <1>0, <1>2, HolderKept
<1>6. CASE behind' = "yes"
  BY <1>4, <1>5, <1>6, CoreBehind DEF RelayInv
<1>7. CASE behind' = behind /\ (i \in Live => rows[i].up = None)
  <2>1. Live' = Live \ {i} /\ \A j \in Live' : rows'[j] = rows[j]
    BY <1>0, <1>1 DEF Live, Deleted
  <2>2. Used(RowsOf(Live))' = Used(RowsOf(Live))
    <3>1. ASSUME NEW x \in Used(RowsOf(Live)) PROVE x \in Used(RowsOf(Live))'
      <4>1. PICK j \in Live : x = rows[j]
        BY DEF Used, RowsOf
      <4>2. x.up # None
        BY DEF Used
      <4>3. j \in Live' /\ rows'[j] = x
        BY <1>7, <2>1, <4>1, <4>2
      <4> QED BY <4>2, <4>3 DEF Used, RowsOf
    <3>2. ASSUME NEW x \in Used(RowsOf(Live))' PROVE x \in Used(RowsOf(Live))
      BY <2>1 DEF Used, RowsOf
    <3> QED BY <3>1, <3>2
  <2>3. \A q \in Reqs : /\ RowsDue(req[q])' <=> RowsDue(req[q])
                        /\ Rebuilds(req[q])' <=> Rebuilds(req[q])
                        /\ Wrote(req[q]) => Wrote(req[q])'
    <3> SUFFICES ASSUME NEW q \in Reqs
                 PROVE  /\ RowsDue(req[q])' <=> RowsDue(req[q])
                        /\ Rebuilds(req[q])' <=> Rebuilds(req[q])
                        /\ Wrote(req[q]) => Wrote(req[q])'
      OBVIOUS
    <3>1. CASE q = r
      BY <1>1, <1>2, <3>1, IdleTyped DEF RowsDue, Rebuilds, Wrote
    <3>2. CASE q # r
      BY <1>1, <1>2, <3>2 DEF OthersStand, RowsDue, Rebuilds, Wrote
    <3> QED BY <3>1, <3>2
  <2>4. \A q \in Reqs : Reads(req[q]) => Reads(req[q])'
    <3> SUFFICES ASSUME NEW q \in Reqs, Reads(req[q]) PROVE Reads(req[q])'
      OBVIOUS
    <3>1. CASE q = r
      BY <1>2, <3>1, IdleTyped DEF Reads
    <3>2. CASE q # r
      <4>1. req'[q].pc = req[q].pc /\ req'[q].got = req[q].got /\ req'[q].todo = req[q].todo
        BY <1>2, <3>2 DEF OthersStand
      <4>2. ASSUME req[q].todo \subseteq Live' PROVE RowsOf(req[q].todo)' = RowsOf(req[q].todo)
        BY <2>1, <4>1, <4>2 DEF RowsOf
      <4>3. Live' \subseteq Live
        BY <2>1
      <4> QED BY <2>2, <4>1, <4>2, <4>3 DEF Reads
    <3> QED BY <3>1, <3>2
  <2>5. ReaderHasRows'
    BY <1>0, <1>7, <2>3, <2>4 DEF RelayCore, ReaderHasRows, NoneDue
  <2>6. MapsHaveAll'
    BY <1>0, <1>1, <1>7, <2>2, <2>3 DEF RelayCore, MapsHaveAll, NoneDue, Rendered
  <2>7. RouteKept'
    BY <1>0, <1>1, <1>7, <2>3 DEF RelayCore, RouteKept, Covered
  <2> QED BY <1>4, <1>5, <2>5, <2>6, <2>7 DEF RelayInv, RelayCore
<1> QED BY <1>1, <1>6, <1>7

\* The steps after the rebuild, and one that failed.
LEMMA RelayEnds ==
    ASSUME RelayInv, NEW r \in Reqs,
           RebuildStops(r) \/ Reloaded(r) \/ ReloadFails(r) \/ RollbackFails(r)
    PROVE  RelayInv'
<1>0. ReqsOk /\ RelayCore /\ OneHolder /\ files \in [MapFiles -> SUBSET Values]
  BY DEF RelayInv, RelayTyped
<1>1. CASE RebuildStops(r)
  <2>1. RebuildFails(r) /\ behind' = "yes" /\ UNCHANGED <<rows, maps, files>>
    BY <1>1 DEF RebuildStops, lists
  <2>2. ReqsOk' /\ OthersStand(r) /\ ~ HoldsResync(r)'
    BY <1>0, <2>1, ReqFails
  <2>3. RelayCore' /\ OneHolder'
    BY <1>0, <2>1, <2>2, CoreBehind, HolderKept
  <2> QED BY <2>1, <2>2, <2>3 DEF RelayInv, RelayTyped
<1>2. ASSUME Aside(req[r]), UNCHANGED <<rows, maps, behind, files>>, ReqsOk', OthersStand(r), Aside(req'[r]),
             ~ HoldsResync(r)'
      PROVE  RelayInv'
  BY <1>0, <1>2, RelayAside
<1>3. CASE ReloadFails(r)
  <2>1. Aside(req[r]) /\ RebuildFails(r) /\ UNCHANGED <<rows, maps, behind, files>>
    BY <1>3 DEF ReloadFails, Aside, registry, lists
  <2> QED BY <1>0, <1>2, <2>1, ReqFails
<1>4. CASE RollbackFails(r)
  <2>1. Aside(req[r]) /\ Ends(r) /\ UNCHANGED <<rows, maps, behind, files>>
    BY <1>4 DEF RollbackFails, Aside, registry, lists
  <2> QED BY <1>0, <1>2, <2>1, ReqEnds
<1>5. CASE Reloaded(r)
  <2>1. Aside(req[r]) /\ UNCHANGED <<rows, maps, behind, files>>
    BY <1>5 DEF Reloaded, Aside, registry, lists
  <2>2. CASE Ends(r)
    BY <1>0, <1>2, <2>1, <2>2, ReqEnds
  <2>3. CASE Goes(r, "relist")
    <3>1. ReqsOk' /\ OthersStand(r) /\ req'[r].pc = "relist"
      BY <1>0, <2>3, ReqTo DEF Goes, ReqPcs
    <3> QED BY <1>2, <2>1, <3>1 DEF Aside, HoldsResync
  <2> QED BY <1>5, <2>2, <2>3 DEF Reloaded
<1> QED BY <1>1, <1>3, <1>4, <1>5

-----------------------------------------------------------------------------
(* The filter's lists.                                                     *)

OneLister == \A q, r \in Reqs : HoldsLists(q) /\ HoldsLists(r) => q = r

\* The files written so far hold what the entries say.
WrittenFollow(c) == c.pc = "file" => \A f \in MapFiles \ c.todo : files[f] = ValuesFor(f)
FilterInv == OneLister /\ (\A r \in Reqs : WrittenFollow(req[r])) /\ FilterFollowsTable

LEMMA ListerKept ==
    ASSUME OneLister, NEW r \in Reqs, OthersStand(r), HoldsLists(r)' => HoldsLists(r) \/ ListsFree
    PROVE  OneLister'
<1>1. \A q \in Reqs \ {r} : HoldsLists(q)' <=> HoldsLists(q)
  BY DEF OthersStand, HoldsLists
<1> QED BY <1>1 DEF OneLister, ListsFree

\* A step that writes no file and takes no entry.
LEMMA FilterSame ==
    ASSUME FilterInv, UNCHANGED <<entries, files>>, NEW r \in Reqs, OthersStand(r),
           lagging' = lagging \/ lagging' = TRUE, HoldsLists(r)' => HoldsLists(r) \/ ListsFree,
           HoldsLists(r) => HoldsLists(r)' \/ lagging', WrittenFollow(req[r])'
    PROVE  FilterInv'
<1>1. OneLister'
  BY ListerKept DEF FilterInv
<1>2. \A f : ValuesFor(f)' = ValuesFor(f)
  BY DEF ValuesFor
<1>3. \A q \in Reqs : WrittenFollow(req[q])'
  <2> SUFFICES ASSUME NEW q \in Reqs, q # r PROVE WrittenFollow(req[q])'
    OBVIOUS
  <2> QED BY <1>2 DEF FilterInv, WrittenFollow, OthersStand
<1>4. ListsFree' /\ ~ lagging' => ListsFree /\ ~ lagging
  <2>1. \A q \in Reqs \ {r} : HoldsLists(q)' <=> HoldsLists(q)
    BY DEF OthersStand, HoldsLists
  <2> QED BY <2>1 DEF ListsFree
<1> QED BY <1>1, <1>2, <1>3, <1>4 DEF FilterInv, FilterFollowsTable

\* A step of a request that does not hold Lists.mu, before or after.
LEMMA FilterAside ==
    ASSUME FilterInv, UNCHANGED lists, NEW r \in Reqs, OthersStand(r), ~ HoldsLists(r), ~ HoldsLists(r)'
    PROVE  FilterInv'
<1>1. WrittenFollow(req[r])'
  BY DEF WrittenFollow, HoldsLists
<1> QED BY <1>1, FilterSame DEF lists

\* An entry comes or goes under Lists.mu, before the files are written.
LEMMA FilterEntry ==
    ASSUME FilterInv, NEW r \in Reqs, OthersStand(r), UNCHANGED files,
           HoldsLists(r) \/ ListsFree, req'[r].pc = "sync"
    PROVE  FilterInv'
<1>1. OneLister' /\ HoldsLists(r)'
  BY ListerKept DEF FilterInv, HoldsLists
<1>2. \A q \in Reqs : req'[q].pc # "file"
  BY <1>1 DEF OneLister, HoldsLists
<1>3. ~ ListsFree'
  BY <1>1 DEF ListsFree
<1> QED BY <1>1, <1>2, <1>3 DEF FilterInv, WrittenFollow, FilterFollowsTable

LEMMA FilterAsked ==
    ASSUME RelayInv, FilterInv, NEW r \in Reqs, Asked(r)
    PROVE  FilterInv'
<1>1. /\ OthersStand(r) /\ req[r] = Idle
      /\ req'[r].pc \in {"list", "own", "sync"}
      /\ req'[r].pc = "sync" => ListsFree
      /\ req'[r].pc # "sync" => UNCHANGED entries
      /\ UNCHANGED <<files, lagging>>
  BY ReqAsked DEF RelayInv
<1>2. ~ HoldsLists(r)
  BY <1>1, IdleTyped DEF HoldsLists
<1>3. CASE req'[r].pc = "sync"
  BY <1>1, <1>3, FilterEntry
<1>4. CASE req'[r].pc # "sync"
  BY <1>1, <1>2, <1>4, FilterAside DEF HoldsLists, lists
<1> QED BY <1>3, <1>4

\* The steps of the registry do not come near the lists.
LEMMA FilterRegistry ==
    ASSUME RelayInv, FilterInv, NEW r \in Reqs,
           \/ SaveOwn(r) \/ SaveOther(r) \/ SaveOtherFails(r) \/ OthersSaved(r)
           \/ ListDomains(r) \/ GetDomain(r) \/ GotAll(r)
           \/ WriteMap(r) \/ Written(r) \/ RebuildStops(r)
           \/ Reloaded(r) \/ ReloadFails(r) \/ Rollback(r) \/ RollbackFails(r)
    PROVE  FilterInv'
<1>0. /\ ReqsOk /\ req \in [Reqs -> ReqType] /\ req[r] \in ReqType
  BY DEF RelayInv, RelayTyped, ReqsOk
<1>1. UNCHANGED lists /\ ~ HoldsLists(r)
  BY DEF SaveOwn, SaveOther, SaveOtherFails, OthersSaved, ListDomains, GetDomain, GotAll, WriteMap, Written,
         RebuildStops, Reloaded, ReloadFails, Rollback, RollbackFails, HoldsLists
<1>2. SUFFICES OthersStand(r) /\ ~ HoldsLists(r)'
  BY <1>1, FilterAside
<1>3. ASSUME Ends(r) \/ RebuildFails(r) PROVE OthersStand(r) /\ ~ HoldsLists(r)'
  BY <1>0, <1>3, ReqEnds, ReqFails
<1>4. ASSUME NEW x \in {"list", "write", "relist"}, Goes(r, x) PROVE OthersStand(r) /\ ~ HoldsLists(r)'
  <2>1. OthersStand(r) /\ req'[r].pc = x
    BY <1>0, <1>4, ReqTo DEF Goes, ReqPcs
  <2> QED BY <2>1 DEF HoldsLists
<1>5. CASE WriteMap(r)
  BY <1>1, <1>5 DEF WriteMap, OthersStand, HoldsLists
<1>6. CASE Written(r) \/ ListDomains(r) \/ (GetDomain(r) /\ req[r].todo \subseteq Live)
  <2>1. /\ \A q \in Reqs \ {r} : req'[q] = req[q]
        /\ req'[r].pc \in {"reload", "get"}
    BY <1>0, <1>6 DEF Written, ListDomains, GetDomain, ReqType
  <2> QED BY <2>1 DEF OthersStand, HoldsLists
<1>7. CASE SaveOwn(r) \/ SaveOther(r)
  <2>1. ASSUME NEW d, req' = NowStale([req EXCEPT ![r] = d], r), ReqOk(d), d.pc = "others"
        PROVE  OthersStand(r) /\ ~ HoldsLists(r)'
    <3>1. OthersStand(r) /\ req'[r] = d
      BY <1>0, <2>1, SavedReqs
    <3> QED BY <2>1, <3>1 DEF HoldsLists
  <2>2. CASE SaveOwn(r) /\ req[r].id \in Live
    <3> DEFINE d == [req[r] EXCEPT !.pc = "others"]
    <3>1. ReqOk(d) /\ d.pc = "others"
      BY <1>0, <2>2 DEF ReqsOk, ReqOk, ReqType, ReqPcs, SaveOwn
    <3>2. req' = NowStale([req EXCEPT ![r] = d], r)
      BY <2>2 DEF SaveOwn
    <3> HIDE DEF d
    <3> QED BY <2>1, <3>1, <3>2
  <2>3. CASE SaveOther(r) /\ ~ Ends(r)
    <3> DEFINE i == FirstOf(Listed(req[r].todo)).id
               d == [req[r] EXCEPT !.todo = req[r].todo \ {i}]
    <3>1. req' = NowStale([req EXCEPT ![r] = d], r) /\ req[r].pc = "others"
      BY <2>3 DEF SaveOther
    <3> HIDE DEF i
    <3>2. req[r].todo \ {i} \in SUBSET (Ids \cup MapFiles) /\ ReqOk(req[r])
      BY <1>0 DEF ReqType, ReqsOk
    <3>3. ReqOk(d) /\ d.pc = "others"
      BY <1>0, <3>1, <3>2, ReqParts
    <3> HIDE DEF d
    <3> QED BY <2>1, <3>1, <3>3
  <2> QED BY <1>3, <1>7, <2>2, <2>3 DEF SaveOwn
<1> QED BY <1>3, <1>4, <1>5, <1>6, <1>7 DEF SaveOtherFails, OthersSaved, GetDomain, GotAll, RebuildStops,
           Reloaded, ReloadFails, Rollback, RollbackFails

\* The steps of the lists.
ListStep(r) ==
    \/ SyncFromReload(r) \/ ReadEntries(r) \/ AllWritten(r)
    \/ \E f \in MapFiles : WriteFile(r, f)
    \/ SyncStops(r) \/ TakeBack(r) \/ TakeBackFails(r)

LEMMA ListParts ==
    ASSUME RelayInv, NEW r \in Reqs, ListStep(r)
    PROVE  /\ ReqsOk' /\ OthersStand(r) /\ Aside(req[r]) /\ Aside(req'[r]) /\ ~ HoldsResync(r)'
           /\ UNCHANGED <<rows, maps, behind>> /\ files' \in [MapFiles -> SUBSET Values]
<1>0. /\ ReqsOk /\ req[r] \in ReqType /\ ReqOk(req[r]) /\ files \in [MapFiles -> SUBSET Values]
  BY DEF RelayInv, RelayTyped, ReqsOk
<1>1. Aside(req[r]) /\ UNCHANGED <<rows, maps, behind>>
  BY DEF ListStep, SyncFromReload, ReadEntries, AllWritten, WriteFile, SyncStops, TakeBack, TakeBackFails, Aside,
         registry
<1>2. files' \in [MapFiles -> SUBSET Values]
  <2>1. \A f : ValuesFor(f) \in SUBSET Values
    BY DEF ValuesFor
  <2> QED BY <1>0, <2>1 DEF ListStep, SyncFromReload, ReadEntries, AllWritten, WriteFile, SyncStops, TakeBack,
             TakeBackFails, lists
<1>3. ASSUME NEW d, ReqOk(d), d.pc \in {"sync", "file", "undo"}, req' = [req EXCEPT ![r] = d]
      PROVE  ReqsOk' /\ OthersStand(r) /\ Aside(req'[r]) /\ ~ HoldsResync(r)'
  <2>1. ReqsOk' /\ req'[r] = d /\ \A q \in Reqs \ {r} : req'[q] = req[q]
    BY <1>0, <1>3, ReqSet
  <2> QED BY <1>3, <2>1 DEF OthersStand, Aside, HoldsResync
<1>4. CASE Ends(r)
  BY <1>0, <1>1, <1>2, <1>4, ReqEnds
<1>5. CASE SyncFromReload(r)
  <2> DEFINE d == [req[r] EXCEPT !.pc = "sync"]
  <2>1. ReqOk(d) /\ d.pc = "sync"
    BY <1>0, ReqParts DEF ReqPcs
  <2>2. req' = [req EXCEPT ![r] = d]
    BY <1>5 DEF SyncFromReload, Goes
  <2> HIDE DEF d
  <2> QED BY <1>1, <1>2, <1>3, <2>1, <2>2
<1>6. CASE ReadEntries(r)
  <2> DEFINE d == [[req[r] EXCEPT !.pc = "file"] EXCEPT !.todo = MapFiles]
  <2>1. d \in ReqType /\ d.pc = "file"
    BY <1>0 DEF ReqType, ReqPcs
  <2>2. req' = [req EXCEPT ![r] = d]
    BY <1>6 DEF ReadEntries
  <2> HIDE DEF d
  <2>3. ReqOk(d)
    BY <2>1 DEF ReqOk
  <2> QED BY <1>1, <1>2, <1>3, <2>1, <2>2, <2>3
<1>7. ASSUME NEW f \in MapFiles, WriteFile(r, f)
      PROVE  ReqsOk' /\ OthersStand(r) /\ Aside(req'[r]) /\ ~ HoldsResync(r)'
  <2> DEFINE t == req[r].todo \ {f}
             d == [req[r] EXCEPT !.todo = t]
  <2>1. t \in SUBSET (Ids \cup MapFiles)
    BY <1>0 DEF ReqType
  <2>2. req' = [req EXCEPT ![r] = d] /\ req[r].pc = "file"
    BY <1>7 DEF WriteFile
  <2> HIDE DEF t
  <2>3. ReqOk(d) /\ d.pc = "file"
    BY <1>0, <2>1, <2>2, ReqParts
  <2> HIDE DEF d
  <2> QED BY <1>3, <2>2, <2>3
<1>8. CASE SyncStops(r) /\ ~ Ends(r)
  <2> DEFINE d == [[req[r] EXCEPT !.pc = "undo"] EXCEPT !.todo = {}]
  <2>1. d \in ReqType /\ d.pc = "undo"
    BY <1>0 DEF ReqType, ReqPcs
  <2>2. req' = [req EXCEPT ![r] = d]
    BY <1>8 DEF SyncStops
  <2> HIDE DEF d
  <2>3. ReqOk(d)
    BY <2>1 DEF ReqOk
  <2> QED BY <1>1, <1>2, <1>3, <2>1, <2>2, <2>3
<1>9. CASE TookBack(r)
  <2> DEFINE d == [[req[r] EXCEPT !.pc = "sync"] EXCEPT !.undo = TRUE]
  <2>1. d \in ReqType /\ d.pc = "sync"
    BY <1>0 DEF ReqType, ReqPcs
  <2>2. req' = [req EXCEPT ![r] = d]
    BY <1>9 DEF TookBack
  <2> HIDE DEF d
  <2>3. ReqOk(d)
    BY <2>1 DEF ReqOk
  <2> QED BY <1>1, <1>2, <1>3, <2>1, <2>2, <2>3
<1> QED BY <1>1, <1>2, <1>4, <1>5, <1>6, <1>7, <1>8, <1>9 DEF ListStep, AllWritten, TakeBack, TakeBackFails

LEMMA RelayListStep ==
    ASSUME RelayInv, NEW r \in Reqs, ListStep(r)
    PROVE  RelayInv'
  BY ListParts, RelayAside

LEMMA FilterListStep ==
    ASSUME RelayInv, FilterInv, NEW r \in Reqs, ListStep(r)
    PROVE  FilterInv'
<1>0. /\ ReqsOk /\ req \in [Reqs -> ReqType] /\ req[r] \in ReqType /\ files \in [MapFiles -> SUBSET Values]
      /\ OthersStand(r)
  BY ListParts DEF RelayInv, RelayTyped, ReqsOk
<1>1. CASE SyncFromReload(r)
  <2>1. req'[r].pc = "sync" /\ ListsFree /\ UNCHANGED files
    BY <1>0, <1>1 DEF SyncFromReload, Goes, ReqType, lists
  <2> QED BY <1>0, <2>1, FilterEntry
<1>2. CASE TakeBack(r) \/ TakeBackFails(r)
  <2>1. req'[r].pc = "sync" /\ HoldsLists(r) /\ UNCHANGED files
    BY <1>0, <1>2 DEF TakeBack, TakeBackFails, TookBack, ReqType, lists, HoldsLists
  <2> QED BY <1>0, <2>1, FilterEntry
<1>3. CASE ReadEntries(r)
  <2>1. /\ req'[r].pc = "file" /\ req'[r].todo = MapFiles /\ HoldsLists(r)
        /\ UNCHANGED <<files, entries, lagging>>
    BY <1>0, <1>3 DEF ReadEntries, ReqType, lists, HoldsLists
  <2>2. HoldsLists(r)' /\ WrittenFollow(req[r])'
    BY <2>1 DEF HoldsLists, WrittenFollow
  <2> QED BY <1>0, <2>1, <2>2, FilterSame
<1>4. CASE SyncStops(r)
  <2>1. HoldsLists(r) /\ UNCHANGED <<files, entries>>
    BY <1>4 DEF SyncStops, HoldsLists
  <2>2. CASE Ends(r) /\ lagging' = TRUE
    <3>1. req'[r] = Idle
      BY <1>0, <2>2, ReqEnds
    <3>2. WrittenFollow(req[r])' /\ ~ HoldsLists(r)'
      BY <3>1, IdleTyped DEF WrittenFollow, HoldsLists
    <3> QED BY <1>0, <2>1, <2>2, <3>2, FilterSame
  <2>3. CASE ~ (Ends(r) /\ lagging' = TRUE)
    <3>1. req'[r].pc = "undo" /\ UNCHANGED lagging
      BY <1>0, <1>4, <2>3 DEF SyncStops, ReqType
    <3>2. WrittenFollow(req[r])' /\ HoldsLists(r)'
      BY <3>1 DEF WrittenFollow, HoldsLists
    <3> QED BY <1>0, <2>1, <3>1, <3>2, FilterSame
  <2> QED BY <2>2, <2>3
<1>5. CASE AllWritten(r)
  <2>1. /\ req[r].pc = "file" /\ req[r].todo = {} /\ Ends(r) /\ UNCHANGED <<files, entries>>
    BY <1>5 DEF AllWritten
  <2>2. req'[r] = Idle
    BY <1>0, <2>1, ReqEnds
  <2>3. OneLister'
    BY <1>0, <2>2, ListerKept, IdleTyped DEF HoldsLists, FilterInv
  <2>4. \A f : ValuesFor(f)' = ValuesFor(f)
    BY <2>1 DEF ValuesFor
  <2>5. \A f \in MapFiles : files'[f] = ValuesFor(f)'
    BY <2>1, <2>4 DEF FilterInv, WrittenFollow
  <2> QED BY <2>3, <2>5 DEF FilterInv, WrittenFollow, FilterFollowsTable
<1>6. ASSUME NEW f \in MapFiles, WriteFile(r, f) PROVE FilterInv'
  <2>1. /\ req[r].pc = "file" /\ req'[r].pc = "file" /\ req'[r].todo = req[r].todo \ {f}
        /\ files' = [files EXCEPT ![f] = ValuesFor(f)] /\ UNCHANGED entries
    BY <1>0, <1>6 DEF WriteFile, ReqType
  <2>2. OneLister' /\ HoldsLists(r)'
    BY <1>0, <2>1, ListerKept DEF HoldsLists, FilterInv
  <2>3. \A g : ValuesFor(g)' = ValuesFor(g)
    BY <2>1 DEF ValuesFor
  <2>4. WrittenFollow(req[r])'
    BY <1>0, <2>1, <2>3 DEF FilterInv, WrittenFollow
  <2>5. \A q \in Reqs \ {r} : req'[q].pc # "file"
    BY <2>2 DEF OneLister, HoldsLists
  <2>6. ~ ListsFree'
    BY <2>2 DEF ListsFree
  <2> QED BY <2>2, <2>4, <2>5, <2>6 DEF FilterInv, WrittenFollow, FilterFollowsTable
<1> QED BY <1>1, <1>2, <1>3, <1>4, <1>5, <1>6 DEF ListStep

\* A kill ends the requests; what they left half done is owed.
LEMMA RelayKilled ==
    ASSUME RelayInv, FilterInv, Killed
    PROVE  RelayInv' /\ FilterInv'
<1>0. /\ ReqsOk /\ RelayCore /\ files \in [MapFiles -> SUBSET Values] /\ behind \in {"no", "yes", "rebuilding"}
  BY DEF RelayInv, RelayTyped
<1>1. PICK s \in Reqs : req' = [q \in Reqs |-> IF q = s THEN Starting ELSE Idle]
  BY DEF Killed, Starting
<1>2. /\ UNCHANGED <<rows, maps, entries, files, lagging>>
      /\ behind' = IF behind = "rebuilding" \/ \E r \in Reqs : Unfinished(r) THEN "yes" ELSE behind
  BY DEF Killed, lists
<1>3. ReqsOk' /\ \A q \in Reqs : req'[q].pc = (IF q = s THEN "sync" ELSE "idle")
  BY <1>1, BegunReq, IdleTyped DEF ReqsOk, ReqOk
<1>4. RelayTyped'
  BY <1>2, <1>3 DEF RelayInv, RelayTyped
<1>5. OneHolder' /\ OneLister' /\ ~ ListsFree'
  BY <1>3 DEF OneHolder, OneLister, HoldsResync, HoldsLists, ListsFree
<1>6. FilterInv'
  BY <1>3, <1>5 DEF FilterInv, WrittenFollow, FilterFollowsTable
<1>7. CASE behind' = "yes"
  BY <1>4, <1>5, <1>6, <1>7, CoreBehind DEF RelayInv
<1>8. CASE behind' = behind /\ \A r \in Reqs : ~ Unfinished(r)
  <2>1. \A q \in Reqs : ~ RowsDue(req[q]) /\ ~ Rebuilds(req[q]) /\ ~ Wrote(req[q])
    BY <1>8 DEF Unfinished, RowsDue, Rebuilds, Wrote
  <2>2. ReaderHasRows'
    BY <1>3 DEF ReaderHasRows, Reads
  <2>3. MapsHaveAll'
    BY <1>0, <1>2, <1>8, <2>1 DEF RelayCore, MapsHaveAll, NoneDue, Live, RowsOf
  <2>4. RouteKept'
    BY <1>0, <1>2, <1>8, <2>1 DEF RelayCore, RouteKept, Covered
  <2> QED BY <1>4, <1>5, <1>6, <2>2, <2>3, <2>4 DEF RelayInv, RelayCore
<1> QED BY <1>0, <1>2, <1>7, <1>8

LEMMA RelayStep ==
    ASSUME RelayInv, FilterInv, [InboundStep]_vars
    PROVE  RelayInv' /\ FilterInv'
<1>1. ASSUME NEW r \in Reqs, Asked(r) PROVE RelayInv' /\ FilterInv'
  BY <1>1, RelayAsked, FilterAsked
<1>2. ASSUME NEW r \in Reqs, Step(r) PROVE RelayInv' /\ FilterInv'
  <2>1. CASE ListStep(r)
    BY <2>1, RelayListStep, FilterListStep
  <2>2. CASE ~ ListStep(r)
    <3>1. \/ SaveOwn(r) \/ SaveOther(r) \/ SaveOtherFails(r) \/ OthersSaved(r)
          \/ ListDomains(r) \/ GetDomain(r) \/ GotAll(r)
          \/ WriteMap(r) \/ Written(r) \/ RebuildStops(r)
          \/ Reloaded(r) \/ ReloadFails(r) \/ Rollback(r) \/ RollbackFails(r)
      BY <1>2, <2>2 DEF Step, ListStep
    <3> QED BY <3>1, RelaySaves, RelayLists, RelayGets, RelayWrites, RelayWritten, RelayEnds, RelayRollsBack,
               FilterRegistry
  <2> QED BY <2>1, <2>2
<1>3. CASE Killed
  BY <1>3, RelayKilled
<1>4. CASE UNCHANGED vars
  <2>1. UNCHANGED <<rows, maps, behind, entries, files, lagging, req>>
    BY <1>4 DEF vars
  <2>2. \A q \in Reqs : /\ RowsDue(req[q])' <=> RowsDue(req[q])
                        /\ Rebuilds(req[q])' <=> Rebuilds(req[q])
                        /\ Reads(req[q]) <=> Reads(req[q])'
                        /\ Wrote(req[q]) <=> Wrote(req[q])'
                        /\ WrittenFollow(req[q]) <=> WrittenFollow(req[q])'
    BY <2>1 DEF RowsDue, Rebuilds, Reads, Wrote, WrittenFollow, Live, RowsOf, ValuesFor
  <2>3. Live' = Live /\ RowsOf(Live)' = RowsOf(Live) /\ Covered' = Covered /\ NoneDue' = NoneDue
    BY <2>1, <2>2 DEF Live, RowsOf, Covered, NoneDue
  <2>4. RelayCore'
    BY <2>1, <2>2, <2>3 DEF RelayInv, RelayCore, ReaderHasRows, MapsHaveAll, RouteKept
  <2>5. RelayTyped' /\ OneHolder'
    BY <2>1 DEF RelayInv, RelayTyped, ReqsOk, OneHolder, HoldsResync
  <2>6. FilterInv'
    BY <2>1, <2>2 DEF FilterInv, OneLister, HoldsLists, FilterFollowsTable, ListsFree, ValuesFor
  <2> QED BY <2>4, <2>5, <2>6 DEF RelayInv
<1> QED BY <1>1, <1>2, <1>3, <1>4 DEF InboundStep

LEMMA RelayInit == Init => RelayInv /\ FilterInv
<1> SUFFICES ASSUME Init PROVE RelayInv /\ FilterInv
  OBVIOUS
<1>1. /\ rows = [i \in Ids |-> None] /\ maps = Rendered({}) /\ entries = {} /\ files = [f \in MapFiles |-> {}]
      /\ req = [r \in Reqs |-> Idle] /\ behind = "no"
  BY DEF Init
<1>2. \A q \in Reqs : req[q] = Idle /\ req[q].pc = "idle" /\ req[q].op = None
  BY <1>1, IdleTyped
<1>3. {} \in SUBSET Row /\ Live = {} /\ RowsOf(Live) = {}
  BY <1>1 DEF Live, RowsOf
<1>4. RelayTyped
  <2>1. ReqsOk
    BY <1>1, IdleTyped DEF ReqsOk
  <2>2. maps \in MapFilesType
    BY <1>1, <1>3, RenderedTyped
  <2>3. rows \in [Ids -> Row \cup {None}] /\ files \in [MapFiles -> SUBSET Values]
    BY <1>1
  <2> QED BY <1>1, <2>1, <2>2, <2>3 DEF RelayTyped
<1>5. Covered
  <2>1. \A p \in maps.recipients : p[1] \in maps.relay
    BY <1>1, <1>3, RenderedTyped
  <2> QED BY <1>1, <1>3, <2>1, RenderedCovers DEF Covered
<1>6. RelayCore
  BY <1>1, <1>2, <1>3, <1>5 DEF RelayCore, ReaderHasRows, Reads, MapsHaveAll, RouteKept
<1>7. OneHolder /\ FilterInv
  <2>1. \A f \in MapFiles : files[f] = ValuesFor(f)
    BY <1>1 DEF ValuesFor
  <2> QED BY <1>2, <2>1 DEF OneHolder, FilterInv, OneLister, HoldsResync, HoldsLists, WrittenFollow, FilterFollowsTable
<1> QED BY <1>4, <1>6, <1>7 DEF RelayInv

\* The two properties of the maps.
LEMMA RelayHeld ==
    ASSUME RelayInv
    PROVE  MapsFollowRegistry /\ AcceptedHasRoute
<1>0. RelayCore /\ ReqsOk /\ req \in [Reqs -> ReqType]
  BY DEF RelayInv, RelayTyped, ReqsOk
<1>1. MapsFollowRegistry
  <2>1. SUFFICES ASSUME behind = "no", \A r \in Reqs : ~ Unfinished(r)
                 PROVE  maps = Rendered(RowsOf(Live))
    BY DEF MapsFollowRegistry, RowsOf
  <2>2. \A q \in Reqs : ~ RowsDue(req[q]) /\ ~ Rebuilds(req[q])
    BY <2>1 DEF Unfinished, RowsDue, Rebuilds
  <2> QED BY <1>0, <2>1, <2>2 DEF RelayCore, MapsHaveAll, NoneDue
<1>2. AcceptedHasRoute
  <2>1. SUFFICES ASSUME behind = "no", NEW p \in maps.recipients, p[1] \in maps.relay
                 PROVE  \E t \in maps.transport : t[1] = p[1]
    BY DEF AcceptedHasRoute
  <2>2. CASE Covered
    BY <2>1, <2>2 DEF Covered
  <2>3. ASSUME NEW r \in Reqs, Wrote(req[r]) PROVE \E t \in maps.transport : t[1] = p[1]
    <3>1. req[r].got \in SUBSET Row
      BY <1>0 DEF ReqType
    <3> QED BY <2>1, <2>3, <3>1, RenderedCovers DEF Wrote
  <2> QED BY <1>0, <2>1, <2>2, <2>3 DEF RelayCore, RouteKept
<1> QED BY <1>1, <1>2

-----------------------------------------------------------------------------
(* The modes of an upstream.                                               *)

\* The rows of an upstream agree.
OneMode(u) == \A i, j \in Live : rows[i].up = u /\ rows[j].up = u => rows[i].mode = rows[j].mode

\* A save that nobody has saved into knows every row of the upstream that has
\* another mode.
SaveKnows(c) ==
    c.pc \in {"own", "others"} /\ ~ c.stale =>
        \A j \in Live : rows[j].up = c.up /\ (c.pc = "own" => j # c.id) =>
            rows[j].mode = c.mode \/ j \in c.todo

\* Such a save is at the other rows of the upstream.
Finishes(c, u) == c.pc = "others" /\ c.up = u /\ ~ c.stale

ModeInv ==
    /\ \A u \in Ups \ torn : OneMode(u) \/ \E r \in Reqs : Finishes(req[r], u)
    /\ \A r \in Reqs : SaveKnows(req[r])

\* A step that gives no row to an upstream leaves rows as they are or takes them.
NoneJoins ==
    \A j \in Live' : rows'[j].up \in Ups => j \in Live /\ rows'[j].up = rows[j].up /\ rows'[j].mode = rows[j].mode

\* The rows of an upstream, after such a step, are rows it had.
LEMMA NoneParts ==
    ASSUME NoneJoins, NEW u \in Ups, OneMode(u)
    PROVE  OneMode(u)'
  BY DEF NoneJoins, OneMode

LEMMA KnowsStill ==
    ASSUME NoneJoins, NEW c, c.pc \in {"own", "others"} => c.up \in Ups, SaveKnows(c)
    PROVE  c.pc \in {"own", "others"} /\ ~ c.stale =>
               \A j \in Live' : rows'[j].up = c.up /\ (c.pc = "own" => j # c.id) =>
                   rows'[j].mode = c.mode \/ j \in c.todo
  BY DEF NoneJoins, SaveKnows

\* A step of a request that is not at the other rows of an upstream.
LEMMA ModeAside ==
    ASSUME ModeInv, ReqsOk, NEW r \in Reqs, NEW d, req' = [req EXCEPT ![r] = d], req \in [Reqs -> ReqType],
           torn' = torn, NoneJoins, req[r].pc # "others", SaveKnows(req[r])'
    PROVE  ModeInv'
<1>1. \A q \in Reqs \ {r} : req'[q] = req[q]
  OBVIOUS
<1>2. ASSUME NEW u \in Ups \ torn PROVE OneMode(u)' \/ \E q \in Reqs : Finishes(req[q], u)'
  <2>1. CASE OneMode(u)
    BY <2>1, NoneParts
  <2>2. ASSUME NEW q \in Reqs, Finishes(req[q], u) PROVE Finishes(req[q], u)'
    <3>1. q # r
      BY <2>2 DEF Finishes
    <3> QED BY <1>1, <2>2, <3>1 DEF Finishes
  <2> QED BY <2>1, <2>2 DEF ModeInv
<1>3. ASSUME NEW q \in Reqs \ {r} PROVE SaveKnows(req[q])'
  <2>1. req[q].pc \in {"own", "others"} => req[q].up \in Ups
    BY DEF ReqsOk, ReqOk
  <2>2. SaveKnows(req[q])
    BY DEF ModeInv
  <2> DEFINE c == req[q]
  <2>3. c.pc \in {"own", "others"} /\ ~ c.stale =>
               \A j \in Live' : rows'[j].up = c.up /\ (c.pc = "own" => j # c.id) =>
                   rows'[j].mode = c.mode \/ j \in c.todo
    <3> HIDE DEF c
    <3> QED BY <2>1, <2>2, KnowsStill DEF c
  <2> QED BY <1>1, <2>3 DEF SaveKnows
<1> QED BY <1>2, <1>3 DEF ModeInv

\* What NowStale makes of the saves.
LEMMA StaleSaves ==
    ASSUME NEW f \in [Reqs -> ReqType], \A q \in Reqs : ReqOk(f[q]), NEW r \in Reqs
    PROVE  \A q \in Reqs \ {r} :
              LET c == f[q]  d == NowStale(f, r)[q] IN
              /\ d.pc = c.pc /\ d.up = c.up /\ d.mode = c.mode /\ d.id = c.id /\ d.todo = c.todo
              /\ c.pc \in {"own", "others"} => (d.stale <=> c.stale \/ c.up = f[r].up)
<1> SUFFICES ASSUME NEW q \in Reqs \ {r}
    PROVE  LET c == f[q]  d == NowStale(f, r)[q] IN
           /\ d.pc = c.pc /\ d.up = c.up /\ d.mode = c.mode /\ d.id = c.id /\ d.todo = c.todo
           /\ c.pc \in {"own", "others"} => (d.stale <=> c.stale \/ c.up = f[r].up)
  OBVIOUS
<1>1. f[q] \in ReqType /\ (f[q].pc \in {"own", "others"} => f[q].op = "transport")
  BY DEF ReqOk
<1>2. CASE f[q].op = "transport" /\ f[q].up = f[r].up
  <2>1. NowStale(f, r)[q] = [f[q] EXCEPT !.stale = TRUE]
    BY <1>2 DEF NowStale
  <2> QED BY <1>1, <1>2, <2>1 DEF ReqType
<1>3. CASE ~ (f[q].op = "transport" /\ f[q].up = f[r].up)
  <2>1. NowStale(f, r)[q] = f[q]
    BY <1>3 DEF NowStale
  <2> QED BY <1>1, <1>3, <2>1
<1> QED BY <1>2, <1>3

\* A row is saved with the upstream and the mode of a save: the other saves of
\* the upstream are stale by it, and it is at the other rows.
LEMMA ModeSaved ==
    ASSUME RelayTyped, ModeInv, NEW r \in Reqs, req[r].pc \in {"own", "others"}, NEW i \in Live,
           NEW d \in ReqType, ReqOk(d), d.pc = "others", d.up = req[r].up, d.mode = req[r].mode,
           d.stale = req[r].stale,
           \A j : j # i /\ j \in req[r].todo => j \in d.todo,
           req[r].pc = "own" => i = req[r].id,
           rows' = WithUpstream(i, req[r].up, req[r].mode),
           torn' = (IF req[r].stale THEN torn \cup {req[r].up} ELSE torn),
           req' = NowStale([req EXCEPT ![r] = d], r)
    PROVE  ModeInv'
<1>0. /\ rows \in [Ids -> Row \cup {None}] /\ i \in Ids /\ rows[i] \in Row
      /\ req \in [Reqs -> ReqType] /\ ReqsOk /\ req[r].up \in Ups /\ req[r].mode \in Modes
  BY DEF RelayTyped, ReqsOk, ReqOk, Live
<1> DEFINE v == req[r].up
           m == req[r].mode
           f == [req EXCEPT ![r] = d]
<1>1. Live' = Live /\ rows'[i].up = v /\ rows'[i].mode = m /\ \A j \in Live \ {i} : rows'[j] = rows[j]
  <2> DEFINE x == [[rows[i] EXCEPT !.up = v] EXCEPT !.mode = m]
  <2>1. x \in Row /\ x.up = v /\ x.mode = m
    BY <1>0 DEF Row
  <2>2. rows' = [rows EXCEPT ![i] = x]
    BY <1>0 DEF WithUpstream
  <2> HIDE DEF x
  <2> QED BY <1>0, <2>1, <2>2, NoneIsNoRow DEF Live
<1>2. f \in [Reqs -> ReqType] /\ (\A q \in Reqs : ReqOk(f[q])) /\ f[r] = d /\ \A q \in Reqs \ {r} : f[q] = req[q]
  BY <1>0 DEF ReqsOk
<1>3. req' = NowStale(f, r)
  OBVIOUS
<1> HIDE DEF f
<1>4. req'[r] = d
  <2>1. NowStale(f, r)[r] = f[r]
    BY <1>2, NowStaleParts
  <2> QED BY <1>2, <1>3, <2>1
<1>5. \A q \in Reqs \ {r} :
         /\ req'[q].pc = req[q].pc /\ req'[q].up = req[q].up /\ req'[q].mode = req[q].mode
         /\ req'[q].id = req[q].id /\ req'[q].todo = req[q].todo
         /\ req[q].pc \in {"own", "others"} => (req'[q].stale <=> req[q].stale \/ req[q].up = v)
  BY <1>2, <1>3, StaleSaves
<1>6. ASSUME NEW u \in Ups \ torn' PROVE OneMode(u)' \/ \E q \in Reqs : Finishes(req[q], u)'
  <2>1. CASE u = v
    <3>1. ~ req[r].stale
      BY <2>1
    <3> QED BY <1>4, <2>1, <3>1 DEF Finishes
  <2>2. CASE u # v
    <3>1. u \in Ups \ torn
      OBVIOUS
    <3>2. CASE OneMode(u)
      BY <1>1, <2>2, <3>2 DEF OneMode
    <3>3. ASSUME NEW q \in Reqs, Finishes(req[q], u) PROVE Finishes(req[q], u)'
      <4>1. q # r /\ req[q].pc = "others" /\ req[q].up = u /\ ~ req[q].stale
        BY <2>2, <3>3 DEF Finishes
      <4> QED BY <1>5, <2>2, <4>1 DEF Finishes
    <3> QED BY <3>1, <3>2, <3>3 DEF ModeInv
  <2> QED BY <2>1, <2>2
<1>7. ASSUME NEW q \in Reqs, q # r PROVE SaveKnows(req[q])'
  <2>1. SUFFICES ASSUME req'[q].pc \in {"own", "others"}, ~ req'[q].stale, NEW j \in Live', rows'[j].up = req'[q].up,
                        req'[q].pc = "own" => j # req'[q].id
                 PROVE  rows'[j].mode = req'[q].mode \/ j \in req'[q].todo
    BY DEF SaveKnows
  <2>2. req[q].pc \in {"own", "others"} /\ ~ req[q].stale /\ req[q].up # v
    BY <1>5, <1>7, <2>1
  <2>3. j \in Live /\ j # i /\ rows[j].up = req[q].up /\ (req[q].pc = "own" => j # req[q].id)
    BY <1>1, <1>5, <1>7, <2>1, <2>2
  <2>4. rows[j].mode = req[q].mode \/ j \in req[q].todo
    BY <2>2, <2>3 DEF ModeInv, SaveKnows
  <2> QED BY <1>1, <1>5, <1>7, <2>3, <2>4
<1>8. SaveKnows(req[r])'
  <2>1. SUFFICES ASSUME ~ d.stale, NEW j \in Live', rows'[j].up = v
                 PROVE  rows'[j].mode = m \/ j \in d.todo
    BY <1>4 DEF SaveKnows
  <2>2. CASE j = i
    BY <1>1, <2>2
  <2>3. CASE j # i
    <3>1. j \in Live /\ rows[j].up = v /\ rows'[j].mode = rows[j].mode /\ (req[r].pc = "own" => j # req[r].id)
      BY <1>1, <2>1, <2>3
    <3>2. rows[j].mode = m \/ j \in req[r].todo
      BY <2>1, <3>1 DEF ModeInv, SaveKnows
    <3> QED BY <2>3, <3>1, <3>2
  <2> QED BY <2>2, <2>3
<1> QED BY <1>6, <1>7, <1>8 DEF ModeInv

LEMMA ModeAsked ==
    ASSUME RelayTyped, ModeInv, NEW r \in Reqs, Asked(r)
    PROVE  ModeInv'
<1>0. ReqsOk /\ req \in [Reqs -> ReqType] /\ rows \in [Ids -> Row \cup {None}] /\ None \notin Ups
  BY RelayAssumption DEF RelayTyped, ReqsOk
<1>1. req[r] = Idle /\ req[r].pc # "others" /\ torn' = torn
  BY IdleTyped DEF Asked, Begins, Add, SetTransport, SetRecipients, Delete, Reload, AddEntry, DeleteEntry, registry
<1>2. ASSUME NEW d, req' = [req EXCEPT ![r] = d], NoneJoins, d.pc \in {"list", "sync"} PROVE ModeInv'
  <2>1. SaveKnows(req[r])'
    BY <1>0, <1>2 DEF SaveKnows
  <2> QED BY <1>0, <1>1, <1>2, <2>1, ModeAside
<1>3. ASSUME UNCHANGED rows PROVE NoneJoins
  BY <1>3 DEF NoneJoins, Live
<1>4. ASSUME NEW n \in Names, Add(r, n) PROVE ModeInv'
  <2>1. PICK i \in FreshIds : rows' = Inserted(i, n) /\ req' = [req EXCEPT ![r] = Adding(i)]
    BY <1>4 DEF Add, Begins, Adding
  <2>2. i \in Ids
    BY DEF FreshIds
  <2>3. Adding(i).pc = "list"
    BY <2>2, BegunReq
  <2>4. NoneJoins
    <3>1. rows'[i].up = None /\ \A j \in Ids \ {i} : rows'[j] = rows[j]
      BY <1>0, <2>1, <2>2 DEF Inserted, NewRow
    <3> QED BY <1>0, <3>1 DEF NoneJoins, Live
  <2> QED BY <1>2, <2>1, <2>3, <2>4
<1>5. ASSUME NEW i \in Ids, NEW rc \in Accepting, SetRecipients(r, i, rc) PROVE ModeInv'
  <2>1. i \in Live /\ rows' = WithRecipients(i, rc) /\ req' = [req EXCEPT ![r] = Asking("recipients")]
    BY <1>5 DEF SetRecipients, Begins, Asking
  <2>2. NoneJoins
    <3>1. rows[i] \in Row
      BY <1>0, <2>1 DEF Live
    <3>2. rows' = [rows EXCEPT ![i] = [rows[i] EXCEPT !.rcpt = rc]]
      BY <2>1 DEF WithRecipients
    <3>3. \A j \in Ids : j # i => rows'[j] = rows[j]
      BY <1>0, <3>2
    <3>4. rows'[i].up = rows[i].up /\ rows'[i].mode = rows[i].mode
      BY <1>0, <3>1, <3>2 DEF Row
    <3> QED BY <2>1, <3>3, <3>4 DEF NoneJoins, Live
  <2> QED BY <1>2, <2>1, <2>2, BegunReq
<1>6. ASSUME NEW i \in Ids, Delete(r, i) PROVE ModeInv'
  <2>1. rows' = Deleted(i) /\ req' = [req EXCEPT ![r] = Asking("delete")]
    BY <1>6 DEF Delete, Begins, Asking
  <2>2. NoneJoins
    BY <1>0, <2>1 DEF NoneJoins, Live, Deleted
  <2> QED BY <1>2, <2>1, <2>2, BegunReq
<1>7. CASE Reload(r)
  BY <1>2, <1>3, <1>7, BegunReq DEF Reload, Begins, Asking, registry
<1>8. ASSUME NEW e \in Listable, AddEntry(r, e) \/ DeleteEntry(r, e) PROVE ModeInv'
  <2>1. e[1] \in MapFiles /\ e[2] \in Values
    BY DEF Listable
  <2>2. PICK op \in {"addEntry", "deleteEntry"} : req' = [req EXCEPT ![r] = Listing(op, e[1], e[2])]
    BY <1>8 DEF AddEntry, DeleteEntry, Begins, Listing
  <2>3. Listing(op, e[1], e[2]).pc = "sync"
    BY <2>1, ListingOk
  <2>4. UNCHANGED rows
    BY <1>8 DEF AddEntry, DeleteEntry, registry
  <2> QED BY <1>2, <1>3, <2>2, <2>3, <2>4
<1>9. ASSUME NEW i \in Ids, NEW um \in Savable, NEW may, SetTransport(r, i, um, may) PROVE ModeInv'
  <2> DEFINE d == Saving(i, um[1], um[2], Others(i, um))
  <2>1. um[1] \in Ups /\ um[2] \in Modes /\ Others(i, um) \in SUBSET Ids
    BY DEF Savable, Others, Live
  <2>2. d.id = i /\ d.up = um[1] /\ d.mode = um[2] /\ d.todo = Others(i, um) /\ d.pc = "own"
    BY IdleTyped DEF Saving, ReqType
  <2>3. req' = [req EXCEPT ![r] = d] /\ UNCHANGED rows
    BY <1>9 DEF SetTransport, Begins, Saving, registry
  <2> HIDE DEF d
  <2>4. req'[r] = d
    BY <1>0, <2>3
  <2>5. \A j \in Live : rows[j].up = d.up /\ j # d.id => rows[j].mode = d.mode \/ j \in d.todo
    BY <2>2 DEF Others
  <2>6. SaveKnows(req[r])'
    BY <2>2, <2>3, <2>4, <2>5 DEF SaveKnows, Live
  <2> QED BY <1>0, <1>1, <1>3, <2>3, <2>6, ModeAside
<1> QED BY <1>4, <1>5, <1>6, <1>7, <1>8, <1>9 DEF Asked

\* The steps of a save.
LEMMA ModeSaves ==
    ASSUME RelayTyped, ModeInv, NEW r \in Reqs, SaveOwn(r) \/ SaveOther(r) \/ SaveOtherFails(r) \/ OthersSaved(r)
    PROVE  ModeInv'
<1>0. /\ ReqsOk /\ req \in [Reqs -> ReqType] /\ req[r] \in ReqType /\ ReqOk(req[r])
      /\ rows \in [Ids -> Row \cup {None}]
  BY DEF RelayTyped, ReqsOk
<1>1. ASSUME NEW d, req' = [req EXCEPT ![r] = d], d.pc \notin {"own", "others"}, UNCHANGED rows,
             req[r].pc = "others",
             torn' = torn \cup {req[r].up} \/
             (req[r].stale /\ torn' = torn) \/
             (OneMode(req[r].up) /\ torn' = torn \ {req[r].up})
      PROVE  ModeInv'
  <2>1. req'[r] = d /\ \A q \in Reqs \ {r} : req'[q] = req[q]
    BY <1>0, <1>1
  <2>2. ASSUME NEW u \in Ups \ torn' PROVE OneMode(u)' \/ \E q \in Reqs : Finishes(req[q], u)'
    <3>1. CASE OneMode(u)
      BY <1>1, <3>1 DEF OneMode, Live
    <3>2. CASE ~ OneMode(u)
      <4>1. u \notin torn
        BY <1>1, <3>2
      <4>2. PICK q \in Reqs : Finishes(req[q], u)
        BY <3>2, <4>1 DEF ModeInv
      <4>3. q # r
        BY <1>1, <3>2, <4>2 DEF Finishes
      <4> QED BY <2>1, <4>2, <4>3 DEF Finishes
    <3> QED BY <3>1, <3>2
  <2>3. ASSUME NEW q \in Reqs PROVE SaveKnows(req[q])'
    <3>1. CASE q = r
      BY <1>1, <2>1, <3>1 DEF SaveKnows
    <3>2. CASE q # r
      BY <1>1, <2>1, <3>2 DEF SaveKnows, ModeInv, Live
    <3> QED BY <3>1, <3>2
  <2> QED BY <2>2, <2>3 DEF ModeInv
<1>2. CASE SaveOwn(r)
  <2>0. req[r].pc = "own"
    BY <1>2 DEF SaveOwn
  <2>1. CASE req[r].id \in Live
    <3> DEFINE d == [req[r] EXCEPT !.pc = "others"]
    <3>1. /\ d \in ReqType /\ ReqOk(d) /\ d.pc = "others" /\ d.up = req[r].up /\ d.mode = req[r].mode
          /\ d.stale = req[r].stale /\ d.todo = req[r].todo
      BY <1>0, <2>0 DEF ReqOk, ReqType, ReqPcs
    <3>2. [req EXCEPT ![r].pc = "others"] = [req EXCEPT ![r] = d]
      OBVIOUS
    <3>3. /\ req' = NowStale([req EXCEPT ![r] = d], r) /\ rows' = WithUpstream(req[r].id, req[r].up, req[r].mode)
          /\ torn' = (IF req[r].stale THEN torn \cup {req[r].up} ELSE torn)
      BY <1>2, <2>1, <3>2 DEF SaveOwn, Saved
    <3> HIDE DEF d
    <3> QED BY <2>0, <2>1, <3>1, <3>3, ModeSaved
  <2>2. CASE req[r].id \notin Live
    <3>1. req' = [req EXCEPT ![r] = Idle] /\ UNCHANGED <<rows, torn>>
      BY <1>2, <2>2 DEF SaveOwn, Ends
    <3>2. SaveKnows(req[r])'
      BY <1>0, <3>1, IdleTyped DEF SaveKnows
    <3>3. NoneJoins
      BY <3>1 DEF NoneJoins, Live
    <3> QED BY <1>0, <2>0, <3>1, <3>2, <3>3, ModeAside
  <2> QED BY <2>1, <2>2
<1>3. CASE SaveOtherFails(r)
  BY <1>1, <1>3, IdleTyped DEF SaveOtherFails, Ends
<1>4. CASE OthersSaved(r)
  <2> DEFINE d == [req[r] EXCEPT !.pc = "list"]
  <2>1. d.pc = "list" /\ req[r].pc = "others" /\ req[r].todo = {} /\ UNCHANGED rows
    BY <1>0, <1>4 DEF OthersSaved, ReqType
  <2>2. req' = [req EXCEPT ![r] = d]
    BY <1>4 DEF OthersSaved, Goes
  <2> HIDE DEF d
  <2>3. CASE req[r].stale
    BY <1>1, <1>4, <2>1, <2>2, <2>3 DEF OthersSaved
  <2>4. CASE ~ req[r].stale
    <3>1. OneMode(req[r].up)
      BY <2>1, <2>4 DEF ModeInv, SaveKnows, OneMode
    <3> QED BY <1>1, <1>4, <2>1, <2>2, <2>4, <3>1 DEF OthersSaved
  <2> QED BY <2>3, <2>4
<1>5. CASE SaveOther(r)
  <2>0. req[r].pc = "others" /\ req[r].todo # {}
    BY <1>5 DEF SaveOther
  <2>1. CASE req[r].todo \ Live # {}
    BY <1>1, <1>5, <2>0, <2>1, IdleTyped DEF SaveOther, Ends
  <2>2. CASE req[r].todo \ Live = {}
    <3> DEFINE i == FirstOf(Listed(req[r].todo)).id
               d == [req[r] EXCEPT !.todo = req[r].todo \ {i}]
    <3>1. i \in Live
      BY <1>0, <2>0, <2>2, FirstListed
    <3>2. /\ rows' = WithUpstream(i, req[r].up, req[r].mode)
          /\ torn' = (IF req[r].stale THEN torn \cup {req[r].up} ELSE torn)
          /\ req' = NowStale([req EXCEPT ![r] = d], r)
      BY <1>5, <2>2 DEF SaveOther, Saved
    <3> HIDE DEF i
    <3>3. /\ d \in ReqType /\ ReqOk(d) /\ d.pc = "others" /\ d.up = req[r].up /\ d.mode = req[r].mode
          /\ d.stale = req[r].stale /\ d.todo = req[r].todo \ {i}
      <4>1. req[r].todo \ {i} \in SUBSET (Ids \cup MapFiles)
        BY <1>0 DEF ReqType
      <4> QED BY <1>0, <2>0, <4>1 DEF ReqOk, ReqType
    <3> HIDE DEF d
    <3> QED BY <2>0, <3>1, <3>2, <3>3, ModeSaved
  <2> QED BY <2>1, <2>2
<1> QED BY <1>2, <1>3, <1>4, <1>5

\* The steps that save no upstream.
LEMMA ModeSteps ==
    ASSUME RelayTyped, ModeInv, NEW r \in Reqs, Step(r),
           ~ (SaveOwn(r) \/ SaveOther(r) \/ SaveOtherFails(r) \/ OthersSaved(r))
    PROVE  ModeInv'
<1>0. ReqsOk /\ req \in [Reqs -> ReqType] /\ req[r] \in ReqType /\ rows \in [Ids -> Row \cup {None}]
  BY DEF RelayTyped, ReqsOk
<1>1. ASSUME NEW d, req' = [req EXCEPT ![r] = d], d.pc \notin {"own", "others"}, NoneJoins, torn' = torn,
             req[r].pc # "others"
      PROVE  ModeInv'
  <2>1. SaveKnows(req[r])'
    BY <1>0, <1>1 DEF SaveKnows
  <2> QED BY <1>0, <1>1, <2>1, ModeAside
<1>2. ASSUME UNCHANGED rows PROVE NoneJoins
  BY <1>2 DEF NoneJoins, Live
<1>3. ASSUME Ends(r) \/ RebuildFails(r), req[r].pc # "others", NoneJoins, torn' = torn PROVE ModeInv'
  <2>1. CASE Ends(r)
    BY <1>1, <1>3, <2>1, IdleTyped DEF Ends
  <2>2. CASE RebuildFails(r) /\ req[r].op # "add"
    BY <1>1, <1>3, <2>2, IdleTyped DEF RebuildFails
  <2>3. CASE RebuildFails(r) /\ req[r].op = "add"
    <3> DEFINE d == [req[r] EXCEPT !.pc = "rollback", !.todo = {}, !.got = {}]
    <3>1. req' = [req EXCEPT ![r] = d] /\ d.pc = "rollback"
      BY <1>0, <2>3 DEF RebuildFails, ReqType
    <3> HIDE DEF d
    <3> QED BY <1>1, <1>3, <3>1
  <2> QED BY <1>3, <2>1, <2>2, <2>3
<1>5. CASE ListDomains(r)
  <2> DEFINE d == [req[r] EXCEPT !.pc = "get", !.todo = Live, !.got = {}]
  <2>1. d.pc = "get" /\ req' = [req EXCEPT ![r] = d] /\ req[r].pc = "list" /\ UNCHANGED <<rows, torn>>
    BY <1>0, <1>5 DEF ListDomains, ReqType
  <2> HIDE DEF d
  <2> QED BY <1>1, <1>2, <2>1
<1>6. CASE GetDomain(r)
  <2>1. CASE req[r].todo \subseteq Live
    <3> DEFINE i == FirstOf(Listed(req[r].todo)).id
               d == [req[r] EXCEPT !.todo = @ \ {i}, !.got = @ \cup {rows[i]}]
    <3>1. req' = [req EXCEPT ![r] = d] /\ req[r].pc = "get" /\ UNCHANGED <<rows, torn>>
      BY <1>6, <2>1 DEF GetDomain
    <3> HIDE DEF i
    <3>2. d.pc = "get"
      BY <1>0, <3>1 DEF ReqType
    <3> HIDE DEF d
    <3> QED BY <1>1, <1>2, <3>1, <3>2
  <2>2. CASE ~ (req[r].todo \subseteq Live)
    BY <1>2, <1>3, <1>6, <2>2 DEF GetDomain
  <2> QED BY <2>1, <2>2
<1>7. ASSUME NEW x \in ReqPcs \ {"own", "others"}, Goes(r, x), req[r].pc # "others", UNCHANGED <<rows, torn>>
      PROVE  ModeInv'
  <2> DEFINE d == [req[r] EXCEPT !.pc = x]
  <2>1. d.pc = x /\ req' = [req EXCEPT ![r] = d]
    BY <1>0, <1>7 DEF Goes, ReqType
  <2> HIDE DEF d
  <2> QED BY <1>1, <1>2, <1>7, <2>1
<1>8. CASE GotAll(r)
  BY <1>7, <1>8 DEF GotAll, registry, ReqPcs
<1>9. CASE WriteMap(r)
  <2>1. req[r].pc = "write" /\ req' = [req EXCEPT ![r] = req[r]] /\ UNCHANGED <<rows, torn>>
    BY <1>0, <1>9 DEF WriteMap
  <2> QED BY <1>1, <1>2, <2>1
<1>10. CASE Written(r)
  <2> DEFINE d == [req[r] EXCEPT !.pc = "reload", !.got = {}]
  <2>1. d.pc = "reload" /\ req' = [req EXCEPT ![r] = d] /\ req[r].pc = "write" /\ UNCHANGED <<rows, torn>>
    BY <1>0, <1>10 DEF Written, ReqType
  <2> HIDE DEF d
  <2> QED BY <1>1, <1>2, <2>1
<1>11. CASE RebuildStops(r) \/ ReloadFails(r)
  BY <1>2, <1>3, <1>11 DEF RebuildStops, ReloadFails, registry
<1>12. CASE Reloaded(r)
  BY <1>2, <1>3, <1>7, <1>12 DEF Reloaded, registry, ReqPcs
<1>13. CASE Rollback(r)
  <2>1. NoneJoins
    BY <1>0, <1>13 DEF Rollback, NoneJoins, Live, Deleted
  <2> QED BY <1>3, <1>13, <2>1 DEF Rollback
<1>14. CASE RollbackFails(r)
  BY <1>2, <1>3, <1>14 DEF RollbackFails, registry
<1>15. CASE SyncFromReload(r)
  BY <1>7, <1>15 DEF SyncFromReload, registry, ReqPcs
<1>16. CASE ReadEntries(r)
  <2> DEFINE d == [req[r] EXCEPT !.pc = "file", !.todo = MapFiles]
  <2>1. d.pc = "file" /\ req' = [req EXCEPT ![r] = d] /\ req[r].pc = "sync" /\ UNCHANGED <<rows, torn>>
    BY <1>0, <1>16 DEF ReadEntries, ReqType, registry
  <2> HIDE DEF d
  <2> QED BY <1>1, <1>2, <2>1
<1>17. CASE AllWritten(r)
  BY <1>2, <1>3, <1>17 DEF AllWritten, registry
<1>18. ASSUME NEW x \in MapFiles, WriteFile(r, x) PROVE ModeInv'
  <2> DEFINE d == [req[r] EXCEPT !.todo = @ \ {x}]
  <2>1. d.pc = "file" /\ req' = [req EXCEPT ![r] = d] /\ req[r].pc = "file" /\ UNCHANGED <<rows, torn>>
    BY <1>0, <1>18 DEF WriteFile, ReqType, registry
  <2> HIDE DEF d
  <2> QED BY <1>1, <1>2, <2>1
<1>19. CASE SyncStops(r)
  <2>1. CASE Ends(r)
    BY <1>2, <1>3, <1>19, <2>1 DEF SyncStops, registry
  <2>2. CASE ~ Ends(r)
    <3> DEFINE d == [req[r] EXCEPT !.pc = "undo", !.todo = {}]
    <3>1. d.pc = "undo" /\ req' = [req EXCEPT ![r] = d] /\ req[r].pc # "others" /\ UNCHANGED <<rows, torn>>
      BY <1>0, <1>19, <2>2 DEF SyncStops, ReqType, registry
    <3> HIDE DEF d
    <3> QED BY <1>1, <1>2, <3>1
  <2> QED BY <2>1, <2>2
<1>20. CASE TakeBack(r) \/ TakeBackFails(r)
  <2> DEFINE d == [req[r] EXCEPT !.pc = "sync", !.undo = TRUE]
  <2>1. d.pc = "sync" /\ req' = [req EXCEPT ![r] = d] /\ req[r].pc = "undo" /\ UNCHANGED <<rows, torn>>
    BY <1>0, <1>20 DEF TakeBack, TakeBackFails, TookBack, ReqType, registry
  <2> HIDE DEF d
  <2> QED BY <1>1, <1>2, <2>1
<1> QED BY <1>5, <1>6, <1>8, <1>9, <1>10, <1>11, <1>12, <1>13, <1>14, <1>15, <1>16, <1>17, <1>18, <1>19, <1>20
        DEF Step

LEMMA ModeKilled ==
    ASSUME RelayTyped, ModeInv, Killed
    PROVE  ModeInv'
<1>1. \A q \in Reqs : req'[q].pc \notin {"own", "others"}
  <2>1. PICK s \in Reqs : req' = [q \in Reqs |-> IF q = s THEN Starting ELSE Idle]
    BY DEF Killed, Starting
  <2> QED BY <2>1, IdleTyped, BegunReq
<1>2. torn' = torn \cup {req[r].up : r \in {q \in Reqs : req[q].pc = "others"}} /\ UNCHANGED rows
  BY DEF Killed
<1>3. ASSUME NEW u \in Ups \ torn' PROVE OneMode(u)'
  <2>1. u \notin torn /\ ~ \E q \in Reqs : Finishes(req[q], u)
    BY <1>2 DEF Finishes
  <2>2. OneMode(u)
    BY <2>1 DEF ModeInv
  <2> QED BY <1>2, <2>2 DEF OneMode, Live
<1>4. \A q \in Reqs : SaveKnows(req[q])'
  BY <1>1 DEF SaveKnows
<1> QED BY <1>3, <1>4 DEF ModeInv

LEMMA ModeStep ==
    ASSUME RelayTyped, ModeInv, InboundStep \/ UNCHANGED vars
    PROVE  ModeInv'
<1>1. CASE UNCHANGED vars
  BY <1>1 DEF vars, ModeInv, OneMode, Finishes, SaveKnows, Live
<1> QED BY <1>1, ModeAsked, ModeSaves, ModeSteps, ModeKilled DEF InboundStep

LEMMA ModeInit == Init => ModeInv
  BY IdleTyped DEF Init, ModeInv, OneMode, SaveKnows, Live

-----------------------------------------------------------------------------
(* The panel.                                                              *)

PanelInv ==
    /\ SettingsTyped /\ AddressInv /\ LimitInv /\ ReportInv
    /\ RelayInv /\ FilterInv /\ ModeInv

LEMMA PanelStart == PanelInit => PanelInv
  BY InitSettingsTyped, AddressInit, LimitInit, ReportsInit, RelayInit, ModeInit DEF PanelInit, PanelInv

LEMMA PanelStep ==
    ASSUME PanelInv, [PanelNext]_panelVars
    PROVE  PanelInv' /\ [NoneCrowdedOut]_settings
<1>1. [InboundStep]_vars /\ [SettingsStep]_settings
  BY PanelParts
<1>2. SettingsTyped' /\ AddressInv' /\ LimitInv' /\ ReportInv' /\ [NoneCrowdedOut]_settings
  BY <1>1, SettingsTypedStep, AddressStep, LimitStep, ReportsStep DEF PanelInv
<1>3. RelayInv' /\ FilterInv'
  BY <1>1, RelayStep DEF PanelInv
<1>4. ModeInv'
  BY <1>1, ModeStep DEF PanelInv, RelayInv
<1> QED BY <1>2, <1>3, <1>4 DEF PanelInv

LEMMA PanelAlways == PanelSpec => []PanelInv
<1>1. PanelInit => PanelInv
  BY PanelStart
<1>2. PanelInv /\ [PanelNext]_panelVars => PanelInv'
  BY PanelStep
<1> QED BY <1>1, <1>2, PTL DEF PanelSpec

\* Every variable keeps its shape, whatever runs beside what: a job that is
\* about a row names one, the id of a new row is not taken again, a name has one
\* row, and no limit passes the level-1 limit, whatever an import brings or a
\* recalculation works out (checkManualLimit, computeAutoMaxMessages).
PanelTyped == SettingsTyped /\ RelayTyped

THEOREM PanelTypesHold == PanelSpec => []PanelTyped
<1>1. PanelInv => PanelTyped
  BY DEF PanelInv, PanelTyped, RelayInv
<1> QED BY <1>1, PanelAlways, PTL

\* Once no rebuild of the DMARC maps is owed, Postfix accepts reports for the
\* address of every domain that chose it, and for no other but one deleted
\* since: for any number of domains and jobs (Resync under resyncMu,
\* SetDomainDMARCAddress and Import before it).
THEOREM AddressesAlwaysFollow == PanelSpec => []AddressesFollow
<1>1. PanelInv => AddressesFollow
  BY AddressesFollowed DEF PanelInv
<1> QED BY <1>1, PanelAlways, PTL

\* A limit is what its last save or deletion made of it, however many
\* recalculations run beside: they keep the mode and the multiplier they read,
\* and what they read is what was saved, unless it is known to be stale.
THEOREM SavedLimitsStay == PanelSpec => []SavedLimitStays
<1>1. PanelInv => SavedLimitStays
  BY DEF PanelInv, LimitInv
<1> QED BY <1>1, PanelAlways, PTL

\* Every stored report belongs to the row it was checked by, unless that row was
\* deleted between the check and the insert: a deletion takes the reports with
\* the row, and the next domain of the name inherits none (DeleteDomain's
\* transaction), for any number of domains, reports and jobs.
THEOREM ReportsAlwaysStay == PanelSpec => []ReportsStayWithTheirDomain
<1>1. PanelInv => ReportsStayWithTheirDomain
  BY ReportsHeld DEF PanelInv
<1> QED BY <1>1, PanelAlways, PTL

\* However many reports a stranger files, no step takes a report of another
\* domain out of the store (PruneDMARCReports counts a domain's own).
THEOREM FloodAlwaysStaysAtHome == PanelSpec => FloodStaysAtHome
<1>1. PanelInv /\ [PanelNext]_panelVars => [NoneCrowdedOut]_settings
  BY PanelStep
<1> QED BY <1>1, PanelAlways, PTL DEF PanelSpec, FloodStaysAtHome

\* Once no rebuild is owed, the four maps of the relay are what the rows of the
\* registry say, for any number of requests: a rebuild that finishes has read
\* every row as it still is, or another request that changed one is still to
\* rebuild (resyncMu, held from the listing of the domains to the last map).
THEOREM MapsAlwaysFollow == PanelSpec => []MapsFollowRegistry
<1>1. PanelInv => MapsFollowRegistry
  BY RelayHeld DEF PanelInv
<1> QED BY <1>1, PanelAlways, PTL

\* Mail is never accepted with nowhere to send it, between the writes of the
\* four maps either: writeChanged writes the transports before the recipients.
THEOREM AcceptedAlwaysHasRoute == PanelSpec => []AcceptedHasRoute
<1>1. PanelInv => AcceptedHasRoute
  BY RelayHeld DEF PanelInv
<1> QED BY <1>1, PanelAlways, PTL

\* The filter's files hold the entries of the page once the mutex of the lists
\* is free, unless the last writing of them is known to have failed: for any
\* number of requests, files and kills (Lists.mu, and the second sync after a
\* change is taken back).
THEOREM FilterAlwaysFollows == PanelSpec => []FilterFollowsTable
<1>1. PanelInv => FilterFollowsTable
  BY DEF PanelInv, FilterInv
<1> QED BY <1>1, PanelAlways, PTL

\* The rows of an upstream have one TLS mode, unless a save of it is on its way
\* through the rest of them, or saves of it are known to have run into each other
\* or to have stopped half way: for any number of domains, requests and kills
\* (SetTransportAs, which brings every row of the upstream to the mode it saves).
THEOREM UpstreamAlwaysHasOneMode == PanelSpec => []OneModePerUpstream
<1>1. PanelInv => OneModePerUpstream
  <2> SUFFICES ASSUME PanelInv, NEW i \in Live, NEW j \in Live,
                      rows[i].up = rows[j].up, rows[i].mode # rows[j].mode,
                      rows[i].up # None, rows[i].up \notin torn
               PROVE  \E r \in Reqs : req[r].pc = "others" /\ req[r].up = rows[i].up
    BY DEF OneModePerUpstream
  <2>1. rows[i] \in Row
    BY DEF PanelInv, RelayInv, RelayTyped, Live
  <2>2. rows[i].up \in Ups \ torn
    BY <2>1 DEF Row
  <2>3. ~ OneMode(rows[i].up)
    BY DEF OneMode
  <2> QED BY <2>2, <2>3 DEF PanelInv, ModeInv, Finishes
<1> QED BY <1>1, PanelAlways, PTL
=============================================================================
