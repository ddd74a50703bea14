------------------------ MODULE SelectorTableProofs ------------------------
(***************************************************************************)
(* Proofs about SelectorTable: domains, keys, the selector table and the   *)
(* signer, for any number of requests, names, selectors and messages, and  *)
(* any number of calls that fail and kills.                                *)
(***************************************************************************)
EXTENDS SelectorTable, FiniteSetTheorems, TLAPS

-----------------------------------------------------------------------------
(* What a request is like at each of its calls.                            *)

Rewriting == {"list", "srvStat", "srvGen", "write"}
Deleting == {"get", "purge", "drop", "maps", "unkey"} \cup Rewriting

Calls(k) ==
  CASE k = "add"                -> {"row", "stat", "gen", "undo"} \cup Rewriting
    [] k = "import"             -> {"row", "key", "settings", "maps"} \cup Rewriting
    [] k \in {"delete", "undo"} -> Deleting
    [] k = "reload"             -> {"keep", "dirs", "sweep"} \cup Rewriting
    [] k = "server"             -> {"stat", "gen"}
    [] k = "boot"               -> Rewriting
    [] k = "none"               -> {"idle"}

OpKinds == {"none", "add", "import", "delete", "undo", "reload", "server", "boot"}
Places == {"idle", "ok", "err", "row", "stat", "gen", "undo", "list", "srvStat", "srvGen", "write", "key",
           "settings", "maps", "get", "purge", "drop", "unkey", "keep", "dirs", "sweep"}
OpType == [kind : OpKinds, at : Places, id : {0} \cup Ids, name : Names \cup {None}, sel : Selectors \cup {None},
           rows : SUBSET Paths, names : SUBSET Names, bad : BOOLEAN, rebuilt : BOOLEAN]

OneEach(t) == \A v, w \in t : v[1] = w[1] => v = w

OpOk(o) ==
  /\ o \in OpType
  /\ o.at \in Calls(o.kind) \cup {"ok", "err"}
  /\ o.kind \in {"add", "import", "delete", "undo", "server"} => o.name \in Names
  /\ o.kind \in {"add", "import", "undo", "server"} => o.sel \in Selectors
  /\ o.kind \in {"add", "import", "delete", "undo"} /\ o.at \notin Ended \cup {"row"} => o.id \in Ids
  /\ o.kind = "server" => o.id = 0
  /\ o.at = "unkey" => o.name # Server
  /\ o.at = "dirs" => Server \in o.names
  /\ o.at = "sweep" => Server \notin o.names
  /\ OneEach(o.rows)

OpsOk == op \in [Goroutines -> OpType] /\ (\A p \in Goroutines : OpOk(op[p])) /\ op[Boot].kind \in {"none", "boot"}

\* The ids the requests under way are to take are left, and those beyond the
\* sequence were never given.
Adding == {q \in Reqs : op[q].at = "row"}
IdsLeft == lastId + Cardinality(Adding) <= MaxDomains /\ \A i \in Ids : i > lastId => doms[i] = None

TablesOk ==
  /\ doms \in [Ids -> Domain \cup {None}] /\ lastId \in 0 .. MaxDomains /\ apps \in SUBSET Ids
  /\ lastKey \in Nat /\ keys \in [Paths -> 0 .. lastKey] /\ table \in SUBSET Paths /\ OneEach(table)
  /\ lost \in SUBSET Names /\ drift \in BOOLEAN /\ met \in BOOLEAN

\* The UNIQUE name.
NamedOnce == \A i, j \in Ids : doms[i] # None /\ doms[j] # None /\ doms[i].name = doms[j].name => i = j

Holder == tableMu \in Goroutines \cup {None} /\ \A p \in Goroutines : InTable(p) <=> tableMu = p

\* A file has been written since its key was read only with a later key.
CacheOk ==
  /\ cache \in [Paths -> SignKey \cup {None}]
  /\ \A w \in Paths : cache[w] # None =>
       /\ cache[w].stamp <= cache[w].key /\ cache[w].key <= lastKey
       /\ keys[w] = 0 \/ cache[w].key <= keys[w]

SesType == [at : {"idle", "table", "stat", "read", "body"}, login : Names \cup {None}, kept : Nat, given : Nat,
            want : Paths \cup {<<None, None>>}, stamp : Nat, signer : DKIMSigner \cup {None}, chunks : Nat,
            expired : BOOLEAN, signed : BOOLEAN]

SesOk ==
  /\ ses \in SesType /\ ses.kept = ses.given
  /\ ses.at # "idle" => ~ses.signed
  /\ ses.at # "body" => ses.chunks = 0
  /\ ses.at \in {"stat", "read", "body"} => ses.want \in Paths /\ ses.want[1] = ses.login
  /\ ses.at = "read" => ses.stamp \in 1 .. lastKey /\ (keys[ses.want] = 0 \/ ses.stamp <= keys[ses.want])
  /\ ses.at = "body" <=> ses.signer # None
  /\ ses.at = "body" => /\ ses.signer.path = ses.want
                        /\ ses.signer.head = ses.given /\ ses.signer.body = ses.chunks

SelTyped == OpsOk /\ IdsLeft /\ TablesOk /\ NamedOnce /\ Holder
SignTyped == CacheOk /\ SesOk

-----------------------------------------------------------------------------
(* What is still to come.                                                  *)

\* The row of the request still waits for its key, or for its removal.
HalfDone(o) == o.at \in {"stat", "gen", "key", "undo"} \/ (o.kind = "undo" /\ o.at \in {"get", "purge", "drop"})

\* The request is still to list the domains, or to leave drift behind.
Owes(o) == o.at = "list" \/ (o.id \in Ids /\ doms[o.id] # None /\ HalfDone(o))

TableInv ==
  \/ drift
  \/ \E p \in Goroutines : Owes(op[p])
  \/ tableMu = None /\ table = TableOf(ListDomains)
  \/ \E p \in Goroutines : InTable(p) /\ op[p].rows = TableOf(ListDomains)

KeyOf(row) == keys[<<row.name, row.sel>>]
Makes(o, i) == o.id = i /\ o.name = doms[i].name /\ o.sel = doms[i].sel /\ HalfDone(o)

KeyInv ==
  \A i \in Ids : doms[i] # None =>
    KeyOf(doms[i]) # 0 \/ doms[i].name \in lost \/ \E p \in Goroutines : Makes(op[p], i)

ServerKeyInv ==
  \/ drift \/ Server \in Registered \/ keys[<<Server, Default>>] # 0
  \/ \E p \in Goroutines : op[p].at \in {"list", "srvStat", "srvGen"}

-----------------------------------------------------------------------------
(* The moves of a request.                                                 *)

LEMMA OneInSingleton == \A x : Cardinality({x}) = 1
BY FS_Singleton

\* The calls of each kind of request.
LEMMA CallsOf ==
  /\ Calls("add") = {"row", "stat", "gen", "undo", "list", "srvStat", "srvGen", "write"}
  /\ Calls("import") = {"row", "key", "settings", "maps", "list", "srvStat", "srvGen", "write"}
  /\ Calls("delete") = {"get", "purge", "drop", "maps", "unkey", "list", "srvStat", "srvGen", "write"}
  /\ Calls("undo") = {"get", "purge", "drop", "maps", "unkey", "list", "srvStat", "srvGen", "write"}
  /\ Calls("reload") = {"keep", "dirs", "sweep", "list", "srvStat", "srvGen", "write"}
  /\ Calls("server") = {"stat", "gen"} /\ Calls("boot") = {"list", "srvStat", "srvGen", "write"}
  /\ Calls("none") = {"idle"}
BY DEF Calls, Rewriting, Deleting

\* Which requests make a call of this name.
LEMMA KindOf ==
  ASSUME NEW o, OpOk(o)
  PROVE  /\ o.at = "row" => o.kind \in {"add", "import"}
         /\ o.at \in {"stat", "gen"} => o.kind \in {"add", "server"}
         /\ o.at = "undo" => o.kind = "add"
         /\ o.at \in {"key", "settings"} => o.kind = "import"
         /\ o.at = "maps" => o.kind \in {"import", "delete", "undo"}
         /\ o.at \in {"get", "purge", "drop", "unkey"} => o.kind \in {"delete", "undo"}
         /\ o.at \in {"keep", "dirs", "sweep"} => o.kind = "reload"
         /\ o.at \in Rewriting => o.kind \in {"add", "import", "delete", "undo", "reload", "boot"}
         /\ o.kind \in OpKinds /\ (o.kind = "none" => o.at \in Ended)
<1> DEFINE k == o.kind  s == o.at
<1>0. k \in OpKinds /\ s \in Calls(k) \cup {"ok", "err"}
  BY DEF OpOk, OpType
<1> HIDE DEF k, s
<1>1. \/ k = "add" \/ k = "import" \/ k = "delete" \/ k = "undo" \/ k = "reload" \/ k = "server"
      \/ k = "boot" \/ k = "none"
  BY <1>0 DEF OpKinds
<1>2. /\ k = "add" => s \in {"row", "stat", "gen", "undo", "list", "srvStat", "srvGen", "write", "ok", "err"}
      /\ k = "import" => s \in {"row", "key", "settings", "maps", "list", "srvStat", "srvGen", "write", "ok", "err"}
      /\ k \in {"delete", "undo"} => s \in {"get", "purge", "drop", "maps", "unkey", "list", "srvStat", "srvGen",
                                            "write", "ok", "err"}
      /\ k = "reload" => s \in {"keep", "dirs", "sweep", "list", "srvStat", "srvGen", "write", "ok", "err"}
      /\ k = "server" => s \in {"stat", "gen", "ok", "err"}
      /\ k = "boot" => s \in {"list", "srvStat", "srvGen", "write", "ok", "err"}
      /\ k = "none" => s \in {"idle", "ok", "err"}
  BY <1>0, CallsOf
<1> QED BY <1>0, <1>1, <1>2 DEF k, s, Rewriting, Ended

\* Everything but its place is what it was.
SameBut(o, n) ==
  /\ n.kind = o.kind /\ n.id = o.id /\ n.name = o.name /\ n.sel = o.sel /\ n.rows = o.rows /\ n.names = o.names
  /\ n.bad = o.bad /\ n.rebuilt = o.rebuilt

OthersSame(p) == \A q \in Goroutines \ {p} : op'[q] = op[q]

LEMMA OpMoves ==
  ASSUME OpsOk, NEW p \in Goroutines, NEW n, OpOk(n), n.kind \in {"none", "boot"} \/ p # Boot,
         op' = [op EXCEPT ![p] = n]
  PROVE  OpsOk' /\ op'[p] = n /\ OthersSame(p)
<1>1. op' \in [Goroutines -> OpType] /\ \A q \in Goroutines : op'[q] = IF q = p THEN n ELSE op[q]
  BY DEF OpsOk, OpOk
<1>2. \A q \in Goroutines : OpOk(op'[q])
  BY <1>1 DEF OpsOk
<1>3. op'[Boot].kind \in {"none", "boot"}
  BY <1>1 DEF OpsOk, Goroutines
<1> QED BY <1>1, <1>2, <1>3 DEF OpsOk, OpOk, OthersSame

LEMMA GotoMoves ==
  ASSUME OpsOk, NEW p \in Goroutines, NEW s \in Calls(op[p].kind) \cup {"ok", "err"}, Goto(p, s),
         s \notin {"row", "dirs", "sweep"}, s = "unkey" => op[p].name # Server,
         op[p].at \notin Ended, op[p].at = "row" => s = "err"
  PROVE  OpsOk' /\ op'[p].at = s /\ SameBut(op[p], op'[p]) /\ OthersSame(p)
<1> DEFINE o == op[p]  n == [o EXCEPT !.at = s]
<1>1. OpOk(o) /\ o \in OpType /\ (o.kind \in {"none", "boot"} \/ p # Boot)
  BY DEF OpsOk
<1>2. s \in Places
  <2>1. o.kind \in OpKinds
    BY <1>1, KindOf
  <2> QED BY <2>1 DEF Calls, OpKinds, Places, Rewriting, Deleting
<1>3. op' = [op EXCEPT ![p] = n]
  BY DEF Goto, OpsOk
<1>4. n \in OpType /\ n.at = s /\ SameBut(o, n)
  BY <1>1, <1>2 DEF OpType, SameBut
<1> HIDE DEF n
<1>5. OpOk(n)
  BY <1>1, <1>4 DEF OpOk, SameBut, Ended
<1> QED BY <1>1, <1>3, <1>4, <1>5, OpMoves DEF SameBut

LEMMA AfterMapsIs ==
  ASSUME NEW p
  PROVE  AfterMaps(p) \in {"unkey", "ok", "err"} /\ (AfterMaps(p) = "unkey" => op[p].name # Server)
BY DEF AfterMaps, DeleteEnd

\* A call that fails takes its request to a rollback, or further on, or to its end.
LEMMA FailMoves ==
  ASSUME OpsOk, NEW p \in Goroutines, Failed(p), op[p].at \notin Ended
  PROVE  /\ OpsOk' /\ OthersSame(p) /\ op'[p].at \notin {"row", "srvStat", "srvGen", "write"}
         /\ op'[p].id = op[p].id /\ op'[p].name = op[p].name /\ op'[p].sel = op[p].sel
         /\ \/ ~HalfDone(op[p]) \/ op[p].id \notin Ids \/ HalfDone(op'[p]) \/ op[p].at = "undo"
            \/ op[p].kind = "undo" /\ op[p].at \in {"get", "purge", "drop"}
<1> DEFINE o == op[p]  n == WhenItFails(p)
<1>1. OpOk(o) /\ o \in OpType /\ (o.kind \in {"none", "boot"} \/ p # Boot)
  BY DEF OpsOk
<1>2. op' = [op EXCEPT ![p] = n]
  BY DEF Failed
<1>3. /\ n \in OpType /\ OpOk(n) /\ n.at \notin {"row", "srvStat", "srvGen", "write"}
      /\ n.id = o.id /\ n.name = o.name /\ n.sel = o.sel /\ (n.kind = o.kind \/ o.kind = "import")
      /\ ~HalfDone(o) \/ o.id \notin Ids \/ HalfDone(n) \/ o.at = "undo" \/ (o.kind = "undo" /\ o.at \in {"get", "purge", "drop"})
  <2>1. CASE o.kind = "boot"
    <3>1. n = [o EXCEPT !.at = "list"]
      BY <2>1 DEF WhenItFails
    <3>2. n \in OpType /\ n.at = "list" /\ SameBut(o, n)
      BY <1>1, <3>1 DEF OpType, Places, SameBut
    <3>3. ~HalfDone(o)
      BY <1>1, <2>1, CallsOf DEF OpOk, HalfDone
    <3> HIDE DEF n
    <3> QED BY <1>1, <2>1, <3>2, <3>3, CallsOf DEF OpOk, SameBut
  <2>2. CASE o.kind = "add" /\ o.at \notin {"row", "undo"}
    <3>1. n = [o EXCEPT !.at = "undo"]
      BY <2>2 DEF WhenItFails
    <3>2. n \in OpType /\ n.at = "undo" /\ SameBut(o, n)
      BY <1>1, <3>1 DEF OpType, Places, SameBut
    <3> HIDE DEF n
    <3> QED BY <1>1, <2>2, <3>2, CallsOf DEF OpOk, SameBut, HalfDone
  <2>3. CASE o.kind = "import" /\ o.at # "row"
    <3>1. n = [o EXCEPT !.kind = "undo", !.at = "get"]
      BY <2>3 DEF WhenItFails
    <3>2. /\ n \in OpType /\ n.at = "get" /\ n.kind = "undo" /\ n.id = o.id /\ n.name = o.name /\ n.sel = o.sel
          /\ n.rows = o.rows
      BY <1>1, <3>1 DEF OpType, OpKinds, Places
    <3> HIDE DEF n
    <3> QED BY <1>1, <2>3, <3>2, CallsOf DEF OpOk, HalfDone
  <2>4. CASE o.kind \in {"delete", "undo"} /\ o.at \in {"list", "srvStat", "srvGen", "write"}
    <3>1. n = [o EXCEPT !.at = "maps", !.bad = TRUE, !.rebuilt = FALSE]
      BY <2>4 DEF WhenItFails
    <3>2. /\ n \in OpType /\ n.at = "maps" /\ n.kind = o.kind /\ n.id = o.id /\ n.name = o.name /\ n.sel = o.sel
          /\ n.rows = o.rows
      BY <1>1, <3>1 DEF OpType, Places
    <3> HIDE DEF n
    <3> QED BY <1>1, <2>4, <3>2, CallsOf DEF OpOk, HalfDone, Ended
  <2>5. CASE o.kind \in {"delete", "undo"} /\ o.at = "maps"
    <3>1. n = [o EXCEPT !.at = AfterMaps(p), !.bad = TRUE]
      BY <2>5 DEF WhenItFails
    <3>2. AfterMaps(p) \in {"unkey", "ok", "err"} /\ (AfterMaps(p) = "unkey" => o.name # Server)
      BY AfterMapsIs
    <3>3. /\ n \in OpType /\ n.at = AfterMaps(p) /\ n.kind = o.kind /\ n.id = o.id /\ n.name = o.name /\ n.sel = o.sel
          /\ n.rows = o.rows
      BY <1>1, <3>1, <3>2 DEF OpType, Places
    <3> HIDE DEF n
    <3> QED BY <1>1, <2>5, <3>2, <3>3, CallsOf DEF OpOk, HalfDone, Ended
  <2>6. CASE /\ o.kind # "boot" /\ ~(o.kind = "add" /\ o.at \notin {"row", "undo"})
             /\ ~(o.kind = "import" /\ o.at # "row")
             /\ ~(o.kind \in {"delete", "undo"} /\ o.at \in {"list", "srvStat", "srvGen", "write", "maps"})
    <3>1. n = [o EXCEPT !.at = "err", !.bad = TRUE]
      BY <2>6 DEF WhenItFails
    <3>2. /\ n \in OpType /\ n.at = "err" /\ n.kind = o.kind /\ n.id = o.id /\ n.name = o.name /\ n.sel = o.sel
          /\ n.rows = o.rows
      BY <1>1, <3>1 DEF OpType, Places
    <3> HIDE DEF n
    <3>3. ~HalfDone(o) \/ o.id \notin Ids \/ o.at = "undo" \/ (o.kind = "undo" /\ o.at \in {"get", "purge", "drop"})
      <4>1. o.kind = "server" => o.id \notin Ids
        BY <1>1 DEF OpOk, Ids
      <4> QED BY <1>1, <2>6, <4>1, KindOf DEF HalfDone
    <3>4. OpOk(n)
      BY <1>1, <2>6, <3>2 DEF OpOk, Ended
    <3> QED BY <3>2, <3>3, <3>4
  <2> QED BY <2>1, <2>2, <2>3, <2>4, <2>5, <2>6
<1> HIDE DEF n
<1>4. n.kind \in {"none", "boot"} \/ p # Boot
  BY <1>1, <1>3
<1> QED BY <1>2, <1>3, <1>4, OpMoves

-----------------------------------------------------------------------------
(* What one request's move leaves as it was.                               *)

LEMMA HolderKept ==
  ASSUME Holder, NEW p \in Goroutines, OthersSame(p), tableMu' = tableMu, InTable(p)' <=> InTable(p)
  PROVE  Holder'
BY DEF Holder, OthersSame, InTable

LEMMA HolderLeft ==
  ASSUME Holder, NEW p \in Goroutines, OthersSame(p), InTable(p), tableMu' = None, ~InTable(p)'
  PROVE  Holder'
<1>1. None \notin Goroutines
  BY DomainConstants DEF Goroutines
<1> QED BY <1>1 DEF Holder, OthersSame, InTable

LEMMA HolderTaken ==
  ASSUME Holder, NEW p \in Goroutines, OthersSame(p), tableMu = None, tableMu' = p, InTable(p)'
  PROVE  Holder'
<1>1. None \notin Goroutines
  BY DomainConstants DEF Goroutines
<1> QED BY <1>1 DEF Holder, OthersSame, InTable

LEMMA AddingFinite == IsFiniteSet(Adding) /\ Cardinality(Adding) \in Nat
<1>1. IsFiniteSet(Reqs) /\ Adding \subseteq Reqs
  BY DomainConstants DEF Adding
<1>2. IsFiniteSet(Adding)
  BY <1>1, FS_Subset
<1> QED BY <1>2, FS_CardinalityType

LEMMA IdsKept ==
  ASSUME IdsLeft, NEW p \in Goroutines, OthersSame(p), op'[p].at # "row", lastId' = lastId, lastId \in Nat,
         \A i \in Ids : doms[i] = None => doms'[i] = None
  PROVE  IdsLeft'
<1>1. Adding' \subseteq Adding
  BY DEF Adding, OthersSame, Goroutines
<1>2. IsFiniteSet(Adding) /\ Cardinality(Adding) \in Nat
  BY AddingFinite
<1>3. IsFiniteSet(Adding') /\ Cardinality(Adding') <= Cardinality(Adding)
  BY <1>1, <1>2, FS_Subset
<1>4. Cardinality(Adding') \in Nat
  BY <1>3, FS_CardinalityType
<1>5. lastId + Cardinality(Adding') <= MaxDomains
  BY <1>2, <1>3, <1>4, DomainConstants DEF IdsLeft
<1>6. \A i \in Ids : i > lastId => doms'[i] = None
  BY DEF IdsLeft
<1> QED BY <1>5, <1>6 DEF IdsLeft

\* A move that lists nothing and leaves rows and table alone.
LEMMA TableKept ==
  ASSUME TableInv, NEW p \in Goroutines, OthersSame(p), UNCHANGED <<doms, table, tableMu>>,
         drift => drift', op'[p].rows = op[p].rows, InTable(p)' <=> InTable(p),
         Owes(op[p]) => drift' \/ Owes(op[p])'
  PROVE  TableInv'
<1>1. TableOf(ListDomains)' = TableOf(ListDomains)
  BY DEF TableOf, ListDomains
<1>2. \A q \in Goroutines \ {p} : op'[q] = op[q] /\ (Owes(op[q]) => Owes(op[q])') /\ (InTable(q) => InTable(q)')
  BY DEF OthersSame, Owes, HalfDone, InTable
<1>3. CASE drift
  BY <1>3 DEF TableInv
<1>4. ASSUME NEW q \in Goroutines, Owes(op[q]) PROVE TableInv'
  <2>1. CASE q = p
    BY <1>4, <2>1 DEF TableInv
  <2>2. CASE q # p
    BY <1>2, <1>4, <2>2 DEF TableInv
  <2> QED BY <2>1, <2>2
<1>5. CASE tableMu = None /\ table = TableOf(ListDomains)
  <2>1. (tableMu = None /\ table = TableOf(ListDomains))'
    BY <1>1, <1>5
  <2> QED BY <2>1 DEF TableInv
<1>6. ASSUME NEW q \in Goroutines, InTable(q), op[q].rows = TableOf(ListDomains) PROVE TableInv'
  <2>1. InTable(q)' /\ op'[q].rows = TableOf(ListDomains)'
    <3>1. CASE q = p
      BY <1>1, <1>6, <3>1
    <3>2. CASE q # p
      BY <1>1, <1>2, <1>6, <3>2
    <3> QED BY <3>1, <3>2
  <2> QED BY <2>1 DEF TableInv
<1> QED BY <1>3, <1>4, <1>5, <1>6 DEF TableInv

\* A move that takes no key of a registered name without saying so.
LEMMA KeyKept ==
  ASSUME KeyInv, NEW p \in Goroutines, OthersSame(p), lost \subseteq lost',
         \A i \in Ids : doms'[i] # None => doms'[i] = doms[i],
         \A i \in Ids : doms'[i] # None /\ KeyOf(doms[i]) # 0 => KeyOf(doms[i])' # 0 \/ doms[i].name \in lost',
         \A i \in Ids : doms'[i] # None /\ Makes(op[p], i) =>
            Makes(op[p], i)' \/ KeyOf(doms[i])' # 0 \/ doms[i].name \in lost'
  PROVE  KeyInv'
<1> SUFFICES ASSUME NEW i \in Ids, doms'[i] # None
             PROVE  KeyOf(doms[i])' # 0 \/ doms'[i].name \in lost' \/ \E q \in Goroutines : Makes(op[q], i)'
  BY DEF KeyInv
<1>1. doms'[i] = doms[i]
  OBVIOUS
<1>2. CASE KeyOf(doms[i]) # 0 \/ doms[i].name \in lost
  BY <1>1, <1>2
<1>3. ASSUME NEW q \in Goroutines, Makes(op[q], i)
      PROVE KeyOf(doms[i])' # 0 \/ doms'[i].name \in lost' \/ \E r \in Goroutines : Makes(op[r], i)'
  <2>1. CASE q = p
    BY <1>1, <1>3, <2>1
  <2>2. CASE q # p
    <3>1. op'[q] = op[q]
      BY <2>2 DEF OthersSame
    <3>2. Makes(op[q], i)'
      BY <1>1, <1>3, <3>1 DEF Makes, HalfDone
    <3> QED BY <3>2
  <2> QED BY <2>1, <2>2
<1> QED BY <1>1, <1>2, <1>3 DEF KeyInv

LEMMA ServerKeyKept ==
  ASSUME ServerKeyInv, NEW p \in Goroutines, OthersSame(p), drift => drift',
         Server \in Registered => drift' \/ Server \in Registered',
         keys[<<Server, Default>>] # 0 => keys'[<<Server, Default>>] # 0,
         op[p].at \in {"list", "srvStat", "srvGen"} =>
            \/ drift' \/ keys'[<<Server, Default>>] # 0 \/ op'[p].at \in {"list", "srvStat", "srvGen"}
            \/ Server \in Registered'
  PROVE  ServerKeyInv'
<1>1. ASSUME NEW q \in Goroutines, op[q].at \in {"list", "srvStat", "srvGen"} PROVE ServerKeyInv'
  <2>1. CASE q = p
    BY <1>1, <2>1 DEF ServerKeyInv
  <2>2. CASE q # p
    BY <1>1, <2>2 DEF ServerKeyInv, OthersSame
  <2> QED BY <2>1, <2>2
<1> QED BY <1>1 DEF ServerKeyInv

\* A file that is written gets a later key than any before it.
LEMMA SignKept ==
  ASSUME SignTyped, TablesOk, UNCHANGED sign, lastKey' \in Nat, lastKey <= lastKey',
         \A w \in Paths : keys'[w] \in Nat /\ (keys'[w] = keys[w] \/ keys'[w] = 0 \/ lastKey < keys'[w])
  PROVE  SignTyped'
<1>0. cache' = cache /\ ses' = ses /\ lastKey \in Nat /\ \A w \in Paths : keys[w] \in Nat
  BY DEF sign, TablesOk
<1>1. CacheOk'
  <2> SUFFICES ASSUME NEW w \in Paths, cache[w] # None
               PROVE  /\ cache[w].stamp <= cache[w].key /\ cache[w].key <= lastKey'
                      /\ keys'[w] = 0 \/ cache[w].key <= keys'[w]
    BY <1>0 DEF CacheOk, SignTyped
  <2>1. /\ cache[w].stamp <= cache[w].key /\ cache[w].key <= lastKey /\ cache[w].key \in Nat
        /\ keys[w] = 0 \/ cache[w].key <= keys[w]
    <3>1. cache[w] \in SignKey
      BY DEF CacheOk, SignTyped
    <3> QED BY <3>1 DEF CacheOk, SignTyped, SignKey
  <2>2. keys'[w] \in Nat /\ (keys'[w] = keys[w] \/ keys'[w] = 0 \/ lastKey < keys'[w])
    OBVIOUS
  <2> QED BY <1>0, <2>1, <2>2
<1>2. SesOk'
  <2>1. ses.at = "read" => ses.stamp \in 1 .. lastKey' /\ (keys'[ses.want] = 0 \/ ses.stamp <= keys'[ses.want])
    <3> SUFFICES ASSUME ses.at = "read"
                 PROVE  ses.stamp \in 1 .. lastKey' /\ (keys'[ses.want] = 0 \/ ses.stamp <= keys'[ses.want])
      OBVIOUS
    <3>1. ses.want \in Paths /\ ses.stamp \in 1 .. lastKey /\ (keys[ses.want] = 0 \/ ses.stamp <= keys[ses.want])
      BY DEF SesOk, SignTyped
    <3>2. keys'[ses.want] \in Nat /\ (keys'[ses.want] = keys[ses.want] \/ keys'[ses.want] = 0 \/ lastKey < keys'[ses.want])
      BY <3>1
    <3> QED BY <1>0, <3>1, <3>2
  <2> QED BY <1>0, <2>1 DEF SesOk, SignTyped
<1> QED BY <1>1, <1>2 DEF SignTyped

-----------------------------------------------------------------------------
(* The steps of a request that change no row, file or table.               *)

SelInv == SelTyped /\ SignTyped /\ TableInv /\ KeyInv /\ ServerKeyInv

LEMMA PlainMove ==
  ASSUME SelInv, NEW p \in Goroutines, OpsOk', OthersSame(p), Holder', UNCHANGED <<doms, lastId, files, sign>>,
         op'[p].at # "row", op'[p].id = op[p].id, op'[p].name = op[p].name, op'[p].sel = op[p].sel,
         apps' \in SUBSET Ids, drift' \in BOOLEAN, lost' \in SUBSET Names, met' \in BOOLEAN,
         drift => drift', lost \subseteq lost',
         drift' \/ (/\ tableMu' = tableMu /\ op'[p].rows = op[p].rows /\ (InTable(p)' <=> InTable(p))
                    /\ (Owes(op[p]) => Owes(op[p])')),
         \A i \in Ids : doms[i] # None /\ Makes(op[p], i) =>
            HalfDone(op'[p]) \/ KeyOf(doms[i]) # 0 \/ doms[i].name \in lost',
         op[p].at \in {"list", "srvStat", "srvGen"} =>
            drift' \/ keys[<<Server, Default>>] # 0 \/ op'[p].at \in {"list", "srvStat", "srvGen"}
  PROVE  SelInv'
<1>0. /\ doms' = doms /\ lastId' = lastId /\ keys' = keys /\ lastKey' = lastKey /\ table' = table
      /\ Registered' = Registered
  BY DEF files, Registered
<1>1. IdsLeft'
  BY <1>0, IdsKept DEF SelInv, SelTyped, TablesOk
<1>2. TablesOk' /\ NamedOnce'
  BY <1>0 DEF SelInv, SelTyped, TablesOk, NamedOnce
<1>3. SignTyped'
  BY <1>0, SignKept DEF SelInv, SelTyped, TablesOk
<1>4. TableInv'
  <2>1. CASE drift'
    BY <2>1 DEF TableInv
  <2>2. CASE ~drift'
    BY <1>0, <2>2, TableKept DEF SelInv
  <2> QED BY <2>1, <2>2
<1>5. KeyInv'
  <2>1. \A i \in Ids : KeyOf(doms[i])' = KeyOf(doms[i])
    BY <1>0 DEF KeyOf
  <2>2. ASSUME NEW i \in Ids, doms'[i] # None, Makes(op[p], i)
        PROVE  Makes(op[p], i)' \/ KeyOf(doms[i])' # 0 \/ doms[i].name \in lost'
    BY <1>0, <2>1, <2>2 DEF Makes
  <2> QED BY <1>0, <2>1, <2>2, KeyKept DEF SelInv
<1>6. ServerKeyInv'
  BY <1>0, ServerKeyKept DEF SelInv
<1> QED BY <1>1, <1>2, <1>3, <1>4, <1>5, <1>6 DEF SelInv, SelTyped

\* A request that goes on, with nothing else changed.
LEMMA PlainGoto ==
  ASSUME SelInv, NEW p \in Goroutines, NEW s \in Calls(op[p].kind) \cup {"ok", "err"}, Goto(p, s),
         UNCHANGED <<doms, lastId, files, tableMu, drift, lost, sign, met>>, apps' \in SUBSET Ids,
         s \notin {"row", "dirs", "sweep", "srvStat"}, s = "unkey" => op[p].name # Server,
         s \in {"srvGen", "write"} => op[p].at = "srvStat",
         op[p].at \notin Ended \cup {"row", "list", "srvGen", "write", "undo", "gen"},
         op[p].at = "srvStat" => s = "srvGen" \/ (s = "write" /\ keys[<<Server, Default>>] # 0),
         op[p].at \in {"stat", "key"} => 
            s = "gen" \/ (s = "list" /\ keys[<<op[p].name, op[p].sel>>] # 0) \/ op[p].id \notin Ids,
         op[p].at \in {"get", "purge"} => s \in {"purge", "drop"} \/ doms[op[p].id] = None \/ op[p].kind # "undo",
         op[p].at = "drop" => op[p].kind # "undo"
  PROVE  SelInv'
<1>1. OpsOk /\ Holder /\ TablesOk
  BY DEF SelInv, SelTyped
<1>2. OpsOk' /\ op'[p].at = s /\ SameBut(op[p], op'[p]) /\ OthersSame(p)
  BY <1>1, GotoMoves
<1>3. InTable(p)' <=> InTable(p)
  BY <1>2 DEF InTable, Ended
<1>4. Holder'
  BY <1>1, <1>2, <1>3, HolderKept
<1>5. Owes(op[p]) => Owes(op[p])'
  BY <1>2 DEF Owes, HalfDone, SameBut
<1>6. ASSUME NEW i \in Ids, doms[i] # None, Makes(op[p], i) PROVE HalfDone(op'[p]) \/ KeyOf(doms[i]) # 0
  BY <1>2, <1>6 DEF Makes, HalfDone, SameBut, KeyOf
<1>7. op[p].at \in {"list", "srvStat", "srvGen"} =>
        keys[<<Server, Default>>] # 0 \/ op'[p].at \in {"list", "srvStat", "srvGen"}
  BY <1>2
<1> QED BY <1>1, <1>2, <1>3, <1>4, <1>5, <1>6, <1>7, PlainMove DEF SameBut, TablesOk

\* A request whose own condition is not met: nothing but its place changes.
LEMMA PlainFailed ==
  ASSUME SelInv, NEW p \in Goroutines, Failed(p), UNCHANGED <<registry, files, tableMu, drift, lost, sign, met>>,
         op[p].at \notin Ended, ~HalfDone(op[p]) \/ (op[p].kind = "undo" /\ doms[op[p].id] = None),
         op[p].at \notin Rewriting
  PROVE  SelInv'
<1>1. OpsOk /\ Holder /\ TablesOk
  BY DEF SelInv, SelTyped
<1>2. /\ OpsOk' /\ OthersSame(p) /\ op'[p].at \notin {"row", "srvStat", "srvGen", "write"}
      /\ op'[p].id = op[p].id /\ op'[p].name = op[p].name /\ op'[p].sel = op[p].sel
  BY <1>1, FailMoves
<1>3. op'[p].rows = op[p].rows
  <2>1. op[p] \in OpType /\ op' = [op EXCEPT ![p] = WhenItFails(p)] /\ op[p].kind # "boot"
    <3>1. OpOk(op[p])
      BY <1>1 DEF OpsOk
    <3>2. op[p].kind # "boot"
      BY <3>1, CallsOf DEF OpOk, Rewriting, Ended
    <3> QED BY <1>1, <3>2 DEF OpsOk, Failed
  <2>2. op'[p] = WhenItFails(p)
    BY <1>1, <2>1 DEF OpsOk
  <2> QED BY <2>1, <2>2 DEF WhenItFails, OpType
<1>4. (InTable(p)' <=> InTable(p)) /\ doms' = doms /\ lastId' = lastId /\ apps' = apps
  BY <1>2 DEF InTable, Rewriting, registry
<1>5. Holder'
  BY <1>1, <1>2, <1>4, HolderKept
<1>6. ~Owes(op[p])
  BY DEF Owes, Rewriting, HalfDone
<1>7. \A i \in Ids : doms[i] # None => ~Makes(op[p], i)
  BY DEF Makes, HalfDone
<1>8. op[p].at \notin {"list", "srvStat", "srvGen"}
  BY DEF Rewriting
<1> QED BY <1>1, <1>2, <1>3, <1>4, <1>5, <1>6, <1>7, <1>8, PlainMove DEF TablesOk

-----------------------------------------------------------------------------
(* A request's steps.                                                      *)

\* What SelInv says of one request.
LEMMA OpIs ==
  ASSUME SelInv, NEW p \in Goroutines
  PROVE  /\ OpOk(op[p]) /\ op[p] \in OpType /\ (op[p].kind \in {"none", "boot"} \/ p # Boot)
         /\ OpsOk /\ Holder /\ TablesOk
BY DEF SelInv, SelTyped, OpsOk

LEMMA GetKeeps ==
  ASSUME SelInv, NEW p \in Goroutines, GetDomain(p) PROVE SelInv'
<1>1. op[p].at = "get" /\ OpOk(op[p]) /\ TablesOk /\ op[p].kind \in {"delete", "undo"}
  BY OpIs, KindOf DEF GetDomain, At
<1>2. UNCHANGED <<registry, files, tableMu, drift, lost, sign, met>>
  BY DEF GetDomain, Unchanged
<1>3. CASE doms[op[p].id] = None
  <2>1. Failed(p)
    BY <1>3 DEF GetDomain
  <2> QED BY <1>1, <1>2, <1>3, <2>1, PlainFailed DEF Ended, HalfDone, Rewriting
<1>4. CASE doms[op[p].id] # None
  <2>1. Goto(p, "purge")
    BY <1>4 DEF GetDomain
  <2>2. "purge" \in Calls(op[p].kind)
    BY <1>1, CallsOf
  <2>3. doms' = doms /\ lastId' = lastId /\ apps' \in SUBSET Ids
    BY <1>1, <1>2 DEF registry, TablesOk
  <2> QED BY <1>1, <1>2, <2>1, <2>2, <2>3, PlainGoto DEF Ended
<1> QED BY <1>3, <1>4

LEMMA PurgeKeeps ==
  ASSUME SelInv, NEW p \in Goroutines, PurgeApplications(p) PROVE SelInv'
<1>1. op[p].at = "purge" /\ OpOk(op[p]) /\ TablesOk /\ op[p].kind \in {"delete", "undo"}
  BY OpIs, KindOf DEF PurgeApplications, At
<1>2. "drop" \in Calls(op[p].kind) /\ Goto(p, "drop")
  BY <1>1, CallsOf DEF PurgeApplications
<1>3. UNCHANGED <<doms, lastId, files, tableMu, drift, lost, sign, met>> /\ apps' \in SUBSET Ids
  BY <1>1 DEF PurgeApplications, Unchanged, TablesOk
<1> QED BY <1>1, <1>2, <1>3, PlainGoto DEF Ended

LEMMA SettingsKeep ==
  ASSUME SelInv, NEW p \in Goroutines, ImportSettings(p) PROVE SelInv'
<1>1. op[p].at = "settings" /\ OpOk(op[p]) /\ TablesOk /\ op[p].kind = "import" /\ op[p].id \in Ids
  BY OpIs, KindOf DEF ImportSettings, At, OpOk, Ended
<1>2. UNCHANGED <<doms, lastId, files, tableMu, drift, lost, sign, met>>
  BY DEF ImportSettings, Unchanged
<1>3. CASE Failed(p) /\ UNCHANGED apps
  <2>1. registry' = registry
    BY <1>2, <1>3 DEF registry
  <2> QED BY <1>1, <1>2, <1>3, <2>1, PlainFailed DEF Ended, HalfDone, Rewriting
<1>4. CASE Goto(p, "maps") /\ apps' \in SUBSET Ids
  <2>1. "maps" \in Calls(op[p].kind)
    BY <1>1, CallsOf
  <2> QED BY <1>1, <1>2, <1>4, <2>1, PlainGoto DEF Ended
<1>5. \/ Failed(p) /\ UNCHANGED apps
      \/ Goto(p, "maps") /\ apps' \in SUBSET Ids
  BY <1>1 DEF ImportSettings, TablesOk
<1> QED BY <1>3, <1>4, <1>5

LEMMA KeyStatKeeps ==
  ASSUME SelInv, NEW p \in Goroutines, EnsureKeyStat(p) PROVE SelInv'
<1>1. /\ op[p].at \in {"stat", "srvStat"} /\ OpOk(op[p]) /\ TablesOk
      /\ op[p].at = "stat" => op[p].kind \in {"add", "server"}
  BY OpIs, KindOf DEF EnsureKeyStat
<1>2. UNCHANGED <<doms, lastId, files, tableMu, drift, lost, sign, met>> /\ apps' \in SUBSET Ids
  BY <1>1 DEF EnsureKeyStat, Unchanged, TablesOk, registry
<1>3. CASE op[p].at = "srvStat"
  <2>1. KeyPath(p) = <<Server, Default>> /\ AfterKey(p) = "write"
    BY <1>3 DEF KeyPath, AfterKey, InTable
  <2>2. {"srvGen", "write"} \subseteq Calls(op[p].kind)
    BY <1>1, <1>3, KindOf, CallsOf DEF Rewriting
  <2>3. CASE Goto(p, "write") /\ keys[<<Server, Default>>] # 0
    BY <1>2, <1>3, <2>2, <2>3, PlainGoto DEF Ended
  <2>4. CASE Goto(p, "srvGen")
    BY <1>2, <1>3, <2>2, <2>4, PlainGoto DEF Ended
  <2>5. At(p, "stat") = FALSE
    BY <1>3 DEF At
  <2> QED BY <2>1, <2>3, <2>4, <2>5 DEF EnsureKeyStat
<1>4. CASE op[p].at = "stat"
  <2>1. KeyPath(p) = <<op[p].name, op[p].sel>> /\ AfterKey(p) = IF op[p].kind = "add" THEN "list" ELSE "ok"
    BY <1>4 DEF KeyPath, AfterKey, InTable
  <2>2. op[p].kind = "server" => op[p].id \notin Ids
    BY <1>1 DEF OpOk, Ids
  <2>3. "gen" \in Calls(op[p].kind) /\ (op[p].kind = "add" => "list" \in Calls(op[p].kind))
    BY <1>1, <1>4, CallsOf
  <2>4. CASE keys[KeyPath(p)] # 0
    <3>1. Goto(p, IF op[p].kind = "add" THEN "list" ELSE "ok")
      BY <2>1, <2>4 DEF EnsureKeyStat
    <3>2. CASE op[p].kind = "add"
      <4>1. Goto(p, "list") /\ keys[<<op[p].name, op[p].sel>>] # 0
        BY <2>1, <2>4, <3>1, <3>2
      <4> QED BY <1>2, <1>4, <2>3, <3>2, <4>1, PlainGoto DEF Ended
    <3>3. CASE op[p].kind # "add"
      <4>1. Goto(p, "ok") /\ op[p].id \notin Ids
        BY <1>1, <1>4, <2>2, <3>1, <3>3
      <4> QED BY <1>2, <1>4, <4>1, PlainGoto DEF Ended
    <3> QED BY <3>2, <3>3
  <2>5. CASE keys[KeyPath(p)] = 0
    <3>1. Goto(p, "gen")
      BY <1>4, <2>5 DEF EnsureKeyStat, At
    <3> QED BY <1>2, <1>4, <2>3, <3>1, PlainGoto DEF Ended
  <2> QED BY <2>4, <2>5
<1> QED BY <1>1, <1>3, <1>4

LEMMA MapsKeep ==
  ASSUME SelInv, NEW p \in Goroutines, ResyncMaps(p) PROVE SelInv'
<1>1. op[p].at = "maps" /\ OpOk(op[p]) /\ TablesOk /\ op[p].kind \in {"import", "delete", "undo"}
  BY OpIs, KindOf DEF ResyncMaps, At
<1>2. UNCHANGED <<doms, lastId, files, tableMu, drift, lost, sign, met>> /\ apps' \in SUBSET Ids
  BY <1>1 DEF ResyncMaps, Unchanged, TablesOk, registry
<1> DEFINE s == IF op[p].kind = "import" THEN "ok" ELSE AfterMaps(p)
<1>3. Goto(p, s)
  BY DEF ResyncMaps
<1>4. s \in {"unkey", "ok", "err"} /\ s \in Calls(op[p].kind) \cup {"ok", "err"} /\ (s = "unkey" => op[p].name # Server)
  BY <1>1, AfterMapsIs, CallsOf
<1> HIDE DEF s
<1> QED BY <1>1, <1>2, <1>3, <1>4, PlainGoto DEF Ended

LEMMA NamesKeep ==
  ASSUME SelInv, NEW p \in Goroutines, KeepNames(p) \/ KeyDomains(p) PROVE SelInv'
<1> DEFINE t == IF op[p].at = "keep" THEN "dirs" ELSE "sweep"
           ns == IF op[p].at = "keep" THEN Registered \cup {Server}
                 ELSE {w[1] : w \in {v \in Paths : keys[v] # 0}} \ op[p].names
           n == [op[p] EXCEPT !.at = t, !.names = ns]
<1>1. /\ op[p].at \in {"keep", "dirs"} /\ OpOk(op[p]) /\ op[p] \in OpType /\ op[p].kind = "reload" /\ TablesOk /\ Holder
      /\ OpsOk /\ p # Boot
  BY OpIs, KindOf DEF KeepNames, KeyDomains, At
<1>2. UNCHANGED <<registry, files, tableMu, drift, lost, sign, met>>
  BY DEF KeepNames, KeyDomains, Unchanged
<1>3. op' = [op EXCEPT ![p] = n]
  BY <1>1 DEF KeepNames, KeyDomains, At, OpsOk
<1>4. ns \in SUBSET Names /\ (t = "dirs" => Server \in ns) /\ (t = "sweep" => Server \notin ns)
  <2>1. Registered \subseteq Names /\ Server \in Names
    BY <1>1, DomainConstants DEF Registered, TablesOk, Domain
  <2>2. op[p].at = "dirs" => Server \in op[p].names
    BY <1>1 DEF OpOk
  <2>3. {w[1] : w \in {v \in Paths : keys[v] # 0}} \subseteq Names
    BY DEF Paths
  <2> QED BY <1>1, <2>1, <2>2, <2>3
<1>5. t \in {"dirs", "sweep"}
  OBVIOUS
<1> HIDE DEF t, ns
<1>6. /\ n \in OpType /\ n.at = t /\ n.names = ns /\ n.kind = op[p].kind /\ n.id = op[p].id /\ n.name = op[p].name
      /\ n.sel = op[p].sel /\ n.rows = op[p].rows
  BY <1>1, <1>4, <1>5 DEF OpType, Places
<1> HIDE DEF n
<1>7. OpOk(n)
  BY <1>1, <1>4, <1>5, <1>6, CallsOf DEF OpOk, Ended
<1>8. OpsOk' /\ op'[p] = n /\ OthersSame(p)
  BY <1>1, <1>3, <1>7, OpMoves
<1>9. (InTable(p)' <=> InTable(p)) /\ op'[p].at # "row"
  BY <1>1, <1>5, <1>6, <1>8 DEF InTable
<1>10. Holder'
  BY <1>1, <1>2, <1>8, <1>9, HolderKept
<1>11. ~Owes(op[p]) /\ (\A i \in Ids : ~Makes(op[p], i)) /\ op[p].at \notin {"list", "srvStat", "srvGen"}
  BY <1>1 DEF Owes, HalfDone, Makes
<1>12. doms' = doms /\ lastId' = lastId /\ apps' = apps
  BY <1>2 DEF registry
<1> QED BY <1>1, <1>2, <1>6, <1>8, <1>9, <1>10, <1>11, <1>12, PlainMove DEF TablesOk

LEMMA CallFailsKeeps ==
  ASSUME SelInv, NEW p \in Goroutines, CallFails(p) PROVE SelInv'
<1>1. op[p].at \notin Ended /\ OpOk(op[p]) /\ op[p] \in OpType /\ OpsOk /\ Holder /\ TablesOk /\ Failed(p)
  BY OpIs DEF CallFails
<1>2. /\ UNCHANGED <<registry, files, sign, met>> /\ tableMu' = IF InTable(p) THEN None ELSE tableMu
      /\ drift' = (drift \/ InTable(p) \/ At(p, "list") \/ RowStays(p))
      /\ lost' = IF RowStays(p) /\ keys[<<op[p].name, op[p].sel>>] = 0 THEN lost \cup {op[p].name} ELSE lost
  BY DEF CallFails
<1>3. /\ OpsOk' /\ OthersSame(p) /\ op'[p].at \notin {"row", "srvStat", "srvGen", "write"}
      /\ op'[p].id = op[p].id /\ op'[p].name = op[p].name /\ op'[p].sel = op[p].sel
      /\ \/ ~HalfDone(op[p]) \/ op[p].id \notin Ids \/ HalfDone(op'[p]) \/ op[p].at = "undo"
         \/ op[p].kind = "undo" /\ op[p].at \in {"get", "purge", "drop"}
  BY <1>1, FailMoves
<1>4. ~InTable(p)' /\ doms' = doms /\ lastId' = lastId /\ apps' = apps
  BY <1>2, <1>3 DEF InTable, registry
<1>5. Holder'
  <2>1. CASE InTable(p)
    BY <1>1, <1>2, <1>3, <1>4, <2>1, HolderLeft
  <2>2. CASE ~InTable(p)
    BY <1>1, <1>2, <1>3, <1>4, <2>2, HolderKept
  <2> QED BY <2>1, <2>2
<1>6. drift' \in BOOLEAN /\ (drift => drift') /\ lost \subseteq lost' /\ lost' \in SUBSET Names
  <2>1. RowStays(p) => op[p].name \in Names
    BY <1>1, KindOf DEF RowStays, At, OpOk
  <2>2. drift \in BOOLEAN /\ lost \in SUBSET Names
    BY <1>1 DEF TablesOk
  <2>3. (InTable(p) \in BOOLEAN) /\ (At(p, "list") \in BOOLEAN) /\ (RowStays(p) \in BOOLEAN)
    BY DEF InTable, At, RowStays
  <2> QED BY <1>2, <2>1, <2>2, <2>3
<1>7. drift' \/ (/\ tableMu' = tableMu /\ op'[p].rows = op[p].rows /\ (InTable(p)' <=> InTable(p))
                 /\ (Owes(op[p]) => Owes(op[p])'))
  <2> SUFFICES ASSUME ~drift'
               PROVE  /\ tableMu' = tableMu /\ op'[p].rows = op[p].rows /\ (InTable(p)' <=> InTable(p))
                      /\ (Owes(op[p]) => Owes(op[p])')
    OBVIOUS
  <2>1. ~InTable(p) /\ op[p].at # "list" /\ ~RowStays(p) /\ tableMu' = tableMu
    BY <1>2 DEF At
  <2>2. Owes(op[p]) => Owes(op[p])'
    BY <1>3, <1>4, <2>1 DEF Owes, RowStays, At, HalfDone
  <2>3. op'[p].rows = op[p].rows
    <3>1. op'[p] = WhenItFails(p)
      BY <1>1 DEF Failed, OpsOk
    <3> QED BY <1>1, <2>1, <3>1 DEF WhenItFails, OpType, InTable
  <2> QED BY <1>4, <2>1, <2>2, <2>3
<1>8. ASSUME NEW i \in Ids, doms[i] # None, Makes(op[p], i)
      PROVE  HalfDone(op'[p]) \/ KeyOf(doms[i]) # 0 \/ doms[i].name \in lost'
  BY <1>2, <1>3, <1>8 DEF Makes, RowStays, At, KeyOf
<1>9. op[p].at \in {"list", "srvStat", "srvGen"} => drift'
  BY <1>2 DEF At, InTable
<1> QED BY <1>1, <1>2, <1>3, <1>4, <1>5, <1>6, <1>7, <1>8, <1>9, PlainMove DEF TablesOk

-----------------------------------------------------------------------------
(* The steps that write and remove key files.                              *)

LEMMA KeyMove ==
  ASSUME SelInv, NEW p \in Goroutines, OpsOk', OthersSame(p), Holder',
         UNCHANGED <<registry, table, tableMu, drift, sign, met>>,
         op'[p].at # "row", op'[p].id = op[p].id, op'[p].name = op[p].name, op'[p].sel = op[p].sel,
         op'[p].rows = op[p].rows, InTable(p)' <=> InTable(p), Owes(op[p]) => Owes(op[p])',
         lastKey' \in Nat, lastKey <= lastKey', keys' \in [Paths -> 0 .. lastKey'],
         \A w \in Paths : keys'[w] = keys[w] \/ keys'[w] = 0 \/ lastKey < keys'[w],
         lost \subseteq lost', lost' \in SUBSET Names,
         \A w \in Paths : keys'[w] = 0 => keys[w] = 0 \/ (w[1] # Server /\ (w[1] \in lost' \/ w[1] \notin Registered)),
         \A i \in Ids : doms[i] # None /\ Makes(op[p], i) => HalfDone(op'[p]) \/ KeyOf(doms[i])' # 0,
         op[p].at \in {"list", "srvStat", "srvGen"} => keys'[<<Server, Default>>] # 0
  PROVE  SelInv'
<1>0. doms' = doms /\ lastId' = lastId /\ apps' = apps /\ Registered' = Registered
  BY DEF registry, Registered
<1>1. IdsLeft'
  BY <1>0, IdsKept DEF SelInv, SelTyped, TablesOk
<1>2. TablesOk' /\ NamedOnce'
  BY <1>0 DEF SelInv, SelTyped, TablesOk, NamedOnce
<1>3. SignTyped'
  <2>1. TablesOk /\ SignTyped
    BY DEF SelInv, SelTyped
  <2>2. \A w \in Paths : keys'[w] \in Nat
    OBVIOUS
  <2> QED BY <2>1, <2>2, SignKept
<1>4. TableInv'
  BY <1>0, TableKept DEF SelInv
<1>5. KeyInv'
  <2>1. ASSUME NEW i \in Ids, doms[i] # None, KeyOf(doms[i]) # 0 PROVE KeyOf(doms[i])' # 0 \/ doms[i].name \in lost'
    <3>1. doms[i] \in Domain
      BY <2>1 DEF SelInv, SelTyped, TablesOk
    <3>2. <<doms[i].name, doms[i].sel>> \in Paths
      BY <3>1 DEF Domain, Paths
    <3>3. doms[i].name \in Registered
      BY <2>1 DEF Registered
    <3> QED BY <1>0, <2>1, <3>2, <3>3 DEF KeyOf
  <2>2. ASSUME NEW i \in Ids, doms'[i] # None, Makes(op[p], i)
        PROVE  Makes(op[p], i)' \/ KeyOf(doms[i])' # 0 \/ doms[i].name \in lost'
    BY <1>0, <2>2 DEF Makes
  <2> QED BY <1>0, <2>1, <2>2, KeyKept DEF SelInv
<1>6. ServerKeyInv'
  <2>1. <<Server, Default>> \in Paths
    BY DomainConstants DEF Paths
  <2>2. keys[<<Server, Default>>] # 0 => keys'[<<Server, Default>>] # 0
    BY <2>1
  <2> QED BY <1>0, <2>2, ServerKeyKept DEF SelInv
<1> QED BY <1>1, <1>2, <1>3, <1>4, <1>5, <1>6 DEF SelInv, SelTyped

\* A key is written: where a file was, a later one is.
LEMMA WriteKeyMove ==
  ASSUME SelInv, NEW p \in Goroutines, op[p].at \in {"gen", "srvGen", "key"}, NEW w \in Paths, WriteKey(w),
         op[p].at \in {"gen", "key"} => w = <<op[p].name, op[p].sel>>,
         op[p].at = "srvGen" => w = <<Server, Default>>,
         NEW s \in Calls(op[p].kind) \cup {"ok", "err"}, Goto(p, s),
         op[p].at = "srvGen" => s = "write", op[p].at \in {"gen", "key"} => s = "list" \/ (s = "ok" /\ op[p].id \notin Ids),
         UNCHANGED <<registry, table, tableMu, drift, lost, sign, met>>
  PROVE  SelInv'
<1>1. OpsOk /\ Holder /\ TablesOk
  BY OpIs
<1>2. OpsOk' /\ op'[p].at = s /\ SameBut(op[p], op'[p]) /\ OthersSame(p)
  BY <1>1, GotoMoves DEF Ended
<1>3. InTable(p)' <=> InTable(p)
  BY <1>2 DEF InTable
<1>4. Holder'
  BY <1>1, <1>2, <1>3, HolderKept
<1>5. /\ lastKey' = lastKey + 1 /\ lastKey \in Nat /\ keys' \in [Paths -> 0 .. lastKey'] /\ keys'[w] = lastKey'
      /\ \A v \in Paths : v # w => keys'[v] = keys[v]
  <2>1. lastKey' = lastKey + 1 /\ lastKey \in Nat /\ keys' = [keys EXCEPT ![w] = lastKey'] /\ keys \in [Paths -> 0 .. lastKey]
    BY <1>1 DEF WriteKey, TablesOk
  <2>2. keys' \in [Paths -> 0 .. lastKey']
    BY <2>1
  <2> QED BY <2>1, <2>2
<1>6. Owes(op[p]) => Owes(op[p])'
  BY <1>2 DEF Owes, HalfDone, SameBut
<1>7. ASSUME NEW i \in Ids, doms[i] # None, Makes(op[p], i) PROVE KeyOf(doms[i])' # 0
  <2>1. doms' = doms /\ op[p].at \in {"gen", "key"}
    BY <1>7 DEF Makes, HalfDone, registry
  <2>2. w = <<doms[i].name, doms[i].sel>>
    BY <1>7, <2>1 DEF Makes
  <2> QED BY <1>5, <2>1, <2>2 DEF KeyOf
<1>8. op[p].at \in {"list", "srvStat", "srvGen"} => keys'[<<Server, Default>>] # 0
  BY <1>5
<1>9. \A v \in Paths : (keys'[v] = keys[v] \/ keys'[v] = 0 \/ lastKey < keys'[v]) /\ (keys'[v] = 0 => keys[v] = 0)
  BY <1>5
<1>10. lost' = lost /\ lost' \in SUBSET Names /\ lastKey' \in Nat /\ lastKey <= lastKey' /\ op'[p].at # "row"
  BY <1>1, <1>2, <1>5 DEF TablesOk
<1> QED BY <1>2, <1>3, <1>4, <1>5, <1>6, <1>7, <1>8, <1>9, <1>10, KeyMove DEF SameBut

LEMMA KeyWriteKeeps ==
  ASSUME SelInv, NEW p \in Goroutines, EnsureKeyWrite(p) PROVE SelInv'
<1>1. op[p].at \in {"gen", "srvGen"} /\ OpOk(op[p])
  BY OpIs DEF EnsureKeyWrite
<1>2. WriteKey(KeyPath(p)) /\ Goto(p, AfterKey(p)) /\ UNCHANGED <<registry, table, tableMu, drift, lost, sign, met>>
  BY DEF EnsureKeyWrite, Unchanged
<1>3. CASE op[p].at = "srvGen"
  <2>1. KeyPath(p) = <<Server, Default>> /\ AfterKey(p) = "write"
    BY <1>3 DEF KeyPath, AfterKey, InTable
  <2>2. "write" \in Calls(op[p].kind)
    BY <1>1, <1>3, KindOf, CallsOf DEF Rewriting
  <2>3. <<Server, Default>> \in Paths
    BY DomainConstants DEF Paths
  <2> QED BY <1>2, <1>3, <2>1, <2>2, <2>3, WriteKeyMove
<1>4. CASE op[p].at = "gen"
  <2>1. KeyPath(p) = <<op[p].name, op[p].sel>> /\ AfterKey(p) = IF op[p].kind = "add" THEN "list" ELSE "ok"
    BY <1>4 DEF KeyPath, AfterKey, InTable
  <2>2. op[p].kind \in {"add", "server"} /\ op[p].name \in Names /\ op[p].sel \in Selectors
    BY <1>1, <1>4, KindOf DEF OpOk
  <2>3. <<op[p].name, op[p].sel>> \in Paths
    BY <2>2 DEF Paths
  <2>4. CASE op[p].kind = "add"
    <3>1. "list" \in Calls(op[p].kind) /\ AfterKey(p) = "list"
      BY <2>1, <2>4, CallsOf
    <3> QED BY <1>2, <1>4, <2>1, <2>3, <3>1, WriteKeyMove
  <2>5. CASE op[p].kind = "server"
    <3>1. op[p].id \notin Ids /\ AfterKey(p) = "ok"
      BY <1>1, <2>1, <2>5 DEF OpOk, Ids
    <3> QED BY <1>2, <1>4, <2>1, <2>3, <3>1, WriteKeyMove
  <2> QED BY <2>2, <2>4, <2>5
<1> QED BY <1>1, <1>3, <1>4

LEMMA ImportKeyKeeps ==
  ASSUME SelInv, NEW p \in Goroutines, ImportKey(p) PROVE SelInv'
<1>1. op[p].at = "key" /\ OpOk(op[p]) /\ op[p].kind = "import"
  BY OpIs, KindOf DEF ImportKey, At
<1>2. KeyPath(p) = <<op[p].name, op[p].sel>>
  BY <1>1 DEF KeyPath
<1>3. <<op[p].name, op[p].sel>> \in Paths
  BY <1>1 DEF Paths, OpOk
<1>4. WriteKey(KeyPath(p)) /\ Goto(p, "list") /\ UNCHANGED <<registry, table, tableMu, drift, lost, sign, met>>
  BY DEF ImportKey, Unchanged
<1>5. "list" \in Calls(op[p].kind)
  BY <1>1, CallsOf
<1> QED BY <1>1, <1>2, <1>3, <1>4, <1>5, WriteKeyMove

\* A name's keys are removed, by a request whose row is not waiting for one.
LEMMA RemoveKeyMove ==
  ASSUME SelInv, NEW p \in Goroutines, NEW n \in Names, n # Server, RemoveKey(n), OpsOk', OthersSame(p),
         UNCHANGED <<registry, tableMu, drift, sign, met>>,
         op[p].at \in {"unkey", "sweep"}, op'[p].at \in {"sweep", "ok", "err"},
         op'[p].id = op[p].id, op'[p].name = op[p].name, op'[p].sel = op[p].sel, op'[p].rows = op[p].rows
  PROVE  SelInv'
<1>1. OpsOk /\ Holder /\ TablesOk
  BY OpIs
<1>2. InTable(p)' <=> InTable(p)
  BY DEF InTable
<1>3. Holder'
  BY <1>1, <1>2, HolderKept
<1>4. /\ lastKey' = lastKey /\ table' = table /\ keys' = [w \in Paths |-> IF w[1] = n THEN 0 ELSE keys[w]]
      /\ lost' = IF n \in Registered THEN lost \cup {n} ELSE lost
  BY DEF RemoveKey
<1>5. lastKey \in Nat /\ keys \in [Paths -> 0 .. lastKey] /\ lost \in SUBSET Names
  BY <1>1 DEF TablesOk
<1>6. keys' \in [Paths -> 0 .. lastKey'] /\ lost \subseteq lost' /\ lost' \in SUBSET Names
  BY <1>4, <1>5
<1>7. \A w \in Paths : keys'[w] = keys[w] \/ (keys'[w] = 0 /\ w[1] = n)
  BY <1>4
<1>8. \A w \in Paths : keys'[w] = 0 => keys[w] = 0 \/ (w[1] # Server /\ (w[1] \in lost' \/ w[1] \notin Registered))
  BY <1>4, <1>7
<1>9. ~Owes(op[p]) /\ (\A i \in Ids : ~Makes(op[p], i)) /\ op[p].at \notin {"list", "srvStat", "srvGen"}
      /\ op'[p].at # "row"
  BY DEF Owes, HalfDone, Makes
<1> QED BY <1>2, <1>3, <1>4, <1>5, <1>6, <1>7, <1>8, <1>9, KeyMove

LEMMA UnkeyKeeps ==
  ASSUME SelInv, NEW p \in Goroutines, RemoveDeletedKey(p) PROVE SelInv'
<1>1. op[p].at = "unkey" /\ OpOk(op[p]) /\ OpsOk /\ op[p].kind \in {"delete", "undo"}
  BY OpIs, KindOf DEF RemoveDeletedKey, At
<1>2. op[p].name \in Names /\ op[p].name # Server
  BY <1>1 DEF OpOk
<1>3. DeleteEnd(p) \in {"ok", "err"} /\ Goto(p, DeleteEnd(p))
  BY DEF DeleteEnd, RemoveDeletedKey
<1>4. OpsOk' /\ op'[p].at = DeleteEnd(p) /\ SameBut(op[p], op'[p]) /\ OthersSame(p)
  BY <1>1, <1>3, GotoMoves DEF Ended
<1>5. RemoveKey(op[p].name) /\ UNCHANGED <<registry, tableMu, drift, sign, met>>
  BY DEF RemoveDeletedKey, Unchanged
<1> QED BY <1>1, <1>2, <1>3, <1>4, <1>5, RemoveKeyMove DEF SameBut

LEMMA SweepKeeps ==
  ASSUME SelInv, NEW p \in Goroutines, SweepKeys(p) PROVE SelInv'
<1>1. /\ op[p].at = "sweep" /\ OpOk(op[p]) /\ op[p] \in OpType /\ OpsOk /\ TablesOk /\ op[p].kind = "reload"
      /\ (op[p].kind \in {"none", "boot"} \/ p # Boot) /\ op[p].names \subseteq Names /\ Server \notin op[p].names
  BY OpIs, KindOf DEF SweepKeys, At, OpOk, OpType
<1>2. UNCHANGED <<registry, tableMu, drift, sign, met>>
  BY DEF SweepKeys, Unchanged
<1>3. ASSUME NEW m \in op[p].names, RemoveKey(m), op' = [op EXCEPT ![p].names = @ \ {m}] PROVE SelInv'
  <2> DEFINE n == [op[p] EXCEPT !.names = @ \ {m}]
  <2>1. op' = [op EXCEPT ![p] = n]
    BY <1>1, <1>3 DEF OpsOk
  <2>2. /\ n \in OpType /\ n.at = "sweep" /\ n.names = op[p].names \ {m} /\ n.kind = op[p].kind /\ n.id = op[p].id
        /\ n.name = op[p].name /\ n.sel = op[p].sel /\ n.rows = op[p].rows
    BY <1>1 DEF OpType
  <2> HIDE DEF n
  <2>3. OpOk(n)
    BY <1>1, <2>2 DEF OpOk, Ended
  <2>4. OpsOk' /\ op'[p] = n /\ OthersSame(p)
    BY <1>1, <2>1, <2>2, <2>3, OpMoves
  <2>5. m \in Names /\ m # Server
    BY <1>1
  <2> QED BY <1>1, <1>2, <1>3, <2>2, <2>4, <2>5, RemoveKeyMove
<1>4. CASE Goto(p, "ok") /\ UNCHANGED <<files, lost>>
  <2>1. doms' = doms /\ lastId' = lastId /\ apps' \in SUBSET Ids
    BY <1>1, <1>2 DEF registry, TablesOk
  <2> QED BY <1>1, <1>2, <1>4, <2>1, PlainGoto DEF Ended
<1> QED BY <1>3, <1>4 DEF SweepKeys

-----------------------------------------------------------------------------
(* The steps that change the rows, list them and write the table.          *)

LEMMA TableIs ==
  ASSUME TablesOk, NamedOnce
  PROVE  TableOf(ListDomains) \in SUBSET Paths /\ OneEach(TableOf(ListDomains))
<1> DEFINE mine == {<<row.name, row.sel>> : row \in ListDomains}
           own == IF \E row \in ListDomains : row.name = Server THEN {} ELSE {<<Server, Default>>}
<1>1. ListDomains \subseteq Domain
  BY DEF ListDomains, TablesOk
<1>2. \A a, b \in ListDomains : a.name = b.name => a = b
  BY DEF ListDomains, NamedOnce
<1>3. TableOf(ListDomains) = mine \cup own
  BY DEF TableOf
<1>4. mine \subseteq Paths /\ own \subseteq Paths
  BY <1>1, DomainConstants DEF Domain, Paths
<1>5. \A v \in mine : \E row \in ListDomains : v = <<row.name, row.sel>>
  OBVIOUS
<1>6. \A v, w \in mine : v[1] = w[1] => v = w
  BY <1>2, <1>5
<1>7. \A v \in mine, w \in own : v[1] # w[1]
  BY <1>5
<1>8. \A v, w \in own : v = w
  OBVIOUS
<1> HIDE DEF mine, own
<1> QED BY <1>3, <1>4, <1>6, <1>7, <1>8 DEF OneEach

LEMMA AddKeeps ==
  ASSUME SelInv, NEW p \in Goroutines, AddDomain(p) PROVE SelInv'
<1>1. /\ op[p].at = "row" /\ OpOk(op[p]) /\ op[p] \in OpType /\ OpsOk /\ Holder /\ TablesOk /\ NamedOnce /\ IdsLeft
      /\ op[p].kind \in {"add", "import"} /\ p # Boot
  BY OpIs, KindOf DEF AddDomain, At, SelInv, SelTyped
<1>2. UNCHANGED <<apps, files, tableMu, drift, lost, sign, met>>
  BY DEF AddDomain, Unchanged
<1>3. CASE Failed(p) /\ UNCHANGED <<doms, lastId>>
  <2>1. registry' = registry
    BY <1>2, <1>3 DEF registry
  <2> QED BY <1>1, <1>2, <1>3, <2>1, PlainFailed DEF Ended, HalfDone, Rewriting
<1>4. ASSUME op[p].name \notin Registered, lastId' = lastId + 1,
             doms' = [doms EXCEPT ![lastId'] = [name |-> op[p].name, sel |-> op[p].sel]],
             op' = [op EXCEPT ![p].id = lastId', ![p].at = IF op[p].kind = "add" THEN "stat" ELSE "key"]
      PROVE  SelInv'
  <2> DEFINE s == IF op[p].kind = "add" THEN "stat" ELSE "key"
             n == [op[p] EXCEPT !.id = lastId', !.at = s]
             row == [name |-> op[p].name, sel |-> op[p].sel]
  <2>1. p \in Adding /\ IsFiniteSet(Adding) /\ Cardinality(Adding) \in Nat
    BY <1>1, AddingFinite DEF Adding, Goroutines
  <2>2. /\ IsFiniteSet(Adding \ {p}) /\ Cardinality(Adding \ {p}) = Cardinality(Adding) - 1
        /\ Cardinality(Adding \ {p}) \in Nat
    <3>1. IsFiniteSet(Adding \ {p}) /\ Cardinality(Adding \ {p}) = Cardinality(Adding) - 1
      BY <2>1, FS_RemoveElement
    <3> QED BY <3>1, FS_CardinalityType
  <2>3. lastId \in Nat /\ MaxDomains \in Nat /\ lastId + 1 <= MaxDomains /\ lastId' \in Ids /\ lastId' \in 0 .. MaxDomains
    BY <1>1, <1>4, <2>1, <2>2, DomainConstants DEF IdsLeft, TablesOk, Ids
  <2>4. op' = [op EXCEPT ![p] = n]
    BY <1>1, <1>4 DEF OpsOk
  <2>5. /\ n \in OpType /\ n.at = s /\ n.id = lastId' /\ n.kind = op[p].kind /\ n.name = op[p].name
        /\ n.sel = op[p].sel /\ n.rows = op[p].rows /\ s \in {"stat", "key"}
    BY <1>1, <2>3 DEF OpType, Places
  <2>6. (op[p].kind = "add" => s = "stat") /\ (op[p].kind = "import" => s = "key")
    BY <1>1
  <2> HIDE DEF n, s
  <2>7. OpOk(n)
    BY <1>1, <2>3, <2>5, <2>6, CallsOf DEF OpOk, Ended
  <2>8. OpsOk' /\ op'[p] = n /\ OthersSame(p)
    BY <1>1, <2>4, <2>5, <2>7, OpMoves
  <2>9. Holder'
    <3>1. InTable(p)' <=> InTable(p)
      BY <1>1, <2>5, <2>8 DEF InTable
    <3> QED BY <1>1, <1>2, <2>8, <3>1, HolderKept
  <2>10. row \in Domain /\ row # None /\ row.name = op[p].name /\ row.sel = op[p].sel
    BY <1>1, NoneIsNothing DEF OpOk, Domain
  <2> HIDE DEF row
  <2>11. /\ doms' \in [Ids -> Domain \cup {None}] /\ doms'[lastId'] = row
         /\ \A i \in Ids : i # lastId' => doms'[i] = doms[i]
    BY <1>1, <1>4, <2>3, <2>10 DEF TablesOk, row
  <2>12. IdsLeft'
    <3>1. Adding' \subseteq Adding \ {p}
      BY <2>5, <2>8 DEF Adding, OthersSame, Goroutines
    <3>2. IsFiniteSet(Adding') /\ Cardinality(Adding') <= Cardinality(Adding \ {p})
      BY <2>2, <3>1, FS_Subset
    <3>3. Cardinality(Adding') \in Nat
      BY <3>2, FS_CardinalityType
    <3>4. lastId' + Cardinality(Adding') <= MaxDomains
      BY <1>1, <1>4, <2>1, <2>2, <2>3, <3>2, <3>3 DEF IdsLeft
    <3>5. \A i \in Ids : i > lastId' => doms'[i] = None
      BY <1>1, <1>4, <2>3, <2>11 DEF IdsLeft, Ids
    <3> QED BY <3>4, <3>5 DEF IdsLeft
  <2>13. doms[lastId'] = None
    BY <1>1, <1>4, <2>3 DEF IdsLeft
  <2>14. TablesOk'
    BY <1>1, <1>2, <2>3, <2>11 DEF TablesOk, files
  <2>15. NamedOnce'
    <3>1. \A i \in Ids : doms[i] # None => doms[i].name # op[p].name
      BY <1>4 DEF Registered
    <3> QED BY <1>1, <2>10, <2>11, <3>1 DEF NamedOnce
  <2>16. TableInv'
    <3>1. Owes(op[p])'
      BY <2>3, <2>5, <2>8, <2>10, <2>11 DEF Owes, HalfDone
    <3> QED BY <3>1 DEF TableInv
  <2>17. KeyInv'
    <3> SUFFICES ASSUME NEW i \in Ids, doms'[i] # None
                 PROVE  KeyOf(doms[i])' # 0 \/ doms'[i].name \in lost' \/ \E q \in Goroutines : Makes(op[q], i)'
      BY DEF KeyInv
    <3>1. CASE i = lastId'
      <4>1. Makes(op[p], i)'
        BY <2>5, <2>8, <2>10, <2>11, <3>1 DEF Makes, HalfDone
      <4> QED BY <4>1
    <3>2. CASE i # lastId'
      <4>1. doms'[i] = doms[i] /\ keys' = keys /\ lost' = lost
        BY <1>2, <2>11, <3>2 DEF files
      <4>2. CASE KeyOf(doms[i]) # 0 \/ doms[i].name \in lost
        BY <4>1, <4>2 DEF KeyOf
      <4>3. ASSUME NEW q \in Goroutines, Makes(op[q], i) PROVE Makes(op[q], i)'
        <5>1. q # p
          BY <1>1, <4>3 DEF Makes, HalfDone
        <5>2. op'[q] = op[q]
          BY <2>8, <5>1 DEF OthersSame
        <5> QED BY <4>1, <4>3, <5>2 DEF Makes, HalfDone
      <4> QED BY <4>1, <4>2, <4>3 DEF KeyInv, SelInv
    <3> QED BY <3>1, <3>2
  <2>18. ServerKeyInv'
    <3>1. Server \in Registered => Server \in Registered'
      BY <2>11, <2>13 DEF Registered
    <3>2. keys' = keys /\ drift' = drift
      BY <1>2 DEF files
    <3> QED BY <1>1, <2>8, <3>1, <3>2, ServerKeyKept DEF SelInv
  <2>19. SignTyped'
    BY <1>1, <1>2, SignKept DEF SelInv, files, TablesOk
  <2> QED BY <2>8, <2>9, <2>12, <2>14, <2>15, <2>16, <2>17, <2>18, <2>19 DEF SelInv, SelTyped
<1> QED BY <1>3, <1>4 DEF AddDomain

LEMMA DeleteKeeps ==
  ASSUME SelInv, NEW p \in Goroutines, DeleteDomain(p) PROVE SelInv'
<1>1. /\ op[p].at \in {"drop", "undo"} /\ OpOk(op[p]) /\ OpsOk /\ Holder /\ TablesOk /\ NamedOnce /\ IdsLeft
      /\ op[p].id \in Ids /\ (op[p].at = "drop" => op[p].kind \in {"delete", "undo"})
      /\ (op[p].at = "undo" => op[p].kind = "add")
  <2>1. op[p].at \in {"drop", "undo"} /\ OpOk(op[p]) /\ OpsOk /\ Holder /\ TablesOk /\ NamedOnce /\ IdsLeft
    BY OpIs DEF DeleteDomain, SelInv, SelTyped
  <2>2. (op[p].at = "drop" => op[p].kind \in {"delete", "undo"}) /\ (op[p].at = "undo" => op[p].kind = "add")
    BY <2>1, KindOf
  <2> QED BY <2>1, <2>2 DEF OpOk, Ended
<1>2. UNCHANGED <<lastId, apps, files, tableMu, lost, sign, met>> /\ drift' = TRUE
  BY DEF DeleteDomain, Unchanged
<1>3. PICK s \in {"err", "list"} : /\ Goto(p, s) /\ (s = "list" => op[p].at = "drop")
                                   /\ doms' = [doms EXCEPT ![op[p].id] = None] \/ (doms[op[p].id] = None /\ doms' = doms)
  <2>1. CASE /\ doms[op[p].id] # None /\ doms' = [doms EXCEPT ![op[p].id] = None]
             /\ Goto(p, IF At(p, "undo") THEN "err" ELSE "list")
    <3>1. CASE op[p].at = "undo"
      BY <2>1, <3>1 DEF At
    <3>2. CASE op[p].at = "drop"
      BY <2>1, <3>2 DEF At
    <3> QED BY <1>1, <3>1, <3>2
  <2>2. CASE doms[op[p].id] = None /\ Goto(p, "err") /\ UNCHANGED doms
    BY <2>2
  <2> QED BY <2>1, <2>2 DEF DeleteDomain
<1>4. OpsOk' /\ op'[p].at = s /\ SameBut(op[p], op'[p]) /\ OthersSame(p)
  BY <1>1, <1>3, CallsOf, GotoMoves DEF Ended
<1>5. Holder'
  <2>1. InTable(p)' <=> InTable(p)
    BY <1>1, <1>4 DEF InTable
  <2> QED BY <1>1, <1>2, <1>4, <2>1, HolderKept
<1>6. doms' \in [Ids -> Domain \cup {None}] /\ doms'[op[p].id] = None /\ \A i \in Ids : doms'[i] # None => doms'[i] = doms[i]
  BY <1>1, <1>3 DEF TablesOk
<1>7. IdsLeft'
  <2>1. \A i \in Ids : doms[i] = None => doms'[i] = None
    BY <1>6
  <2> QED BY <1>1, <1>2, <1>4, <2>1, IdsKept DEF TablesOk
<1>8. TablesOk' /\ NamedOnce'
  BY <1>1, <1>2, <1>6 DEF TablesOk, NamedOnce, files
<1>9. TableInv' /\ ServerKeyInv'
  BY <1>2 DEF TableInv, ServerKeyInv
<1>10. KeyInv'
  <2>1. \A i \in Ids : doms'[i] # None => KeyOf(doms[i])' = KeyOf(doms[i])
    BY <1>2, <1>6 DEF KeyOf, files
  <2>2. \A i \in Ids : doms'[i] # None => ~Makes(op[p], i)
    BY <1>6 DEF Makes
  <2> QED BY <1>2, <1>4, <1>6, <2>1, <2>2, KeyKept DEF SelInv
<1>11. SignTyped'
  BY <1>1, <1>2, SignKept DEF SelInv, files, TablesOk
<1> QED BY <1>4, <1>5, <1>7, <1>8, <1>9, <1>10, <1>11 DEF SelInv, SelTyped

LEMMA ListKeeps ==
  ASSUME SelInv, NEW p \in Goroutines, List(p) PROVE SelInv'
<1> DEFINE s == IF Server \in Registered THEN "write" ELSE "srvStat"
           n == [op[p] EXCEPT !.rows = TableOf(ListDomains), !.at = s]
<1>1. /\ op[p].at = "list" /\ OpOk(op[p]) /\ op[p] \in OpType /\ OpsOk /\ Holder /\ TablesOk /\ NamedOnce /\ IdsLeft
      /\ op[p].kind \in {"add", "import", "delete", "undo", "reload", "boot"}
      /\ (op[p].kind \in {"none", "boot"} \/ p # Boot)
  BY OpIs, KindOf DEF List, At, SelInv, SelTyped, Rewriting
<1>2. UNCHANGED <<registry, files, lost, sign, met>> /\ drift' = FALSE /\ tableMu = None /\ tableMu' = p
  BY DEF List, Unchanged
<1>3. op' = [op EXCEPT ![p] = n]
  BY <1>1 DEF List, OpsOk
<1>4. TableOf(ListDomains) \in SUBSET Paths /\ OneEach(TableOf(ListDomains))
  BY <1>1, TableIs
<1>5. /\ n \in OpType /\ n.at = s /\ n.rows = TableOf(ListDomains) /\ n.kind = op[p].kind /\ n.id = op[p].id
      /\ n.name = op[p].name /\ n.sel = op[p].sel
  BY <1>1, <1>4 DEF OpType, Places
<1>6. s \in {"write", "srvStat"} /\ (Server \notin Registered => s = "srvStat")
  OBVIOUS
<1> HIDE DEF n, s
<1>7. OpOk(n)
  BY <1>1, <1>4, <1>5, <1>6, CallsOf DEF OpOk, Ended
<1>8. OpsOk' /\ op'[p] = n /\ OthersSame(p)
  BY <1>1, <1>3, <1>5, <1>7, OpMoves
<1>9. InTable(p)'
  BY <1>5, <1>6, <1>8 DEF InTable
<1>10. Holder'
  BY <1>1, <1>2, <1>8, <1>9, HolderTaken
<1>11. doms' = doms /\ lastId' = lastId /\ apps' = apps /\ Registered' = Registered /\ ListDomains' = ListDomains /\ keys' = keys
  BY <1>2 DEF registry, Registered, ListDomains, files
<1>12. IdsLeft'
  BY <1>1, <1>5, <1>6, <1>8, <1>11, IdsKept DEF TablesOk
<1>13. TablesOk' /\ NamedOnce'
  BY <1>1, <1>2, <1>11 DEF TablesOk, NamedOnce, files
<1>14. TableInv'
  <2>1. op'[p].rows = TableOf(ListDomains)'
    BY <1>5, <1>8, <1>11 DEF TableOf
  <2> QED BY <1>9, <2>1 DEF TableInv
<1>15. KeyInv'
  <2>1. \A i \in Ids : KeyOf(doms[i])' = KeyOf(doms[i]) /\ ~Makes(op[p], i)
    BY <1>1, <1>11 DEF KeyOf, Makes, HalfDone
  <2> QED BY <1>2, <1>8, <1>11, <2>1, KeyKept DEF SelInv
<1>16. ServerKeyInv'
  BY <1>5, <1>6, <1>8, <1>11 DEF ServerKeyInv
<1>17. SignTyped'
  BY <1>1, <1>2, SignKept DEF SelInv, files, TablesOk
<1> QED BY <1>8, <1>10, <1>12, <1>13, <1>14, <1>15, <1>16, <1>17 DEF SelInv, SelTyped

LEMMA WriteKeeps ==
  ASSUME SelInv, NEW p \in Goroutines, WriteTable(p) PROVE SelInv'
<1> DEFINE s == AfterWrite(op[p].kind)
<1>1. /\ op[p].at = "write" /\ OpOk(op[p]) /\ op[p] \in OpType /\ OpsOk /\ Holder /\ TablesOk /\ NamedOnce /\ IdsLeft
      /\ op[p].kind \in {"add", "import", "delete", "undo", "reload", "boot"} /\ InTable(p)
  BY OpIs, KindOf DEF WriteTable, At, SelInv, SelTyped, Rewriting, InTable
<1>2. /\ UNCHANGED <<registry, keys, lastKey, drift, lost, sign, met>> /\ tableMu' = None /\ table' = op[p].rows
      /\ Goto(p, s)
  BY DEF WriteTable, Unchanged
<1>3. s \in Calls(op[p].kind) \cup {"ok", "err"} /\ s \in {"settings", "maps", "keep", "ok"}
  BY <1>1, CallsOf DEF AfterWrite
<1> HIDE DEF s
<1>4. OpsOk' /\ op'[p].at = s /\ SameBut(op[p], op'[p]) /\ OthersSame(p)
  BY <1>1, <1>2, <1>3, GotoMoves DEF Ended
<1>5. ~InTable(p)'
  BY <1>3, <1>4 DEF InTable
<1>6. Holder'
  BY <1>1, <1>2, <1>4, <1>5, HolderLeft
<1>7. doms' = doms /\ lastId' = lastId /\ apps' = apps /\ Registered' = Registered /\ TableOf(ListDomains)' = TableOf(ListDomains)
  BY <1>2 DEF registry, Registered, ListDomains, TableOf
<1>8. IdsLeft'
  BY <1>1, <1>3, <1>4, <1>7, IdsKept DEF TablesOk
<1>9. TablesOk' /\ NamedOnce'
  <2>1. op[p].rows \in SUBSET Paths /\ OneEach(op[p].rows)
    BY <1>1 DEF OpOk, OpType
  <2> QED BY <1>1, <1>2, <1>7, <2>1 DEF TablesOk, NamedOnce, OneEach
<1>10. TableInv'
  <2>1. CASE drift
    BY <1>2, <2>1 DEF TableInv
  <2>2. ASSUME NEW q \in Goroutines, Owes(op[q]) PROVE TableInv'
    <3>1. q # p
      BY <1>1, <2>2 DEF Owes, HalfDone
    <3>2. op'[q] = op[q]
      BY <1>4, <3>1 DEF OthersSame
    <3>3. Owes(op[q])'
      BY <1>7, <2>2, <3>2 DEF Owes, HalfDone
    <3> QED BY <3>3 DEF TableInv
  <2>3. tableMu # None
    BY <1>1, DomainConstants DEF Holder, Goroutines
  <2>4. ASSUME NEW q \in Goroutines, InTable(q), op[q].rows = TableOf(ListDomains) PROVE TableInv'
    <3>1. q = p
      BY <1>1, <2>4 DEF Holder
    <3>2. (tableMu = None /\ table = TableOf(ListDomains))'
      BY <1>2, <1>7, <2>4, <3>1
    <3> QED BY <3>2 DEF TableInv
  <2> QED BY <2>1, <2>2, <2>3, <2>4 DEF TableInv, SelInv
<1>11. KeyInv'
  <2>1. \A i \in Ids : KeyOf(doms[i])' = KeyOf(doms[i]) /\ ~Makes(op[p], i)
    BY <1>1, <1>2, <1>7 DEF KeyOf, Makes, HalfDone
  <2> QED BY <1>2, <1>4, <1>7, <2>1, KeyKept DEF SelInv
<1>12. ServerKeyInv'
  BY <1>1, <1>2, <1>4, <1>7, ServerKeyKept DEF SelInv
<1>13. SignTyped'
  BY <1>1, <1>2, SignKept DEF SelInv, TablesOk
<1> QED BY <1>4, <1>6, <1>8, <1>9, <1>10, <1>11, <1>12, <1>13 DEF SelInv, SelTyped

-----------------------------------------------------------------------------
(* Requests that begin, and the panel killed and started.                  *)

LEMMA BlankIs ==
  /\ OpOk(Blank) /\ Blank.at = "idle" /\ Blank.kind = "none" /\ Blank.id = 0 /\ Blank.rows = {} /\ Blank.names = {}
  /\ Blank \in OpType
<1>1. /\ Blank.at = "idle" /\ Blank.kind = "none" /\ Blank.id = 0 /\ Blank.rows = {} /\ Blank.names = {}
      /\ Blank \in OpType
  BY DEF Blank, OpType, OpKinds, Places
<1>2. Blank.at \in Calls(Blank.kind)
  BY <1>1, CallsOf
<1>3. OneEach(Blank.rows)
  BY <1>1 DEF OneEach
<1> HIDE DEF Blank
<1> QED BY <1>1, <1>2, <1>3 DEF OpOk, Ended

LEMMA BeginMove ==
  ASSUME SelInv, NEW p \in Reqs, NEW r, Begin(p, r), OpOk(r), r.at \notin {"srvStat", "srvGen", "write"},
         r.at = "row" => Spare
  PROVE  SelInv'
<1>1. OpsOk /\ Holder /\ TablesOk /\ NamedOnce /\ IdsLeft /\ p \in Goroutines /\ p # Boot
  BY DomainConstants DEF SelInv, SelTyped, Goroutines
<1>2. /\ op[p].at \in Ended /\ UNCHANGED <<registry, files, tableMu, sign, drift, lost>>
      /\ op' = [q \in Goroutines |-> IF q = p THEN r ELSE IF op[q].at \in Ended THEN Blank ELSE op[q]]
      /\ met' = (met \/ \E q \in Goroutines \ {p} : op[q].at \notin Ended)
  BY DEF Begin
<1>3. /\ doms' = doms /\ lastId' = lastId /\ apps' = apps /\ keys' = keys /\ lastKey' = lastKey /\ table' = table
      /\ Registered' = Registered /\ TableOf(ListDomains)' = TableOf(ListDomains)
  BY <1>2 DEF registry, files, Registered, TableOf, ListDomains
<1>4. /\ op'[p] = r
      /\ \A q \in Goroutines : op[q].at \notin Ended => op'[q] = op[q] /\ q # p
      /\ \A q \in Goroutines \ {p} : op[q].at \in Ended => op'[q] = Blank
  BY <1>1, <1>2
<1>5. OpsOk'
  <2>1. \A q \in Goroutines : OpOk(op'[q])
    BY <1>1, <1>4, BlankIs DEF OpsOk
  <2>2. op'[Boot].kind \in {"none", "boot"}
    <3>1. Boot \in Goroutines
      BY DEF Goroutines
    <3> QED BY <1>1, <1>4, <3>1, BlankIs DEF OpsOk
  <2>3. op' \in [Goroutines -> OpType]
    BY <1>2, <2>1 DEF OpOk
  <2> QED BY <2>1, <2>2, <2>3 DEF OpsOk
<1>6. \A q \in Goroutines : InTable(q)' <=> InTable(q)
  BY <1>2, <1>4, BlankIs DEF InTable, Ended
<1>7. Holder'
  BY <1>1, <1>2, <1>6 DEF Holder
<1>8. IdsLeft'
  <2>1. IsFiniteSet(Adding) /\ Cardinality(Adding) \in Nat /\ p \notin Adding
    BY <1>2, AddingFinite DEF Adding, Ended
  <2>2. Adding' \subseteq Adding \cup {p} /\ (r.at # "row" => Adding' \subseteq Adding)
    BY <1>4, BlankIs DEF Adding, Goroutines, Ended
  <2>3. IsFiniteSet(Adding \cup {p}) /\ Cardinality(Adding \cup {p}) = Cardinality(Adding) + 1
    BY <2>1, FS_AddElement
  <2>4. IsFiniteSet(Adding') /\ Cardinality(Adding') <= Cardinality(Adding \cup {p})
    BY <2>2, <2>3, FS_Subset
  <2>5. Cardinality(Adding') \in Nat
    BY <2>4, FS_CardinalityType
  <2>6. lastId \in Nat /\ MaxDomains \in Nat
    BY <1>1, DomainConstants DEF TablesOk
  <2>7. lastId + Cardinality(Adding') <= MaxDomains
    <3>1. CASE r.at = "row"
      <4>1. lastId + Cardinality(Adding) < MaxDomains
        BY <3>1 DEF Spare, Adding, At
      <4> QED BY <2>1, <2>3, <2>4, <2>5, <2>6, <4>1
    <3>2. CASE r.at # "row"
      <4>1. Cardinality(Adding') <= Cardinality(Adding)
        BY <2>1, <2>2, <3>2, FS_Subset
      <4> QED BY <1>1, <2>1, <2>5, <2>6, <4>1 DEF IdsLeft
    <3> QED BY <3>1, <3>2
  <2> QED BY <1>1, <1>3, <2>7 DEF IdsLeft
<1>9. TablesOk' /\ NamedOnce'
  BY <1>1, <1>2, <1>3 DEF TablesOk, NamedOnce
<1>10. TableInv'
  <2>1. ASSUME NEW q \in Goroutines, Owes(op[q]) PROVE Owes(op[q])'
    <3>1. op[q].at \notin Ended
      BY <2>1 DEF Owes, HalfDone, Ended
    <3> QED BY <1>3, <1>4, <2>1, <3>1 DEF Owes, HalfDone
  <2>2. ASSUME NEW q \in Goroutines, InTable(q), op[q].rows = TableOf(ListDomains)
        PROVE  InTable(q)' /\ op'[q].rows = TableOf(ListDomains)'
    <3>1. op[q].at \notin Ended
      BY <2>2 DEF InTable, Ended
    <3> QED BY <1>3, <1>4, <1>6, <2>2, <3>1
  <2> QED BY <1>2, <1>3, <2>1, <2>2 DEF TableInv, SelInv
<1>11. KeyInv'
  <2>1. ASSUME NEW q \in Goroutines, NEW i \in Ids, Makes(op[q], i) PROVE Makes(op[q], i)'
    <3>1. op[q].at \notin Ended
      BY <2>1 DEF Makes, HalfDone, Ended
    <3> QED BY <1>3, <1>4, <2>1, <3>1 DEF Makes, HalfDone
  <2> QED BY <1>2, <1>3, <2>1 DEF KeyInv, KeyOf, SelInv
<1>12. ServerKeyInv'
  <2>1. ASSUME NEW q \in Goroutines, op[q].at \in {"list", "srvStat", "srvGen"}
        PROVE  op'[q].at \in {"list", "srvStat", "srvGen"}
    BY <1>4, <2>1 DEF Ended
  <2> QED BY <1>2, <1>3, <2>1 DEF ServerKeyInv, SelInv
<1>13. SignTyped'
  BY <1>1, <1>2, <1>3, SignKept DEF SelInv, TablesOk
<1> QED BY <1>5, <1>7, <1>8, <1>9, <1>10, <1>11, <1>12, <1>13 DEF SelInv, SelTyped

LEMMA StartKeeps ==
  ASSUME SelInv, NEW p \in Reqs, Start(p) PROVE SelInv'
<1>0. TablesOk /\ Server \in Names /\ Default \in Selectors /\ 0 \in {0} \cup Ids
  BY DomainConstants DEF SelInv, SelTyped
<1>1. ASSUME NEW m \in Names, Spare,
             Begin(p, [Blank EXCEPT !.kind = "add", !.at = "row", !.name = m, !.sel = Default])
      PROVE  SelInv'
  <2> DEFINE r == [Blank EXCEPT !.kind = "add", !.at = "row", !.name = m, !.sel = Default]
  <2>1. /\ r \in OpType /\ r.kind = "add" /\ r.at = "row" /\ r.name = m /\ r.sel = Default /\ r.id = 0 /\ r.rows = {}
    BY <1>0 DEF Blank, OpType, OpKinds, Places
  <2> HIDE DEF r
  <2>2. OpOk(r)
    BY <1>0, <1>1, <2>1, CallsOf DEF OpOk, OneEach
  <2> QED BY <1>1, <2>1, <2>2, BeginMove DEF r
<1>2. ASSUME NEW m \in Names, NEW s \in Selectors, Spare,
             Begin(p, [Blank EXCEPT !.kind = "import", !.at = "row", !.name = m, !.sel = s])
      PROVE  SelInv'
  <2> DEFINE r == [Blank EXCEPT !.kind = "import", !.at = "row", !.name = m, !.sel = s]
  <2>1. /\ r \in OpType /\ r.kind = "import" /\ r.at = "row" /\ r.name = m /\ r.sel = s /\ r.id = 0 /\ r.rows = {}
    BY <1>0 DEF Blank, OpType, OpKinds, Places
  <2> HIDE DEF r
  <2>2. OpOk(r)
    BY <1>2, <2>1, CallsOf DEF OpOk, OneEach
  <2> QED BY <1>2, <2>1, <2>2, BeginMove DEF r
<1>3. ASSUME NEW i \in Ids, doms[i] # None,
             Begin(p, [Blank EXCEPT !.kind = "delete", !.at = "get", !.id = i, !.name = doms[i].name])
      PROVE  SelInv'
  <2> DEFINE m == doms[i].name
             r == [Blank EXCEPT !.kind = "delete", !.at = "get", !.id = i, !.name = m]
  <2>1. m \in Names
    BY <1>0, <1>3 DEF TablesOk, Domain
  <2>2. Begin(p, r)
    BY <1>3
  <2> HIDE DEF m
  <2>3. /\ r \in OpType /\ r.kind = "delete" /\ r.at = "get" /\ r.name = m /\ r.id = i /\ r.rows = {}
    BY <2>1 DEF Blank, OpType, OpKinds, Places
  <2> HIDE DEF r
  <2>4. OpOk(r)
    BY <2>1, <2>3, CallsOf DEF OpOk, OneEach
  <2> QED BY <2>2, <2>3, <2>4, BeginMove
<1>4. ASSUME Begin(p, [Blank EXCEPT !.kind = "reload", !.at = "list"]) PROVE SelInv'
  <2> DEFINE r == [Blank EXCEPT !.kind = "reload", !.at = "list"]
  <2>1. r \in OpType /\ r.kind = "reload" /\ r.at = "list" /\ r.id = 0 /\ r.rows = {}
    BY <1>0 DEF Blank, OpType, OpKinds, Places
  <2> HIDE DEF r
  <2>2. OpOk(r)
    BY <2>1, CallsOf DEF OpOk, OneEach
  <2> QED BY <1>4, <2>1, <2>2, BeginMove DEF r
<1>5. ASSUME NEW s \in Selectors,
             Begin(p, [Blank EXCEPT !.kind = "server", !.at = "stat", !.name = Server, !.sel = s])
      PROVE  SelInv'
  <2> DEFINE r == [Blank EXCEPT !.kind = "server", !.at = "stat", !.name = Server, !.sel = s]
  <2>1. r \in OpType /\ r.kind = "server" /\ r.at = "stat" /\ r.name = Server /\ r.sel = s /\ r.id = 0 /\ r.rows = {}
    BY <1>0 DEF Blank, OpType, OpKinds, Places
  <2> HIDE DEF r
  <2>2. OpOk(r)
    BY <1>0, <1>5, <2>1, CallsOf DEF OpOk, OneEach
  <2> QED BY <1>5, <2>1, <2>2, BeginMove DEF r
<1>6. CASE HandleAddDomain(p)
  BY <1>1, <1>6 DEF HandleAddDomain
<1>7. CASE HandleImportDomain(p)
  BY <1>2, <1>7 DEF HandleImportDomain
<1>8. CASE HandleDeleteDomain(p)
  BY <1>3, <1>8 DEF HandleDeleteDomain
<1>9. CASE HandleReload(p)
  BY <1>4, <1>9 DEF HandleReload
<1>10. CASE ServerMail(p)
  <2>1. ListDomains \subseteq Domain
    BY <1>0 DEF ListDomains, TablesOk
  <2>2. \A row \in ListDomains : row.sel \in Selectors
    BY <2>1 DEF Domain
  <2>3. \A s \in (IF {row \in ListDomains : row.name = Server} = {} THEN {Default}
                  ELSE {row.sel : row \in {row2 \in ListDomains : row2.name = Server}}) : s \in Selectors
    BY <1>0, <2>2
  <2> QED BY <1>5, <1>10, <2>3 DEF ServerMail
<1> QED BY <1>6, <1>7, <1>8, <1>9, <1>10 DEF Start

LEMMA NoMailIs == SesOk' \/ ses' # NoMail
<1>1. NoMail \in SesType
  BY DEF NoMail, SesType
<1>2. NoMail.at = "idle" /\ NoMail.kept = NoMail.given /\ NoMail.signer = None /\ NoMail.chunks = 0
  BY DEF NoMail
<1> HIDE DEF NoMail
<1> QED BY <1>1, <1>2 DEF SesOk

LEMMA BootingIs ==
  /\ Booting \in OpType /\ Booting.kind = "boot" /\ Booting.at = "list" /\ OpOk(Booting)
  /\ OpOk([Booting EXCEPT !.at = "ok"]) /\ [Booting EXCEPT !.at = "ok"] \in OpType
  /\ [Booting EXCEPT !.at = "ok"].at = "ok" /\ [Booting EXCEPT !.at = "ok"].kind = "boot"
<1> DEFINE o == [Booting EXCEPT !.at = "ok"]
<1>1. Booting \in OpType /\ Booting.kind = "boot" /\ Booting.at = "list" /\ Booting.rows = {}
  BY DEF Booting, Blank, OpType, OpKinds, Places
<1>2. o \in OpType /\ o.kind = "boot" /\ o.at = "ok" /\ o.rows = {}
  BY DEF Booting, Blank, OpType, OpKinds, Places
<1> HIDE DEF Booting, o
<1>3. OpOk(Booting)
  BY <1>1, CallsOf DEF OpOk, OneEach
<1>4. OpOk(o)
  BY <1>2 DEF OpOk, OneEach
<1> QED BY <1>1, <1>2, <1>3, <1>4 DEF o

LEMMA CrashKeeps ==
  ASSUME SelInv, Crash PROVE SelInv'
<1>1. OpsOk /\ Holder /\ TablesOk /\ NamedOnce /\ IdsLeft
  BY DEF SelInv, SelTyped
<1>2. /\ op' = [p \in Goroutines |-> IF p = Boot THEN Booting ELSE Blank] /\ tableMu' = None /\ drift' = TRUE
      /\ cache' = [w \in Paths |-> None] /\ ses' = NoMail /\ UNCHANGED <<registry, files, met>>
      /\ lost' = lost \cup {doms[i].name : i \in {j \in Ids : doms[j] # None
                                               /\ keys[<<doms[j].name, doms[j].sel>>] = 0}}
  BY DEF Crash
<1>3. doms' = doms /\ lastId' = lastId /\ apps' = apps /\ keys' = keys /\ lastKey' = lastKey /\ table' = table
  BY <1>2 DEF registry, files
<1>4. Booting \in OpType /\ Booting.kind = "boot" /\ Booting.at = "list" /\ OpOk(Booting)
  BY BootingIs
<1>5. OpsOk'
  <2>1. op' \in [Goroutines -> OpType] /\ \A p \in Goroutines : OpOk(op'[p])
    BY <1>2, <1>4, BlankIs
  <2>2. op'[Boot].kind \in {"none", "boot"}
    BY <1>2, <1>4 DEF Goroutines
  <2> QED BY <2>1, <2>2 DEF OpsOk
<1>6. Holder'
  <2>1. \A p \in Goroutines : ~InTable(p)' /\ p # None
    BY <1>2, <1>4, BlankIs, DomainConstants DEF InTable, Goroutines
  <2> QED BY <1>2, <2>1 DEF Holder
<1>7. IdsLeft'
  <2>1. Adding' = {}
    BY <1>2, BlankIs, DomainConstants DEF Adding, Goroutines
  <2>2. Cardinality(Adding') = 0
    BY <2>1, FS_EmptySet
  <2> QED BY <1>1, <1>3, <2>2, DomainConstants DEF IdsLeft, TablesOk
<1>8. TablesOk' /\ NamedOnce'
  <2>1. lost' \in SUBSET Names
    BY <1>1, <1>2 DEF TablesOk, Domain
  <2> QED BY <1>1, <1>2, <1>3, <2>1 DEF TablesOk, NamedOnce
<1>9. TableInv' /\ ServerKeyInv'
  BY <1>2 DEF TableInv, ServerKeyInv
<1>10. KeyInv'
  BY <1>2, <1>3 DEF KeyInv, KeyOf
<1>11. SignTyped'
  <2>1. CacheOk'
    BY <1>2 DEF CacheOk
  <2> QED BY <1>2, <2>1, NoMailIs DEF SignTyped
<1> QED BY <1>5, <1>6, <1>7, <1>8, <1>9, <1>10, <1>11 DEF SelInv, SelTyped

LEMMA InitFlags == Init => lost \in SUBSET Names /\ drift \in BOOLEAN /\ met \in BOOLEAN
<1>1. drift = FALSE => drift \in BOOLEAN
  OBVIOUS
<1>2. met = FALSE => met \in BOOLEAN
  OBVIOUS
<1>3. Init => lost \in SUBSET Names /\ drift = FALSE /\ met = FALSE
  BY DEF Init
<1> QED BY <1>1, <1>2, <1>3

LEMMA InitKeeps == Init => SelInv
<1> SUFFICES ASSUME Init PROVE SelInv
  OBVIOUS
<1>1. PICK seed \in {{}} \cup {{[name |-> m, sel |-> s]} : m \in Names, s \in Selectors} :
         /\ doms = [i \in Ids |-> IF i = 1 /\ seed # {} THEN CHOOSE x \in seed : TRUE ELSE None]
         /\ lastId = Cardinality(seed)
         /\ lastKey = IF seed = {} THEN 0 ELSE 1
         /\ table = IF seed = {} THEN {} ELSE TableOf(seed)
         /\ keys = [w \in Paths |-> IF w \in table THEN 1 ELSE 0]
         /\ op = [p \in Goroutines |->
                    IF p # Boot THEN Blank ELSE IF seed = {} THEN Booting
                    ELSE [Booting EXCEPT !.at = "ok"]]
  BY DEF Init
<1>2. /\ apps = {} /\ tableMu = None /\ cache = [w \in Paths |-> None] /\ ses = NoMail
      /\ drift = FALSE /\ lost = {} /\ met = FALSE
  BY DEF Init
<1>2a. lost \in SUBSET Names /\ drift \in BOOLEAN /\ met \in BOOLEAN
  BY InitFlags
<1>3. /\ Booting \in OpType /\ Booting.kind = "boot" /\ Booting.at = "list" /\ OpOk(Booting)
      /\ OpOk([Booting EXCEPT !.at = "ok"]) /\ [Booting EXCEPT !.at = "ok"] \in OpType
      /\ [Booting EXCEPT !.at = "ok"].at = "ok" /\ [Booting EXCEPT !.at = "ok"].kind = "boot"
  BY BootingIs
<1>4. OpsOk /\ \A p \in Goroutines : op[p].at \in {"idle", "ok", "list"}
  <2>1. \A p \in Goroutines : OpOk(op[p]) /\ op[p].at \in {"idle", "ok", "list"} /\ op[p] \in OpType
    BY <1>1, <1>3, BlankIs
  <2>2. op[Boot].kind \in {"none", "boot"}
    BY <1>1, <1>3 DEF Goroutines
  <2>3. op \in [Goroutines -> OpType]
    BY <1>1, <2>1
  <2> QED BY <2>1, <2>2, <2>3 DEF OpsOk
<1>5. Holder
  BY <1>2, <1>4, DomainConstants DEF Holder, InTable, Goroutines
<1>6. Adding = {} /\ Cardinality(Adding) = 0
  <2>1. Adding = {}
    BY <1>4 DEF Adding, Goroutines
  <2> QED BY <2>1, FS_EmptySet
<1>7. SignTyped
  <2>1. NoMail \in SesType /\ NoMail.at = "idle" /\ NoMail.kept = NoMail.given /\ NoMail.signer = None /\ NoMail.chunks = 0
    BY DEF NoMail, SesType
  <2> HIDE DEF NoMail
  <2>2. SesOk
    BY <1>2, <2>1 DEF SesOk
  <2>3. CacheOk
    BY <1>2 DEF CacheOk
  <2> QED BY <2>2, <2>3 DEF SignTyped
<1>8. CASE seed = {}
  <2>1. lastId = 0 /\ lastKey = 0 /\ table = {} /\ doms = [i \in Ids |-> None] /\ keys = [w \in Paths |-> 0]
    <3>1. Cardinality(seed) = 0
      BY <1>8, FS_EmptySet
    <3> QED BY <1>1, <1>8, <3>1
  <2>2. TablesOk /\ NamedOnce
    <3>1. doms \in [Ids -> Domain \cup {None}] /\ lastId \in 0 .. MaxDomains /\ apps \in SUBSET Ids
      BY <1>2, <2>1, DomainConstants
    <3>2. lastKey \in Nat /\ keys \in [Paths -> 0 .. lastKey] /\ table \in SUBSET Paths /\ OneEach(table)
      BY <2>1 DEF OneEach
    <3>3. lost \in SUBSET Names /\ drift \in BOOLEAN /\ met \in BOOLEAN
      BY <1>2a
    <3> QED BY <2>1, <3>1, <3>2, <3>3 DEF TablesOk, NamedOnce
  <2>3. IdsLeft
    BY <1>6, <2>1, DomainConstants DEF IdsLeft
  <2>4. Boot \in Goroutines /\ op[Boot].at = "list"
    BY <1>1, <1>3, <1>8 DEF Goroutines
  <2>5. TableInv /\ ServerKeyInv
    BY <2>4 DEF TableInv, ServerKeyInv, Owes
  <2>6. KeyInv
    BY <2>1 DEF KeyInv
  <2> QED BY <1>4, <1>5, <1>7, <2>2, <2>3, <2>5, <2>6 DEF SelInv, SelTyped
<1>9. ASSUME NEW m \in Names, NEW s \in Selectors, seed = {[name |-> m, sel |-> s]} PROVE SelInv
  <2> DEFINE row == [name |-> m, sel |-> s]
  <2>1. seed # {} /\ (CHOOSE x \in seed : TRUE) = row
    BY <1>9
  <2>2. row \in Domain /\ row # None /\ row.name = m /\ row.sel = s
    BY NoneIsNothing DEF Domain
  <2>3. Cardinality(seed) = 1
    <3>1. seed = {row}
      BY <1>9
    <3> HIDE DEF row
    <3>2. Cardinality({row}) = 1
      BY OneInSingleton
    <3> QED BY <3>1, <3>2
  <2>4. 1 \in Ids /\ MaxDomains \in Nat /\ 1 <= MaxDomains
    BY DomainConstants DEF Ids
  <2>5. lastId = 1 /\ lastKey = 1 /\ table = TableOf({row}) /\ doms = [i \in Ids |-> IF i = 1 THEN row ELSE None]
    BY <1>1, <1>9, <2>1, <2>3
  <2> HIDE DEF row
  <2>6. doms \in [Ids -> Domain \cup {None}] /\ ListDomains = {row} /\ \A i \in Ids : doms[i] # None => i = 1 /\ doms[i] = row
    <3>1. doms \in [Ids -> Domain \cup {None}] /\ \A i \in Ids : (doms[i] # None <=> i = 1) /\ (i = 1 => doms[i] = row)
      BY <2>2, <2>5
    <3> QED BY <2>4, <3>1 DEF ListDomains
  <2>7. NamedOnce
    BY <2>6 DEF NamedOnce
  <2>8. TableOf({row}) \in SUBSET Paths /\ OneEach(TableOf({row})) /\ <<m, s>> \in TableOf({row})
    <3>1. TableOf({row}) = {<<m, s>>} \cup (IF m = Server THEN {} ELSE {<<Server, Default>>})
      BY <2>2 DEF TableOf
    <3>2. <<m, s>> \in Paths /\ <<Server, Default>> \in Paths /\ <<m, s>>[1] = m /\ <<Server, Default>>[1] = Server
      BY DomainConstants DEF Paths
    <3>3. CASE m = Server
      BY <3>1, <3>2, <3>3 DEF OneEach
    <3>4. CASE m # Server
      <4>1. TableOf({row}) = {<<m, s>>, <<Server, Default>>}
        BY <3>1, <3>4
      <4>2. TableOf({row}) \in SUBSET Paths /\ <<m, s>> \in TableOf({row})
        <5>1. {<<m, s>>, <<Server, Default>>} \in SUBSET Paths
          BY <3>2
        <5>2. <<m, s>> \in {<<m, s>>, <<Server, Default>>}
          OBVIOUS
        <5> QED BY <4>1, <5>1, <5>2
      <4>3. OneEach({<<m, s>>, <<Server, Default>>})
        BY <3>2, <3>4 DEF OneEach
      <4> QED BY <4>1, <4>2, <4>3
    <3> QED BY <3>3, <3>4
  <2>9. TablesOk
    <3>1. keys \in [Paths -> 0 .. lastKey]
      BY <1>1, <2>5
    <3>2. lastId \in 0 .. MaxDomains /\ apps \in SUBSET Ids /\ lastKey \in Nat
      BY <1>2, <2>4, <2>5
    <3>3. lost \in SUBSET Names /\ drift \in BOOLEAN /\ met \in BOOLEAN
      BY <1>2a
    <3>4. table \in SUBSET Paths /\ OneEach(table)
      BY <2>5, <2>8
    <3> QED BY <2>6, <3>1, <3>2, <3>3, <3>4 DEF TablesOk
  <2>10. IdsLeft
    BY <1>6, <2>4, <2>5 DEF IdsLeft, Ids
  <2>11. TableInv
    BY <1>2, <2>5, <2>6 DEF TableInv
  <2>12. KeyInv
    <3>1. keys[<<m, s>>] = 1
      BY <1>1, <2>5, <2>8 DEF Paths
    <3> QED BY <2>2, <2>6, <3>1 DEF KeyInv, KeyOf
  <2>13. ServerKeyInv
    <3>1. CASE m = Server
      BY <2>2, <2>4, <2>5, <3>1 DEF ServerKeyInv, Registered
    <3>2. CASE m # Server
      <4>1. <<Server, Default>> \in TableOf({row})
        BY <2>2, <3>2 DEF TableOf
      <4>2. keys[<<Server, Default>>] = 1
        BY <1>1, <2>5, <4>1, DomainConstants DEF Paths
      <4> QED BY <4>2 DEF ServerKeyInv
    <3> QED BY <3>1, <3>2
  <2> QED BY <1>4, <1>5, <1>7, <2>7, <2>9, <2>10, <2>11, <2>12, <2>13 DEF SelInv, SelTyped
<1> QED BY <1>8, <1>9

-----------------------------------------------------------------------------
(* The signer's steps.                                                     *)

\* The panel is what it was.
LEMMA PanelSame ==
  ASSUME SelInv, UNCHANGED <<panel, drift, lost, met>>, SignTyped' PROVE SelInv'
<1>1. /\ UNCHANGED <<doms, lastId, apps, keys, lastKey, table, tableMu, op, drift, lost, met>>
  BY DEF panel, registry, files
<1>2. /\ Adding' = Adding /\ TableOf(ListDomains)' = TableOf(ListDomains) /\ Registered' = Registered
      /\ (\A p \in Goroutines : (InTable(p)' <=> InTable(p)) /\ (Owes(op[p])' <=> Owes(op[p])))
      /\ (\A p \in Goroutines, i \in Ids : Makes(op[p], i)' <=> Makes(op[p], i))
      /\ (\A i \in Ids : KeyOf(doms[i])' = KeyOf(doms[i]))
  BY <1>1 DEF Adding, TableOf, ListDomains, Registered, InTable, Owes, HalfDone, Makes, KeyOf
<1>3. OpsOk' /\ TablesOk' /\ NamedOnce' /\ IdsLeft'
  BY <1>1, <1>2 DEF SelInv, SelTyped, OpsOk, TablesOk, NamedOnce, IdsLeft
<1>4. Holder' /\ TableInv' /\ ServerKeyInv'
  BY <1>1, <1>2 DEF SelInv, SelTyped, Holder, TableInv, ServerKeyInv
<1>5. KeyInv'
  BY <1>1, <1>2 DEF SelInv, KeyInv
<1> QED BY <1>3, <1>4, <1>5 DEF SelInv, SelTyped

\* What a step of the signer keeps, and what it has signed.
SignsWhole ==
  ses'.signed /\ ses' # ses =>
    /\ ses.signer.path[1] = ses.login
    /\ ses.signer.head = ses.given /\ ses.signer.body = ses.chunks

LEMMA RefuseKeeps ==
  ASSUME Refuse PROVE SesOk' /\ SignsWhole
<1>1. ses' = NoMail /\ ~NoMail.signed
  BY DEF Refuse, NoMail
<1> HIDE DEF NoMail
<1> QED BY <1>1, NoMailIs DEF SignsWhole

LEMMA SignWithKeeps ==
  ASSUME SesOk, ses.at \in {"stat", "read"}, SignWith
  PROVE  SesOk' /\ SignsWhole
<1> DEFINE k == [path |-> ses.want, head |-> ses.kept, body |-> 0, closed |-> FALSE]
           n == [ses EXCEPT !.at = "body", !.stamp = 0, !.signer = k]
<1>1. ses \in SesType /\ ses.want \in Paths /\ ses.want[1] = ses.login /\ ses.kept = ses.given /\ ~ses.signed
  BY DEF SesOk
<1>2. ses.chunks = 0
  BY DEF SesOk
<1>3. ses' = n
  BY DEF SignWith
<1>4. k \in DKIMSigner /\ k.path = ses.want /\ k.head = ses.kept /\ k.body = 0 /\ k # None
  <2>1. ses.kept \in Nat
    BY <1>1 DEF SesType
  <2>2. k \in DKIMSigner
    BY <1>1, <2>1 DEF DKIMSigner
  <2>3. k # None
    BY <2>2, NoneIsNothing, Zenon
  <2> QED BY <2>2, <2>3
<1> HIDE DEF k
<1>5. /\ n \in SesType /\ n.at = "body" /\ n.signer = k /\ n.want = ses.want /\ n.login = ses.login
      /\ n.kept = ses.kept /\ n.given = ses.given /\ n.chunks = ses.chunks /\ ~n.signed
  BY <1>1, <1>4 DEF SesType
<1> HIDE DEF n
<1> QED BY <1>1, <1>2, <1>3, <1>4, <1>5 DEF SesOk, SignsWhole

\* Steps of the signer that change no key in memory.
LEMMA CacheSame ==
  ASSUME CacheOk, UNCHANGED <<panel, cache>> PROVE CacheOk'
<1>1. keys' = keys /\ lastKey' = lastKey /\ cache' = cache
  BY DEF panel, files
<1> QED BY <1>1 DEF CacheOk

LEMMA MessageKeeps ==
  ASSUME SignTyped, TablesOk, SignMessage PROVE SignTyped' /\ SignsWhole
<1>1. UNCHANGED <<panel, cache>> /\ ses.at = "idle"
  BY DEF SignMessage, SignStep
<1>2. CacheOk'
  BY <1>1, CacheSame DEF SignTyped
<1>3. PICK m \in Names \cup {None}, given \in 1 .. MaxParts, big \in BOOLEAN : Headers(m, given, big)
  BY DEF SignMessage
<1>4. CASE big \/ m = None
  <2>1. Refuse
    BY <1>3, <1>4 DEF Headers
  <2> QED BY <1>2, <2>1, RefuseKeeps DEF SignTyped
<1>5. CASE ~big /\ m # None
  <2> DEFINE n == [NoMail EXCEPT !.at = "table", !.login = m, !.given = given, !.kept = given]
  <2>1. ses' = n
    BY <1>3, <1>5 DEF Headers
  <2>2. given \in Nat
    BY <1>3, DomainConstants
  <2>3. /\ n \in SesType /\ n.at = "table" /\ n.kept = n.given /\ ~n.signed /\ n.signer = None /\ n.chunks = 0
    BY <1>3, <1>5, <2>2 DEF NoMail, SesType
  <2> HIDE DEF n
  <2>4. SesOk' /\ SignsWhole
    BY <2>1, <2>3 DEF SesOk, SignsWhole
  <2> QED BY <1>2, <2>4 DEF SignTyped
<1> QED BY <1>4, <1>5

LEMMA ReadTableKeeps ==
  ASSUME SignTyped, TablesOk, ReadTable PROVE SignTyped' /\ SignsWhole
<1>1. /\ UNCHANGED panel /\ ses.at = "table" /\ ses \in SesType /\ ses.kept = ses.given /\ ~ses.signed
      /\ cache' = [w \in Paths |-> IF w \in table THEN cache[w] ELSE None] /\ ses.signer = None /\ ses.chunks = 0
  BY DEF ReadTable, SignStep, SignTyped, SesOk
<1>2. CacheOk'
  <2>1. keys' = keys /\ lastKey' = lastKey
    BY <1>1 DEF panel, files
  <2>2. cache \in [Paths -> SignKey \cup {None}]
    BY DEF SignTyped, CacheOk
  <2>3. cache' \in [Paths -> SignKey \cup {None}]
    BY <1>1, <2>2
  <2>4. \A w \in Paths : cache'[w] # None => cache'[w] = cache[w]
    BY <1>1
  <2> QED BY <2>1, <2>3, <2>4 DEF SignTyped, CacheOk
<1>3. CASE Refuse
  BY <1>2, <1>3, RefuseKeeps DEF SignTyped
<1>4. ASSUME NEW w \in table, w[1] = ses.login, ses' = [ses EXCEPT !.at = "stat", !.want = w]
      PROVE  SesOk' /\ SignsWhole
  <2> DEFINE n == [ses EXCEPT !.at = "stat", !.want = w]
  <2>1. w \in Paths
    BY DEF TablesOk
  <2>2. /\ n \in SesType /\ n.at = "stat" /\ n.want = w /\ n.login = ses.login /\ n.kept = n.given /\ ~n.signed
        /\ n.signer = None /\ n.chunks = 0
    BY <1>1, <2>1 DEF SesType
  <2>3. ses' = n
    BY <1>4
  <2> HIDE DEF n
  <2> QED BY <1>4, <2>1, <2>2, <2>3 DEF SesOk, SignsWhole
<1> QED BY <1>2, <1>3, <1>4 DEF ReadTable, SignTyped

LEMMA StatKeyKeeps ==
  ASSUME SignTyped, TablesOk, StatKey PROVE SignTyped' /\ SignsWhole
<1>1. /\ UNCHANGED <<panel, cache>> /\ ses.at = "stat" /\ ses \in SesType /\ ses.kept = ses.given /\ ~ses.signed
      /\ ses.want \in Paths /\ ses.want[1] = ses.login /\ ses.signer = None /\ SesOk /\ ses.chunks = 0
  BY DEF StatKey, SignStep, SignTyped, SesOk
<1>2. CacheOk'
  BY <1>1, CacheSame DEF SignTyped
<1>3. CASE Refuse
  BY <1>2, <1>3, RefuseKeeps DEF SignTyped
<1>4. CASE SignWith
  BY <1>1, <1>2, <1>4, SignWithKeeps DEF SignTyped
<1>5. CASE keys[ses.want] # 0 /\ ses' = [ses EXCEPT !.at = "read", !.stamp = keys[ses.want]]
  <2> DEFINE v == keys[ses.want]
             n == [ses EXCEPT !.at = "read", !.stamp = v]
  <2>1. v \in 1 .. lastKey /\ v \in Nat
    BY <1>1, <1>5 DEF TablesOk
  <2>2. ses' = n
    BY <1>5
  <2>3. keys'[ses.want] = v /\ lastKey' = lastKey
    BY <1>1 DEF panel, files
  <2> HIDE DEF v
  <2>4. /\ n \in SesType /\ n.at = "read" /\ n.stamp = v /\ n.want = ses.want /\ n.login = ses.login
        /\ n.kept = n.given /\ ~n.signed /\ n.signer = None /\ n.chunks = 0
    BY <1>1, <2>1 DEF SesType
  <2> HIDE DEF n
  <2>5. SesOk' /\ SignsWhole
    BY <1>1, <2>1, <2>2, <2>3, <2>4 DEF SesOk, SignsWhole
  <2> QED BY <1>2, <2>5 DEF SignTyped
<1> QED BY <1>3, <1>4, <1>5 DEF StatKey

LEMMA ReadKeyKeeps ==
  ASSUME SignTyped, TablesOk, ReadKey PROVE SignTyped' /\ SignsWhole
<1>1. /\ UNCHANGED panel /\ ses.at = "read" /\ ses.want \in Paths /\ SesOk /\ CacheOk
      /\ ses.stamp \in 1 .. lastKey /\ (keys[ses.want] = 0 \/ ses.stamp <= keys[ses.want])
  BY DEF ReadKey, SignStep, SignTyped, SesOk
<1>2. CASE keys[ses.want] = 0
  <2>1. Refuse /\ UNCHANGED cache
    BY <1>2 DEF ReadKey
  <2>2. CacheOk'
    BY <1>1, <2>1, CacheSame
  <2> QED BY <2>1, <2>2, RefuseKeeps DEF SignTyped
<1>3. CASE keys[ses.want] # 0
  <2> DEFINE c == [stamp |-> ses.stamp, key |-> keys[ses.want]]
  <2>1. cache' = [cache EXCEPT ![ses.want] = c] /\ SignWith
    BY <1>3 DEF ReadKey
  <2>2. lastKey \in Nat /\ keys[ses.want] \in 1 .. lastKey
    BY <1>1, <1>3 DEF TablesOk
  <2>3. c \in SignKey /\ c.stamp <= c.key /\ c.key <= lastKey /\ c.key = keys[ses.want]
    BY <1>1, <1>3, <2>2 DEF SignKey
  <2> HIDE DEF c
  <2>4. keys' = keys /\ lastKey' = lastKey
    BY <1>1 DEF panel, files
  <2>5. cache \in [Paths -> SignKey \cup {None}]
    BY <1>1 DEF CacheOk
  <2>6. /\ cache' \in [Paths -> SignKey \cup {None}]
        /\ \A w \in Paths : cache'[w] = IF w = ses.want THEN c ELSE cache[w]
    BY <1>1, <2>1, <2>3, <2>5
  <2>7. CacheOk'
    <3> SUFFICES ASSUME NEW w \in Paths, cache'[w] # None
                 PROVE  /\ cache'[w].stamp <= cache'[w].key /\ cache'[w].key <= lastKey
                        /\ keys[w] = 0 \/ cache'[w].key <= keys[w]
      BY <2>4, <2>6 DEF CacheOk
    <3>1. CASE w = ses.want
      BY <2>2, <2>3, <2>6, <3>1
    <3>2. CASE w # ses.want
      BY <1>1, <2>6, <3>2 DEF CacheOk
    <3> QED BY <3>1, <3>2
  <2> QED BY <1>1, <2>1, <2>7, SignWithKeeps DEF SignTyped
<1> QED BY <1>2, <1>3

LEMMA BodyKeeps ==
  ASSUME SignTyped, TablesOk, Watch \/ BodyChunk \/ Body PROVE SignTyped' /\ SignsWhole
<1>1. /\ UNCHANGED <<panel, cache>> /\ ses.at = "body" /\ ses \in SesType /\ ses.kept = ses.given /\ ~ses.signed
      /\ ses.want \in Paths /\ ses.want[1] = ses.login /\ ses.signer # None /\ SesOk
      /\ ses.signer.path = ses.want /\ ses.signer.head = ses.given /\ ses.signer.body = ses.chunks
  BY DEF Watch, BodyChunk, Body, SignStep, SignTyped, SesOk
<1>2. CacheOk'
  BY <1>1, CacheSame DEF SignTyped
<1>3. ses.signer \in DKIMSigner /\ ses.chunks \in Nat
  BY <1>1 DEF SesType
<1>4. ASSUME NEW k \in DKIMSigner, NEW c \in Nat, NEW x \in BOOLEAN,
             k.path = ses.want, k.head = ses.given, k.body = c,
             ses' = [ses EXCEPT !.signer = k, !.chunks = c, !.expired = x]
      PROVE  SesOk' /\ SignsWhole
  <2> DEFINE n == [ses EXCEPT !.signer = k, !.chunks = c, !.expired = x]
  <2>1. k # None
    BY <1>4, NoneIsNothing, Zenon
  <2>2. /\ n \in SesType /\ n.at = "body" /\ n.signer = k /\ n.chunks = c /\ n.want = ses.want /\ n.login = ses.login
        /\ n.given = ses.given /\ n.kept = n.given /\ ~n.signed
    BY <1>1, <1>4 DEF SesType
  <2>3. ses' = n
    BY <1>4
  <2> HIDE DEF n
  <2> QED BY <1>1, <1>4, <2>1, <2>2, <2>3 DEF SesOk, SignsWhole
<1>5. CASE Watch
  <2> DEFINE k == [ses.signer EXCEPT !.closed = TRUE]
  <2>1. k \in DKIMSigner /\ k.path = ses.want /\ k.head = ses.given /\ k.body = ses.chunks
    BY <1>1, <1>3 DEF DKIMSigner
  <2>2. ses' = [ses EXCEPT !.signer = k, !.chunks = ses.chunks, !.expired = TRUE]
    BY <1>1, <1>5 DEF Watch, SesType
  <2> HIDE DEF k
  <2> QED BY <1>2, <1>3, <1>4, <2>1, <2>2 DEF SignTyped
<1>6. CASE BodyChunk
  <2>1. CASE Refuse
    BY <1>2, <2>1, RefuseKeeps DEF SignTyped
  <2>2. CASE ses' = [ses EXCEPT !.chunks = @ + 1, !.signer.body = @ + 1]
    <3> DEFINE k == [ses.signer EXCEPT !.body = @ + 1]
    <3>1. k \in DKIMSigner /\ k.path = ses.want /\ k.head = ses.given /\ k.body = ses.chunks + 1
      BY <1>1, <1>3 DEF DKIMSigner
    <3>2. ses' = [ses EXCEPT !.signer = k, !.chunks = ses.chunks + 1, !.expired = ses.expired]
      BY <1>1, <2>2 DEF SesType
    <3>3. ses.chunks + 1 \in Nat /\ ses.expired \in BOOLEAN
      BY <1>1, <1>3 DEF SesType
    <3> HIDE DEF k
    <3> QED BY <1>2, <1>4, <3>1, <3>2, <3>3 DEF SignTyped
  <2> QED BY <1>6, <2>1, <2>2 DEF BodyChunk
<1>7. CASE Body
  <2> DEFINE n == [NoMail EXCEPT !.signed = ~ses.expired]
  <2>1. ses' = n
    BY <1>7 DEF Body
  <2>2. ses.expired \in BOOLEAN
    BY <1>1 DEF SesType
  <2>3. n \in SesType /\ n.at = "idle" /\ n.kept = n.given /\ n.signer = None /\ n.chunks = 0
    BY <2>2 DEF NoMail, SesType
  <2> HIDE DEF n
  <2>4. SesOk'
    BY <2>1, <2>3 DEF SesOk
  <2>5. SignsWhole
    BY <1>1 DEF SignsWhole
  <2> QED BY <1>2, <2>4, <2>5 DEF SignTyped
<1> QED BY <1>5, <1>6, <1>7

LEMMA SignerKeeps ==
  ASSUME SelInv, Signer PROVE SelInv' /\ SignsWhole
<1>1. SignTyped /\ TablesOk
  BY DEF SelInv, SelTyped
<1>2. UNCHANGED <<panel, drift, lost, met>>
  BY DEF Signer, SignMessage, ReadTable, StatKey, ReadKey, Watch, BodyChunk, Body, Abort, SignStep
<1>3. ASSUME Abort PROVE SignTyped' /\ SignsWhole
  <2>1. CacheOk' /\ Refuse
    BY <1>1, <1>2, <1>3, CacheSame DEF Abort, SignTyped, Refuse
  <2> QED BY <2>1, RefuseKeeps DEF SignTyped
<1>4. SignTyped' /\ SignsWhole
  BY <1>1, <1>3, MessageKeeps, ReadTableKeeps, StatKeyKeeps, ReadKeyKeeps, BodyKeeps DEF Signer
<1> QED BY <1>2, <1>4, PanelSame

-----------------------------------------------------------------------------
(* The steps together.                                                     *)

LEMMA StepKeeps ==
  ASSUME SelInv, NEW p \in Goroutines, Step(p) PROVE SelInv'
BY AddKeeps, DeleteKeeps, GetKeeps, PurgeKeeps, SettingsKeep, KeyStatKeeps, KeyWriteKeeps, ImportKeyKeeps,
   UnkeyKeeps, ListKeeps, WriteKeeps, MapsKeep, NamesKeep, SweepKeeps DEF Step

LEMMA StutterKeeps ==
  ASSUME SelInv, UNCHANGED vars PROVE SelInv'
<1>1. UNCHANGED <<panel, drift, lost, met>> /\ UNCHANGED panel /\ cache' = cache /\ ses' = ses
  BY DEF vars, sign
<1>2. SignTyped'
  <2>1. keys' = keys /\ lastKey' = lastKey
    BY <1>1 DEF panel, files
  <2> QED BY <1>1, <2>1 DEF SelInv, SignTyped, CacheOk, SesOk
<1> QED BY <1>1, <1>2, PanelSame

\* The signer's variables are the panel's to replace only at its start.
LEMMA OnlySigner ==
  ASSUME NEW p, Start(p) \/ Step(p) \/ CallFails(p) PROVE ses' = ses
<1>1. CASE Start(p)
  BY <1>1 DEF Start, HandleAddDomain, HandleImportDomain, HandleDeleteDomain, HandleReload, ServerMail, Begin, sign
<1>2. CASE Step(p)
  BY <1>2 DEF Step, AddDomain, DeleteDomain, GetDomain, PurgeApplications, ImportSettings, EnsureKeyStat,
              EnsureKeyWrite, ImportKey, RemoveDeletedKey, List, WriteTable, ResyncMaps, KeepNames, KeyDomains,
              SweepKeys, Unchanged, sign
<1>3. CASE CallFails(p)
  BY <1>3 DEF CallFails, sign
<1> QED BY <1>1, <1>2, <1>3

LEMMA NextKeeps == SelInv /\ [Next]_vars => SelInv'
<1> SUFFICES ASSUME SelInv, [Next]_vars PROVE SelInv'
  OBVIOUS
<1>1. ASSUME NEW p \in Reqs, Start(p) PROVE SelInv'
  BY <1>1, StartKeeps
<1>2. ASSUME NEW p \in Goroutines, Step(p) \/ CallFails(p) PROVE SelInv'
  BY <1>2, StepKeeps, CallFailsKeeps
<1> QED BY <1>1, <1>2, SignerKeeps, CrashKeeps, StutterKeeps DEF Next, Rest

\* Every row, key, table line, request and signature keeps its form; whoever
\* holds tableMu is rewriting the table; a row or a table that is not as it
\* should be yet belongs to a request that will make it so, or has been left
\* that way by a failure that is on record (domain.Service, SignKeys).
THEOREM SelectorInvariant == Spec => []SelInv
<1>1. Init => SelInv
  BY InitKeeps
<1>2. SelInv /\ [Next]_vars => SelInv'
  BY NextKeeps
<1> QED BY <1>1, <1>2, PTL DEF Spec

-----------------------------------------------------------------------------
(* The properties.                                                         *)

\* Names stay unique, ids within the sequence, the table names a domain once,
\* tableMu is held by the one that rewrites, and a key in memory is one that
\* was read (domain.Service, Keys, SignKeys).
THEOREM SelectorTypesHold == Spec => []TypeOK
<1>1. SelInv => TypeOK
  <2> SUFFICES ASSUME SelInv PROVE TypeOK
    OBVIOUS
  <2>1. OpsOk /\ Holder /\ TablesOk /\ CacheOk /\ SesOk
    BY DEF SelInv, SelTyped, SignTyped
  <2>2. /\ \A i \in Ids : doms[i] # None => doms[i] \in Domain
        /\ lastId \in 0 .. MaxDomains /\ apps \subseteq Ids
        /\ keys \in [Paths -> 0 .. lastKey] /\ table \subseteq Paths
        /\ \A v, w \in table : v[1] = w[1] => v = w
        /\ lost \subseteq Names
    BY <2>1 DEF TablesOk, OneEach
  <2>3. {drift, met} \subseteq BOOLEAN
    BY <2>1 DEF TablesOk
  <2>4. \A p \in Goroutines : InTable(p) = (tableMu = p)
    <3>1. \A p \in Goroutines : InTable(p) <=> (tableMu = p)
      BY <2>1 DEF Holder
    <3> QED BY <3>1 DEF InTable
  <2>5. \A w \in Paths : cache[w] # None => cache[w] \in [stamp : 1 .. lastKey, key : 1 .. lastKey]
    <3> SUFFICES ASSUME NEW w \in Paths, cache[w] # None
                 PROVE  cache[w] \in [stamp : 1 .. lastKey, key : 1 .. lastKey]
      OBVIOUS
    <3>1. cache[w] \in SignKey /\ cache[w].stamp <= cache[w].key /\ cache[w].key <= lastKey /\ lastKey \in Nat
      BY <2>1 DEF CacheOk, TablesOk
    <3> QED BY <3>1 DEF SignKey
  <2>6. ses.kept <= ses.given /\ (ses.at = "body") = (ses.signer # None)
    <3>1. ses.kept \in Nat /\ ses.kept = ses.given /\ (ses.at = "body" <=> ses.signer # None)
      BY <2>1 DEF SesOk, SesType
    <3> QED BY <3>1
  <2> QED BY <2>2, <2>3, <2>4, <2>5, <2>6 DEF TypeOK
<1> QED BY <1>1, SelectorInvariant, PTL

\* With every request over and no rewrite failed, the selector table is what
\* the registry asks for, whatever additions, deletions, imports, reloads and
\* starts of the signer were listing and writing at once (resync, tableMu).
THEOREM TableAlwaysFollows == Spec => []TableFollowsRegistry
<1>1. SelInv => TableFollowsRegistry
  <2> SUFFICES ASSUME SelInv, Quiet, ~drift PROVE table = TableOf(ListDomains)
    BY DEF TableFollowsRegistry
  <2>1. \A p \in Goroutines : ~Owes(op[p]) /\ ~InTable(p)
    BY DEF Quiet, Owes, HalfDone, InTable, Ended
  <2> QED BY <2>1 DEF SelInv, TableInv
<1> QED BY <1>1, SelectorInvariant, PTL

\* And every name it signs for has its key file, the server's own too, unless
\* the key was removed while the name was registered, or a rollback that failed
\* or a kill left a row without one (Add, Delete, Resync, EnsureKey).
THEOREM EveryNameAlwaysHasItsKey == Spec => []EveryNameHasItsKey
<1>1. SelInv => EveryNameHasItsKey
  <2> SUFFICES ASSUME SelInv, Quiet, ~drift, NEW w \in TableOf(ListDomains)
               PROVE  keys[w] # 0 \/ w[1] \in lost
    BY DEF EveryNameHasItsKey
  <2>1. ASSUME NEW row \in ListDomains, w = <<row.name, row.sel>> PROVE keys[w] # 0 \/ w[1] \in lost
    <3>1. PICK i \in Ids : doms[i] # None /\ doms[i] = row
      BY DEF ListDomains
    <3>2. \A p \in Goroutines : ~Makes(op[p], i)
      BY DEF Quiet, Makes, HalfDone, Ended
    <3>3. KeyOf(doms[i]) # 0 \/ doms[i].name \in lost
      BY <3>1, <3>2 DEF SelInv, KeyInv
    <3> QED BY <2>1, <3>1, <3>3 DEF KeyOf
  <2>2. CASE w = <<Server, Default>> /\ ~\E row \in ListDomains : row.name = Server
    <3>1. Server \notin Registered
      BY <2>2 DEF Registered, ListDomains
    <3>2. \A p \in Goroutines : op[p].at \notin {"list", "srvStat", "srvGen"}
      BY DEF Quiet, Ended
    <3> QED BY <2>2, <3>1, <3>2 DEF SelInv, ServerKeyInv
  <2> QED BY <2>1, <2>2 DEF TableOf
<1> QED BY <1>1, SelectorInvariant, PTL

\* A key in memory that passes for the file's is the file's, however a domain
\* is deleted and imported again between the stamp and the reading
\* (SignKeys.Lookup).
THEOREM CacheStaysCurrent == Spec => []CacheCurrent
<1>1. SelInv => CacheCurrent
  <2> SUFFICES ASSUME SelInv, NEW w \in Paths, cache[w] # None, cache[w].stamp = keys[w]
               PROVE  cache[w].key = keys[w]
    BY DEF CacheCurrent
  <2>1. cache[w] \in SignKey /\ cache[w].stamp <= cache[w].key /\ (keys[w] = 0 \/ cache[w].key <= keys[w])
    BY DEF SelInv, SignTyped, CacheOk
  <2> QED BY <2>1 DEF SignKey
<1> QED BY <1>1, SelectorInvariant, PTL

\* A signature is of the whole message, with a key of its login's domain:
\* nothing of an earlier message on the connection, refused, aborted or
\* expired, is left in it or missing from it (signSession, watch).
THEOREM SignedAlwaysWhole == Spec => SignedWhole
<1>1. SelInv /\ [Next]_vars => SignsWhole
  <2> SUFFICES ASSUME SelInv, [Next]_vars, ses' # ses PROVE SignsWhole
    BY DEF SignsWhole
  <2>1. CASE Crash
    <3>1. ses' = NoMail
      BY <2>1 DEF Crash
    <3> QED BY <3>1 DEF NoMail, SignsWhole
  <2>2. ASSUME NEW p, Start(p) \/ Step(p) \/ CallFails(p) PROVE FALSE
    BY <2>2, OnlySigner
  <2>3. CASE UNCHANGED vars
    BY <2>3 DEF vars, sign
  <2> QED BY <2>1, <2>2, <2>3, SignerKeeps DEF Next, Rest
<1>2. SignsWhole /\ SelInv /\ [Next]_vars =>
        [ses'.signed /\ ses' # ses =>
           /\ ses.signer.path[1] = ses.login
           /\ ses.signer.head = ses.given /\ ses.signer.body = ses.chunks]_vars
  BY DEF SignsWhole
<1>3. SelInv /\ [Next]_vars =>
        [ses'.signed /\ ses' # ses =>
           /\ ses.signer.path[1] = ses.login
           /\ ses.signer.head = ses.given /\ ses.signer.body = ses.chunks]_vars
  BY <1>1, <1>2
<1> QED BY <1>3, SelectorInvariant, PTL DEF Spec, SignedWhole

-----------------------------------------------------------------------------
(* An import that fails.                                                   *)

NoLineOf(t, n) == \A w \in t : w[1] # n
HasRow(o) == doms[o.id] # None /\ doms[o.id].name = o.name

\* What an undoing that has not failed has left of its domain, once the row is
\* gone.
RowGone(o) ==
  /\ o.name \notin Registered /\ o.id \notin apps
  /\ o.at \in {"srvStat", "srvGen", "write"} => NoLineOf(o.rows, o.name)
  /\ o.at \in {"maps", "unkey"} \cup Ended => NoLineOf(table, o.name)
  /\ o.at \in Ended => \A s \in Selectors : keys[<<o.name, s>>] = 0

\* An import has its row as long as it is under way, and its undoing until it
\* takes the row away.
Undoing(o) ==
  /\ o.kind \in {"import", "undo"} => o.name # Server /\ (o.bad \/ o.rebuilt)
  /\ o.kind = "import" /\ o.at \notin {"row"} \cup Ended => HasRow(o)
  /\ o.kind = "undo" /\ o.at \in {"get", "purge", "drop"} => HasRow(o) /\ (o.at = "drop" => o.id \notin apps)
  /\ o.kind = "undo" /\ o.at \notin {"get", "purge", "drop"} /\ ~o.bad => RowGone(o)

Alone(p) == \A q \in Goroutines \ {p} : op[q] = Blank

UndoInv == met \/ \E p \in Goroutines : Alone(p) /\ Undoing(op[p])

LEMMA GotoIs ==
  ASSUME OpsOk, NEW p \in Goroutines, NEW s, Goto(p, s)
  PROVE  op'[p].at = s /\ SameBut(op[p], op'[p]) /\ OthersSame(p)
<1>1. op[p] \in OpType /\ op' = [op EXCEPT ![p] = [op[p] EXCEPT !.at = s]]
  BY DEF OpsOk, Goto
<1>2. op'[p] = [op[p] EXCEPT !.at = s] /\ OthersSame(p)
  BY <1>1 DEF OpsOk, OthersSame
<1> QED BY <1>1, <1>2 DEF OpType, SameBut

\* Of a request that is neither an import nor its undoing nothing is said.
LEMMA NoUndoing ==
  ASSUME NEW o, o.kind \notin {"import", "undo"} PROVE Undoing(o)
BY DEF Undoing

\* A call that fails makes an import an undoing, and an undoing a bad one.
LEMMA UndoFails ==
  ASSUME SelInv, NEW p \in Goroutines, Failed(p), op[p].at \notin Ended, UNCHANGED doms, Undoing(op[p])
  PROVE  Undoing(op[p])' /\ OthersSame(p)
<1> DEFINE o == op[p]  n == WhenItFails(p)
<1>1. OpOk(o) /\ o \in OpType /\ OpsOk
  BY OpIs
<1>2. op' = [op EXCEPT ![p] = n]
  BY DEF Failed
<1>3. op'[p] = n /\ OthersSame(p)
  BY <1>1, <1>2 DEF OpsOk, OthersSame
<1>4. CASE o.kind = "import" /\ o.at # "row"
  <2>1. n = [o EXCEPT !.kind = "undo", !.at = "get"]
    BY <1>4 DEF WhenItFails
  <2>2. n.kind = "undo" /\ n.at = "get" /\ n.id = o.id /\ n.name = o.name /\ n.bad = o.bad /\ n.rebuilt = o.rebuilt
    BY <1>1, <2>1 DEF OpType
  <2> HIDE DEF n
  <2>3. HasRow(o) /\ o.name # Server /\ (o.bad \/ o.rebuilt)
    BY <1>4 DEF Undoing
  <2> QED BY <1>3, <2>2, <2>3 DEF Undoing, HasRow
<1>5. CASE o.kind = "import" /\ o.at = "row"
  <2>1. n = [o EXCEPT !.at = "err", !.bad = TRUE]
    BY <1>5 DEF WhenItFails
  <2>2. n.kind = "import" /\ n.at = "err" /\ n.name = o.name /\ n.bad = TRUE
    BY <1>1, <1>5, <2>1 DEF OpType
  <2> HIDE DEF n
  <2> QED BY <1>3, <1>5, <2>2 DEF Undoing, Ended
<1>6. CASE o.kind = "undo"
  <2>1. n.kind = "undo" /\ n.at \notin {"get", "purge", "drop"} /\ n.name = o.name /\ n.bad = TRUE
    <3>1. CASE o.at \in {"list", "srvStat", "srvGen", "write"}
      <4>1. n = [o EXCEPT !.at = "maps", !.bad = TRUE, !.rebuilt = FALSE]
        BY <1>6, <3>1 DEF WhenItFails
      <4> QED BY <1>1, <1>6, <4>1 DEF OpType
    <3>2. CASE o.at = "maps"
      <4>1. n = [o EXCEPT !.at = AfterMaps(p), !.bad = TRUE]
        BY <1>6, <3>2 DEF WhenItFails
      <4>2. n.kind = "undo" /\ n.at = AfterMaps(p) /\ n.name = o.name /\ n.bad = TRUE
        BY <1>1, <1>6, <4>1 DEF OpType
      <4> HIDE DEF n
      <4> QED BY <4>2, AfterMapsIs
    <3>3. CASE o.at \notin {"list", "srvStat", "srvGen", "write", "maps"}
      <4>1. n = [o EXCEPT !.at = "err", !.bad = TRUE]
        BY <1>6, <3>3 DEF WhenItFails
      <4> QED BY <1>1, <1>6, <4>1 DEF OpType
    <3> QED BY <3>1, <3>2, <3>3
  <2> HIDE DEF n
  <2> QED BY <1>3, <1>6, <2>1 DEF Undoing
<1>7. CASE o.kind \notin {"import", "undo"}
  <2>1. n.kind = o.kind
    BY <1>1, <1>7 DEF WhenItFails, OpType
  <2> HIDE DEF n
  <2>2. op'[p].kind \notin {"import", "undo"}
    BY <1>3, <1>7, <2>1
  <2> QED BY <1>3, <2>2 DEF Undoing
<1> QED BY <1>3, <1>4, <1>5, <1>6, <1>7

\* An import that goes on keeps its row.
LEMMA ImportGoes ==
  ASSUME NEW p \in Goroutines, op[p].kind = "import", op[p].at \notin {"row"} \cup Ended, Undoing(op[p]),
         op'[p].kind = op[p].kind, op'[p].id = op[p].id, op'[p].name = op[p].name, op'[p].bad = op[p].bad,
         op'[p].rebuilt = op[p].rebuilt, UNCHANGED doms
  PROVE  Undoing(op[p])'
BY DEF Undoing, HasRow

\* An undoing that goes on once the row is gone.
LEMMA GoneGoes ==
  ASSUME NEW p \in Goroutines, op[p].kind = "undo", op[p].at \notin {"get", "purge", "drop"}, Undoing(op[p]),
         op'[p].kind = op[p].kind, op'[p].id = op[p].id, op'[p].name = op[p].name, op'[p].bad = op[p].bad,
         op'[p].rebuilt = op[p].rebuilt, op'[p].at \notin {"get", "purge", "drop"}, UNCHANGED <<doms, apps>>,
         RowGone(op[p]) /\ ~op[p].bad =>
            /\ op'[p].at \in {"srvStat", "srvGen", "write"} => NoLineOf(op'[p].rows, op[p].name)
            /\ op'[p].at \in {"maps", "unkey"} \cup Ended => NoLineOf(table', op[p].name)
            /\ op'[p].at \in Ended => \A s \in Selectors : keys'[<<op[p].name, s>>] = 0
  PROVE  Undoing(op[p])'
<1>1. Registered' = Registered
  BY DEF Registered
<1>2. ~op'[p].bad => RowGone(op[p])'
  BY <1>1 DEF Undoing, RowGone, NoLineOf
<1> QED BY <1>2 DEF Undoing

LEMMA UndoGoto ==
  ASSUME SelInv, NEW p \in Goroutines, Undoing(op[p]), op[p].at \notin Ended, NEW s, Goto(p, s),
         UNCHANGED doms, op[p].at = "row" => op[p].kind # "import",
         op[p].kind = "undo" =>
            /\ op[p].at \notin {"get", "purge", "drop"} /\ s \notin {"get", "purge", "drop"} /\ UNCHANGED apps
            /\ RowGone(op[p]) /\ ~op[p].bad =>
                 /\ s \in {"srvStat", "srvGen", "write"} => NoLineOf(op[p].rows, op[p].name)
                 /\ s \in {"maps", "unkey"} \cup Ended => NoLineOf(table', op[p].name)
                 /\ s \in Ended => \A t \in Selectors : keys'[<<op[p].name, t>>] = 0
  PROVE  Undoing(op[p])' /\ OthersSame(p)
<1>1. op'[p].at = s /\ SameBut(op[p], op'[p]) /\ OthersSame(p)
  BY OpIs, GotoIs
<1>2. CASE op[p].kind = "import"
  BY <1>1, <1>2, ImportGoes DEF SameBut
<1>3. CASE op[p].kind = "undo"
  BY <1>1, <1>3, GoneGoes DEF SameBut
<1>4. CASE op[p].kind \notin {"import", "undo"}
  BY <1>1, <1>4 DEF SameBut, Undoing
<1> QED BY <1>1, <1>2, <1>3, <1>4

LEMMA UndoRows ==
  ASSUME SelInv, SelInv', NEW p \in Goroutines, Undoing(op[p]),
         AddDomain(p) \/ DeleteDomain(p) \/ GetDomain(p) \/ PurgeApplications(p) \/ ImportSettings(p)
  PROVE  Undoing(op[p])' /\ OthersSame(p)
<1>1. OpOk(op[p]) /\ op[p] \in OpType /\ OpsOk /\ TablesOk /\ NamedOnce
  BY OpIs DEF SelInv, SelTyped
<1>2. /\ op[p].at = "row" => op[p].kind \in {"add", "import"}
      /\ op[p].at = "undo" => op[p].kind = "add"
      /\ op[p].at = "settings" => op[p].kind = "import"
      /\ op[p].at \in {"get", "purge", "drop"} => op[p].kind \in {"delete", "undo"}
  BY <1>1, KindOf
<1>3. CASE AddDomain(p)
  <2>1. op[p].at = "row" /\ op[p].at \notin Ended
    BY <1>3 DEF AddDomain, At, Ended
  <2>2. CASE Failed(p) /\ UNCHANGED doms
    BY <2>1, <2>2, UndoFails
  <2>3. CASE ~(Failed(p) /\ UNCHANGED doms)
    <3> DEFINE s == IF op[p].kind = "add" THEN "stat" ELSE "key"
               n == [op[p] EXCEPT !.id = lastId', !.at = s]
    <3>1. /\ doms' = [doms EXCEPT ![lastId'] = [name |-> op[p].name, sel |-> op[p].sel]]
          /\ op' = [op EXCEPT ![p] = n]
      BY <1>1, <1>3, <2>3 DEF AddDomain, OpsOk
    <3>2. n.id = lastId' /\ n.at = s /\ n.kind = op[p].kind /\ n.name = op[p].name /\ n.bad = op[p].bad /\ n.rebuilt = op[p].rebuilt
      BY <1>1 DEF OpType
    <3> HIDE DEF n
    <3>3. op'[p] = n /\ OthersSame(p)
      BY <1>1, <3>1 DEF OpsOk, OthersSame
    <3>4. CASE op[p].kind = "add"
      BY <3>2, <3>3, <3>4 DEF Undoing
    <3>5. CASE op[p].kind = "import"
      <4>1. OpOk(op[p])'
        BY DEF SelInv, SelTyped, OpsOk
      <4>2. lastId' \in Ids
        BY <3>2, <3>3, <3>5, <4>1 DEF OpOk, Ended
      <4>3. doms'[lastId'] = [name |-> op[p].name, sel |-> op[p].sel] /\ doms'[lastId'] # None
        <5>1. op[p].name \in Names /\ op[p].sel \in Selectors
          BY <1>1, <3>5 DEF OpOk
        <5>2. [name |-> op[p].name, sel |-> op[p].sel] \in Domain
          BY <5>1 DEF Domain
        <5> QED BY <1>1, <3>1, <4>2, <5>2, NoneIsNothing DEF TablesOk
      <4>4. HasRow(op[p])'
        BY <3>2, <3>3, <4>3 DEF HasRow
      <4> QED BY <3>2, <3>3, <3>5, <4>4 DEF Undoing
    <3> QED BY <1>2, <2>1, <3>3, <3>4, <3>5
  <2> QED BY <2>2, <2>3
<1>4. CASE DeleteDomain(p)
  <2>1. op[p].at \in {"drop", "undo"} /\ op[p].at \notin Ended /\ apps' = apps
    BY <1>4 DEF DeleteDomain, Ended, Unchanged
  <2>2. PICK s : Goto(p, s)
    BY <1>4 DEF DeleteDomain
  <2>3. op'[p].at = s /\ SameBut(op[p], op'[p]) /\ OthersSame(p)
    BY <1>1, <2>2, GotoIs
  <2>4. CASE op[p].kind # "undo"
    <3>1. op'[p].kind \notin {"import", "undo"}
      BY <1>2, <2>1, <2>3, <2>4 DEF SameBut
    <3> QED BY <2>3, <3>1 DEF Undoing
  <2>5. CASE op[p].kind = "undo"
    <3>1. op[p].at = "drop" /\ HasRow(op[p]) /\ op[p].id \notin apps /\ op[p].name # Server /\ (op[p].bad \/ op[p].rebuilt)
      BY <1>2, <2>1, <2>5 DEF Undoing
    <3>2. op[p].id \in Ids
      BY <1>1, <2>5, <3>1 DEF OpOk, Ended
    <3>3. doms' = [doms EXCEPT ![op[p].id] = None] /\ Goto(p, "list")
      BY <1>4, <3>1 DEF DeleteDomain, HasRow, At
    <3>4. op'[p].at = "list"
      BY <1>1, <3>3, GotoIs
    <3>5. op[p].name \notin Registered'
      <4>1. SUFFICES ASSUME NEW i \in Ids, doms'[i] # None, doms'[i].name = op[p].name PROVE FALSE
        BY DEF Registered
      <4>2. i # op[p].id /\ doms'[i] = doms[i]
        BY <1>1, <3>2, <3>3, <4>1 DEF TablesOk
      <4> QED BY <1>1, <3>1, <3>2, <4>1, <4>2 DEF NamedOnce, HasRow
    <3>6. RowGone(op[p])'
      BY <2>1, <2>3, <3>1, <3>4, <3>5 DEF RowGone, SameBut, Ended
    <3> QED BY <2>3, <2>5, <3>1, <3>4, <3>6 DEF Undoing, SameBut
  <2> QED BY <2>4, <2>5
<1>5. CASE GetDomain(p)
  <2>1. op[p].at = "get" /\ op[p].at \notin Ended /\ UNCHANGED doms
    BY <1>5 DEF GetDomain, At, Ended, Unchanged, registry
  <2>2. CASE Failed(p)
    BY <2>1, <2>2, UndoFails
  <2>3. CASE Goto(p, "purge")
    <3>1. op'[p].at = "purge" /\ SameBut(op[p], op'[p]) /\ OthersSame(p)
      BY <1>1, <2>3, GotoIs
    <3>2. CASE op[p].kind = "undo"
      BY <2>1, <3>1, <3>2 DEF Undoing, SameBut, HasRow
    <3>3. CASE op[p].kind # "undo"
      BY <1>2, <2>1, <3>1, <3>3 DEF Undoing, SameBut
    <3> QED BY <3>1, <3>2, <3>3
  <2> QED BY <1>5, <2>2, <2>3 DEF GetDomain
<1>6. CASE PurgeApplications(p)
  <2>1. op[p].at = "purge" /\ apps' = apps \ {op[p].id} /\ Goto(p, "drop") /\ UNCHANGED doms
    BY <1>6 DEF PurgeApplications, At, Unchanged
  <2>2. op'[p].at = "drop" /\ SameBut(op[p], op'[p]) /\ OthersSame(p)
    BY <1>1, <2>1, GotoIs
  <2>3. CASE op[p].kind = "undo"
    BY <2>1, <2>2, <2>3 DEF Undoing, SameBut, HasRow
  <2>4. CASE op[p].kind # "undo"
    BY <1>2, <2>1, <2>2, <2>4 DEF Undoing, SameBut
  <2> QED BY <2>2, <2>3, <2>4
<1>7. CASE ImportSettings(p)
  <2>1. op[p].at = "settings" /\ op[p].kind = "import" /\ op[p].at \notin Ended /\ UNCHANGED doms
    BY <1>2, <1>7 DEF ImportSettings, At, Ended, Unchanged
  <2>2. CASE Failed(p)
    BY <2>1, <2>2, UndoFails
  <2>3. CASE Goto(p, "maps")
    BY <2>1, <2>3, UndoGoto
  <2> QED BY <1>7, <2>2, <2>3 DEF ImportSettings
<1> QED BY <1>3, <1>4, <1>5, <1>6, <1>7

LEMMA UndoFiles ==
  ASSUME SelInv, NEW p \in Goroutines, Undoing(op[p]),
         \/ EnsureKeyStat(p) \/ EnsureKeyWrite(p) \/ ImportKey(p) \/ RemoveDeletedKey(p)
         \/ List(p) \/ WriteTable(p) \/ ResyncMaps(p)
  PROVE  Undoing(op[p])' /\ OthersSame(p)
<1>1. OpOk(op[p]) /\ op[p] \in OpType /\ OpsOk /\ TablesOk
  BY OpIs
<1>2. /\ op[p].at \in {"stat", "gen"} => op[p].kind \in {"add", "server"}
      /\ op[p].at = "key" => op[p].kind = "import"
      /\ op[p].at = "maps" => op[p].kind \in {"import", "delete", "undo"}
      /\ op[p].at = "unkey" => op[p].kind \in {"delete", "undo"}
  BY <1>1, KindOf
<1>3. /\ UNCHANGED <<doms, apps>>
      /\ op[p].at \in {"stat", "srvStat", "gen", "srvGen", "key", "unkey", "list", "write", "maps"}
  BY DEF EnsureKeyStat, EnsureKeyWrite, ImportKey, RemoveDeletedKey, List, WriteTable, ResyncMaps, Unchanged, registry, At
<1>4. op[p].at \notin Ended
  BY <1>3 DEF Ended
<1>5. CASE EnsureKeyStat(p) \/ EnsureKeyWrite(p)
  <2>1. PICK s \in {"write", "list", "ok", "gen", "srvGen"} : Goto(p, s) /\ (op[p].at \in {"srvStat", "srvGen"} => s \in {"write", "srvGen"})
    BY <1>5 DEF EnsureKeyStat, EnsureKeyWrite, AfterKey, InTable, At
  <2>2. op[p].at \in {"stat", "srvStat", "gen", "srvGen"}
    BY <1>5 DEF EnsureKeyStat, EnsureKeyWrite
  <2>3. op[p].kind = "undo" => op[p].at \in {"srvStat", "srvGen"}
    BY <1>2, <2>2
  <2>4. RowGone(op[p]) /\ op[p].kind = "undo" => NoLineOf(op[p].rows, op[p].name)
    BY <2>3 DEF RowGone
  <2> QED BY <1>3, <1>4, <2>1, <2>2, <2>3, <2>4, UndoGoto DEF Ended
<1>6. CASE ImportKey(p)
  BY <1>2, <1>3, <1>4, <1>6, UndoGoto DEF ImportKey, At
<1>7. CASE RemoveDeletedKey(p)
  <2>1. /\ op[p].at = "unkey" /\ Goto(p, DeleteEnd(p)) /\ table' = table
        /\ keys' = [w \in Paths |-> IF w[1] = op[p].name THEN 0 ELSE keys[w]]
    BY <1>7 DEF RemoveDeletedKey, RemoveKey, At
  <2>2. op[p].kind = "undo" => op[p].name \in Names /\ DeleteEnd(p) = "err"
    BY <1>1 DEF OpOk, DeleteEnd
  <2>3. op[p].kind = "undo" => \A t \in Selectors : keys'[<<op[p].name, t>>] = 0
    BY <2>1, <2>2 DEF Paths
  <2>4. RowGone(op[p]) => NoLineOf(table', op[p].name)
    BY <2>1 DEF RowGone
  <2> QED BY <1>3, <1>4, <2>1, <2>2, <2>3, <2>4, UndoGoto
<1>8. CASE List(p)
  <2> DEFINE s == IF Server \in Registered THEN "write" ELSE "srvStat"
             t == TableOf(ListDomains)
             n == [op[p] EXCEPT !.rows = t, !.at = s]
  <2>1. op' = [op EXCEPT ![p] = n] /\ op[p].at = "list"
    BY <1>1, <1>8 DEF List, OpsOk, At
  <2>2. /\ n.at = s /\ n.rows = t /\ n.kind = op[p].kind /\ n.id = op[p].id /\ n.name = op[p].name
        /\ n.bad = op[p].bad /\ n.rebuilt = op[p].rebuilt
    BY <1>1 DEF OpType
  <2> HIDE DEF n
  <2>3. op'[p] = n /\ OthersSame(p)
    BY <1>1, <2>1 DEF OpsOk, OthersSame
  <2>4. CASE op[p].kind = "import"
    BY <1>3, <1>4, <2>1, <2>2, <2>3, <2>4, ImportGoes
  <2>5. CASE op[p].kind = "undo"
    <3>1. op[p].name # Server
      BY <2>5 DEF Undoing
    <3>2. RowGone(op[p]) => NoLineOf(t, op[p].name)
      BY <3>1 DEF RowGone, NoLineOf, TableOf, ListDomains, Registered
    <3>3. s \in {"write", "srvStat"}
      OBVIOUS
    <3> HIDE DEF s, t
    <3> QED BY <1>3, <2>1, <2>2, <2>3, <2>5, <3>2, <3>3, GoneGoes DEF Ended
  <2>6. CASE op[p].kind \notin {"import", "undo"}
    BY <2>2, <2>3, <2>6 DEF Undoing
  <2> QED BY <2>3, <2>4, <2>5, <2>6
<1>9. CASE WriteTable(p)
  <2>1. op[p].at = "write" /\ Goto(p, AfterWrite(op[p].kind)) /\ table' = op[p].rows
    BY <1>9 DEF WriteTable, At
  <2>2. op[p].kind = "undo" => AfterWrite(op[p].kind) = "maps"
    BY DEF AfterWrite
  <2>3. RowGone(op[p]) => NoLineOf(table', op[p].name)
    BY <2>1 DEF RowGone
  <2> QED BY <1>3, <1>4, <2>1, <2>2, <2>3, UndoGoto DEF Ended
<1>10. CASE ResyncMaps(p)
  <2>1. op[p].at = "maps" /\ Goto(p, IF op[p].kind = "import" THEN "ok" ELSE AfterMaps(p)) /\ table' = table
    BY <1>10 DEF ResyncMaps, At, Unchanged, files
  <2>2. op[p].kind = "undo" => Goto(p, AfterMaps(p)) /\ AfterMaps(p) \in {"unkey", "ok", "err"}
    BY <2>1, AfterMapsIs
  <2>3. op[p].kind = "undo" /\ ~op[p].bad => AfterMaps(p) = "unkey"
    BY DEF Undoing, AfterMaps
  <2>4. RowGone(op[p]) => NoLineOf(table', op[p].name)
    BY <2>1 DEF RowGone
  <2>5. CASE op[p].kind = "undo"
    BY <1>3, <1>4, <2>1, <2>2, <2>3, <2>4, <2>5, UndoGoto DEF Ended
  <2>6. CASE op[p].kind # "undo"
    BY <1>3, <1>4, <2>1, <2>6, UndoGoto
  <2> QED BY <2>5, <2>6
<1> QED BY <1>5, <1>6, <1>7, <1>8, <1>9, <1>10

\* The sweep of the key directories is a reload's.
LEMMA UndoSweeps ==
  ASSUME SelInv, NEW p \in Goroutines, KeepNames(p) \/ KeyDomains(p) \/ SweepKeys(p)
  PROVE  Undoing(op[p])' /\ OthersSame(p)
<1>1. OpOk(op[p]) /\ op[p] \in OpType /\ OpsOk
  BY OpIs
<1>2. op[p].at \in {"keep", "dirs", "sweep"} /\ op[p].kind = "reload"
  BY <1>1, KindOf DEF KeepNames, KeyDomains, SweepKeys, At
<1>3. PICK d : d.kind = op[p].kind /\ op' = [op EXCEPT ![p] = d]
  <2>1. CASE KeepNames(p)
    <3> DEFINE d == [op[p] EXCEPT !.at = "dirs", !.names = Registered \cup {Server}]
    <3>1. d.kind = op[p].kind /\ op' = [op EXCEPT ![p] = d]
      BY <1>1, <2>1 DEF KeepNames, OpsOk, OpType
    <3> QED BY <3>1
  <2>2. CASE KeyDomains(p)
    <3> DEFINE m == {w[1] : w \in {v \in Paths : keys[v] # 0}}
               d == [op[p] EXCEPT !.at = "sweep", !.names = m \ op[p].names]
    <3>1. d.kind = op[p].kind /\ op' = [op EXCEPT ![p] = d]
      BY <1>1, <2>2 DEF KeyDomains, OpsOk, OpType
    <3> QED BY <3>1
  <2>3. CASE SweepKeys(p)
    <3>1. CASE Goto(p, "ok")
      <4> DEFINE d == [op[p] EXCEPT !.at = "ok"]
      <4>1. d.kind = op[p].kind /\ op' = [op EXCEPT ![p] = d]
        BY <1>1, <3>1 DEF Goto, OpType
      <4> QED BY <4>1
    <3>2. ASSUME NEW k, op' = [op EXCEPT ![p].names = @ \ {k}]
          PROVE  \E d : d.kind = op[p].kind /\ op' = [op EXCEPT ![p] = d]
      <4> DEFINE d == [op[p] EXCEPT !.names = @ \ {k}]
      <4>1. d.kind = op[p].kind /\ op' = [op EXCEPT ![p] = d]
        BY <1>1, <3>2 DEF OpType
      <4> QED BY <4>1
    <3> QED BY <2>3, <3>1, <3>2 DEF SweepKeys
  <2> QED BY <2>1, <2>2, <2>3
<1>4. op'[p].kind = "reload" /\ OthersSame(p)
  BY <1>1, <1>2, <1>3 DEF OpsOk, OthersSame
<1> QED BY <1>4 DEF Undoing

LEMMA UndoSteps ==
  ASSUME SelInv, SelInv', UndoInv, NEW p \in Goroutines, Step(p) \/ CallFails(p)
  PROVE  UndoInv'
<1>1. op[p].at \notin Ended /\ met' = met
  BY DEF Step, CallFails, AddDomain, DeleteDomain, GetDomain, PurgeApplications, ImportSettings, EnsureKeyStat,
         EnsureKeyWrite, ImportKey, RemoveDeletedKey, List, WriteTable, ResyncMaps, KeepNames, KeyDomains,
         SweepKeys, Unchanged, At, Ended
<1>2. CASE met
  BY <1>1, <1>2 DEF UndoInv
<1>3. CASE ~met
  <2>1. PICK q \in Goroutines : Alone(q) /\ Undoing(op[q])
    BY <1>3 DEF UndoInv
  <2>2. q = p
    <3>1. Blank.at \in Ended
      BY BlankIs DEF Ended
    <3> QED BY <1>1, <2>1, <3>1 DEF Alone
  <2>3. Undoing(op[p])' /\ OthersSame(p)
    <3>1. CASE CallFails(p)
      <4>1. Failed(p) /\ UNCHANGED doms
        BY <3>1 DEF CallFails, registry
      <4> QED BY <1>1, <2>1, <2>2, <4>1, UndoFails
    <3>2. CASE Step(p)
      BY <2>1, <2>2, <3>2, UndoRows, UndoFiles, UndoSweeps DEF Step
    <3> QED BY <3>1, <3>2
  <2>4. Alone(p)'
    BY <2>1, <2>2, <2>3 DEF Alone, OthersSame
  <2> QED BY <2>3, <2>4 DEF UndoInv
<1> QED BY <1>2, <1>3

LEMMA UndoBegins ==
  ASSUME NEW p \in Reqs, NEW r, Begin(p, r), r.kind \in {"import", "undo"} =>
            r.kind = "import" /\ r.at = "row" /\ r.name # Server /\ r.rebuilt
  PROVE  UndoInv'
<1>1. CASE met'
  BY <1>1 DEF UndoInv
<1>2. CASE ~met'
  <2>1. /\ \A q \in Goroutines \ {p} : op[q].at \in Ended
        /\ op' = [q \in Goroutines |-> IF q = p THEN r ELSE IF op[q].at \in Ended THEN Blank ELSE op[q]]
    BY <1>2 DEF Begin
  <2>2. op'[p] = r /\ Alone(p)' /\ p \in Goroutines
    BY <2>1 DEF Alone, Goroutines
  <2>3. Undoing(op[p])'
    BY <2>2 DEF Undoing
  <2> QED BY <2>2, <2>3 DEF UndoInv
<1> QED BY <1>1, <1>2

LEMMA UndoStarts ==
  ASSUME NEW p \in Reqs, Start(p) PROVE UndoInv'
<1>1. ASSUME NEW r, Begin(p, r), r.kind \in {"add", "delete", "reload", "server"} PROVE UndoInv'
  BY <1>1, UndoBegins
<1>2. CASE HandleAddDomain(p)
  <2>1. PICK n \in Names : Begin(p, [Blank EXCEPT !.kind = "add", !.at = "row", !.name = n, !.sel = Default])
    BY <1>2 DEF HandleAddDomain
  <2> QED BY <1>1, <2>1 DEF Blank
<1>3. CASE HandleImportDomain(p)
  <2>1. PICK n \in Names, s \in Selectors :
           n # Server /\ Begin(p, [Blank EXCEPT !.kind = "import", !.at = "row", !.name = n, !.sel = s])
    BY <1>3 DEF HandleImportDomain, CheckDomainImport
  <2> DEFINE r == [Blank EXCEPT !.kind = "import", !.at = "row", !.name = n, !.sel = s]
  <2>2. r.kind = "import" /\ r.at = "row" /\ r.name # Server /\ r.rebuilt
    BY <2>1 DEF Blank
  <2> HIDE DEF r
  <2>3. Begin(p, r)
    BY <2>1 DEF r
  <2> QED BY <2>2, <2>3, UndoBegins
<1>4. CASE HandleDeleteDomain(p)
  <2>1. PICK i \in Ids : Begin(p, [Blank EXCEPT !.kind = "delete", !.at = "get", !.id = i, !.name = doms[i].name])
    BY <1>4 DEF HandleDeleteDomain
  <2> QED BY <1>1, <2>1 DEF Blank
<1>5. CASE HandleReload(p)
  BY <1>1, <1>5 DEF HandleReload, Blank
<1>6. CASE ServerMail(p)
  <2>1. PICK s : Begin(p, [Blank EXCEPT !.kind = "server", !.at = "stat", !.name = Server, !.sel = s])
    BY <1>6 DEF ServerMail
  <2> QED BY <1>1, <2>1 DEF Blank
<1> QED BY <1>2, <1>3, <1>4, <1>5, <1>6 DEF Start

LEMMA UndoSame ==
  ASSUME UndoInv, UNCHANGED <<doms, apps, keys, table, op, met>>
  PROVE  UndoInv'
BY DEF UndoInv, Alone, Undoing, HasRow, RowGone, NoLineOf, Registered

LEMMA UndoKeeps == SelInv /\ UndoInv /\ [Next]_vars => UndoInv'
<1> SUFFICES ASSUME SelInv, UndoInv, [Next]_vars PROVE UndoInv'
  OBVIOUS
<1>1. SelInv'
  BY NextKeeps
<1>2. CASE Signer
  <2>1. UNCHANGED <<panel, met>>
    BY <1>2 DEF Signer, SignMessage, ReadTable, StatKey, ReadKey, Watch, BodyChunk, Body, Abort, SignStep
  <2> QED BY <2>1, UndoSame DEF panel, registry, files
<1>3. CASE Crash
  <2>1. op'[Boot] = Booting /\ Alone(Boot)' /\ Boot \in Goroutines
    BY <1>3 DEF Crash, Alone, Goroutines
  <2>2. Undoing(op[Boot])'
    BY <2>1, BootingIs DEF Undoing
  <2> QED BY <2>1, <2>2 DEF UndoInv
<1>4. CASE UNCHANGED vars
  BY <1>4, UndoSame DEF vars, panel, registry, files
<1> QED BY <1>1, <1>2, <1>3, <1>4, UndoSteps, UndoStarts DEF Next, Rest

LEMMA UndoInit == Init => UndoInv
<1> SUFFICES ASSUME Init PROVE UndoInv
  OBVIOUS
<1>1. Boot \in Goroutines
  BY DEF Goroutines
<1>2. PICK x \in {Booting, [Booting EXCEPT !.at = "ok"]} : op = [p \in Goroutines |-> IF p # Boot THEN Blank ELSE x]
  BY DEF Init
<1>3. op[Boot] = x /\ Alone(Boot)
  BY <1>1, <1>2 DEF Alone
<1>4. x.kind = "boot"
  BY <1>2, BootingIs
<1>5. Undoing(op[Boot])
  BY <1>3, <1>4, NoUndoing
<1> QED BY <1>1, <1>3, <1>5 DEF UndoInv

\* An import that failed and could be undone leaves nothing of its domain - no
\* row, application, line of the table or key file - when no other request was
\* under way with it: for any number of names, selectors and requests, wherever
\* the import failed (Import, importRollback).
THEOREM FailedImportAlwaysLeavesNothing == Spec => []FailedImportLeavesNothing
<1>1. Init => UndoInv
  BY UndoInit
<1>2. SelInv /\ UndoInv /\ [Next]_vars => UndoInv'
  BY UndoKeeps
<1>3. UndoInv => FailedImportLeavesNothing
  <2> SUFFICES ASSUME UndoInv, NEW p \in Reqs, op[p].kind = "undo", op[p].at = "err", ~op[p].bad, ~met
               PROVE  /\ op[p].name \notin Registered /\ op[p].id \notin apps
                      /\ \A w \in table : w[1] # op[p].name
                      /\ \A s \in Selectors : keys[<<op[p].name, s>>] = 0
    BY DEF FailedImportLeavesNothing
  <2>1. PICK q \in Goroutines : Alone(q) /\ Undoing(op[q])
    BY DEF UndoInv
  <2>2. q = p
    BY <2>1, BlankIs DEF Alone, Goroutines
  <2>3. RowGone(op[p])
    BY <2>1, <2>2 DEF Undoing
  <2> QED BY <2>3 DEF RowGone, NoLineOf, Ended
<1> QED BY <1>1, <1>2, <1>3, SelectorInvariant, PTL DEF Spec

=============================================================================
