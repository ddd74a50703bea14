-------------------------- MODULE LogFollowProofs --------------------------
(***************************************************************************)
(* Proofs about LogFollow: no line of mail.log is lost unnoticed and none  *)
(* is kept twice, through rotations, stops, kills and failing saves, for   *)
(* any number of files, lines, stops and faults.                           *)
(***************************************************************************)
EXTENDS LogFollow, WellFoundedInduction, TLAPS

-----------------------------------------------------------------------------
(* The inductive invariant.                                                *)

PlaceType == [fp : FP, off : Size, gen : Gen \cup {0}]
OldType == [gen : Gen \cup {0}, pos : Size, pend : {0, 1}, fp : FP]
Starting == {"down", "resume", "rotated"}

\* Two files at most are still named, the younger one by mail.log, and only
\* they are written to; no younger one has begun.
FilesInStep ==
    /\ name # 0 => name = rot + 1 /\ writer \in {name, rot}
    /\ name = 0 => rot >= 1 /\ rot < MaxGen /\ writer = rot
    /\ \A g \in Gen : g > writer => size[g] = 0

\* The newest file there has been.
Newest == IF name = 0 THEN rot ELSE name

FpStands(f, g) == f \in {NoFP, g} /\ (f # NoFP => size[g] >= FpSize)

\* The open file is one of the two, the rotated one still read is the one
\* before it, and both positions are within their files.
ReaderInStep ==
    /\ up => cur \in {name, rot} \ {0} /\ pos <= size[cur]
    /\ ~up => cur = 0 /\ fp = NoFP
    /\ pc \in {"down", "resume"} => pos = 0 /\ ~behind /\ fp = NoFP
    /\ pc \in Starting => pend = 0 /\ old = NoOld /\ ~caughtUp
    /\ behind => pc = "rotated" /\ place.fp # NoFP /\ place.gen < cur
    /\ pc = "switch" => name # 0 /\ name # cur
    /\ ~caughtUp => old = NoOld
    /\ pc \in {"stat", "switch", "record"} => caughtUp
    /\ up => FpStands(fp, cur)
    /\ old.gen # 0 => old.gen + 1 = cur /\ old.pos <= size[old.gen] /\ old.pend <= old.pos

\* What is stored speaks of a file there is, as far as it goes.
PlaceInStep ==
    place = NoPlace \/
        /\ place.gen \in Gen /\ place.gen <= Newest
        /\ up => place.gen <= cur
        /\ place.off <= size[place.gen]
        /\ FpStands(place.fp, place.gen)

\* A line that is there or may yet be written.
Possible(l) == l \in Written \/ l[1] >= writer

\* What is written off without being read.
WrittenOff(l) == l \in skipped \cup reported \/ l[1] \in orphaned \cup nameless

\* Nothing more has to be done for a line.
Settled(l) ==
    \/ l \in handled /\ (l \in Strangers \/ kept[l] = 1 \/ l \in dropped)
    \/ WrittenOff(l)

\* The rotated file's reader has yet to come to it.
InOld(l) == l[1] = old.gen /\ old.pos - old.pend <= Start(l)

\* Every line is settled or ahead, and what the stored place lies behind is
\* settled but for the end of the rotated file.
LinesCome == \A l \in Line : Possible(l) => Settled(l) \/ Ahead(l)
PlaceTold ==
    place # NoPlace =>
        \A l \in Line :
            Possible(l) => /\ l[1] = place.gen /\ Start(l) < place.off => Settled(l)
                           /\ l[1] < place.gen => Settled(l) \/ InOld(l)

\* What is kept has been handled, and a reader that writes without looking
\* has nothing kept before it.
KeptBehind ==
    /\ handled \subseteq Written
    /\ up => \A l \in handled : l[1] <= cur
    /\ \A l \in Line : kept[l] > 0 => l \in handled
    /\ \A l \in Line : kept[l] <= 1
    /\ caughtUp => \A l \in Line : kept[l] > 0 => ~ Ahead(l)

FollowInv ==
    /\ TypeOK
    /\ FilesInStep /\ ReaderInStep /\ PlaceInStep
    /\ LinesCome /\ PlaceTold /\ KeptBehind

-----------------------------------------------------------------------------
(* Lemmas about the operators.                                             *)

\* What a line is.
LEMMA LineParts ==
    ASSUME NEW l \in Line
    PROVE  /\ l[1] \in Gen /\ l[1] \in Nat /\ l[1] >= 1 /\ l[1] <= MaxGen
           /\ l[2] \in Nat /\ l[2] >= 1 /\ l[2] <= MaxLines
           /\ Start(l) \in Nat /\ Start(l) = 2 * l[2] - 2
BY FollowBounds DEF Line, Gen, Start

\* A file's number and its size.
LEMMA FileParts ==
    ASSUME TypeOK, NEW g \in Gen
    PROVE  g \in Nat /\ g >= 1 /\ g <= MaxGen /\ size[g] \in Size /\ size[g] \in Nat /\ size[g] <= 2 * MaxLines
BY FollowBounds DEF TypeOK, Gen, Size

\* The offset saved is one to be read again from: no later than what was
\* read, and one there is (refusalLines.oldest).
LEMMA Held ==
    ASSUME TypeOK, NEW off \in Size
    PROVE  HeldOffset(off) \in Size /\ HeldOffset(off) <= off
<1> DEFINE starts == {Start(w.line) : w \in {w \in waiting : w.fp = fp}} \cup {off}
           least(o) == o \in starts /\ \A s \in starts : o <= s
<1>1. off \in Nat /\ off <= 2 * MaxLines /\ MaxLines \in Nat
  BY FollowBounds DEF Size
<1>2. \A w \in waiting : w.line \in Line
  BY FollowConstants DEF TypeOK
<1>3. starts \subseteq Nat
  BY <1>1, <1>2, LineParts
<1>4. \E o \in starts : \A s \in starts : o <= s
  <2>1. IsWellFoundedOn(OpToRel(<, Nat), Nat)
    BY NatLessThanWellFounded
  <2>2. starts # {} /\ starts \subseteq Nat
    BY <1>3
  <2> HIDE DEF starts
  <2>3. \E x \in starts : \A y \in starts : ~ (<<y, x>> \in OpToRel(<, Nat))
    BY <2>1, <2>2, WFMin
  <2>4. PICK x \in starts : \A y \in starts : ~ (<<y, x>> \in OpToRel(<, Nat))
    BY <2>3
  <2>5. \A y \in starts : ~ (y < x)
    BY <2>2, <2>4 DEF OpToRel
  <2>6. \A y \in starts : x <= y
    BY <2>2, <2>5
  <2> QED BY <2>6
<1>5. HeldOffset(off) = CHOOSE o \in starts : \A s \in starts : o <= s
  BY DEF HeldOffset
<1>6. HeldOffset(off) \in starts /\ \A s \in starts : HeldOffset(off) <= s
  BY <1>4, <1>5
<1>7. HeldOffset(off) \in Nat /\ HeldOffset(off) <= off
  BY <1>3, <1>6
<1> QED BY <1>1, <1>7 DEF Size

\* What a pass over the lines A does to what is kept.
Keeping(A) ==
    /\ kept' \in [Line -> 0 .. 2]
    /\ dropped \subseteq dropped' /\ dropped' \subseteq dropped \cup A
    /\ \A l \in Line : l \notin A => kept'[l] = kept[l]
    /\ \A l \in Line : kept'[l] >= kept[l]
    /\ \A l \in Line : kept'[l] = 2 => kept[l] = 2 \/ (l \in A /\ caughtUp /\ kept[l] > 0)
Wanted(A) == \A l \in A : l \in Strangers \/ kept'[l] >= 1 \/ l \in dropped'

\* The lines written are one more, or there already (InsertSendLogLines).
LEMMA StoredLines ==
    ASSUME TypeOK, NEW K
    PROVE  /\ Stored(K) \in [Line -> 0 .. 2]
           /\ \A l \in Line : l \notin K => Stored(K)[l] = kept[l]
           /\ \A l \in Line : Stored(K)[l] >= kept[l]
           /\ \A l \in Line : Stored(K)[l] = 2 => kept[l] = 2 \/ (l \in K /\ caughtUp /\ kept[l] > 0)
           /\ \A l \in Line : l \in K => Stored(K)[l] >= 1
<1>1. \A l \in Line : kept[l] \in 0 .. 2
  BY DEF TypeOK
<1>2. \A l \in Line :
        Stored(K)[l] = CASE l \notin K -> kept[l]
                         [] l \in K /\ ~caughtUp /\ kept[l] > 0 -> kept[l]
                         [] OTHER -> IF kept[l] = 0 THEN 1 ELSE 2
  BY DEF Stored
<1>3. \A l \in Line : (l \notin K => Stored(K)[l] = kept[l])
  BY <1>2
<1>4. \A l \in Line : l \in K /\ ~caughtUp /\ kept[l] > 0 => Stored(K)[l] = kept[l]
  BY <1>2
<1>5. \A l \in Line : l \in K /\ ~(~caughtUp /\ kept[l] > 0) => Stored(K)[l] = IF kept[l] = 0 THEN 1 ELSE 2
  BY <1>2
<1>6. \A l \in Line : Stored(K)[l] \in 0 .. 2
  BY <1>1, <1>3, <1>4, <1>5
<1>7. Stored(K) \in [Line -> 0 .. 2]
  BY <1>6 DEF Stored
<1>8. caughtUp \in BOOLEAN
  BY DEF TypeOK
<1> QED BY <1>1, <1>3, <1>4, <1>5, <1>7, <1>8

\* Every line but those of the port-25 message is written.
LEMMA KeptLines ==
    ASSUME NEW A \in SUBSET Line, NEW known
    PROVE  Keeps(A, known) \subseteq A /\ \A l \in A : l \in Strangers \/ l \in Keeps(A, known)
BY FollowConstants DEF Keeps

\* Two passes keep what they hand on, but for one that fails (flush).
LEMMA PassesKeep ==
    ASSUME TypeOK, NEW A \in SUBSET Line, NEW B \in SUBSET Line, KeepLines(A, B)
    PROVE  Keeping(A \cup B) /\ Wanted(A \cup B)
<1> DEFINE K1 == Keeps(A, port25)
           K2 == Keeps(B, Remembers(A, port25))
           passes == {K1, K2} \ {{}}
<1>1. /\ K1 \subseteq A /\ \A l \in A : l \in Strangers \/ l \in K1
      /\ K2 \subseteq B /\ \A l \in B : l \in Strangers \/ l \in K2
  BY KeptLines
<1>2. \/ kept' = Stored(UNION passes) /\ dropped' = dropped
      \/ \E failed \in passes : kept' = Stored(UNION (passes \ {failed})) /\ dropped' = failed /\ dropped = {}
  BY DEF KeepLines, MayFail
<1> HIDE DEF K1, K2
<1>3. CASE kept' = Stored(UNION passes) /\ dropped' = dropped
  <2>1. UNION passes = K1 \cup K2
    OBVIOUS
  <2> HIDE DEF passes
  <2> QED BY <1>1, <1>3, <2>1, StoredLines DEF Keeping, Wanted
<1>4. CASE \E failed \in passes : kept' = Stored(UNION (passes \ {failed})) /\ dropped' = failed /\ dropped = {}
  <2>1. PICK failed \in passes : kept' = Stored(UNION (passes \ {failed})) /\ dropped' = failed /\ dropped = {}
    BY <1>4
  <2> DEFINE K == UNION (passes \ {failed})
  <2>2. K \subseteq A \cup B /\ failed \subseteq A \cup B
    BY <1>1
  <2>3. \A l \in K1 \cup K2 : l \in K \/ l \in failed
    OBVIOUS
  <2>4. kept' = Stored(K)
    BY <2>1
  <2> HIDE DEF K, passes
  <2>5. Keeping(A \cup B)
    <3>1. dropped \subseteq dropped' /\ dropped' \subseteq dropped \cup (A \cup B)
      BY <2>1, <2>2
    <3>2. \A l \in Line : l \notin A \cup B => l \notin K
      BY <2>2
    <3>3. /\ \A l \in Line : l \notin A \cup B => kept'[l] = kept[l]
          /\ \A l \in Line : kept'[l] >= kept[l]
      BY <2>4, <3>2, StoredLines
    <3>4. \A l \in Line : kept'[l] = 2 => kept[l] = 2 \/ (l \in A \cup B /\ caughtUp /\ kept[l] > 0)
      BY <2>4, <3>2, StoredLines
    <3>5. kept' \in [Line -> 0 .. 2]
      BY <2>4, StoredLines
    <3> QED BY <3>1, <3>3, <3>4, <3>5 DEF Keeping
  <2>6. \A l \in A \cup B : l \in Line
    OBVIOUS
  <2>7. Wanted(A \cup B)
    BY <1>1, <2>1, <2>3, <2>4, <2>6, StoredLines DEF Wanted
  <2> QED BY <2>5, <2>7
<1> QED BY <1>2, <1>3, <1>4

-----------------------------------------------------------------------------
(* What every step carries over.                                           *)

Grows ==
    /\ skipped \subseteq skipped' /\ reported \subseteq reported'
    /\ orphaned \subseteq orphaned' /\ nameless \subseteq nameless'

\* A pass over lines that are written and, once caught up, still ahead.
Pass(A) ==
    /\ A \subseteq Written /\ Keeping(A) /\ handled' = handled \cup A /\ Grows
    /\ caughtUp => \A l \in A : Ahead(l)

\* No pass at all.
LEMMA NoPass ==
    ASSUME TypeOK, UNCHANGED <<kept, dropped, handled>>, Grows
    PROVE  Pass({}) /\ Wanted({})
<1>1. \A l \in Line : kept[l] \in 0 .. 2
  BY DEF TypeOK
<1> QED BY <1>1 DEF Pass, Keeping, Wanted, TypeOK

\* What was settled stays so, and nothing is kept twice.
LEMMA PassCarries ==
    ASSUME FollowInv, NEW A, Pass(A)
    PROVE  /\ A \subseteq Line /\ handled' \subseteq Written /\ dropped' \subseteq handled'
           /\ \A l \in Line : kept[l] <= 1 /\ kept'[l] \in 0 .. 2 /\ kept'[l] <= 1
           /\ \A l \in Line : kept'[l] > 0 => l \in handled' /\ (kept[l] > 0 \/ l \in A)
           /\ \A l \in Line : Settled(l) => Settled(l)'
<1>1. A \subseteq Line /\ A \subseteq Written
  BY DEF Pass, Written
<1>2. handled \subseteq Written /\ \A l \in Line : kept[l] <= 1 /\ (kept[l] > 0 => l \in handled)
  BY DEF FollowInv, KeptBehind
<1>3. \A l \in Line : kept[l] \in 0 .. 2 /\ kept'[l] \in 0 .. 2 /\ kept'[l] >= kept[l]
  BY DEF FollowInv, TypeOK, Pass, Keeping
<1>4. \A l \in A : caughtUp => ~ (kept[l] > 0)
  BY <1>1 DEF FollowInv, KeptBehind, Pass
<1>5. \A l \in Line : kept'[l] # 2
  BY <1>2, <1>4 DEF Pass, Keeping
<1>6. \A l \in Line : kept'[l] <= 1
  BY <1>3, <1>5
<1>7. \A l \in Line : kept'[l] > 0 => kept[l] > 0 \/ l \in A
  BY DEF Pass, Keeping
<1>8. handled' = handled \cup A /\ dropped \subseteq handled /\ dropped' \subseteq dropped \cup A
  BY DEF Pass, Keeping, FollowInv, TypeOK
<1>9. ASSUME NEW l \in Line, Settled(l) PROVE Settled(l)'
  <2>1. CASE WrittenOff(l)
    BY <2>1 DEF Settled, WrittenOff, Pass, Grows
  <2>2. CASE l \in handled /\ (l \in Strangers \/ kept[l] = 1 \/ l \in dropped)
    <3>1. l \in handled' /\ (kept[l] = 1 => kept'[l] = 1) /\ (l \in dropped => l \in dropped')
      BY <1>3, <1>6, <1>8, <2>2 DEF Pass, Keeping
    <3> QED BY <2>2, <3>1 DEF Settled
  <2> QED BY <2>1, <2>2, <1>9 DEF Settled
<1> QED BY <1>1, <1>2, <1>3, <1>6, <1>7, <1>8, <1>9

\* What a whole pass goes over is settled.
LEMMA PassSettles ==
    ASSUME FollowInv, NEW A, Pass(A), Wanted(A), NEW l \in A
    PROVE  Settled(l)'
<1>1. l \in Line /\ l \in handled' /\ kept'[l] \in 0 .. 2 /\ kept'[l] <= 1
  BY PassCarries DEF Pass
<1>2. l \in Strangers \/ kept'[l] = 1 \/ l \in dropped'
  BY <1>1 DEF Wanted
<1> QED BY <1>1, <1>2 DEF Settled

LEMMA RemembersBool ==
    ASSUME NEW A, NEW known \in BOOLEAN
    PROVE  Remembers(A, known) \in BOOLEAN
BY DEF Remembers

\* What a pass does to the rest of the handler's state.
LEMMA HandleDoes ==
    ASSUME TypeOK, NEW A \in SUBSET Line, NEW f \in FP, Handle(A, f)
    PROVE  /\ Keeping(A) /\ Wanted(A) /\ handled' = handled \cup A
           /\ port25' \in BOOLEAN /\ waiting' \subseteq [line : Refusals, fp : FP]
<1>1. A \cup {} = A /\ {} \in SUBSET Line
  OBVIOUS
<1>2. Keeping(A) /\ Wanted(A)
  <2>1. KeepLines(A, {})
    BY DEF Handle
  <2>2. Keeping(A \cup {}) /\ Wanted(A \cup {})
    BY <1>1, <2>1, PassesKeep
  <2> QED BY <1>1, <2>2
<1>3. port25' \in BOOLEAN
  BY RemembersBool DEF Handle, TypeOK
<1>4. waiting' \subseteq [line : Refusals, fp : FP]
  BY DEF Handle, WaitAmong, TypeOK
<1> QED BY <1>2, <1>3, <1>4 DEF Handle

-----------------------------------------------------------------------------
(* Where the readers stand.                                                *)

\* After a read to the end of a file the lines there are lie behind, and the
\* others ahead as they were.
LEMMA ReadOn ==
    ASSUME TypeOK, NEW l \in Line, NEW p \in Nat, NEW n \in {0, 1}, NEW m,
           m = IF p = size[l[1]] THEN n ELSE size[l[1]] % 2
    PROVE  /\ l \in Written => ~ (size[l[1]] - m <= Start(l))
           /\ l \notin Written /\ p - n <= Start(l) => size[l[1]] - m <= Start(l)
<1>1. size[l[1]] \in Nat
  BY LineParts, FileParts
<1>2. l \in Written <=> 2 * l[2] <= size[l[1]]
  BY DEF Written
<1>3. l[2] \in Nat /\ Start(l) = 2 * l[2] - 2
  BY LineParts
<1> DEFINE s == size[l[1]]
           k == l[2]
<1> HIDE DEF s, k
<1>4. s \in Nat /\ k \in Nat /\ (m = IF p = s THEN n ELSE s % 2) /\ m \in {0, 1}
  BY <1>1, <1>3 DEF s, k
<1>5. 2 * k <= s => ~ (s - m <= 2 * k - 2)
  BY <1>4
<1>6. ~ (2 * k <= s) /\ p - n <= 2 * k - 2 => s - m <= 2 * k - 2
  BY <1>4
<1> QED BY <1>2, <1>3, <1>5, <1>6 DEF s, k

LEMMA ReadToTyped ==
    ASSUME TypeOK, NEW g \in Gen, NEW p \in Nat, NEW n \in {0, 1}, n <= p, NEW m,
           m = IF p = size[g] THEN n ELSE size[g] % 2
    PROVE  m \in {0, 1} /\ m <= size[g]
BY FileParts

\* The lines the rotated file's reader has yet to come to are there, unless
\* Postfix still writes to it.
LEMMA InOldThere ==
    ASSUME FollowInv, NEW l \in Line, Possible(l), InOld(l)
    PROVE  /\ old.gen # 0 /\ old.gen \in Gen /\ l[1] = old.gen
           /\ l \in Written => l \in OldLines
           /\ l \notin Written => writer = old.gen /\ pc # "switch"
<1>1. l[1] \in Gen /\ l[1] \in Nat /\ l[1] >= 1 /\ l[1] = old.gen
  BY LineParts DEF InOld
<1>2. old.gen # 0 /\ old.gen + 1 = cur
  BY <1>1 DEF FollowInv, ReaderInStep
<1>3. l \in Written => l \in OldLines
  BY <1>1, <1>2 DEF OldLines, WholeLines, Written, InOld
<1>4. up
  <2>1. pc = "down" => old = NoOld
    BY DEF FollowInv, ReaderInStep, Starting
  <2> QED BY <1>2, <2>1 DEF NoOld, up
<1>5. cur \in {name, rot} \ {0} /\ writer \in Gen /\ name \in Gen \cup {0} /\ rot \in Gen \cup {0}
  BY <1>4 DEF FollowInv, TypeOK, ReaderInStep
<1>6. ASSUME l \notin Written PROVE writer = old.gen /\ pc # "switch"
  <2>1. writer <= old.gen
    BY <1>1, <1>5, <1>6 DEF Possible, Gen
  <2>2. CASE name # 0
    <3>1. name = rot + 1 /\ writer \in {name, rot} /\ (pc = "switch" => name # cur)
      BY <2>2 DEF FollowInv, FilesInStep, ReaderInStep
    <3> QED BY <1>1, <1>2, <1>5, <2>1, <2>2, <3>1 DEF Gen
  <2>3. CASE name = 0
    <3>1. writer = rot /\ cur = rot
      BY <2>3, <1>5 DEF FollowInv, FilesInStep
    <3> QED BY <1>1, <1>2, <1>5, <2>1, <3>1 DEF Gen
  <2> QED BY <2>2, <2>3
<1> QED BY <1>1, <1>2, <1>3, <1>6

\* The lines the rotated file's reader goes over are there and ahead.
LEMMA OldLinesAhead ==
    ASSUME FollowInv, NEW l \in OldLines
    PROVE  /\ l \in Line /\ l \in Written /\ l[1] = old.gen /\ l[1] < cur
           /\ pc \notin {"down", "resume"} /\ Ahead(l)
<1>1. old.gen # 0 /\ l \in Line /\ l[1] = old.gen /\ old.pos - old.pend <= Start(l) /\ 2 * l[2] <= size[old.gen]
  BY DEF OldLines, WholeLines
<1>2. pc \notin {"down", "resume"}
  <2>1. pc \in {"down", "resume"} => old = NoOld
    BY DEF FollowInv, ReaderInStep, Starting
  <2> QED BY <1>1, <2>1 DEF NoOld
<1>3. old.gen + 1 = cur /\ l[1] \in Nat
  BY <1>1, LineParts DEF FollowInv, ReaderInStep
<1> QED BY <1>1, <1>2, <1>3 DEF Ahead, Written

LEMMA CurLinesAhead ==
    ASSUME FollowInv, NEW l \in CurLines, pc \notin {"down", "resume"}
    PROVE  l \in Line /\ l \in Written /\ l[1] = cur /\ Ahead(l)
BY DEF CurLines, WholeLines, Ahead, Written

\* A line of the open file that has not been read is there to be read or has
\* yet to be written.
LEMMA CurThere ==
    ASSUME NEW l \in Line, l[1] = cur, pos - pend <= Start(l), l \in Written
    PROVE  l \in CurLines
BY DEF CurLines, WholeLines, Written

-----------------------------------------------------------------------------
(* The parts of the invariant a step of the panel has to restore.          *)

LEMMA ComesOn ==
    ASSUME FollowInv, NEW A, Pass(A), UNCHANGED files,
           \A l \in Line : Possible(l) /\ Ahead(l) => Settled(l)' \/ Ahead(l)'
    PROVE  LinesCome'
<1>1. \A l \in Line : Possible(l)' => Possible(l)
  BY DEF Possible, Written, files
<1>2. \A l \in Line : Possible(l) => Settled(l) \/ Ahead(l)
  BY DEF FollowInv, LinesCome
<1>3. \A l \in Line : Settled(l) => Settled(l)'
  BY PassCarries
<1> QED BY <1>1, <1>2, <1>3 DEF LinesCome

LEMMA PlaceStays ==
    ASSUME FollowInv, NEW A, Pass(A), UNCHANGED <<files, place>>,
           place # NoPlace =>
               \A l \in Line : Possible(l) /\ InOld(l) /\ l[1] < place.gen => Settled(l)' \/ InOld(l)'
    PROVE  PlaceTold'
<1>1. \A l \in Line : Possible(l)' => Possible(l)
  BY DEF Possible, Written, files
<1>2. \A l \in Line : Settled(l) => Settled(l)'
  BY PassCarries
<1> QED BY <1>1, <1>2 DEF FollowInv, PlaceTold

\* What a new place lies behind was told when it was stored.
LEMMA PlaceMoves ==
    ASSUME FollowInv, NEW A, Pass(A), UNCHANGED files,
           NEW g \in Gen, NEW off \in Nat, place'.gen = g, place'.off = off,
           \A l \in Line : Possible(l) /\ Ahead(l) /\ l[1] = g /\ Start(l) < off => Settled(l)',
           \A l \in Line : Possible(l) /\ Ahead(l) /\ l[1] < g => Settled(l)' \/ InOld(l)'
    PROVE  PlaceTold'
<1>1. \A l \in Line : Possible(l)' => Possible(l)
  BY DEF Possible, Written, files
<1>2. \A l \in Line : Settled(l) => Settled(l)'
  BY PassCarries
<1>3. \A l \in Line : Possible(l) => Settled(l) \/ Ahead(l)
  BY DEF FollowInv, LinesCome
<1> QED BY <1>1, <1>2, <1>3 DEF PlaceTold

LEMMA KeptOn ==
    ASSUME FollowInv, NEW A, Pass(A), UNCHANGED files,
           up' => \A l \in handled' : l[1] <= cur',
           caughtUp' => \A l \in Line : kept'[l] > 0 => ~ Ahead(l)'
    PROVE  KeptBehind'
<1>1. Written' = Written
  BY DEF Written, files
<1>2. /\ handled' \subseteq Written
      /\ \A l \in Line : kept'[l] <= 1 /\ (kept'[l] > 0 => l \in handled')
  BY PassCarries
<1> QED BY <1>1, <1>2 DEF KeptBehind

\* The handled lines are of the open file or older ones.
LEMMA HandledOlder ==
    ASSUME FollowInv, up, NEW A, Pass(A), \A l \in A : l[1] <= cur, cur' \in Gen, cur <= cur'
    PROVE  \A l \in handled' : l[1] <= cur'
<1>1. \A l \in handled' : l \in Line /\ l[1] <= cur
  BY PassCarries DEF Pass, FollowInv, KeptBehind, TypeOK
<1>2. cur \in Int
  BY DEF FollowInv, TypeOK, Gen
<1> QED BY <1>1, <1>2, LineParts DEF Gen

LEMMA FollowInit == Init => FollowInv
<1> SUFFICES ASSUME Init PROVE FollowInv
  OBVIOUS
<1>1. 1 \in Gen /\ 0 \in Size
  BY FollowBounds DEF Gen, Size
<1>2. TypeOK
  <2>1. size \in [Gen -> Size]
    BY <1>1, FollowConstants DEF Init
  <2>2. place \in PlaceType /\ old \in OldType
    BY <1>1 DEF Init, NoPlace, NoOld, PlaceType, OldType, FP
  <2>3. kept \in [Line -> 0 .. 2] /\ waiting \subseteq [line : Refusals, fp : FP]
    BY DEF Init
  <2>4. writer \in Gen /\ name \in Gen \cup {0} /\ rot \in Gen \cup {0} /\ cur \in Gen \cup {0}
    BY <1>1 DEF Init
  <2>5. pos \in Size /\ pend \in {0, 1} /\ pend <= pos /\ fp \in FP /\ saved \in Size \cup {-1}
    BY <1>1 DEF Init, FP
  <2>6. port25 \in BOOLEAN /\ behind \in BOOLEAN /\ caughtUp \in BOOLEAN
    BY DEF Init
  <2>7. stops \in 0 .. MaxStops /\ faults \in 0 .. MaxFaults
    BY FollowBounds, FollowConstants DEF Init
  <2>8. /\ handled \subseteq Line /\ dropped \subseteq handled /\ skipped \subseteq Line /\ reported \subseteq Line
        /\ orphaned \subseteq Gen /\ nameless \subseteq Gen
        /\ pc \in {"down", "resume", "rotated", "tick", "drain", "stat", "switch", "record"}
    BY DEF Init
  <2> QED BY <2>1, <2>2, <2>3, <2>4, <2>5, <2>6, <2>7, <2>8 DEF TypeOK, PlaceType, OldType
<1>3. FilesInStep
  BY FollowBounds DEF Init, FilesInStep, Gen
<1>4. ReaderInStep /\ PlaceInStep
  BY DEF Init, ReaderInStep, PlaceInStep, up, Starting, NoOld
<1>5. LinesCome /\ PlaceTold
  BY DEF Init, LinesCome, PlaceTold, Ahead
<1>6. KeptBehind
  BY DEF Init, KeptBehind, up
<1> QED BY <1>2, <1>3, <1>4, <1>5, <1>6 DEF FollowInv

-----------------------------------------------------------------------------
(* Postfix and logrotate.                                                  *)

LEMMA LogKeeps == FollowInv /\ Log => FollowInv'
<1> SUFFICES ASSUME FollowInv, Log PROVE FollowInv'
  OBVIOUS
<1>1. /\ writer \in Gen /\ size \in [Gen -> Size] /\ size[writer] < 2 * MaxLines
      /\ size' = [size EXCEPT ![writer] = size[writer] + 1]
      /\ UNCHANGED <<faults, writer, name, rot, place, kept, reader, observed>>
  BY DEF Log, FollowInv, TypeOK
<1>2. \A g \in Gen : size[g] \in Nat
  BY FileParts DEF FollowInv
<1>3. size' \in [Gen -> Size] /\ size'[writer] = size[writer] + 1 /\ \A g \in Gen \ {writer} : size'[g] = size[g]
  BY <1>1, <1>2, FollowBounds DEF Size
<1>4. \A g \in Gen : size'[g] \in Nat /\ size'[g] >= size[g]
  BY <1>2, <1>3
<1>5. TypeOK'
  BY <1>1, <1>3 DEF FollowInv, TypeOK, reader, observed
<1>6. FilesInStep'
  BY <1>1, <1>3 DEF FollowInv, FilesInStep, Gen
<1>7. ReaderInStep'
  <2>1. UNCHANGED <<reader, place, name, rot>>
    BY <1>1
  <2>2. (up => cur \in Gen) /\ (old.gen # 0 => old.gen \in Gen) /\ old.pos \in Int /\ pos \in Int
    BY DEF FollowInv, TypeOK, ReaderInStep, Size
  <2>3. up => pos <= size'[cur] /\ FpStands(fp, cur)'
    <3>1. up => pos <= size[cur] /\ FpStands(fp, cur)
      BY DEF FollowInv, ReaderInStep
    <3>2. up => FpStands(fp, cur)'
      BY <1>2, <1>4, <2>1, <2>2, <3>1, FollowConstants DEF FpStands, reader
    <3> QED BY <1>2, <1>4, <2>2, <3>1, <3>2
  <2>4. old.gen # 0 => old.gen + 1 = cur /\ old.pos <= size'[old.gen] /\ old.pend <= old.pos
    BY <1>2, <1>4, <2>2 DEF FollowInv, ReaderInStep
  <2> QED BY <2>1, <2>3, <2>4 DEF FollowInv, ReaderInStep, reader, up
<1>8. PlaceInStep'
  <2>1. CASE place = NoPlace
    BY <1>1, <2>1 DEF PlaceInStep
  <2>2. CASE place # NoPlace
    <3>1. place.gen \in Gen /\ place.off \in Int /\ place.off <= size[place.gen] /\ FpStands(place.fp, place.gen)
      BY <2>2 DEF FollowInv, TypeOK, PlaceInStep, Size
    <3>2. place.off <= size'[place.gen]
      BY <1>2, <1>4, <3>1
    <3>3. FpStands(place.fp, place.gen)'
      BY <1>1, <1>2, <1>4, <3>1, FollowConstants DEF FpStands
    <3> QED BY <1>1, <2>2, <3>2, <3>3 DEF FollowInv, PlaceInStep, Newest, reader, up
  <2> QED BY <2>1, <2>2
<1>9. \A l \in Line : (l \in Written => l \in Written') /\ (Possible(l)' => Possible(l))
  <2> SUFFICES ASSUME NEW l \in Line PROVE (l \in Written => l \in Written') /\ (Possible(l)' => Possible(l))
    OBVIOUS
  <2>1. l[1] \in Gen /\ l[1] \in Nat /\ l[2] \in Nat
    BY LineParts
  <2>2. l \in Written => l \in Written'
    BY <1>2, <1>4, <2>1 DEF Written
  <2>3. l \in Written' /\ l[1] # writer => l \in Written
    BY <1>3, <2>1 DEF Written
  <2> QED BY <1>1, <2>1, <2>2, <2>3 DEF Possible, Gen
<1>10. \A l \in Line : (Settled(l)' <=> Settled(l)) /\ (Ahead(l)' <=> Ahead(l)) /\ (InOld(l)' <=> InOld(l))
  BY <1>1 DEF Settled, WrittenOff, Ahead, InOld, reader, observed
<1>11. LinesCome'
  BY <1>9, <1>10 DEF FollowInv, LinesCome
<1>12. PlaceTold'
  BY <1>1, <1>9, <1>10 DEF FollowInv, PlaceTold
<1>13. KeptBehind'
  <2>1. handled \subseteq Written /\ \A l \in handled : l \in Line
    BY DEF FollowInv, KeptBehind, TypeOK
  <2>2. handled' \subseteq Written'
    BY <1>1, <1>9, <2>1 DEF observed
  <2> QED BY <1>1, <1>10, <2>2 DEF FollowInv, KeptBehind, reader, observed, up
<1> QED BY <1>5, <1>6, <1>7, <1>8, <1>11, <1>12, <1>13 DEF FollowInv

\* The names and the writer alone.
LEMMA NamesKeep ==
    ASSUME FollowInv, UNCHANGED <<faults, size, place, kept, reader, observed>>,
           writer' \in Gen, name' \in Gen \cup {0}, rot' \in Gen \cup {0},
           writer' >= writer, Newest' >= Newest, FilesInStep',
           up => cur \in {name', rot'} \ {0},
           pc = "switch" => name' # 0 /\ name' # cur
    PROVE  FollowInv'
<1>1. TypeOK'
  BY DEF FollowInv, TypeOK, reader, observed
<1>2. ReaderInStep'
  BY DEF FollowInv, ReaderInStep, FpStands, reader, up
<1>3. PlaceInStep'
  <2>1. Newest \in Int /\ Newest' \in Int /\ place.gen \in Int
    BY DEF FollowInv, TypeOK, Newest, Gen
  <2> QED BY <2>1 DEF FollowInv, PlaceInStep, FpStands, reader, up
<1>4. \A l \in Line : Possible(l)' => Possible(l)
  <2>1. writer \in Nat /\ writer' \in Nat
    BY DEF FollowInv, TypeOK, Gen
  <2> QED BY <2>1, LineParts DEF Possible, Written
<1>5. \A l \in Line : (Settled(l)' <=> Settled(l)) /\ (Ahead(l)' <=> Ahead(l)) /\ (InOld(l)' <=> InOld(l))
  BY DEF Settled, WrittenOff, Ahead, InOld, reader, observed
<1>6. LinesCome'
  BY <1>4, <1>5 DEF FollowInv, LinesCome
<1>7. PlaceTold'
  BY <1>4, <1>5 DEF FollowInv, PlaceTold
<1>8. KeptBehind'
  BY <1>5 DEF FollowInv, KeptBehind, Written, reader, observed, up
<1> QED BY <1>1, <1>2, <1>3, <1>6, <1>7, <1>8 DEF FollowInv

LEMMA RotationKeeps == FollowInv /\ (Rename \/ Create \/ Reload) => FollowInv'
<1> SUFFICES ASSUME FollowInv, Rename \/ Create \/ Reload PROVE FollowInv'
  OBVIOUS
<1>1. /\ writer \in Gen /\ name \in Gen \cup {0} /\ rot \in Gen \cup {0} /\ MaxGen \in Nat
      /\ FilesInStep /\ (up => cur \in {name, rot} \ {0}) /\ (pc = "switch" => name # 0 /\ name # cur)
      /\ Gen = 1 .. MaxGen
  BY FollowBounds DEF FollowInv, TypeOK, ReaderInStep, Gen
<1>2. CASE Rename
  <2>1. /\ name # 0 /\ name < MaxGen /\ writer = name /\ (up => cur = name) /\ rot' = name /\ name' = 0
        /\ UNCHANGED <<faults, size, writer, place, kept, reader, observed>>
    BY <1>2 DEF Rename
  <2>2. FilesInStep' /\ Newest' = Newest /\ pc # "switch"
    BY <1>1, <2>1 DEF FilesInStep, Newest, up
  <2>3. writer' >= writer /\ Newest' >= Newest
    BY <1>1, <2>1, <2>2 DEF Newest
  <2> QED BY <1>1, <2>1, <2>2, <2>3, NamesKeep
<1>3. CASE Create
  <2>1. /\ name = 0 /\ name' = rot + 1
        /\ UNCHANGED <<faults, size, writer, rot, place, kept, reader, observed>>
    BY <1>3 DEF Create
  <2>2. FilesInStep' /\ Newest' >= Newest /\ writer' >= writer /\ name' \in Gen /\ pc # "switch"
    BY <1>1, <2>1 DEF FilesInStep, Newest
  <2> QED BY <1>1, <2>1, <2>2, NamesKeep
<1>4. CASE Reload
  <2>1. /\ name # 0 /\ writer # name /\ writer' = name
        /\ UNCHANGED <<faults, size, name, rot, place, kept, reader, observed>>
    BY <1>4 DEF Reload
  <2>2. FilesInStep' /\ Newest' >= Newest /\ writer' >= writer
    BY <1>1, <2>1 DEF FilesInStep, Newest
  <2> QED BY <1>1, <2>1, <2>2, NamesKeep
<1> QED BY <1>2, <1>3, <1>4

-----------------------------------------------------------------------------
(* The start.                                                              *)

LEMMA OpenKeeps == FollowInv /\ Open => FollowInv'
<1> SUFFICES ASSUME FollowInv, Open PROVE FollowInv'
  OBVIOUS
<1>1. /\ pc = "down" /\ name # 0 /\ cur' = name /\ pos' = 0 /\ pend' = 0 /\ pc' = "resume"
      /\ UNCHANGED <<faults, files, keeper, place, fp, saved, behind, old, caughtUp, waiting, observed>>
  BY DEF Open
<1>2. name \in Gen /\ name \in Nat /\ 0 \in Size /\ Newest = name /\ writer \in Nat /\ writer <= name
  <2>1. name = rot + 1 /\ writer \in {name, rot} /\ writer \in Gen /\ name \in Gen \cup {0} /\ rot \in Gen \cup {0}
    BY <1>1 DEF FollowInv, FilesInStep, TypeOK
  <2> QED BY <1>1, <2>1, FollowBounds DEF Newest, Gen, Size
<1>3. TypeOK'
  BY <1>1, <1>2 DEF FollowInv, TypeOK, files, keeper, observed
<1>4. FilesInStep'
  BY <1>1 DEF FollowInv, FilesInStep, files
<1>5. ReaderInStep'
  <2>1. ~behind /\ fp = NoFP /\ old = NoOld /\ ~caughtUp /\ 0 <= size[name]
    BY <1>1, <1>2, FileParts DEF FollowInv, ReaderInStep, Starting
  <2> QED BY <1>1, <1>2, <2>1 DEF ReaderInStep, Starting, NoOld, FpStands, up, files
<1>6. PlaceInStep'
  BY <1>1, <1>2 DEF FollowInv, PlaceInStep, Newest, FpStands, files
<1>7. Pass({}) /\ Wanted({})
  BY <1>1, NoPass DEF FollowInv, Grows, keeper, observed
<1>8. LinesCome'
  <2>1. \A l \in Line : Possible(l) /\ Ahead(l) => Settled(l)' \/ Ahead(l)'
    BY <1>1 DEF Ahead
  <2> QED BY <1>1, <1>7, <2>1, ComesOn
<1>9. PlaceTold'
  <2>1. \A l \in Line : InOld(l)' <=> InOld(l)
    BY <1>1 DEF InOld
  <2> QED BY <1>1, <1>7, <2>1, PlaceStays
<1>10. KeptBehind'
  <2>1. \A l \in handled : l[1] <= name
    <3>1. ASSUME NEW l \in handled PROVE l[1] <= name
      <4>1. l \in Line /\ 2 * l[2] <= size[l[1]]
        BY DEF FollowInv, KeptBehind, Written
      <4>2. l[1] \in Gen /\ l[1] \in Nat /\ l[2] \in Nat /\ l[2] >= 1
        BY <4>1, LineParts
      <4>3. l[1] > writer => size[l[1]] = 0
        BY <4>2 DEF FollowInv, FilesInStep
      <4> QED BY <1>2, <4>1, <4>2, <4>3
    <3> QED BY <3>1
  <2>2. ~caughtUp'
    BY <1>1 DEF FollowInv, ReaderInStep, Starting
  <2> QED BY <1>1, <1>7, <2>1, <2>2, KeptOn DEF observed
<1> QED BY <1>3, <1>4, <1>5, <1>6, <1>8, <1>9, <1>10 DEF FollowInv

\* What a start knows.
LEMMA AtResume ==
    ASSUME FollowInv, pc = "resume"
    PROVE  /\ cur \in Gen /\ cur \in Nat /\ size[cur] \in Size /\ size[cur] \in Nat /\ FingerprintOf(cur) \in FP
           /\ FpStands(FingerprintOf(cur), cur) /\ pend = 0 /\ old = NoOld /\ ~caughtUp /\ ~behind
           /\ 0 \in Size /\ 0 <= size[cur]
<1>1. cur \in Gen
  BY DEF FollowInv, ReaderInStep, TypeOK, up
<1>2. size[cur] \in Size /\ size[cur] \in Nat /\ 0 \in Size
  BY <1>1, FileParts, FollowBounds DEF FollowInv, Size
<1> QED BY <1>1, <1>2 DEF FollowInv, ReaderInStep, Starting, FingerprintOf, FP, FpStands, Gen

\* The three ways to start: at an offset of the open file, with some lines
\* passed over or some files given up.
LEMMA StartKeeps ==
    ASSUME FollowInv, pc = "resume", NEW off \in Size, NEW sv \in Size, off <= size[cur], StartAt(off, sv),
           behind' \in BOOLEAN, behind' => place.fp # NoFP /\ place.gen < cur,
           skipped' \in SUBSET Line, nameless' \in SUBSET Gen, Grows, orphaned' = orphaned,
           faults' \in 0 .. MaxFaults,
           \A l \in Line : Possible(l) /\ Ahead(l) => Settled(l)' \/ Ahead(l)'
    PROVE  FollowInv'
<1>1. /\ pos' = off /\ saved' = sv /\ fp' = FingerprintOf(cur) /\ pc' = "rotated"
      /\ UNCHANGED <<files, keeper, place, cur, pend, old, caughtUp, waiting, stops, handled, reported>>
  BY DEF StartAt
<1>2. /\ cur \in Gen /\ FingerprintOf(cur) \in FP /\ FpStands(FingerprintOf(cur), cur)
      /\ pend = 0 /\ old = NoOld /\ ~caughtUp /\ ~behind
  BY AtResume
<1>3. TypeOK'
  <2>1. off \in Nat
    BY FollowBounds DEF Size
  <2> QED BY <1>1, <1>2, <2>1 DEF FollowInv, TypeOK, files, keeper
<1>4. FilesInStep'
  BY <1>1 DEF FollowInv, FilesInStep, files
<1>5. ReaderInStep'
  BY <1>1, <1>2 DEF FollowInv, ReaderInStep, Starting, NoOld, FpStands, up, files
<1>6. PlaceInStep'
  BY <1>1 DEF FollowInv, PlaceInStep, Newest, FpStands, files, up
<1>7. Pass({}) /\ Wanted({})
  BY <1>1, NoPass DEF FollowInv, keeper
<1>8. LinesCome'
  BY <1>1, <1>7, ComesOn
<1>9. PlaceTold'
  <2>1. \A l \in Line : InOld(l)' <=> InOld(l)
    BY <1>1 DEF InOld
  <2> QED BY <1>1, <1>7, <2>1, PlaceStays
<1>10. KeptBehind'
  <2>1. \A l \in handled' : l[1] <= cur'
    BY <1>1 DEF FollowInv, KeptBehind, up
  <2> QED BY <1>1, <1>2, <1>7, <2>1, KeptOn
<1> QED BY <1>3, <1>4, <1>5, <1>6, <1>8, <1>9, <1>10 DEF FollowInv

LEMMA FaultsTyped ==
    ASSUME TypeOK, Fails \/ Works
    PROVE  faults' \in 0 .. MaxFaults
BY FollowConstants DEF TypeOK, Fails, Works, MayFail

LEMMA ResumeAtEndKeeps == FollowInv /\ ResumeAtEnd => FollowInv'
<1> SUFFICES ASSUME FollowInv, ResumeAtEnd PROVE FollowInv'
  OBVIOUS
<1>1. PICK sv \in {size[cur], 0} : StartAt(size[cur], sv)
  BY DEF ResumeAtEnd
<1>2. /\ pc = "resume" /\ skipped' = skipped \cup PassedOver /\ behind' = FALSE
      /\ UNCHANGED <<orphaned, nameless>> /\ (Fails \/ Works)
  BY DEF ResumeAtEnd
<1>3. cur \in Gen /\ cur \in Nat /\ size[cur] \in Size /\ size[cur] \in Nat /\ sv \in Size /\ pend = 0 /\ 0 \in Size
  BY <1>1, <1>2, AtResume
<1>4. faults' \in 0 .. MaxFaults
  BY <1>2, FaultsTyped DEF FollowInv
<1>5. /\ Grows /\ skipped' \in SUBSET Line /\ nameless' \in SUBSET Gen /\ orphaned' = orphaned
  BY <1>1, <1>2 DEF FollowInv, TypeOK, Grows, StartAt, PassedOver
<1>6. ASSUME NEW l \in Line PROVE Settled(l)' \/ Ahead(l)'
  <2>1. l[1] \in Nat /\ Start(l) \in Nat
    BY LineParts
  <2>2. l \in PassedOver \/ l[1] > cur \/ (l[1] = cur /\ size[cur] <= Start(l))
    BY <1>3, <2>1 DEF PassedOver
  <2>3. l[1] > cur \/ (l[1] = cur /\ size[cur] <= Start(l)) => Ahead(l)'
    BY <1>1, <1>3 DEF Ahead, StartAt, files, Start
  <2> QED BY <1>2, <2>2, <2>3 DEF Settled, WrittenOff
<1>7. size[cur] <= size[cur]
  BY <1>3
<1>8. behind' \in BOOLEAN /\ ~behind'
  <2>1. behind' = FALSE
    BY <1>2
  <2> QED BY <2>1
<1> QED BY <1>1, <1>2, <1>3, <1>4, <1>5, <1>6, <1>7, <1>8, StartKeeps

\* The file the stored place names, when it names one.
LEMMA PlaceParts ==
    ASSUME FollowInv, place # NoPlace
    PROVE  /\ place.gen \in Gen /\ place.gen \in Nat /\ place.off \in Size /\ place.off \in Nat
           /\ place.off <= size[place.gen] /\ (up => place.gen <= cur)
           /\ place.fp \in {NoFP, place.gen} /\ (place.fp # NoFP => size[place.gen] >= FpSize)
BY FollowBounds DEF FollowInv, TypeOK, PlaceInStep, FpStands, Size, Gen

LEMMA ResumeAtPlaceKeeps == FollowInv /\ ResumeAtPlace => FollowInv'
<1> SUFFICES ASSUME FollowInv, ResumeAtPlace PROVE FollowInv'
  OBVIOUS
<1>1. /\ pc = "resume" /\ place # NoPlace /\ SameLog /\ StartAt(place.off, place.off) /\ behind' = FALSE
      /\ UNCHANGED <<faults, skipped, orphaned, nameless>>
  BY DEF ResumeAtPlace
<1>2. cur \in Gen /\ cur \in Nat /\ pend = 0
  BY <1>1, AtResume
<1>3. place.gen = cur /\ place.off \in Size /\ place.off <= size[cur]
  BY <1>1, <1>2, PlaceParts, FollowConstants DEF SameLog, FingerprintOf
<1>4. /\ Grows /\ skipped' \in SUBSET Line /\ nameless' \in SUBSET Gen /\ faults' \in 0 .. MaxFaults
  BY <1>1 DEF FollowInv, TypeOK, Grows, StartAt
<1>5. ASSUME NEW l \in Line, Ahead(l) PROVE Ahead(l)'
  <2>1. l[1] > cur \/ (l[1] = cur /\ place.off <= Start(l))
    BY <1>1, <1>3, <1>5 DEF Ahead
  <2>2. pc' = "rotated" /\ cur' = cur /\ pos' = place.off /\ pend' = 0 /\ place.off - 0 = place.off
    BY <1>1, <1>2, <1>3, FollowBounds DEF StartAt, Size
  <2> QED BY <2>1, <2>2 DEF Ahead, Start
<1> QED BY <1>1, <1>3, <1>4, <1>5, StartKeeps

LEMMA ResumeAtStartKeeps == FollowInv /\ ResumeAtStart => FollowInv'
<1> SUFFICES ASSUME FollowInv, ResumeAtStart PROVE FollowInv'
  OBVIOUS
<1> DEFINE G == {g \in Gen : place.gen <= g /\ g < cur}
<1>1. /\ pc = "resume" /\ place # NoPlace /\ ~SameLog /\ StartAt(0, 0) /\ behind' = (place.fp # NoFP)
      /\ nameless' = IF behind' THEN nameless ELSE nameless \cup G
      /\ UNCHANGED <<faults, skipped, orphaned>>
  BY DEF ResumeAtStart
<1>2. cur \in Gen /\ cur \in Nat /\ pend = 0 /\ 0 \in Size /\ 0 <= size[cur]
  BY <1>1, AtResume
<1>3. place.gen \in Nat /\ place.gen \in Gen /\ place.gen <= cur
  BY <1>1, PlaceParts DEF up
<1>4. behind' => place.fp # NoFP /\ place.gen < cur
  <2>1. ASSUME place.fp # NoFP PROVE place.gen # cur
    BY <1>1, <1>2, <2>1, PlaceParts, FollowConstants DEF SameLog, FingerprintOf
  <2>2. behind' => place.fp # NoFP
    BY <1>1
  <2>3. place.gen # cur => place.gen < cur
    BY <1>2, <1>3
  <2> QED BY <2>1, <2>2, <2>3
<1>5. /\ Grows /\ skipped' \in SUBSET Line /\ nameless' \in SUBSET Gen /\ faults' \in 0 .. MaxFaults /\ behind' \in BOOLEAN
  BY <1>1 DEF FollowInv, TypeOK, Grows, StartAt
<1>6. ASSUME NEW l \in Line, Ahead(l) PROVE Settled(l)' \/ Ahead(l)'
  <2>1. l[1] \in Gen /\ l[1] \in Nat /\ Start(l) \in Nat
    BY LineParts
  <2>2. place.gen <= l[1]
    BY <1>1, <1>3, <1>6, <2>1 DEF Ahead
  <2>3. pc' = "rotated" /\ cur' = cur /\ pos' = 0 /\ pend' = 0 /\ place' = place
    BY <1>1, <1>2 DEF StartAt
  <2>4. CASE l[1] >= cur
    BY <1>2, <2>1, <2>3, <2>4 DEF Ahead, Start
  <2>5. CASE l[1] < cur /\ behind'
    BY <2>2, <2>3, <2>5 DEF Ahead
  <2>6. CASE l[1] < cur /\ ~behind'
    BY <1>1, <2>1, <2>2, <2>6 DEF Settled, WrittenOff
  <2> QED BY <1>2, <2>1, <2>4, <2>5, <2>6
<1> QED BY <1>1, <1>2, <1>4, <1>5, <1>6, StartKeeps

-----------------------------------------------------------------------------
(* From the start to the loop.                                             *)

LEMMA NotBehindKeeps == FollowInv /\ NotBehind => FollowInv'
<1> SUFFICES ASSUME FollowInv, NotBehind PROVE FollowInv'
  OBVIOUS
<1>1. /\ pc = "rotated" /\ ~behind /\ pc' = "tick"
      /\ UNCHANGED <<faults, files, keeper, place, cur, pos, pend, fp, saved, behind, old, caughtUp,
                     waiting, observed>>
  BY DEF NotBehind
<1>2. Pass({}) /\ Wanted({})
  BY <1>1, NoPass DEF FollowInv, Grows, keeper, observed
<1>3. TypeOK' /\ FilesInStep' /\ PlaceInStep'
  BY <1>1 DEF FollowInv, TypeOK, FilesInStep, PlaceInStep, Newest, FpStands, files, keeper, observed, up
<1>4. ReaderInStep'
  BY <1>1 DEF FollowInv, ReaderInStep, Starting, FpStands, files, up
<1>5. \A l \in Line : (InOld(l)' <=> InOld(l)) /\ (Ahead(l) => Ahead(l)')
  BY <1>1 DEF InOld, Ahead
<1>6. LinesCome' /\ PlaceTold'
  BY <1>1, <1>2, <1>5, ComesOn, PlaceStays
<1>7. KeptBehind'
  <2>1. \A l \in handled' : l[1] <= cur'
    BY <1>1 DEF FollowInv, KeptBehind, observed, up
  <2>2. ~caughtUp'
    BY <1>1 DEF FollowInv, ReaderInStep, Starting
  <2> QED BY <1>1, <1>2, <2>1, <2>2, KeptOn
<1> QED BY <1>3, <1>4, <1>6, <1>7 DEF FollowInv

\* What a reader behind a rotation knows.
LEMMA AtRotated ==
    ASSUME FollowInv, pc = "rotated", behind
    PROVE  /\ place # NoPlace /\ place.fp # NoFP /\ place.gen < cur /\ place.gen \in Gen /\ place.gen \in Nat
           /\ cur \in {name, rot} /\ cur \in Gen /\ cur \in Nat /\ old = NoOld /\ ~caughtUp /\ pend = 0 /\ up
           /\ \A l \in Line : l \notin Written /\ Possible(l) /\ l[1] < cur =>
                 name # 0 /\ cur = name /\ l[1] = writer /\ l[1] = rot
<1>1. /\ place.fp # NoFP /\ place.gen < cur /\ old = NoOld /\ ~caughtUp /\ pend = 0 /\ up
      /\ cur \in {name, rot} \ {0} /\ name \in Gen \cup {0} /\ rot \in Gen \cup {0} /\ writer \in Gen
  BY DEF FollowInv, TypeOK, ReaderInStep, Starting, up
<1>2. place # NoPlace
  BY <1>1 DEF NoPlace
<1>3. ASSUME NEW l \in Line, l \notin Written, Possible(l), l[1] < cur
      PROVE  name # 0 /\ cur = name /\ l[1] = writer /\ l[1] = rot
  <2>1. writer <= l[1] /\ l[1] \in Nat
    BY <1>3, LineParts DEF Possible, Gen
  <2>2. name # 0
    BY <1>1, <1>3, <2>1 DEF FollowInv, FilesInStep, Gen
  <2>3. name = rot + 1 /\ writer \in {name, rot}
    BY <2>2 DEF FollowInv, FilesInStep
  <2> QED BY <1>1, <1>3, <2>1, <2>2, <2>3 DEF Gen
<1> QED BY <1>1, <1>2, <1>3, PlaceParts DEF Gen

\* Both ways out of being behind a rotation: what was ahead by the place alone
\* is settled.
LEMMA RotatedKeeps ==
    ASSUME FollowInv, pc = "rotated", behind, NEW A, Pass(A), \A l \in A : l[1] <= cur,
           pc' = "tick", behind' = FALSE,
           UNCHANGED <<faults, files, place, cur, pos, pend, fp, saved, old, caughtUp, stops>>,
           port25' \in BOOLEAN, waiting' \subseteq [line : Refusals, fp : FP],
           skipped' \subseteq Line, reported' \subseteq Line, orphaned' \subseteq Gen, nameless' \subseteq Gen,
           \A l \in Line : Possible(l) /\ place.gen <= l[1] /\ l[1] < cur /\ (l[1] = place.gen => place.off <= Start(l))
                               => Settled(l)'
    PROVE  FollowInv'
<1>1. /\ place # NoPlace /\ place.gen \in Nat /\ cur \in Gen /\ cur \in Nat /\ old = NoOld /\ ~caughtUp /\ pend = 0 /\ up
  BY AtRotated
<1>2. TypeOK'
  <2>1. kept' \in [Line -> 0 .. 2]
    BY DEF Pass, Keeping
  <2>2. handled' \subseteq Line /\ dropped' \subseteq handled'
    BY PassCarries DEF Written
  <2>3. behind' \in BOOLEAN
    OBVIOUS
  <2> QED BY <2>1, <2>2, <2>3 DEF FollowInv, TypeOK, files
<1>3. FilesInStep' /\ PlaceInStep'
  BY <1>1 DEF FollowInv, FilesInStep, PlaceInStep, Newest, FpStands, files, up
<1>4. ReaderInStep'
  BY <1>1 DEF FollowInv, ReaderInStep, Starting, FpStands, files, up
<1>5. LinesCome'
  <2>1. ASSUME NEW l \in Line, Possible(l), Ahead(l) PROVE Settled(l)' \/ Ahead(l)'
    <3>1. l[1] \in Nat /\ l[1] >= 1
      BY LineParts
    <3>2. CASE l[1] > cur \/ (l[1] = cur /\ pos - pend <= Start(l))
      BY <3>2 DEF Ahead, Start
    <3>3. CASE place.gen <= l[1] /\ l[1] < cur
      <4>1. CASE l[1] = place.gen /\ ~(place.off <= Start(l))
        <5>1. Start(l) < place.off
          BY <1>1, <4>1, LineParts, PlaceParts
        <5>2. Settled(l)
          BY <1>1, <2>1, <4>1, <5>1 DEF FollowInv, PlaceTold
        <5> QED BY <5>2, PassCarries
      <4> QED BY <2>1, <3>3, <4>1
    <3>4. l[1] # old.gen
      BY <1>1, <3>1 DEF NoOld
    <3> QED BY <2>1, <3>2, <3>3, <3>4 DEF Ahead
  <2> QED BY <2>1, ComesOn
<1>6. PlaceTold'
  <2>1. \A l \in Line : InOld(l)' <=> InOld(l)
    BY DEF InOld
  <2> QED BY <2>1, PlaceStays
<1>7. KeptBehind'
  <2>1. \A l \in handled' : l[1] <= cur'
    BY <1>1, HandledOlder
  <2> QED BY <1>1, <2>1, KeptOn
<1> QED BY <1>2, <1>3, <1>4, <1>5, <1>6, <1>7 DEF FollowInv

LEMMA ReadRotatedKeeps == FollowInv /\ ReadRotated => FollowInv'
<1> SUFFICES ASSUME FollowInv, ReadRotated PROVE FollowInv'
  OBVIOUS
<1> DEFINE A == WholeLines(rot, place.off, size[rot])
<1>1. /\ pc = "rotated" /\ behind /\ RotatedIsPrev /\ Handle(A, FingerprintOf(rot)) /\ behind' = FALSE
      /\ orphaned' = orphaned \cup StillWritten(rot) /\ pc' = "tick"
      /\ UNCHANGED <<faults, files, place, cur, pos, pend, fp, saved, old, caughtUp,
                     stops, skipped, reported, nameless>>
  BY DEF ReadRotated
<1>2. /\ place # NoPlace /\ place.fp # NoFP /\ place.gen < cur /\ place.gen \in Nat
      /\ cur \in {name, rot} /\ cur \in Nat /\ ~caughtUp
  BY <1>1, AtRotated
<1>3. rot \in Gen /\ rot \in Nat /\ place.gen = rot /\ FingerprintOf(rot) \in FP
  <2>1. rot \in Gen
    BY <1>1 DEF FollowInv, TypeOK, RotatedIsPrev
  <2>2. place.gen = rot
    BY <1>1, <1>2, <2>1, PlaceParts, FollowConstants DEF RotatedIsPrev, FingerprintOf
  <2> QED BY <2>1, <2>2 DEF FingerprintOf, FP, Gen
<1>4. \A l \in A : l \in Line /\ l \in Written /\ l[1] = rot /\ l[1] <= cur
  BY <1>2, <1>3 DEF WholeLines, Written
<1> HIDE DEF A
<1>5. /\ Keeping(A) /\ Wanted(A) /\ handled' = handled \cup A
      /\ port25' \in BOOLEAN /\ waiting' \subseteq [line : Refusals, fp : FP]
  <2>1. A \in SUBSET Line /\ FingerprintOf(rot) \in FP /\ Handle(A, FingerprintOf(rot)) /\ TypeOK
    BY <1>1, <1>3, <1>4 DEF FollowInv
  <2> QED BY <2>1, HandleDoes
<1>6. Pass(A)
  BY <1>1, <1>2, <1>4, <1>5 DEF Pass, Grows
<1>7. skipped' \subseteq Line /\ reported' \subseteq Line /\ orphaned' \subseteq Gen /\ nameless' \subseteq Gen
  BY <1>1, <1>3 DEF FollowInv, TypeOK, StillWritten
<1>8. ASSUME NEW l \in Line, Possible(l), place.gen <= l[1], l[1] < cur, l[1] = place.gen => place.off <= Start(l)
      PROVE  Settled(l)'
  <2>1. CASE l \in Written
    <3>1. l[1] = rot
      <4>1. l[1] \in Nat
        BY LineParts
      <4>2. name # 0 => name = rot + 1
        BY DEF FollowInv, FilesInStep
      <4> QED BY <1>2, <1>3, <1>8, <4>1, <4>2 DEF FollowInv, TypeOK, Gen
    <3>2. l \in A
      BY <1>3, <1>8, <2>1, <3>1 DEF A, WholeLines, Written
    <3> QED BY <1>5, <1>6, <3>2, PassSettles
  <2>2. CASE l \notin Written
    <3>1. l[1] = writer /\ l[1] = rot
      BY <1>1, <1>8, <2>2, AtRotated
    <3> QED BY <1>1, <3>1 DEF Settled, WrittenOff, StillWritten
  <2> QED BY <2>1, <2>2
<1> QED BY <1>1, <1>4, <1>5, <1>6, <1>7, <1>8, RotatedKeeps

LEMMA ReportLostKeeps == FollowInv /\ ReportLost => FollowInv'
<1> SUFFICES ASSUME FollowInv, ReportLost PROVE FollowInv'
  OBVIOUS
<1> DEFINE R == {l \in Line : place.gen <= l[1] /\ l[1] < cur /\ 2 * (l[2] - 1) < size[l[1]]}
<1>1. /\ pc = "rotated" /\ behind /\ reported' = reported \cup R
      /\ orphaned' = (IF writer < cur THEN orphaned \cup {writer} ELSE orphaned)
      /\ behind' = FALSE /\ pc' = "tick"
      /\ UNCHANGED <<faults, files, keeper, place, cur, pos, pend, fp, saved, old, caughtUp, waiting,
                     stops, handled, skipped, nameless>>
  BY DEF ReportLost
<1>2. Pass({})
  BY <1>1, NoPass DEF FollowInv, Grows, keeper
<1>3. /\ port25' \in BOOLEAN /\ waiting' \subseteq [line : Refusals, fp : FP]
      /\ skipped' \subseteq Line /\ reported' \subseteq Line /\ orphaned' \subseteq Gen /\ nameless' \subseteq Gen
  BY <1>1 DEF FollowInv, TypeOK, keeper
<1>4. ASSUME NEW l \in Line, Possible(l), place.gen <= l[1], l[1] < cur PROVE Settled(l)'
  <2>1. l[2] \in Nat /\ l[2] >= 1 /\ size[l[1]] \in Nat
    BY LineParts, FileParts DEF FollowInv
  <2>2. CASE l \in Written
    <3>1. 2 * (l[2] - 1) < size[l[1]]
      BY <2>1, <2>2 DEF Written
    <3> QED BY <1>1, <1>4, <3>1 DEF Settled, WrittenOff
  <2>3. CASE l \notin Written
    <3>1. l[1] = writer
      BY <1>1, <1>4, <2>3, AtRotated
    <3> QED BY <1>1, <1>4, <3>1 DEF Settled, WrittenOff
  <2> QED BY <2>2, <2>3
<1> QED BY <1>1, <1>2, <1>3, <1>4, RotatedKeeps

-----------------------------------------------------------------------------
(* The loop.                                                               *)

LEMMA AtLoop ==
    ASSUME FollowInv, pc \in {"tick", "drain", "stat", "switch", "record"}
    PROVE  /\ cur \in Gen /\ cur \in Nat /\ cur \in {name, rot} /\ up /\ ~behind
           /\ pos \in Nat /\ pend \in {0, 1} /\ pend <= pos /\ pos <= size[cur]
           /\ size[cur] \in Size /\ size[cur] \in Nat
           /\ ReadTo(pos, pend) \in {0, 1} /\ ReadTo(pos, pend) <= size[cur]
<1>1. cur \in Gen /\ cur \in Nat /\ cur \in {name, rot} /\ up /\ ~behind /\ pos <= size[cur]
  BY DEF FollowInv, TypeOK, ReaderInStep, up, Gen
<1>2. pos \in Nat /\ pend \in {0, 1} /\ pend <= pos
  BY FollowBounds DEF FollowInv, TypeOK, Size
<1>3. size[cur] \in Size /\ size[cur] \in Nat
  BY <1>1, FileParts DEF FollowInv
<1>4. ReadTo(pos, pend) \in {0, 1} /\ ReadTo(pos, pend) <= size[cur]
  BY <1>1, <1>2, ReadToTyped DEF FollowInv, ReadTo
<1> QED BY <1>1, <1>2, <1>3, <1>4

\* What a read of the open file leaves ahead in it.
LEMMA CurRead ==
    ASSUME FollowInv, pc \in {"tick", "drain", "stat", "switch", "record"}, NEW l \in Line, l[1] = cur
    PROVE  /\ l \in Written => ~ (size[cur] - ReadTo(pos, pend) <= Start(l))
           /\ l \notin Written /\ pos - pend <= Start(l) => size[cur] - ReadTo(pos, pend) <= Start(l)
<1>1. ReadTo(pos, pend) = IF pos = size[l[1]] THEN pend ELSE size[l[1]] % 2
  BY DEF ReadTo
<1>2. pos \in Nat /\ pend \in {0, 1} /\ TypeOK
  BY AtLoop DEF FollowInv
<1> QED BY <1>1, <1>2, ReadOn

\* What a read of the rotated file leaves ahead in it.
LEMMA OldRead ==
    ASSUME FollowInv, old.gen # 0
    PROVE  /\ OldDrained \in OldType /\ OldDrained.gen = old.gen
           /\ OldDrained.pos = size[old.gen] /\ OldDrained.pend <= OldDrained.pos
           /\ \A l \in Line : l[1] = old.gen =>
                 /\ l \in Written => ~ (OldDrained.pos - OldDrained.pend <= Start(l))
                 /\ l \notin Written /\ old.pos - old.pend <= Start(l)
                       => OldDrained.pos - OldDrained.pend <= Start(l)
<1> DEFINE m == IF old.pos = size[old.gen] THEN old.pend ELSE size[old.gen] % 2
<1>1. old \in OldType /\ old.gen \in Gen /\ old.pos \in Nat /\ old.pend \in {0, 1} /\ old.pend <= old.pos /\ TypeOK
  BY FollowBounds DEF FollowInv, TypeOK, ReaderInStep, OldType, Size
<1>2. m \in {0, 1} /\ m <= size[old.gen] /\ size[old.gen] \in Size
  BY <1>1, ReadToTyped, FileParts
<1>3. OldDrained = [old EXCEPT !.pos = size[old.gen], !.pend = m]
  BY DEF OldDrained
<1> HIDE DEF m
<1>4. /\ OldDrained \in OldType /\ OldDrained.gen = old.gen
      /\ OldDrained.pos = size[old.gen] /\ OldDrained.pend = m
  BY <1>1, <1>2, <1>3 DEF OldType
<1>5. ASSUME NEW l \in Line, l[1] = old.gen
      PROVE  /\ l \in Written => ~ (size[l[1]] - m <= Start(l))
             /\ l \notin Written /\ old.pos - old.pend <= Start(l) => size[l[1]] - m <= Start(l)
  <2>1. m = IF old.pos = size[l[1]] THEN old.pend ELSE size[l[1]] % 2
    BY <1>5 DEF m
  <2> QED BY <1>1, <2>1, ReadOn
<1> QED BY <1>2, <1>4, <1>5

LEMMA DrainOldKeeps == FollowInv /\ DrainOld => FollowInv'
<1> SUFFICES ASSUME FollowInv, DrainOld PROVE FollowInv'
  OBVIOUS
<1>1. /\ pc = "tick" /\ Handle(OldLines, old.fp) /\ pc' = "drain"
      /\ \/ old' = OldDrained
         \/ old.gen # 0 /\ old' = NoOld
      /\ orphaned' = (IF old'.gen = 0 /\ old.gen # 0 THEN orphaned \cup StillWritten(old.gen) ELSE orphaned)
      /\ UNCHANGED <<faults, files, place, cur, pos, pend, fp, saved, behind, caughtUp,
                     stops, skipped, reported, nameless>>
  BY DEF DrainOld
<1>2. cur \in Gen /\ cur \in Nat /\ up /\ ~behind /\ old.fp \in FP /\ TypeOK /\ old \in OldType
  BY <1>1, AtLoop DEF FollowInv, TypeOK, OldType
<1>3. \A l \in OldLines : l \in Line /\ l \in Written /\ l[1] = old.gen /\ l[1] < cur /\ Ahead(l)
  BY OldLinesAhead
<1>4. /\ Keeping(OldLines) /\ Wanted(OldLines) /\ handled' = handled \cup OldLines
      /\ port25' \in BOOLEAN /\ waiting' \subseteq [line : Refusals, fp : FP]
  BY <1>1, <1>2, <1>3, HandleDoes
<1>5. Pass(OldLines)
  BY <1>1, <1>3, <1>4 DEF Pass, Grows
<1>6. old' \in OldType /\ (old'.gen # 0 => old.gen # 0 /\ old' = OldDrained)
  <2>1. CASE old' = NoOld
    BY <2>1, FollowBounds DEF NoOld, OldType, FP, Size
  <2>2. CASE old' = OldDrained /\ old.gen = 0
    BY <1>2, <2>2 DEF OldDrained
  <2>3. CASE old' = OldDrained /\ old.gen # 0
    BY <2>3, OldRead
  <2> QED BY <1>1, <2>1, <2>2, <2>3
<1>7. old.gen # 0 => old.gen \in Gen /\ old.gen + 1 = cur /\ caughtUp
  BY <1>2 DEF FollowInv, ReaderInStep, OldType, NoOld
<1>8. TypeOK'
  <2>1. handled' \subseteq Line /\ dropped' \subseteq handled' /\ kept' \in [Line -> 0 .. 2]
    BY <1>5, PassCarries DEF Pass, Keeping, Written
  <2>2. orphaned' \subseteq Gen
    BY <1>1, <1>7 DEF FollowInv, TypeOK, StillWritten
  <2> QED BY <1>1, <1>4, <1>6, <2>1, <2>2 DEF FollowInv, TypeOK, files, OldType
<1>9. FilesInStep' /\ PlaceInStep'
  BY <1>1, <1>2 DEF FollowInv, FilesInStep, PlaceInStep, Newest, FpStands, files, up
<1>10. ReaderInStep'
  <2>1. ~caughtUp => old' = NoOld
    <3>1. ~caughtUp => old = NoOld
      BY DEF FollowInv, ReaderInStep
    <3> QED BY <1>1, <3>1 DEF OldDrained, NoOld
  <2>2. old'.gen # 0 => old'.gen + 1 = cur /\ old'.pos <= size[old'.gen] /\ old'.pend <= old'.pos
    <3>1. old'.gen # 0 => old'.pos = size[old'.gen] /\ old'.pos \in Nat /\ old'.gen = old.gen /\ old'.pend <= old'.pos
      BY <1>2, <1>6, <1>7, OldRead, FileParts
    <3> QED BY <1>6, <1>7, <3>1
  <2> QED BY <1>1, <1>2, <2>1, <2>2 DEF FollowInv, ReaderInStep, Starting, FpStands, files, up
<1>11. ASSUME NEW l \in Line, Possible(l), InOld(l) PROVE Settled(l)' \/ InOld(l)'
  <2>1. /\ old.gen # 0 /\ l[1] = old.gen
        /\ l \in Written => l \in OldLines
        /\ l \notin Written => writer = old.gen
    BY <1>11, InOldThere
  <2>2. CASE l \in Written
    BY <1>4, <1>5, <2>1, <2>2, PassSettles
  <2>3. CASE l \notin Written /\ old' = OldDrained
    BY <1>11, <2>1, <2>3, OldRead DEF InOld, Start
  <2>4. CASE l \notin Written /\ old' = NoOld
    BY <1>1, <2>1, <2>4 DEF NoOld, StillWritten, Settled, WrittenOff
  <2> QED BY <1>1, <2>2, <2>3, <2>4
<1>12. LinesCome'
  <2>1. ASSUME NEW l \in Line, Possible(l), Ahead(l) PROVE Settled(l)' \/ Ahead(l)'
    <3>1. InOld(l) \/ l[1] > cur \/ (l[1] = cur /\ pos - pend <= Start(l))
      BY <1>1, <1>2, <2>1 DEF Ahead, InOld
    <3>2. InOld(l)' => Ahead(l)'
      BY <1>1 DEF Ahead, InOld
    <3>3. l[1] > cur \/ (l[1] = cur /\ pos - pend <= Start(l)) => Ahead(l)'
      BY <1>1 DEF Ahead, Start
    <3> QED BY <1>11, <2>1, <3>1, <3>2, <3>3
  <2> QED BY <1>1, <1>5, <2>1, ComesOn
<1>13. PlaceTold'
  BY <1>1, <1>5, <1>11, PlaceStays
<1>14. KeptBehind'
  <2>1. \A l \in handled' : l[1] <= cur'
    <3>1. \A l \in OldLines : l[1] <= cur
      BY <1>2, <1>3, LineParts
    <3> QED BY <1>1, <1>2, <1>5, <3>1, HandledOlder
  <2>2. ASSUME caughtUp, NEW l \in Line, kept'[l] > 0 PROVE ~ Ahead(l)'
    <3>1. l \in handled' /\ l \in Written /\ l[1] <= cur /\ l[1] \in Nat /\ l[1] >= 1
      BY <1>1, <1>5, <2>1, <2>2, PassCarries, LineParts
    <3>2. ~ (l[1] = cur /\ pos - pend <= Start(l))
      <4>1. kept[l] > 0 \/ l \in OldLines
        BY <1>5, <2>2, PassCarries
      <4>2. kept[l] > 0 => ~ Ahead(l)
        BY <2>2 DEF FollowInv, KeptBehind
      <4>3. l[1] = cur /\ pos - pend <= Start(l) => Ahead(l)
        BY <1>1 DEF Ahead
      <4> QED BY <1>2, <1>3, <4>1, <4>2, <4>3
    <3>3. ~ InOld(l)'
      <4>1. CASE old'.gen = 0
        BY <3>1, <4>1 DEF InOld
      <4>2. CASE old'.gen # 0
        BY <1>6, <3>1, <4>2, OldRead DEF InOld, Start
      <4> QED BY <4>1, <4>2
    <3> QED BY <1>1, <1>2, <3>1, <3>2, <3>3 DEF Ahead, InOld, Start
  <2> QED BY <1>1, <1>5, <2>1, <2>2, KeptOn
<1> QED BY <1>8, <1>9, <1>10, <1>12, <1>13, <1>14 DEF FollowInv

LEMMA DrainKeeps == FollowInv /\ Drain => FollowInv'
<1> SUFFICES ASSUME FollowInv, Drain PROVE FollowInv'
  OBVIOUS
<1>1. /\ pc = "drain" /\ Handle(CurLines, fp) /\ pos' = size[cur] /\ pend' = ReadTo(pos, pend)
      /\ caughtUp' = TRUE /\ pc' = "stat"
      /\ UNCHANGED <<faults, files, place, cur, fp, saved, behind, old,
                     stops, skipped, reported, orphaned, nameless>>
  BY DEF Drain
<1>2. /\ cur \in Gen /\ cur \in Nat /\ up /\ ~behind /\ fp \in FP /\ TypeOK
      /\ size[cur] \in Size /\ size[cur] \in Nat
      /\ ReadTo(pos, pend) \in {0, 1} /\ ReadTo(pos, pend) <= size[cur]
  BY <1>1, AtLoop DEF FollowInv, TypeOK
<1>3. \A l \in CurLines : l \in Line /\ l \in Written /\ l[1] = cur /\ Ahead(l)
  BY <1>1, CurLinesAhead
<1>4. /\ Keeping(CurLines) /\ Wanted(CurLines) /\ handled' = handled \cup CurLines
      /\ port25' \in BOOLEAN /\ waiting' \subseteq [line : Refusals, fp : FP]
  BY <1>1, <1>2, <1>3, HandleDoes
<1>5. Pass(CurLines)
  BY <1>1, <1>3, <1>4 DEF Pass, Grows
<1>6. TypeOK'
  <2>1. handled' \subseteq Line /\ dropped' \subseteq handled' /\ kept' \in [Line -> 0 .. 2]
    BY <1>5, PassCarries DEF Pass, Keeping, Written
  <2>2. caughtUp' \in BOOLEAN
    <3>1. caughtUp' = TRUE
      BY <1>1
    <3> QED BY <3>1
  <2> QED BY <1>1, <1>2, <1>4, <2>1, <2>2 DEF TypeOK, files
<1>7. FilesInStep' /\ PlaceInStep'
  BY <1>1, <1>2 DEF FollowInv, FilesInStep, PlaceInStep, Newest, FpStands, files, up
<1>8. ReaderInStep'
  <2>1. size[cur] <= size[cur]
    BY <1>2
  <2> QED BY <1>1, <1>2, <2>1 DEF FollowInv, ReaderInStep, Starting, FpStands, files, up
<1>9. LinesCome'
  <2>1. ASSUME NEW l \in Line, Possible(l), Ahead(l) PROVE Settled(l)' \/ Ahead(l)'
    <3>1. CASE l[1] > cur \/ InOld(l)
      BY <1>1, <3>1 DEF Ahead, InOld, Start
    <3>2. CASE l[1] = cur /\ pos - pend <= Start(l) /\ l \in Written
      BY <1>4, <1>5, <3>2, CurThere, PassSettles
    <3>3. CASE l[1] = cur /\ pos - pend <= Start(l) /\ l \notin Written
      BY <1>1, <3>3, CurRead DEF Ahead, Start
    <3> QED BY <1>1, <1>2, <2>1, <3>1, <3>2, <3>3 DEF Ahead, InOld
  <2> QED BY <1>1, <1>5, <2>1, ComesOn
<1>10. PlaceTold'
  <2>1. \A l \in Line : InOld(l)' <=> InOld(l)
    BY <1>1 DEF InOld
  <2> QED BY <1>1, <1>5, <2>1, PlaceStays
<1>11. KeptBehind'
  <2>1. \A l \in handled' : l[1] <= cur'
    <3>1. \A l \in CurLines : l[1] <= cur
      BY <1>2, <1>3
    <3> QED BY <1>1, <1>2, <1>5, <3>1, HandledOlder
  <2>2. ASSUME NEW l \in Line, kept'[l] > 0 PROVE ~ Ahead(l)'
    <3>1. l \in Written /\ l[1] <= cur /\ l[1] \in Nat /\ l[1] >= 1
      BY <1>1, <1>5, <2>1, <2>2, PassCarries, LineParts
    <3>2. ~ (l[1] = cur /\ pos' - pend' <= Start(l))
      BY <1>1, <3>1, CurRead
    <3>3. ~ InOld(l)
      <4>1. CASE caughtUp
        <5>1. kept[l] > 0 => ~ Ahead(l)
          BY <4>1 DEF FollowInv, KeptBehind
        <5>2. InOld(l) => Ahead(l) /\ l[1] # cur
          BY <1>1, <1>2, <3>1 DEF Ahead, InOld, FollowInv, ReaderInStep
        <5>3. kept[l] > 0 \/ l \in CurLines
          BY <1>5, <2>2, PassCarries
        <5> QED BY <1>3, <5>1, <5>2, <5>3
      <4>2. CASE ~caughtUp
        BY <3>1, <4>2 DEF InOld, NoOld, FollowInv, ReaderInStep
      <4> QED BY <4>1, <4>2
    <3> QED BY <1>1, <1>2, <3>1, <3>2, <3>3 DEF Ahead, InOld, Start
  <2> QED BY <1>1, <1>5, <2>1, <2>2, KeptOn
<1> QED BY <1>6, <1>7, <1>8, <1>9, <1>10, <1>11 DEF FollowInv

\* A step of the loop that reads nothing and moves no reader.
LEMMA TurnKeeps ==
    ASSUME FollowInv, pc \in {"stat", "record"}, pc' \in {"tick", "switch", "record"},
           pc' = "record" => pc = "stat", pc' = "switch" => pc = "stat" /\ name # 0 /\ name # cur,
           UNCHANGED <<files, keeper, cur, pos, pend, behind, old, caughtUp, waiting, observed>>,
           fp' \in FP, FpStands(fp', cur), saved' \in Size \cup {-1}, faults' \in 0 .. MaxFaults,
           place' \in PlaceType, PlaceInStep', PlaceTold'
    PROVE  FollowInv'
<1>1. cur \in Gen /\ cur \in Nat /\ up /\ ~behind
  BY AtLoop
<1>2. Pass({})
  BY NoPass DEF FollowInv, Grows, keeper, observed
<1>3. TypeOK'
  BY DEF FollowInv, TypeOK, PlaceType, files, keeper, observed
<1>4. FilesInStep'
  BY DEF FollowInv, FilesInStep, files
<1>5. ReaderInStep'
  BY <1>1 DEF FollowInv, ReaderInStep, Starting, FpStands, files, up
<1>6. \A l \in Line : Ahead(l)' <=> Ahead(l)
  BY <1>1 DEF Ahead
<1>7. LinesCome'
  BY <1>2, <1>6, ComesOn
<1>8. KeptBehind'
  BY <1>6 DEF FollowInv, KeptBehind, Written, files, keeper, observed, up
<1> QED BY <1>3, <1>4, <1>5, <1>7, <1>8 DEF FollowInv

LEMMA StatKeeps == FollowInv /\ Stat => FollowInv'
<1> SUFFICES ASSUME FollowInv, Stat PROVE FollowInv'
  OBVIOUS
<1>1. /\ pc = "stat"
      /\ UNCHANGED <<faults, files, keeper, place, cur, pos, pend, fp, saved, behind, old, caughtUp,
                     waiting, observed>>
  BY DEF Stat
<1>2. pc' \in {"tick", "switch", "record"} /\ (pc' = "switch" => name # 0 /\ name # cur)
  <2>1. CASE name = 0
    BY <2>1 DEF Stat
  <2>2. CASE name # 0 /\ name # cur
    BY <2>2 DEF Stat
  <2>3. CASE name # 0 /\ name = cur
    BY <2>3 DEF Stat
  <2> QED BY <2>1, <2>2, <2>3
<1>3. Pass({}) /\ up
  BY <1>1, NoPass DEF FollowInv, Grows, keeper, observed, up
<1>4. PlaceTold'
  <2>1. \A l \in Line : InOld(l)' <=> InOld(l)
    BY <1>1 DEF InOld
  <2> QED BY <1>1, <1>3, <2>1, PlaceStays
<1>5. PlaceInStep'
  BY <1>1, <1>2, <1>3 DEF FollowInv, PlaceInStep, Newest, FpStands, files, up
<1>6. /\ fp' \in FP /\ FpStands(fp', cur) /\ saved' \in Size \cup {-1} /\ faults' \in 0 .. MaxFaults
      /\ place' \in PlaceType
  BY <1>1, <1>3 DEF FollowInv, TypeOK, ReaderInStep, PlaceType
<1> QED BY <1>1, <1>2, <1>4, <1>5, <1>6, TurnKeeps

\* What a reader saves: a file that stands, and an offset in it no later than
\* what it has read.
LEMMA SavedPlace ==
    ASSUME FollowInv, pc \in {"tick", "record"}
    PROVE  /\ HeldOffset(ReadOffset) \in Size /\ HeldOffset(ReadOffset) \in Nat
           /\ HeldOffset(ReadOffset) <= pos - pend /\ HeldOffset(ReadOffset) <= size[cur]
           /\ KnownFP \in FP /\ FpStands(KnownFP, cur) /\ cur <= Newest
<1>1. /\ cur \in Gen /\ cur \in Nat /\ cur \in {name, rot} /\ up /\ pos \in Nat /\ pend \in {0, 1} /\ pend <= pos
      /\ pos <= size[cur] /\ size[cur] \in Nat /\ size[cur] <= 2 * MaxLines /\ TypeOK
  BY AtLoop, FileParts DEF FollowInv
<1>2. ReadOffset \in Size /\ ReadOffset = pos - pend
  BY <1>1, FollowBounds DEF ReadOffset, Size
<1>3. HeldOffset(ReadOffset) \in Size /\ HeldOffset(ReadOffset) <= ReadOffset
  BY <1>1, <1>2, Held
<1>4. HeldOffset(ReadOffset) \in Nat /\ HeldOffset(ReadOffset) <= pos - pend /\ HeldOffset(ReadOffset) <= size[cur]
  BY <1>1, <1>2, <1>3, FollowBounds DEF Size
<1>5. KnownFP \in FP /\ FpStands(KnownFP, cur)
  BY <1>1 DEF FollowInv, TypeOK, ReaderInStep, KnownFP, FingerprintOf, FpStands, FP
<1>6. cur <= Newest
  <2>1. name # 0 => name = rot + 1 /\ rot \in Gen \cup {0}
    BY DEF FollowInv, FilesInStep, TypeOK
  <2> QED BY <1>1, <2>1 DEF Newest, Gen
<1> QED BY <1>3, <1>4, <1>5, <1>6

LEMMA RecordKeeps == FollowInv /\ Record => FollowInv'
<1> SUFFICES ASSUME FollowInv, Record PROVE FollowInv'
  OBVIOUS
<1> DEFINE off == HeldOffset(ReadOffset)
<1>1. /\ pc = "record" /\ pc' = "tick"
      /\ UNCHANGED <<files, keeper, cur, pos, pend, behind, old, caughtUp, waiting, observed>>
      /\ \/ UNCHANGED <<place, saved, fp>> /\ Works
         \/ fp' = KnownFP /\ SavePlace(fp', off, cur) /\ saved' = off /\ Works
         \/ fp' = KnownFP /\ Fails /\ UNCHANGED <<place, saved>>
  BY DEF Record
<1>2. Pass({}) /\ up /\ cur \in Gen /\ cur \in Nat /\ ~behind /\ pos \in Nat /\ pend \in {0, 1}
  BY <1>1, NoPass, AtLoop DEF FollowInv, Grows, keeper, observed
<1>3. faults' \in 0 .. MaxFaults
  BY <1>1, FaultsTyped DEF FollowInv
<1>4. /\ off \in Size /\ off \in Nat /\ off <= pos - pend /\ off <= size[cur]
      /\ KnownFP \in FP /\ FpStands(KnownFP, cur) /\ cur <= Newest
  BY <1>1, SavedPlace
<1> HIDE DEF off
<1>5. fp' \in FP /\ FpStands(fp', cur) /\ saved' \in Size \cup {-1}
  BY <1>1, <1>2, <1>4 DEF FollowInv, TypeOK, ReaderInStep
<1>6. \A l \in Line : InOld(l)' <=> InOld(l)
  BY <1>1 DEF InOld
<1>7. CASE UNCHANGED place
  <2>1. PlaceTold'
    BY <1>1, <1>2, <1>6, <1>7, PlaceStays
  <2>2. PlaceInStep' /\ place' \in PlaceType
    BY <1>1, <1>2, <1>7 DEF FollowInv, TypeOK, PlaceType, PlaceInStep, Newest, FpStands, files, up
  <2> QED BY <1>1, <1>3, <1>5, <2>1, <2>2, TurnKeeps
<1>8. CASE fp' = KnownFP /\ SavePlace(fp', off, cur)
  <2>1. place' = [fp |-> KnownFP, off |-> off, gen |-> cur]
    BY <1>8 DEF SavePlace
  <2>2. place' \in PlaceType /\ place'.gen = cur /\ place'.off = off /\ place'.fp = KnownFP
    BY <1>2, <1>4, <2>1 DEF PlaceType
  <2>3. PlaceInStep'
    BY <1>1, <1>2, <1>4, <2>2 DEF PlaceInStep, Newest, FpStands, files, up
  <2>4. \A l \in Line : Possible(l) /\ Ahead(l) /\ l[1] = cur /\ Start(l) < off => Settled(l)'
    <3>1. \A l \in Line : Ahead(l) /\ l[1] = cur => pos - pend <= Start(l)
      BY <1>1, <1>2 DEF Ahead, FollowInv, ReaderInStep
    <3> QED BY <1>2, <1>4, <3>1, LineParts
  <2>5. \A l \in Line : Ahead(l) /\ l[1] < cur => InOld(l)'
    BY <1>1, <1>2, <1>6, LineParts DEF Ahead, InOld
  <2>6. PlaceTold'
    BY <1>1, <1>2, <1>4, <2>2, <2>4, <2>5, PlaceMoves
  <2> QED BY <1>1, <1>3, <1>5, <2>2, <2>3, <2>6, TurnKeeps
<1> QED BY <1>1, <1>7, <1>8

\* The last reads of both files.
LEMMA LastReadsDo ==
    ASSUME FollowInv, pc = "switch", LastReads, Grows
    PROVE  /\ Pass(CurLines \cup OldLines) /\ Wanted(CurLines \cup OldLines)
           /\ port25' \in BOOLEAN /\ waiting' \subseteq [line : Refusals, fp : FP]
           /\ \A l \in CurLines \cup OldLines : l[1] <= cur
           /\ \A l \in Line : Possible(l) /\ InOld(l) => Settled(l)'
           /\ \A l \in Line : l[1] = cur /\ pos - pend <= Start(l) /\ l \in Written => Settled(l)'
           /\ name \in Gen /\ name \in Nat /\ name = cur + 1 /\ Newest = name /\ caughtUp
<1> DEFINE A == CurLines \cup OldLines
<1>1. cur \in Gen /\ cur \in Nat /\ cur \in {name, rot} /\ up /\ ~behind /\ TypeOK
  BY AtLoop DEF FollowInv
<1>2. /\ \A l \in CurLines : l \in Line /\ l \in Written /\ l[1] = cur /\ Ahead(l)
      /\ \A l \in OldLines : l \in Line /\ l \in Written /\ l[1] < cur /\ Ahead(l)
  BY CurLinesAhead, OldLinesAhead
<1>3. CurLines \in SUBSET Line /\ OldLines \in SUBSET Line
  BY <1>2
<1>4. Keeping(A) /\ Wanted(A)
  BY <1>1, <1>3, PassesKeep DEF LastReads
<1>5. handled' = handled \cup A
  BY DEF LastReads
<1>6. Pass(A)
  BY <1>2, <1>4, <1>5 DEF Pass
<1>7. port25' \in BOOLEAN
  <2>1. Remembers(CurLines, port25) \in BOOLEAN
    BY <1>1, RemembersBool DEF TypeOK
  <2> QED BY <2>1, RemembersBool DEF LastReads
<1>8. waiting' \subseteq [line : Refusals, fp : FP]
  <2>1. fp \in FP /\ old.fp \in FP /\ waiting \subseteq [line : Refusals, fp : FP]
    BY <1>1 DEF TypeOK
  <2> QED BY <2>1 DEF LastReads
<1>9. ASSUME NEW l \in Line, Possible(l), InOld(l) PROVE Settled(l)'
  BY <1>4, <1>6, <1>9, InOldThere, PassSettles
<1>10. ASSUME NEW l \in Line, l[1] = cur, pos - pend <= Start(l), l \in Written PROVE Settled(l)'
  BY <1>4, <1>6, <1>10, CurThere, PassSettles
<1>11. name \in Gen /\ name \in Nat /\ name = cur + 1 /\ Newest = name /\ caughtUp
  <2>1. name # 0 /\ name # cur /\ name = rot + 1 /\ caughtUp /\ name \in Gen \cup {0}
    BY DEF FollowInv, ReaderInStep, FilesInStep, TypeOK
  <2> QED BY <1>1, <2>1 DEF Newest, Gen
<1>12. \A l \in A : l[1] <= cur
  BY <1>1, <1>2, <1>3, LineParts
<1> QED BY <1>4, <1>6, <1>7, <1>8, <1>9, <1>10, <1>11, <1>12

LEMMA SwitchKeeps == FollowInv /\ Switch => FollowInv'
<1> SUFFICES ASSUME FollowInv, Switch PROVE FollowInv'
  OBVIOUS
<1> DEFINE A == CurLines \cup OldLines
<1>1. /\ pc = "switch" /\ LastReads /\ cur' = name /\ pos' = 0 /\ pend' = 0
      /\ old' = [gen |-> cur, pos |-> size[cur], pend |-> ReadTo(pos, pend), fp |-> fp]
      /\ orphaned' = (IF old.gen # 0 THEN orphaned \cup StillWritten(old.gen) ELSE orphaned)
      /\ fp' = FingerprintOf(name) /\ pc' = "tick"
      /\ \/ SavePlace(fp', 0, name) /\ saved' = 0 /\ Works
         \/ Fails /\ saved' = -1 /\ UNCHANGED place
      /\ UNCHANGED <<files, behind, caughtUp, stops, skipped, reported, nameless>>
  BY DEF Switch
<1>2. /\ cur \in Gen /\ cur \in Nat /\ up /\ ~behind /\ fp \in FP /\ TypeOK
      /\ size[cur] \in Size /\ size[cur] \in Nat
      /\ ReadTo(pos, pend) \in {0, 1} /\ ReadTo(pos, pend) <= size[cur]
  BY <1>1, AtLoop DEF FollowInv, TypeOK
<1>3. Grows
  BY <1>1 DEF Grows
<1>4. /\ Pass(A) /\ Wanted(A)
      /\ port25' \in BOOLEAN /\ waiting' \subseteq [line : Refusals, fp : FP]
      /\ \A l \in A : l[1] <= cur
      /\ \A l \in Line : Possible(l) /\ InOld(l) => Settled(l)'
      /\ \A l \in Line : l[1] = cur /\ pos - pend <= Start(l) /\ l \in Written => Settled(l)'
      /\ name \in Gen /\ name \in Nat /\ name = cur + 1 /\ Newest = name /\ caughtUp
  BY <1>1, <1>3, LastReadsDo
<1> HIDE DEF A
<1>5. /\ old' \in OldType /\ old'.gen = cur /\ old'.pos = size[cur] /\ old'.pend = ReadTo(pos, pend)
  BY <1>1, <1>2 DEF OldType
<1>6. FingerprintOf(name) \in FP /\ FpStands(FingerprintOf(name), name) /\ 0 \in Size /\ 0 <= size[name]
  BY <1>2, <1>4, FileParts, FollowBounds DEF FingerprintOf, FP, FpStands, Size
<1>7. place' = [fp |-> FingerprintOf(name), off |-> 0, gen |-> name] \/ UNCHANGED place
  BY <1>1 DEF SavePlace
<1>8. TypeOK'
  <2>1. handled' \subseteq Line /\ dropped' \subseteq handled' /\ kept' \in [Line -> 0 .. 2]
    BY <1>4, PassCarries DEF Pass, Keeping, Written
  <2>2. orphaned' \subseteq Gen
    BY <1>1, <1>2 DEF TypeOK, StillWritten
  <2>3. place' \in PlaceType
    BY <1>2, <1>4, <1>6, <1>7 DEF TypeOK, PlaceType
  <2>4. faults' \in 0 .. MaxFaults /\ saved' \in Size \cup {-1}
    BY <1>1, <1>2, <1>6, FaultsTyped
  <2>5. pend' \in {0, 1} /\ pend' <= pos' /\ pos' \in Size /\ cur' \in Gen \cup {0} /\ fp' \in FP
    BY <1>1, <1>4, <1>6
  <2> QED BY <1>1, <1>4, <1>5, <2>1, <2>2, <2>3, <2>4, <2>5, <1>2 DEF TypeOK, files, OldType, PlaceType
<1>9. FilesInStep'
  BY <1>1 DEF FollowInv, FilesInStep, files
<1>10. PlaceInStep'
  <2>1. CASE place' = [fp |-> FingerprintOf(name), off |-> 0, gen |-> name]
    BY <1>1, <1>4, <1>6, <2>1 DEF PlaceInStep, Newest, FpStands, files, up
  <2>2. CASE UNCHANGED place /\ place # NoPlace
    <3>1. place.gen \in Nat /\ place.gen <= cur
      BY <1>2, <2>2, PlaceParts
    <3>2. place.gen <= name
      BY <1>2, <1>4, <3>1
    <3> QED BY <1>1, <2>2, <3>2 DEF FollowInv, PlaceInStep, Newest, FpStands, files, up
  <2>3. CASE UNCHANGED place /\ place = NoPlace
    BY <2>3 DEF PlaceInStep
  <2> QED BY <1>7, <2>1, <2>2, <2>3
<1>11. ReaderInStep'
  <2>1. name \in {name, rot} \ {0}
    BY <1>2, <1>4
  <2>2. old'.gen # 0 => old'.gen + 1 = name /\ old'.pos <= size[old'.gen] /\ old'.pend <= old'.pos
    BY <1>2, <1>4, <1>5
  <2> QED BY <1>1, <1>2, <1>4, <1>6, <2>1, <2>2 DEF ReaderInStep, Starting, FpStands, files, up
<1>12. ASSUME NEW l \in Line, Possible(l), Ahead(l), l[1] < name PROVE Settled(l)' \/ InOld(l)'
  <2>1. l[1] <= cur /\ l[1] \in Nat
    BY <1>2, <1>4, <1>12, LineParts
  <2>2. CASE InOld(l)
    BY <1>4, <1>12, <2>2
  <2>3. CASE l[1] = cur /\ pos - pend <= Start(l) /\ l \in Written
    BY <1>4, <2>3
  <2>4. CASE l[1] = cur /\ pos - pend <= Start(l) /\ l \notin Written
    BY <1>1, <1>5, <2>4, CurRead DEF InOld, Start
  <2> QED BY <1>1, <1>2, <1>12, <2>1, <2>2, <2>3, <2>4 DEF Ahead, InOld
<1>13. LinesCome'
  <2>1. ASSUME NEW l \in Line, Possible(l), Ahead(l) PROVE Settled(l)' \/ Ahead(l)'
    <3>1. l[1] \in Nat /\ Start(l) \in Nat
      BY LineParts
    <3>2. CASE l[1] >= name
      <4>1. l[1] > cur' \/ (l[1] = cur' /\ pos' - pend' <= Start(l))
        BY <1>1, <1>4, <3>1, <3>2
      <4> QED BY <1>1, <4>1 DEF Ahead, Start
    <3>3. CASE l[1] < name
      <4>1. InOld(l)' => Ahead(l)'
        BY <1>1 DEF Ahead, InOld
      <4> QED BY <1>12, <2>1, <3>3, <4>1
    <3> QED BY <1>4, <3>1, <3>2, <3>3
  <2> QED BY <1>1, <1>4, <2>1, ComesOn
<1>14. PlaceTold'
  <2>1. CASE UNCHANGED place
    BY <1>1, <1>4, <2>1, PlaceStays
  <2>2. CASE place' = [fp |-> FingerprintOf(name), off |-> 0, gen |-> name]
    <3>1. place'.gen = name /\ place'.off = 0 /\ \A l \in Line : ~ (Start(l) < 0)
      BY <2>2, LineParts
    <3> QED BY <1>1, <1>4, <1>12, <3>1, PlaceMoves
  <2> QED BY <1>7, <2>1, <2>2
<1>15. KeptBehind'
  <2>1. \A l \in handled' : l[1] <= cur
    <3>1. \A l \in handled' : l \in handled \/ l \in A
      BY <1>4 DEF Pass
    <3> QED BY <1>2, <1>4, <3>1 DEF FollowInv, KeptBehind
  <2>2. \A l \in handled' : l[1] <= cur'
    BY <1>1, <1>2, <1>4, HandledOlder
  <2>3. ASSUME NEW l \in Line, kept'[l] > 0 PROVE ~ Ahead(l)'
    <3>1. l \in handled' /\ l \in Written /\ l[1] <= cur /\ l[1] \in Nat
      BY <1>4, <2>1, <2>3, PassCarries, LineParts
    <3>2. l[1] < name
      BY <1>2, <1>4, <3>1
    <3>3. ~ InOld(l)'
      BY <1>1, <1>5, <3>1, CurRead DEF InOld, Start
    <3> QED BY <1>1, <1>2, <1>4, <3>1, <3>2, <3>3 DEF Ahead, InOld
  <2> QED BY <1>1, <1>4, <2>2, <2>3, KeptOn
<1> QED BY <1>8, <1>9, <1>10, <1>11, <1>13, <1>14, <1>15 DEF FollowInv

LEMMA SwitchFailsKeeps == FollowInv /\ SwitchFails => FollowInv'
<1> SUFFICES ASSUME FollowInv, SwitchFails PROVE FollowInv'
  OBVIOUS
<1> DEFINE A == CurLines \cup OldLines
<1>1. /\ pc = "switch" /\ Fails /\ LastReads /\ pos' = size[cur] /\ pend' = ReadTo(pos, pend)
      /\ old' = NoOld
      /\ orphaned' = (IF old.gen # 0 THEN orphaned \cup StillWritten(old.gen) ELSE orphaned)
      /\ pc' = "tick"
      /\ UNCHANGED <<files, place, cur, fp, saved, behind, caughtUp,
                     stops, skipped, reported, nameless>>
  BY DEF SwitchFails
<1>2. /\ cur \in Gen /\ cur \in Nat /\ up /\ ~behind /\ TypeOK
      /\ size[cur] \in Size /\ size[cur] \in Nat
      /\ ReadTo(pos, pend) \in {0, 1} /\ ReadTo(pos, pend) <= size[cur]
  BY <1>1, AtLoop DEF FollowInv
<1>3. Grows
  BY <1>1 DEF Grows
<1>4. /\ Pass(A) /\ Wanted(A)
      /\ port25' \in BOOLEAN /\ waiting' \subseteq [line : Refusals, fp : FP]
      /\ \A l \in A : l[1] <= cur
      /\ \A l \in Line : Possible(l) /\ InOld(l) => Settled(l)'
      /\ \A l \in Line : l[1] = cur /\ pos - pend <= Start(l) /\ l \in Written => Settled(l)'
      /\ caughtUp
  BY <1>1, <1>3, LastReadsDo
<1> HIDE DEF A
<1>5. old' \in OldType /\ old'.gen = 0
  BY <1>1, FollowBounds DEF NoOld, OldType, FP, Size
<1>6. TypeOK'
  <2>1. handled' \subseteq Line /\ dropped' \subseteq handled' /\ kept' \in [Line -> 0 .. 2]
    BY <1>4, PassCarries DEF Pass, Keeping, Written
  <2>2. orphaned' \subseteq Gen
    BY <1>1, <1>2 DEF TypeOK, StillWritten
  <2>3. faults' \in 0 .. MaxFaults
    BY <1>1, <1>2, FaultsTyped
  <2> QED BY <1>1, <1>2, <1>4, <1>5, <2>1, <2>2, <2>3 DEF TypeOK, files, OldType
<1>7. FilesInStep' /\ PlaceInStep'
  BY <1>1, <1>2 DEF FollowInv, FilesInStep, PlaceInStep, Newest, FpStands, files, up
<1>8. ReaderInStep'
  <2>1. size[cur] <= size[cur]
    BY <1>2
  <2> QED BY <1>1, <1>2, <1>4, <1>5, <2>1 DEF FollowInv, ReaderInStep, Starting, FpStands, files, up
<1>9. LinesCome'
  <2>1. ASSUME NEW l \in Line, Possible(l), Ahead(l) PROVE Settled(l)' \/ Ahead(l)'
    <3>1. CASE l[1] > cur
      BY <1>1, <3>1 DEF Ahead
    <3>2. CASE InOld(l)
      BY <1>4, <2>1, <3>2
    <3>3. CASE l[1] = cur /\ pos - pend <= Start(l) /\ l \in Written
      BY <1>4, <3>3
    <3>4. CASE l[1] = cur /\ pos - pend <= Start(l) /\ l \notin Written
      BY <1>1, <3>4, CurRead DEF Ahead, Start
    <3> QED BY <1>1, <1>2, <2>1, <3>1, <3>2, <3>3, <3>4 DEF Ahead, InOld
  <2> QED BY <1>1, <1>4, <2>1, ComesOn
<1>10. PlaceTold'
  BY <1>1, <1>4, PlaceStays
<1>11. KeptBehind'
  <2>1. \A l \in handled' : l[1] <= cur'
    BY <1>1, <1>2, <1>4, HandledOlder
  <2>2. ASSUME NEW l \in Line, kept'[l] > 0 PROVE ~ Ahead(l)'
    <3>1. l \in Written /\ l[1] <= cur /\ l[1] \in Nat /\ l[1] >= 1
      BY <1>1, <1>4, <2>1, <2>2, PassCarries, LineParts
    <3>2. ~ (l[1] = cur /\ pos' - pend' <= Start(l))
      BY <1>1, <3>1, CurRead
    <3> QED BY <1>1, <1>2, <1>5, <3>1, <3>2 DEF Ahead, Start
  <2> QED BY <1>1, <1>4, <2>1, <2>2, KeptOn
<1> QED BY <1>6, <1>7, <1>8, <1>9, <1>10, <1>11 DEF FollowInv

-----------------------------------------------------------------------------
(* The stops.                                                              *)

\* A stop is sound when what the place left behind lies behind is settled.
LEMMA StopKeeps ==
    ASSUME FollowInv, up, NEW A, Pass(A), Forget, UNCHANGED <<files, skipped, reported, nameless>>,
           orphaned' \subseteq Gen, faults' \in 0 .. MaxFaults, place' \in PlaceType,
           PlaceInStep',
           \A l \in Line : Possible(l) /\ place' # NoPlace =>
               /\ l[1] = place'.gen /\ Start(l) < place'.off => Settled(l)'
               /\ l[1] < place'.gen => Settled(l)'
    PROVE  FollowInv'
<1>1. /\ pc' = "down" /\ stops < MaxStops /\ stops' = stops + 1
      /\ cur' = 0 /\ pos' = 0 /\ pend' = 0 /\ fp' = NoFP /\ saved' = 0
      /\ behind' = FALSE /\ old' = NoOld /\ caughtUp' = FALSE /\ waiting' = {}
      /\ port25' = FALSE
  BY DEF Forget
<1>2. 0 \in Size /\ stops' \in 0 .. MaxStops /\ old' \in OldType
  <2>1. 0 \in Size
    BY FollowBounds DEF Size
  <2>2. stops' \in 0 .. MaxStops
    BY <1>1, FollowBounds DEF FollowInv, TypeOK
  <2> QED BY <1>1, <2>1, <2>2 DEF NoOld, OldType, FP
<1>3. TypeOK'
  <2>1. handled' \subseteq Line /\ dropped' \subseteq handled' /\ kept' \in [Line -> 0 .. 2]
    BY PassCarries DEF Pass, Keeping, Written
  <2>2. behind' \in BOOLEAN /\ caughtUp' \in BOOLEAN /\ port25' \in BOOLEAN
    <3>1. behind' = FALSE /\ caughtUp' = FALSE /\ port25' = FALSE
      BY <1>1
    <3> QED BY <3>1
  <2>3. saved' \in Size \cup {-1} /\ pend' \in {0, 1} /\ pend' <= pos' /\ fp' \in FP /\ pos' \in Size
    BY <1>1, <1>2 DEF FP
  <2>4. /\ size' \in [Gen -> Size] /\ writer' \in Gen /\ name' \in Gen \cup {0} /\ rot' \in Gen \cup {0}
        /\ skipped' \subseteq Line /\ reported' \subseteq Line /\ nameless' \subseteq Gen
        /\ waiting' \subseteq [line : Refusals, fp : FP] /\ cur' \in Gen \cup {0}
    BY <1>1 DEF FollowInv, TypeOK, files
  <2>5. pc' \in {"down", "resume", "rotated", "tick", "drain", "stat", "switch", "record"}
    BY <1>1
  <2> QED BY <1>2, <2>1, <2>2, <2>3, <2>4, <2>5 DEF TypeOK, OldType, PlaceType
<1>4. FilesInStep'
  BY DEF FollowInv, FilesInStep, files
<1>5. ReaderInStep'
  BY <1>1 DEF ReaderInStep, Starting, NoOld, up
<1>6. \A l \in Line : Possible(l)' => Possible(l)
  BY DEF Possible, Written, files
<1>7. ASSUME NEW l \in Line, Possible(l)' PROVE Settled(l)' \/ Ahead(l)'
  <2>1. Possible(l)
    BY <1>6, <1>7
  <2>2. CASE place' = NoPlace
    BY <1>1, <2>2 DEF Ahead
  <2>3. CASE place' # NoPlace
    <3>1. l[1] \in Nat /\ Start(l) \in Nat /\ place'.gen \in Int /\ place'.off \in Int
      BY LineParts DEF PlaceType, Gen, Size
    <3>2. CASE l[1] < place'.gen \/ (l[1] = place'.gen /\ Start(l) < place'.off)
      BY <2>1, <2>3, <3>2
    <3>3. CASE l[1] > place'.gen \/ (l[1] = place'.gen /\ place'.off <= Start(l))
      BY <1>1, <3>3 DEF Ahead, Start
    <3> QED BY <3>1, <3>2, <3>3
  <2> QED BY <2>2, <2>3
<1>8. LinesCome'
  BY <1>7 DEF LinesCome
<1>9. PlaceTold'
  BY <1>6 DEF PlaceTold
<1>10. KeptBehind'
  <2>1. ~ up' /\ ~ caughtUp'
    BY <1>1 DEF up
  <2> QED BY <2>1, KeptOn
<1> QED BY <1>3, <1>4, <1>5, <1>8, <1>9, <1>10 DEF FollowInv

\* A rotated file whose end the place does not lead to is let go of.
LEMMA LetGoCovers ==
    ASSUME FollowInv, NEW l \in Line, Possible(l), InOld(l), NEW p \in PlaceType, l[1] < p.gen
    PROVE  /\ l[1] \in LetGo(old, p)
           /\ l \notin Written => l[1] \in LetGo(OldDrained, p)
<1>1. /\ old.gen # 0 /\ old.gen \in Gen /\ l[1] = old.gen /\ l[1] \in Nat
      /\ l \notin Written => writer = old.gen
  BY InOldThere, LineParts
<1>2. p.gen # old.gen
  BY <1>1 DEF PlaceType, Gen
<1>3. l \in Written => old.pos - old.pend < size[old.gen]
  <2>1. l[2] \in Nat /\ Start(l) = 2 * l[2] - 2 /\ old.pos \in Int /\ old.pend \in Int /\ size[old.gen] \in Nat
    BY <1>1, LineParts, FileParts DEF FollowInv, TypeOK, Size
  <2> QED BY <1>1, <2>1 DEF InOld, Written
<1>4. OldDrained.gen = old.gen
  BY <1>1, OldRead
<1> QED BY <1>1, <1>2, <1>3, <1>4 DEF LetGo

LEMMA LetGoTyped ==
    ASSUME NEW o \in OldType, NEW p
    PROVE  LetGo(o, p) \subseteq Gen
BY DEF LetGo, OldType

\* A kill leaves the place, and what it lies behind was told.
LEMMA KillKeeps ==
    ASSUME FollowInv, up, NEW A, Pass(A), Forget, orphaned' = orphaned \cup LetGo(old, place),
           UNCHANGED <<faults, files, place, skipped, reported, nameless>>
    PROVE  FollowInv'
<1>1. old \in OldType /\ place \in PlaceType /\ faults' \in 0 .. MaxFaults
  BY DEF FollowInv, TypeOK, OldType, PlaceType
<1>2. orphaned' \subseteq Gen
  BY <1>1, LetGoTyped DEF FollowInv, TypeOK
<1>3. PlaceInStep'
  BY DEF FollowInv, PlaceInStep, Newest, FpStands, files, up, Forget
<1>4. ASSUME NEW l \in Line, Possible(l), place # NoPlace
      PROVE  /\ l[1] = place.gen /\ Start(l) < place.off => Settled(l)'
             /\ l[1] < place.gen => Settled(l)'
  <2>1. Settled(l) => Settled(l)'
    BY PassCarries
  <2>2. /\ l[1] = place.gen /\ Start(l) < place.off => Settled(l)
        /\ l[1] < place.gen => Settled(l) \/ InOld(l)
    BY <1>4 DEF FollowInv, PlaceTold
  <2>3. InOld(l) /\ l[1] < place.gen => Settled(l)'
    BY <1>1, <1>4, LetGoCovers DEF Settled, WrittenOff
  <2> QED BY <2>1, <2>2, <2>3
<1> QED BY <1>1, <1>2, <1>3, <1>4, StopKeeps

LEMMA CrashKeeps == FollowInv /\ Crash => FollowInv'
<1> SUFFICES ASSUME FollowInv, Crash PROVE FollowInv'
  OBVIOUS
<1>1. /\ up /\ orphaned' = orphaned \cup LetGo(old, place) /\ Forget
      /\ UNCHANGED <<faults, files, kept, dropped, place, handled, skipped, reported, nameless>>
  BY DEF Crash
<1>2. Pass({})
  BY <1>1, NoPass DEF FollowInv, Grows
<1> QED BY <1>1, <1>2, KillKeeps

\* The lines a kill can interrupt the reading of.
LEMMA PassLinesAhead ==
    ASSUME FollowInv, NEW l \in PassLines
    PROVE  l \in Line /\ l \in Written /\ (caughtUp => Ahead(l))
<1>1. CASE pc = "rotated" /\ behind /\ RotatedIsPrev
  <2>1. l \in WholeLines(rot, place.off, size[rot])
    BY <1>1 DEF PassLines
  <2>2. ~caughtUp
    BY <1>1, AtRotated
  <2> QED BY <2>1, <2>2 DEF WholeLines, Written
<1>2. CASE pc = "tick"
  <2>1. l \in OldLines
    BY <1>2 DEF PassLines
  <2> QED BY <2>1, OldLinesAhead
<1>3. CASE pc \in {"drain", "switch"}
  <2>1. l \in CurLines
    BY <1>3 DEF PassLines
  <2> QED BY <1>3, <2>1, CurLinesAhead
<1> QED BY <1>1, <1>2, <1>3 DEF PassLines

LEMMA CrashInPassKeeps == FollowInv /\ CrashInPass => FollowInv'
<1> SUFFICES ASSUME FollowInv, CrashInPass PROVE FollowInv'
  OBVIOUS
<1>1. PICK got \in (SUBSET PassLines) \ {{}} :
        /\ handled' = handled \cup got
        /\ \E written \in SUBSET Keeps(got, port25) : kept' = Stored(written)
        /\ orphaned' = orphaned \cup LetGo(old, place)
        /\ Forget
        /\ UNCHANGED <<faults, files, place, dropped, skipped, reported, nameless>>
  BY DEF CrashInPass
<1>2. PICK written \in SUBSET Keeps(got, port25) : kept' = Stored(written)
  BY <1>1
<1>3. \A l \in got : l \in Line /\ l \in Written /\ (caughtUp => Ahead(l))
  BY <1>1, PassLinesAhead
<1>4. up
  <2>1. PassLines # {}
    BY <1>1
  <2>2. pc = "down" => PassLines = {}
    BY DEF PassLines
  <2> QED BY <2>1, <2>2 DEF up
<1>5. written \subseteq got
  BY <1>3, KeptLines
<1>6. Keeping(got)
  <2>1. \A l \in Line : l \notin got => l \notin written
    BY <1>5
  <2>2. kept' \in [Line -> 0 .. 2]
    BY <1>2, StoredLines DEF FollowInv
  <2>3. /\ \A l \in Line : l \notin got => kept'[l] = kept[l]
        /\ \A l \in Line : kept'[l] >= kept[l]
    BY <1>2, <2>1, StoredLines DEF FollowInv
  <2>4. \A l \in Line : kept'[l] = 2 => kept[l] = 2 \/ (l \in got /\ caughtUp /\ kept[l] > 0)
    BY <1>2, <2>1, StoredLines DEF FollowInv
  <2> QED BY <1>1, <2>2, <2>3, <2>4 DEF Keeping
<1>7. Pass(got)
  BY <1>1, <1>3, <1>6 DEF Pass, Grows
<1> QED BY <1>1, <1>4, <1>7, KillKeeps

\* The last read of the rotated file comes before the place is saved.
LEMMA CleanStopKeeps == FollowInv /\ Stop => FollowInv'
<1> SUFFICES ASSUME FollowInv, Stop PROVE FollowInv'
  OBVIOUS
<1> DEFINE off == HeldOffset(ReadOffset)
<1>1. /\ pc = "tick" /\ handled' = handled \cup OldLines /\ KeepLines(OldLines, {})
      /\ (SavePlace(KnownFP, off, cur) \/ UNCHANGED place) /\ (Fails \/ Works)
      /\ orphaned' = orphaned \cup LetGo(OldDrained, place') /\ Forget
      /\ UNCHANGED <<files, skipped, reported, nameless>>
  BY DEF Stop
<1>2. /\ cur \in Gen /\ cur \in Nat /\ up /\ ~behind /\ TypeOK /\ old \in OldType /\ place \in PlaceType
      /\ pos \in Nat /\ pend \in {0, 1}
  BY <1>1, AtLoop DEF FollowInv, TypeOK, OldType, PlaceType
<1>3. \A l \in OldLines : l \in Line /\ l \in Written /\ l[1] = old.gen /\ l[1] < cur /\ Ahead(l)
  BY OldLinesAhead
<1>4. Pass(OldLines) /\ Wanted(OldLines)
  <2>1. OldLines \cup {} = OldLines /\ OldLines \in SUBSET Line /\ {} \in SUBSET Line
    BY <1>3
  <2>2. Keeping(OldLines \cup {}) /\ Wanted(OldLines \cup {})
    BY <1>1, <1>2, <2>1, PassesKeep
  <2>3. Keeping(OldLines) /\ Wanted(OldLines)
    BY <2>1, <2>2
  <2>4. Grows
    BY <1>1 DEF Grows
  <2> QED BY <1>1, <1>3, <2>3, <2>4 DEF Pass
<1>5. /\ off \in Size /\ off \in Nat /\ off <= pos - pend /\ off <= size[cur]
      /\ KnownFP \in FP /\ FpStands(KnownFP, cur) /\ cur <= Newest
  BY <1>1, SavedPlace
<1> HIDE DEF off
<1>6. faults' \in 0 .. MaxFaults
  BY <1>1, <1>2, FaultsTyped
<1>7. orphaned' \subseteq Gen
  <2>1. OldDrained \in OldType
    <3>1. old.gen = 0 => OldDrained = old
      BY DEF OldDrained
    <3> QED BY <1>2, <3>1, OldRead
  <2> QED BY <1>1, <1>2, <2>1, LetGoTyped DEF TypeOK
<1>8. place' \in PlaceType /\ PlaceInStep'
  <2>1. CASE SavePlace(KnownFP, off, cur)
    <3>1. place' = [fp |-> KnownFP, off |-> off, gen |-> cur]
      BY <2>1 DEF SavePlace
    <3>2. place' \in PlaceType /\ place'.gen = cur /\ place'.off = off /\ place'.fp = KnownFP
      BY <1>2, <1>5, <3>1 DEF PlaceType
    <3> QED BY <1>1, <1>2, <1>5, <3>2 DEF PlaceInStep, Newest, FpStands, files, up, Forget
  <2>2. CASE UNCHANGED place
    BY <1>1, <1>2, <2>2 DEF FollowInv, PlaceInStep, Newest, FpStands, files, up, Forget
  <2> QED BY <1>1, <2>1, <2>2
<1>9. ASSUME NEW l \in Line, Possible(l), InOld(l), l[1] < place'.gen PROVE Settled(l)'
  <2>1. CASE l \in Written
    BY <1>4, <1>9, <2>1, InOldThere, PassSettles
  <2>2. CASE l \notin Written
    BY <1>1, <1>8, <1>9, <2>2, LetGoCovers DEF Settled, WrittenOff
  <2> QED BY <2>1, <2>2
<1>10. ASSUME NEW l \in Line, Possible(l), place' # NoPlace
       PROVE  /\ l[1] = place'.gen /\ Start(l) < place'.off => Settled(l)'
              /\ l[1] < place'.gen => Settled(l)'
  <2>1. Settled(l) => Settled(l)'
    BY <1>4, PassCarries
  <2>2. CASE SavePlace(KnownFP, off, cur)
    <3>1. place'.gen = cur /\ place'.off = off
      BY <2>2 DEF SavePlace
    <3>2. Settled(l) \/ Ahead(l)
      BY <1>10 DEF FollowInv, LinesCome
    <3>3. l[1] <= cur /\ Ahead(l) => InOld(l) \/ (l[1] = cur /\ pos - pend <= Start(l))
      BY <1>1, <1>2, LineParts DEF Ahead, InOld
    <3>4. l[1] = cur => ~ InOld(l)
      BY <1>2 DEF InOld, FollowInv, ReaderInStep
    <3>5. l[1] = cur /\ Start(l) < off => Settled(l)
      BY <1>2, <1>5, <3>2, <3>3, <3>4, LineParts
    <3>6. l[1] < cur => Settled(l) \/ InOld(l)
      BY <1>2, <3>2, <3>3, LineParts
    <3> QED BY <1>9, <1>10, <2>1, <3>1, <3>5, <3>6
  <2>3. CASE UNCHANGED place
    <3>1. /\ l[1] = place.gen /\ Start(l) < place.off => Settled(l)
          /\ l[1] < place.gen => Settled(l) \/ InOld(l)
      BY <1>10, <2>3 DEF FollowInv, PlaceTold
    <3> QED BY <1>9, <1>10, <2>1, <2>3, <3>1
  <2> QED BY <1>1, <2>2, <2>3
<1> QED BY <1>1, <1>2, <1>4, <1>6, <1>7, <1>8, <1>10, StopKeeps

LEMMA PruneKeeps == FollowInv /\ PruneLines => FollowInv'
<1> SUFFICES ASSUME FollowInv, PruneLines PROVE FollowInv'
  OBVIOUS
<1>1. /\ kept' = [l \in Line |-> IF l \in Strangers THEN 0 ELSE kept[l]]
      /\ UNCHANGED <<faults, files, place, reader, observed>>
  BY DEF PruneLines
<1>2. \A l \in Line : kept[l] \in 0 .. 2 /\ kept[l] <= 1 /\ (kept[l] > 0 => l \in handled)
  BY DEF FollowInv, TypeOK, KeptBehind
<1>3. \A l \in Line : kept'[l] = IF l \in Strangers THEN 0 ELSE kept[l]
  BY <1>1
<1>4. kept' \in [Line -> 0 .. 2]
  BY <1>1, <1>2
<1>5. TypeOK'
  BY <1>1, <1>4 DEF FollowInv, TypeOK, files, reader, observed
<1>6. FilesInStep' /\ ReaderInStep' /\ PlaceInStep'
  BY <1>1 DEF FollowInv, FilesInStep, ReaderInStep, PlaceInStep, Newest, FpStands, files, reader, up
<1>7. /\ \A l \in Line : Ahead(l)' <=> Ahead(l)
      /\ \A l \in Line : (InOld(l)' <=> InOld(l)) /\ (Possible(l)' <=> Possible(l))
  BY <1>1 DEF Ahead, InOld, Possible, Written, files, reader
<1>8. \A l \in Line : Settled(l) => Settled(l)'
  BY <1>1, <1>3 DEF Settled, WrittenOff, observed
<1>9. LinesCome' /\ PlaceTold'
  BY <1>1, <1>7, <1>8 DEF FollowInv, LinesCome, PlaceTold
<1>10. KeptBehind'
  <2>1. \A l \in Line : kept'[l] > 0 => kept[l] > 0
    BY <1>2, <1>3
  <2>2. \A l \in Line : kept'[l] <= 1
    BY <1>2, <1>3
  <2> QED BY <1>1, <1>2, <1>7, <2>1, <2>2 DEF FollowInv, KeptBehind, Written, files, reader, observed, up
<1> QED BY <1>5, <1>6, <1>9, <1>10 DEF FollowInv

-----------------------------------------------------------------------------
(* The theorems.                                                           *)

LEMMA FollowStep == FollowInv /\ [Next]_vars => FollowInv'
<1> SUFFICES ASSUME FollowInv, [Next]_vars PROVE FollowInv'
  OBVIOUS
<1>1. CASE Open \/ ResumeAtEnd \/ ResumeAtPlace \/ ResumeAtStart
  BY <1>1, OpenKeeps, ResumeAtEndKeeps, ResumeAtPlaceKeeps, ResumeAtStartKeeps
<1>2. CASE NotBehind \/ ReadRotated \/ ReportLost
  BY <1>2, NotBehindKeeps, ReadRotatedKeeps, ReportLostKeeps
<1>3. CASE DrainOld \/ Drain \/ Stat \/ Switch \/ SwitchFails \/ Record
  BY <1>3, DrainOldKeeps, DrainKeeps, StatKeeps, SwitchKeeps, SwitchFailsKeeps, RecordKeeps
<1>4. CASE Stop \/ Crash \/ CrashInPass \/ PruneLines
  BY <1>4, CleanStopKeeps, CrashKeeps, CrashInPassKeeps, PruneKeeps
<1>5. CASE Log \/ Rename \/ Create \/ Reload
  BY <1>5, LogKeeps, RotationKeeps
<1>6. CASE UNCHANGED vars
  <2>1. UNCHANGED <<files, place, kept, reader, faults, observed>>
    BY <1>6 DEF vars
  <2>2. \A l \in Line : /\ (Settled(l)' <=> Settled(l)) /\ (Ahead(l)' <=> Ahead(l))
                        /\ (InOld(l)' <=> InOld(l)) /\ (Possible(l)' <=> Possible(l))
    BY <2>1 DEF Settled, WrittenOff, Ahead, InOld, Possible, Written, files, reader, observed
  <2>3. TypeOK' /\ FilesInStep' /\ ReaderInStep' /\ PlaceInStep'
    BY <2>1 DEF FollowInv, TypeOK, FilesInStep, ReaderInStep, PlaceInStep, Newest, FpStands,
                files, reader, observed, up
  <2>4. LinesCome' /\ PlaceTold' /\ KeptBehind'
    BY <2>1, <2>2 DEF FollowInv, LinesCome, PlaceTold, KeptBehind, Written, files, reader, observed, up
  <2> QED BY <2>3, <2>4 DEF FollowInv
<1> QED BY <1>1, <1>2, <1>3, <1>4, <1>5, <1>6 DEF Next, Follow

\* The inductive invariant holds of every state of the reader.
LEMMA FollowInvariant == Spec => []FollowInv
<1> QED BY FollowInit, FollowStep, PTL DEF Spec

\* The reader's state is as follow and tracker declare it.
THEOREM FollowTypesHold == Spec => []TypeOK
<1>1. FollowInv => TypeOK
  BY DEF FollowInv
<1> QED BY <1>1, FollowInvariant, PTL

\* Through rotations, restarts, kills and failed saves every line of mail.log
\* is handled, accounted for or still ahead of the reader (follow, tracker).
THEOREM LinesAreAccountedFor == Spec => []NoLineVanishes
<1>1. FollowInv => NoLineVanishes
  <2> SUFFICES ASSUME FollowInv, NEW l \in Written PROVE Accounted(l) \/ Ahead(l)
    BY DEF NoLineVanishes
  <2>1. l \in Line /\ (Settled(l) \/ Ahead(l))
    BY DEF FollowInv, LinesCome, Possible, Written
  <2> QED BY <2>1 DEF Settled, WrittenOff, Accounted, Told
<1> QED BY <1>1, FollowInvariant, PTL

\* A line is kept once and not lost but to a failed write, a part of the log
\* passed over or a file let go of, however the panel stops between reading,
\* writing and storing its place (lineKeeper, InsertSendLogLines).
THEOREM EveryLineIsKeptOnce == Spec => []LinesKeptOnce
<1>1. FollowInv => LinesKeptOnce
  <2> SUFFICES ASSUME FollowInv, NEW l \in Line
               PROVE  /\ kept[l] <= 1
                      /\ l \in handled \ Strangers =>
                            \/ kept[l] = 1 \/ Ahead(l)
                            \/ l \in dropped \cup skipped \cup reported
                            \/ l[1] \in orphaned \cup nameless
    BY DEF LinesKeptOnce
  <2>1. kept[l] <= 1 /\ (l \in handled => Possible(l))
    BY DEF FollowInv, KeptBehind, Possible
  <2>2. l \in handled => Settled(l) \/ Ahead(l)
    BY <2>1 DEF FollowInv, LinesCome
  <2> QED BY <2>1, <2>2 DEF Settled, WrittenOff
<1> QED BY <1>1, FollowInvariant, PTL

=============================================================================
