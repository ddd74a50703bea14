----------------------------- MODULE LogFollow -----------------------------
(***************************************************************************)
(* The log tailer's reading of mail.log (internal/logtail, follow and      *)
(* tracker): which lines reach the handler, once or again, while logrotate *)
(* renames the file under the reader and the panel stops and starts.       *)
(*                                                                         *)
(* A log file is a generation number, which stands for its inode; its      *)
(* contents are a count of half lines, so that a read can end inside a     *)
(* line.  A line is <<generation, number>> and is handled when both halves *)
(* reach the same reader.  What a line says is left to other modules, but  *)
(* for the line keeper: every line is headed by a queue id, and those of   *)
(* one message, offered on port 25, are not kept.                          *)
(* Nothing truncates mail.log (logrotate's copytruncate is not used), so   *)
(* the test "size < position" of follow never differs from "another file". *)
(***************************************************************************)
EXTENDS Integers, FiniteSets

CONSTANTS
    MaxGen,         \* bound: log files, one more than the rotations
    MaxLines,       \* bound: lines written to a file
    MaxStops,       \* bound: stops of the panel, clean or not
    FpSize,         \* half lines a file must have to be identified
    Before,         \* half lines the log may hold before the first start
    Refusals,       \* lines a refused message's row is waited for
    Strangers,      \* lines of the message that came in on port 25
    Opens, Closes,  \* of them, the port-25 smtpd's "client=" and a "removed"
    ReloadInTime,   \* "postfix reload" ends within rotatedGrace of the rename
    MaxFaults,      \* bound: store calls and reopenings that fail
    NoFP            \* the "" of a file too short to identify

Gen == 1 .. MaxGen
Size == 0 .. 2 * MaxLines
Line == Gen \X (1 .. MaxLines)
FP == Gen \cup {NoFP}

ASSUME FollowBounds == MaxGen \in Nat \ {0} /\ MaxLines \in Nat /\ MaxStops \in Nat
ASSUME FollowConstants ==
    /\ FpSize \in Nat \ {0}
    /\ Before \subseteq Size /\ Refusals \subseteq Line
    /\ Strangers \subseteq Line /\ Opens \subseteq Strangers /\ Closes \subseteq Strangers
    /\ Opens \cap Closes = {}
    /\ ReloadInTime \in BOOLEAN
    /\ MaxFaults \in Nat
    /\ NoFP \notin Gen

VARIABLES
    \* The files, which Postfix and logrotate change:
    size,       \* half lines in each file
    writer,     \* the file postlogd has open
    name,       \* the file named mail.log, 0 between rename and create
    rot,        \* the file named mail.log.1, 0 when there is none
    \* The store:
    place,      \* logtail_state; gen is the file it really speaks of
    kept,       \* send_log_lines: how often a line is there, two for more
    \* The tailer:
    pc,         \* where follow stands
    cur,        \* the file it has open
    pos, pend,  \* its position there and the half line held back (pending)
    fp,         \* tracker.fp
    saved,      \* tracker.saved
    behind,     \* tracker.behind; prev is place, which nothing changes before
    old,        \* the rotated file still read, gen 0 for none
    caughtUp,   \* the channel of that name is closed
    waiting,    \* refusalLines: what still waits, by where it starts
    port25,     \* lineKeeper.port25 holds the message's queue id
    \* What an observer knows:
    stops,      \* stops so far
    faults,     \* failed calls so far, dropped lines apart
    handled,    \* lines the handler was given
    dropped,    \* lines that could not be written (bound: one failed flush)
    skipped,    \* lines a first start, or one without a place, passed over
    reported,   \* lines readRotated said were not read
    orphaned,   \* files let go of before their last line was written or read
    nameless    \* files rotated away while the place named none

files == <<size, writer, name, rot>>
reader == <<pc, cur, pos, pend, fp, saved, behind, old, caughtUp, waiting, port25>>
observed == <<stops, handled, dropped, skipped, reported, orphaned, nameless>>
keeper == <<kept, port25, dropped>>
vars == <<files, place, kept, reader, faults, observed>>

NoPlace == [fp |-> NoFP, off |-> 0, gen |-> 0]
NoOld == [gen |-> 0, pos |-> 0, pend |-> 0, fp |-> NoFP]

TypeOK ==
    /\ size \in [Gen -> Size]
    /\ writer \in Gen /\ name \in Gen \cup {0} /\ rot \in Gen \cup {0}
    /\ place \in [fp : FP, off : Size, gen : Gen \cup {0}]
    /\ kept \in [Line -> 0 .. 2] /\ port25 \in BOOLEAN
    /\ pc \in {"down", "resume", "rotated", "tick", "drain", "stat", "switch", "record"}
    /\ cur \in Gen \cup {0} /\ pos \in Size /\ pend \in {0, 1} /\ pend <= pos
    /\ fp \in FP /\ saved \in Size \cup {-1} /\ behind \in BOOLEAN
    /\ old \in [gen : Gen \cup {0}, pos : Size, pend : {0, 1}, fp : FP]
    /\ caughtUp \in BOOLEAN
    /\ waiting \subseteq [line : Refusals, fp : FP]
    /\ stops \in 0 .. MaxStops /\ faults \in 0 .. MaxFaults
    /\ handled \subseteq Line /\ dropped \subseteq handled /\ skipped \subseteq Line /\ reported \subseteq Line
    /\ orphaned \subseteq Gen /\ nameless \subseteq Gen

Init ==
    /\ size \in {[g \in Gen |-> IF g = 1 THEN n ELSE 0] : n \in Before}
    /\ writer = 1 /\ name = 1 /\ rot = 0
    /\ place = NoPlace /\ kept = [l \in Line |-> 0]
    /\ pc = "down" /\ cur = 0 /\ pos = 0 /\ pend = 0
    /\ fp = NoFP /\ saved = 0 /\ behind = FALSE /\ old = NoOld
    /\ caughtUp = FALSE /\ waiting = {} /\ port25 = FALSE
    /\ stops = 0 /\ faults = 0 /\ handled = {} /\ dropped = {} /\ skipped = {} /\ reported = {} /\ orphaned = {}
    /\ nameless = {}

Start(l) == 2 * (l[2] - 1)              \* the offset a line starts at
Written == {l \in Line : 2 * l[2] <= size[l[1]]}

\* The complete lines a reader at offset a of file g meets up to offset b; a
\* line it entered in the middle is not one of them.
WholeLines(g, a, b) == {l \in Line : l[1] = g /\ a <= Start(l) /\ 2 * l[2] <= b}

FingerprintOf(g) == IF size[g] >= FpSize THEN g ELSE NoFP

up == pc # "down"

\* One call of the store or of the reopening fails; dropped is the trace of
\* another.
MayFail == dropped = {} /\ faults < MaxFaults
Fails == MayFail /\ faults' = faults + 1
Works == UNCHANGED faults

----------------------------------------------------------------------------
(* Postfix and logrotate (build/logrotate-mail.conf).                      *)

Log ==
    /\ size[writer] < 2 * MaxLines
    /\ size' = [size EXCEPT ![writer] = @ + 1]
    /\ UNCHANGED <<faults, writer, name, rot, place, kept, reader, observed>>

\* Rotations are hours apart, the reader's ticks a second: a running reader
\* has seen the last one.  notifempty: an empty log is left alone.
Rename ==
    /\ name # 0 /\ name < MaxGen /\ size[name] > 0
    /\ writer = name
    /\ up => cur = name
    /\ rot' = name
    /\ name' = 0
    /\ UNCHANGED <<faults, size, writer, place, kept, reader, observed>>

Create ==
    /\ name = 0
    /\ name' = rot + 1
    /\ UNCHANGED <<faults, size, writer, rot, place, kept, reader, observed>>

\* postlogd finishes the record it is writing and exits; the next one opens
\* mail.log.
Reload ==
    /\ name # 0 /\ writer # name
    /\ size[writer] % 2 = 0
    /\ writer' = name
    /\ UNCHANGED <<faults, size, name, rot, place, kept, reader, observed>>

----------------------------------------------------------------------------
(* The handler: every line is dispatched; a refusal whose row is not there *)
(* yet waits, and every pass ends in a flush that tries the waiting ones   *)
(* again.  A waiting line is remembered by where it starts and by the      *)
(* fingerprint the tracker had for its file then.                          *)

WaitAmong(lines, f) ==
    waiting' \in SUBSET (waiting \cup [line : lines \cap Refusals, fp : {f}])

\* The line keeper.  What is remembered of the port-25 message after lines of
\* one file, and which of them are not of a message remembered so
\* (lineKeeper.add); the map's ceiling is left out.
Remembers(lines, known) ==
    LET marks == lines \cap (Opens \cup Closes) IN
    IF marks = {} THEN known
    ELSE \E l \in marks \cap Opens : \A k \in marks : k[2] <= l[2]

Keeps(lines, known) ==
    {l \in lines \ Opens : l \in Strangers => ~Remembers({k \in lines : k[2] < l[2]}, known)}

\* InsertSendLogLines: lines read while catching up are written only if they
\* are not there.
Stored(lines) ==
    [l \in Line |-> CASE l \notin lines -> kept[l]
                       [] l \in lines /\ ~caughtUp /\ kept[l] > 0 -> kept[l]
                       [] OTHER -> IF kept[l] = 0 THEN 1 ELSE 2]

\* Two passes over the log, one after the other, each ending in a flush; lines
\* that cannot be written are dropped.
KeepLines(first, second) ==
    LET passes == {Keeps(first, port25), Keeps(second, Remembers(first, port25))} \ {{}}
    IN  \/ kept' = Stored(UNION passes) /\ UNCHANGED dropped
        \/ /\ MayFail
           /\ \E failed \in passes :
                 /\ kept' = Stored(UNION (passes \ {failed}))
                 /\ dropped' = failed

Handle(lines, f) ==
    /\ handled' = handled \cup lines
    /\ KeepLines(lines, {})
    /\ port25' = Remembers(lines, port25)
    /\ WaitAmong(lines, f)

\* What refusalLines.oldest leaves of an offset to save in the open file.
HeldOffset(off) ==
    LET starts == {Start(w.line) : w \in {w \in waiting : w.fp = fp}} \cup {off}
    IN  CHOOSE o \in starts : \A s \in starts : o <= s

\* A file too short to identify when it was opened may have grown.
KnownFP == IF fp = NoFP THEN FingerprintOf(cur) ELSE fp

\* SaveLogtailState.
SavePlace(f, off, g) == place' = [fp |-> f, off |-> off, gen |-> g]

\* read(): the position less the half line that is read again.
ReadOffset == pos - pend

ReadTo(p, n) == IF p = size[cur] THEN n ELSE size[cur] % 2

----------------------------------------------------------------------------
(* The start: follow up to its loop.                                       *)

Open ==
    /\ pc = "down" /\ name # 0
    /\ cur' = name /\ pos' = 0 /\ pend' = 0
    /\ pc' = "resume"
    /\ UNCHANGED <<faults, files, keeper, place, fp, saved, behind, old, caughtUp, waiting, observed>>

StartAt(off, sv) ==
    /\ pos' = off /\ saved' = sv
    /\ fp' = FingerprintOf(cur)
    /\ pc' = "rotated"
    /\ UNCHANGED <<files, keeper, place, cur, pend, old, caughtUp, waiting,
                   stops, handled, reported>>

\* Every line there is when a reader begins at the end of the log.
PassedOver == {l \in Line : l[1] < cur \/ (l[1] = cur /\ Start(l) < size[cur])}

\* No place was ever stored, or it cannot be read.
ResumeAtEnd ==
    /\ pc = "resume"
    /\ \/ place = NoPlace /\ StartAt(size[cur], size[cur]) /\ Works
       \/ Fails /\ StartAt(size[cur], 0)
    /\ skipped' = skipped \cup PassedOver
    /\ behind' = FALSE
    /\ UNCHANGED <<orphaned, nameless>>

SameLog == place.fp # NoFP /\ place.fp = FingerprintOf(cur) /\ place.off <= size[cur]

\* Mutant: the log is said to be caught up with before it is read.
ResumeAtPlaceCaughtUp ==
    /\ pc = "resume" /\ place # NoPlace /\ SameLog
    /\ pos' = place.off /\ saved' = place.off
    /\ fp' = FingerprintOf(cur)
    /\ pc' = "rotated"
    /\ behind' = FALSE /\ caughtUp' = TRUE
    /\ UNCHANGED <<faults, files, keeper, place, cur, pend, old, waiting, observed>>

ResumeAtPlace ==
    /\ pc = "resume" /\ place # NoPlace /\ SameLog
    /\ StartAt(place.off, place.off)
    /\ behind' = FALSE
    /\ UNCHANGED <<faults, skipped, orphaned, nameless>>

\* Another file: it is read from the start, and the end of the one before it
\* by ReadRotated - unless the place names no file.
ResumeAtStart ==
    /\ pc = "resume" /\ place # NoPlace /\ ~SameLog
    /\ StartAt(0, 0)
    /\ behind' = (place.fp # NoFP)
    /\ nameless' = IF behind' THEN nameless
                   ELSE nameless \cup {g \in Gen : place.gen <= g /\ g < cur}
    /\ UNCHANGED <<faults, skipped, orphaned>>

RotatedIsPrev == rot # 0 /\ place.fp = FingerprintOf(rot) /\ place.off <= size[rot]

\* Postfix may still be writing to mail.log.1, which is read only once.
StillWritten(g) == IF writer = g THEN {g} ELSE {}

NotBehind ==
    /\ pc = "rotated" /\ ~behind
    /\ pc' = "tick"
    /\ UNCHANGED <<faults, files, keeper, place, cur, pos, pend, fp, saved, behind, old, caughtUp,
                   waiting, observed>>

ReadRotated ==
    /\ pc = "rotated" /\ behind /\ RotatedIsPrev
    /\ Handle(WholeLines(rot, place.off, size[rot]), FingerprintOf(rot))
    /\ behind' = FALSE
    /\ orphaned' = orphaned \cup StillWritten(rot)
    /\ pc' = "tick"
    /\ UNCHANGED <<faults, files, place, cur, pos, pend, fp, saved, old, caughtUp,
                   stops, skipped, reported, nameless>>

ReportLost ==
    /\ pc = "rotated" /\ behind /\ ~RotatedIsPrev
    /\ reported' = reported \cup
          {l \in Line : place.gen <= l[1] /\ l[1] < cur /\ 2 * (l[2] - 1) < size[l[1]]}
    /\ orphaned' = IF writer < cur THEN orphaned \cup {writer} ELSE orphaned
    /\ behind' = FALSE
    /\ pc' = "tick"
    /\ UNCHANGED <<faults, files, keeper, place, cur, pos, pend, fp, saved, old, caughtUp, waiting,
                   stops, handled, skipped, nameless>>

----------------------------------------------------------------------------
(* The loop: one tick a second.                                            *)

OldLines == IF old.gen = 0 THEN {}
            ELSE WholeLines(old.gen, old.pos - old.pend, size[old.gen])

OldDrained == IF old.gen = 0 THEN old
              ELSE [old EXCEPT !.pos = size[old.gen],
                               !.pend = IF old.pos = size[old.gen] THEN @
                                        ELSE size[old.gen] % 2]

\* The rotated file is let go of at the end of rotatedGrace.
DrainOld ==
    /\ pc = "tick"
    /\ Handle(OldLines, old.fp)
    /\ \/ old' = OldDrained
       \/ /\ old.gen # 0 /\ (ReloadInTime => writer # old.gen)
          /\ old' = NoOld
    /\ orphaned' = IF old'.gen = 0 /\ old.gen # 0 THEN orphaned \cup StillWritten(old.gen)
                   ELSE orphaned
    /\ pc' = "drain"
    /\ UNCHANGED <<faults, files, place, cur, pos, pend, fp, saved, behind, caughtUp,
                   stops, skipped, reported, nameless>>

CurLines == WholeLines(cur, pos - pend, size[cur])

Drain ==
    /\ pc = "drain"
    /\ Handle(CurLines, fp)
    /\ pos' = size[cur] /\ pend' = ReadTo(pos, pend)
    /\ caughtUp' = TRUE
    /\ pc' = "stat"
    /\ UNCHANGED <<faults, files, place, cur, fp, saved, behind, old,
                   stops, skipped, reported, orphaned, nameless>>

\* Mutant: only a missing file is seen, not another one under the name.
StatByName ==
    /\ pc = "stat"
    /\ pc' = IF name = 0 THEN "tick" ELSE "record"
    /\ UNCHANGED <<faults, files, keeper, place, cur, pos, pend, fp, saved, behind, old, caughtUp,
                   waiting, observed>>

Stat ==
    /\ pc = "stat"
    /\ pc' = CASE name = 0 -> "tick"
               [] name # 0 /\ name # cur -> "switch"
               [] OTHER -> "record"
    /\ UNCHANGED <<faults, files, keeper, place, cur, pos, pend, fp, saved, behind, old, caughtUp,
                   waiting, observed>>

\* The last read of both old files before the switch, in that order.
LastReads ==
    /\ handled' = handled \cup CurLines \cup OldLines
    /\ KeepLines(CurLines, OldLines)
    /\ port25' = Remembers(OldLines, Remembers(CurLines, port25))
    /\ \E w \in SUBSET (waiting \cup [line : CurLines \cap Refusals, fp : {fp}]) :
          waiting' \in SUBSET (w \cup [line : OldLines \cap Refusals, fp : {old.fp}])

\* Mutant: the rotated file is closed at the switch.
SwitchAtOnce ==
    /\ pc = "switch"
    /\ LastReads
    /\ cur' = name /\ pos' = 0 /\ pend' = 0
    /\ old' = NoOld
    /\ fp' = FingerprintOf(name)
    /\ \/ SavePlace(fp', 0, name) /\ saved' = 0 /\ Works
       \/ Fails /\ saved' = -1 /\ UNCHANGED place
    /\ pc' = "tick"
    /\ UNCHANGED <<files, behind, caughtUp, stops, skipped, reported, orphaned, nameless>>

\* The file is another one: adopt saves its start at once.  The read before
\* is still followed (old).
Switch ==
    /\ pc = "switch"
    /\ LastReads
    /\ cur' = name /\ pos' = 0 /\ pend' = 0
    /\ old' = [gen |-> cur, pos |-> size[cur], pend |-> ReadTo(pos, pend), fp |-> fp]
    /\ orphaned' = IF old.gen # 0 THEN orphaned \cup StillWritten(old.gen) ELSE orphaned
    /\ fp' = FingerprintOf(name)
    /\ \/ SavePlace(fp', 0, name) /\ saved' = 0 /\ Works
       \/ Fails /\ saved' = -1 /\ UNCHANGED place
    /\ pc' = "tick"
    /\ UNCHANGED <<files, behind, caughtUp, stops, skipped, reported, nameless>>

\* Reopening failed: the file read before is kept, and tried again next tick.
SwitchFails ==
    /\ pc = "switch" /\ Fails
    /\ LastReads
    /\ pos' = size[cur] /\ pend' = ReadTo(pos, pend)
    /\ old' = NoOld
    /\ orphaned' = IF old.gen # 0 THEN orphaned \cup StillWritten(old.gen) ELSE orphaned
    /\ pc' = "tick"
    /\ UNCHANGED <<files, place, cur, fp, saved, behind, caughtUp,
                   stops, skipped, reported, nameless>>

\* tracker.record: nothing new, not yet time (persistInterval), or saved.  A
\* failed save leaves everything but the fingerprint.
Record ==
    /\ pc = "record"
    /\ LET off == HeldOffset(ReadOffset) IN
       \/ UNCHANGED <<place, saved, fp>> /\ Works
       \/ /\ off # saved
          /\ fp' = KnownFP
          /\ \/ SavePlace(fp', off, cur) /\ saved' = off /\ Works
             \/ Fails /\ UNCHANGED <<place, saved>>
    /\ pc' = "tick"
    /\ UNCHANGED <<files, keeper, cur, pos, pend, behind, old, caughtUp, waiting, observed>>

----------------------------------------------------------------------------
(* The panel stops.  What waits and the open files are forgotten.          *)

Forget ==
    /\ pc' = "down"
    /\ stops < MaxStops /\ stops' = stops + 1
    /\ cur' = 0 /\ pos' = 0 /\ pend' = 0 /\ fp' = NoFP /\ saved' = 0
    /\ behind' = FALSE /\ old' = NoOld /\ caughtUp' = FALSE /\ waiting' = {}
    /\ port25' = FALSE

\* The rotated file's end is found again only if the place is still in it.
LetGo(o, p) ==
    IF o.gen # 0 /\ p.gen # o.gen /\ (o.pos - o.pend < size[o.gen] \/ writer = o.gen)
    THEN {o.gen} ELSE {}

\* ctx is cancelled: the rotated file is read once more and the position is
\* saved without regard to the throttle.
Stop ==
    /\ pc = "tick"
    /\ handled' = handled \cup OldLines
    /\ KeepLines(OldLines, {})
    /\ LET off == HeldOffset(ReadOffset)
       IN  \/ off # saved /\ SavePlace(KnownFP, off, cur) /\ Works
           \/ off # saved /\ Fails /\ UNCHANGED place
           \/ off = saved /\ UNCHANGED place /\ Works
    /\ orphaned' = orphaned \cup LetGo(OldDrained, place')
    /\ Forget
    /\ UNCHANGED <<files, skipped, reported, nameless>>

Crash ==
    /\ up
    /\ orphaned' = orphaned \cup LetGo(old, place)
    /\ Forget
    /\ UNCHANGED <<faults, files, kept, dropped, place, handled, skipped, reported, nameless>>

\* In the middle of a pass: some of its lines were dispatched, of which full
\* batches (lineBatch) were written and the rest never will be.
PassLines ==
    CASE pc = "rotated" /\ behind /\ RotatedIsPrev -> WholeLines(rot, place.off, size[rot])
      [] pc = "tick" -> OldLines
      [] pc \in {"drain", "switch"} -> CurLines
      [] OTHER -> {}

CrashInPass ==
    \E got \in (SUBSET PassLines) \ {{}} :
        /\ \A l \in got : \A k \in PassLines : k[2] < l[2] => k \in got
        /\ handled' = handled \cup got
        /\ \E written \in SUBSET Keeps(got, port25) :
              /\ \A l \in written : \A k \in Keeps(got, port25) : k[2] < l[2] => k \in written
              /\ kept' = Stored(written)
        /\ orphaned' = orphaned \cup LetGo(old, place)
        /\ Forget
        /\ UNCHANGED <<faults, files, place, dropped, skipped, reported, nameless>>

\* retentionLoop's pruneLines: an hour later no send-log row has the id.
PruneLines ==
    /\ up /\ \E l \in Strangers : kept[l] > 0
    /\ kept' = [l \in Line |-> IF l \in Strangers THEN 0 ELSE kept[l]]
    /\ UNCHANGED <<faults, files, place, reader, observed>>

Follow ==
    \/ Open \/ ResumeAtEnd \/ ResumeAtPlace \/ ResumeAtStart
    \/ NotBehind \/ ReadRotated \/ ReportLost
    \/ DrainOld \/ Drain \/ Stat \/ Switch \/ SwitchFails \/ Record

Next == Follow \/ Stop \/ Crash \/ CrashInPass \/ PruneLines \/ Log \/ Rename \/ Create \/ Reload

\* supervisord restarts the panel, logrotate finishes what it began, and the
\* loop is driven by a ticker.
Fairness == WF_vars(Follow) /\ WF_vars(Create) /\ WF_vars(Reload)

Spec == Init /\ [][Next]_vars
FairSpec == Spec /\ Fairness

----------------------------------------------------------------------------
(* Properties.                                                             *)

\* Where a line not yet handled is still to come.
Ahead(l) ==
    LET g == l[1] IN
    IF pc \in {"down", "resume"}
    THEN place = NoPlace \/ g > place.gen \/ (g = place.gen /\ place.off <= Start(l))
    ELSE \/ g > cur
         \/ g = cur /\ pos - pend <= Start(l)
         \/ g = old.gen /\ old.pos - old.pend <= Start(l)
         \/ behind /\ place.gen <= g /\ g < cur

Told(l) == l \in handled \cup skipped \cup reported \/ l[1] \in orphaned

\* Through rotations, restarts, kills and failed saves no line of mail.log
\* disappears unnoticed: it has been handled, is still ahead of the reader,
\* was there before the first start, was reported as not read (readRotated),
\* or is in a file the panel let go of: by stopping within the grace of a
\* rotation, by starting in the middle of one, or because the stored place was
\* of a file too short to be named (follow, tracker).
Accounted(l) == Told(l) \/ l[1] \in nameless
NoLineVanishes == \A l \in Written : Accounted(l) \/ Ahead(l)

\* A line headed by a queue id is kept once, however the panel stops between
\* reading it, writing it and storing its place: not twice, which a reader
\* believed to be new would do, and not at all only where its write failed or
\* the log itself was passed over (lineKeeper.add, flush, InsertSendLogLines).
LinesKeptOnce ==
    \A l \in Line :
        /\ kept[l] <= 1
        /\ l \in handled \ Strangers =>
              \/ kept[l] = 1 \/ Ahead(l)
              \/ l \in dropped \cup skipped \cup reported
              \/ l[1] \in orphaned \cup nameless

\* Every line Postfix writes is handled, or accounted for, in the end, as long
\* as the panel is restarted and logrotate finishes: the writing ends with the
\* bound, and again and again nothing is left unread (follow).
EveryLineIsRead == []<>(\A l \in Written : Accounted(l))

=============================================================================
