------------------------------ MODULE Restore ------------------------------
(***************************************************************************)
(* A full backup, the directory it is unpacked into, and the start of the  *)
(* panel on that directory (internal/backup, cmd/panel/main.go openData,   *)
(* cmd/selfpost-backup).  The recorded files of the data directory are the *)
(* database and the tree of maps, keys and accounts; the content of each   *)
(* is told apart by the archive it is of, or Live once the panel has       *)
(* opened it, and by the change it knows last.                             *)
(***************************************************************************)
EXTENDS Integers

CONSTANTS
    Archives,
    Foreign,     \* the archives another version of SelfPost made
    Live, Part, None,
    Life         \* bounds: changes of the live panel, backups made, archives
                 \* unpacked, kills of the panel, and steps that fail or files
                 \* damaged

Backup == [db : Nat, tree : Nat, links : BOOLEAN, sealed : BOOLEAN, end : BOOLEAN]
Tar == [of : Archives, next : 1 .. 4]
Bound == [changes : Nat, backups : Nat, unpacks : Nat, kills : Nat, failures : Nat]

ASSUME RestoreConstants ==
    /\ Foreign \subseteq Archives
    /\ {Live, Part, None} \cap Archives = {} /\ Part # None
    /\ None \notin Backup \cup Tar
    /\ Life \subseteq Bound

VARIABLES
    arch,      \* the archives made so far, or None
    making,    \* the backup that is being made
    dir,       \* the data directory
    unpack,    \* the operator's tar
    pc,        \* the panel: off, where its start is, or its roles run
    drawn,     \* what is left of the bounds
    intact,    \* history: how much of an archive was unpacked last: cut, with
               \* a bad file, over a checked restore of its own, beside a
               \* WAL of the database before, or whole
    restoring  \* history: an archive was unpacked, and no role has run since

bvars == <<arch, making, dir, unpack, pc, drawn, intact, restoring>>

Nothing == [of |-> None, gen |-> 0]
Damaged == [of |-> Part, gen |-> 0]
Contents == [of : Archives \cup {Live, Part, None}, gen : Nat]

Starting == {"guarded", "opened", "unlinked", "healing", "healed", "noManifest",
            "noMark"}

Directory == [manifest : Archives \cup {None}, record : Archives \cup {Part, None},
              checked : Archives \cup {None}, db : Contents, tree : Contents,
              links : BOOLEAN, wal : BOOLEAN]

BTypeOK ==
    /\ arch \in [Archives -> {None} \cup Backup]
    /\ making \in {None} \cup [of : Archives, by : {"download", "command"}]
    /\ dir \in Directory
    /\ unpack \in {None} \cup Tar
    /\ pc \in {"off", "roles", "changing"} \cup Starting
    /\ drawn \in Bound
    /\ intact \in {"none", "cut", "bad", "over", "beside", "whole"}
    /\ restoring \in BOOLEAN

Empty == [manifest |-> None, record |-> None, checked |-> None,
          db |-> Nothing, tree |-> Nothing, links |-> FALSE, wal |-> FALSE]

BInit ==
    /\ arch = [a \in Archives |->
                 IF a \in Foreign
                 THEN [db |-> 0, tree |-> 0, links |-> FALSE, sealed |-> FALSE,
                       end |-> TRUE]
                 ELSE None]
    /\ making = None /\ dir = Empty /\ unpack = None /\ pc = "off"
    /\ drawn \in Life /\ intact = "none" /\ restoring = FALSE

Draw(b) == drawn[b] > 0 /\ drawn' = [drawn EXCEPT ![b] = @ - 1]

Goes(p) == pc' = p
Dir(d) == dir' = d

-----------------------------------------------------------------------------
(* The live panel.  A change is a row, then the files that follow it. *)

RowChanged ==
    /\ pc = "roles" /\ Draw("changes") /\ Goes("changing")
    /\ Dir([dir EXCEPT !.db.gen = @ + 1])
    /\ UNCHANGED <<arch, making, unpack, intact, restoring>>

TreeFollows ==
    /\ pc = "changing" /\ Goes("roles")
    /\ Dir([dir EXCEPT !.tree = [of |-> Live, gen |-> dir.db.gen]])
    /\ UNCHANGED <<arch, making, unpack, drawn, intact, restoring>>

(* A user is mailed a link (internal/web/auth/links.go). *)
LinkMade ==
    /\ pc = "roles" /\ ~ dir.links /\ Draw("changes")
    /\ Dir([dir EXCEPT !.links = TRUE])
    /\ UNCHANGED <<arch, making, unpack, pc, intact, restoring>>

Running == pc \in {"roles", "changing"}

(* Create, for a download of the panel or for selfpost-backup, in an      *)
(* envelope or plain: VACUUM INTO takes the database as it is.             *)
Snapshot(a) ==
    /\ Running /\ making = None /\ arch[a] = None /\ Draw("backups")
    /\ \E by \in {"download", "command"}, sealed \in BOOLEAN :
          /\ making' = [of |-> a, by |-> by]
          /\ arch' = [arch EXCEPT ![a] = [db |-> dir.db.gen, tree |-> 0, links |-> dir.links,
                                          sealed |-> sealed, end |-> FALSE]]
    /\ UNCHANGED <<dir, unpack, pc, intact, restoring>>

(* The tree is walked later; the record of it all is the last entry, and *)
(* an envelope's last chunk comes after it.                               *)
Walked ==
    /\ making # None /\ making' = None
    /\ arch' = [arch EXCEPT ![making.of].tree = dir.tree.gen, ![making.of].end = TRUE]
    /\ UNCHANGED <<dir, unpack, pc, drawn, intact, restoring>>

(* Reading fails or the client goes away: a download is cut short, the     *)
(* command's file never gets its name.                                     *)
Left == IF making.by = "command" THEN [arch EXCEPT ![making.of] = None] ELSE arch

CreateFails ==
    /\ making # None /\ making' = None /\ Draw("failures") /\ arch' = Left
    /\ UNCHANGED <<dir, unpack, pc, intact, restoring>>

Backups == (\E a \in Archives : Snapshot(a)) \/ Walked \/ CreateFails

-----------------------------------------------------------------------------
(* The operator, with the instance stopped: tar into an empty directory,  *)
(* or over what is there.                                                  *)

(* An envelope without its last chunk is refused, and -decrypt leaves no   *)
(* file under the name asked for.                                          *)
Decrypts(a) == arch[a].sealed => arch[a].end

Unpack(a) ==
    /\ pc = "off" /\ unpack = None /\ arch[a] # None /\ Draw("unpacks")
    /\ Decrypts(a)
    /\ unpack' = [of |-> a, next |-> 1]
    /\ Dir(Empty) \/ UNCHANGED dir
    /\ UNCHANGED <<arch, making, pc, intact, restoring>>

(* One entry after another: the manifest first, the record last. *)
Entry(d, a, n) ==
    CASE n = 1 -> [d EXCEPT !.manifest = a]
      [] n = 2 -> [d EXCEPT !.db = [of |-> a, gen |-> arch[a].db],
                            !.links = arch[a].links]
      [] n = 3 -> [d EXCEPT !.tree = [of |-> a, gen |-> arch[a].tree]]
      [] n = 4 -> [d EXCEPT !.record = a]

Present(a, n) == n <= 2 \/ arch[a].end

Unpacks ==
    /\ unpack # None /\ Present(unpack.of, unpack.next)
    /\ Dir(Entry(dir, unpack.of, unpack.next))
    /\ unpack' = IF unpack.next = 4 THEN None ELSE [unpack EXCEPT !.next = @ + 1]
    /\ intact' = CASE unpack.next = 1 -> IF dir.checked = unpack.of THEN "over" ELSE "cut"
                   [] unpack.next = 4 /\ intact # "bad" -> IF dir.wal THEN "beside" ELSE "whole"
                   [] OTHER -> intact
    /\ restoring' = TRUE
    /\ UNCHANGED <<arch, making, pc, drawn>>

(* The tar stops in an entry: the file is there in part. *)
Stopped ==
    /\ unpack # None /\ Draw("failures") /\ unpack' = None
    /\ \/ unpack.next = 1 /\ UNCHANGED dir
       \/ unpack.next = 2 /\ Dir([dir EXCEPT !.db = Damaged])
       \/ unpack.next = 3 /\ Dir([dir EXCEPT !.tree = Damaged])
       \/ unpack.next = 4 /\ Dir([dir EXCEPT !.record = Part])
    /\ UNCHANGED <<arch, making, pc, intact, restoring>>

(* An archive without an end has nothing more to unpack. *)
RanOut ==
    /\ unpack # None /\ ~ Present(unpack.of, unpack.next) /\ unpack' = None
    /\ UNCHANGED <<arch, making, dir, pc, drawn, intact, restoring>>

(* A file goes bad on the way, and nothing says so. *)
Damages ==
    /\ unpack # None /\ unpack.next = 4 /\ intact = "cut" /\ Draw("failures")
    /\ \E f \in {"db", "tree"} : Dir([dir EXCEPT ![f] = Damaged])
    /\ intact' = "bad"
    /\ UNCHANGED <<arch, making, unpack, pc, restoring>>

Operator == (\E a \in Archives : Unpack(a)) \/ Unpacks \/ Stopped \/ RanOut \/ Damages

-----------------------------------------------------------------------------
(* CheckRestore. *)

(* verifyFiles: each file is the one the record names. *)
Verified(d) == d.manifest = d.record /\ d.db.of = d.record /\ d.tree.of = d.record

\* Mutant: any earlier check will do.
CheckedSome(d) == d.record = None /\ d.checked # None

(* contents.checked.json: a start before this one checked the files, and  *)
(* the manifest is still the one it records.                               *)
CheckedBefore(d) == d.record = None /\ d.checked = d.manifest

Accepts(d) ==
    /\ d.manifest \notin Foreign
    /\ CheckedBefore(d) \/ (d.record # None /\ ~ d.wal /\ Verified(d))

MarkChecked(d) ==
    IF d.record = None THEN d ELSE [d EXCEPT !.record = None, !.checked = d.record]

Begins == pc = "off" /\ unpack = None

Guarded ==
    /\ Begins /\ dir.manifest # None /\ Accepts(dir)
    /\ Dir(MarkChecked(dir)) /\ Goes("guarded")
    /\ UNCHANGED <<arch, making, unpack, drawn, intact, restoring>>

\* Mutant: the manifest goes as soon as the database is opened.
TakenAtOnce(d) ==
    [d EXCEPT !.db = [of |-> Live, gen |-> d.db.gen], !.wal = TRUE, !.manifest = None]

(* store.Open: the database is the panel's from here on. *)
Taken(d) == [d EXCEPT !.db = [of |-> Live, gen |-> d.db.gen], !.wal = TRUE]

(* Without a manifest it is an ordinary start, on a database made if none *)
(* is there.                                                               *)
OrdinaryStart ==
    /\ Begins /\ dir.manifest = None
    /\ Dir([Taken(dir) EXCEPT !.tree.of = Live]) /\ Goes("roles")
    /\ restoring' = FALSE
    /\ UNCHANGED <<arch, making, unpack, drawn, intact>>

Opens ==
    /\ pc = "guarded" /\ Dir(Taken(dir)) /\ Goes("opened")
    /\ UNCHANGED <<arch, making, unpack, drawn, intact, restoring>>

Unlinks ==
    /\ pc = "opened" /\ Dir([dir EXCEPT !.links = FALSE]) /\ Goes("unlinked")
    /\ UNCHANGED <<arch, making, unpack, drawn, intact, restoring>>

(* Resync: the maps are written from the database, and Postfix reloads. *)
ResyncWrites ==
    /\ pc = "unlinked" /\ Goes("healing")
    /\ Dir([dir EXCEPT !.tree = [of |-> Live, gen |-> dir.db.gen]])
    /\ UNCHANGED <<arch, making, unpack, drawn, intact, restoring>>

ResyncDone ==
    /\ pc = "healing" /\ Goes("healed")
    /\ UNCHANGED <<arch, making, dir, unpack, drawn, intact, restoring>>

(* ConsumeRestore, file by file. *)
ManifestRemoved ==
    /\ pc = "healed" /\ Dir([dir EXCEPT !.manifest = None]) /\ Goes("noManifest")
    /\ UNCHANGED <<arch, making, unpack, drawn, intact, restoring>>

MarkRemoved ==
    /\ pc = "noManifest" /\ Dir([dir EXCEPT !.checked = None]) /\ Goes("noMark")
    /\ UNCHANGED <<arch, making, unpack, drawn, intact, restoring>>

RecordRemoved ==
    /\ pc = "noMark" /\ Dir([dir EXCEPT !.record = None]) /\ Goes("roles")
    /\ restoring' = FALSE
    /\ UNCHANGED <<arch, making, unpack, drawn, intact>>

(* A step of the start fails: the database is closed and the panel exits. *)
Closed == [dir EXCEPT !.wal = (pc = "guarded" /\ @)]

PanelStartFails ==
    /\ pc \in Starting \ {"healing"} /\ Draw("failures")
    /\ Dir(Closed) /\ Goes("off")
    /\ UNCHANGED <<arch, making, unpack, intact, restoring>>

ResyncFails ==
    /\ pc = "healing" /\ Dir(Closed) /\ Goes("off")
    /\ UNCHANGED <<arch, making, unpack, drawn, intact, restoring>>

(* A stop closes the database, a kill leaves its WAL. *)
Stops ==
    /\ pc = "roles" /\ Dir([dir EXCEPT !.wal = FALSE]) /\ Goes("off")
    /\ making' = None /\ arch' = IF making = None THEN arch ELSE Left
    /\ UNCHANGED <<unpack, drawn, intact, restoring>>

Killed ==
    /\ pc # "off" /\ Draw("kills") /\ Goes("off") /\ making' = None
    /\ arch' = IF making = None THEN arch ELSE Left
    /\ UNCHANGED <<dir, unpack, intact, restoring>>

Start ==
    \/ Guarded \/ OrdinaryStart \/ Opens \/ Unlinks \/ ManifestRemoved
    \/ MarkRemoved \/ RecordRemoved \/ PanelStartFails

-----------------------------------------------------------------------------
(* The database an archive brought is opened only if the archive was      *)
(* unpacked to its end and undamaged, whatever was in the directory, at    *)
(* whichever entry the tar stopped and however many starts were refused    *)
(* or killed before (contents.go: the panel "refuses to start on it        *)
(* instead of opening half a database").  Excused: unpacked over what is   *)
(* left of a checked restore of the same archive.                          *)
HalfNeverOpened ==
    (pc # "off" /\ pc # "guarded" /\ restoring) => intact \in {"whole", "over"}

(* An archive unpacked whole into an empty directory is accepted on every *)
(* start until one has finished, however the starts before it ended: the   *)
(* files they changed are not compared again.                              *)
WholeIsAccepted ==
    (restoring /\ intact = "whole" /\ pc = "off" /\ unpack = None /\ dir.manifest \in Archives \ Foreign)
        => Accepts(dir)

(* The two together: the check is neither too weak nor too strict, whatever *)
(* the starts before this one left (CheckRestore, checkContents).          *)
WholeAndOnlyWholeOpens == HalfNeverOpened /\ WholeIsAccepted

(* When the panel's roles first run on an archive, its maps follow its     *)
(* database though the archive's may not, and none of its links works -    *)
(* also when earlier starts were stopped at any step.                      *)
FirstStartHeals ==
    [][(restoring /\ ~ restoring') =>
         (dir'.tree.gen = dir'.db.gen /\ ~ dir'.links)]_bvars
=============================================================================
