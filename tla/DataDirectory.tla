----------------------------- MODULE DataDirectory -----------------------------
(***************************************************************************)
(* The data directory: the database, the attachment bytes beside it and    *)
(* the files of archived projects.  Uploads, deletions, the orphan sweep,  *)
(* dumps, archiving and unarchiving each take several steps over database  *)
(* and disk; a failure, a killed process or a power cut may come between   *)
(* any two of them.  The database runs with synchronous = NORMAL, so a     *)
(* commit survives a power cut only once a checkpoint has followed.        *)
(*                                                                         *)
(* A document of a project stands for all its issues, pages and comments;  *)
(* thumbnails, and who may upload, link or delete, are left out.           *)
(***************************************************************************)
EXTENDS Naturals, Sequences, FiniteSets, Functions

CONSTANTS
    Projects,
    Contents,       \* attachment bytes, told apart by their sha256
    Files,          \* names of archive files
    Callers,        \* concurrent unarchive requests
    NoProject,
    MaxRows,        \* attachment rows ever inserted (bound)
    MaxArchives,    \* archived_projects rows ever inserted (bound)
    PowerCuts       \* whether the machine may lose power

ASSUME DataAssumption ==
    /\ NoProject \notin Projects
    /\ MaxRows \in Nat /\ MaxArchives \in Nat
    /\ PowerCuts \in BOOLEAN

VARIABLES
    db,         \* the committed database
    safe,       \* the part of it that a power cut leaves
    blobs,      \* attachments/<sha256>
    files,      \* archived-projects/<name>
    old,        \* rows past the grace window
    job,        \* what the holder of the store lock is doing
    dump,       \* or, if it is a dump, what it must find on disk
    sweep,      \* orphans the running sweep has still to visit
    ask         \* unarchive requests

vars == <<db, safe, blobs, files, old, job, dump, sweep, ask>>

Listings == [project : Projects, file : Files]

IsArchive(x) == x.project \in Projects /\ x.holds \in Seq(Contents)

NoJob == [op |-> "none", project |-> NoProject, content |-> {}, fresh |-> {}, names |-> {}]
NoDump == [names |-> {}, bytes |-> {}, on |-> FALSE]
NoAsk == [at |-> "none"]

Named(d) == {d.sha[a] : a \in d.rows}
LinkedTo(d, a) == {p \in Projects : <<a, p>> \in d.links}
Holds(d, p) == {d.sha[a] : a \in {b \in d.rows : <<b, p>> \in d.links}}

(* live: projects.  shelved: archived_projects, by id; given: the ids ever *)
(* used (AUTOINCREMENT).  sha: the content of every attachment ever        *)
(* inserted; rows: those still there; links: attachment_links.             *)
IsDatabase(d) ==
    /\ d.live \subseteq Projects
    /\ d.given \in 0..MaxArchives
    /\ DOMAIN d.shelved \subseteq 1..d.given /\ Range(d.shelved) \subseteq Listings
    /\ d.sha \in Seq(Contents) /\ Len(d.sha) <= MaxRows
    /\ d.rows \subseteq DOMAIN d.sha
    /\ d.links \subseteq d.rows \X d.live

TypeOK ==
    /\ IsDatabase(db) /\ IsDatabase(safe)
    /\ blobs \subseteq Contents
    /\ DOMAIN files \subseteq Files /\ \A f \in DOMAIN files : IsArchive(files[f])
    /\ old \subseteq 1..MaxRows
    /\ job \in [op : {"none", "upload", "discard", "delete", "sweep", "archive", "import"},
                project : Projects \cup {NoProject}, content : SUBSET Contents,
                fresh : SUBSET Contents, names : SUBSET Files]
    /\ dump \in [names : SUBSET Files, bytes : SUBSET Contents, on : BOOLEAN]
    /\ sweep \subseteq 1..MaxRows
    /\ \A u \in Callers :
          \/ ask[u] = NoAsk
          \/ /\ ask[u].at \in {"staged", "importing", "imported", "durable"}
             /\ ask[u].id \in 1..MaxArchives /\ ask[u].file \in Files /\ IsArchive(ask[u].archive)

-----------------------------------------------------------------------------
(* Locks: the store lock serialises the jobs; an upload, an archiving and  *)
(* an import also hold the database's write lock until they commit.        *)
(* Mutant: a dump does not take the store lock.                            *)
NoJobRuns == job = NoJob

StoreFree == job = NoJob /\ dump = NoDump
DbFree == job.op \notin {"upload", "archive", "import"}

Starts(op, p, c, fresh, names) ==
    job' = [op |-> op, project |-> p, content |-> c, fresh |-> fresh, names |-> names]

Done == job' = NoJob

NewRows(d, contents) == Len(d.sha) + 1 .. Len(d.sha) + Len(contents)

(* Rows for contents, linked to p.                                         *)
Inserted(d, contents, p) ==
    [live |-> d.live, given |-> d.given, shelved |-> d.shelved,
     sha |-> d.sha \o contents,
     rows |-> d.rows \cup NewRows(d, contents),
     links |-> d.links \cup (NewRows(d, contents) \X ({p} \ {NoProject}))]

Linked(d, links) ==
    [live |-> d.live, given |-> d.given, shelved |-> d.shelved,
     sha |-> d.sha, rows |-> d.rows, links |-> links]

(* Mutant: the links of a deleted row stay.                                *)
RowOnlyDeleted(d, a) ==
    [live |-> d.live, given |-> d.given, shelved |-> d.shelved,
     sha |-> d.sha, rows |-> d.rows \ {a}, links |-> d.links]

RowDeleted(d, a) ==
    [live |-> d.live, given |-> d.given, shelved |-> d.shelved,
     sha |-> d.sha, rows |-> d.rows \ {a}, links |-> {l \in d.links : l[1] # a}]

-----------------------------------------------------------------------------
(* POST /api/attachments: bytes first, then the commit of their row.       *)
UploadWrites(c, p) ==
    /\ StoreFree /\ Len(db.sha) < MaxRows
    /\ p \in db.live \cup {NoProject}
    /\ Starts("upload", p, {c}, {c} \ blobs, {})
    /\ blobs' = blobs \cup {c}
    /\ UNCHANGED <<db, safe, files, old, dump, sweep, ask>>

UploadCommits ==
    /\ job.op = "upload"
    /\ \E c \in job.content : db' = Inserted(db, <<c>>, job.project)
    /\ old' = old \ NewRows(db, <<1>>)
    /\ Done
    /\ UNCHANGED <<safe, blobs, files, dump, sweep, ask>>

(* The transaction rolls back; the lock is kept for the cleanup.           *)
UploadFails ==
    /\ job.op = "upload"
    /\ Starts("discard", NoProject, job.content, job.fresh, {})
    /\ UNCHANGED <<db, safe, blobs, files, old, dump, sweep, ask>>

(* Mutant: the cleanup trusts its own probe.                               *)
Probed(d, fresh) == fresh

(* Bytes this call wrote and no row names.                                 *)
Unwanted(d, fresh) == fresh \ Named(d)

Discards ==
    /\ job.op = "discard"
    /\ \/ blobs' = blobs \ Unwanted(db, job.fresh)
       \/ UNCHANGED blobs                       \* the database could not be read
    /\ Done
    /\ UNCHANGED <<db, safe, files, old, dump, sweep, ask>>

-----------------------------------------------------------------------------
(* Documents are saved: sync_entity_links.                                 *)
Link(a, p) ==
    /\ DbFree /\ a \in db.rows /\ p \in db.live
    /\ db' = Linked(db, db.links \cup {<<a, p>>})
    /\ UNCHANGED <<safe, blobs, files, old, job, dump, sweep, ask>>

Unlink(a, p) ==
    /\ DbFree /\ <<a, p>> \in db.links
    /\ db' = Linked(db, db.links \ {<<a, p>>})
    /\ UNCHANGED <<safe, blobs, files, old, job, dump, sweep, ask>>

(* The grace window of a row passes (it matters to unlinked rows only).    *)
Ages(a) ==
    /\ a \in db.rows \ old /\ LinkedTo(db, a) = {}
    /\ old' = old \cup {a}
    /\ UNCHANGED <<db, safe, blobs, files, job, dump, sweep, ask>>

-----------------------------------------------------------------------------
(* DELETE /api/attachments/{id}: the row was read before the lock was      *)
(* taken, and may be gone.                                                 *)
DeleteRow(a) ==
    /\ StoreFree /\ a \in DOMAIN db.sha
    /\ db' = RowDeleted(db, a)
    /\ Starts("delete", NoProject, {db.sha[a]}, {}, {})
    /\ UNCHANGED <<safe, blobs, files, old, dump, sweep, ask>>

(* Mutant: nobody else uses the bytes of a deleted row.                    *)
NotShared(d, contents) == contents

(* Bytes that the last row naming them has left.                           *)
Released(d, contents) == contents \ Named(d)

Collects ==
    /\ job.op \in {"delete", "sweep"}
    /\ blobs' = blobs \ Released(db, job.content)
    /\ Done
    /\ UNCHANGED <<db, safe, files, old, dump, sweep, ask>>

(* The file cannot be removed: the error ends a sweep.                     *)
CollectFails ==
    /\ job.op \in {"delete", "sweep"}
    /\ sweep' = IF job.op = "sweep" THEN {} ELSE sweep
    /\ Done
    /\ UNCHANGED <<db, safe, blobs, files, old, dump, ask>>

Orphans(d) == {a \in d.rows \cap old : LinkedTo(d, a) = {}}

SweepFinds ==
    /\ sweep = {} /\ Orphans(db) # {}
    /\ sweep' = Orphans(db)
    /\ UNCHANGED <<db, safe, blobs, files, old, job, dump, ask>>

(* Mutant: an orphan once is an orphan now.                                *)
WasOrphan(a) == a \in db.rows

StillOrphan(a) == a \in db.rows /\ LinkedTo(db, a) = {}

SweepRow(a) ==
    /\ StoreFree /\ a \in sweep /\ StillOrphan(a)
    /\ db' = RowDeleted(db, a)
    /\ sweep' = sweep \ {a}
    /\ Starts("sweep", NoProject, {db.sha[a]}, {}, {})
    /\ UNCHANGED <<safe, blobs, files, old, dump, ask>>

SweepSkips(a) ==
    /\ StoreFree /\ a \in sweep /\ ~StillOrphan(a)
    /\ sweep' = sweep \ {a}
    /\ UNCHANGED <<db, safe, blobs, files, old, job, dump, ask>>

-----------------------------------------------------------------------------
(* lific dump and the interval backup: a snapshot of the database, then    *)
(* the files beside it.                                                    *)
DumpSnapshots ==
    /\ StoreFree
    /\ dump' = [names |-> {db.shelved[i].file : i \in DOMAIN db.shelved},
                bytes |-> Named(db) \cap blobs,
                on |-> TRUE]
    /\ UNCHANGED <<db, safe, blobs, files, old, job, sweep, ask>>

DumpEnds ==
    /\ dump.on
    /\ dump' = NoDump
    /\ UNCHANGED <<db, safe, blobs, files, old, job, sweep, ask>>

-----------------------------------------------------------------------------
(* archive(): the file, then one commit that records it and deletes the    *)
(* project.                                                                *)
RowsOf(p) == {a \in db.rows : <<a, p>> \in db.links}

ArchiveWrites(p, f) ==
    /\ StoreFree /\ p \in db.live /\ f \notin DOMAIN files /\ db.given < MaxArchives
    /\ Holds(db, p) \subseteq blobs
    /\ \E holds \in [1..Cardinality(RowsOf(p)) -> Contents] :
          /\ \A c \in Contents :
                Cardinality({i \in DOMAIN holds : holds[i] = c}) = Cardinality({a \in RowsOf(p) : db.sha[a] = c})
          /\ files' = [g \in DOMAIN files \cup {f} |->
                          IF g = f THEN [project |-> p, holds |-> holds] ELSE files[g]]
    /\ Starts("archive", p, {}, {}, {f})
    /\ UNCHANGED <<db, safe, blobs, old, dump, sweep, ask>>

(* The commit: the listing in, the project and its links out.              *)
Shelved(d, p, f) ==
    [live |-> d.live \ {p}, given |-> d.given + 1,
     shelved |-> [i \in DOMAIN d.shelved \cup {d.given + 1} |->
                     IF i = d.given + 1 THEN [project |-> p, file |-> f] ELSE d.shelved[i]],
     sha |-> d.sha, rows |-> d.rows, links |-> {l \in d.links : l[2] # p}]

ArchiveCommits ==
    /\ job.op = "archive"
    /\ \E f \in job.names : db' = Shelved(db, job.project, f)
    /\ Done
    /\ UNCHANGED <<safe, blobs, files, old, dump, sweep, ask>>

Without(fn, S) == Restrict(fn, DOMAIN fn \ S)

ArchiveFails ==
    /\ job.op = "archive"
    /\ files' = Without(files, job.names)
    /\ Done
    /\ UNCHANGED <<db, safe, blobs, old, dump, sweep, ask>>

-----------------------------------------------------------------------------
(* unarchive(): checks and staging before any lock is taken.               *)
Request(at, id, file, archive) == [at |-> at, id |-> id, file |-> file, archive |-> archive]

Goes(u, at) == ask' = [ask EXCEPT ![u] = Request(at, ask[u].id, ask[u].file, ask[u].archive)]
Ends(u) == ask' = [ask EXCEPT ![u] = NoAsk]

Stage(u, id) ==
    /\ ask[u] = NoAsk
    /\ id \in DOMAIN db.shelved /\ db.shelved[id].project \notin db.live
    /\ LET f == db.shelved[id].file
       IN  /\ f \in DOMAIN files /\ files[f].project = db.shelved[id].project
           /\ ask' = [ask EXCEPT ![u] = Request("staged", id, f, files[f])]
    /\ UNCHANGED <<db, safe, blobs, files, old, job, dump, sweep>>

(* Mutant: the listing row is not looked at again.                         *)
AsStaged(u) == TRUE

(* What the import's transaction still finds: the identifier free and the  *)
(* listing row there.                                                      *)
StillShelved(u) ==
    /\ ask[u].archive.project \notin db.live
    /\ ask[u].id \in DOMAIN db.shelved

ImportWrites(u) ==
    /\ StoreFree /\ ask[u].at = "staged"
    /\ StillShelved(u)
    /\ Len(db.sha) + Len(ask[u].archive.holds) <= MaxRows
    /\ LET contents == {ask[u].archive.holds[i] : i \in DOMAIN ask[u].archive.holds}
       IN  /\ Starts("import", ask[u].archive.project, contents, contents \ blobs, {})
           /\ blobs' = blobs \cup contents
    /\ Goes(u, "importing")
    /\ UNCHANGED <<db, safe, files, old, dump, sweep>>

ImportRefused(u) ==
    /\ StoreFree /\ ask[u].at = "staged" /\ ~StillShelved(u)
    /\ Ends(u)
    /\ UNCHANGED <<db, safe, blobs, files, old, job, dump, sweep>>

Unshelved(d, id, p, contents) ==
    [live |-> d.live \cup {p}, given |-> d.given, shelved |-> Without(d.shelved, {id}),
     sha |-> d.sha \o contents,
     rows |-> d.rows \cup NewRows(d, contents),
     links |-> d.links \cup (NewRows(d, contents) \X {p})]

ImportCommits(u) ==
    /\ job.op = "import" /\ ask[u].at = "importing"
    /\ db' = Unshelved(db, ask[u].id, job.project, ask[u].archive.holds)
    /\ old' = old \cup NewRows(db, ask[u].archive.holds)
    /\ Goes(u, "imported")
    /\ Done
    /\ UNCHANGED <<safe, blobs, files, dump, sweep>>

ImportFails(u) ==
    /\ job.op = "import" /\ ask[u].at = "importing"
    /\ Starts("discard", NoProject, job.content, job.fresh, {})
    /\ Ends(u)
    /\ UNCHANGED <<db, safe, blobs, files, old, dump, sweep>>

(* Mutant: the commit is taken to be on disk.                              *)
TakenForDurable == safe

Durable == db

(* durable(): a full checkpoint, or the file is left where it is.          *)
Checkpoint(u) ==
    /\ DbFree /\ ask[u].at = "imported"
    /\ safe' = Durable
    /\ Goes(u, "durable")
    /\ UNCHANGED <<db, blobs, files, old, job, dump, sweep>>

CheckpointFails(u) ==
    /\ ask[u].at = "imported"
    /\ Ends(u)
    /\ UNCHANGED <<db, safe, blobs, files, old, job, dump, sweep>>

RemoveFile(u) ==
    /\ StoreFree /\ ask[u].at = "durable"
    /\ files' = Without(files, {ask[u].file})
    /\ Ends(u)
    /\ UNCHANGED <<db, safe, blobs, old, job, dump, sweep>>

-----------------------------------------------------------------------------
(* SQLite checkpoints on its own.                                          *)
Settle ==
    /\ safe # db /\ DbFree
    /\ safe' = db
    /\ UNCHANGED <<db, blobs, files, old, job, dump, sweep, ask>>

(* The process that holds the lock dies; SQLite rolls its transaction back.*)
Killed ==
    /\ ~StoreFree
    /\ Done /\ dump' = NoDump
    /\ ask' = [u \in Callers |-> IF ask[u].at = "importing" THEN NoAsk ELSE ask[u]]
    /\ UNCHANGED <<db, safe, blobs, files, old, sweep>>

(* Written files were synced; removed ones are taken to stay removed.      *)
PowerCut ==
    /\ PowerCuts
    /\ db' = safe
    /\ job' = NoJob /\ dump' = NoDump /\ sweep' = {} /\ ask' = [u \in Callers |-> NoAsk]
    /\ old' = old \cap safe.rows
    /\ UNCHANGED <<safe, blobs, files>>

Init ==
    /\ db = [live |-> Projects, given |-> 0, shelved |-> <<>>, sha |-> <<>>, rows |-> {}, links |-> {}]
    /\ safe = db
    /\ blobs = {} /\ files = <<>> /\ old = {}
    /\ job = NoJob /\ dump = NoDump /\ sweep = {} /\ ask = [u \in Callers |-> NoAsk]

Unarchive(u) ==
    \/ \E id \in 1..MaxArchives : Stage(u, id)
    \/ ImportWrites(u) \/ ImportRefused(u) \/ ImportCommits(u) \/ ImportFails(u)
    \/ Checkpoint(u) \/ CheckpointFails(u) \/ RemoveFile(u)

Next ==
    \/ \E c \in Contents, p \in Projects \cup {NoProject} : UploadWrites(c, p)
    \/ UploadCommits \/ UploadFails \/ Discards
    \/ \E a \in 1..MaxRows :
          DeleteRow(a) \/ Ages(a) \/ SweepRow(a) \/ SweepSkips(a) \/ \E p \in Projects : Link(a, p) \/ Unlink(a, p)
    \/ Collects \/ CollectFails \/ SweepFinds
    \/ DumpSnapshots \/ DumpEnds
    \/ \E p \in Projects, f \in Files : ArchiveWrites(p, f)
    \/ ArchiveCommits \/ ArchiveFails
    \/ \E u \in Callers : Unarchive(u)
    \/ Settle \/ Killed \/ PowerCut

Spec == Init /\ [][Next]_vars

-----------------------------------------------------------------------------
(* A dump is whole: the archive files and the bytes its snapshot names     *)
(* stay on disk for as long as they are being read.                        *)
DumpIsWhole == dump.names \subseteq DOMAIN files /\ dump.bytes \subseteq blobs

(* A row of the database has its bytes on disk.                            *)
RowsHaveBytes == Named(db) \subseteq blobs

(* An attachment that a document uses goes only when somebody deletes it,  *)
(* however long ago the sweep listed it as an orphan.                      *)
SweepSparesLinked ==
    [][\A a \in db.rows :
          a \notin db'.rows /\ LinkedTo(db, a) # {} => job'.op = "delete" \/ PowerCut]_vars

(* The archive files that a database lists for a project.                  *)
FilesOf(d, p) ==
    {f \in DOMAIN files :
        /\ files[f].project = p
        /\ \E i \in DOMAIN d.shelved : d.shelved[i].project = p /\ d.shelved[i].file = f}

(* No project is ever gone, not even after a power cut: it is live, or it  *)
(* is listed with a file that holds it.                                    *)
NothingLost == \A d \in {db, safe}, p \in Projects : p \in d.live \/ FilesOf(d, p) # {}

(* Where every project is, by a database and the files.                    *)
ShelfOf(d) ==
    [p \in Projects |->
        CASE p \in d.live ->
                 [place |-> "live", holds |-> Holds(d, p)]
          [] p \notin d.live /\ FilesOf(d, p) # {} ->
                 [place |-> "archived",
                  holds |-> UNION {{files[f].holds[i] : i \in DOMAIN files[f].holds} : f \in FilesOf(d, p)}]
          [] OTHER -> [place |-> "lost", holds |-> {}]]

(* The steps over database and disk implement the promise of Shelf.        *)
Abstract ==
    INSTANCE Shelf WITH
        shelf <- ShelfOf(db), settled <- ShelfOf(safe), missing <- Named(db) \ blobs

ShelfKept == Abstract!Spec
===============================================================================
