-------------------------- MODULE DataDirectory_proofs --------------------------
(***************************************************************************)
(* Proofs about DataDirectory: no project is ever gone, whatever fails,    *)
(* dies or loses power; no row loses its bytes, as long as the power stays *)
(* on; and the steps over database and disk implement Shelf.               *)
(***************************************************************************)
EXTENDS DataDirectory, FiniteSetTheorems, SequenceTheorems, TLAPS

Lists(d, f) == \E i \in DOMAIN d.shelved : d.shelved[i].file = f

(* A listing names a file that is there, holds its project and belongs to  *)
(* no other listing; a project that is not live has a listing.             *)
Listed(d) ==
    /\ d.given \in Nat
    /\ \A i \in DOMAIN d.shelved : i \in 1..d.given
    /\ \A i \in DOMAIN d.shelved :
          d.shelved[i].file \in DOMAIN files /\ files[d.shelved[i].file].project = d.shelved[i].project
    /\ \A i, j \in DOMAIN d.shelved : d.shelved[i].file = d.shelved[j].file => i = j
    /\ \A p \in Projects : p \in d.live \/ \E i \in DOMAIN d.shelved : d.shelved[i].project = p

Reserved(u) == ask[u].at \in {"imported", "durable"}

(* A request that has not committed still means what it staged; one that   *)
(* has committed owns a file that nothing lists.                           *)
AskMeant(u) ==
    /\ ask[u].at \in {"staged", "importing"} =>
          /\ ask[u].id \in 1..db.given
          /\ ask[u].id \in DOMAIN db.shelved =>
                /\ db.shelved[ask[u].id].file = ask[u].file
                /\ db.shelved[ask[u].id].project = ask[u].archive.project
    /\ ask[u].at = "importing" =>
          /\ job.op = "import" /\ job.project = ask[u].archive.project
          /\ ask[u].id \in DOMAIN db.shelved
    /\ Reserved(u) => ask[u].file \in DOMAIN files /\ ~Lists(db, ask[u].file)
    /\ ask[u].at = "durable" => ~Lists(safe, ask[u].file)

AsksApart ==
    \A u, v \in Callers : u # v =>
        /\ ~(ask[u].at = "importing" /\ ask[v].at = "importing")
        /\ Reserved(u) /\ Reserved(v) => ask[u].file # ask[v].file

(* The file an archiving has written is nobody else's.                     *)
FileApart ==
    job.op = "archive" =>
        \A f \in job.names :
            /\ f \in DOMAIN files /\ files[f].project = job.project
            /\ ~Lists(db, f) /\ ~Lists(safe, f)
            /\ \A u \in Callers : Reserved(u) => ask[u].file # f

Kept ==
    /\ ask = [u \in Callers |-> ask[u]]
    /\ Listed(db)
    /\ Listed(safe)
    /\ \A u \in Callers : AskMeant(u)
    /\ AsksApart
    /\ FileApart

-----------------------------------------------------------------------------
(* A step that leaves projects, listings, files and requests alone.        *)
LEMMA Aside ==
    ASSUME Kept,
           db'.live = db.live, db'.given = db.given, db'.shelved = db.shelved,
           safe' = safe, files' = files, ask' = ask,
           job' = job \/ (job.op # "import" /\ job'.op # "archive")
    PROVE  Kept'
<1> USE DEF Kept
<1>1. ask' = [u \in Callers |-> ask'[u]]
  OBVIOUS
<1>2. Listed(db)' /\ Listed(safe)'
  BY DEF Listed
<1>3. (\A u \in Callers : AskMeant(u))'
  BY DEF AskMeant, Reserved, Lists
<1>4. AsksApart'
  BY DEF AsksApart, Reserved
<1>5. FileApart'
  BY DEF FileApart, Reserved, Lists
<1> QED
  BY <1>1, <1>2, <1>3, <1>4, <1>5

LEMMA KeptInit == Init => Kept
  BY DEF Init, Kept, Listed, AskMeant, AsksApart, FileApart, Reserved, Lists, NoAsk, NoJob

(* Uploads, deletions, the sweep and the dump.                             *)
LEMMA KeptByBytes ==
    ASSUME Kept,
           \/ \E c \in Contents, p \in Projects \cup {NoProject} : UploadWrites(c, p)
           \/ UploadCommits \/ UploadFails \/ Discards
           \/ \E a \in 1..MaxRows :
                 \/ DeleteRow(a) \/ Ages(a) \/ SweepRow(a) \/ SweepSkips(a)
                 \/ \E p \in Projects : Link(a, p) \/ Unlink(a, p)
           \/ Collects \/ CollectFails \/ SweepFinds \/ DumpSnapshots \/ DumpEnds
    PROVE  Kept'
<1> USE DEF StoreFree, NoJob, Starts, Done, Inserted, Linked, RowDeleted
<1>1. CASE \E c \in Contents, p \in Projects \cup {NoProject} : UploadWrites(c, p)
  BY <1>1, Aside DEF UploadWrites
<1>2. CASE UploadCommits
  BY <1>2, Aside DEF UploadCommits
<1>3. CASE UploadFails
  BY <1>3, Aside DEF UploadFails
<1>4. CASE Discards
  BY <1>4, Aside DEF Discards
<1>5. CASE \E a \in 1..MaxRows : DeleteRow(a)
  BY <1>5, Aside DEF DeleteRow
<1>6. CASE \E a \in 1..MaxRows : Ages(a)
  BY <1>6, Aside DEF Ages
<1>7. CASE \E a \in 1..MaxRows : SweepRow(a)
  BY <1>7, Aside DEF SweepRow
<1>8. CASE \E a \in 1..MaxRows : SweepSkips(a)
  BY <1>8, Aside DEF SweepSkips
<1>9. CASE \E a \in 1..MaxRows, p \in Projects : Link(a, p)
  BY <1>9, Aside DEF Link
<1>10. CASE \E a \in 1..MaxRows, p \in Projects : Unlink(a, p)
  BY <1>10, Aside DEF Unlink
<1>11. CASE Collects
  BY <1>11, Aside DEF Collects
<1>12. CASE CollectFails
  BY <1>12, Aside DEF CollectFails
<1>13. CASE SweepFinds
  BY <1>13, Aside DEF SweepFinds
<1>14. CASE DumpSnapshots
  BY <1>14, Aside DEF DumpSnapshots
<1>15. CASE DumpEnds
  BY <1>15, Aside DEF DumpEnds
<1> QED
  BY <1>1, <1>2, <1>3, <1>4, <1>5, <1>6, <1>7, <1>8, <1>9, <1>10, <1>11, <1>12, <1>13, <1>14, <1>15

-----------------------------------------------------------------------------
(* Archiving and unarchiving.                                              *)
LEMMA KeptByArchiveWrites ==
    ASSUME Kept, NEW p \in Projects, NEW f \in Files, ArchiveWrites(p, f)
    PROVE  Kept'
<1>1. /\ f \notin DOMAIN files
      /\ DOMAIN files' = DOMAIN files \cup {f}
      /\ files'[f].project = p
      /\ \A g \in DOMAIN files : files'[g] = files[g]
      /\ db' = db /\ safe' = safe /\ ask' = ask
      /\ job.op = "none"
      /\ job'.op = "archive" /\ job'.project = p /\ job'.names = {f}
  BY DEF ArchiveWrites, Starts, StoreFree, NoJob
<1>2. ~Lists(db, f) /\ ~Lists(safe, f) /\ \A u \in Callers : Reserved(u) => ask[u].file # f
  BY <1>1 DEF Kept, Listed, Lists, AskMeant, Reserved
<1>3. Listed(db)' /\ Listed(safe)'
  BY <1>1 DEF Kept, Listed
<1>4. (\A u \in Callers : AskMeant(u))'
  BY <1>1 DEF Kept, AskMeant, Reserved, Lists
<1>5. AsksApart'
  BY <1>1 DEF Kept, AsksApart, Reserved
<1>6. FileApart'
  BY <1>1, <1>2 DEF FileApart, Reserved, Lists
<1> QED
  BY <1>1, <1>3, <1>4, <1>5, <1>6 DEF Kept

LEMMA KeptByArchiveCommits ==
    ASSUME Kept, ArchiveCommits
    PROVE  Kept'
<1>1. PICK f \in job.names : db' = Shelved(db, job.project, f)
  BY DEF ArchiveCommits
<1> DEFINE p == job.project
           n == db.given + 1
<1>2. /\ f \in DOMAIN files /\ files[f].project = p
      /\ ~Lists(db, f) /\ ~Lists(safe, f)
      /\ \A u \in Callers : Reserved(u) => ask[u].file # f
  BY DEF Kept, FileApart, ArchiveCommits
<1>3. /\ db.given \in Nat /\ n \notin DOMAIN db.shelved
      /\ db'.live = db.live \ {p} /\ db'.given = n
      /\ DOMAIN db'.shelved = DOMAIN db.shelved \cup {n}
      /\ db'.shelved[n].project = p /\ db'.shelved[n].file = f
      /\ \A i \in DOMAIN db.shelved : db'.shelved[i] = db.shelved[i]
  BY <1>1 DEF Kept, Listed, Shelved
<1>4. job'.op = "none" /\ safe' = safe /\ files' = files /\ ask' = ask
  BY DEF ArchiveCommits, Done, NoJob
<1> HIDE DEF p, n
<1>5. Listed(db)'
  <2>1. db'.given \in Nat /\ \A i \in DOMAIN db'.shelved : i \in 1..db'.given
    BY <1>3 DEF Kept, Listed, n
  <2>2. \A i \in DOMAIN db'.shelved :
           db'.shelved[i].file \in DOMAIN files' /\ files'[db'.shelved[i].file].project = db'.shelved[i].project
    BY <1>2, <1>3, <1>4 DEF Kept, Listed
  <2>3. \A i, j \in DOMAIN db'.shelved : db'.shelved[i].file = db'.shelved[j].file => i = j
    BY <1>2, <1>3 DEF Kept, Listed, Lists
  <2>4. \A q \in Projects : q \in db'.live \/ \E i \in DOMAIN db'.shelved : db'.shelved[i].project = q
    BY <1>3 DEF Kept, Listed
  <2> QED
    BY <2>1, <2>2, <2>3, <2>4 DEF Listed
<1>6. Listed(safe)'
  BY <1>4 DEF Kept, Listed
<1>7. ASSUME NEW u \in Callers PROVE AskMeant(u)'
  <2>1. AskMeant(u)
    BY DEF Kept
  <2>2. ask[u].at \in {"staged", "importing"} => ask[u].id \in 1..db'.given /\ ask[u].id # n
    BY <1>3, <2>1 DEF AskMeant, n
  <2>3. Lists(db, ask[u].file)' => Lists(db, ask[u].file) \/ ask[u].file = f
    BY <1>3, <1>4 DEF Lists
  <2>4. ask[u].at # "importing"
    BY <2>1 DEF AskMeant, ArchiveCommits
  <2>5. (Reserved(u) => ask[u].file \in DOMAIN files /\ ~Lists(db, ask[u].file))'
    BY <1>2, <1>4, <2>1, <2>3 DEF AskMeant, Reserved
  <2>6. (ask[u].at = "durable" => ~Lists(safe, ask[u].file))'
    BY <1>4, <2>1 DEF AskMeant, Lists
  <2> QED
    BY <1>3, <1>4, <2>1, <2>2, <2>4, <2>5, <2>6 DEF AskMeant
<1>8. AsksApart' /\ FileApart'
  BY <1>4 DEF Kept, AsksApart, FileApart, Reserved
<1> QED
  BY <1>4, <1>5, <1>6, <1>7, <1>8 DEF Kept

LEMMA KeptByArchiveFails ==
    ASSUME Kept, ArchiveFails
    PROVE  Kept'
<1>1. /\ DOMAIN files' = DOMAIN files \ job.names
      /\ \A g \in DOMAIN files' : files'[g] = files[g]
      /\ db' = db /\ safe' = safe /\ ask' = ask
      /\ job.op = "archive" /\ job'.op = "none"
  BY DEF ArchiveFails, Without, Restrict, Done, NoJob
<1>2. \A f \in job.names :
         ~Lists(db, f) /\ ~Lists(safe, f) /\ \A u \in Callers : Reserved(u) => ask[u].file # f
  BY <1>1 DEF Kept, FileApart
<1>3. Listed(db)' /\ Listed(safe)'
  BY <1>1, <1>2 DEF Kept, Listed, Lists
<1>4. (\A u \in Callers : AskMeant(u))'
  BY <1>1, <1>2 DEF Kept, AskMeant, Reserved, Lists
<1>5. AsksApart' /\ FileApart'
  BY <1>1 DEF Kept, AsksApart, FileApart, Reserved
<1> QED
  BY <1>1, <1>3, <1>4, <1>5 DEF Kept

(* A request that ends leaves the others as they were.                     *)
LEMMA KeptByEnds ==
    ASSUME Kept, NEW u \in Callers, Ends(u),
           db' = db, safe' = safe, files' = files,
           job' = job \/ (ask[u].at = "importing" /\ job'.op # "archive")
    PROVE  Kept'
<1>1. ask' = [v \in Callers |-> IF v = u THEN NoAsk ELSE ask[v]]
  BY DEF Kept, Ends
<1>2. Listed(db)' /\ Listed(safe)'
  BY DEF Kept, Listed
<1>3. (\A v \in Callers : AskMeant(v))'
  BY <1>1 DEF Kept, AskMeant, AsksApart, Reserved, Lists, NoAsk
<1>4. AsksApart'
  BY <1>1 DEF Kept, AsksApart, Reserved, NoAsk
<1>5. FileApart'
  BY <1>1 DEF Kept, FileApart, Reserved, Lists, NoAsk
<1> QED
  BY <1>1, <1>2, <1>3, <1>4, <1>5 DEF Kept

LEMMA KeptByStage ==
    ASSUME Kept, NEW u \in Callers, NEW id \in 1..MaxArchives, Stage(u, id)
    PROVE  Kept'
<1> DEFINE f == db.shelved[id].file
<1>1. /\ ask' = [v \in Callers |-> IF v = u THEN Request("staged", id, f, files[f]) ELSE ask[v]]
      /\ id \in DOMAIN db.shelved /\ files[f].project = db.shelved[id].project
      /\ db' = db /\ safe' = safe /\ files' = files /\ job' = job
  BY DEF Kept, Stage
<1>2. Listed(db)' /\ Listed(safe)'
  BY <1>1 DEF Kept, Listed
<1>3. (\A v \in Callers : AskMeant(v))'
  BY <1>1 DEF Kept, Listed, AskMeant, Reserved, Lists, Request
<1>4. AsksApart' /\ FileApart'
  BY <1>1 DEF Kept, AsksApart, FileApart, Reserved, Lists, Request
<1> QED
  BY <1>1, <1>2, <1>3, <1>4 DEF Kept

LEMMA KeptByImportWrites ==
    ASSUME Kept, NEW u \in Callers, ImportWrites(u)
    PROVE  Kept'
<1>1. /\ ask' = [v \in Callers |->
                    IF v = u THEN Request("importing", ask[u].id, ask[u].file, ask[u].archive) ELSE ask[v]]
      /\ ask[u].at = "staged" /\ ask[u].id \in DOMAIN db.shelved
      /\ db' = db /\ safe' = safe /\ files' = files
      /\ job.op = "none" /\ job'.op = "import" /\ job'.project = ask[u].archive.project
  BY DEF Kept, ImportWrites, StillShelved, Goes, Starts, StoreFree, NoJob
<1>2. Listed(db)' /\ Listed(safe)'
  BY <1>1 DEF Kept, Listed
<1>3. (\A v \in Callers : AskMeant(v))'
  BY <1>1 DEF Kept, AskMeant, Reserved, Lists, Request
<1>4. AsksApart' /\ FileApart'
  BY <1>1 DEF Kept, AskMeant, AsksApart, FileApart, Reserved, Lists, Request
<1> QED
  BY <1>1, <1>2, <1>3, <1>4 DEF Kept

LEMMA KeptByImportCommits ==
    ASSUME Kept, NEW u \in Callers, ImportCommits(u)
    PROVE  Kept'
<1> DEFINE k == ask[u].id
           f == ask[u].file
           p == job.project
<1>1. /\ ask' = [v \in Callers |->
                    IF v = u THEN Request("imported", k, f, ask[u].archive) ELSE ask[v]]
      /\ ask[u].at = "importing"
      /\ db'.live = db.live \cup {p} /\ db'.given = db.given
      /\ DOMAIN db'.shelved = DOMAIN db.shelved \ {k}
      /\ \A i \in DOMAIN db'.shelved : db'.shelved[i] = db.shelved[i]
      /\ safe' = safe /\ files' = files
      /\ job.op = "import" /\ job'.op = "none"
  BY DEF Kept, ImportCommits, Goes, Unshelved, Without, Restrict, Done, NoJob
<1>2. /\ k \in DOMAIN db.shelved /\ db.shelved[k].file = f /\ db.shelved[k].project = p
      /\ f \in DOMAIN files
  BY <1>1 DEF Kept, Listed, AskMeant
<1> HIDE DEF k, f, p
<1>3. ~Lists(db', f)
  BY <1>1, <1>2 DEF Kept, Listed, Lists
<1>4. Listed(db)' /\ Listed(safe)'
  BY <1>1, <1>2 DEF Kept, Listed
<1>5. \A v \in Callers : Lists(db, ask[v].file)' => v = u \/ Lists(db, ask[v].file)
  BY <1>1 DEF Lists
<1>6. ASSUME NEW v \in Callers PROVE AskMeant(v)'
  <2>1. CASE v = u
    BY <1>1, <1>2, <1>3, <2>1 DEF AskMeant, Reserved, Request, Lists, f
  <2>2. CASE v # u
    <3>1. AskMeant(v) /\ ask'[v] = ask[v] /\ ask[v].at # "importing"
      BY <1>1, <2>2 DEF Kept, AsksApart
    <3>2. Lists(db, ask[v].file)' => Lists(db, ask[v].file)
      BY <1>5, <2>2
    <3> QED
      BY <1>1, <3>1, <3>2 DEF AskMeant, Reserved, Lists
  <2> QED
    BY <2>1, <2>2
<1>7. \A v \in Callers : v # u /\ Reserved(v) => ask[v].file # f
  BY <1>2 DEF Kept, AskMeant, Lists
<1>8. AsksApart'
  BY <1>1, <1>7 DEF Kept, AsksApart, Reserved, Request, f
<1>9. FileApart'
  BY <1>1 DEF FileApart
<1> QED
  BY <1>1, <1>4, <1>6, <1>8, <1>9 DEF Kept

LEMMA KeptByCheckpoint ==
    ASSUME Kept, NEW u \in Callers, Checkpoint(u)
    PROVE  Kept'
<1>1. /\ ask' = [v \in Callers |->
                    IF v = u THEN Request("durable", ask[u].id, ask[u].file, ask[u].archive) ELSE ask[v]]
      /\ ask[u].at = "imported"
      /\ db' = db /\ safe' = db /\ files' = files /\ job' = job /\ job.op # "archive"
  BY DEF Kept, Checkpoint, Durable, Goes, DbFree
<1>2. Listed(db)' /\ Listed(safe)'
  BY <1>1 DEF Kept, Listed
<1>3. (\A v \in Callers : AskMeant(v))'
  BY <1>1 DEF Kept, AskMeant, Reserved, Lists, Request
<1>4. AsksApart' /\ FileApart'
  BY <1>1 DEF Kept, AsksApart, FileApart, Reserved, Request
<1> QED
  BY <1>1, <1>2, <1>3, <1>4 DEF Kept

LEMMA KeptByRemoveFile ==
    ASSUME Kept, NEW u \in Callers, RemoveFile(u)
    PROVE  Kept'
<1>1. /\ ask' = [v \in Callers |-> IF v = u THEN NoAsk ELSE ask[v]]
      /\ ask[u].at = "durable"
      /\ DOMAIN files' = DOMAIN files \ {ask[u].file}
      /\ \A g \in DOMAIN files' : files'[g] = files[g]
      /\ db' = db /\ safe' = safe /\ job' = job /\ job.op = "none"
  BY DEF Kept, RemoveFile, Ends, Without, Restrict, StoreFree, NoJob
<1>2. ~Lists(db, ask[u].file) /\ ~Lists(safe, ask[u].file)
  BY <1>1 DEF Kept, AskMeant, Reserved
<1>3. Listed(db)' /\ Listed(safe)'
  BY <1>1, <1>2 DEF Kept, Listed, Lists
<1>4. (\A v \in Callers : AskMeant(v))'
  BY <1>1 DEF Kept, AskMeant, AsksApart, Reserved, Lists, NoAsk
<1>5. AsksApart' /\ FileApart'
  BY <1>1 DEF Kept, AsksApart, FileApart, Reserved, NoAsk
<1> QED
  BY <1>1, <1>3, <1>4, <1>5 DEF Kept

LEMMA KeptByUnarchive ==
    ASSUME Kept, NEW u \in Callers, Unarchive(u)
    PROVE  Kept'
<1>1. CASE \E id \in 1..MaxArchives : Stage(u, id)
  BY <1>1, KeptByStage
<1>2. CASE ImportWrites(u)
  BY <1>2, KeptByImportWrites
<1>3. CASE ImportRefused(u)
  BY <1>3, KeptByEnds DEF ImportRefused
<1>4. CASE ImportCommits(u)
  BY <1>4, KeptByImportCommits
<1>5. CASE ImportFails(u)
  BY <1>5, KeptByEnds DEF ImportFails, Starts
<1>6. CASE Checkpoint(u)
  BY <1>6, KeptByCheckpoint
<1>7. CASE CheckpointFails(u)
  BY <1>7, KeptByEnds DEF CheckpointFails
<1>8. CASE RemoveFile(u)
  BY <1>8, KeptByRemoveFile
<1> QED
  BY <1>1, <1>2, <1>3, <1>4, <1>5, <1>6, <1>7, <1>8 DEF Unarchive

-----------------------------------------------------------------------------
(* Checkpoints, dying processes and power cuts.                            *)
LEMMA KeptBySettle ==
    ASSUME Kept, Settle
    PROVE  Kept'
<1>1. /\ db' = db /\ safe' = db /\ files' = files /\ ask' = ask /\ job' = job
      /\ job.op # "archive"
  BY DEF Settle, DbFree
<1>2. Listed(db)' /\ Listed(safe)'
  BY <1>1 DEF Kept, Listed
<1>3. (\A v \in Callers : AskMeant(v))'
  BY <1>1 DEF Kept, AskMeant, Reserved, Lists
<1>4. AsksApart' /\ FileApart'
  BY <1>1 DEF Kept, AsksApart, FileApart, Reserved
<1> QED
  BY <1>1, <1>2, <1>3, <1>4 DEF Kept

LEMMA KeptByKilled ==
    ASSUME Kept, Killed
    PROVE  Kept'
<1>1. /\ ask' = [u \in Callers |-> IF ask[u].at = "importing" THEN NoAsk ELSE ask[u]]
      /\ db' = db /\ safe' = safe /\ files' = files /\ job'.op = "none"
  BY DEF Killed, Done, NoJob
<1>2. Listed(db)' /\ Listed(safe)'
  BY <1>1 DEF Kept, Listed
<1>3. (\A v \in Callers : AskMeant(v))'
  BY <1>1 DEF Kept, AskMeant, Reserved, Lists, NoAsk
<1>4. AsksApart' /\ FileApart'
  BY <1>1 DEF Kept, AsksApart, FileApart, Reserved, NoAsk
<1> QED
  BY <1>1, <1>2, <1>3, <1>4 DEF Kept

LEMMA KeptByPowerCut ==
    ASSUME Kept, PowerCut
    PROVE  Kept'
<1>1. /\ ask' = [u \in Callers |-> NoAsk]
      /\ db' = safe /\ safe' = safe /\ files' = files /\ job'.op = "none"
  BY DEF PowerCut, NoJob
<1>2. Listed(db)' /\ Listed(safe)'
  BY <1>1 DEF Kept, Listed
<1>3. (\A v \in Callers : AskMeant(v))'
  BY <1>1 DEF AskMeant, Reserved, NoAsk
<1>4. AsksApart' /\ FileApart'
  BY <1>1 DEF AsksApart, FileApart, Reserved, NoAsk
<1> QED
  BY <1>1, <1>2, <1>3, <1>4 DEF Kept

LEMMA KeptNext ==
    ASSUME Kept, [Next]_vars
    PROVE  Kept'
<1>1. CASE UNCHANGED vars
  BY <1>1, Aside DEF vars
<1>2. CASE \E p \in Projects, f \in Files : ArchiveWrites(p, f)
  BY <1>2, KeptByArchiveWrites
<1>3. CASE ArchiveCommits \/ ArchiveFails
  BY <1>3, KeptByArchiveCommits, KeptByArchiveFails
<1>4. CASE \E u \in Callers : Unarchive(u)
  BY <1>4, KeptByUnarchive
<1>5. CASE Settle \/ Killed \/ PowerCut
  BY <1>5, KeptBySettle, KeptByKilled, KeptByPowerCut
<1> QED
  BY <1>1, <1>2, <1>3, <1>4, <1>5, KeptByBytes DEF Next

(* No project is ever gone: with any number of archivings, unarchivings,   *)
(* failures, killed processes and power cuts, each project is live or has  *)
(* a listed file that holds it, in the database and in what a power cut    *)
(* leaves of it.                                                           *)
THEOREM ProjectsAreKept == Spec => []NothingLost
<1>1. Kept => NothingLost
  BY DEF Kept, Listed, NothingLost, FilesOf
<1> QED
  BY <1>1, KeptInit, KeptNext, PTL DEF Spec

-----------------------------------------------------------------------------
(* A dump and a job of the store lock never overlap.                       *)
DumpAlone ==
    /\ job.op = "none" \/ dump = NoDump
    /\ dump.names \subseteq DOMAIN files
    /\ dump.bytes \subseteq blobs

LEMMA DumpAloneNext ==
    ASSUME Kept, DumpAlone, [Next]_vars
    PROVE  DumpAlone'
<1> USE DEF DumpAlone, NoDump, StoreFree, NoJob, Starts, Done
<1>1. CASE UNCHANGED vars
  BY <1>1 DEF vars
<1>2. CASE \E c \in Contents, p \in Projects \cup {NoProject} : UploadWrites(c, p)
  BY <1>2 DEF UploadWrites
<1>3. CASE UploadCommits \/ UploadFails
  BY <1>3 DEF UploadCommits, UploadFails
<1>4. CASE Discards
  BY <1>4 DEF Discards
<1>5. CASE \E a \in 1..MaxRows :
              \/ DeleteRow(a) \/ Ages(a) \/ SweepRow(a) \/ SweepSkips(a)
              \/ \E p \in Projects : Link(a, p) \/ Unlink(a, p)
  BY <1>5 DEF DeleteRow, Ages, SweepRow, SweepSkips, Link, Unlink
<1>6. CASE Collects \/ CollectFails \/ SweepFinds
  BY <1>6 DEF Collects, CollectFails, SweepFinds
<1>7. CASE DumpSnapshots
  BY <1>7 DEF DumpSnapshots, Kept, Listed
<1>8. CASE DumpEnds
  BY <1>8 DEF DumpEnds
<1>9. CASE \E p \in Projects, f \in Files : ArchiveWrites(p, f)
  BY <1>9 DEF ArchiveWrites
<1>10. CASE ArchiveCommits \/ ArchiveFails
  BY <1>10 DEF ArchiveCommits, ArchiveFails
<1>11. CASE \E u \in Callers : Unarchive(u)
  <2> PICK u \in Callers : Unarchive(u)
    BY <1>11
  <2>1. CASE \E id \in 1..MaxArchives : Stage(u, id)
    BY <2>1 DEF Stage
  <2>2. CASE ImportWrites(u) \/ ImportRefused(u)
    BY <2>2 DEF ImportWrites, ImportRefused
  <2>3. CASE ImportCommits(u) \/ ImportFails(u)
    BY <2>3 DEF ImportCommits, ImportFails
  <2>4. CASE Checkpoint(u) \/ CheckpointFails(u)
    BY <2>4 DEF Checkpoint, CheckpointFails
  <2>5. CASE RemoveFile(u)
    BY <2>5 DEF RemoveFile
  <2> QED
    BY <2>1, <2>2, <2>3, <2>4, <2>5 DEF Unarchive
<1>12. CASE Settle \/ Killed \/ PowerCut
  BY <1>12 DEF Settle, Killed, PowerCut
<1> QED
  BY <1>1, <1>2, <1>3, <1>4, <1>5, <1>6, <1>7, <1>8, <1>9, <1>10, <1>11, <1>12 DEF Next

(* A dump is whole, whatever uploads, deletes, sweeps, archives or         *)
(* unarchives while it reads.                                              *)
THEOREM DumpsAreWhole == Spec => []DumpIsWhole
<1>1. Init => DumpAlone
  BY DEF Init, DumpAlone, NoDump, NoJob
<1>2. DumpAlone => DumpIsWhole
  BY DEF DumpAlone, DumpIsWhole
<1> QED
  BY <1>1, <1>2, KeptInit, KeptNext, DumpAloneNext, PTL DEF Spec

-----------------------------------------------------------------------------
(* Rows and bytes.                                                         *)
Bytes ==
    /\ db.sha \in Seq(Contents) /\ db.rows \subseteq DOMAIN db.sha
    /\ Named(db) \subseteq blobs
    /\ job.op = "upload" => job.content \subseteq Contents \cap blobs
    /\ \A f \in DOMAIN files : files[f].holds \in Seq(Contents)
    /\ \A u \in Callers : ask[u].at \in {"staged", "importing"} =>
          /\ ask[u].archive.holds \in Seq(Contents)
          /\ ask[u].at = "importing" => \A i \in DOMAIN ask[u].archive.holds : ask[u].archive.holds[i] \in blobs

LEMMA NamedGrows ==
    ASSUME NEW d, NEW s \in Seq(Contents),
           d.sha \in Seq(Contents), d.rows \subseteq DOMAIN d.sha
    PROVE  /\ d.sha \o s \in Seq(Contents)
           /\ d.rows \cup NewRows(d, s) \subseteq DOMAIN (d.sha \o s)
           /\ \A a \in d.rows \cup NewRows(d, s) :
                 \/ a \in d.rows /\ (d.sha \o s)[a] = d.sha[a]
                 \/ \E i \in DOMAIN s : (d.sha \o s)[a] = s[i]
<1> DEFINE t == d.sha \o s
<1>1. t \in Seq(Contents) /\ Len(t) = Len(d.sha) + Len(s) /\ DOMAIN t = 1..Len(t)
  OBVIOUS
<1>2. DOMAIN d.sha = 1..Len(d.sha) /\ DOMAIN s = 1..Len(s) /\ Len(d.sha) \in Nat /\ Len(s) \in Nat
  OBVIOUS
<1>3. \A a \in d.rows : a \in 1..Len(d.sha) /\ t[a] = d.sha[a]
  BY <1>2
<1>4. \A a \in NewRows(d, s) : a - Len(d.sha) \in DOMAIN s /\ t[a] = s[a - Len(d.sha)] /\ a \in 1..Len(t)
  BY <1>1, <1>2 DEF NewRows
<1> QED
  BY <1>1, <1>2, <1>3, <1>4

(* A step that adds no rows, and removes no bytes that a row names.        *)
LEMMA BytesAside ==
    ASSUME Bytes,
           db'.sha = db.sha, db'.rows \subseteq db.rows,
           Named(db)' \subseteq blobs',
           job'.op = "upload" => job' = job,
           blobs \subseteq blobs' \/ job'.op = "none",
           \A f \in DOMAIN files' : f \in DOMAIN files /\ files'[f] = files[f],
           \A u \in Callers : ask'[u] = ask[u] \/ ask'[u].at \in {"none", "imported", "durable"},
           blobs \subseteq blobs' \/ \A u \in Callers : ask'[u].at # "importing"
    PROVE  Bytes'
  BY DEF Bytes

LEMMA BytesByUploads ==
    ASSUME Kept, Bytes,
           \/ \E c \in Contents, p \in Projects \cup {NoProject} : UploadWrites(c, p)
           \/ UploadCommits \/ UploadFails \/ Discards
    PROVE  Bytes'
<1> USE DEF Starts, Done, NoJob
<1>1. CASE \E c \in Contents, p \in Projects \cup {NoProject} : UploadWrites(c, p)
  BY <1>1 DEF UploadWrites, StoreFree, Bytes, Named
<1>2. CASE UploadCommits
  <2>1. PICK c \in job.content : db' = Inserted(db, <<c>>, job.project)
    BY <1>2 DEF UploadCommits
  <2>2. c \in Contents /\ c \in blobs /\ <<c>> \in Seq(Contents)
    BY <1>2, <2>1 DEF UploadCommits, Bytes
  <2>3. db'.sha = db.sha \o <<c>> /\ db'.rows = db.rows \cup NewRows(db, <<c>>)
    BY <2>1 DEF Inserted
  <2>4. /\ db'.sha \in Seq(Contents) /\ db'.rows \subseteq DOMAIN db'.sha
        /\ \A a \in db'.rows : db'.sha[a] \in blobs
    <3> DEFINE s == <<c>>
    <3>1. s \in Seq(Contents) /\ \A i \in DOMAIN s : s[i] \in blobs
      BY <2>2
    <3>2. db'.sha = db.sha \o s /\ db'.rows = db.rows \cup NewRows(db, s)
      BY <2>3
    <3> HIDE DEF s
    <3>3. /\ db.sha \o s \in Seq(Contents)
          /\ db.rows \cup NewRows(db, s) \subseteq DOMAIN (db.sha \o s)
          /\ \A a \in db.rows \cup NewRows(db, s) :
                \/ a \in db.rows /\ (db.sha \o s)[a] = db.sha[a]
                \/ \E i \in DOMAIN s : (db.sha \o s)[a] = s[i]
      BY <3>1, NamedGrows DEF Bytes
    <3>4. \A a \in db.rows : db.sha[a] \in blobs
      BY DEF Bytes, Named
    <3> QED
      BY <3>1, <3>2, <3>3, <3>4
  <2>5. blobs' = blobs /\ files' = files /\ ask' = ask /\ job'.op = "none" /\ job.op = "upload"
    BY <1>2 DEF UploadCommits
  <2>6. \A u \in Callers : ask[u].at # "importing"
    BY <2>5 DEF Kept, AskMeant
  <2> QED
    BY <2>4, <2>5, <2>6 DEF Bytes, Named
<1>3. CASE UploadFails
  BY <1>3 DEF UploadFails, Bytes, Named
<1>4. CASE Discards
  <2>1. \A u \in Callers : ask[u].at # "importing"
    BY <1>4 DEF Discards, Kept, AskMeant
  <2>2. Named(db)' \subseteq blobs'
    BY <1>4 DEF Discards, Unwanted, Named, Bytes
  <2> QED
    BY <1>4, <2>1, <2>2, BytesAside DEF Discards
<1> QED
  BY <1>1, <1>2, <1>3, <1>4

LEMMA BytesByDocuments ==
    ASSUME Kept, Bytes,
           \/ \E a \in 1..MaxRows :
                 \/ DeleteRow(a) \/ Ages(a) \/ SweepRow(a) \/ SweepSkips(a)
                 \/ \E p \in Projects : Link(a, p) \/ Unlink(a, p)
           \/ Collects \/ CollectFails \/ SweepFinds \/ DumpSnapshots \/ DumpEnds
    PROVE  Bytes'
<1> USE DEF Starts, Done, NoJob, RowDeleted, Linked, Named
<1>1. CASE \E a \in 1..MaxRows : DeleteRow(a) \/ SweepRow(a)
  <2>1. /\ db'.sha = db.sha /\ db'.rows \subseteq db.rows /\ blobs' = blobs
        /\ files' = files /\ ask' = ask /\ job'.op # "upload" /\ job.op = "none"
    BY <1>1 DEF DeleteRow, SweepRow, StoreFree
  <2>2. \A u \in Callers : ask[u].at # "importing"
    BY <2>1 DEF Kept, AskMeant
  <2> QED
    BY <2>1, <2>2 DEF Bytes
<1>2. CASE \E a \in 1..MaxRows : Ages(a) \/ SweepSkips(a)
  BY <1>2 DEF Ages, SweepSkips, Bytes
<1>6. CASE \E a \in 1..MaxRows, p \in Projects : Link(a, p) \/ Unlink(a, p)
  <2>1. /\ db'.sha = db.sha /\ db'.rows = db.rows
        /\ blobs' = blobs /\ files' = files /\ ask' = ask /\ job' = job
    BY <1>6 DEF Link, Unlink
  <2> QED
    BY <2>1 DEF Bytes
<1>3. CASE Collects
  <2>1. \A u \in Callers : ask[u].at # "importing"
    BY <1>3 DEF Collects, Kept, AskMeant
  <2>2. Named(db)' \subseteq blobs'
    BY <1>3 DEF Collects, Released, Bytes
  <2> QED
    BY <1>3, <2>1, <2>2, BytesAside DEF Collects
<1>4. CASE CollectFails
  BY <1>4 DEF CollectFails, Bytes, Kept, AskMeant
<1>5. CASE SweepFinds \/ DumpSnapshots \/ DumpEnds
  BY <1>5 DEF SweepFinds, DumpSnapshots, DumpEnds, Bytes
<1> QED
  BY <1>1, <1>2, <1>3, <1>4, <1>5, <1>6

LEMMA BytesByArchive ==
    ASSUME Kept, Bytes,
           \/ \E p \in Projects, f \in Files : ArchiveWrites(p, f)
           \/ ArchiveCommits \/ ArchiveFails
    PROVE  Bytes'
<1> USE DEF Starts, Done, NoJob, Named
<1>1. ASSUME NEW p \in Projects, NEW f \in Files, ArchiveWrites(p, f)
      PROVE  Bytes'
  <2>1. Cardinality(RowsOf(p)) \in Nat
    <3>1. db.rows \subseteq 1..Len(db.sha) /\ Len(db.sha) \in Nat
      BY DEF Bytes
    <3>2. RowsOf(p) \in SUBSET (1..Len(db.sha))
      BY <3>1 DEF RowsOf
    <3>3. IsFiniteSet(1..Len(db.sha))
      BY <3>1, FS_Interval
    <3>4. IsFiniteSet(RowsOf(p))
      BY <3>2, <3>3, FS_Subset
    <3> QED
      BY <3>4, FS_CardinalityType
  <2>2. /\ DOMAIN files' = DOMAIN files \cup {f}
        /\ \A g \in DOMAIN files : g # f => files'[g] = files[g]
        /\ files'[f].holds \in Seq(Contents)
    BY <1>1, <2>1 DEF ArchiveWrites
  <2>3. db' = db /\ blobs' = blobs /\ ask' = ask /\ job'.op = "archive" /\ job.op = "none"
    BY <1>1 DEF ArchiveWrites, StoreFree
  <2>4. \A u \in Callers : ask[u].at # "importing"
    BY <2>3 DEF Kept, AskMeant
  <2> QED
    BY <2>2, <2>3, <2>4 DEF Bytes
<1>2. CASE ArchiveCommits
  BY <1>2 DEF ArchiveCommits, Shelved, Bytes, Kept, AskMeant
<1>3. CASE ArchiveFails
  BY <1>3 DEF ArchiveFails, Without, Restrict, Bytes, Kept, AskMeant
<1> QED
  BY <1>1, <1>2, <1>3

LEMMA BytesByUnarchive ==
    ASSUME Kept, Bytes, NEW u \in Callers, Unarchive(u)
    PROVE  Bytes'
<1> USE DEF Starts, Done, NoJob, Named, Request
<1>1. CASE \E id \in 1..MaxArchives : Stage(u, id)
  BY <1>1 DEF Stage, Bytes, Kept
<1>2. CASE ImportWrites(u)
  BY <1>2 DEF ImportWrites, Goes, StoreFree, Bytes, Kept, AskMeant
<1>3. CASE ImportCommits(u)
  <2> DEFINE s == ask[u].archive.holds
  <2>1. s \in Seq(Contents) /\ \A i \in DOMAIN s : s[i] \in blobs
    BY <1>3 DEF ImportCommits, Bytes
  <2>2. db'.sha = db.sha \o s /\ db'.rows = db.rows \cup NewRows(db, s)
    BY <1>3 DEF ImportCommits, Unshelved
  <2>3. /\ db'.sha \in Seq(Contents) /\ db'.rows \subseteq DOMAIN db'.sha
        /\ \A a \in db'.rows : db'.sha[a] \in blobs
    <3> HIDE DEF s
    <3>1. /\ db.sha \o s \in Seq(Contents)
          /\ db.rows \cup NewRows(db, s) \subseteq DOMAIN (db.sha \o s)
          /\ \A a \in db.rows \cup NewRows(db, s) :
                \/ a \in db.rows /\ (db.sha \o s)[a] = db.sha[a]
                \/ \E i \in DOMAIN s : (db.sha \o s)[a] = s[i]
      BY <2>1, NamedGrows DEF Bytes
    <3>2. \A a \in db.rows : db.sha[a] \in blobs
      BY DEF Bytes
    <3> QED
      BY <2>1, <2>2, <3>1, <3>2
  <2>4. /\ blobs' = blobs /\ files' = files /\ job'.op = "none"
        /\ \A v \in Callers : ask'[v] = ask[v] \/ ask'[v].at = "imported"
    BY <1>3 DEF ImportCommits, Goes, Kept
  <2> QED
    BY <2>3, <2>4 DEF Bytes
<1>4. CASE ImportRefused(u) \/ ImportFails(u) \/ CheckpointFails(u) \/ RemoveFile(u)
  BY <1>4 DEF ImportRefused, ImportFails, CheckpointFails, RemoveFile, Ends, NoAsk, Without, Restrict, Bytes, Kept
<1>5. CASE Checkpoint(u)
  BY <1>5 DEF Checkpoint, Goes, Bytes, Kept
<1> QED
  BY <1>1, <1>2, <1>3, <1>4, <1>5 DEF Unarchive

LEMMA BytesNext ==
    ASSUME Kept, Bytes, ~PowerCuts, [Next]_vars
    PROVE  Bytes'
<1>1. CASE UNCHANGED vars
  BY <1>1 DEF vars, Bytes, Named
<1>2. CASE Settle
  BY <1>2 DEF Settle, Bytes, Named
<1>3. CASE Killed
  BY <1>3 DEF Killed, Done, NoJob, NoAsk, Bytes, Named
<1>4. CASE PowerCut
  BY <1>4 DEF PowerCut
<1> QED
  BY <1>1, <1>2, <1>3, <1>4, BytesByUploads, BytesByDocuments, BytesByArchive, BytesByUnarchive DEF Next

(* Every attachment on record has its bytes on disk, as long as the power  *)
(* stays on: failures and killed processes leave bytes without a row,      *)
(* never a row without bytes.                                              *)
THEOREM BytesAreKept == ~PowerCuts => (Spec => []RowsHaveBytes)
<1> SUFFICES ASSUME ~PowerCuts PROVE Spec => []RowsHaveBytes
  OBVIOUS
<1>1. Init => Bytes
  BY DEF Init, Bytes, Named, NoJob, NoAsk
<1>2. Kept /\ Bytes /\ [Next]_vars => Bytes'
  BY BytesNext
<1>3. Bytes => RowsHaveBytes
  BY DEF Bytes, RowsHaveBytes
<1> QED
  BY <1>1, <1>2, <1>3, KeptInit, KeptNext, PTL DEF Spec

-----------------------------------------------------------------------------
(* What a sweep listed as an orphan is looked at again under the lock: an  *)
(* attachment that a document uses goes only when somebody deletes it.     *)
THEOREM LinkedIsSpared == Spec => SweepSparesLinked
<1> DEFINE Spared ==
        \A a \in db.rows :
            a \notin db'.rows /\ LinkedTo(db, a) # {} => job'.op = "delete" \/ PowerCut
<1>1. ASSUME [Next]_vars PROVE Spared \/ UNCHANGED vars
  <2> USE DEF Inserted, Linked
  <2>1. CASE UNCHANGED vars
    BY <2>1
  <2>2. CASE \/ \E c \in Contents, p \in Projects \cup {NoProject} : UploadWrites(c, p)
             \/ UploadFails \/ Discards \/ Collects \/ CollectFails
             \/ SweepFinds \/ DumpSnapshots \/ DumpEnds \/ ArchiveFails \/ Settle \/ Killed
             \/ \E p \in Projects, f \in Files : ArchiveWrites(p, f)
    BY <2>2 DEF UploadWrites, UploadFails, Discards, Collects, CollectFails, SweepFinds,
                DumpSnapshots, DumpEnds, ArchiveFails, Settle, Killed, ArchiveWrites
  <2>3. CASE UploadCommits \/ ArchiveCommits
    <3>1. db.rows \subseteq db'.rows
      <4>1. CASE UploadCommits
        BY <4>1 DEF UploadCommits
      <4>2. CASE ArchiveCommits
        BY <4>2 DEF ArchiveCommits, Shelved
      <4> QED
        BY <2>3, <4>1, <4>2
    <3> QED
      BY <3>1
  <2>4. CASE \E a \in 1..MaxRows : DeleteRow(a)
    BY <2>4 DEF DeleteRow, Starts
  <2>5. CASE \E a \in 1..MaxRows : SweepRow(a)
    BY <2>5 DEF SweepRow, StillOrphan, RowDeleted
  <2>6. CASE \E a \in 1..MaxRows : Ages(a) \/ SweepSkips(a) \/ \E p \in Projects : Link(a, p) \/ Unlink(a, p)
    <3>1. db'.rows = db.rows
      <4>1. CASE \E a \in 1..MaxRows : Ages(a) \/ SweepSkips(a)
        BY <4>1 DEF Ages, SweepSkips
      <4>2. CASE \E a \in 1..MaxRows, p \in Projects : Link(a, p) \/ Unlink(a, p)
        BY <4>2 DEF Link, Unlink
      <4> QED
        BY <2>6, <4>1, <4>2
    <3> QED
      BY <3>1
  <2>7. ASSUME NEW u \in Callers, Unarchive(u) PROVE Spared
    <3>1. CASE ImportCommits(u)
      <4>1. db.rows \subseteq db'.rows
        BY <3>1 DEF ImportCommits, Unshelved
      <4> QED
        BY <4>1
    <3>2. CASE ~ImportCommits(u)
      <4>1. db' = db
        BY <2>7, <3>2 DEF Unarchive, Stage, ImportWrites, ImportRefused, ImportFails,
                          Checkpoint, CheckpointFails, RemoveFile
      <4> QED
        BY <4>1
    <3> QED
      BY <3>1, <3>2
  <2>8. CASE PowerCut
    BY <2>8
  <2> QED
    BY <1>1, <2>1, <2>2, <2>3, <2>4, <2>5, <2>6, <2>7, <2>8 DEF Next
<1> QED
  BY <1>1, PTL DEF Spec, SweepSparesLinked

-----------------------------------------------------------------------------
(* DataDirectory implements Shelf.                                         *)
(*                                                                         *)
(* Kept says where every project's file is.  Whole adds what is in it: the *)
(* file of an archiving holds what its project attaches until it commits,  *)
(* a request imports what its listed file holds, and no project is live    *)
(* and listed, or listed twice.  Then each commit is one step of Shelf,    *)
(* and every other step leaves the listed files, and so the shelf, alone.  *)

(* What a file holds, and what Listed and ShelfOf say of any files.        *)
ContentsOf(x) == Range(x.holds)

ListedIn(d, fs) ==
    /\ \A i \in DOMAIN d.shelved :
          d.shelved[i].file \in DOMAIN fs /\ fs[d.shelved[i].file].project = d.shelved[i].project
    /\ \A p \in Projects : p \in d.live \/ \E i \in DOMAIN d.shelved : d.shelved[i].project = p

Filed(d, fs, p) ==
    {f \in DOMAIN fs :
        /\ fs[f].project = p
        /\ \E i \in DOMAIN d.shelved : d.shelved[i].project = p /\ d.shelved[i].file = f}

Placed(d, fs, p) ==
    CASE p \in d.live ->
             [place |-> "live", holds |-> Holds(d, p)]
      [] p \notin d.live /\ Filed(d, fs, p) # {} ->
             [place |-> "archived", holds |-> UNION {ContentsOf(fs[f]) : f \in Filed(d, fs, p)}]
      [] OTHER -> [place |-> "lost", holds |-> {}]

(* A live project has no listing, and no project has two.                  *)
Apart(d) ==
    /\ \A i \in DOMAIN d.shelved : d.shelved[i].project \in Projects \ d.live
    /\ \A i, j \in DOMAIN d.shelved : d.shelved[i].project = d.shelved[j].project => i = j

LEMMA ShelfIsPlaced ==
    /\ ShelfOf(db) = [p \in Projects |-> Placed(db, files, p)]
    /\ ShelfOf(safe) = [p \in Projects |-> Placed(safe, files, p)]
    /\ (ShelfOf(db))' = [p \in Projects |-> Placed(db', files', p)]
    /\ (ShelfOf(safe))' = [p \in Projects |-> Placed(safe', files', p)]
  BY DEF ShelfOf, Placed, Filed, FilesOf, ContentsOf, Range, Holds

LEMMA PlacedLive ==
    ASSUME NEW d, NEW fs, NEW p, p \in d.live
    PROVE  Placed(d, fs, p) = [place |-> "live", holds |-> Holds(d, p)]
  BY DEF Placed

LEMMA PlacedListed ==
    ASSUME NEW d, NEW fs, ListedIn(d, fs), Apart(d), NEW i \in DOMAIN d.shelved
    PROVE  Placed(d, fs, d.shelved[i].project) =
              [place |-> "archived", holds |-> ContentsOf(fs[d.shelved[i].file])]
<1> DEFINE p == d.shelved[i].project
           f == d.shelved[i].file
<1>1. p \notin d.live
  BY DEF Apart
<1>2. Filed(d, fs, p) = {f}
  BY DEF Filed, ListedIn, Apart
<1>3. UNION {ContentsOf(fs[g]) : g \in {f}} = ContentsOf(fs[f])
  OBVIOUS
<1> QED
  BY <1>1, <1>2, <1>3 DEF Placed

(* A project whose links and whose listed file stay is where it was.       *)
LEMMA PlacedKept ==
    ASSUME NEW d, NEW fs, NEW e, NEW gs, NEW p \in Projects,
           ListedIn(d, fs), ListedIn(e, gs), Apart(d), Apart(e),
           p \in d.live <=> p \in e.live,
           p \in d.live => Holds(d, p) = Holds(e, p),
           \A i \in DOMAIN d.shelved :
              d.shelved[i].project = p =>
                 i \in DOMAIN e.shelved /\ e.shelved[i] = d.shelved[i] /\ gs[d.shelved[i].file] = fs[d.shelved[i].file]
    PROVE  Placed(e, gs, p) = Placed(d, fs, p)
<1>1. CASE p \in d.live
  BY <1>1, PlacedLive
<1>2. CASE p \notin d.live
  <2>1. PICK i \in DOMAIN d.shelved : d.shelved[i].project = p
    BY <1>2 DEF ListedIn
  <2>2. i \in DOMAIN e.shelved /\ e.shelved[i] = d.shelved[i] /\ gs[d.shelved[i].file] = fs[d.shelved[i].file]
    BY <2>1
  <2>3. Placed(d, fs, d.shelved[i].project) = [place |-> "archived", holds |-> ContentsOf(fs[d.shelved[i].file])]
    BY PlacedListed
  <2>4. Placed(e, gs, e.shelved[i].project) = [place |-> "archived", holds |-> ContentsOf(gs[e.shelved[i].file])]
    BY <2>2, PlacedListed
  <2>5. ContentsOf(gs[e.shelved[i].file]) = ContentsOf(fs[d.shelved[i].file])
    BY <2>2 DEF ContentsOf
  <2> QED
    BY <2>1, <2>2, <2>3, <2>4, <2>5
<1> QED
  BY <1>1, <1>2

-----------------------------------------------------------------------------
(* A database names contents, and links rows and live projects it has.     *)
Sound(d) ==
    /\ d.sha \in Seq(Contents) /\ d.rows \subseteq DOMAIN d.sha
    /\ d.links \subseteq d.rows \X d.live
    /\ Apart(d)

(* The job's bytes are there; its file holds what its project attaches.    *)
JobSound ==
    /\ job.op = "upload" =>
          job.content \subseteq Contents \cap blobs /\ job.project \in (db.live \cap Projects) \cup {NoProject}
    /\ job.op = "archive" =>
          /\ job.project \in db.live \cap Projects
          /\ \A f \in job.names : ContentsOf(files[f]) = Holds(db, job.project)

(* A request imports what its listed file holds.                           *)
AskSound(u) ==
    /\ ask[u].at \in {"staged", "importing"} =>
          /\ ask[u].archive.holds \in Seq(Contents)
          /\ ask[u].id \in DOMAIN db.shelved => ContentsOf(ask[u].archive) = ContentsOf(files[ask[u].file])
    /\ ask[u].at = "importing" =>
          /\ ask[u].archive.project \notin db.live
          /\ ContentsOf(ask[u].archive) \subseteq blobs

Whole ==
    /\ Sound(db) /\ Sound(safe)
    /\ \A f \in DOMAIN files : files[f].holds \in Seq(Contents)
    /\ JobSound
    /\ \A u \in Callers : AskSound(u)

LEMMA WholeInit == Init => Whole
  BY DEF Init, Whole, Sound, Apart, JobSound, AskSound, NoAsk, NoJob

(* A step that leaves the database, the files and the requests alone.      *)
LEMMA WholeAside ==
    ASSUME Whole, db' = db, safe' \in {safe, db}, files' = files,
           \A u \in Callers : ask'[u] = ask[u] \/ ask'[u].at \notin {"staged", "importing"},
           \/ job' = job
           \/ job'.op \notin {"upload", "archive"},
           blobs \subseteq blobs' \/ (job'.op # "upload" /\ \A u \in Callers : ask'[u].at # "importing")
    PROVE  Whole'
<1>1. Sound(db)' /\ Sound(safe)'
  BY DEF Whole, Sound, Apart
<1>2. JobSound'
  BY DEF Whole, JobSound
<1>3. (\A u \in Callers : AskSound(u))'
  BY DEF Whole, AskSound
<1> QED
  BY <1>1, <1>2, <1>3 DEF Whole

LEMMA NoImportElse ==
    ASSUME Kept, job.op # "import", NEW u \in Callers
    PROVE  ask[u].at # "importing"
  BY DEF Kept, AskMeant

LEMMA WholeByQuiet ==
    ASSUME Kept, Whole,
           \/ UNCHANGED vars
           \/ UploadFails \/ Discards
           \/ \E a \in 1..MaxRows : Ages(a) \/ SweepSkips(a)
           \/ Collects \/ CollectFails \/ SweepFinds \/ DumpSnapshots \/ DumpEnds
           \/ Settle \/ Killed
           \/ \E u \in Callers :
                 ImportRefused(u) \/ ImportFails(u) \/ Checkpoint(u) \/ CheckpointFails(u)
    PROVE  Whole'
<1> USE DEF Starts, Done, NoJob, NoAsk
<1>1. CASE UNCHANGED vars
  BY <1>1, WholeAside DEF vars
<1>2. CASE UploadFails \/ Discards
  BY <1>2, NoImportElse, WholeAside DEF UploadFails, Discards
<1>3. CASE \E a \in 1..MaxRows : Ages(a) \/ SweepSkips(a)
  BY <1>3, WholeAside DEF Ages, SweepSkips
<1>4. CASE Collects \/ CollectFails
  BY <1>4, NoImportElse, WholeAside DEF Collects, CollectFails
<1>5. CASE SweepFinds \/ DumpSnapshots \/ DumpEnds
  BY <1>5, WholeAside DEF SweepFinds, DumpSnapshots, DumpEnds
<1>6. CASE Settle
  BY <1>6, WholeAside DEF Settle
<1>7. CASE Killed
  BY <1>7, WholeAside DEF Killed
<1>8. ASSUME NEW u \in Callers, ImportRefused(u) \/ ImportFails(u) \/ CheckpointFails(u)
      PROVE  Whole'
  BY <1>8, WholeAside DEF ImportRefused, ImportFails, CheckpointFails, Ends, Kept
<1>9. ASSUME NEW u \in Callers, Checkpoint(u) PROVE Whole'
  BY <1>9, WholeAside DEF Checkpoint, Durable, Goes, Request, Kept
<1> QED
  BY <1>1, <1>2, <1>3, <1>4, <1>5, <1>6, <1>7, <1>8, <1>9

-----------------------------------------------------------------------------
(* Rows come, go and are linked.                                           *)
LEMMA WholeByRows ==
    ASSUME Kept, Whole, Sound(db)', Sound(safe)',
           db'.live = db.live, db'.shelved = db.shelved, files' = files, ask' = ask,
           blobs \subseteq blobs',
           job'.op \notin {"upload", "archive"}
    PROVE  Whole'
  BY DEF Whole, JobSound, AskSound

LEMMA SoundRows ==
    ASSUME NEW d, Sound(d), NEW e, e.live = d.live, e.shelved = d.shelved, e.sha = d.sha,
           e.rows \subseteq DOMAIN d.sha, e.links \subseteq e.rows \X d.live
    PROVE  Sound(e)
  BY DEF Sound, Apart

LEMMA WholeByDocuments ==
    ASSUME Kept, Whole,
           \E a \in 1..MaxRows : DeleteRow(a) \/ SweepRow(a) \/ \E p \in Projects : Link(a, p) \/ Unlink(a, p)
    PROVE  Whole'
<1>1. CASE \E a \in 1..MaxRows : DeleteRow(a) \/ SweepRow(a)
  <2>1. PICK a \in 1..MaxRows : db' = RowDeleted(db, a)
    BY <1>1 DEF DeleteRow, SweepRow
  <2>2. /\ safe' = safe /\ files' = files /\ ask' = ask /\ blobs' = blobs /\ job'.op \notin {"upload", "archive"}
    BY <1>1 DEF DeleteRow, SweepRow, Starts
  <2>3. /\ db'.live = db.live /\ db'.shelved = db.shelved /\ db'.sha = db.sha
        /\ db'.rows = db.rows \ {a} /\ db'.links = {l \in db.links : l[1] # a}
    BY <2>1 DEF RowDeleted
  <2>4. db'.rows \subseteq DOMAIN db.sha /\ db'.links \subseteq db'.rows \X db.live
    BY <2>3 DEF Whole, Sound
  <2>5. Sound(db') /\ Sound(safe)'
    BY <2>2, <2>3, <2>4, SoundRows DEF Whole, Sound, Apart
  <2>6. Sound(db)'
    BY <2>5 DEF Sound, Apart
  <2> QED
    BY <2>2, <2>3, <2>5, <2>6, WholeByRows
<1>2. ASSUME NEW a \in 1..MaxRows, NEW p \in Projects, Link(a, p) \/ Unlink(a, p) PROVE Whole'
  <2>1. /\ db'.live = db.live /\ db'.shelved = db.shelved /\ db'.sha = db.sha /\ db'.rows = db.rows
        /\ db'.links = db.links \cup {<<a, p>>} \/ db'.links = db.links \ {<<a, p>>}
        /\ Link(a, p) => a \in db.rows /\ p \in db.live
        /\ Unlink(a, p) => db'.links \subseteq db.links
        /\ safe' = safe /\ files' = files /\ ask' = ask /\ blobs' = blobs /\ job' = job /\ job.op \notin {"upload", "archive"}
    BY <1>2 DEF Link, Unlink, Linked, DbFree
  <2>2. db'.rows \subseteq DOMAIN db.sha /\ db'.links \subseteq db'.rows \X db.live
    BY <1>2, <2>1 DEF Whole, Sound
  <2>3. Sound(db') /\ Sound(safe)'
    BY <2>1, <2>2, SoundRows DEF Whole, Sound, Apart
  <2>4. Sound(db)'
    BY <2>3 DEF Sound, Apart
  <2> QED
    BY <2>1, <2>3, <2>4, WholeByRows
<1> QED
  BY <1>1, <1>2

-----------------------------------------------------------------------------
(* Rows for s are added, and linked to the projects of Q.                  *)
Grows(d, s, Q, e) ==
    /\ Sound(d) /\ s \in Seq(Contents) /\ Apart(e)
    /\ e.sha = d.sha \o s /\ e.rows = d.rows \cup NewRows(d, s)
    /\ e.links = d.links \cup (NewRows(d, s) \X Q)
    /\ d.live \subseteq e.live /\ Q \subseteq e.live

LEMMA RowsGrow ==
    ASSUME NEW d, NEW s, NEW Q, NEW e, Grows(d, s, Q, e), NEW p
    PROVE  /\ Sound(e)
           /\ p \in Q => Holds(e, p) = Holds(d, p) \cup Range(s)
           /\ p \notin Q => Holds(e, p) = Holds(d, p)
           /\ Named(e) = Named(d) \cup Range(s)
<1> USE DEF Grows
<1> DEFINE N == NewRows(d, s)
           B == Range(s)
<1>1. /\ e.sha \in Seq(Contents) /\ e.rows \subseteq DOMAIN e.sha
  BY NamedGrows DEF Sound
<1>2. Sound(e)
  BY <1>1 DEF Sound
<1>3. /\ DOMAIN d.sha = 1..Len(d.sha) /\ Len(d.sha) \in Nat
      /\ DOMAIN s = 1..Len(s) /\ Len(s) \in Nat
  BY DEF Sound
<1>4. \A a \in d.rows : a \notin N /\ e.sha[a] = d.sha[a]
  BY <1>3 DEF Sound, NewRows
<1>5. /\ \A a \in N : a - Len(d.sha) \in DOMAIN s /\ e.sha[a] = s[a - Len(d.sha)]
      /\ \A i \in DOMAIN s : Len(d.sha) + i \in N /\ e.sha[Len(d.sha) + i] = s[i]
  BY <1>3 DEF Sound, NewRows
<1>6. {e.sha[a] : a \in N} = B
  <2> HIDE DEF N
  <2>1. ASSUME NEW a \in N PROVE e.sha[a] \in B
    <3>1. PICK i \in DOMAIN s : e.sha[a] = s[i]
      BY <1>5
    <3> QED
      BY <3>1 DEF Range
  <2>2. \A i \in DOMAIN s : s[i] \in {e.sha[a] : a \in N}
    BY <1>5
  <2> QED
    BY <2>1, <2>2 DEF Range
<1>7. ASSUME p \in Q PROVE Holds(e, p) = Holds(d, p) \cup B
  <2>1. \A a : <<a, p>> \in d.links => a \in d.rows
    BY DEF Sound
  <2>2. {b \in e.rows : <<b, p>> \in e.links} = {b \in d.rows : <<b, p>> \in d.links} \cup N
    BY <1>4, <1>7, <2>1
  <2>3. {e.sha[a] : a \in {b \in d.rows : <<b, p>> \in d.links}} = Holds(d, p)
    BY <1>4 DEF Holds
  <2> QED
    BY <1>6, <2>2, <2>3 DEF Holds
<1>8. ASSUME p \notin Q PROVE Holds(e, p) = Holds(d, p)
  <2>1. {b \in e.rows : <<b, p>> \in e.links} = {b \in d.rows : <<b, p>> \in d.links}
    BY <1>8 DEF Sound
  <2> QED
    BY <1>4, <2>1 DEF Holds
<1>9. Named(e) = Named(d) \cup B
  <2>1. {e.sha[a] : a \in d.rows} = Named(d)
    BY <1>4 DEF Named
  <2> QED
    BY <1>6, <2>1 DEF Named
<1> QED
  BY <1>2, <1>7, <1>8, <1>9

(* What the commit of an upload inserts.                                   *)
LEMMA UploadGrows ==
    ASSUME Whole, job.op = "upload", NEW c \in job.content, db' = Inserted(db, <<c>>, job.project)
    PROVE  /\ Sound(db') /\ Named(db') = Named(db) \cup {c}
           /\ job.project # NoProject => Holds(db', job.project) = Holds(db, job.project) \cup {c}
           /\ \A q : q # job.project \/ q = NoProject => Holds(db', q) = Holds(db, q)
<1> DEFINE s == <<c>>
           Q == {job.project} \ {NoProject}
<1>1. /\ db'.live = db.live /\ db'.shelved = db.shelved
      /\ db'.sha = db.sha \o s /\ db'.rows = db.rows \cup NewRows(db, s)
      /\ db'.links = db.links \cup (NewRows(db, s) \X Q)
  BY DEF Inserted
<1>2. s \in Seq(Contents) /\ Q \subseteq db.live /\ Range(s) = {c}
  BY DEF Whole, JobSound, Range
<1>3. Sound(db) /\ Apart(db')
  BY <1>1 DEF Whole, Sound, Apart
<1> HIDE DEF s, Q
<1>4. Grows(db, s, Q, db')
  BY <1>1, <1>2, <1>3 DEF Grows
<1>5. \A q : q # job.project \/ q = NoProject => q \notin Q
  BY DEF Q
<1>6. job.project # NoProject => job.project \in Q
  BY DEF Q
<1> QED
  BY <1>2, <1>4, <1>5, <1>6, RowsGrow

LEMMA WholeByUploads ==
    ASSUME Kept, Whole,
           \/ \E c \in Contents, p \in Projects \cup {NoProject} : UploadWrites(c, p)
           \/ UploadCommits
    PROVE  Whole'
<1>1. ASSUME NEW c \in Contents, NEW p \in Projects \cup {NoProject}, UploadWrites(c, p)
      PROVE  Whole'
  <2>1. /\ db' = db /\ safe' = safe /\ files' = files /\ ask' = ask /\ blobs' = blobs \cup {c}
        /\ job'.op = "upload" /\ job'.content = {c} /\ job'.project = p
        /\ p \in db.live \cup {NoProject}
    BY <1>1 DEF UploadWrites, Starts
  <2>2. Sound(db)' /\ Sound(safe)' /\ (\A f \in DOMAIN files : files[f].holds \in Seq(Contents))'
    BY <2>1 DEF Whole, Sound, Apart
  <2>3. JobSound'
    BY <2>1 DEF JobSound
  <2>4. (\A u \in Callers : AskSound(u))'
    BY <2>1 DEF Whole, AskSound
  <2> QED
    BY <2>2, <2>3, <2>4 DEF Whole
<1>2. CASE UploadCommits
  <2>1. PICK c \in job.content : db' = Inserted(db, <<c>>, job.project)
    BY <1>2 DEF UploadCommits
  <2>2. db'.live = db.live /\ db'.shelved = db.shelved
    BY <2>1 DEF Inserted
  <2>4. Sound(db') /\ Sound(db) /\ Sound(safe)
    BY <1>2, <2>1, UploadGrows DEF UploadCommits, Whole
  <2>5. /\ safe' = safe /\ files' = files /\ ask' = ask /\ blobs' = blobs /\ job'.op = "none"
    BY <1>2 DEF UploadCommits, Done, NoJob
  <2>6. Sound(db)' /\ Sound(safe)'
    BY <2>4, <2>5 DEF Sound, Apart
  <2> QED
    BY <2>2, <2>5, <2>6, WholeByRows
<1> QED
  BY <1>1, <1>2

-----------------------------------------------------------------------------
(* The file of an archive holds the contents its project attaches.         *)
LEMMA SameContents ==
    ASSUME Sound(db), NEW p, NEW holds \in [1..Cardinality(RowsOf(p)) -> Contents],
           \A c \in Contents :
              Cardinality({i \in DOMAIN holds : holds[i] = c}) = Cardinality({a \in RowsOf(p) : db.sha[a] = c})
    PROVE  /\ holds \in Seq(Contents)
           /\ Range(holds) = Holds(db, p)
<1>1. db.rows \subseteq 1..Len(db.sha) /\ Len(db.sha) \in Nat
  BY DEF Sound
<1>2. IsFiniteSet(RowsOf(p))
  <2>1. RowsOf(p) \in SUBSET (1..Len(db.sha))
    BY <1>1 DEF RowsOf
  <2>2. IsFiniteSet(1..Len(db.sha))
    BY <1>1, FS_Interval
  <2> QED
    BY <2>1, <2>2, FS_Subset
<1>3. Cardinality(RowsOf(p)) \in Nat
  BY <1>2, FS_CardinalityType
<1>4. holds \in Seq(Contents) /\ DOMAIN holds = 1..Cardinality(RowsOf(p))
  BY <1>3
<1>5. ASSUME NEW c \in Contents
      PROVE  (\E i \in DOMAIN holds : holds[i] = c) <=> (\E a \in RowsOf(p) : db.sha[a] = c)
  <2> DEFINE I == {i \in DOMAIN holds : holds[i] = c}
             A == {a \in RowsOf(p) : db.sha[a] = c}
  <2>1. IsFiniteSet(I)
    <3>1. I \in SUBSET (1..Cardinality(RowsOf(p)))
      BY <1>4
    <3>2. IsFiniteSet(1..Cardinality(RowsOf(p)))
      BY <1>3, FS_Interval
    <3> QED
      BY <3>1, <3>2, FS_Subset
  <2>2. IsFiniteSet(A)
    BY <1>2, FS_Subset
  <2>3. Cardinality(I) = Cardinality(A)
    OBVIOUS
  <2>4. (I = {}) <=> (A = {})
    <3> HIDE DEF I, A
    <3> QED
      BY <2>1, <2>2, <2>3, FS_EmptySet
  <2> QED
    BY <2>4
<1>6. \A a \in RowsOf(p) : db.sha[a] \in Contents
  BY DEF Sound, RowsOf
<1>7. Holds(db, p) = {db.sha[a] : a \in RowsOf(p)}
  BY DEF Holds, RowsOf
<1>8. \A i \in DOMAIN holds : holds[i] \in Contents
  BY <1>4
<1> QED
  BY <1>4, <1>5, <1>6, <1>7, <1>8 DEF Range

LEMMA WholeByArchive ==
    ASSUME Kept, Whole,
           \/ \E p \in Projects, f \in Files : ArchiveWrites(p, f)
           \/ ArchiveCommits \/ ArchiveFails
    PROVE  Whole'
<1>1. ASSUME NEW p \in Projects, NEW f \in Files, ArchiveWrites(p, f) PROVE Whole'
  <2>1. PICK holds \in [1..Cardinality(RowsOf(p)) -> Contents] :
          /\ \A c \in Contents :
                Cardinality({i \in DOMAIN holds : holds[i] = c}) = Cardinality({a \in RowsOf(p) : db.sha[a] = c})
          /\ files' = [g \in DOMAIN files \cup {f} |->
                          IF g = f THEN [project |-> p, holds |-> holds] ELSE files[g]]
    BY <1>1 DEF ArchiveWrites
  <2>2. holds \in Seq(Contents) /\ Range(holds) = Holds(db, p)
    BY <2>1, SameContents DEF Whole
  <2>3. /\ db' = db /\ safe' = safe /\ ask' = ask /\ blobs' = blobs
        /\ job'.op = "archive" /\ job'.project = p /\ job'.names = {f}
        /\ f \notin DOMAIN files /\ p \in db.live
    BY <1>1 DEF ArchiveWrites, Starts
  <2>4. DOMAIN files' = DOMAIN files \cup {f} /\ files'[f].holds = holds /\ \A g \in DOMAIN files : files'[g] = files[g]
    BY <2>1, <2>3
  <2>5. ContentsOf(files'[f]) = Holds(db, p)
    BY <2>2, <2>4 DEF ContentsOf
  <2>6. Sound(db)' /\ Sound(safe)' /\ (\A g \in DOMAIN files : files[g].holds \in Seq(Contents))'
    BY <2>2, <2>3, <2>4 DEF Whole, Sound, Apart
  <2>7. JobSound'
    BY <2>3, <2>5 DEF JobSound
  <2>8. \A u \in Callers : ask[u].at \in {"staged", "importing"} /\ ask[u].id \in DOMAIN db.shelved =>
                                                                        ask[u].file \in DOMAIN files
    BY DEF Kept, Listed, AskMeant
  <2>9. (\A u \in Callers : AskSound(u))'
    BY <2>3, <2>4, <2>8 DEF Whole, AskSound
  <2> QED
    BY <2>6, <2>7, <2>9 DEF Whole
<1>2. CASE ArchiveCommits
  <2>1. PICK f \in job.names : db' = Shelved(db, job.project, f)
    BY <1>2 DEF ArchiveCommits
  <2> DEFINE p == job.project
             n == db.given + 1
  <2>2. /\ db'.live = db.live \ {p} /\ DOMAIN db'.shelved = DOMAIN db.shelved \cup {n}
        /\ n \notin DOMAIN db.shelved /\ db'.shelved[n].project = p
        /\ \A i \in DOMAIN db.shelved : db'.shelved[i] = db.shelved[i]
        /\ db'.sha = db.sha /\ db'.rows = db.rows /\ db'.links = {l \in db.links : l[2] # p}
    BY <2>1 DEF Kept, Listed, Shelved
  <2>3. p \in db.live /\ p \in Projects
    BY <1>2 DEF ArchiveCommits, Whole, JobSound
  <2>4. /\ safe' = safe /\ files' = files /\ ask' = ask /\ blobs' = blobs /\ job'.op = "none" /\ job.op = "archive"
    BY <1>2 DEF ArchiveCommits, Done, NoJob
  <2> HIDE DEF p, n
  <2>5. Sound(db)' /\ Sound(safe)'
    BY <2>2, <2>3, <2>4 DEF Whole, Sound, Apart
  <2>6. \A u \in Callers : ask[u].at # "importing" /\ (ask[u].at = "staged" => ask[u].id # n)
    BY <2>4 DEF Kept, Listed, AskMeant, n
  <2>7. (\A u \in Callers : AskSound(u))'
    BY <2>2, <2>4, <2>6 DEF Whole, AskSound
  <2> QED
    BY <2>4, <2>5, <2>7 DEF Whole, JobSound
<1>3. CASE ArchiveFails
  <2>1. /\ db' = db /\ safe' = safe /\ ask' = ask /\ blobs' = blobs /\ job'.op = "none" /\ job.op = "archive"
        /\ DOMAIN files' = DOMAIN files \ job.names /\ \A g \in DOMAIN files' : files'[g] = files[g]
    BY <1>3 DEF ArchiveFails, Without, Restrict, Done, NoJob
  <2>2. \A u \in Callers : ask[u].at \in {"staged", "importing"} /\ ask[u].id \in DOMAIN db.shelved =>
                              ask[u].file \in DOMAIN files /\ ask[u].file \notin job.names
    BY <2>1 DEF Kept, Listed, AskMeant, FileApart, Lists
  <2>3. (\A u \in Callers : AskSound(u))'
    BY <2>1, <2>2 DEF Whole, AskSound
  <2>4. Sound(db)' /\ Sound(safe)'
    BY <2>1 DEF Whole, Sound, Apart
  <2> QED
    BY <2>1, <2>3, <2>4 DEF Whole, JobSound
<1> QED
  BY <1>1, <1>2, <1>3

-----------------------------------------------------------------------------
LEMMA WholeByStage ==
    ASSUME Kept, Whole, NEW u \in Callers, NEW id \in 1..MaxArchives, Stage(u, id)
    PROVE  Whole'
<1> DEFINE f == db.shelved[id].file
<1>1. /\ ask' = [v \in Callers |-> IF v = u THEN Request("staged", id, f, files[f]) ELSE ask[v]]
      /\ f \in DOMAIN files
      /\ db' = db /\ safe' = safe /\ files' = files /\ job' = job /\ blobs' = blobs
  BY DEF Kept, Stage
<1>2. Sound(db)' /\ Sound(safe)'
  BY <1>1 DEF Whole, Sound, Apart
<1>3. JobSound'
  BY <1>1 DEF Whole, JobSound
<1>4. (\A v \in Callers : AskSound(v))'
  BY <1>1 DEF Whole, AskSound, Request
<1> QED
  BY <1>1, <1>2, <1>3, <1>4 DEF Whole

LEMMA WholeByImportWrites ==
    ASSUME Kept, Whole, NEW u \in Callers, ImportWrites(u)
    PROVE  Whole'
<1>1. /\ ask' = [v \in Callers |->
                    IF v = u THEN Request("importing", ask[u].id, ask[u].file, ask[u].archive) ELSE ask[v]]
      /\ ask[u].at = "staged" /\ ask[u].archive.project \notin db.live
      /\ db' = db /\ safe' = safe /\ files' = files
      /\ blobs' = blobs \cup ContentsOf(ask[u].archive)
      /\ job'.op = "import"
  BY DEF Kept, ImportWrites, StillShelved, Goes, Starts, ContentsOf, Range
<1>2. Sound(db)' /\ Sound(safe)'
  BY <1>1 DEF Whole, Sound, Apart
<1>3. JobSound'
  BY <1>1 DEF JobSound
<1>4. (\A v \in Callers : AskSound(v))'
  BY <1>1 DEF Whole, AskSound, Request
<1> QED
  BY <1>1, <1>2, <1>3, <1>4 DEF Whole

(* What the commit of an import inserts.                                   *)
LEMMA Imported ==
    ASSUME Kept, Whole, NEW u \in Callers, ImportCommits(u)
    PROVE  LET k == ask[u].id
               p == job.project
               s == ask[u].archive.holds
           IN  /\ s \in Seq(Contents) /\ p \notin db.live
               /\ k \in DOMAIN db.shelved /\ db.shelved[k].project = p /\ db.shelved[k].file = ask[u].file
               /\ db'.live = db.live \cup {p}
               /\ DOMAIN db'.shelved = DOMAIN db.shelved \ {k}
               /\ \A i \in DOMAIN db'.shelved : db'.shelved[i] = db.shelved[i]
               /\ Sound(db') /\ Apart(db')
               /\ Holds(db', p) = ContentsOf(ask[u].archive)
               /\ \A q : q # p => Holds(db', q) = Holds(db, q)
               /\ Named(db') = Named(db) \cup ContentsOf(ask[u].archive)
<1> DEFINE k == ask[u].id
           p == job.project
           s == ask[u].archive.holds
<1>1. /\ s \in Seq(Contents) /\ p \notin db.live
      /\ k \in DOMAIN db.shelved /\ db.shelved[k].project = p /\ db.shelved[k].file = ask[u].file
  BY DEF ImportCommits, Kept, AskMeant, Whole, AskSound
<1>2. /\ db'.live = db.live \cup {p}
      /\ DOMAIN db'.shelved = DOMAIN db.shelved \ {k}
      /\ \A i \in DOMAIN db'.shelved : db'.shelved[i] = db.shelved[i]
      /\ db'.sha = db.sha \o s /\ db'.rows = db.rows \cup NewRows(db, s)
      /\ db'.links = db.links \cup (NewRows(db, s) \X {p})
  BY DEF ImportCommits, Unshelved, Without, Restrict
<1>3. ContentsOf(ask[u].archive) = Range(s)
  BY DEF ContentsOf
<1> HIDE DEF k, p, s
<1>4. Apart(db')
  BY <1>1, <1>2 DEF Whole, Sound, Apart
<1>5. /\ Sound(db') /\ Holds(db', p) = Holds(db, p) \cup Range(s)
      /\ \A q : q \notin {p} => Holds(db', q) = Holds(db, q)
      /\ Named(db') = Named(db) \cup Range(s)
  <2> DEFINE Q == {p}
  <2>1. /\ Sound(db) /\ Q \subseteq db'.live /\ db.live \subseteq db'.live
        /\ db'.links = db.links \cup (NewRows(db, s) \X Q) /\ p \in Q
    BY <1>2 DEF Whole
  <2> HIDE DEF Q
  <2>2. /\ Sound(db') /\ \A q \in Q : Holds(db', q) = Holds(db, q) \cup Range(s)
        /\ \A q : q \notin Q => Holds(db', q) = Holds(db, q)
        /\ Named(db') = Named(db) \cup Range(s)
    <3>1. Grows(db, s, Q, db')
      BY <1>1, <1>2, <1>4, <2>1 DEF Grows
    <3> QED
      BY <3>1, RowsGrow
  <2> QED
    BY <2>1, <2>2 DEF Q
<1>6. Holds(db, p) = {}
  BY <1>1 DEF Whole, Sound, Holds
<1> QED
  BY <1>1, <1>2, <1>3, <1>4, <1>5, <1>6 DEF k, p, s

LEMMA WholeByImportCommits ==
    ASSUME Kept, Whole, NEW u \in Callers, ImportCommits(u)
    PROVE  Whole'
<1> DEFINE k == ask[u].id
           p == job.project
<1>1. /\ DOMAIN db'.shelved = DOMAIN db.shelved \ {k}
      /\ Sound(db')
  BY Imported
<1>2. /\ ask' = [v \in Callers |->
                    IF v = u THEN Request("imported", k, ask[u].file, ask[u].archive) ELSE ask[v]]
      /\ safe' = safe /\ files' = files /\ blobs' = blobs /\ job'.op = "none" /\ ask[u].at = "importing"
  BY DEF Kept, ImportCommits, Goes, Done, NoJob
<1> HIDE DEF k, p
<1>3. Sound(db)' /\ Sound(safe)'
  BY <1>1, <1>2 DEF Whole, Sound, Apart
<1>4. \A v \in Callers : v # u => ask[v].at # "importing"
  BY <1>2 DEF Kept, AsksApart
<1>5. (\A v \in Callers : AskSound(v))'
  BY <1>1, <1>2, <1>4 DEF Whole, AskSound, Request
<1> QED
  BY <1>2, <1>3, <1>5 DEF Whole, JobSound

LEMMA WholeByRemoveFile ==
    ASSUME Kept, Whole, NEW u \in Callers, RemoveFile(u)
    PROVE  Whole'
<1>1. /\ ask' = [v \in Callers |-> IF v = u THEN NoAsk ELSE ask[v]]
      /\ ask[u].at = "durable"
      /\ DOMAIN files' = DOMAIN files \ {ask[u].file}
      /\ \A g \in DOMAIN files' : files'[g] = files[g]
      /\ db' = db /\ safe' = safe /\ job' = job /\ job.op = "none" /\ blobs' = blobs
  BY DEF Kept, RemoveFile, Ends, Without, Restrict, StoreFree, NoJob
<1>2. ~Lists(db, ask[u].file)
  BY <1>1 DEF Kept, AskMeant, Reserved
<1>3. Sound(db)' /\ Sound(safe)'
  BY <1>1 DEF Whole, Sound, Apart
<1>4. JobSound'
  BY <1>1 DEF JobSound
<1>5. \A v \in Callers : ask[v].at \in {"staged", "importing"} /\ ask[v].id \in DOMAIN db.shelved =>
                            ask[v].file \in DOMAIN files'
  BY <1>1, <1>2 DEF Kept, Listed, AskMeant, Lists
<1>6. (\A v \in Callers : AskSound(v))'
  BY <1>1, <1>5 DEF Whole, AskSound, NoAsk
<1> QED
  BY <1>1, <1>3, <1>4, <1>6 DEF Whole

LEMMA WholeByPowerCut ==
    ASSUME Whole, PowerCut
    PROVE  Whole'
<1>1. /\ ask' = [u \in Callers |-> NoAsk]
      /\ db' = safe /\ safe' = safe /\ files' = files /\ job'.op = "none"
  BY DEF PowerCut, NoJob
<1>2. Sound(db)' /\ Sound(safe)'
  BY <1>1 DEF Whole, Sound, Apart
<1> QED
  BY <1>1, <1>2 DEF Whole, JobSound, AskSound, NoAsk

LEMMA WholeNext ==
    ASSUME Kept, Whole, [Next]_vars
    PROVE  Whole'
<1>1. CASE UNCHANGED vars
  BY <1>1, WholeByQuiet
<1>2. ASSUME NEW u \in Callers, Unarchive(u) PROVE Whole'
  BY <1>2, WholeByStage, WholeByImportWrites, WholeByImportCommits, WholeByRemoveFile, WholeByQuiet DEF Unarchive
<1>3. CASE \/ \E p \in Projects, f \in Files : ArchiveWrites(p, f)
           \/ ArchiveCommits \/ ArchiveFails
  BY <1>3, WholeByArchive
<1>4. CASE PowerCut
  BY <1>4, WholeByPowerCut
<1>5. CASE \/ \E c \in Contents, p \in Projects \cup {NoProject} : UploadWrites(c, p)
           \/ UploadCommits
  BY <1>5, WholeByUploads
<1>6. CASE \E a \in 1..MaxRows :
              DeleteRow(a) \/ Ages(a) \/ SweepRow(a) \/ SweepSkips(a) \/ \E p \in Projects : Link(a, p) \/ Unlink(a, p)
  BY <1>6, WholeByDocuments, WholeByQuiet
<1>7. CASE \/ UploadFails \/ Discards \/ Collects \/ CollectFails \/ SweepFinds
           \/ DumpSnapshots \/ DumpEnds \/ Settle \/ Killed
  BY <1>7, WholeByQuiet
<1> QED
  BY <1>1, <1>2, <1>3, <1>4, <1>5, <1>6, <1>7 DEF Next

-----------------------------------------------------------------------------
(* The databases as Shelf sees them.                                       *)
Read(d, fs) == ListedIn(d, fs) /\ Apart(d)

LEMMA BothRead ==
    ASSUME Kept, Whole
    PROVE  Read(db, files) /\ Read(safe, files)
  BY DEF Kept, Listed, ListedIn, Whole, Sound, Read

LEMMA BothReadNext ==
    ASSUME Kept', Whole'
    PROVE  Read(db', files') /\ Read(safe', files')
  BY DEF Kept, Listed, ListedIn, Whole, Sound, Apart, Read

(* A database that stays is read as before if its listed files stay.       *)
LEMMA ReadSame ==
    ASSUME NEW d, NEW fs, NEW gs, Read(d, fs), Read(d, gs),
           \A i \in DOMAIN d.shelved : gs[d.shelved[i].file] = fs[d.shelved[i].file],
           NEW p \in Projects
    PROVE  Placed(d, gs, p) = Placed(d, fs, p)
  BY PlacedKept DEF Read

(* Listed files are never written again, and go only when nothing lists    *)
(* them.                                                                   *)
LEMMA FilesStay ==
    ASSUME Kept, [Next]_vars
    PROVE  \A d \in {db, safe} : \A i \in DOMAIN d.shelved :
              files'[d.shelved[i].file] = files[d.shelved[i].file]
<1> DEFINE Stay == \A f \in Files \cup DOMAIN files : f \in DOMAIN files /\ (Lists(db, f) \/ Lists(safe, f)) => files'[f] = files[f]
<1>1. CASE files' = files
  BY <1>1
<1>2. ASSUME NEW p \in Projects, NEW f \in Files, ArchiveWrites(p, f) PROVE Stay
  BY <1>2 DEF ArchiveWrites
<1>3. ASSUME ArchiveFails PROVE Stay
  BY <1>3 DEF ArchiveFails, Without, Restrict, Kept, FileApart
<1>4. ASSUME NEW u \in Callers, RemoveFile(u) PROVE Stay
  BY <1>4 DEF RemoveFile, Without, Restrict, Kept, AskMeant, Reserved
<1>5. \/ files' = files
      \/ \E p \in Projects, f \in Files : ArchiveWrites(p, f)
      \/ ArchiveFails
      \/ \E u \in Callers : RemoveFile(u)
  <2>1. CASE UNCHANGED vars
    BY <2>1 DEF vars
  <2>2. ASSUME NEW u \in Callers, Unarchive(u) PROVE files' = files \/ RemoveFile(u)
    BY <2>2 DEF Unarchive, Stage, ImportWrites, ImportRefused, ImportCommits, ImportFails, Checkpoint, CheckpointFails
  <2>3. CASE \/ \E c \in Contents, p \in Projects \cup {NoProject} : UploadWrites(c, p)
             \/ UploadCommits \/ UploadFails \/ Discards
             \/ Collects \/ CollectFails \/ SweepFinds \/ DumpSnapshots \/ DumpEnds
             \/ ArchiveCommits \/ Settle \/ Killed \/ PowerCut
    BY <2>3 DEF UploadWrites, UploadCommits, UploadFails, Discards, Collects, CollectFails, SweepFinds,
                DumpSnapshots, DumpEnds, ArchiveCommits, Settle, Killed, PowerCut
  <2>4. CASE \E a \in 1..MaxRows :
                DeleteRow(a) \/ Ages(a) \/ SweepRow(a) \/ SweepSkips(a) \/ \E p \in Projects : Link(a, p) \/ Unlink(a, p)
    BY <2>4 DEF DeleteRow, Ages, SweepRow, SweepSkips, Link, Unlink
  <2> QED
    BY <2>1, <2>2, <2>3, <2>4 DEF Next
<1>6. files' = files \/ Stay
  BY <1>2, <1>3, <1>4, <1>5
<1>7. \A d \in {db, safe} : \A i \in DOMAIN d.shelved :
         d.shelved[i].file \in DOMAIN files /\ (Lists(db, d.shelved[i].file) \/ Lists(safe, d.shelved[i].file))
  BY DEF Kept, Listed, Lists
<1> QED
  BY <1>6, <1>7

(* A step on the database or the files leaves what settled where it was.   *)
LEMMA SettledStays ==
    ASSUME Kept, Whole, Kept', Whole', [Next]_vars, safe' = safe
    PROVE  (ShelfOf(safe))' = ShelfOf(safe)
<1>1. Read(safe, files) /\ Read(safe, files')
  BY BothRead, BothReadNext
<1>2. \A p \in Projects : Placed(safe, files', p) = Placed(safe, files, p)
  BY <1>1, FilesStay, ReadSame
<1> QED
  BY <1>2, ShelfIsPlaced

LEMMA ShelfStays ==
    ASSUME Kept, Whole, Kept', Whole', [Next]_vars, db' = db
    PROVE  (ShelfOf(db))' = ShelfOf(db)
<1>1. Read(db, files) /\ Read(db, files')
  BY BothRead, BothReadNext
<1>2. \A p \in Projects : Placed(db, files', p) = Placed(db, files, p)
  BY <1>1, FilesStay, ReadSame
<1> QED
  BY <1>2, ShelfIsPlaced

-----------------------------------------------------------------------------
Missing == Named(db) \ blobs

(* Bytes on record go missing in a power cut only.                         *)
LEMMA MissingStays ==
    ASSUME Kept, Whole, [Next]_vars, ~PowerCut
    PROVE  Missing' \subseteq Missing
<1>1. CASE UNCHANGED vars
  BY <1>1 DEF vars, Missing
<1>2. CASE \/ \E c \in Contents, p \in Projects \cup {NoProject} : UploadWrites(c, p)
           \/ UploadFails \/ CollectFails \/ SweepFinds \/ DumpSnapshots \/ DumpEnds
           \/ ArchiveFails \/ Settle \/ Killed
           \/ \E p \in Projects, f \in Files : ArchiveWrites(p, f)
  <2>1. db' = db /\ blobs \subseteq blobs'
    BY <1>2 DEF UploadWrites, UploadFails, CollectFails, SweepFinds, DumpSnapshots, DumpEnds,
                ArchiveFails, Settle, Killed, ArchiveWrites
  <2> QED
    BY <2>1 DEF Missing
<1>3. CASE Discards
  BY <1>3 DEF Discards, Unwanted, Missing
<1>4. CASE Collects
  BY <1>4 DEF Collects, Released, Missing
<1>5. CASE UploadCommits
  <2>1. PICK c \in job.content : db' = Inserted(db, <<c>>, job.project)
    BY <1>5 DEF UploadCommits
  <2>2. c \in blobs /\ blobs' = blobs
    BY <1>5, <2>1 DEF UploadCommits, Whole, JobSound
  <2>3. Named(db') = Named(db) \cup {c}
    BY <1>5, <2>1, UploadGrows DEF UploadCommits
  <2> QED
    BY <2>2, <2>3 DEF Missing
<1>6. CASE \E a \in 1..MaxRows : DeleteRow(a) \/ SweepRow(a)
  <2>1. db'.sha = db.sha /\ db'.rows \subseteq db.rows /\ blobs' = blobs
    BY <1>6 DEF DeleteRow, SweepRow, RowDeleted
  <2> QED
    BY <2>1 DEF Missing, Named
<1>7. CASE \E a \in 1..MaxRows : Ages(a) \/ SweepSkips(a) \/ \E p \in Projects : Link(a, p) \/ Unlink(a, p)
  <2>1. db'.sha = db.sha /\ db'.rows = db.rows /\ blobs' = blobs
    <3>1. CASE \E a \in 1..MaxRows : Ages(a) \/ SweepSkips(a)
      BY <3>1 DEF Ages, SweepSkips
    <3>2. CASE \E a \in 1..MaxRows, p \in Projects : Link(a, p) \/ Unlink(a, p)
      BY <3>2 DEF Link, Unlink, Linked
    <3> QED
      BY <1>7, <3>1, <3>2
  <2> QED
    BY <2>1 DEF Missing, Named
<1>8. CASE ArchiveCommits
  <2>1. db'.sha = db.sha /\ db'.rows = db.rows /\ blobs' = blobs
    BY <1>8 DEF ArchiveCommits, Shelved
  <2> QED
    BY <2>1 DEF Missing, Named
<1>9. ASSUME NEW u \in Callers, Unarchive(u) PROVE Missing' \subseteq Missing
  <2>1. CASE ImportCommits(u)
    <3>1. Named(db') = Named(db) \cup ContentsOf(ask[u].archive)
      BY <2>1, Imported
    <3>2. ContentsOf(ask[u].archive) \subseteq blobs /\ blobs' = blobs
      BY <2>1 DEF ImportCommits, Whole, AskSound
    <3> QED
      BY <3>1, <3>2 DEF Missing
  <2>2. CASE ~ImportCommits(u)
    <3>1. db' = db /\ blobs \subseteq blobs'
      BY <1>9, <2>2 DEF Unarchive, Stage, ImportWrites, ImportRefused, ImportFails,
                        Checkpoint, CheckpointFails, RemoveFile
    <3> QED
      BY <3>1 DEF Missing
  <2> QED
    BY <2>1, <2>2
<1> QED
  BY <1>1, <1>2, <1>3, <1>4, <1>5, <1>6, <1>7, <1>8, <1>9 DEF Next

-----------------------------------------------------------------------------
(* How Shelf sees the steps that move or change what is on it.             *)
AttachStep == \E p \in Projects, c \in Contents : Abstract!Attach(p, c)
DetachStep == \E group \in SUBSET Projects, c \in Contents : Abstract!Detach(group, c)
ArchiveStep == \E p \in Projects : Abstract!Archive(p)
UnarchiveStep == \E p \in Projects : Abstract!Unarchive(p)

(* A step that adds c to what one live project attaches.                   *)
LEMMA Attaches ==
    ASSUME Kept, Whole, Kept', Whole', [Next]_vars, safe' = safe,
           db'.live = db.live, db'.shelved = db.shelved,
           NEW p \in Projects, p \in db.live, NEW c \in Contents,
           Holds(db', p) = Holds(db, p) \cup {c},
           \A q \in Projects : q # p => Holds(db', q) = Holds(db, q)
    PROVE  AttachStep
<1>1. Read(db, files) /\ Read(db', files')
  BY BothRead, BothReadNext
<1>2. ASSUME NEW q \in Projects, q # p PROVE Placed(db', files', q) = Placed(db, files, q)
  BY <1>1, <1>2, FilesStay, PlacedKept DEF Read
<1>3. /\ Placed(db, files, p) = [place |-> "live", holds |-> Holds(db, p)]
      /\ Placed(db', files', p) = [place |-> "live", holds |-> Holds(db, p) \cup {c}]
  BY PlacedLive
<1>4. (ShelfOf(db))' = [ShelfOf(db) EXCEPT ![p] = [place |-> "live", holds |-> ShelfOf(db)[p].holds \cup {c}]]
  BY <1>2, <1>3, ShelfIsPlaced
<1>5. ShelfOf(db)[p].place = "live"
  BY <1>3, ShelfIsPlaced
<1>6. (ShelfOf(safe))' = ShelfOf(safe)
  BY SettledStays
<1> QED
  BY <1>4, <1>5, <1>6 DEF AttachStep, Abstract!Attach

(* A step that removes c from what some live projects attach.              *)
LEMMA Detaches ==
    ASSUME Kept, Whole, Kept', Whole', [Next]_vars, safe' = safe,
           db'.live = db.live, db'.shelved = db.shelved, NEW c \in Contents,
           \A q \in Projects : Holds(db', q) = Holds(db, q) \/ (q \in db.live /\ Holds(db', q) = Holds(db, q) \ {c})
    PROVE  DetachStep
<1> DEFINE G == {q \in Projects : q \in db.live /\ Holds(db', q) = Holds(db, q) \ {c}}
<1>1. Read(db, files) /\ Read(db', files')
  BY BothRead, BothReadNext
<1>2. ASSUME NEW q \in Projects, q \notin G PROVE Placed(db', files', q) = Placed(db, files, q)
  BY <1>1, <1>2, FilesStay, PlacedKept DEF Read
<1>3. ASSUME NEW q \in G
      PROVE  /\ Placed(db, files, q) = [place |-> "live", holds |-> Holds(db, q)]
             /\ Placed(db', files', q) = [place |-> "live", holds |-> Holds(db, q) \ {c}]
  BY <1>3, PlacedLive
<1> HIDE DEF G
<1>4. (ShelfOf(db))' =
         [p \in Projects |->
             IF p \in G THEN [place |-> "live", holds |-> ShelfOf(db)[p].holds \ {c}] ELSE ShelfOf(db)[p]]
  BY <1>2, <1>3, ShelfIsPlaced
<1>5. G \in SUBSET Projects
  BY DEF G
<1>6. \A q \in G : ShelfOf(db)[q].place = "live"
  BY <1>3, <1>5, ShelfIsPlaced
<1>7. (ShelfOf(safe))' = ShelfOf(safe)
  BY SettledStays
<1> QED
  BY <1>4, <1>5, <1>6, <1>7 DEF DetachStep, Abstract!Detach

-----------------------------------------------------------------------------
LEMMA Archives ==
    ASSUME Kept, Whole, Kept', Whole', [Next]_vars, ArchiveCommits
    PROVE  ArchiveStep
<1>1. PICK f \in job.names : db' = Shelved(db, job.project, f)
  BY DEF ArchiveCommits
<1> DEFINE p == job.project
           n == db.given + 1
<1>2. /\ f \in DOMAIN files /\ ContentsOf(files[f]) = Holds(db, p)
      /\ p \in db.live /\ p \in Projects
  BY DEF ArchiveCommits, Whole, JobSound, Kept, FileApart
<1>3. /\ db'.live = db.live \ {p}
      /\ n \in DOMAIN db'.shelved /\ db'.shelved[n].project = p /\ db'.shelved[n].file = f
      /\ \A i \in DOMAIN db.shelved : i \in DOMAIN db'.shelved /\ db'.shelved[i] = db.shelved[i]
      /\ db'.sha = db.sha /\ db'.rows = db.rows /\ db'.links = {l \in db.links : l[2] # p}
      /\ safe' = safe /\ files' = files
  BY <1>1 DEF Kept, Listed, Shelved, ArchiveCommits
<1> HIDE DEF p, n
<1>4. Read(db, files) /\ Read(db', files')
  BY BothRead, BothReadNext
<1>5. ASSUME NEW q \in Projects, q # p PROVE Placed(db', files', q) = Placed(db, files, q)
  <2>1. Holds(db', q) = Holds(db, q)
    BY <1>3, <1>5 DEF Holds
  <2> QED
    BY <1>3, <1>4, <1>5, <2>1, PlacedKept DEF Read
<1>6. Placed(db, files, p) = [place |-> "live", holds |-> Holds(db, p)]
  BY <1>2, PlacedLive
<1>7. Placed(db', files', db'.shelved[n].project) =
         [place |-> "archived", holds |-> ContentsOf(files'[db'.shelved[n].file])]
  <2>1. ListedIn(db', files') /\ Apart(db') /\ n \in DOMAIN db'.shelved
    BY <1>3, <1>4 DEF Read
  <2> QED
    BY <2>1, PlacedListed
<1>8. Placed(db', files', p) = [place |-> "archived", holds |-> Holds(db, p)]
  BY <1>2, <1>3, <1>7
<1>9. (ShelfOf(db))' = [ShelfOf(db) EXCEPT ![p] = [place |-> "archived", holds |-> ShelfOf(db)[p].holds]]
  BY <1>5, <1>6, <1>8, ShelfIsPlaced
<1>10. ShelfOf(db)[p].place = "live"
  BY <1>2, <1>6, ShelfIsPlaced
<1>11. (ShelfOf(safe))' = ShelfOf(safe)
  BY <1>3, SettledStays
<1> QED
  BY <1>2, <1>9, <1>10, <1>11 DEF ArchiveStep, Abstract!Archive, Abstract!Moves

LEMMA Unarchives ==
    ASSUME Kept, Whole, Kept', Whole', [Next]_vars, NEW u \in Callers, ImportCommits(u)
    PROVE  UnarchiveStep
<1> DEFINE p == job.project
           k == ask[u].id
<1>1. /\ k \in DOMAIN db.shelved /\ db.shelved[k].project = p /\ db.shelved[k].file = ask[u].file
      /\ p \notin db.live
      /\ db'.live = db.live \cup {p} /\ DOMAIN db'.shelved = DOMAIN db.shelved \ {k}
      /\ \A i \in DOMAIN db'.shelved : db'.shelved[i] = db.shelved[i]
      /\ Holds(db', p) = ContentsOf(ask[u].archive)
      /\ \A q : q # p => Holds(db', q) = Holds(db, q)
  BY Imported
<1>2. ContentsOf(ask[u].archive) = ContentsOf(files[db.shelved[k].file])
  BY <1>1 DEF ImportCommits, Whole, AskSound
<1>3. safe' = safe /\ files' = files
  BY DEF ImportCommits
<1>4. Read(db, files) /\ Read(db', files')
  BY BothRead, BothReadNext
<1>5. p \in Projects
  BY <1>1, <1>4 DEF Read, Apart
<1> HIDE DEF p, k
<1>6. ASSUME NEW q \in Projects, q # p PROVE Placed(db', files', q) = Placed(db, files, q)
  BY <1>1, <1>3, <1>4, <1>6, PlacedKept DEF Read
<1>7. Placed(db, files, db.shelved[k].project) =
         [place |-> "archived", holds |-> ContentsOf(files[db.shelved[k].file])]
  <2>1. ListedIn(db, files) /\ Apart(db) /\ k \in DOMAIN db.shelved
    BY <1>1, <1>4 DEF Read
  <2> QED
    BY <2>1, PlacedListed
<1>8. Placed(db', files', p) = [place |-> "live", holds |-> Holds(db', p)]
  BY <1>1, PlacedLive
<1>9. (ShelfOf(db))' = [ShelfOf(db) EXCEPT ![p] = [place |-> "live", holds |-> ShelfOf(db)[p].holds]]
  BY <1>1, <1>2, <1>5, <1>6, <1>7, <1>8, ShelfIsPlaced
<1>10. ShelfOf(db)[p].place = "archived"
  BY <1>1, <1>5, <1>7, ShelfIsPlaced
<1>11. (ShelfOf(safe))' = ShelfOf(safe)
  BY <1>3, SettledStays
<1> QED
  BY <1>5, <1>9, <1>10, <1>11 DEF UnarchiveStep, Abstract!Unarchive, Abstract!Moves

(* A row that goes takes its content from the projects that attached it by *)
(* no other row.                                                           *)
LEMMA RowGoes ==
    ASSUME Whole, NEW a \in db.rows, NEW q,
           db'.sha = db.sha, db'.rows = db.rows \ {a}, db'.links = {l \in db.links : l[1] # a}
    PROVE  Holds(db', q) = Holds(db, q) \/ (q \in db.live /\ Holds(db', q) = Holds(db, q) \ {db.sha[a]})
<1> DEFINE A == {b \in db.rows : <<b, q>> \in db.links}
<1>1. {b \in db'.rows : <<b, q>> \in db'.links} = A \ {a}
  OBVIOUS
<1>2. Holds(db', q) = {db.sha[b] : b \in A \ {a}} /\ Holds(db, q) = {db.sha[b] : b \in A}
  <2>1. Holds(db', q) = {db.sha[b] : b \in {b \in db'.rows : <<b, q>> \in db'.links}}
    BY DEF Holds
  <2> QED
    BY <1>1, <2>1 DEF Holds
<1>3. CASE a \notin A
  BY <1>2, <1>3
<1>4. CASE a \in A
  <2>1. q \in db.live
    BY <1>4 DEF Whole, Sound
  <2>2. CASE \E b \in A \ {a} : db.sha[b] = db.sha[a]
    BY <1>2, <2>2
  <2>3. CASE \A b \in A \ {a} : db.sha[b] # db.sha[a]
    BY <1>2, <1>4, <2>1, <2>3
  <2> QED
    BY <2>2, <2>3
<1> QED
  BY <1>3, <1>4

LEMMA LinkComes ==
    ASSUME Whole, NEW a \in db.rows, NEW p,
           db'.sha = db.sha, db'.rows = db.rows, db'.links = db.links \cup {<<a, p>>}
    PROVE  /\ Holds(db', p) = Holds(db, p) \cup {db.sha[a]}
           /\ \A q : q # p => Holds(db', q) = Holds(db, q)
<1> DEFINE A == {b \in db.rows : <<b, p>> \in db.links}
<1>1. {b \in db'.rows : <<b, p>> \in db'.links} = A \cup {a}
  OBVIOUS
<1>2. Holds(db', p) = Holds(db, p) \cup {db.sha[a]}
  <2>1. Holds(db', p) = {db.sha[b] : b \in A \cup {a}} /\ Holds(db, p) = {db.sha[b] : b \in A}
    BY <1>1 DEF Holds
  <2> HIDE DEF A
  <2>2. {db.sha[b] : b \in A \cup {a}} = {db.sha[b] : b \in A} \cup {db.sha[a]}
    OBVIOUS
  <2> QED
    BY <2>1, <2>2
<1>3. ASSUME NEW q, q # p PROVE Holds(db', q) = Holds(db, q)
  <2>1. {b \in db'.rows : <<b, q>> \in db'.links} = {b \in db.rows : <<b, q>> \in db.links}
    BY <1>3
  <2> QED
    BY <2>1 DEF Holds
<1> QED
  BY <1>2, <1>3

LEMMA LinkGoes ==
    ASSUME Whole, NEW a \in db.rows, NEW p, <<a, p>> \in db.links,
           db'.sha = db.sha, db'.rows = db.rows, db'.links = db.links \ {<<a, p>>}, NEW q
    PROVE  Holds(db', q) = Holds(db, q) \/ (q \in db.live /\ Holds(db', q) = Holds(db, q) \ {db.sha[a]})
<1> DEFINE A == {b \in db.rows : <<b, q>> \in db.links}
<1>1. {b \in db'.rows : <<b, q>> \in db'.links} = IF q = p THEN A \ {a} ELSE A
  OBVIOUS
<1>2. CASE q # p
  BY <1>1, <1>2 DEF Holds
<1>3. CASE q = p
  <2>1. Holds(db', q) = {db.sha[b] : b \in A \ {a}} /\ Holds(db, q) = {db.sha[b] : b \in A}
    BY <1>1, <1>3 DEF Holds
  <2>2. q \in db.live /\ a \in A
    BY <1>3 DEF Whole, Sound
  <2>3. CASE \E b \in A \ {a} : db.sha[b] = db.sha[a]
    BY <2>1, <2>3
  <2>4. CASE \A b \in A \ {a} : db.sha[b] # db.sha[a]
    BY <2>1, <2>2, <2>4
  <2> QED
    BY <2>3, <2>4
<1> QED
  BY <1>2, <1>3

-----------------------------------------------------------------------------
(* Uploads, links and deletions, as Shelf sees them.                       *)
LEMMA DocumentStep ==
    ASSUME Kept, Whole, Kept', Whole', [Next]_vars,
           \/ UploadCommits
           \/ \E a \in 1..MaxRows : DeleteRow(a) \/ SweepRow(a) \/ \E p \in Projects : Link(a, p) \/ Unlink(a, p)
    PROVE  AttachStep \/ DetachStep \/ UNCHANGED <<ShelfOf(db), ShelfOf(safe)>>
<1>1. CASE UploadCommits
  <2>1. PICK c \in job.content : db' = Inserted(db, <<c>>, job.project)
    BY <1>1 DEF UploadCommits
  <2>2. /\ c \in Contents /\ safe' = safe /\ job.op = "upload"
        /\ job.project = NoProject \/ job.project \in db.live \cap Projects
    BY <1>1, <2>1 DEF UploadCommits, Whole, JobSound
  <2>3. db'.live = db.live /\ db'.shelved = db.shelved
    BY <2>1 DEF Inserted
  <2>4. /\ job.project # NoProject => Holds(db', job.project) = Holds(db, job.project) \cup {c}
        /\ \A q : q # job.project \/ q = NoProject => Holds(db', q) = Holds(db, q)
    BY <2>1, <2>2, UploadGrows
  <2>5. CASE job.project # NoProject
    BY <2>2, <2>3, <2>4, <2>5, Attaches
  <2>6. CASE job.project = NoProject
    <3>1. \A q \in Projects : Holds(db', q) = Holds(db, q)
      BY <2>4, <2>6
    <3>2. Read(db, files) /\ Read(db', files')
      BY BothRead, BothReadNext
    <3>3. \A q \in Projects : Placed(db', files', q) = Placed(db, files, q)
      BY <2>3, <3>1, <3>2, FilesStay, PlacedKept DEF Read
    <3> QED
      BY <2>2, <3>3, SettledStays, ShelfIsPlaced
  <2> QED
    BY <2>5, <2>6
<1>2. ASSUME NEW a \in 1..MaxRows, DeleteRow(a) \/ SweepRow(a)
      PROVE  DetachStep
  <2>1. /\ a \in DOMAIN db.sha
        /\ db'.live = db.live /\ db'.shelved = db.shelved /\ db'.sha = db.sha
        /\ db'.rows = db.rows \ {a} /\ db'.links = {l \in db.links : l[1] # a}
        /\ safe' = safe
    BY <1>2 DEF DeleteRow, SweepRow, StillOrphan, RowDeleted, Whole, Sound
  <2>2. db.sha[a] \in Contents
    BY <2>1 DEF Whole, Sound
  <2>3. \A q \in Projects : Holds(db', q) = Holds(db, q) \/ (q \in db.live /\ Holds(db', q) = Holds(db, q) \ {db.sha[a]})
    <3>1. CASE a \in db.rows
      BY <2>1, <3>1, RowGoes
    <3>2. CASE a \notin db.rows
      <4>1. \A l \in db.links : l[1] # a
        BY <3>2 DEF Whole, Sound
      <4>2. db'.rows = db.rows /\ db'.links = db.links
        BY <2>1, <3>2, <4>1
      <4> QED
        BY <2>1, <4>2 DEF Holds
    <3> QED
      BY <3>1, <3>2
  <2> QED
    BY <2>1, <2>2, <2>3, Detaches
<1>3. ASSUME NEW a \in 1..MaxRows, NEW p \in Projects, Link(a, p)
      PROVE  AttachStep
  <2>1. /\ a \in db.rows /\ p \in db.live
        /\ db'.live = db.live /\ db'.shelved = db.shelved /\ db'.sha = db.sha
        /\ db'.rows = db.rows /\ db'.links = db.links \cup {<<a, p>>}
        /\ safe' = safe
    BY <1>3 DEF Link, Linked
  <2>2. db.sha[a] \in Contents
    BY <2>1 DEF Whole, Sound
  <2>3. /\ Holds(db', p) = Holds(db, p) \cup {db.sha[a]}
        /\ \A q : q # p => Holds(db', q) = Holds(db, q)
    BY <2>1, LinkComes
  <2> QED
    BY <2>1, <2>2, <2>3, Attaches
<1>4. ASSUME NEW a \in 1..MaxRows, NEW p \in Projects, Unlink(a, p)
      PROVE  DetachStep
  <2>1. /\ <<a, p>> \in db.links /\ a \in db.rows
        /\ db'.live = db.live /\ db'.shelved = db.shelved /\ db'.sha = db.sha
        /\ db'.rows = db.rows /\ db'.links = db.links \ {<<a, p>>}
        /\ safe' = safe
    BY <1>4 DEF Unlink, Linked, Whole, Sound
  <2>2. db.sha[a] \in Contents
    BY <2>1 DEF Whole, Sound
  <2>3. \A q \in Projects : Holds(db', q) = Holds(db, q) \/ (q \in db.live /\ Holds(db', q) = Holds(db, q) \ {db.sha[a]})
    BY <2>1, LinkGoes
  <2> QED
    BY <2>1, <2>2, <2>3, Detaches
<1> QED
  BY <1>1, <1>2, <1>3, <1>4

(* Every step is a step of Shelf or leaves it alone.                       *)
LEMMA ShelfSteps ==
    ASSUME Kept, Whole, Kept', Whole', [Next]_vars, ~PowerCut
    PROVE  \/ UNCHANGED <<ShelfOf(db), ShelfOf(safe)>>
           \/ Abstract!Settle
           \/ ArchiveStep \/ UnarchiveStep \/ AttachStep \/ DetachStep
<1>1. CASE db' = db /\ safe' = safe
  BY <1>1, ShelfStays, SettledStays
<1>2. CASE db' = db /\ safe' = db
  <2>1. (ShelfOf(safe))' = (ShelfOf(db))'
    BY <1>2, ShelfIsPlaced
  <2> QED
    BY <1>2, <2>1, ShelfStays DEF Abstract!Settle
<1>3. CASE ArchiveCommits
  BY <1>3, Archives
<1>4. CASE \E u \in Callers : ImportCommits(u)
  BY <1>4, Unarchives
<1>5. CASE \/ UploadCommits
           \/ \E a \in 1..MaxRows : DeleteRow(a) \/ SweepRow(a) \/ \E p \in Projects : Link(a, p) \/ Unlink(a, p)
  BY <1>5, DocumentStep
<1>6. CASE UNCHANGED vars
  BY <1>1, <1>6 DEF vars
<1>7. CASE \/ \E c \in Contents, p \in Projects \cup {NoProject} : UploadWrites(c, p)
           \/ UploadFails \/ Discards \/ Collects \/ CollectFails \/ SweepFinds \/ DumpSnapshots \/ DumpEnds
           \/ ArchiveFails \/ Killed
           \/ \E p \in Projects, f \in Files : ArchiveWrites(p, f)
           \/ \E a \in 1..MaxRows : Ages(a) \/ SweepSkips(a)
  BY <1>1, <1>7 DEF UploadWrites, UploadFails, Discards, Collects, CollectFails, SweepFinds, DumpSnapshots,
                    DumpEnds, ArchiveFails, Killed, ArchiveWrites, Ages, SweepSkips
<1>8. CASE Settle
  BY <1>2, <1>8 DEF Settle
<1>9. ASSUME NEW u \in Callers, Unarchive(u) PROVE ImportCommits(u) \/ (db' = db /\ safe' \in {safe, db})
  BY <1>9 DEF Unarchive, Stage, ImportWrites, ImportRefused, ImportFails, Checkpoint, Durable, CheckpointFails, RemoveFile
<1> QED
  BY <1>1, <1>2, <1>3, <1>4, <1>5, <1>6, <1>7, <1>8, <1>9 DEF Next

(* Whatever its jobs do to database and disk, whatever fails, dies or      *)
(* loses power: the instance keeps the promise of Shelf about its          *)
(* projects.                                                               *)
THEOREM ShelfIsKept == Spec => ShelfKept
<1>1. Init => Abstract!Init
  <2> SUFFICES ASSUME Init PROVE Abstract!Init
    OBVIOUS
  <2>1. /\ db.live = Projects /\ db.rows = {} /\ safe = db
    BY DEF Init
  <2>2. \A p \in Projects : Placed(db, files, p) = [place |-> "live", holds |-> {}]
    BY <2>1, PlacedLive DEF Holds
  <2>3. Named(db) = {}
    BY <2>1 DEF Named
  <2> QED
    BY <2>1, <2>2, <2>3, ShelfIsPlaced DEF Abstract!Init
<1>2. ASSUME Kept, Whole, Kept', Whole', [Next]_vars
      PROVE  [Abstract!Next]_(Abstract!vars)
  <2>1. CASE ~PowerCut
    <3>1. Missing' \subseteq Missing
      BY <1>2, <2>1, MissingStays
    <3>2. \/ UNCHANGED <<ShelfOf(db), ShelfOf(safe)>>
          \/ Abstract!Settle
          \/ ArchiveStep \/ UnarchiveStep \/ AttachStep \/ DetachStep
      BY <1>2, <2>1, ShelfSteps
    <3> QED
      BY <3>1, <3>2 DEF Abstract!Next, Missing, ArchiveStep, UnarchiveStep, AttachStep, DetachStep
  <2>2. CASE PowerCut
    <3>1. db' = safe /\ safe' = safe /\ files' = files
      BY <2>2 DEF PowerCut
    <3>2. (ShelfOf(db))' = ShelfOf(safe) /\ (ShelfOf(safe))' = ShelfOf(safe)
      BY <3>1, ShelfIsPlaced
    <3>3. Missing' \subseteq Contents
      BY <1>2, <3>1 DEF Missing, Named, Whole, Sound
    <3> QED
      BY <3>2, <3>3 DEF Abstract!Next, Abstract!PowerCut, Missing
  <2> QED
    BY <2>1, <2>2
<1> QED
  BY <1>1, <1>2, KeptInit, KeptNext, WholeInit, WholeNext, PTL DEF Spec, ShelfKept, Abstract!Spec

-----------------------------------------------------------------------------
(* The types, within the bounds on rows and listings.                      *)
Rowed(d) ==
    /\ d.live \subseteq Projects
    /\ d.given \in 0..MaxArchives
    /\ DOMAIN d.shelved \subseteq 1..d.given
    /\ \A i \in DOMAIN d.shelved : d.shelved[i] \in Listings
    /\ Len(d.sha) <= MaxRows

FilesTyped == DOMAIN files \subseteq Files /\ \A f \in DOMAIN files : IsArchive(files[f])

Held ==
    /\ blobs \subseteq Contents
    /\ old \subseteq 1..MaxRows /\ sweep \subseteq 1..MaxRows
    /\ dump \in [names : SUBSET Files, bytes : SUBSET Contents, on : BOOLEAN]

JobTyped ==
    job \in [op : {"none", "upload", "discard", "delete", "sweep", "archive", "import"},
             project : Projects \cup {NoProject}, content : SUBSET Contents,
             fresh : SUBSET Contents, names : SUBSET Files]

AskTyped(u) ==
    \/ ask[u] = NoAsk
    \/ /\ ask[u].at \in {"staged", "importing", "imported", "durable"}
       /\ ask[u].id \in 1..MaxArchives /\ ask[u].file \in Files /\ IsArchive(ask[u].archive)

(* What a job will insert fits.                                            *)
Room ==
    /\ job.op = "upload" => Len(db.sha) < MaxRows
    /\ job.op = "archive" => db.given < MaxArchives
    /\ \A u \in Callers : ask[u].at = "importing" => Len(db.sha) + Len(ask[u].archive.holds) <= MaxRows

Shapes ==
    /\ Rowed(db) /\ Rowed(safe) /\ FilesTyped /\ Held /\ JobTyped
    /\ \A u \in Callers : AskTyped(u)
    /\ Room

LEMMA ShapesInit == Init => Shapes
<1> SUFFICES ASSUME Init PROVE Shapes
  OBVIOUS
<1>1. Rowed(db) /\ Rowed(safe)
  BY DataAssumption DEF Init, Rowed
<1>2. FilesTyped /\ Held /\ JobTyped
  BY DEF Init, FilesTyped, Held, JobTyped, NoJob, NoDump
<1>3. (\A u \in Callers : AskTyped(u)) /\ Room
  BY DEF Init, AskTyped, Room, NoAsk, NoJob
<1> QED
  BY <1>1, <1>2, <1>3 DEF Shapes

(* A step that inserts nothing and leaves files and requests alone.        *)
LEMMA ShapesAside ==
    ASSUME Shapes,
           db'.live = db.live, db'.given = db.given, db'.shelved = db.shelved, db'.sha = db.sha,
           safe' \in {safe, db}, files' = files, ask' = ask, Held', JobTyped',
           job' = job \/ job'.op \notin {"upload", "archive"}
    PROVE  Shapes'
<1>1. Rowed(db)' /\ Rowed(safe)'
  BY DEF Shapes, Rowed
<1>2. FilesTyped' /\ (\A u \in Callers : AskTyped(u))'
  BY DEF Shapes, FilesTyped, AskTyped
<1>3. Room'
  BY DEF Shapes, Room
<1> QED
  BY <1>1, <1>2, <1>3 DEF Shapes

LEMMA ShapesByQuiet ==
    ASSUME Kept, Whole, Shapes,
           \/ UploadFails \/ Discards \/ Collects \/ CollectFails \/ SweepFinds
           \/ DumpSnapshots \/ DumpEnds \/ Settle \/ UNCHANGED vars
           \/ \E a \in 1..MaxRows :
                 DeleteRow(a) \/ Ages(a) \/ SweepRow(a) \/ SweepSkips(a) \/ \E p \in Projects : Link(a, p) \/ Unlink(a, p)
    PROVE  Shapes'
<1> USE DEF Starts, Done, NoJob
<1>1. Held /\ JobTyped
  BY DEF Shapes
<1>2. db.sha \in Seq(Contents) /\ db.rows \subseteq DOMAIN db.sha /\ db.rows \subseteq 1..MaxRows
  <2>1. db.sha \in Seq(Contents) /\ db.rows \subseteq DOMAIN db.sha /\ Len(db.sha) <= MaxRows
    BY DEF Whole, Sound, Shapes, Rowed
  <2>2. DOMAIN db.sha = 1..Len(db.sha) /\ Len(db.sha) \in Nat
    BY <2>1
  <2> QED
    BY <2>1, <2>2, DataAssumption
<1>3. Named(db) \subseteq Contents
  BY <1>2 DEF Named
<1>4. NoDump \in [names : SUBSET Files, bytes : SUBSET Contents, on : BOOLEAN]
  BY DEF NoDump
<1>5. CASE UploadFails
  <2>1. Held' /\ JobTyped'
    BY <1>1, <1>5 DEF UploadFails, Held, JobTyped
  <2> QED
    BY <1>5, <2>1, ShapesAside DEF UploadFails
<1>6. CASE Discards
  <2>1. Held' /\ JobTyped'
    BY <1>1, <1>6 DEF Discards, Held, JobTyped
  <2> QED
    BY <1>6, <2>1, ShapesAside DEF Discards
<1>7. CASE Collects \/ CollectFails
  <2>1. Held'
    BY <1>1, <1>7 DEF Collects, CollectFails, Held
  <2>2. JobTyped'
    BY <1>7 DEF Collects, CollectFails, JobTyped
  <2> QED
    BY <1>7, <2>1, <2>2, ShapesAside DEF Collects, CollectFails
<1>8. CASE SweepFinds
  <2>1. Held' /\ JobTyped'
    BY <1>1, <1>2, <1>8 DEF SweepFinds, Orphans, Held, JobTyped
  <2> QED
    BY <1>8, <2>1, ShapesAside DEF SweepFinds
<1>9. CASE DumpSnapshots
  <2>1. {db.shelved[i].file : i \in DOMAIN db.shelved} \subseteq Files
    BY DEF Shapes, Rowed, Listings
  <2>2. dump' \in [names : SUBSET Files, bytes : SUBSET Contents, on : BOOLEAN]
    BY <1>3, <1>9, <2>1 DEF DumpSnapshots
  <2>3. Held' /\ JobTyped'
    BY <1>1, <1>9, <2>2 DEF DumpSnapshots, Held, JobTyped
  <2> QED
    BY <1>9, <2>3, ShapesAside DEF DumpSnapshots
<1>10. CASE DumpEnds \/ Settle \/ UNCHANGED vars
  <2>1. Held' /\ JobTyped'
    BY <1>1, <1>4, <1>10 DEF DumpEnds, Settle, vars, Held, JobTyped
  <2> QED
    BY <1>10, <2>1, ShapesAside DEF DumpEnds, Settle, vars
<1>11. ASSUME NEW a \in 1..MaxRows, DeleteRow(a) \/ SweepRow(a) PROVE Shapes'
  <2>1. a \in DOMAIN db.sha
    BY <1>2, <1>11 DEF DeleteRow, SweepRow, StillOrphan
  <2>2. db.sha[a] \in Contents
    BY <1>2, <2>1
  <2>3. Held'
    BY <1>1, <1>11 DEF DeleteRow, SweepRow, Held
  <2>4. JobTyped'
    BY <1>11, <2>2 DEF DeleteRow, SweepRow, JobTyped
  <2> QED
    BY <1>11, <2>3, <2>4, ShapesAside DEF DeleteRow, SweepRow, RowDeleted
<1>12. ASSUME NEW a \in 1..MaxRows, Ages(a) \/ SweepSkips(a) PROVE Shapes'
  <2>1. Held' /\ JobTyped'
    BY <1>1, <1>12 DEF Ages, SweepSkips, Held, JobTyped
  <2> QED
    BY <1>12, <2>1, ShapesAside DEF Ages, SweepSkips
<1>13. ASSUME NEW a \in 1..MaxRows, NEW p \in Projects, Link(a, p) \/ Unlink(a, p) PROVE Shapes'
  <2>1. Held' /\ JobTyped'
    BY <1>1, <1>13 DEF Link, Unlink, Held, JobTyped
  <2> QED
    BY <1>13, <2>1, ShapesAside DEF Link, Unlink, Linked
<1> QED
  BY <1>5, <1>6, <1>7, <1>8, <1>9, <1>10, <1>11, <1>12, <1>13

LEMMA NoneImports ==
    ASSUME Kept, job.op # "import", NEW u \in Callers
    PROVE  ask[u].at # "importing"
BY DEF Kept, AskMeant

LEMMA ShapesByUploads ==
    ASSUME Kept, Whole, Shapes,
           UploadCommits \/ \E c \in Contents, p \in Projects \cup {NoProject} : UploadWrites(c, p)
    PROVE  Shapes'
<1>1. ASSUME NEW c \in Contents, NEW p \in Projects \cup {NoProject}, UploadWrites(c, p) PROVE Shapes'
  <2>1. /\ db' = db /\ safe' = safe /\ files' = files /\ ask' = ask /\ job.op = "none"
        /\ Len(db.sha) < MaxRows /\ job'.op = "upload"
    BY <1>1 DEF UploadWrites, Starts, StoreFree, NoJob
  <2>2. JobTyped'
    BY <1>1 DEF UploadWrites, Starts, JobTyped
  <2>3. Held'
    BY <1>1 DEF UploadWrites, Shapes, Held
  <2>4. Rowed(db)' /\ Rowed(safe)' /\ FilesTyped' /\ (\A u \in Callers : AskTyped(u))'
    BY <2>1 DEF Shapes, Rowed, FilesTyped, AskTyped
  <2>5. Room'
    BY <2>1, NoneImports DEF Room
  <2> QED
    BY <2>2, <2>3, <2>4, <2>5 DEF Shapes
<1>2. CASE UploadCommits
  <2>1. PICK c \in job.content : db' = Inserted(db, <<c>>, job.project)
    BY <1>2 DEF UploadCommits
  <2>2. /\ safe' = safe /\ files' = files /\ ask' = ask /\ job.op = "upload" /\ job' = NoJob
        /\ blobs' = blobs /\ old' \subseteq old /\ sweep' = sweep /\ dump' = dump
    BY <1>2 DEF UploadCommits, Done
  <2>3. /\ db'.live = db.live /\ db'.given = db.given /\ db'.shelved = db.shelved
        /\ db'.sha = db.sha \o <<c>>
    BY <2>1 DEF Inserted
  <2>4. Len(db'.sha) <= MaxRows
    <3>1. db.sha \in Seq(Contents) /\ <<c>> \in Seq(Contents) /\ Len(<<c>>) = 1
      BY <2>2 DEF Whole, Sound, JobSound
    <3>2. Len(db.sha \o <<c>>) = Len(db.sha) + 1
      BY <3>1, ConcatProperties
    <3>3. Len(db.sha) < MaxRows
      BY <2>2 DEF Shapes, Room
    <3>4. Len(db.sha) \in Nat
      BY <3>1
    <3> QED
      BY <2>3, <3>2, <3>3, <3>4, DataAssumption
  <2>5. Rowed(db)' /\ Rowed(safe)' /\ FilesTyped' /\ (\A u \in Callers : AskTyped(u))'
    BY <2>2, <2>3, <2>4 DEF Shapes, Rowed, FilesTyped, AskTyped
  <2>6. Held' /\ JobTyped'
    BY <2>2 DEF Shapes, Held, JobTyped, NoJob
  <2>7. Room'
    BY <2>2, NoneImports DEF Room, NoJob
  <2> QED
    BY <2>5, <2>6, <2>7 DEF Shapes
<1> QED
  BY <1>1, <1>2

LEMMA ShapesByArchive ==
    ASSUME Kept, Whole, Shapes, Whole',
           ArchiveCommits \/ ArchiveFails \/ \E p \in Projects, f \in Files : ArchiveWrites(p, f)
    PROVE  Shapes'
<1>1. ASSUME NEW p \in Projects, NEW f \in Files, ArchiveWrites(p, f) PROVE Shapes'
  <2>1. /\ db' = db /\ safe' = safe /\ ask' = ask /\ job.op = "none"
        /\ db.given < MaxArchives /\ job'.op = "archive"
        /\ blobs' = blobs /\ old' = old /\ sweep' = sweep /\ dump' = dump
    BY <1>1 DEF ArchiveWrites, Starts, StoreFree, NoJob
  <2>2. JobTyped'
    BY <1>1 DEF ArchiveWrites, Starts, JobTyped
  <2>3. /\ DOMAIN files' = DOMAIN files \cup {f} /\ files'[f].project = p
        /\ \A g \in DOMAIN files : g # f => files'[g] = files[g]
    BY <1>1 DEF ArchiveWrites
  <2>4. \A g \in DOMAIN files' : files'[g].holds \in Seq(Contents)
    BY DEF Whole
  <2>5. FilesTyped'
    BY <2>3, <2>4 DEF Shapes, FilesTyped, IsArchive
  <2>6. Rowed(db)' /\ Rowed(safe)' /\ (\A u \in Callers : AskTyped(u))' /\ Held'
    BY <2>1 DEF Shapes, Rowed, AskTyped, Held
  <2>7. Room'
    BY <2>1, NoneImports DEF Room
  <2> QED
    BY <2>2, <2>5, <2>6, <2>7 DEF Shapes
<1>2. CASE ArchiveCommits
  <2>1. PICK f \in job.names : db' = Shelved(db, job.project, f)
    BY <1>2 DEF ArchiveCommits
  <2>2. /\ safe' = safe /\ files' = files /\ ask' = ask /\ job.op = "archive" /\ job' = NoJob
        /\ blobs' = blobs /\ old' = old /\ sweep' = sweep /\ dump' = dump
    BY <1>2 DEF ArchiveCommits, Done
  <2>3. f \in Files /\ job.project \in Projects /\ db.given < MaxArchives /\ db.given \in 0..MaxArchives
    BY <2>1, <2>2 DEF Shapes, JobTyped, Room, Whole, JobSound, Rowed
  <2>4. /\ db'.live = db.live \ {job.project} /\ db'.given = db.given + 1 /\ db'.sha = db.sha
        /\ DOMAIN db'.shelved = DOMAIN db.shelved \cup {db.given + 1}
        /\ \A i \in DOMAIN db'.shelved :
              db'.shelved[i] = IF i = db.given + 1 THEN [project |-> job.project, file |-> f] ELSE db.shelved[i]
    BY <2>1 DEF Shelved
  <2>5. Rowed(db)'
    <3>1. db'.live \subseteq Projects /\ db'.given \in 0..MaxArchives /\ Len(db'.sha) <= MaxRows
      BY <2>3, <2>4, DataAssumption DEF Shapes, Rowed
    <3>2. DOMAIN db'.shelved \subseteq 1..db'.given
      BY <2>3, <2>4 DEF Shapes, Rowed
    <3>3. \A i \in DOMAIN db'.shelved : db'.shelved[i] \in Listings
      BY <2>3, <2>4 DEF Shapes, Rowed, Listings
    <3> QED
      BY <3>1, <3>2, <3>3 DEF Rowed
  <2>6. Rowed(safe)' /\ FilesTyped' /\ (\A u \in Callers : AskTyped(u))' /\ Held' /\ JobTyped'
    BY <2>2 DEF Shapes, Rowed, FilesTyped, AskTyped, Held, JobTyped, NoJob
  <2>7. Room'
    BY <2>2, NoneImports DEF Room, NoJob
  <2> QED
    BY <2>5, <2>6, <2>7 DEF Shapes
<1>3. CASE ArchiveFails
  <2>1. /\ db' = db /\ safe' = safe /\ ask' = ask /\ job.op = "archive" /\ job' = NoJob
        /\ blobs' = blobs /\ old' = old /\ sweep' = sweep /\ dump' = dump
        /\ files' = Without(files, job.names)
    BY <1>3 DEF ArchiveFails, Done
  <2>2. FilesTyped'
    BY <2>1 DEF Without, Restrict, Shapes, FilesTyped, IsArchive
  <2>3. Rowed(db)' /\ Rowed(safe)' /\ (\A u \in Callers : AskTyped(u))' /\ Held' /\ JobTyped'
    BY <2>1 DEF Shapes, Rowed, AskTyped, Held, JobTyped, NoJob
  <2>4. Room'
    BY <2>1, NoneImports DEF Room, NoJob
  <2> QED
    BY <2>2, <2>3, <2>4 DEF Shapes
<1> QED
  BY <1>1, <1>2, <1>3

(* A request ends or goes on, and the database is not written.             *)
LEMMA ShapesByAsk ==
    ASSUME Kept, Shapes, NEW u \in Callers,
           db' = db, safe' \in {safe, db}, FilesTyped', Held', JobTyped',
           job' = job \/ job'.op \notin {"upload", "archive"},
           \A v \in Callers : v # u => ask'[v] = ask[v],
           AskTyped(u)',
           ask'[u].at = "importing" => Len(db.sha) + Len(ask'[u].archive.holds) <= MaxRows
    PROVE  Shapes'
<1>1. Rowed(db)' /\ Rowed(safe)'
  BY DEF Shapes, Rowed
<1>2. (\A v \in Callers : AskTyped(v))'
  BY DEF Shapes, AskTyped
<1>3. Room'
  BY DEF Shapes, Room
<1> QED
  BY <1>1, <1>2, <1>3 DEF Shapes

LEMMA ShapesByUnarchive ==
    ASSUME Kept, Whole, Shapes, NEW u \in Callers, Unarchive(u)
    PROVE  Shapes'
<1> USE DEF Starts, Done, NoJob, Goes, Ends, Request
<1>1. ask = [v \in Callers |-> ask[v]]
  BY DEF Kept
<1>2. FilesTyped /\ Held /\ JobTyped /\ AskTyped(u)
  BY DEF Shapes
<1>3. ASSUME NEW id \in 1..MaxArchives, Stage(u, id) PROVE Shapes'
  <2>1. PICK f \in DOMAIN files : ask' = [ask EXCEPT ![u] = Request("staged", id, f, files[f])]
    BY <1>3 DEF Stage
  <2>2. /\ ask'[u].at = "staged" /\ ask'[u].id = id /\ ask'[u].file = f /\ ask'[u].archive = files[f]
        /\ \A v \in Callers : v # u => ask'[v] = ask[v]
    BY <1>1, <2>1
  <2>3. AskTyped(u)'
    BY <1>2, <2>2 DEF AskTyped, FilesTyped, IsArchive
  <2>4. FilesTyped' /\ Held' /\ JobTyped'
    BY <1>2, <1>3 DEF Stage, FilesTyped, Held, JobTyped
  <2> QED
    BY <1>3, <2>2, <2>3, <2>4, ShapesByAsk DEF Stage
<1>4. CASE ImportWrites(u)
  <2>1. /\ ask'[u].at = "importing" /\ ask'[u].id = ask[u].id /\ ask'[u].file = ask[u].file
        /\ ask'[u].archive = ask[u].archive /\ ask[u].at = "staged"
        /\ \A v \in Callers : v # u => ask'[v] = ask[v]
    BY <1>1, <1>4 DEF ImportWrites
  <2>2. IsArchive(ask[u].archive) /\ AskTyped(u)'
    BY <1>2, <2>1 DEF AskTyped, NoAsk, IsArchive
  <2>3. {ask[u].archive.holds[i] : i \in DOMAIN ask[u].archive.holds} \subseteq Contents
    BY <2>2 DEF IsArchive
  <2>4. FilesTyped' /\ Held' /\ JobTyped'
    <3>1. FilesTyped' /\ Held'
      BY <1>2, <1>4, <2>3 DEF ImportWrites, FilesTyped, Held
    <3>2. JobTyped'
      BY <1>4, <2>2, <2>3 DEF ImportWrites, JobTyped, IsArchive
    <3> QED
      BY <3>1, <3>2
  <2>5. Len(db.sha) + Len(ask'[u].archive.holds) <= MaxRows
    BY <1>4, <2>1 DEF ImportWrites
  <2>6. db' = db /\ safe' = safe /\ job'.op = "import"
    BY <1>4 DEF ImportWrites
  <2> QED
    BY <2>1, <2>2, <2>4, <2>5, <2>6, ShapesByAsk
<1>5. CASE ImportRefused(u) \/ ImportFails(u) \/ CheckpointFails(u)
  <2>1. ask'[u] = NoAsk /\ \A v \in Callers : v # u => ask'[v] = ask[v]
    BY <1>1, <1>5 DEF ImportRefused, ImportFails, CheckpointFails
  <2>2. FilesTyped' /\ Held' /\ JobTyped'
    <3>1. FilesTyped'
      BY <1>2, <1>5 DEF ImportRefused, ImportFails, CheckpointFails, FilesTyped
    <3>2. Held'
      BY <1>2, <1>5 DEF ImportRefused, ImportFails, CheckpointFails, Held
    <3>3. JobTyped'
      BY <1>2, <1>5 DEF ImportRefused, ImportFails, CheckpointFails, JobTyped
    <3> QED
      BY <3>1, <3>2, <3>3
  <2>3. /\ db' = db /\ safe' = safe
        /\ job' = job \/ job'.op = "discard"
    BY <1>5 DEF ImportRefused, ImportFails, CheckpointFails
  <2>4. AskTyped(u)' /\ ask'[u].at # "importing"
    BY <2>1 DEF AskTyped, NoAsk
  <2> QED
    BY <2>1, <2>2, <2>3, <2>4, ShapesByAsk
<1>6. CASE Checkpoint(u)
  <2>1. /\ ask'[u].at = "durable" /\ ask'[u].id = ask[u].id /\ ask'[u].file = ask[u].file
        /\ ask'[u].archive = ask[u].archive /\ ask[u].at = "imported"
        /\ \A v \in Callers : v # u => ask'[v] = ask[v]
    BY <1>1, <1>6 DEF Checkpoint
  <2>2. AskTyped(u)'
    BY <1>2, <2>1 DEF AskTyped, NoAsk, IsArchive
  <2>3. FilesTyped' /\ Held' /\ JobTyped'
    BY <1>2, <1>6 DEF Checkpoint, FilesTyped, Held, JobTyped
  <2>4. db' = db /\ safe' = db /\ job' = job
    BY <1>6 DEF Checkpoint, Durable
  <2> QED
    BY <2>1, <2>2, <2>3, <2>4, ShapesByAsk
<1>7. CASE RemoveFile(u)
  <2>1. ask'[u] = NoAsk /\ \A v \in Callers : v # u => ask'[v] = ask[v]
    BY <1>1, <1>7 DEF RemoveFile
  <2>2. FilesTyped'
    BY <1>2, <1>7 DEF RemoveFile, Without, Restrict, FilesTyped, IsArchive
  <2>3. Held' /\ JobTyped'
    BY <1>2, <1>7 DEF RemoveFile, Held, JobTyped
  <2>4. AskTyped(u)' /\ ask'[u].at # "importing"
    BY <2>1 DEF AskTyped, NoAsk
  <2>5. db' = db /\ safe' = safe /\ job' = job
    BY <1>7 DEF RemoveFile
  <2> QED
    BY <2>1, <2>2, <2>3, <2>4, <2>5, ShapesByAsk
<1>8. CASE ImportCommits(u)
  <2> DEFINE s == ask[u].archive.holds
  <2>1. /\ ask'[u].at = "imported" /\ ask'[u].id = ask[u].id /\ ask'[u].file = ask[u].file
        /\ ask'[u].archive = ask[u].archive /\ ask[u].at = "importing"
        /\ \A v \in Callers : v # u => ask'[v] = ask[v]
    BY <1>1, <1>8 DEF ImportCommits
  <2>2. /\ db' = Unshelved(db, ask[u].id, job.project, s)
        /\ safe' = safe /\ files' = files /\ job' = NoJob /\ blobs' = blobs /\ dump' = dump /\ sweep' = sweep
        /\ old' = old \cup NewRows(db, s)
    BY <1>8 DEF ImportCommits
  <2>3. IsArchive(ask[u].archive) /\ AskTyped(u)'
    BY <1>2, <2>1 DEF AskTyped, NoAsk, IsArchive
  <2>4. s \in Seq(Contents) /\ db.sha \in Seq(Contents) /\ job.project \in Projects
    BY <2>1, <2>3 DEF IsArchive, Whole, Sound, Kept, AskMeant
  <2>5. Len(db.sha) + Len(s) <= MaxRows /\ Len(db.sha \o s) = Len(db.sha) + Len(s)
    BY <2>1, <2>4, ConcatProperties DEF Shapes, Room
  <2>6. /\ db'.live = db.live \cup {job.project} /\ db'.given = db.given /\ db'.sha = db.sha \o s
        /\ db'.shelved = Without(db.shelved, {ask[u].id})
    BY <2>2 DEF Unshelved
  <2>7. Rowed(db)'
    <3>1. db'.live \subseteq Projects /\ db'.given \in 0..MaxArchives /\ Len(db'.sha) <= MaxRows
      BY <2>4, <2>5, <2>6 DEF Shapes, Rowed
    <3>2. /\ DOMAIN db'.shelved \subseteq DOMAIN db.shelved
          /\ \A i \in DOMAIN db'.shelved : db'.shelved[i] = db.shelved[i]
      BY <2>6 DEF Without, Restrict
    <3> QED
      BY <2>6, <3>1, <3>2 DEF Shapes, Rowed
  <2>8. Held'
    <3>1. Len(db.sha) \in Nat /\ Len(s) \in Nat
      BY <2>4
    <3>2. MaxRows \in Nat /\ Len(db.sha) + Len(s) <= MaxRows
      BY <2>5, DataAssumption
    <3>3. NewRows(db, s) \subseteq 1..MaxRows
      <4> HIDE DEF s
      <4> QED
        BY <3>1, <3>2 DEF NewRows
    <3> QED
      BY <1>2, <2>2, <3>3 DEF Held
  <2>9. Rowed(safe)' /\ FilesTyped' /\ JobTyped'
    BY <1>2, <2>2 DEF Shapes, Rowed, FilesTyped, JobTyped
  <2>10. (\A v \in Callers : AskTyped(v))'
    BY <2>1, <2>3 DEF Shapes, AskTyped
  <2>11. Room'
    <3>1. ASSUME NEW v \in Callers PROVE ask'[v].at # "importing"
      BY <2>1 DEF Kept, AsksApart
    <3> QED
      BY <2>2, <3>1 DEF Room
  <2> QED
    BY <2>7, <2>8, <2>9, <2>10, <2>11 DEF Shapes
<1> QED
  BY <1>3, <1>4, <1>5, <1>6, <1>7, <1>8 DEF Unarchive

LEMMA ShapesByDeath ==
    ASSUME Kept, Whole, Shapes, Killed \/ PowerCut
    PROVE  Shapes'
<1>1. NoDump \in [names : SUBSET Files, bytes : SUBSET Contents, on : BOOLEAN]
  BY DEF NoDump
<1>2. Held' /\ JobTyped'
  <2>1. Held'
    BY <1>1 DEF Shapes, Killed, PowerCut, Held
  <2>2. JobTyped'
    BY DEF Killed, PowerCut, Done, NoJob, JobTyped
  <2> QED
    BY <2>1, <2>2
<1>3. Rowed(db)' /\ Rowed(safe)' /\ FilesTyped'
  BY DEF Shapes, Killed, PowerCut, Rowed, FilesTyped
<1>4. ASSUME NEW u \in Callers PROVE ask'[u] = NoAsk \/ (ask'[u] = ask[u] /\ ask[u].at # "importing")
  BY DEF Killed, PowerCut
<1>5. (\A u \in Callers : AskTyped(u))'
  BY <1>4 DEF Shapes, AskTyped
<1>6. Room'
  <2>1. job'.op = "none"
    BY DEF Killed, PowerCut, Done, NoJob
  <2>2. \A u \in Callers : ask'[u].at # "importing"
    BY <1>4 DEF NoAsk
  <2> QED
    BY <2>1, <2>2 DEF Room
<1> QED
  BY <1>2, <1>3, <1>5, <1>6 DEF Shapes

LEMMA ShapesNext ==
    ASSUME Kept, Whole, Shapes, Whole', [Next]_vars
    PROVE  Shapes'
<1>1. ASSUME NEW u \in Callers, Unarchive(u) PROVE Shapes'
  BY <1>1, ShapesByUnarchive
<1>2. CASE \/ \E p \in Projects, f \in Files : ArchiveWrites(p, f)
           \/ ArchiveCommits \/ ArchiveFails
  BY <1>2, ShapesByArchive
<1>3. CASE Killed \/ PowerCut
  BY <1>3, ShapesByDeath
<1>4. CASE \/ \E c \in Contents, p \in Projects \cup {NoProject} : UploadWrites(c, p)
           \/ UploadCommits
  BY <1>4, ShapesByUploads
<1>5. CASE \/ UploadFails \/ Discards \/ Collects \/ CollectFails \/ SweepFinds
           \/ DumpSnapshots \/ DumpEnds \/ Settle \/ UNCHANGED vars
           \/ \E a \in 1..MaxRows :
                 DeleteRow(a) \/ Ages(a) \/ SweepRow(a) \/ SweepSkips(a) \/ \E p \in Projects : Link(a, p) \/ Unlink(a, p)
  BY <1>5, ShapesByQuiet
<1> QED
  BY <1>1, <1>2, <1>3, <1>4, <1>5 DEF Next

(* Every variable keeps its type: no link to a row or a project that is    *)
(* gone, and no job or import inserts more than its guard made sure of.    *)
THEOREM DirectoryTyped == Spec => []TypeOK
<1>1. ASSUME Whole, Shapes PROVE TypeOK
  <2>1. IsDatabase(db) /\ IsDatabase(safe)
    <3>1. ASSUME NEW d, Sound(d), Rowed(d) PROVE IsDatabase(d)
      BY <3>1 DEF Sound, Rowed, IsDatabase, Range
    <3> QED
      BY <1>1, <3>1 DEF Whole, Shapes
  <2>2. FilesTyped /\ Held /\ JobTyped /\ \A u \in Callers : AskTyped(u)
    BY <1>1 DEF Shapes
  <2> QED
    BY <2>1, <2>2 DEF TypeOK, FilesTyped, Held, JobTyped, AskTyped
<1> QED
  BY <1>1, KeptInit, WholeInit, ShapesInit, KeptNext, WholeNext, ShapesNext, PTL DEF Spec
===============================================================================
