--------------------------- MODULE ReadModel_proofs ---------------------------
(***************************************************************************)
(* The replica below its cursor, for every value of the constants.         *)
(*                                                                         *)
(* The argument: an image of a row, in the replica or in an answer on its  *)
(* way, is either what the tables say or older than the row's seq          *)
(* (Faithful); an answer has every row of its range whose seq has not      *)
(* passed the answer's cursor since (IndexTrue, ChangesTrue).  A write     *)
(* between two SELECTs stamps the row past both (Ages), so it is the next  *)
(* page's business.                                                        *)
(*                                                                         *)
(* Then what pull() owes its caller (Told), the types (Typed), and that a  *)
(* tab at rest is current: a row that the tab has not read yet keeps it    *)
(* from coming to rest, because somebody is still going to wake or serve   *)
(* it (Coming).  Last, the tab as a reader of the store's stream.          *)
(***************************************************************************)
EXTENDS ReadModel, SyncStore_proofs

-----------------------------------------------------------------------------
(* A finite set of numbers has a greatest one: the inclusion of the sets   *)
(* of what lies above each is well-founded.                                *)
LEMMA GreatestExists ==
    ASSUME NEW S \in SUBSET Nat, IsFiniteSet(S), S # {}
    PROVE  \E x \in S : \A y \in S : x >= y
<1> DEFINE Above(x) == {y \in S : y > x}
           T == {Above(x) : x \in S}
<1>1. T \subseteq FiniteSubsetsOf(S) /\ T # {}
  <2>1. ASSUME NEW x \in S
        PROVE  Above(x) \in FiniteSubsetsOf(S)
    <3>1. Above(x) \in SUBSET S
      OBVIOUS
    <3>2. IsFiniteSet(Above(x))
      BY <3>1, FS_Subset
    <3> QED
      BY <3>1, <3>2 DEF FiniteSubsetsOf
  <2> HIDE DEF Above
  <2> QED
    BY <2>1
<1>2. PICK U \in T : \A V \in T : ~(<<V, U>> \in StrictSubsetOrdering(S))
  BY <1>1, FS_StrictSubsetOrderingWellFounded, WFMin
<1>3. PICK x \in S : U = Above(x)
  BY <1>2
<1>4. ASSUME NEW y \in S, y > x
      PROVE  FALSE
  <2>1. y \in Above(x) /\ y \notin Above(y)
    BY <1>4
  <2>2. ASSUME NEW z \in S, z > y
        PROVE  z > x
    BY <1>4, <2>2
  <2>3. Above(y) \subseteq Above(x)
    BY <2>2
  <2>4. <<Above(y), Above(x)>> \in StrictSubsetOrdering(S)
    BY <2>1, <2>3 DEF StrictSubsetOrdering
  <2> QED
    BY <1>2, <1>3, <2>4
<1> QED
  BY <1>4

LEMMA MaxIsGreatest ==
    ASSUME NEW S \in SUBSET Nat, IsFiniteSet(S), S # {}
    PROVE  Max(S) \in S /\ \A y \in S : Max(S) >= y
BY GreatestExists DEF Max

LEMMA MaxOfTwo ==
    ASSUME NEW a \in Nat, NEW b \in Nat
    PROVE  Max({a, b}) = IF a >= b THEN a ELSE b
<1>1. IsFiniteSet({a, b})
  <2>1. IsFiniteSet({a}) /\ {a, b} = {a} \cup {b}
    BY FS_Singleton
  <2> QED
    BY <2>1, FS_AddElement
<1>2. Max({a, b}) \in {a, b} /\ \A y \in {a, b} : Max({a, b}) >= y
  BY <1>1, MaxIsGreatest
<1> QED
  BY <1>2

(* An image is a row.                                                      *)
LEMMA ImageIsRow ==
    ASSUME NEW s, NEW c, NEW ls
    PROVE  [seq |-> s, content |-> c, labels |-> ls] # NoRow
BY DEF NoRow

-----------------------------------------------------------------------------
(* What a step of the store does to a row.                                 *)
Ages(id) ==
    /\ seq[id] \in Nat /\ seq'[id] \in Nat
    /\ InTable(id) => seq[id] <= sync_seq
    /\ state[id] # "unborn" => state'[id] # "unborn"
    /\ \/ seq'[id] > sync_seq
       \/ seq'[id] = seq[id] /\ (InTable(id)' => InTable(id) /\ ~Changed(id))

StoreAges ==
    /\ sync_seq \in Nat /\ sync_seq' \in Nat /\ sync_seq' >= sync_seq
    /\ \A id \in Rows : Ages(id)

LEMMA BornStays ==
    ASSUME IInv, StoreNext, NEW id \in Ids, state[id] # "unborn"
    PROVE  state'[id] # "unborn"
<1>1. state \in [Ids -> {"unborn", "live", "deleted", "purged"}]
  BY DEF IInv, StoreTypeOK
<1>2. ASSUME NEW S, NEW v \in {"live", "deleted", "purged"}, state' = Set(state, S, v)
      PROVE  state'[id] # "unborn"
  BY <1>2 DEF Set
<1>3. CASE UNCHANGED state
  BY <1>3
<1>4. CASE SweepStep
  BY <1>2, <1>3, <1>4
  DEF SweepStep, PurgeComments, PurgeIssues, PurgePages, PurgeRows, Remove, SweepFails, rows
<1>5. CASE ForeignWrite \/ Tick \/ Crash
  BY <1>3, <1>5 DEF ForeignWrite, Tick, Crash, rows
<1>6. ASSUME NEW via \in Writers, LabelStep(via)
      PROVE  UNCHANGED state
  BY <1>6 DEF LabelStep, CreateLabel, DeleteLabel, MergeLabel, DropLabel
<1>7. ASSUME NEW via \in Writers, CommentStep(via)
      PROVE  state'[id] # "unborn"
  BY <1>2, <1>3, <1>7 DEF CommentStep, AddComment, EditComment, DeleteComment
<1>8. ASSUME NEW via \in Writers, IssueStep(via) \/ PageStep(via)
      PROVE  state'[id] # "unborn"
  BY <1>2, <1>3, <1>8
  DEF IssueStep, CreateIssue, UpdateIssue, DeleteIssue, RestoreIssue,
      PageStep, CreatePage, UpdatePage, DeletePage, RestorePage,
      CreateRow, UpdateRow, DeleteRow, RestoreRow
<1> QED
  BY <1>3, <1>4, <1>5, <1>6, <1>7, <1>8 DEF StoreNext, StoreStep

LEMMA StepAges ==
    ASSUME IInv, StoreNext
    PROVE  StoreAges
<1>1. PICK S : Draws(S) /\ CoversStep(S)
  BY StepDraws DEF CoveredDraw
<1>2. sync_seq \in Nat /\ sync_seq' \in Nat /\ sync_seq' >= sync_seq
  BY <1>1 DEF Draws, IInv, StoreTypeOK
<1>3. ASSUME NEW id \in Rows
      PROVE  Ages(id)
  <2>1. id \in Ids
    BY IssuesAreRows
  <2>2. seq[id] \in Nat /\ seq'[id] \in Nat /\ (InTable(id) => seq[id] <= sync_seq)
    BY <1>1, <1>2, <2>1 DEF IInv, StoreTypeOK, StreamIsTotal, Draws
  <2>3. CASE id \in S
    BY <1>1, <1>2, <2>1, <2>2, <2>3, BornStays DEF Draws, Ages
  <2>4. CASE id \notin S
    <3>1. seq'[id] = seq[id] /\ (InTable(id)' => InTable(id) /\ ~Changed(id))
      BY <1>1, <2>1, <2>4 DEF Draws, CoversStep, InTable, Live, Tombstone
    <3> QED
      BY <2>1, <2>2, <3>1, BornStays DEF Ages
  <2> QED
    BY <2>3, <2>4
<1> QED
  BY <1>2, <1>3 DEF StoreAges

-----------------------------------------------------------------------------
(* What an image says of its row; the labels of an issue count once the    *)
(* SELECT that reads them has run.                                         *)
Faithful(img, id, labelled) ==
    /\ state[id] # "unborn"
    /\ img.seq \in 0..sync_seq
    /\ InTable(id) => img.seq <= seq[id]
    /\ InTable(id) /\ img.seq = seq[id] =>
          /\ Live(id) /\ img.content = content[id]
          /\ labelled /\ id \in Issues => img.labels = worn[id]

(* The tab has one request of one kind in flight, and no cursor before it  *)
(* is ready.                                                               *)
Phases ==
    /\ status \in {"cold", "loading", "ready"}
    /\ index.stage \in {"none", "sent", "cursor", "issues", "pages", "issue_labels", "done", "lost"}
    /\ changes.stage \in {"none", "sent", "rows", "issue_labels", "done", "lost"}
    /\ cursor \in 0..sync_seq /\ index.cursor \in 0..sync_seq /\ changes.cursor \in 0..sync_seq
    /\ index.stage # "none" <=> status = "loading"
    /\ pullTimer => status = "ready"
    /\ status # "ready" => cursor = 0 /\ changes.stage = "none"
    /\ changes.stage = "sent" => changes.cursor = cursor
    /\ changes.stage \in {"rows", "issue_labels", "done"} => changes.cursor >= cursor

ReplicaTrue ==
    \A id \in Rows :
        /\ status # "ready" => replica[id] = NoRow
        /\ replica[id] # NoRow => Faithful(replica[id], id, TRUE)
        /\ status = "ready" /\ InTable(id) /\ seq[id] <= cursor =>
              IF Live(id) THEN replica[id] # NoRow /\ replica[id].seq = seq[id]
              ELSE replica[id] = NoRow

(* The SELECTs of /index that have run.                                    *)
Listed(id) ==
    \/ id \in Issues /\ index.stage \in {"issues", "pages", "issue_labels", "done"}
    \/ id \in Pages /\ index.stage \in {"pages", "issue_labels", "done"}

Labelled(request) == request.stage \in {"issue_labels", "done"}

IndexTrue ==
    \A id \in Rows :
        /\ index.stage \in {"sent", "cursor"} => id \notin DOMAIN index.got
        /\ id \in DOMAIN index.got /\ index.stage \in {"issues", "pages", "issue_labels", "done"} =>
              /\ Listed(id) /\ index.got[id] # NoRow
              /\ Faithful(index.got[id], id, Labelled(index))
        /\ Listed(id) /\ InTable(id) /\ seq[id] <= index.cursor =>
              IF Live(id) THEN id \in DOMAIN index.got /\ index.got[id].seq = seq[id]
              ELSE id \notin DOMAIN index.got

ChangesTrue ==
    changes.stage \in {"rows", "issue_labels", "done"} =>
        \A id \in Rows :
            /\ id \in DOMAIN changes.got =>
                  /\ seq[id] > cursor
                  /\ changes.got[id] # NoRow => Faithful(changes.got[id], id, Labelled(changes))
            /\ InTable(id) /\ cursor < seq[id] /\ seq[id] <= changes.cursor =>
                  /\ id \in DOMAIN changes.got
                  /\ IF Live(id) THEN changes.got[id] # NoRow /\ changes.got[id].seq = seq[id]
                     ELSE changes.got[id] = NoRow

Reads == Phases /\ ReplicaTrue /\ IndexTrue /\ ChangesTrue

RInv == IInv /\ Reads

-----------------------------------------------------------------------------
(* Writes leave what was read true of what has not passed it.              *)
LEMMA FaithfulAges ==
    ASSUME StoreAges, NEW id \in Rows, NEW img, NEW labelled, Faithful(img, id, labelled)
    PROVE  /\ state'[id] # "unborn"
           /\ img.seq \in 0..sync_seq'
           /\ InTable(id)' => img.seq <= seq'[id]
           /\ InTable(id)' /\ img.seq = seq'[id] =>
                 /\ state'[id] = "live" /\ img.content = content'[id]
                 /\ labelled /\ id \in Issues => img.labels = worn'[id]
BY DEF StoreAges, Ages, Faithful, Changed, Live

(* A request that a restart of the server may have cut off.                *)
StillOrLost(old, new) == new = old \/ (old.stage # "none" /\ new.stage = "lost" /\ new.cursor = old.cursor)

LEMMA WritesKeepReads ==
    ASSUME Reads, StoreAges, UNCHANGED tab,
           StillOrLost(index, index'), StillOrLost(changes, changes')
    PROVE  Reads'
<1> USE DEF Reads
<1>0. /\ UNCHANGED <<status, replica, cursor, pullTimer>>
      /\ sync_seq \in Nat /\ sync_seq' \in Nat /\ sync_seq' >= sync_seq
  BY DEF tab, StoreAges
<1>1. Phases'
  BY <1>0 DEF Phases, StillOrLost
<1>2. ReplicaTrue'
  <2> SUFFICES ASSUME NEW id \in Rows
               PROVE  /\ status' # "ready" => replica'[id] = NoRow
                      /\ replica'[id] # NoRow => Faithful(replica[id], id, TRUE)'
                      /\ status' = "ready" /\ InTable(id)' /\ seq'[id] <= cursor' =>
                            IF Live(id)' THEN replica'[id] # NoRow /\ replica'[id].seq = seq'[id]
                            ELSE replica'[id] = NoRow
    BY DEF ReplicaTrue
  <2>1. replica'[id] # NoRow => Faithful(replica[id], id, TRUE)'
    BY <1>0, FaithfulAges DEF ReplicaTrue, Faithful, Live
  <2>2. seq'[id] <= cursor /\ InTable(id)' =>
            seq'[id] = seq[id] /\ InTable(id) /\ (Live(id)' <=> Live(id))
    BY <1>0 DEF StoreAges, Ages, Phases, Changed, Live
  <2> QED
    BY <1>0, <2>1, <2>2 DEF ReplicaTrue
<1>3. IndexTrue'
  <2>1. CASE index' # index
    BY <2>1 DEF StillOrLost, IndexTrue, Listed
  <2>2. CASE index' = index
    <3> SUFFICES ASSUME NEW id \in Rows
                 PROVE  /\ id \in DOMAIN index.got /\ index.stage \in {"issues", "pages", "issue_labels", "done"} =>
                              Faithful(index.got[id], id, Labelled(index))'
                        /\ Listed(id) /\ InTable(id)' /\ seq'[id] <= index.cursor =>
                              IF Live(id)' THEN id \in DOMAIN index.got /\ index.got[id].seq = seq'[id]
                              ELSE id \notin DOMAIN index.got
      BY <2>2 DEF IndexTrue, Listed, Labelled
    <3>1. id \in DOMAIN index.got /\ index.stage \in {"issues", "pages", "issue_labels", "done"} =>
              Faithful(index.got[id], id, Labelled(index))'
      BY <2>2, FaithfulAges DEF IndexTrue, Faithful, Live, Labelled
    <3>2. seq'[id] <= index.cursor /\ InTable(id)' =>
              seq'[id] = seq[id] /\ InTable(id) /\ (Live(id)' <=> Live(id))
      BY <1>0 DEF StoreAges, Ages, Phases, Changed, Live
    <3> QED
      BY <3>1, <3>2 DEF IndexTrue
  <2> QED
    BY <2>1, <2>2
<1>4. ChangesTrue'
  <2>1. CASE changes' # changes
    BY <2>1 DEF StillOrLost, ChangesTrue
  <2>2. CASE changes' = changes
    <3> SUFFICES ASSUME NEW id \in Rows, changes.stage \in {"rows", "issue_labels", "done"}
                 PROVE  /\ id \in DOMAIN changes.got =>
                              /\ seq'[id] > cursor
                              /\ changes.got[id] # NoRow => Faithful(changes.got[id], id, Labelled(changes))'
                        /\ InTable(id)' /\ cursor < seq'[id] /\ seq'[id] <= changes.cursor =>
                              /\ id \in DOMAIN changes.got
                              /\ IF Live(id)' THEN changes.got[id] # NoRow /\ changes.got[id].seq = seq'[id]
                                 ELSE changes.got[id] = NoRow
      BY <1>0, <2>2 DEF ChangesTrue, Labelled
    <3>1. id \in DOMAIN changes.got => seq'[id] > cursor
      BY <1>0 DEF ChangesTrue, StoreAges, Ages, Phases
    <3>2. id \in DOMAIN changes.got /\ changes.got[id] # NoRow =>
              Faithful(changes.got[id], id, Labelled(changes))'
      BY <2>2, FaithfulAges DEF ChangesTrue, Faithful, Live, Labelled
    <3>3. seq'[id] <= changes.cursor /\ InTable(id)' =>
              seq'[id] = seq[id] /\ InTable(id) /\ (Live(id)' <=> Live(id))
      BY <1>0 DEF StoreAges, Ages, Phases, Changed, Live
    <3> QED
      BY <3>1, <3>2, <3>3 DEF ChangesTrue
  <2> QED
    BY <2>1, <2>2
<1> QED
  BY <1>1, <1>2, <1>3, <1>4
-----------------------------------------------------------------------------
(* Steps that leave the tables alone.                                      *)
Frozen == UNCHANGED <<sync_seq, state, seq, content, worn>>

LEMMA StoreFrozen ==
    ASSUME UNCHANGED store
    PROVE  Frozen
BY DEF store, rows, Frozen

LEMMA SameReplica ==
    ASSUME ReplicaTrue, Frozen, UNCHANGED <<replica, cursor>>,
           status' = "ready" <=> status = "ready"
    PROVE  ReplicaTrue'
BY DEF ReplicaTrue, Frozen, Faithful, InTable, Live, Tombstone

LEMMA SameIndex ==
    ASSUME IndexTrue, Frozen, UNCHANGED index
    PROVE  IndexTrue'
BY DEF IndexTrue, Listed, Labelled, Frozen, Faithful, InTable, Live, Tombstone

LEMMA SameChanges ==
    ASSUME ChangesTrue, Frozen, UNCHANGED <<changes, cursor>>
    PROVE  ChangesTrue'
BY DEF ChangesTrue, Labelled, Frozen, Faithful, InTable, Live, Tombstone

(* A request just sent, or none, says nothing yet.                         *)
LEMMA NothingRead ==
    ASSUME NEW since
    PROVE  /\ Sent(since).stage = "sent" /\ Sent(since).cursor = since /\ Sent(since).got = <<>>
           /\ Rest.stage = "none" /\ Rest.cursor = 0
           /\ DOMAIN <<>> = {}
BY DEF Sent, Rest

LEMMA FreshIndex ==
    ASSUME index' = Sent(0) \/ index' = Rest
    PROVE  IndexTrue'
<1>1. index'.stage \in {"none", "sent"} /\ (index'.stage = "sent" => DOMAIN index'.got = {})
  BY NothingRead
<1> QED
  BY <1>1 DEF IndexTrue, Listed

LEMMA FreshChanges ==
    ASSUME NEW since, changes' = Sent(since) \/ changes' = Rest
    PROVE  ChangesTrue'
<1>1. changes'.stage \in {"none", "sent"}
  BY NothingRead
<1> QED
  BY <1>1 DEF ChangesTrue

(* A row as a SELECT reads it.                                             *)
LEMMA ImageIsFaithful ==
    ASSUME IInv, NEW id \in Rows, Live(id)
    PROVE  /\ ImageOf(id) # NoRow /\ ImageOf(id).seq = seq[id]
           /\ Faithful(ImageOf(id), id, FALSE)
<1>1. seq[id] \in 1..sync_seq /\ seq[id] \in Nat /\ sync_seq \in Nat
  BY IssuesAreRows DEF IInv, StoreTypeOK, StreamIsTotal, InTable
<1>2. ImageOf(id) # NoRow
  BY ImageIsRow DEF ImageOf
<1>3. ImageOf(id).seq = seq[id] /\ ImageOf(id).content = content[id]
  BY DEF ImageOf
<1> QED
  BY <1>1, <1>2, <1>3 DEF Faithful, Live

(* The labels that a later SELECT adds are those of the row as it is now.  *)
LEMMA LabelsAreFaithful ==
    ASSUME NEW got, NEW S, NEW id \in DOMAIN got, NEW labelled \in BOOLEAN,
           got[id] # NoRow, Faithful(got[id], id, labelled), S = Issues \/ labelled
    PROVE  LET img == WithLabels(got, S)[id] IN
           img # NoRow /\ img.seq = got[id].seq /\ Faithful(img, id, TRUE)
<1>1. CASE id \in S
  <2>1. WithLabels(got, S)[id] = [seq |-> got[id].seq, content |-> got[id].content, labels |-> worn[id]]
    BY <1>1 DEF WithLabels
  <2> DEFINE img == [seq |-> got[id].seq, content |-> got[id].content, labels |-> worn[id]]
  <2>2. img # NoRow
    BY ImageIsRow
  <2>3. img.seq = got[id].seq /\ img.content = got[id].content /\ img.labels = worn[id]
    OBVIOUS
  <2> HIDE DEF img
  <2>4. Faithful(img, id, TRUE)
    BY <2>3 DEF Faithful
  <2> QED
    BY <2>1, <2>2, <2>3, <2>4 DEF img
<1>2. CASE id \notin S
  <2>1. WithLabels(got, S)[id] = got[id]
    BY <1>2 DEF WithLabels
  <2>2. Faithful(got[id], id, TRUE)
    BY <1>2 DEF Faithful
  <2> QED
    BY <2>1, <2>2
<1> QED
  BY <1>1, <1>2

-----------------------------------------------------------------------------
(* GET /index.                                                             *)
LEMMA IndexStepTrue ==
    ASSUME RInv, IndexStep, Frozen
    PROVE  IndexTrue'
<1> USE DEF RInv, Reads
<1> SUFFICES ASSUME NEW id \in Rows
             PROVE  /\ index'.stage \in {"sent", "cursor"} => id \notin DOMAIN index'.got
                    /\ id \in DOMAIN index'.got /\ index'.stage \in {"issues", "pages", "issue_labels", "done"} =>
                          /\ Listed(id)' /\ index'.got[id] # NoRow
                          /\ Faithful(index'.got[id], id, Labelled(index'))
                    /\ Listed(id)' /\ InTable(id) /\ seq[id] <= index'.cursor =>
                          IF Live(id) THEN id \in DOMAIN index'.got /\ index'.got[id].seq = seq[id]
                          ELSE id \notin DOMAIN index'.got
  BY DEF IndexTrue, Labelled, Frozen, Faithful, InTable, Live, Tombstone
<1>0. id \in Issues \cup Pages /\ (id \in Issues => id \notin Pages)
  BY StoreAssumption DEF Rows
<1>1. CASE IndexSelect("sent", "cursor", <<>>)
  BY <1>1 DEF IndexSelect, Listed
<1>2. CASE IndexSelect("cursor", "issues", WithRows(<<>>, {i \in Issues : Live(i)}))
  <2> DEFINE got == WithRows(<<>>, {i \in Issues : Live(i)})
  <2>1. index'.stage = "issues" /\ index'.got = got
    BY <1>2 DEF IndexSelect
  <2>2. id \in DOMAIN got <=> id \in Issues /\ Live(id)
    BY DEF WithRows
  <2>3. id \in DOMAIN got => got[id] = ImageOf(id)
    BY <2>2 DEF WithRows
  <2>4. Live(id) => ImageOf(id) # NoRow /\ ImageOf(id).seq = seq[id] /\ Faithful(ImageOf(id), id, FALSE)
    BY ImageIsFaithful
  <2>5. Labelled(index') = FALSE /\ (Listed(id)' <=> id \in Issues)
    BY <1>0, <2>1 DEF Labelled, Listed
  <2> HIDE DEF got
  <2> QED
    BY <2>1, <2>2, <2>3, <2>4, <2>5
<1>3. CASE IndexSelect("issues", "pages", WithRows(index.got, {p \in Pages : Live(p)}))
  <2> DEFINE got == WithRows(index.got, {p \in Pages : Live(p)})
  <2>1. index'.stage = "pages" /\ index'.got = got /\ index.stage = "issues" /\ index'.cursor = index.cursor
    BY <1>3 DEF IndexSelect, IndexCursor
  <2>2. id \in DOMAIN got <=> id \in DOMAIN index.got \/ (id \in Pages /\ Live(id))
    BY DEF WithRows
  <2>3. id \in DOMAIN got => got[id] = IF id \in Pages /\ Live(id) THEN ImageOf(id) ELSE index.got[id]
    BY <2>2 DEF WithRows
  <2>4. id \in DOMAIN index.got => id \in Issues
    BY <2>1 DEF IndexTrue, Listed
  <2>5. Live(id) => ImageOf(id) # NoRow /\ ImageOf(id).seq = seq[id] /\ Faithful(ImageOf(id), id, FALSE)
    BY ImageIsFaithful
  <2>6. Labelled(index') = FALSE /\ Labelled(index) = FALSE /\ Listed(id)'
    BY <1>0, <2>1 DEF Labelled, Listed
  <2> HIDE DEF got
  <2>7. CASE id \in Pages
    BY <1>0, <2>1, <2>2, <2>3, <2>4, <2>5, <2>6, <2>7
  <2>8. CASE id \in Issues
    BY <1>0, <2>1, <2>2, <2>3, <2>6, <2>8 DEF IndexTrue, Listed
  <2> QED
    BY <1>0, <2>7, <2>8
<1>4. ASSUME NEW S, NEW from, NEW to, IndexSelect(from, to, WithLabels(index.got, S)),
             \/ from = "pages" /\ to = "issue_labels" /\ S = Issues
             \/ from = "issue_labels" /\ to = "done" /\ S = Pages
      PROVE  /\ id \in DOMAIN index'.got =>
                  index'.got[id] # NoRow /\ Faithful(index'.got[id], id, TRUE)
             /\ InTable(id) /\ seq[id] <= index'.cursor =>
                  IF Live(id) THEN id \in DOMAIN index'.got /\ index'.got[id].seq = seq[id]
                  ELSE id \notin DOMAIN index'.got
  <2>1. /\ index'.got = WithLabels(index.got, S) /\ index'.cursor = index.cursor
        /\ index.stage = from
    BY <1>4 DEF IndexSelect, IndexCursor
  <2>2. DOMAIN index'.got = DOMAIN index.got
    BY <2>1 DEF WithLabels
  <2>3. id \in DOMAIN index.got =>
            index.got[id] # NoRow /\ Faithful(index.got[id], id, Labelled(index))
    BY <1>4, <2>1 DEF IndexTrue
  <2>4. S = Issues \/ Labelled(index)
    BY <1>4, <2>1 DEF Labelled
  <2>5. Labelled(index) \in BOOLEAN
    BY DEF Labelled
  <2>6. ASSUME id \in DOMAIN index.got
        PROVE  /\ index'.got[id] # NoRow /\ index'.got[id].seq = index.got[id].seq
               /\ Faithful(index'.got[id], id, TRUE)
    <3> DEFINE got == index.got
    <3>1. id \in DOMAIN got /\ got[id] # NoRow /\ Faithful(got[id], id, Labelled(index))
      BY <2>3, <2>6
    <3> HIDE DEF got
    <3>2. LET img == WithLabels(got, S)[id] IN
          img # NoRow /\ img.seq = got[id].seq /\ Faithful(img, id, TRUE)
      BY <2>4, <2>5, <3>1, LabelsAreFaithful
    <3> QED
      BY <2>1, <3>2 DEF got
  <2>7. Listed(id)
    BY <1>0, <1>4, <2>1 DEF Listed
  <2> QED
    BY <2>1, <2>2, <2>6, <2>7 DEF IndexTrue
<1>5. CASE \/ IndexSelect("pages", "issue_labels", WithLabels(index.got, Issues))
           \/ IndexSelect("issue_labels", "done", WithLabels(index.got, Pages))
  <2>1. index'.stage \in {"issue_labels", "done"}
    BY <1>5 DEF IndexSelect
  <2> QED
    BY <1>0, <1>4, <1>5, <2>1 DEF Listed, Labelled
<1> QED
  BY <1>1, <1>2, <1>3, <1>5 DEF IndexStep

LEMMA ServeIndexKeeps ==
    ASSUME RInv, ServeIndex
    PROVE  Reads'
<1> USE DEF RInv, Reads
<1>1. Frozen /\ UNCHANGED <<status, replica, cursor, pullTimer, changes>> /\ IndexStep
  BY StoreFrozen DEF ServeIndex, tab
<1>2. /\ index.stage \in {"sent", "cursor", "issues", "pages", "issue_labels"}
      /\ index'.stage \in {"cursor", "issues", "pages", "issue_labels", "done"}
      /\ index'.cursor \in {sync_seq, index.cursor}
  BY <1>1 DEF IndexStep, IndexSelect, IndexCursor
<1>3. sync_seq \in Nat
  BY DEF IInv, StoreTypeOK
<1>4. Phases'
  BY <1>1, <1>2, <1>3 DEF Phases, Frozen
<1> QED
  BY <1>1, <1>4, IndexStepTrue, SameReplica, SameChanges
-----------------------------------------------------------------------------
(* GET /changes.  A page reaches up to its cursor without a gap.           *)
UpTo(since, id) == {x \in Ids : InTable(x) /\ seq[x] \in (since + 1)..seq[id]}

LEMMA UpToGrows ==
    ASSUME IInv, NEW since \in Nat, NEW x \in Ids, NEW y \in Ids, seq[x] <= seq[y]
    PROVE  /\ UpTo(since, x) \subseteq UpTo(since, y)
           /\ Cardinality(UpTo(since, x)) \in Nat /\ Cardinality(UpTo(since, y)) \in Nat
           /\ Cardinality(UpTo(since, x)) <= Cardinality(UpTo(since, y))
<1>1. seq[x] \in Nat /\ seq[y] \in Nat /\ \A z \in Ids : seq[z] \in Nat
  BY DEF IInv, StoreTypeOK
<1>2. UpTo(since, x) \subseteq UpTo(since, y)
  BY <1>1 DEF UpTo
<1>3. IsFiniteSet(UpTo(since, x)) /\ IsFiniteSet(UpTo(since, y))
  <2>1. UpTo(since, x) \in SUBSET Ids /\ UpTo(since, y) \in SUBSET Ids
    BY DEF UpTo
  <2> QED
    BY <2>1, StoreAssumption, FS_Subset
<1>4. Cardinality(UpTo(since, x)) <= Cardinality(UpTo(since, y))
  BY <1>2, <1>3, FS_Subset
<1> QED
  BY <1>2, <1>3, <1>4, FS_CardinalityType

LEMMA PageHasNoGap ==
    ASSUME IInv, NEW since \in 0..sync_seq, NEW n \in Nat
    PROVE  LET page == Oldest(since, n)
               last == LastSeq(page, since)
           IN /\ last \in since..sync_seq
              /\ \A id \in page : id \in Ids /\ InTable(id) /\ since < seq[id] /\ seq[id] <= last
              /\ \A id \in Ids : InTable(id) /\ since < seq[id] /\ seq[id] <= last => id \in page
<1> DEFINE page == Oldest(since, n)
           seqs == {since} \cup {seq[id] : id \in page}
           last == LastSeq(page, since)
<1>1. sync_seq \in Nat /\ since \in Nat /\ since <= sync_seq /\ \A id \in Ids : seq[id] \in Nat
  BY DEF IInv, StoreTypeOK
<1>2. \A id \in page : id \in Ids /\ InTable(id) /\ since < seq[id]
  BY <1>1 DEF Oldest
<1>3. \A id \in page : seq[id] <= sync_seq
  BY <1>2 DEF IInv, StreamIsTotal
<1>4. seqs \in SUBSET Nat /\ seqs # {} /\ \A s \in seqs : s <= sync_seq
  BY <1>1, <1>2, <1>3
<1>5. IsFiniteSet(seqs)
  BY <1>1, <1>4, FS_BoundedSetOfNaturals
<1>6. last \in seqs /\ \A s \in seqs : last >= s
  BY <1>4, <1>5, MaxIsGreatest DEF LastSeq
<1>7. last \in since..sync_seq
  BY <1>1, <1>4, <1>6
<1>8. \A id \in page : seq[id] <= last
  BY <1>6
<1>9. ASSUME NEW x \in Ids, InTable(x), since < seq[x], seq[x] <= last
      PROVE  x \in page
  <2>1. PICK id \in page : last = seq[id]
    BY <1>1, <1>6, <1>9
  <2>2. id \in Ids /\ Cardinality(UpTo(since, id)) <= n
    BY <1>2 DEF Oldest, UpTo
  <2>3. Cardinality(UpTo(since, x)) <= n
    BY <1>1, <1>9, <2>1, <2>2, UpToGrows
  <2> QED
    BY <1>1, <1>9, <2>3 DEF Oldest, UpTo
<1> HIDE DEF page, last
<1>10. /\ last \in since..sync_seq
       /\ \A id \in page : id \in Ids /\ InTable(id) /\ since < seq[id] /\ seq[id] <= last
       /\ \A id \in Ids : InTable(id) /\ since < seq[id] /\ seq[id] <= last => id \in page
  BY <1>2, <1>7, <1>8, <1>9
<1> QED
  BY <1>10 DEF page, last

LEMMA ListChangesTrue ==
    ASSUME RInv, changes.stage = "sent", ListChanges, Frozen, UNCHANGED cursor
    PROVE  ChangesTrue' /\ changes'.stage = "rows" /\ changes'.cursor \in cursor..sync_seq
<1> USE DEF RInv, Reads
<1> DEFINE page == Oldest(changes.cursor, Limit)
           last == LastSeq(page, changes.cursor)
<1>1. /\ changes'.stage = "rows" /\ changes'.cursor = last
      /\ changes'.got = [id \in page \cap Rows |-> IF Live(id) THEN ImageOf(id) ELSE NoRow]
  BY DEF ListChanges
<1>2. changes.cursor = cursor /\ changes.cursor \in 0..sync_seq /\ Limit \in Nat
  BY ReadModelAssumption DEF Phases
<1>3. /\ last \in cursor..sync_seq
      /\ \A id \in page : id \in Ids /\ InTable(id) /\ cursor < seq[id] /\ seq[id] <= last
      /\ \A id \in Ids : InTable(id) /\ cursor < seq[id] /\ seq[id] <= last => id \in page
  BY <1>2, PageHasNoGap
<1> HIDE DEF page, last
<1>4. ASSUME NEW id \in Rows
      PROVE  /\ id \in DOMAIN changes'.got =>
                  /\ seq[id] > cursor
                  /\ changes'.got[id] # NoRow => Faithful(changes'.got[id], id, FALSE)
             /\ InTable(id) /\ cursor < seq[id] /\ seq[id] <= changes'.cursor =>
                  /\ id \in DOMAIN changes'.got
                  /\ IF Live(id) THEN changes'.got[id] # NoRow /\ changes'.got[id].seq = seq[id]
                     ELSE changes'.got[id] = NoRow
  <2>1. id \in DOMAIN changes'.got <=> id \in page
    BY <1>1
  <2>2. id \in page => changes'.got[id] = IF Live(id) THEN ImageOf(id) ELSE NoRow
    BY <1>1
  <2>3. Live(id) => ImageOf(id) # NoRow /\ ImageOf(id).seq = seq[id] /\ Faithful(ImageOf(id), id, FALSE)
    BY ImageIsFaithful
  <2>4. id \in Ids /\ seq[id] \in Nat /\ cursor \in Nat
    BY <1>2, IssuesAreRows DEF IInv, StoreTypeOK
  <2> QED
    BY <1>1, <1>3, <2>1, <2>2, <2>3, <2>4
<1>5. Labelled(changes') = FALSE
  BY <1>1 DEF Labelled
<1> QED
  BY <1>1, <1>3, <1>4, <1>5 DEF ChangesTrue, Labelled, Frozen, Faithful, InTable, Live, Tombstone

LEMMA LabelSelectTrue ==
    ASSUME RInv, Frozen, UNCHANGED cursor, NEW S, NEW from, NEW to, LabelSelect(from, to, S),
           \/ from = "rows" /\ to = "issue_labels" /\ S = Issues
           \/ from = "issue_labels" /\ to = "done" /\ S = Pages
    PROVE  ChangesTrue' /\ changes'.stage = to /\ changes'.cursor = changes.cursor
<1> USE DEF RInv, Reads
<1>1. /\ changes.stage = from /\ changes'.stage = to /\ changes'.cursor = changes.cursor
      /\ changes'.got = WithLabels(changes.got, S)
  BY DEF LabelSelect
<1>2. DOMAIN changes'.got = DOMAIN changes.got
  BY <1>1 DEF WithLabels
<1>3. /\ S = Issues \/ Labelled(changes)
      /\ Labelled(changes) \in BOOLEAN /\ Labelled(changes') = TRUE
  BY <1>1 DEF Labelled
<1>4. ASSUME NEW id \in Rows
      PROVE  /\ id \in DOMAIN changes'.got =>
                  /\ seq[id] > cursor
                  /\ changes'.got[id] # NoRow => Faithful(changes'.got[id], id, TRUE)
             /\ InTable(id) /\ cursor < seq[id] /\ seq[id] <= changes'.cursor =>
                  /\ id \in DOMAIN changes'.got
                  /\ IF Live(id) THEN changes'.got[id] # NoRow /\ changes'.got[id].seq = seq[id]
                     ELSE changes'.got[id] = NoRow
  <2> DEFINE got == changes.got
  <2>1. /\ id \in DOMAIN got =>
              /\ seq[id] > cursor
              /\ got[id] # NoRow => Faithful(got[id], id, Labelled(changes))
        /\ InTable(id) /\ cursor < seq[id] /\ seq[id] <= changes'.cursor =>
              /\ id \in DOMAIN got
              /\ IF Live(id) THEN got[id] # NoRow /\ got[id].seq = seq[id] ELSE got[id] = NoRow
    BY <1>1 DEF ChangesTrue
  <2> HIDE DEF got
  <2>2. id \in DOMAIN got /\ got[id] = NoRow => WithLabels(got, S)[id] = NoRow
    BY DEF WithLabels
  <2>3. ASSUME id \in DOMAIN got, got[id] # NoRow
        PROVE  LET img == WithLabels(got, S)[id] IN
               img # NoRow /\ img.seq = got[id].seq /\ Faithful(img, id, TRUE)
    BY <1>3, <2>1, <2>3, LabelsAreFaithful
  <2>4. changes'.got = WithLabels(got, S) /\ DOMAIN changes'.got = DOMAIN got
    BY <1>1, <1>2 DEF got
  <2> QED
    BY <2>1, <2>2, <2>3, <2>4
<1> QED
  BY <1>1, <1>3, <1>4 DEF ChangesTrue, Labelled, Frozen, Faithful, InTable, Live, Tombstone

LEMMA ServeChangesKeeps ==
    ASSUME RInv, ServeChanges
    PROVE  Reads'
<1> USE DEF RInv, Reads
<1>1. Frozen /\ UNCHANGED <<status, replica, cursor, pullTimer, index>> /\ ChangesStep
  BY StoreFrozen DEF ServeChanges, tab
<1>2. CASE changes.stage = "sent" /\ ListChanges
  <2>1. ChangesTrue' /\ changes'.stage = "rows" /\ changes'.cursor \in cursor..sync_seq
    BY <1>1, <1>2, ListChangesTrue
  <2>2. Phases'
    BY <1>1, <1>2, <2>1 DEF Phases, Frozen, IInv, StoreTypeOK
  <2> QED
    BY <1>1, <2>1, <2>2, SameReplica, SameIndex
<1>3. CASE LabelSelect("rows", "issue_labels", Issues) \/ LabelSelect("issue_labels", "done", Pages)
  <2>1. /\ ChangesTrue' /\ changes'.stage \in {"issue_labels", "done"}
        /\ changes'.cursor = changes.cursor /\ changes.stage \in {"rows", "issue_labels"}
    BY <1>1, <1>3, LabelSelectTrue DEF LabelSelect
  <2>2. Phases'
    BY <1>1, <2>1 DEF Phases, Frozen
  <2> QED
    BY <1>1, <2>1, <2>2, SameReplica, SameIndex
<1> QED
  BY <1>1, <1>2, <1>3 DEF ChangesStep
-----------------------------------------------------------------------------
(* The tab.  bootstrap() lands in an empty model.                          *)
LEMMA ApplyIndexKeeps ==
    ASSUME RInv, ApplyIndex
    PROVE  Reads'
<1> USE DEF RInv, Reads
<1>1. Frozen /\ UNCHANGED changes
  BY StoreFrozen DEF ApplyIndex
<1>2. /\ index.stage = "done" /\ status = "loading" /\ cursor = 0 /\ changes.stage = "none"
      /\ status' = "ready" /\ index' = Rest
      /\ index.cursor \in 0..sync_seq /\ sync_seq \in Nat
  BY DEF ApplyIndex, Phases, IInv, StoreTypeOK
<1>3. cursor' = index.cursor
  <2>1. cursor' = Max({0, index.cursor})
    BY <1>2 DEF ApplyIndex
  <2> QED
    BY <1>2, <2>1, MaxOfTwo
<1>4. index'.stage = "none" /\ index'.cursor = 0
  BY <1>2, NothingRead
<1>5. Phases'
  BY <1>1, <1>2, <1>3, <1>4 DEF Phases, Frozen
<1>6. ReplicaTrue'
  <2> SUFFICES ASSUME NEW id \in Rows
               PROVE  /\ replica'[id] # NoRow => Faithful(replica'[id], id, TRUE)
                      /\ InTable(id) /\ seq[id] <= index.cursor =>
                            IF Live(id) THEN replica'[id] # NoRow /\ replica'[id].seq = seq[id]
                            ELSE replica'[id] = NoRow
    BY <1>1, <1>2, <1>3 DEF ReplicaTrue, Frozen, Faithful, InTable, Live, Tombstone
  <2>1. replica'[id] = IF id \in DOMAIN index.got THEN index.got[id] ELSE NoRow
    BY DEF ApplyIndex
  <2>2. Listed(id) /\ Labelled(index) = TRUE
    BY <1>2 DEF Listed, Labelled, Rows
  <2> QED
    BY <1>2, <2>1, <2>2 DEF IndexTrue
<1>7. ChangesTrue'
  BY <1>1, <1>2 DEF ChangesTrue
<1> QED
  BY <1>2, <1>5, <1>6, <1>7, FreshIndex

(* applyChanges: an upsert never replaces a newer row.                     *)
LEMMA UpsertTrue ==
    ASSUME RInv, changes.stage = "done", NEW id \in Rows
    PROVE  /\ Upserted(id) # NoRow => Faithful(Upserted(id), id, TRUE)
           /\ replica[id] # NoRow /\ Upserted(id) # NoRow => Upserted(id).seq >= replica[id].seq
           /\ InTable(id) /\ seq[id] <= changes.cursor =>
                 IF Live(id) THEN Upserted(id) # NoRow /\ Upserted(id).seq = seq[id]
                 ELSE Upserted(id) = NoRow
<1> USE DEF RInv, Reads
<1> DEFINE old == replica[id]
           new == changes.got[id]
<1>1. /\ status = "ready" /\ cursor \in Nat /\ changes.cursor \in Nat /\ changes.cursor >= cursor
      /\ seq[id] \in Nat /\ sync_seq \in Nat
  BY IssuesAreRows DEF Phases, IInv, StoreTypeOK
<1>2. Labelled(changes) = TRUE
  BY DEF Labelled
<1>3. /\ old # NoRow => Faithful(old, id, TRUE)
      /\ InTable(id) /\ seq[id] <= cursor =>
            IF Live(id) THEN old # NoRow /\ old.seq = seq[id] ELSE old = NoRow
  BY <1>1 DEF ReplicaTrue
<1>4. /\ id \in DOMAIN changes.got =>
            seq[id] > cursor /\ (new # NoRow => Faithful(new, id, TRUE))
      /\ InTable(id) /\ cursor < seq[id] /\ seq[id] <= changes.cursor =>
            /\ id \in DOMAIN changes.got
            /\ IF Live(id) THEN new # NoRow /\ new.seq = seq[id] ELSE new = NoRow
  BY <1>2 DEF ChangesTrue
<1>5. Upserted(id) = IF id \notin DOMAIN changes.got THEN old
                     ELSE IF new = NoRow \/ old = NoRow THEN new
                     ELSE IF new.seq > old.seq THEN new ELSE old
  BY DEF Upserted
<1>6. /\ old # NoRow => old.seq \in Nat /\ (InTable(id) => old.seq <= seq[id])
      /\ id \in DOMAIN changes.got /\ new # NoRow => new.seq \in Nat
  BY <1>1, <1>3, <1>4 DEF Faithful
<1> DEFINE up == Upserted(id)
<1> HIDE DEF old, new, up
<1>7. /\ up # NoRow => Faithful(up, id, TRUE)
      /\ old # NoRow /\ up # NoRow => up.seq >= old.seq
      /\ InTable(id) /\ seq[id] <= changes.cursor =>
            IF Live(id) THEN up # NoRow /\ up.seq = seq[id] ELSE up = NoRow
  <2>1. CASE id \notin DOMAIN changes.got /\ up = old
    <3>1. InTable(id) /\ seq[id] <= changes.cursor => seq[id] <= cursor
      BY <1>1, <1>4, <2>1
    <3>2. up # NoRow => Faithful(up, id, TRUE)
      BY <1>3, <2>1
    <3>3. old # NoRow /\ up # NoRow => up.seq >= old.seq
      BY <1>6, <2>1
    <3>4. InTable(id) /\ seq[id] <= changes.cursor =>
            IF Live(id) THEN up # NoRow /\ up.seq = seq[id] ELSE up = NoRow
      BY <1>3, <2>1, <3>1
    <3> QED
      BY <3>2, <3>3, <3>4
  <2>2. CASE id \in DOMAIN changes.got /\ up = new /\ (new = NoRow \/ old = NoRow)
    <3>1. cursor < seq[id]
      BY <1>1, <1>4, <2>2
    <3> QED
      BY <1>4, <2>2, <3>1
  <2>3. CASE id \in DOMAIN changes.got /\ new # NoRow /\ old # NoRow
    <3>1. cursor < seq[id]
      BY <1>1, <1>4, <2>3
    <3>2. CASE up = new /\ new.seq > old.seq
      <4>1. up # NoRow /\ Faithful(up, id, TRUE)
        BY <1>4, <2>3, <3>2
      <4>2. up.seq >= old.seq
        BY <1>6, <2>3, <3>2
      <4>3. InTable(id) /\ seq[id] <= changes.cursor => Live(id) /\ up.seq = seq[id]
        BY <1>4, <2>3, <3>1, <3>2
      <4> QED
        BY <4>1, <4>2, <4>3
    <3>3. CASE up = old /\ ~(new.seq > old.seq)
      <4>1. InTable(id) /\ seq[id] <= changes.cursor => Live(id) /\ new.seq = seq[id]
        BY <1>4, <2>3, <3>1
      <4>2. InTable(id) /\ seq[id] <= changes.cursor => old.seq = seq[id]
        BY <1>1, <1>6, <2>3, <3>3, <4>1
      <4>3. up # NoRow /\ Faithful(up, id, TRUE)
        BY <1>3, <2>3, <3>3
      <4>4. up.seq >= old.seq
        BY <1>6, <2>3, <3>3
      <4> QED
        BY <3>3, <4>1, <4>2, <4>3, <4>4
    <3> QED
      BY <1>5, <2>3, <3>2, <3>3 DEF up
  <2> QED
    BY <1>5, <2>1, <2>2, <2>3 DEF up
<1> QED
  BY <1>7 DEF old, up

LEMMA ApplyChangesKeeps ==
    ASSUME RInv, ApplyChanges
    PROVE  Reads'
<1> USE DEF RInv, Reads
<1>1. Frozen /\ UNCHANGED <<status, index, pullTimer>> /\ changes.stage = "done"
  BY StoreFrozen DEF ApplyChanges
<1>2. /\ status = "ready" /\ cursor \in Nat /\ changes.cursor \in 0..sync_seq
      /\ changes.cursor >= cursor /\ sync_seq \in Nat
  BY <1>1 DEF Phases, IInv, StoreTypeOK
<1>3. cursor' = changes.cursor
  BY <1>2, MaxOfTwo DEF ApplyChanges
<1>4. changes' = Sent(cursor') \/ changes' = Rest
  BY DEF ApplyChanges, SendChanges
<1>5. \/ changes'.stage = "sent" /\ changes'.cursor = cursor'
      \/ changes'.stage = "none" /\ changes'.cursor = 0
  BY <1>4, NothingRead
<1>6. Phases'
  BY <1>1, <1>2, <1>3, <1>5 DEF Phases, Frozen
<1>7. ReplicaTrue'
  <2> SUFFICES ASSUME NEW id \in Rows
               PROVE  /\ replica'[id] # NoRow => Faithful(replica'[id], id, TRUE)
                      /\ InTable(id) /\ seq[id] <= changes.cursor =>
                            IF Live(id) THEN replica'[id] # NoRow /\ replica'[id].seq = seq[id]
                            ELSE replica'[id] = NoRow
    BY <1>1, <1>2, <1>3 DEF ReplicaTrue, Frozen, Faithful, InTable, Live, Tombstone
  <2>1. replica'[id] = Upserted(id)
    BY DEF ApplyChanges
  <2> QED
    BY <1>1, <2>1, UpsertTrue
<1> QED
  BY <1>1, <1>4, <1>6, <1>7, SameIndex, FreshChanges

(* A failed request, a new one, or none.                                   *)
LEMMA RequestsKeep ==
    ASSUME RInv, Frozen, UNCHANGED <<replica, cursor>>,
           pullTimer' => status' = "ready",
           \/ UNCHANGED <<status, index, changes>>
           \/ status = "cold" /\ status' = "loading" /\ index' = Sent(0) /\ UNCHANGED changes
           \/ status = "ready" /\ changes.stage = "none" /\ changes' = Sent(cursor) /\ UNCHANGED <<status, index>>
           \/ status = "loading" /\ status' = "cold" /\ index' = Rest /\ UNCHANGED changes
           \/ changes' = Rest /\ UNCHANGED <<status, index>>
    PROVE  Reads'
<1> USE DEF RInv, Reads
<1>1. /\ Sent(0).stage = "sent" /\ Sent(0).cursor = 0
      /\ Sent(cursor).stage = "sent" /\ Sent(cursor).cursor = cursor
      /\ Rest.stage = "none" /\ Rest.cursor = 0 /\ sync_seq \in Nat
  BY NothingRead DEF IInv, StoreTypeOK
<1>2. Phases'
  BY <1>1 DEF Phases, Frozen
<1>3. ReplicaTrue'
  BY SameReplica
<1>4. IndexTrue'
  BY SameIndex, FreshIndex
<1>5. ChangesTrue'
  BY SameChanges, FreshChanges
<1> QED
  BY <1>2, <1>3, <1>4, <1>5

LEMMA SchedulePullKeeps ==
    ASSUME RInv, SchedulePull, UNCHANGED store
    PROVE  Reads'
<1>1. Frozen /\ UNCHANGED <<replica, cursor>> /\ UNCHANGED changes
  BY StoreFrozen DEF SchedulePull
<1>2. pullTimer => status = "ready"
  BY DEF RInv, Reads, Phases
<1> QED
  BY <1>1, <1>2, RequestsKeep DEF SchedulePull, SendIndex

LEMMA PullKeeps ==
    ASSUME RInv, Pull, UNCHANGED store, pullTimer' => pullTimer /\ status' = "ready"
    PROVE  Reads'
<1>1. Frozen /\ UNCHANGED <<replica, cursor>>
  BY StoreFrozen DEF Pull
<1>2. changes.stage # "none" \/ changes' = Sent(cursor) \/ UNCHANGED changes
  BY DEF Pull, JoinBootstrap, QueueRun, SendChanges
<1> QED
  BY <1>1, RequestsKeep DEF Pull, JoinBootstrap, QueueRun, SendChanges, SendIndex

(* Whatever the tab does.                                                  *)
LEMMA TabKeeps ==
    ASSUME RInv,
           \/ ServeIndex \/ ApplyIndex \/ IndexFails
           \/ ServeChanges \/ ApplyChanges \/ ChangesFail
           \/ PullTimerFires \/ RefreshProjectModel \/ PullActiveOnFocus
           \/ ReceiveSome \/ RealtimeOpened
    PROVE  Reads' /\ UNCHANGED store
<1>0. Phases
  BY DEF RInv, Reads
<1>1. CASE ServeIndex
  BY <1>1, ServeIndexKeeps DEF ServeIndex
<1>2. CASE ApplyIndex
  BY <1>2, ApplyIndexKeeps DEF ApplyIndex
<1>3. CASE IndexFails
  <2>1. Frozen
    BY <1>3, StoreFrozen DEF IndexFails
  <2>2. status = "loading" /\ ~pullTimer
    BY <1>0, <1>3 DEF IndexFails, Phases
  <2> QED
    BY <1>3, <2>1, <2>2, RequestsKeep DEF IndexFails
<1>4. CASE ServeChanges
  BY <1>4, ServeChangesKeeps DEF ServeChanges
<1>5. CASE ApplyChanges
  BY <1>5, ApplyChangesKeeps DEF ApplyChanges
<1>6. CASE ChangesFail
  <2>1. Frozen
    BY <1>6, StoreFrozen DEF ChangesFail
  <2> QED
    BY <1>0, <1>6, <2>1, RequestsKeep DEF ChangesFail, Phases
<1>7. CASE PullTimerFires
  BY <1>7, PullKeeps DEF PullTimerFires
<1>8. CASE RefreshProjectModel
  <2>1. pullTimer' => pullTimer /\ status' = "ready"
    BY <1>0, <1>8 DEF RefreshProjectModel, Pull, JoinBootstrap, Phases
  <2> QED
    BY <1>8, <2>1, PullKeeps DEF RefreshProjectModel
<1>9. CASE PullActiveOnFocus
  BY <1>9, SchedulePullKeeps DEF PullActiveOnFocus
<1>10. CASE ReceiveSome
  <2>1. PICK e \in inbox : Receive(e)
    BY <1>10 DEF ReceiveSome
  <2>2. CASE UNCHANGED <<tab, requests>>
    <3>1. Frozen
      BY <2>1, StoreFrozen DEF Receive
    <3> QED
      BY <1>0, <2>1, <2>2, <3>1, RequestsKeep DEF Receive, tab, requests, Phases
  <2>3. CASE SchedulePull
    BY <2>1, <2>3, SchedulePullKeeps DEF Receive
  <2> QED
    BY <2>1, <2>2, <2>3 DEF Receive
<1>11. CASE RealtimeOpened
  BY <1>11, SchedulePullKeeps DEF RealtimeOpened
<1> QED
  BY <1>1, <1>2, <1>3, <1>4, <1>5, <1>6, <1>7, <1>8, <1>9, <1>10, <1>11

-----------------------------------------------------------------------------
(* Whatever the wire or the store does.                                    *)
LEMMA WireKeeps ==
    ASSUME RInv, UNCHANGED <<tab, requests>>,
           UNCHANGED <<sync_seq, rows, labels, now, sweep>>, outbox' \subseteq outbox
    PROVE  RInv'
<1>1. Frozen
  BY DEF Frozen, rows
<1>2. Reads'
  BY <1>1, RequestsKeep DEF tab, requests, RInv, Reads, Phases
<1>3. IInv'
  BY DEF RInv, IInv, StoreTypeOK, StreamIsTotal, InTable, Live, Tombstone, rows
<1> QED
  BY <1>2, <1>3 DEF RInv

LEMMA StoreKeeps ==
    ASSUME RInv, StoreNext, UNCHANGED tab,
           StillOrLost(index, index'), StillOrLost(changes, changes')
    PROVE  RInv'
BY StepAges, WritesKeepReads, NextIInv DEF RInv

LEMMA CutOff ==
    ASSUME NEW request
    PROVE  StillOrLost(request, Lost(request))
<1>1. CASE request.stage \in {"none", "done"}
  BY <1>1 DEF StillOrLost, Lost
<1>2. CASE request.stage \notin {"none", "done"}
  BY <1>2 DEF StillOrLost, Lost
<1> QED
  BY <1>1, <1>2

LEMMA NextKeeps == RInv /\ [Next]_vars => RInv'
<1> SUFFICES ASSUME RInv, [Next]_vars
             PROVE  RInv'
  OBVIOUS
<1>1. CASE UNCHANGED vars
  BY <1>1, WireKeeps DEF vars, store
<1>2. CASE \/ ServeIndex \/ ApplyIndex \/ IndexFails
           \/ ServeChanges \/ ApplyChanges \/ ChangesFail
           \/ PullTimerFires \/ RefreshProjectModel \/ PullActiveOnFocus
           \/ ReceiveSome \/ RealtimeOpened
  <2>1. Reads' /\ UNCHANGED store
    BY <1>2, TabKeeps
  <2> QED
    BY <2>1, NextIInv DEF RInv
<1>3. CASE StoreSteps
  <2>1. StoreNext /\ UNCHANGED tab /\ UNCHANGED <<index, changes>>
    BY <1>3 DEF StoreSteps, StoreNext, requests
  <2> QED
    BY <2>1, StoreKeeps DEF StillOrLost
<1>4. CASE ServerRestarts
  <2>1. StoreNext /\ UNCHANGED tab /\ index' = Lost(index) /\ changes' = Lost(changes)
    BY <1>4 DEF ServerRestarts, StoreNext, Disconnect
  <2> QED
    BY <2>1, StoreKeeps, CutOff
<1>5. CASE PublishSome
  BY <1>5, WireKeeps DEF PublishSome, Publish
<1>6. CASE Subscribe \/ ReplayForClient \/ Lagged \/ SocketCloses
  BY <1>6, WireKeeps DEF Subscribe, ReplayForClient, Lagged, SocketCloses, Disconnect, store, requests
<1> QED
  BY <1>1, <1>2, <1>3, <1>4, <1>5, <1>6 DEF Next

LEMMA InitReads == Init => RInv
<1> SUFFICES ASSUME Init
             PROVE  RInv
  OBVIOUS
<1>1. IInv
  BY InitIInv DEF Init
<1>2. /\ status = "loading" /\ cursor = 0 /\ ~pullTimer
      /\ index.stage = "sent" /\ index.cursor = 0 /\ DOMAIN index.got = {}
      /\ changes.stage = "none" /\ changes.cursor = 0
      /\ sync_seq \in Nat /\ \A id \in Rows : replica[id] = NoRow
  BY <1>1, NothingRead DEF Init, IInv, StoreTypeOK
<1>3. Phases
  BY <1>2 DEF Phases
<1>4. ReplicaTrue /\ IndexTrue /\ ChangesTrue
  BY <1>2 DEF ReplicaTrue, IndexTrue, Listed, ChangesTrue
<1> QED
  BY <1>1, <1>3, <1>4 DEF RInv, Reads

LEMMA ReadsHold == Spec => []RInv
BY InitReads, NextKeeps, PTL DEF Spec

(* A ready replica shows every row at or below its cursor exactly as the   *)
(* tables hold it, whatever was written between the SELECTs it came from.  *)
THEOREM ExactBelowCursor == Spec => []CurrentBelowCursor
<1>1. RInv => CurrentBelowCursor
  <2> SUFFICES ASSUME RInv, status = "ready", NEW id \in Rows,
                      seq[id] <= cursor, state[id] # "purged"
               PROVE  Agrees(id)
    BY DEF CurrentBelowCursor
  <2>1. state[id] \in {"unborn", "live", "deleted"} /\ ReplicaTrue
    BY IssuesAreRows DEF RInv, IInv, StoreTypeOK, Reads
  <2>2. CASE state[id] = "unborn"
    BY <2>1, <2>2 DEF ReplicaTrue, Faithful, Agrees, Live
  <2>3. CASE state[id] # "unborn"
    BY <2>1, <2>3 DEF ReplicaTrue, Faithful, Agrees, Live, InTable, Tombstone
  <2> QED
    BY <2>2, <2>3
<1> QED
  BY <1>1, ReadsHold, PTL

LEMMA RowsOnlyAdvance ==
    ASSUME RInv, [Next]_vars, NEW id \in Rows, replica[id] # NoRow, replica'[id] # NoRow
    PROVE  replica'[id].seq >= replica[id].seq
<1>1. Faithful(replica[id], id, TRUE) /\ status = "ready"
  BY DEF RInv, Reads, ReplicaTrue
<1>2. replica[id].seq \in Nat
  BY <1>1 DEF Faithful
<1>3. CASE ApplyChanges
  BY <1>3, UpsertTrue DEF ApplyChanges
<1>4. CASE ApplyIndex
  BY <1>1, <1>4 DEF ApplyIndex, RInv, Reads, Phases
<1>5. CASE UNCHANGED replica
  BY <1>2, <1>5
<1>6. CASE UNCHANGED vars
  BY <1>5, <1>6 DEF vars, tab
<1>7. UNCHANGED replica \/ ApplyChanges \/ ApplyIndex \/ UNCHANGED vars
  BY DEF Next, StoreSteps, ServeIndex, IndexFails, ServeChanges, ChangesFail,
         PullTimerFires, RefreshProjectModel, PullActiveOnFocus, Pull, SchedulePull,
         PublishSome, Publish, ReceiveSome, Receive, Lagged, RealtimeOpened, Subscribe,
         ReplayForClient, SocketCloses, ServerRestarts, Disconnect, tab
<1> QED
  BY <1>3, <1>4, <1>5, <1>6, <1>7

(* No page and no snapshot that lands late takes a row of the replica back *)
(* to an older version.                                                    *)
THEOREM ReplicaOnlyAdvances == Spec => ReplicaNeverGoesBack
<1> DEFINE A == \A id \in Rows :
                    replica[id] # NoRow /\ replica'[id] # NoRow
                        => replica'[id].seq >= replica[id].seq
<1>1. RInv /\ [Next]_vars => [A]_vars
  BY RowsOnlyAdvance
<1> QED
  BY <1>1, ReadsHold, PTL DEF Spec, ReplicaNeverGoesBack

-----------------------------------------------------------------------------
(* pull() reconciles.  A page that is not followed by another has read     *)
(* every row there was above its start.                                    *)
LEMMA LastPageHasAll ==
    ASSUME IInv, NEW since \in Nat, NEW n \in Nat \ {0}, Oldest(since, n + 1) = Oldest(since, n)
    PROVE  \A id \in Ids : InTable(id) /\ seq[id] > since => id \in Oldest(since, n)
<1> DEFINE page == Oldest(since, n)
           Missing == {id \in Ids : InTable(id) /\ seq[id] > since /\ id \notin page}
           T == {UpTo(since, id) : id \in Missing}
<1>1. \A id \in Ids : seq[id] \in Nat
  BY DEF IInv, StoreTypeOK
<1>2. \A id \in Ids : id \in page =>
          InTable(id) /\ seq[id] > since /\ Cardinality(UpTo(since, id)) <= n
  BY DEF Oldest, UpTo
<1>3. \A id \in Ids : InTable(id) /\ seq[id] > since /\ Cardinality(UpTo(since, id)) <= n + 1 => id \in page
  <2>1. \A id \in Ids : InTable(id) /\ seq[id] > since /\ Cardinality(UpTo(since, id)) <= n + 1
            => id \in Oldest(since, n + 1)
    BY DEF Oldest, UpTo
  <2> QED
    BY <2>1
<1>4. \A id \in Ids : UpTo(since, id) \in SUBSET Ids /\ IsFiniteSet(UpTo(since, id))
  <2>1. \A id \in Ids : UpTo(since, id) \in SUBSET Ids
    BY DEF UpTo
  <2> QED
    BY <2>1, StoreAssumption, FS_Subset
<1> HIDE DEF page
<1>5. ASSUME Missing # {}
      PROVE  FALSE
  <2>1. T \subseteq FiniteSubsetsOf(Ids) /\ T # {}
    BY <1>4, <1>5 DEF FiniteSubsetsOf
  <2>2. PICK U \in T : \A V \in T : ~(<<V, U>> \in StrictSubsetOrdering(Ids))
    BY <2>1, FS_StrictSubsetOrderingWellFounded, WFMin
  <2>3. PICK y \in Missing : U = UpTo(since, y)
    BY <2>2
  <2>4. y \in Ids /\ InTable(y) /\ seq[y] > since /\ y \notin page /\ y \in UpTo(since, y)
    BY <1>1, <2>3 DEF UpTo
  <2> DEFINE Before == UpTo(since, y) \ {y}
  <2>5. ASSUME NEW z \in Before
        PROVE  z \in page /\ seq[z] < seq[y] /\ z \in Ids
    <3>1. z \in Ids /\ InTable(z) /\ seq[z] > since /\ seq[z] <= seq[y] /\ z # y
      BY <1>1, <2>4 DEF UpTo
    <3>2. seq[z] # seq[y]
      BY <2>4, <3>1 DEF IInv, StreamIsTotal
    <3>3. UpTo(since, z) \subseteq UpTo(since, y) /\ y \notin UpTo(since, z)
      BY <1>1, <2>4, <3>1, <3>2 DEF UpTo
    <3>4. <<UpTo(since, z), UpTo(since, y)>> \in StrictSubsetOrdering(Ids)
      BY <1>4, <2>4, <3>1, <3>3 DEF StrictSubsetOrdering
    <3>5. z \notin Missing
      BY <2>2, <2>3, <3>4
    <3> QED
      BY <1>1, <2>4, <3>1, <3>2, <3>5
  <2>6. IsFiniteSet(Before)
    BY <1>4, <2>4, FS_Subset
  <2>7. Cardinality(Before) <= n
    <3>1. CASE Before = {}
      BY <3>1, FS_EmptySet
    <3>2. CASE Before # {}
      <4> DEFINE S == {seq[z] : z \in Before}
      <4>1. S \in SUBSET Nat /\ S # {}
        BY <1>1, <2>5, <3>2
      <4>2. IsFiniteSet(S)
        <5>1. seq[y] \in Nat /\ \A s \in S : s <= seq[y]
          BY <1>1, <2>4, <2>5
        <5> QED
          BY <4>1, <5>1, FS_BoundedSetOfNaturals
      <4>3. PICK m \in S : \A s \in S : m >= s
        BY <4>1, <4>2, GreatestExists
      <4>4. PICK z \in Before : m = seq[z]
        BY <4>3
      <4>5. Before \subseteq UpTo(since, z)
        BY <1>1, <1>2, <2>5, <4>3, <4>4 DEF UpTo
      <4>6. z \in Ids /\ Cardinality(UpTo(since, z)) <= n
        BY <1>2, <2>5
      <4>7. Cardinality(Before) <= Cardinality(UpTo(since, z))
        BY <1>4, <4>5, <4>6, FS_Subset
      <4> QED
        BY <1>4, <2>6, <4>6, <4>7, FS_CardinalityType
    <3> QED
      BY <3>1, <3>2
  <2>8. Cardinality(UpTo(since, y)) = Cardinality(Before) + 1
    <3>1. UpTo(since, y) = Before \cup {y} /\ y \notin Before
      BY <2>4
    <3> QED
      BY <2>6, <3>1, FS_AddElement
  <2> QED
    BY <1>3, <2>4, <2>6, <2>7, <2>8, FS_CardinalityType
<1> QED
  BY <1>5 DEF page

(* What the caller has been told, or will be: every row with a seq it had  *)
(* seen committed is at or below the cursor of the answer.                 *)
Reaches(c) == \A id \in Rows : InTable(id) /\ seq[id] <= caller.asked => seq[id] <= c

Told ==
    /\ caller.asked \in 0..sync_seq
    /\ ~caller.joined =>
          /\ caller.mode = "waiting" /\ status = "loading" =>
                (index.stage \notin {"sent", "lost"} => caller.asked <= index.cursor)
          /\ caller.mode = "waiting" /\ status = "ready" =>
                (~pullQueued /\ changes.stage \in {"rows", "issue_labels", "done"} /\ ~changes.more
                    => Reaches(changes.cursor))
          /\ caller.mode = "settled" => status = "ready" /\ Reaches(cursor)
LEMMA WritesKeepTold ==
    ASSUME Reads, Told, StoreAges, UNCHANGED <<tab, caller>>,
           StillOrLost(index, index'), StillOrLost(changes, changes')
    PROVE  Told'
<1>1. /\ UNCHANGED <<status, cursor, pullQueued, caller>>
      /\ sync_seq \in Nat /\ sync_seq' \in Nat /\ sync_seq' >= sync_seq /\ caller.asked \in 0..sync_seq
  BY DEF tab, StoreAges, Told
<1>2. ASSUME NEW c, Reaches(c)
      PROVE  \A id \in Rows : InTable(id)' /\ seq'[id] <= caller.asked => seq'[id] <= c
  <2> SUFFICES ASSUME NEW id \in Rows, InTable(id)', seq'[id] <= caller.asked
               PROVE  seq'[id] <= c
    OBVIOUS
  <2>1. seq'[id] = seq[id] /\ InTable(id)
    BY <1>1 DEF StoreAges, Ages
  <2> QED
    BY <1>2, <2>1 DEF Reaches
<1>3. caller.asked \in 0..sync_seq'
  BY <1>1
<1>4. CASE ~caller.joined /\ caller.mode = "waiting" /\ status = "loading"
  BY <1>1, <1>3, <1>4 DEF Told, StillOrLost
<1>5. CASE ~caller.joined /\ caller.mode = "waiting" /\ status = "ready"
  BY <1>1, <1>2, <1>3, <1>5 DEF Told, StillOrLost, Reaches, InTable, Live, Tombstone
<1>6. CASE ~caller.joined /\ caller.mode = "settled"
  BY <1>1, <1>2, <1>3, <1>6 DEF Told, StillOrLost, Reaches, InTable, Live, Tombstone
<1> QED
  BY <1>1, <1>3, <1>4, <1>5, <1>6 DEF Told

(* The tab's and the server's steps; each applied answer settles the call. *)
LEMMA SettlesTold ==
    ASSUME RInv, Told, \/ ApplyIndex \/ ApplyChanges \/ IndexFails \/ ChangesFail
    PROVE  Told'
<1> USE DEF RInv, Reads
<1>1. Frozen
  BY StoreFrozen DEF ApplyIndex, ApplyChanges, IndexFails, ChangesFail
<1>2. /\ NoCaller.mode = "none" /\ NoCaller.asked = 0 /\ NoCaller.joined = FALSE
      /\ Answered.mode = "settled" /\ Answered.asked = caller.asked /\ Answered.joined = caller.joined
      /\ Rest.stage = "none" /\ Sent(cursor').stage = "sent" /\ sync_seq \in Nat
      /\ caller.asked \in 0..sync_seq
  BY NothingRead DEF NoCaller, Answered, Told, IInv, StoreTypeOK
<1>3. CASE IndexFails
  <2>1. status = "loading" /\ status' = "cold"
    BY <1>3 DEF IndexFails, Phases
  <2>2. caller' = NoCaller \/ (caller' = caller /\ caller.mode # "waiting")
    BY <1>3 DEF IndexFails, GiveUp
  <2> QED
    BY <1>1, <1>2, <2>1, <2>2 DEF Told, Frozen
<1>4. CASE ChangesFail
  <2>1. caller' = NoCaller \/ (caller' = caller /\ caller.mode # "waiting")
    BY <1>4 DEF ChangesFail, GiveUp
  <2>2. UNCHANGED <<status, cursor>>
    BY <1>4 DEF ChangesFail
  <2> QED
    BY <1>1, <1>2, <2>1, <2>2 DEF Told, Reaches, InTable, Live, Tombstone, Frozen
<1>5. ASSUME NEW c, cursor' = c, status' = "ready", Settle,
             caller.mode \in {"waiting", "settled"} /\ ~caller.joined => Reaches(c)
      PROVE  Told'
  <2>1. \/ caller' = Answered /\ caller.mode = "waiting"
        \/ caller' = caller /\ caller.mode # "waiting"
    BY <1>5 DEF Settle
  <2>2. /\ caller'.asked = caller.asked /\ caller'.joined = caller.joined
        /\ caller'.mode # "waiting" /\ (caller'.mode = "settled" => caller.mode \in {"waiting", "settled"})
    BY <1>2, <2>1
  <2> QED
    BY <1>1, <1>2, <1>5, <2>2 DEF Told, Reaches, InTable, Live, Tombstone, Frozen
<1>6. CASE ApplyIndex
  <2>1. /\ status = "loading" /\ status' = "ready" /\ cursor = 0 /\ index.cursor \in Nat /\ index.stage = "done"
        /\ Settle
    BY <1>2, <1>6 DEF ApplyIndex, Phases
  <2>2. cursor' = index.cursor
    <3>1. cursor' = Max({0, index.cursor})
      BY <1>6, <2>1 DEF ApplyIndex
    <3> QED
      BY <2>1, <3>1, MaxOfTwo
  <2>3. \A id \in Rows : seq[id] \in Nat
    BY IssuesAreRows DEF IInv, StoreTypeOK
  <2>4. caller.mode \in {"waiting", "settled"} /\ ~caller.joined => Reaches(index.cursor)
    BY <1>2, <2>1, <2>3 DEF Told, Reaches
  <2> QED
    BY <1>5, <2>1, <2>2, <2>4
<1>7. CASE ApplyChanges
  <2>1. /\ changes.stage = "done" /\ status = "ready" /\ status' = "ready"
        /\ cursor \in Nat /\ changes.cursor \in Nat /\ changes.cursor >= cursor
    BY <1>2, <1>7 DEF ApplyChanges, Phases
  <2>2. cursor' = changes.cursor
    BY <1>7, <2>1, MaxOfTwo DEF ApplyChanges
  <2>3. \A id \in Rows : seq[id] \in Nat
    BY IssuesAreRows DEF IInv, StoreTypeOK
  <2>4. caller.mode = "settled" /\ ~caller.joined => Reaches(changes.cursor)
    BY <2>1, <2>3 DEF Told, Reaches
  <2>5. CASE changes.more \/ pullQueued
    <3>1. changes'.stage = "sent" /\ UNCHANGED caller
      BY <1>2, <1>7, <2>5 DEF ApplyChanges, SendChanges
    <3> QED
      BY <1>1, <1>2, <2>1, <2>2, <2>4, <3>1 DEF Told, Reaches, InTable, Live, Tombstone, Frozen
  <2>6. CASE ~changes.more /\ ~pullQueued
    <3>1. Settle
      BY <1>7, <2>6 DEF ApplyChanges
    <3>2. caller.mode \in {"waiting", "settled"} /\ ~caller.joined => Reaches(changes.cursor)
      BY <2>1, <2>4, <2>6 DEF Told
    <3> QED
      BY <1>5, <2>1, <2>2, <3>1, <3>2
  <2> QED
    BY <2>5, <2>6
<1> QED
  BY <1>3, <1>4, <1>6, <1>7

LEMMA ServesTold ==
    ASSUME RInv, Told, ServeIndex \/ ServeChanges
    PROVE  Told'
<1> USE DEF RInv, Reads
<1>1. Frozen /\ UNCHANGED <<status, cursor, pullQueued, caller>>
  BY StoreFrozen DEF ServeIndex, ServeChanges, tab
<1>2. caller.asked \in 0..sync_seq /\ sync_seq \in Nat /\ \A id \in Rows : seq[id] \in Nat
  BY IssuesAreRows DEF Told, IInv, StoreTypeOK
<1>3. CASE ServeIndex
  <2>1. UNCHANGED changes /\ index'.stage # "sent"
    BY <1>3 DEF ServeIndex, IndexStep, IndexSelect
  <2>2. IF index.stage = "sent" THEN index'.cursor = sync_seq
        ELSE index'.cursor = index.cursor /\ index.stage # "lost"
    BY <1>3 DEF ServeIndex, IndexStep, IndexSelect, IndexCursor
  <2> QED
    BY <1>1, <1>2, <2>1, <2>2 DEF Told, Reaches, InTable, Live, Tombstone, Frozen
<1>4. CASE ServeChanges
  <2>1. UNCHANGED index /\ ChangesStep
    BY <1>4 DEF ServeChanges
  <2>2. CASE changes.stage = "sent" /\ ListChanges
    <3> DEFINE page == Oldest(changes.cursor, Limit)
               last == LastSeq(page, changes.cursor)
    <3>1. changes'.cursor = last /\ changes'.more = (Oldest(changes.cursor, Limit + 1) # page)
      BY <2>2 DEF ListChanges
    <3>2. changes.cursor \in 0..sync_seq /\ changes.cursor \in Nat /\ Limit \in Nat /\ Limit \in Nat \ {0}
      BY <1>2, ReadModelAssumption DEF Phases
    <3>3. /\ last \in changes.cursor..sync_seq
          /\ \A id \in page : seq[id] <= last
      BY <3>2, PageHasNoGap
    <3>4. ~changes'.more => \A id \in Ids : InTable(id) /\ seq[id] > changes.cursor => id \in page
      BY <3>1, <3>2, LastPageHasAll
    <3> HIDE DEF page, last
    <3>5. ~changes'.more => Reaches(changes'.cursor)
      <4> SUFFICES ASSUME ~changes'.more, NEW id \in Rows, InTable(id)
                   PROVE  seq[id] <= last
        BY <3>1 DEF Reaches
      <4>1. id \in Ids
        BY IssuesAreRows
      <4> QED
        BY <1>2, <3>2, <3>3, <3>4, <4>1
    <3> QED
      BY <1>1, <1>2, <2>1, <3>5 DEF Told, Reaches, InTable, Live, Tombstone, Frozen
  <2>3. CASE LabelSelect("rows", "issue_labels", Issues) \/ LabelSelect("issue_labels", "done", Pages)
    <3>1. /\ changes'.more = changes.more /\ changes'.cursor = changes.cursor
          /\ changes.stage \in {"rows", "issue_labels"}
      BY <2>3 DEF LabelSelect
    <3> QED
      BY <1>1, <1>2, <2>1, <3>1 DEF Told, Reaches, InTable, Live, Tombstone, Frozen
  <2> QED
    BY <2>1, <2>2, <2>3 DEF ChangesStep
<1> QED
  BY <1>3, <1>4
(* A pull is asked for, or the wire moves.                                 *)
LEMMA AsksTold ==
    ASSUME RInv, Told, Frozen, UNCHANGED cursor,
           SchedulePull \/ Pull \/ UNCHANGED <<status, pullQueued, index, changes>>,
           \/ UNCHANGED <<pullQueued, caller>>
           \/ Pull /\ UNCHANGED caller
           \/ Pull /\ caller' = [mode |-> "waiting", asked |-> sync_seq, joined |-> status = "loading"]
    PROVE  Told'
<1> USE DEF RInv, Reads
<1>1. /\ Sent(0).stage = "sent" /\ Sent(cursor).stage = "sent" /\ sync_seq \in Nat
      /\ status \in {"cold", "loading", "ready"}
  BY NothingRead DEF IInv, StoreTypeOK, Phases
<1>2. /\ status' = "loading" => IF status = "cold" THEN index' = Sent(0) ELSE status = "loading" /\ UNCHANGED index
      /\ status' = "ready" => status = "ready"
      /\ status = "ready" => status' = "ready"
      /\ \/ UNCHANGED changes
         \/ changes' = Sent(cursor)
  BY <1>1 DEF SchedulePull, Pull, JoinBootstrap, QueueRun, SendChanges, SendIndex
<1>3. /\ pullQueued' = pullQueued \/ pullQueued' = TRUE
      /\ Pull /\ status = "ready" => pullQueued' = TRUE \/ changes' = Sent(cursor)
  BY <1>1 DEF Pull, SchedulePull, JoinBootstrap, QueueRun, SendChanges
<1>4. CASE UNCHANGED caller
  BY <1>1, <1>2, <1>3, <1>4 DEF Told, Reaches, InTable, Live, Tombstone, Frozen
<1>5. CASE Pull /\ caller' = [mode |-> "waiting", asked |-> sync_seq, joined |-> status = "loading"]
  <2>1. /\ caller'.mode = "waiting" /\ caller'.asked = sync_seq
        /\ ~caller'.joined => status # "loading"
    BY <1>5
  <2>2. ~caller'.joined /\ status' = "loading" => index'.stage = "sent"
    BY <1>1, <1>2, <2>1
  <2>3. ~caller'.joined /\ status' = "ready" => pullQueued' = TRUE \/ changes'.stage = "sent"
    BY <1>1, <1>2, <1>3, <1>5
  <2>4. caller'.asked \in 0..sync_seq'
    BY <1>1, <2>1 DEF Frozen
  <2> QED
    BY <2>1, <2>2, <2>3, <2>4 DEF Told
<1> QED
  BY <1>4, <1>5

LEMMA NextTold == RInv /\ Told /\ [Next]_vars => Told'
<1> SUFFICES ASSUME RInv, Told, [Next]_vars
             PROVE  Told'
  OBVIOUS
<1>1. CASE UNCHANGED vars
  BY <1>1, AsksTold, StoreFrozen DEF vars, tab, requests
<1>2. CASE ServeIndex \/ ServeChanges
  BY <1>2, ServesTold
<1>3. CASE ApplyIndex \/ ApplyChanges \/ IndexFails \/ ChangesFail
  BY <1>3, SettlesTold
<1>4. CASE PullTimerFires \/ RefreshProjectModel
  BY <1>4, AsksTold, StoreFrozen DEF PullTimerFires, RefreshProjectModel, Pull
<1>5. CASE PullActiveOnFocus \/ RealtimeOpened
  BY <1>5, AsksTold, StoreFrozen DEF PullActiveOnFocus, RealtimeOpened, SchedulePull
<1>6. CASE ReceiveSome
  <2>1. UNCHANGED <<tab, requests>> \/ SchedulePull
    BY <1>6 DEF ReceiveSome, Receive
  <2>2. Frozen /\ UNCHANGED <<cursor, pullQueued, caller>>
    BY <1>6, <2>1, StoreFrozen DEF ReceiveSome, Receive, SchedulePull, tab
  <2> QED
    BY <2>1, <2>2, AsksTold DEF tab, requests
<1>7. CASE StoreSteps
  <2>1. StoreNext /\ UNCHANGED <<tab, caller>> /\ UNCHANGED <<index, changes>>
    BY <1>7 DEF StoreSteps, StoreNext, requests
  <2> QED
    BY <2>1, StepAges, WritesKeepTold DEF StillOrLost, RInv
<1>8. CASE ServerRestarts
  <2>1. /\ StoreNext /\ UNCHANGED <<tab, caller>>
        /\ index' = Lost(index) /\ changes' = Lost(changes)
    BY <1>8 DEF ServerRestarts, StoreNext, Disconnect
  <2> QED
    BY <2>1, StepAges, WritesKeepTold, CutOff DEF RInv
<1>9. CASE PublishSome \/ Subscribe \/ ReplayForClient \/ Lagged \/ SocketCloses
  <2>1. UNCHANGED <<sync_seq, rows>> /\ UNCHANGED <<tab, requests, caller>>
    BY <1>9 DEF PublishSome, Publish, Subscribe, ReplayForClient, Lagged, SocketCloses, Disconnect, store
  <2> QED
    BY <2>1, AsksTold DEF Frozen, rows, tab, requests
<1> QED
  BY <1>1, <1>2, <1>3, <1>4, <1>5, <1>6, <1>7, <1>8, <1>9 DEF Next

(* A call of pull() that joined no snapshot in flight settles with every   *)
(* write committed before the call in the replica, whatever the sweep      *)
(* removes in the meantime: a row that is still in its table kept its seq, *)
(* or got a greater one.                                                   *)
THEOREM SettledIsReconciled == Spec => []PullReconciles
<1>1. Init => Told
  <2> SUFFICES ASSUME Init
               PROVE  Told
    OBVIOUS
  <2>1. sync_seq = 0
    BY DEF Init, StoreInit
  <2>2. caller.mode = "none" /\ caller.asked = 0 /\ caller.joined = FALSE
    BY DEF Init, NoCaller
  <2> QED
    BY <2>1, <2>2 DEF Told
<1>2. RInv /\ Told /\ [Next]_vars => Told'
  BY NextTold
<1>3. RInv /\ Told => PullReconciles
  <2> SUFFICES ASSUME RInv, Told, caller.mode = "settled", ~caller.joined,
                      NEW id \in Rows, seq[id] <= caller.asked, state[id] # "purged"
               PROVE  Agrees(id)
    BY DEF PullReconciles, Reconciled
  <2>1. state[id] \in {"unborn", "live", "deleted"} /\ ReplicaTrue
    BY IssuesAreRows DEF RInv, IInv, StoreTypeOK, Reads
  <2>2. status = "ready" /\ (InTable(id) => seq[id] <= cursor)
    BY DEF Told, Reaches
  <2>3. CASE state[id] = "unborn"
    BY <2>1, <2>3 DEF ReplicaTrue, Faithful, Agrees, Live
  <2>4. CASE state[id] # "unborn"
    BY <2>1, <2>2, <2>4 DEF ReplicaTrue, Faithful, Agrees, Live, InTable, Tombstone
  <2> QED
    BY <2>3, <2>4
<1> QED
  BY <1>1, <1>2, <1>3, ReadsHold, PTL DEF Spec

-----------------------------------------------------------------------------
(* Types.  What is in a table has a content.                               *)
Filled == \A id \in Ids : InTable(id) => content[id] \in Values

LEMMA StaysFilled ==
    ASSUME IInv, Filled, [StoreNext]_store
    PROVE  Filled'
<1>0. /\ state \in [Ids -> {"unborn", "live", "deleted", "purged"}]
      /\ content \in [Ids -> Values \cup {None}]
  BY DEF IInv, StoreTypeOK
<1>1. CASE UNCHANGED <<state, content>>
  BY <1>1 DEF Filled, InTable, Live, Tombstone
<1>2. ASSUME NEW S, NEW v \in {"live", "deleted"}, state' = Set(state, S, v), UNCHANGED content,
             \A id \in S : id \in Ids => InTable(id)
      PROVE  Filled'
  BY <1>0, <1>2 DEF Filled, Set, InTable, Live, Tombstone
<1>3. ASSUME NEW S, NEW v \in Values, content' = Set(content, S, v),
             UNCHANGED state \/ state' = Set(state, S, "live")
      PROVE  Filled'
  BY <1>0, <1>3 DEF Filled, Set, InTable, Live, Tombstone
<1>4. ASSUME NEW S, Remove(S)
      PROVE  Filled'
  BY <1>0, <1>4 DEF Filled, Remove, Set, InTable, Live, Tombstone
<1>5. CASE SweepStep
  BY <1>1, <1>4, <1>5
  DEF SweepStep, PurgeComments, PurgeIssues, PurgePages, PurgeRows, SweepFails, rows
<1>6. CASE ForeignWrite \/ Tick \/ Crash \/ UNCHANGED store
  BY <1>1, <1>6 DEF ForeignWrite, Tick, Crash, rows, store
<1>7. ASSUME NEW via \in Writers, LabelStep(via)
      PROVE  Filled'
  BY <1>1, <1>7 DEF LabelStep, CreateLabel, DeleteLabel, MergeLabel, DropLabel
<1>8. ASSUME NEW via \in Writers, CommentStep(via)
      PROVE  Filled'
  <2>1. ASSUME NEW c \in Comments, DeleteComment(c, via)
        PROVE  Filled'
    <3>1. state' = Set(state, {c}, "deleted") /\ UNCHANGED content /\ \A x \in {c} : InTable(x)
      BY <2>1 DEF DeleteComment, InTable
    <3> QED
      BY <1>2, <3>1
  <2>2. ASSUME NEW c \in Comments, NEW v \in Values, EditComment(c, v, via)
        PROVE  Filled'
    BY <1>3, <2>2 DEF EditComment
  <2>3. ASSUME NEW c \in Comments, NEW p \in Rows, NEW v \in Values, AddComment(c, p, v, via)
        PROVE  Filled'
    BY <1>3, <2>3 DEF AddComment
  <2> QED
    BY <1>8, <2>1, <2>2, <2>3 DEF CommentStep
<1>9. ASSUME NEW via \in Writers, IssueStep(via) \/ PageStep(via)
      PROVE  Filled'
  <2>1. PICK id \in Rows :
            \/ \E v \in Values, ls \in SUBSET Labels : CreateRow(id, v, ls, via)
            \/ \E v \in Optional(Values), ls \in Optional(SUBSET Labels) : UpdateRow(id, v, ls, via)
            \/ DeleteRow(id, via) \/ RestoreRow(id, via)
    BY <1>9, IssuesAreRows
    DEF IssueStep, CreateIssue, UpdateIssue, DeleteIssue, RestoreIssue,
        PageStep, CreatePage, UpdatePage, DeletePage, RestorePage, Rows
  <2>2. ASSUME NEW v \in Values, NEW ls, CreateRow(id, v, ls, via)
        PROVE  Filled'
    BY <1>3, <2>2 DEF CreateRow
  <2>3. ASSUME NEW v \in Optional(Values), NEW ls, UpdateRow(id, v, ls, via)
        PROVE  Filled'
    BY <1>1, <1>3, <2>3 DEF UpdateRow, Optional
  <2>4. CASE DeleteRow(id, via)
    <3>1. \A c \in CascadesTo(id) : InTable(c)
      BY DEF CascadesTo, InTable
    <3> QED
      BY <1>2, <2>4, <3>1 DEF DeleteRow, Deletable, InTable
  <2>5. CASE RestoreRow(id, via)
    <3>1. \A c \in Revived(id) : InTable(c)
      BY DEF Revived, InTable
    <3> QED
      BY <1>2, <2>5, <3>1 DEF RestoreRow, InTable
  <2> QED
    BY <2>1, <2>2, <2>3, <2>4, <2>5
<1> QED
  BY <1>5, <1>6, <1>7, <1>8, <1>9 DEF StoreNext, StoreStep

IsImage(img) ==
    img = NoRow \/ (img \in Image)

Read(request) == \A id \in Rows : id \in DOMAIN request.got => IsImage(request.got[id])

Typed ==
    /\ Filled
    /\ replica \in [Rows -> Image \cup {NoRow}]
    /\ Read(index) /\ Read(changes)
    /\ {pullTimer, pullQueued, pullAfterBootstrap} \subseteq BOOLEAN
    /\ socket \in {"closed", "opened", "subscribed"}
    /\ resume \in Nat \cup {NoFrame}
    /\ ring \subseteq 1..sync_seq
    /\ inbox \subseteq (0..sync_seq) \cup {Resync}
    /\ caller.mode \in {"none", "waiting", "settled"}
    /\ gap \subseteq 1..sync_seq
    /\ unheard \in 0..sync_seq

LEMMA ImageTyped ==
    ASSUME IInv, Filled, NEW id \in Rows, Live(id)
    PROVE  IsImage(ImageOf(id))
<1>1. seq[id] \in Nat /\ content[id] \in Values /\ {} \in SUBSET Labels
  BY IssuesAreRows DEF IInv, StoreTypeOK, Filled, InTable
<1> QED
  BY <1>1 DEF IsImage, ImageOf, Image

LEMMA LabelsTyped ==
    ASSUME IInv, NEW got, NEW S, NEW id \in Rows, id \in DOMAIN got, IsImage(got[id])
    PROVE  IsImage(WithLabels(got, S)[id])
<1>1. worn[id] \in SUBSET Labels
  BY IssuesAreRows DEF IInv, StoreTypeOK
<1>2. CASE id \in S /\ got[id] # NoRow
  <2>1. WithLabels(got, S)[id] = [seq |-> got[id].seq, content |-> got[id].content, labels |-> worn[id]]
    BY <1>2 DEF WithLabels
  <2>2. got[id].seq \in Nat /\ got[id].content \in Values
    BY <1>2 DEF IsImage, Image
  <2> QED
    BY <1>1, <2>1, <2>2 DEF IsImage, Image
<1>3. CASE ~(id \in S /\ got[id] # NoRow)
  BY <1>3 DEF WithLabels
<1> QED
  BY <1>2, <1>3
LEMMA ServesTyped ==
    ASSUME RInv, Typed, ServeIndex \/ ServeChanges
    PROVE  Read(index)' /\ Read(changes)'
<1> USE DEF RInv
<1>1. CASE ServeIndex
  <2>1. UNCHANGED changes
    BY <1>1 DEF ServeIndex
  <2>2. Read(changes)'
    BY <2>1 DEF Typed, Read
  <2>3. ASSUME NEW id \in Rows, id \in DOMAIN index'.got
        PROVE  IsImage(index'.got[id])
    <3>1. id \in DOMAIN index.got => IsImage(index.got[id])
      BY DEF Typed, Read
    <3>2. Live(id) => IsImage(ImageOf(id))
      BY ImageTyped DEF Typed
    <3>3. CASE index'.got = <<>>
      BY <2>3, <3>3, NothingRead
    <3>4. CASE index'.got = WithRows(<<>>, {i \in Issues : Live(i)})
      <4>1. Live(id) /\ index'.got[id] = ImageOf(id)
        BY <2>3, <3>4, NothingRead DEF WithRows
      <4> QED
        BY <3>2, <4>1
    <3>5. CASE index'.got = WithRows(index.got, {p \in Pages : Live(p)})
      <4>1. \/ Live(id) /\ index'.got[id] = ImageOf(id)
            \/ id \in DOMAIN index.got /\ index'.got[id] = index.got[id]
        BY <2>3, <3>5 DEF WithRows
      <4> QED
        BY <3>1, <3>2, <4>1
    <3>6. ASSUME NEW S, index'.got = WithLabels(index.got, S)
          PROVE  IsImage(index'.got[id])
      <4>1. id \in DOMAIN index.got
        BY <2>3, <3>6 DEF WithLabels
      <4> DEFINE got == index.got
      <4>2. id \in DOMAIN got /\ IsImage(got[id])
        BY <3>1, <4>1
      <4> HIDE DEF got
      <4>3. IsImage(WithLabels(got, S)[id])
        BY <4>2, LabelsTyped
      <4> QED
        BY <3>6, <4>3 DEF got
    <3> QED
      BY <1>1, <3>3, <3>4, <3>5, <3>6 DEF ServeIndex, IndexStep, IndexSelect
  <2> QED
    BY <2>2, <2>3 DEF Read
<1>2. CASE ServeChanges
  <2>1. UNCHANGED index
    BY <1>2 DEF ServeChanges
  <2>2. Read(index)'
    BY <2>1 DEF Typed, Read
  <2>3. ASSUME NEW id \in Rows, id \in DOMAIN changes'.got
        PROVE  IsImage(changes'.got[id])
    <3>1. id \in DOMAIN changes.got => IsImage(changes.got[id])
      BY DEF Typed, Read
    <3>2. Live(id) => IsImage(ImageOf(id))
      BY ImageTyped DEF Typed
    <3>3. CASE ListChanges
      <4>1. changes'.got[id] = IF Live(id) THEN ImageOf(id) ELSE NoRow
        BY <2>3, <3>3 DEF ListChanges
      <4> QED
        BY <3>2, <4>1 DEF IsImage
    <3>4. ASSUME NEW S, changes'.got = WithLabels(changes.got, S)
          PROVE  IsImage(changes'.got[id])
      <4>1. id \in DOMAIN changes.got
        BY <2>3, <3>4 DEF WithLabels
      <4> DEFINE got == changes.got
      <4>2. id \in DOMAIN got /\ IsImage(got[id])
        BY <3>1, <4>1
      <4> HIDE DEF got
      <4>3. IsImage(WithLabels(got, S)[id])
        BY <4>2, LabelsTyped
      <4> QED
        BY <3>4, <4>3 DEF got
    <3> QED
      BY <1>2, <3>3, <3>4 DEF ServeChanges, ChangesStep, LabelSelect
  <2> QED
    BY <2>2, <2>3 DEF Read
<1> QED
  BY <1>1, <1>2

LEMMA AppliesTyped ==
    ASSUME RInv, Typed, ApplyIndex \/ ApplyChanges
    PROVE  replica' \in [Rows -> Image \cup {NoRow}]
<1>1. CASE ApplyIndex
  <2>1. \A id \in Rows : id \in DOMAIN index.got => index.got[id] \in Image \cup {NoRow}
    BY DEF Typed, Read, IsImage
  <2> QED
    BY <1>1, <2>1 DEF ApplyIndex
<1>2. CASE ApplyChanges
  <2>1. \A id \in Rows : id \in DOMAIN changes.got => changes.got[id] \in Image \cup {NoRow}
    BY DEF Typed, Read, IsImage
  <2>2. ASSUME NEW id \in Rows
        PROVE  Upserted(id) \in Image \cup {NoRow}
    <3>1. replica[id] \in Image \cup {NoRow}
      BY DEF Typed
    <3>2. \/ Upserted(id) = replica[id]
          \/ id \in DOMAIN changes.got /\ Upserted(id) = changes.got[id]
      BY DEF Upserted
    <3> QED
      BY <2>1, <3>1, <3>2
  <2> QED
    BY <1>2, <2>2 DEF ApplyChanges
<1> QED
  BY <1>1, <1>2

(* A request that is sent, given up or cut off has nothing new.            *)
LEMMA NothingNew ==
    ASSUME NEW old, NEW new, Read(old),
           \/ new = old \/ new = Rest \/ new = Lost(old)
           \/ \E since : new = Sent(since)
    PROVE  Read(new)
<1>1. CASE new = old
  BY <1>1
<1>2. CASE new = Rest \/ \E since : new = Sent(since)
  <2>1. DOMAIN new.got = {}
    BY <1>2 DEF Rest, Sent
  <2> QED
    BY <2>1 DEF Read
<1>3. CASE new = Lost(old)
  <2>1. new.got = old.got
    BY <1>3 DEF Lost
  <2> QED
    BY <2>1 DEF Read
<1> QED
  BY <1>1, <1>2, <1>3
(* The parts of Typed, each with the steps that touch it.                  *)
LEMMA RequestsTyped ==
    ASSUME RInv, Typed, [Next]_vars
    PROVE  Read(index)' /\ Read(changes)'
<1>1. Read(index) /\ Read(changes)
  BY DEF Typed
<1>2. CASE ServeIndex \/ ServeChanges
  BY <1>2, ServesTyped
<1>3. CASE ~(ServeIndex \/ ServeChanges)
  <2>1. \/ index' = index \/ index' = Rest \/ index' = Lost(index)
        \/ \E since : index' = Sent(since)
    BY <1>3 DEF Next, vars, requests, tab, StoreSteps, ApplyIndex, IndexFails, ApplyChanges, ChangesFail,
       PullTimerFires, RefreshProjectModel, PullActiveOnFocus, Pull, SchedulePull, JoinBootstrap, SendIndex,
       PublishSome, Publish, ReceiveSome, Receive, Lagged, RealtimeOpened, Subscribe,
       ReplayForClient, SocketCloses, ServerRestarts, Disconnect
  <2>2. \/ changes' = changes \/ changes' = Rest \/ changes' = Lost(changes)
        \/ \E since : changes' = Sent(since)
    BY <1>3 DEF Next, vars, requests, tab, StoreSteps, ApplyIndex, IndexFails, ApplyChanges, ChangesFail,
       PullTimerFires, RefreshProjectModel, PullActiveOnFocus, Pull, SchedulePull, JoinBootstrap, QueueRun, SendChanges,
       PublishSome, Publish, ReceiveSome, Receive, Lagged, RealtimeOpened, Subscribe,
       ReplayForClient, SocketCloses, ServerRestarts, Disconnect
  <2>3. Read(index') /\ Read(changes')
    BY <1>1, <2>1, <2>2, NothingNew
  <2> QED
    BY <2>3 DEF Read
<1> QED
  BY <1>2, <1>3

LEMMA ReplicaTyped ==
    ASSUME RInv, Typed, [Next]_vars
    PROVE  replica' \in [Rows -> Image \cup {NoRow}]
<1>1. CASE ApplyIndex \/ ApplyChanges
  BY <1>1, AppliesTyped
<1>2. CASE ~(ApplyIndex \/ ApplyChanges)
  <2>1. UNCHANGED replica
    BY <1>2 DEF Next, vars, StoreSteps, ServeIndex, IndexFails, ServeChanges, ChangesFail,
       PullTimerFires, RefreshProjectModel, PullActiveOnFocus, Pull, SchedulePull,
       PublishSome, Publish, ReceiveSome, Receive, Lagged, RealtimeOpened, Subscribe,
       ReplayForClient, SocketCloses, ServerRestarts, Disconnect, tab
  <2> QED
    BY <2>1 DEF Typed
<1> QED
  BY <1>1, <1>2

LEMMA FlagsTyped ==
    ASSUME Typed, [Next]_vars
    PROVE  /\ ({pullTimer, pullQueued, pullAfterBootstrap} \subseteq BOOLEAN)'
           /\ (caller.mode \in {"none", "waiting", "settled"})'
<1>1. /\ pullTimer \in BOOLEAN /\ pullQueued \in BOOLEAN /\ pullAfterBootstrap \in BOOLEAN
      /\ caller.mode \in {"none", "waiting", "settled"}
  BY DEF Typed
<1>2. CASE ApplyIndex
  BY <1>1, <1>2 DEF ApplyIndex, CatchUp, Settle, Answered
<1>3. CASE ApplyChanges
  BY <1>1, <1>3 DEF ApplyChanges, Settle, Answered
<1>4. CASE IndexFails \/ ChangesFail
  <2>1. GiveUp
    BY <1>4 DEF IndexFails, ChangesFail
  <2>2. caller'.mode \in {"none", "waiting", "settled"}
    BY <1>1, <2>1 DEF GiveUp, NoCaller
  <2>3. pullTimer' \in BOOLEAN /\ pullQueued' \in BOOLEAN /\ pullAfterBootstrap' \in BOOLEAN
    BY <1>1, <1>4 DEF IndexFails, ChangesFail, PullAfterFailure
  <2> QED
    BY <2>2, <2>3
<1>5. CASE \/ UNCHANGED vars \/ StoreSteps \/ ServeIndex \/ ServeChanges \/ PublishSome
           \/ Lagged \/ Subscribe \/ ReplayForClient \/ SocketCloses \/ ServerRestarts
  BY <1>1, <1>5 DEF vars, StoreSteps, ServeIndex, ServeChanges, PublishSome, Publish, Lagged,
     Subscribe, ReplayForClient, SocketCloses, ServerRestarts, Disconnect, tab
<1>6. CASE PullActiveOnFocus \/ RealtimeOpened
  BY <1>1, <1>6 DEF PullActiveOnFocus, RealtimeOpened, SchedulePull
<1>7. CASE PullTimerFires
  BY <1>1, <1>7 DEF PullTimerFires, Pull, JoinBootstrap, QueueRun
<1>8. CASE RefreshProjectModel
  BY <1>1, <1>8 DEF RefreshProjectModel, Pull, JoinBootstrap, QueueRun
<1>9. CASE ReceiveSome
  BY <1>1, <1>9 DEF ReceiveSome, Receive, SchedulePull, tab
<1> QED
  BY <1>2, <1>3, <1>4, <1>5, <1>6, <1>7, <1>8, <1>9 DEF Next

LEMMA WireTyped ==
    ASSUME RInv, Typed, [Next]_vars
    PROVE  /\ socket' \in {"closed", "opened", "subscribed"}
           /\ resume' \in Nat \cup {NoFrame}
           /\ ring' \subseteq 1..sync_seq'
           /\ inbox' \subseteq (0..sync_seq') \cup {Resync}
           /\ gap' \subseteq 1..sync_seq'
<1>1. /\ gap \subseteq 1..sync_seq
      /\ socket \in {"closed", "opened", "subscribed"} /\ resume \in Nat \cup {NoFrame}
      /\ ring \subseteq 1..sync_seq /\ inbox \subseteq (0..sync_seq) \cup {Resync}
      /\ sync_seq \in Nat /\ cursor \in Nat /\ outbox \subseteq 0..sync_seq
  BY DEF Typed, RInv, IInv, StoreTypeOK, Reads, Phases
<1>2. CASE StoreSteps \/ ServerRestarts
  <2>1. StoreNext
    BY <1>2 DEF StoreSteps, ServerRestarts, StoreNext
  <2>2. sync_seq' \in Nat /\ sync_seq' >= sync_seq
    BY <2>1, StepAges DEF RInv, StoreAges
  <2>3. 1..sync_seq \subseteq 1..sync_seq' /\ 0..sync_seq \subseteq 0..sync_seq'
    BY <1>1, <2>2
  <2>4. CASE StoreSteps
    BY <1>1, <2>3, <2>4 DEF StoreSteps, wire
  <2>5. CASE ServerRestarts
    BY <1>1, <2>3, <2>5 DEF ServerRestarts, Disconnect
  <2> QED
    BY <1>2, <2>4, <2>5
<1>3. CASE \/ UNCHANGED vars \/ ServeIndex \/ ServeChanges \/ ApplyIndex \/ ApplyChanges
           \/ IndexFails \/ ChangesFail \/ PullTimerFires \/ RefreshProjectModel \/ PullActiveOnFocus
  BY <1>1, <1>3 DEF vars, store, wire, ServeIndex, ServeChanges, ApplyIndex, ApplyChanges, IndexFails,
     ChangesFail, PullTimerFires, RefreshProjectModel, PullActiveOnFocus
<1>4. CASE PublishSome
  <2>1. PICK e \in outbox : Publish(e)
    BY <1>4 DEF PublishSome
  <2>2. e \in 0..sync_seq /\ (e # Advisory => e \in 1..sync_seq)
    BY <1>1 DEF Advisory
  <2>3. UNCHANGED <<socket, resume, sync_seq>>
    BY <2>1 DEF Publish
  <2>4. ring' \subseteq 1..sync_seq /\ inbox' \subseteq (0..sync_seq) \cup {Resync}
    BY <1>1, <2>1, <2>2 DEF Publish
  <2>5. gap' \subseteq 1..sync_seq
    BY <1>1, <2>1, <2>2 DEF Publish
  <2> QED
    BY <1>1, <2>3, <2>4, <2>5
<1>5. CASE ReceiveSome \/ Lagged \/ Subscribe \/ SocketCloses
  BY <1>1, <1>5 DEF ReceiveSome, Receive, Lagged, Subscribe, SocketCloses, Disconnect, store
<1>6. CASE RealtimeOpened
  BY <1>1, <1>6 DEF RealtimeOpened, store
<1>7. CASE ReplayForClient
  <2>1. UNCHANGED <<socket, ring, sync_seq>> /\ resume' = NoFrame /\ gap' = {}
    BY <1>7 DEF ReplayForClient, store
  <2>2. inbox' = inbox \cup {Resync} \/ \E kept : kept \subseteq ring /\ inbox' = inbox \cup Replayed(kept)
    BY <1>7 DEF ReplayForClient
  <2>3. ASSUME NEW kept, kept \subseteq ring
        PROVE  Replayed(kept) \subseteq 0..sync_seq
    <3>1. Replayed(kept) \subseteq kept
      BY DEF Replayed, PastFrame
    <3>2. 1..sync_seq \subseteq 0..sync_seq
      BY <1>1
    <3> QED
      BY <1>1, <2>3, <3>1, <3>2
  <2>4. inbox' \subseteq (0..sync_seq) \cup {Resync}
    BY <1>1, <2>2, <2>3
  <2> QED
    BY <1>1, <2>1, <2>4
<1> QED
  BY <1>2, <1>3, <1>4, <1>5, <1>6, <1>7 DEF Next

LEMMA HistoryTyped ==
    ASSUME RInv, Typed, [Next]_vars
    PROVE  unheard' \in 0..sync_seq'
<1>1. unheard \in 0..sync_seq /\ sync_seq \in Nat
  BY DEF Typed, RInv, IInv, StoreTypeOK
<1>2. CASE StoreSteps \/ ServerRestarts
  <2>1. StoreNext
    BY <1>2 DEF StoreSteps, ServerRestarts, StoreNext
  <2>2. sync_seq' \in Nat /\ sync_seq' >= sync_seq
    BY <2>1, StepAges DEF RInv, StoreAges
  <2>3. unheard' \in {unheard, sync_seq'}
    BY <1>2 DEF StoreSteps, ServerRestarts, Disconnect
  <2> QED
    BY <1>1, <2>2, <2>3
<1>3. CASE ~(StoreSteps \/ ServerRestarts)
  <2>1. unheard' \in {unheard, sync_seq} /\ UNCHANGED sync_seq
    BY <1>3 DEF Next, vars, store, ServeIndex, ApplyIndex, IndexFails, ServeChanges, ApplyChanges, ChangesFail,
       PullTimerFires, RefreshProjectModel, PullActiveOnFocus, PublishSome, Publish, ReceiveSome, Receive,
       Lagged, RealtimeOpened, Subscribe, ReplayForClient, SocketCloses, Disconnect
  <2> QED
    BY <1>1, <2>1
<1> QED
  BY <1>2, <1>3

LEMMA NextTyped == RInv /\ Typed /\ [Next]_vars => Typed'
<1> SUFFICES ASSUME RInv, Typed, [Next]_vars
             PROVE  Typed'
  OBVIOUS
<1>1. Filled'
  <2>1. CASE [StoreNext]_store
    BY <2>1, StaysFilled DEF RInv, Typed
  <2>2. CASE PublishSome
    BY <2>2 DEF PublishSome, Publish, Filled, Typed, InTable, Live, Tombstone, rows
  <2>3. [StoreNext]_store \/ PublishSome
    BY TabKeeps DEF Next, vars, StoreSteps, StoreNext, ServerRestarts,
       Subscribe, ReplayForClient, Lagged, SocketCloses
  <2> QED
    BY <2>1, <2>2, <2>3
<1> QED
  BY <1>1, RequestsTyped, ReplicaTyped, FlagsTyped, WireTyped, HistoryTyped DEF Typed

(* Every variable of the tab and of the wire keeps its type.               *)
THEOREM ReadModelTyped == Spec => []TypeOK
<1>1. Init => Typed
  <2> SUFFICES ASSUME Init
               PROVE  Typed
    OBVIOUS
  <2>1. Filled
    BY DEF Init, StoreInit, Filled, InTable, Live, Tombstone
  <2>2. Read(index) /\ Read(changes)
    <3>1. DOMAIN index.got = {} /\ DOMAIN changes.got = {}
      BY DEF Init, Sent, Rest
    <3> QED
      BY <3>1 DEF Read
  <2>3. /\ socket \in {"closed", "opened", "subscribed"} /\ resume \in Nat \cup {NoFrame}
        /\ ring \subseteq 1..sync_seq /\ inbox \subseteq (0..sync_seq) \cup {Resync}
        /\ {pullTimer, pullQueued, pullAfterBootstrap} \subseteq BOOLEAN
        /\ replica \in [Rows -> Image \cup {NoRow}]
        /\ caller.mode \in {"none", "waiting", "settled"}
    BY DEF Init, NoCaller
  <2>4. gap \subseteq 1..sync_seq /\ unheard \in 0..sync_seq
    BY DEF Init, StoreInit
  <2> QED
    BY <2>1, <2>2, <2>3, <2>4 DEF Typed
<1>2. RInv /\ Typed => TypeOK
  BY DEF RInv, IInv, StoreTypeOK, Reads, Phases, Typed, TypeOK
<1> QED
  BY <1>1, <1>2, NextTyped, ReadsHold, PTL DEF Spec

-----------------------------------------------------------------------------
(* What the server tells of its writes.  Every write of its own leaves an  *)
(* event to publish that is newer than all it had handed out, or says      *)
(* nothing of a seq at all.                                                *)
Tells(e) == e = Advisory \/ e > sync_seq

Announced ==
    /\ outbox \subseteq outbox'
    /\ \A id \in Rows : seq'[id] # seq[id] => \E e \in outbox' : Tells(e)

LEMMA StampAnnounces ==
    ASSUME StoreTypeOK, NEW S \in SUBSET Ids, Stamp(S), NEW e, Announce("api", e),
           \A id \in Rows \cap S : Tells(e)
    PROVE  Announced
<1>1. \A id \in Ids \ S : seq'[id] = seq[id]
  BY StampDraws DEF Draws
<1>2. outbox' = outbox \cup {e}
  BY DEF Announce
<1>3. \A id \in Rows : id \in Ids
  BY IssuesAreRows
<1> QED
  BY <1>1, <1>2, <1>3 DEF Announced

LEMMA StampTells ==
    ASSUME StoreTypeOK, NEW S \in SUBSET Ids, Stamp(S), NEW id \in S
    PROVE  Tells(seq'[id])
<1>1. sync_seq < seq'[id] /\ sync_seq \in Nat /\ seq'[id] \in Nat
  BY StampDraws DEF Draws, StoreTypeOK
<1> QED
  BY <1>1 DEF Tells

LEMMA RowAnnounces ==
    ASSUME StoreTypeOK, NEW id \in Rows, NEW v, NEW ls,
           \/ CreateRow(id, v, ls, "api") \/ UpdateRow(id, v, ls, "api")
           \/ DeleteRow(id, "api") \/ RestoreRow(id, "api")
    PROVE  Announced
<1>1. id \in Ids /\ id \notin Comments
  BY Disjoint
<1>2. ASSUME NEW S \in SUBSET Ids, Stamp(S), S \cap Rows \subseteq {id}, Announce("api", seq'[id])
      PROVE  Announced
  <2>1. \A x \in Rows \cap S : Tells(seq'[id])
    BY <1>2, StampTells
  <2> QED
    BY <1>2, <2>1, StampAnnounces
<1>3. CASE CreateRow(id, v, ls, "api")
  BY <1>1, <1>2, <1>3 DEF CreateRow, Write
<1>4. CASE UpdateRow(id, v, ls, "api")
  <2> DEFINE wanted == (UNION ls) \cap labels
             touched == ls # {} /\ worn[id] \cup wanted # {}
             stamped == (IF v # {} THEN {id} ELSE {})
                         \cup (IF touched THEN BumpedByLabels({id}) ELSE {})
  <2>1. Stamp(stamped) /\ Announce("api", seq'[id])
    BY <1>4 DEF UpdateRow, Write
  <2>2. stamped \subseteq {id}
    BY DEF BumpedByLabels
  <2> HIDE DEF stamped
  <2> QED
    BY <1>1, <1>2, <2>1, <2>2
<1>5. CASE DeleteRow(id, "api")
  <2>1. CascadesTo(id) \subseteq Comments /\ Comments \subseteq Ids /\ Rows \cap Comments = {}
    BY StoreAssumption DEF CascadesTo, ChildrenOf, Ids
  <2>2. Stamp({id} \cup CascadesTo(id)) /\ Announce("api", seq'[id])
    BY <1>5 DEF DeleteRow, Write
  <2> QED
    BY <1>1, <1>2, <2>1, <2>2
<1>6. CASE RestoreRow(id, "api")
  <2>1. Revived(id) \subseteq Comments /\ Comments \subseteq Ids /\ Rows \cap Comments = {}
    BY StoreAssumption DEF Revived, ChildrenOf, Ids
  <2>2. Stamp({id} \cup Revived(id)) /\ Announce("api", seq'[id])
    BY <1>6 DEF RestoreRow, Write
  <2> QED
    BY <1>1, <1>2, <2>1, <2>2
<1> QED
  BY <1>3, <1>4, <1>5, <1>6

LEMMA CommentAnnounces ==
    ASSUME StoreTypeOK, NEW c \in Comments, NEW p, WriteComment(c, p, "api")
    PROVE  Announced
<1> DEFINE S == {c} \cup BumpedByComment(p)
<1>1. S \in SUBSET Ids /\ Stamp(S) /\ Announce("api", seq'[c])
  BY IssuesAreRows DEF WriteComment, Write, BumpedByComment, Ids
<1>2. Tells(seq'[c])
  BY <1>1, StampTells
<1> QED
  BY <1>1, <1>2, StampAnnounces

LEMMA LabelAnnounces ==
    ASSUME StoreTypeOK, LabelStep("api")
    PROVE  Announced
<1>1. PICK S \in SUBSET Ids : Stamp(S) /\ Announce("api", Advisory)
  <2>1. \A l : BumpedByLabels(Wearing(l)) \in SUBSET Ids /\ {} \in SUBSET Ids
    BY IssuesAreRows DEF BumpedByLabels
  <2> QED
    BY <2>1 DEF LabelStep, CreateLabel, DeleteLabel, MergeLabel, DropLabel, Write
<1> QED
  BY <1>1, StampAnnounces DEF Tells

(* The CLI and the sweep publish nothing.                                  *)
LEMMA OthersAreSilent ==
    ASSUME StoreStep,
           ~(IssueStep("api") \/ PageStep("api") \/ CommentStep("api") \/ LabelStep("api"))
    PROVE  UNCHANGED outbox
<1>1. ASSUME NEW via, via # "api",
             IssueStep(via) \/ PageStep(via) \/ CommentStep(via) \/ LabelStep(via)
      PROVE  UNCHANGED outbox
  <2>1. \A s : Announce(via, s) => UNCHANGED outbox
    BY <1>1 DEF Announce
  <2>2. CASE IssueStep(via) \/ PageStep(via)
    BY <2>1, <2>2
    DEF IssueStep, CreateIssue, UpdateIssue, DeleteIssue, RestoreIssue,
        PageStep, CreatePage, UpdatePage, DeletePage, RestorePage,
        CreateRow, UpdateRow, DeleteRow, RestoreRow
  <2>3. CASE CommentStep(via)
    BY <2>1, <2>3 DEF CommentStep, AddComment, EditComment, DeleteComment, WriteComment
  <2>4. CASE LabelStep(via)
    BY <2>1, <2>4 DEF LabelStep, CreateLabel, DeleteLabel, MergeLabel, DropLabel
  <2> QED
    BY <1>1, <2>2, <2>3, <2>4
<1>2. CASE SweepStep \/ ForeignWrite \/ Tick
  BY <1>2 DEF SweepStep, PurgeComments, PurgeIssues, PurgePages, PurgeRows, SweepFails,
     ForeignWrite, Tick
<1> QED
  BY <1>1, <1>2 DEF StoreStep

LEMMA StepAnnounces ==
    ASSUME StoreTypeOK, StoreStep
    PROVE  Silent \/ Announced
<1>1. CASE IssueStep("api") \/ PageStep("api")
  <2>1. \E id \in Rows :
            \/ \E v \in Values, ls \in SUBSET Labels : CreateRow(id, v, ls, "api")
            \/ \E v \in Optional(Values), ls \in Optional(SUBSET Labels) : UpdateRow(id, v, ls, "api")
            \/ DeleteRow(id, "api") \/ RestoreRow(id, "api")
    BY <1>1, IssuesAreRows
    DEF IssueStep, CreateIssue, UpdateIssue, DeleteIssue, RestoreIssue,
        PageStep, CreatePage, UpdatePage, DeletePage, RestorePage, Rows
  <2> QED
    BY <2>1, RowAnnounces
<1>2. CASE CommentStep("api")
  BY <1>2, CommentAnnounces DEF CommentStep, AddComment, EditComment, DeleteComment
<1>3. CASE LabelStep("api")
  BY <1>3, LabelAnnounces
<1>4. CASE UNCHANGED outbox
  BY <1>4 DEF Silent, Announced, Tells
<1> QED
  BY <1>1, <1>2, <1>3, <1>4, OthersAreSilent

-----------------------------------------------------------------------------
(* What is still to come to a tab that lacks a row: the request in flight  *)
(* that will bring it, or what makes the tab ask.                          *)
WasRead(request) == request.stage \in {"cursor", "rows", "issues", "pages", "issue_labels", "done"}

(* The positions that the tab has reached, or will once an answer lands.   *)
Reached(k) ==
    \/ k = cursor
    \/ WasRead(index) /\ k = index.cursor
    \/ WasRead(changes) /\ ~changes.more /\ k = changes.cursor

Drains(id) ==
    \/ changes.stage = "sent"
    \/ WasRead(changes) /\ (changes.more \/ pullQueued \/ seq[id] <= changes.cursor)

Loads(id) ==
    /\ status = "loading"
    /\ \/ pullAfterBootstrap \/ index.stage = "sent"
       \/ WasRead(index) /\ seq[id] <= index.cursor

(* An event on its way that the tab will not take for a duplicate of what  *)
(* it has, for as long as it lacks the row.                                *)
Wakes(e, id) ==
    \/ e \in {Advisory, Resync}
    \/ \A k \in Nat : Reached(k) /\ seq[id] > k => e > k

(* The events afoot: to be published, under way, or for the replay of the  *)
(* resume frame to bring.                                                  *)
Owed == IF resume = NoFrame THEN {} ELSE PastFrame(gap)
Afoot == outbox \cup inbox \cup Owed

Coming(id) ==
    \/ socket = "closed" \/ status = "cold" \/ pullTimer
    \/ "lost" \in {index.stage, changes.stage}
    \/ Drains(id) \/ Loads(id)
    \/ \E e \in Afoot : Wakes(e, id)

(* A drain that is over leaves no round behind, and a row that the tab     *)
(* lacks is coming, unless the code owes no word of it.                    *)
NoRoundLeft == changes.stage = "none" => ~pullQueued
Due(id) == InTable(id) /\ seq[id] > cursor /\ seq[id] > unheard
AllComing == \A id \in Rows : Due(id) => Coming(id)

Served == NoRoundLeft /\ AllComing

(* Once a pull is under way or scheduled, every row is coming.             *)
Asked ==
    \/ status' = "cold" \/ pullTimer' \/ changes'.stage \in {"sent", "lost"}
    \/ WasRead(changes') /\ pullQueued'
    \/ status' = "loading" /\ (pullAfterBootstrap' \/ index'.stage = "sent")

LEMMA AskedServes ==
    ASSUME Asked
    PROVE  \A id \in Rows : Coming(id)'
BY DEF Asked, Coming, Drains, Loads, WasRead

LEMMA ScheduledIsAsked ==
    ASSUME Phases, SchedulePull
    PROVE  Asked
BY NothingRead DEF SchedulePull, SendIndex, Asked, Phases

LEMMA PulledIsAsked ==
    ASSUME Phases, Pull
    PROVE  Asked
<1>1. CASE JoinBootstrap
  BY <1>1 DEF JoinBootstrap, Asked
<1>2. CASE status = "cold" /\ status' = "loading" /\ SendIndex
  BY <1>2, NothingRead DEF SendIndex, Asked
<1>3. CASE status = "ready" /\ changes.stage # "none" /\ QueueRun
  <2>1. changes'.stage \in {"sent", "lost"} \/ WasRead(changes')
    BY <1>3 DEF QueueRun, Phases, WasRead
  <2> QED
    BY <1>3, <2>1 DEF QueueRun, Asked
<1>4. CASE status = "ready" /\ changes.stage = "none" /\ SendChanges(cursor)
  <2>1. Sent(cursor).stage = "sent"
    BY NothingRead
  <2>2. changes'.stage = "sent"
    BY <1>4, <2>1 DEF SendChanges
  <2> QED
    BY <2>2 DEF Asked
<1> QED
  BY <1>1, <1>2, <1>3, <1>4 DEF Pull

(* While the server is away the tab may ask in vain.                       *)
LEMMA ClosedServes ==
    ASSUME socket' = "closed", NoRoundLeft'
    PROVE  Served'
BY DEF Served, AllComing, Coming

LEMMA AskingInVain ==
    ASSUME RInv, Served, Pull \/ SchedulePull
    PROVE  NoRoundLeft'
<1>1. CASE SchedulePull
  BY <1>1 DEF NoRoundLeft, SchedulePull, Served
<1>2. CASE JoinBootstrap
  BY <1>2 DEF NoRoundLeft, JoinBootstrap, Served
<1>3. CASE UNCHANGED <<pullQueued, changes>>
  BY <1>3 DEF NoRoundLeft, Served
<1>4. CASE changes.stage # "none" /\ QueueRun
  BY <1>4 DEF NoRoundLeft, QueueRun
<1>5. CASE SendChanges(cursor)
  BY <1>5, NothingRead DEF NoRoundLeft, SendChanges
<1> QED
  BY <1>1, <1>2, <1>3, <1>4, <1>5 DEF Pull

(* Everything asked for is served.                                         *)
LEMMA AskServes ==
    ASSUME RInv, Served, Pull \/ SchedulePull
    PROVE  Served'
<1>1. NoRoundLeft'
  BY AskingInVain
<1>2. AllComing'
  BY ScheduledIsAsked, PulledIsAsked, AskedServes DEF AllComing, RInv, Reads
<1> QED
  BY <1>1, <1>2 DEF Served

(* No row, in a table or not, has a seq past the counter.                  *)
Counted == \A id \in Ids : seq[id] <= sync_seq

LEMMA NextCounted == RInv /\ Counted /\ [Next]_vars => Counted'
<1> SUFFICES ASSUME RInv, Counted, [Next]_vars
             PROVE  Counted'
  OBVIOUS
<1>1. CASE StoreNext
  <2>1. PICK S : Draws(S)
    BY <1>1, StepDraws DEF CoveredDraw, RInv
  <2>2. sync_seq \in Nat /\ \A id \in Ids : seq[id] \in Nat /\ seq'[id] \in Nat
    BY <2>1 DEF RInv, IInv, StoreTypeOK, Draws
  <2> QED
    BY <2>1, <2>2 DEF Draws, Counted
<1>2. CASE UNCHANGED <<sync_seq, seq>>
  BY <1>2 DEF Counted
<1>3. StoreNext \/ UNCHANGED <<sync_seq, seq>>
  BY TabKeeps DEF Next, vars, StoreSteps, StoreNext, ServerRestarts, Subscribe, ReplayForClient,
     Lagged, SocketCloses, PublishSome, Publish, store, rows
<1> QED
  BY <1>1, <1>2, <1>3

(* Where the code owes no word, nothing is due.                            *)
LEMMA NothingDue ==
    ASSUME IInv', Counted', NoRoundLeft', unheard' = sync_seq'
    PROVE  Served'
<1>1. \A id \in Rows : id \in Ids
  BY IssuesAreRows
<1>2. \A id \in Rows : seq'[id] \in Nat /\ seq'[id] <= sync_seq' /\ sync_seq' \in Nat
  BY <1>1 DEF IInv, StoreTypeOK, Counted
<1>3. \A id \in Rows : ~Due(id)'
  BY <1>2 DEF Due
<1> QED
  BY <1>3 DEF Served, AllComing

(* Writes: what they stamp they announce past everything the tab has, or   *)
(* they are silent.                                                        *)
LEMMA WritesServe ==
    ASSUME RInv, Counted, TypeOK, Served, StoreSteps, RInv', Counted'
    PROVE  Served'
<1>0. /\ UNCHANGED <<status, cursor, pullTimer, pullQueued, pullAfterBootstrap>>
      /\ UNCHANGED <<index, changes, socket, inbox, resume, gap>> /\ StoreStep
  BY DEF StoreSteps, tab, requests, wire
<1>2. StoreAges
  BY <1>0, StepAges DEF RInv, StoreNext
<1>3. NoRoundLeft'
  BY <1>0 DEF Served, NoRoundLeft
<1>4. CASE Silent
  <2>1. unheard' = sync_seq'
    BY <1>4 DEF StoreSteps
  <2> QED
    BY <1>3, <2>1, NothingDue DEF RInv
<1>5. CASE ~Silent
  <2>0. Announced /\ UNCHANGED unheard
    BY <1>0, <1>5, StepAnnounces DEF RInv, IInv, StoreSteps
  <2> SUFFICES ASSUME NEW id \in Rows, Due(id)'
               PROVE  Coming(id)'
    BY <1>3 DEF Served, AllComing
  <2>4. InTable(id)' /\ seq'[id] > cursor /\ seq'[id] > unheard
    BY <1>0, <2>0 DEF Due
  <2>5. Afoot \subseteq Afoot' /\ outbox' \subseteq Afoot'
    BY <1>0, <2>0 DEF Afoot, Owed, PastFrame, Announced
  <2>1. CASE seq'[id] = seq[id]
    <3>1. Coming(id)
      <4>1. ~(seq'[id] > sync_seq)
        BY <1>2, <2>1, IssuesAreRows DEF Counted, StoreAges, Ages
      <4>2. InTable(id)
        BY <1>2, <2>4, <4>1 DEF StoreAges, Ages
      <4> QED
        BY <1>0, <2>1, <2>4, <4>2 DEF Served, AllComing, Due
    <3>2. Drains(id) => Drains(id)'
      BY <1>0, <2>1 DEF Drains, WasRead
    <3>3. Loads(id) => Loads(id)'
      BY <1>0, <2>1 DEF Loads, WasRead
    <3>4. ASSUME NEW e \in Afoot, Wakes(e, id)
          PROVE  e \in Afoot' /\ Wakes(e, id)'
      BY <1>0, <2>1, <2>5, <3>4 DEF Wakes, Reached, WasRead
    <3> QED
      BY <1>0, <3>1, <3>2, <3>3, <3>4 DEF Coming
  <2>2. CASE seq'[id] # seq[id]
    <3>1. PICK e \in outbox' : Tells(e)
      BY <2>0, <2>2 DEF Announced
    <3>2. e \in Int /\ sync_seq \in Nat
      BY <3>1 DEF IInv, StoreTypeOK, RInv
    <3>3. \A k \in Nat : Reached(k) => k <= sync_seq
      BY <3>2 DEF Reached, RInv, Reads, Phases
    <3>4. \A k \in Nat : Reached(k)' => Reached(k)
      BY <1>0 DEF Reached, WasRead
    <3>5. Wakes(e, id)'
      BY <3>1, <3>2, <3>3, <3>4 DEF Wakes, Tells
    <3>6. e \in Afoot'
      BY <2>5, <3>1
    <3> QED
      BY <3>5, <3>6 DEF Coming
  <2> QED
    BY <2>1, <2>2
<1> QED
  BY <1>4, <1>5

(* The wire.  Wakes looks at the tab alone.                                *)
LEMMA SameTabServes ==
    ASSUME Served, UNCHANGED <<tab, requests, seq, state, unheard>>,
           \/ socket' = "closed"
           \/ /\ socket # "closed"
              /\ \A id \in Rows, e \in Afoot :
                    seq[id] > cursor /\ Wakes(e, id) => \E d \in Afoot' : Wakes(d, id)
    PROVE  Served'
<1>1. /\ UNCHANGED <<status, cursor, pullTimer, pullQueued, pullAfterBootstrap>>
      /\ UNCHANGED <<index, changes>>
  BY DEF tab, requests
<1>2. NoRoundLeft'
  BY <1>1 DEF Served, NoRoundLeft
<1>3. CASE socket' = "closed"
  BY <1>2, <1>3, ClosedServes
<1>4. CASE socket' # "closed"
  <2>2. ASSUME NEW id \in Rows, Due(id)'
        PROVE  Coming(id)'
    <3>1. Coming(id) /\ seq[id] > cursor
      BY <1>1, <2>2 DEF Served, AllComing, Due, InTable, Live, Tombstone
    <3>2. \A d : Wakes(d, id) => Wakes(d, id)'
      BY <1>1 DEF Wakes, Reached
    <3>3. (Drains(id) => Drains(id)') /\ (Loads(id) => Loads(id)')
      BY <1>1 DEF Drains, Loads
    <3>4. (\E e \in Afoot : Wakes(e, id)) => \E d \in Afoot' : Wakes(d, id)'
      BY <1>4, <3>1, <3>2
    <3> QED
      BY <1>1, <1>4, <3>1, <3>3, <3>4 DEF Coming
  <2> QED
    BY <1>2, <2>2 DEF Served, AllComing
<1> QED
  BY <1>3, <1>4

(* The tab's resume frame is never ahead of its cursor.                    *)
Framed == resume = NoFrame \/ (resume \in Nat /\ resume <= cursor)

LEMMA NextFramed == RInv /\ Framed /\ [Next]_vars => Framed'
<1> SUFFICES ASSUME RInv, Framed, [Next]_vars
             PROVE  Framed'
  OBVIOUS
<1>0. cursor \in Nat /\ index.cursor \in Nat /\ changes.cursor \in Nat
  BY DEF RInv, Reads, Phases, IInv, StoreTypeOK
<1>1. CASE ApplyIndex \/ ApplyChanges
  <2>1. UNCHANGED resume /\ (cursor' = Max({cursor, index.cursor}) \/ cursor' = Max({cursor, changes.cursor}))
    BY <1>1 DEF ApplyIndex, ApplyChanges, wire
  <2>2. cursor' \in Nat /\ cursor' >= cursor
    BY <1>0, <2>1, MaxOfTwo
  <2> QED
    BY <1>0, <2>1, <2>2 DEF Framed
<1>2. CASE RealtimeOpened
  BY <1>0, <1>2 DEF RealtimeOpened, SchedulePull, Framed
<1>3. CASE ~(ApplyIndex \/ ApplyChanges \/ RealtimeOpened)
  <2>1. UNCHANGED cursor /\ (resume' = resume \/ resume' = NoFrame)
    BY <1>3 DEF Next, vars, tab, wire, StoreSteps, ServeIndex, IndexFails, ServeChanges, ChangesFail,
       PullTimerFires, RefreshProjectModel, PullActiveOnFocus, Pull, SchedulePull,
       PublishSome, Publish, ReceiveSome, Receive, Lagged, Subscribe,
       ReplayForClient, SocketCloses, ServerRestarts, Disconnect
  <2> QED
    BY <2>1 DEF Framed
<1> QED
  BY <1>1, <1>2, <1>3

LEMMA PublishServes ==
    ASSUME RInv, RInv', Counted', Served, TypeOK, Framed, PublishSome
    PROVE  Served'
<1>1. PICK e \in outbox : Publish(e)
  BY DEF PublishSome
<1>2. /\ UNCHANGED <<tab, requests, seq, state>>
      /\ UNCHANGED <<sync_seq, socket, resume, pullQueued, changes>>
      /\ outbox' = outbox \ {e}
  BY <1>1 DEF Publish, rows, tab, requests
<1>3. CASE socket = "closed"
  BY <1>1, <1>2, <1>3, SameTabServes DEF Publish
<1>4. CASE socket = "subscribed"
  <2>1. Afoot' = Afoot /\ UNCHANGED unheard
    BY <1>1, <1>2, <1>4 DEF Publish, Afoot, Owed, PastFrame
  <2> QED
    BY <1>2, <1>4, <2>1, SameTabServes
<1>5. CASE socket = "opened" /\ resume # NoFrame /\ e # Advisory
  <2>1. gap' = gap \cup {e} /\ inbox' = inbox /\ UNCHANGED unheard
    BY <1>1, <1>5 DEF Publish
  <2>2. ASSUME NEW d \in Afoot, d \notin Afoot'
        PROVE  d = e /\ ~(e > resume)
    BY <1>2, <1>5, <2>1, <2>2 DEF Afoot, Owed, PastFrame
  <2>3. /\ resume \in Nat /\ cursor \in Nat /\ resume <= cursor
        /\ e \in Nat /\ e # Resync
    BY <1>5 DEF Framed, TypeOK, Resync, RInv, IInv, StoreTypeOK
  <2>4. ASSUME NEW id \in Rows, NEW d \in Afoot, seq[id] > cursor, Wakes(d, id)
        PROVE  d \in Afoot'
    <3>1. d \notin {Advisory, Resync} => d > cursor
      BY <2>3, <2>4 DEF Wakes, Reached
    <3> QED
      BY <1>5, <2>2, <2>3, <3>1
  <2> QED
    BY <1>2, <1>5, <2>1, <2>4, SameTabServes
<1>6. CASE socket = "opened" /\ ~(resume # NoFrame /\ e # Advisory)
  <2>1. unheard' = sync_seq'
    BY <1>1, <1>2, <1>6 DEF Publish
  <2>2. NoRoundLeft'
    BY <1>2 DEF Served, NoRoundLeft
  <2> QED
    BY <2>1, <2>2, NothingDue DEF RInv
<1> QED
  BY <1>3, <1>4, <1>5, <1>6 DEF TypeOK

(* The replay brings what is owed, or what it leaves out is no longer due. *)
LEMMA ReplayServes ==
    ASSUME RInv', Counted', Served, ReplayForClient
    PROVE  Served'
<1>1. /\ UNCHANGED <<tab, requests, seq, state>> /\ UNCHANGED <<outbox, sync_seq, pullQueued, changes>>
      /\ socket # "closed" /\ resume # NoFrame
  BY DEF ReplayForClient, store, rows, tab, requests
<1>2. CASE inbox' = inbox \cup {Resync} /\ UNCHANGED unheard
  <2>1. Resync \in Afoot' /\ \A id : Wakes(Resync, id)
    BY <1>2 DEF Afoot, Wakes
  <2> QED
    BY <1>1, <1>2, <2>1, SameTabServes
<1>3. ASSUME NEW kept, inbox' = inbox \cup Replayed(kept),
             unheard' = IF PastFrame(gap) \subseteq kept THEN unheard ELSE sync_seq
      PROVE  Served'
  <2>1. CASE PastFrame(gap) \subseteq kept
    <3>1. Owed \subseteq inbox'
      BY <1>1, <1>3, <2>1 DEF Owed, Replayed, PastFrame
    <3>2. Afoot \subseteq Afoot'
      BY <1>1, <1>3, <3>1 DEF Afoot
    <3> QED
      BY <1>1, <1>3, <2>1, <3>2, SameTabServes
  <2>2. CASE ~(PastFrame(gap) \subseteq kept)
    <3>1. unheard' = sync_seq' /\ NoRoundLeft'
      BY <1>1, <1>3, <2>2 DEF Served, NoRoundLeft
    <3> QED
      BY <3>1, NothingDue DEF RInv
  <2> QED
    BY <2>1, <2>2
<1> QED
  BY <1>2, <1>3 DEF ReplayForClient

(* A frame that is told of its loss.                                       *)
LEMMA LagServes ==
    ASSUME Served, Lagged
    PROVE  Served'
<1>1. /\ UNCHANGED <<status, cursor, pullTimer, pullQueued, pullAfterBootstrap>>
      /\ UNCHANGED changes /\ Resync \in Afoot'
  BY DEF Lagged, tab, requests, Afoot
<1>2. NoRoundLeft'
  BY <1>1 DEF Served, NoRoundLeft
<1>3. \A id : Wakes(Resync, id)'
  BY DEF Wakes
<1>4. AllComing'
  BY <1>1, <1>3 DEF AllComing, Coming
<1> QED
  BY <1>2, <1>4 DEF Served

LEMMA RestartServes ==
    ASSUME RInv, Served, ServerRestarts
    PROVE  Served'
<1>1. socket' = "closed" /\ UNCHANGED pullQueued /\ changes' = Lost(changes)
  BY DEF ServerRestarts, Disconnect, tab
<1>2. NoRoundLeft'
  BY <1>1, CutOff DEF StillOrLost, Served, NoRoundLeft
<1> QED
  BY <1>1, <1>2, ClosedServes

LEMMA ReceiveServes ==
    ASSUME RInv, Served, TypeOK, ReceiveSome
    PROVE  Served'
<1>1. PICK e \in inbox : Receive(e)
  BY DEF ReceiveSome
<1>2. /\ UNCHANGED <<socket, resume, gap, unheard>> /\ UNCHANGED <<seq, state, outbox>>
      /\ inbox' = inbox \ {e}
  BY <1>1 DEF Receive, store, rows
<1>3. CASE SchedulePull
  BY <1>2, <1>3, AskServes
<1>4. CASE Duplicate(e) /\ UNCHANGED <<tab, requests>>
  <2>1. /\ UNCHANGED <<status, cursor, pullTimer, pullQueued, pullAfterBootstrap>>
        /\ UNCHANGED <<index, changes>>
    BY <1>4 DEF tab, requests
  <2>2. NoRoundLeft'
    BY <1>2, <2>1 DEF Served, NoRoundLeft
  <2>3. e \notin {Resync, Advisory} /\ e <= cursor /\ e \in Int /\ cursor \in Nat
    BY <1>4 DEF Duplicate, TypeOK, RInv, Reads, Phases, IInv, StoreTypeOK, Resync
  <2>4. ASSUME NEW id \in Rows, Due(id)'
        PROVE  Coming(id)'
    <3>1. Coming(id) /\ seq[id] > cursor
      BY <1>2, <2>1, <2>4 DEF Served, AllComing, Due, InTable, Live, Tombstone
    <3>2. ~Wakes(e, id)
      BY <2>3, <3>1 DEF Wakes, Reached
    <3>3. ASSUME NEW d \in Afoot, Wakes(d, id)
          PROVE  d \in Afoot' /\ Wakes(d, id)'
      BY <1>2, <2>1, <3>2, <3>3 DEF Wakes, Reached, Afoot, Owed, PastFrame
    <3>4. (Drains(id) => Drains(id)') /\ (Loads(id) => Loads(id)')
      BY <1>2, <2>1 DEF Drains, Loads
    <3> QED
      BY <1>2, <2>1, <3>1, <3>3, <3>4 DEF Coming
  <2> QED
    BY <2>2, <2>4 DEF Served, AllComing
<1> QED
  BY <1>1, <1>3, <1>4 DEF Receive

-----------------------------------------------------------------------------
(* The requests.                                                           *)
LEMMA ServeIndexServes ==
    ASSUME RInv, TypeOK, Counted, Served, ServeIndex
    PROVE  Served'
<1>0. /\ UNCHANGED <<status, cursor, pullTimer, pullQueued, pullAfterBootstrap>>
      /\ UNCHANGED <<changes, socket, Afoot, unheard, seq, state>> /\ IndexStep
  BY DEF ServeIndex, tab, wire, store, rows, Afoot, Owed, PastFrame
<1>1. /\ WasRead(index') /\ index.stage \notin {"none", "lost"} /\ index'.stage # "lost"
      /\ IF index.stage = "sent" THEN index'.cursor = sync_seq
         ELSE WasRead(index) /\ index'.cursor = index.cursor
  BY <1>0 DEF IndexStep, IndexSelect, IndexCursor, WasRead
<1>2. NoRoundLeft'
  BY <1>0, <1>1 DEF Served, NoRoundLeft
<1>3. ASSUME NEW id \in Rows, Due(id)'
      PROVE  Coming(id)'
  <2>1. Coming(id) /\ seq[id] <= sync_seq /\ id \in Ids
    BY <1>0, <1>3, IssuesAreRows DEF Served, AllComing, Due, Counted, InTable, Live, Tombstone
  <2>2. status' = "loading"
    BY <1>0, <1>1 DEF RInv, Reads, Phases
  <2>3. CASE index.stage = "sent"
    BY <1>0, <1>1, <2>1, <2>2, <2>3 DEF Coming, Loads
  <2>4. CASE index.stage # "sent"
    <3>1. \A k \in Nat : Reached(k)' => Reached(k)
      BY <1>0, <1>1, <2>4 DEF Reached
    <3>2. ASSUME NEW e \in Afoot, Wakes(e, id)
          PROVE  e \in Afoot' /\ Wakes(e, id)'
      BY <1>0, <3>1, <3>2 DEF Wakes
    <3>3. (Drains(id) => Drains(id)') /\ (Loads(id) => Loads(id)')
      BY <1>0, <1>1, <2>4 DEF Drains, Loads
    <3> QED
      BY <1>0, <1>1, <2>1, <3>2, <3>3 DEF Coming
  <2> QED
    BY <2>3, <2>4
<1> QED
  BY <1>2, <1>3 DEF Served, AllComing

LEMMA ServeChangesServes ==
    ASSUME RInv, TypeOK, Counted, Served, ServeChanges
    PROVE  Served'
<1>0. /\ UNCHANGED <<status, cursor, pullTimer, pullQueued, pullAfterBootstrap>>
      /\ UNCHANGED <<index, socket, Afoot, unheard, seq, state>> /\ ChangesStep
  BY DEF ServeChanges, tab, wire, store, rows, Afoot, Owed, PastFrame
<1>1. WasRead(changes') /\ changes.stage \notin {"none", "lost"} /\ changes'.stage \notin {"none", "lost"}
  BY <1>0 DEF ChangesStep, ListChanges, LabelSelect, WasRead
<1>2. NoRoundLeft'
  BY <1>0, <1>1 DEF Served, NoRoundLeft
<1>3. ASSUME NEW id \in Rows, Due(id)'
      PROVE  Coming(id)'
  <2>1. Coming(id) /\ InTable(id) /\ id \in Ids
    BY <1>0, <1>3, IssuesAreRows DEF Served, AllComing, Due, InTable, Live, Tombstone
  <2>2. CASE changes.stage = "sent" /\ ListChanges
    <3> DEFINE page == Oldest(changes.cursor, Limit)
               last == LastSeq(page, changes.cursor)
    <3>1. changes'.cursor = last /\ changes'.more = (Oldest(changes.cursor, Limit + 1) # page)
      BY <2>2 DEF ListChanges
    <3>2. changes.cursor \in 0..sync_seq /\ changes.cursor \in Nat /\ changes.cursor = cursor
          /\ Limit \in Nat /\ Limit \in Nat \ {0} /\ IInv
      BY <2>2, ReadModelAssumption DEF RInv, Reads, Phases, IInv, StoreTypeOK
    <3>3. \A x \in page : seq[x] <= last
      BY <3>2, PageHasNoGap
    <3>4. ~changes'.more => \A x \in Ids : InTable(x) /\ seq[x] > changes.cursor => x \in page
      BY <3>1, <3>2, LastPageHasAll
    <3> HIDE DEF page, last
    <3>5. changes'.more \/ seq'[id] <= changes'.cursor
      BY <1>0, <1>3, <2>1, <3>1, <3>2, <3>3, <3>4 DEF Due
    <3> QED
      BY <1>1, <3>5 DEF Coming, Drains
  <2>3. CASE LabelSelect("rows", "issue_labels", Issues) \/ LabelSelect("issue_labels", "done", Pages)
    <3>1. /\ changes'.more = changes.more /\ changes'.cursor = changes.cursor
          /\ WasRead(changes) /\ changes.stage # "sent"
      BY <2>3 DEF LabelSelect, WasRead
    <3>2. \A k \in Nat : Reached(k)' => Reached(k)
      BY <1>0, <3>1 DEF Reached
    <3>3. ASSUME NEW e \in Afoot, Wakes(e, id)
          PROVE  e \in Afoot' /\ Wakes(e, id)'
      BY <1>0, <3>2, <3>3 DEF Wakes
    <3>4. (Drains(id) => Drains(id)') /\ (Loads(id) => Loads(id)')
      BY <1>0, <1>1, <3>1 DEF Drains, Loads
    <3> QED
      BY <1>0, <1>1, <2>1, <3>3, <3>4 DEF Coming
  <2> QED
    BY <1>0, <2>2, <2>3 DEF ChangesStep
<1> QED
  BY <1>2, <1>3 DEF Served, AllComing

(* A snapshot lands.                                                       *)
LEMMA ApplyIndexServes ==
    ASSUME RInv, TypeOK, Counted, Served, ApplyIndex
    PROVE  Served'
<1>0. /\ UNCHANGED <<pullQueued, changes, socket, Afoot, unheard, seq, state>>
      /\ status' = "ready" /\ index' = Rest /\ pullTimer' = (pullTimer \/ pullAfterBootstrap)
      /\ cursor' = Max({cursor, index.cursor}) /\ index.stage = "done"
  BY DEF ApplyIndex, CatchUp, wire, store, rows, Afoot, Owed, PastFrame
<1>1. /\ cursor \in Nat /\ index.cursor \in Nat /\ status = "loading"
      /\ changes.stage = "none" /\ Rest.stage = "none" /\ WasRead(index)
  <2>1. Rest.stage = "none"
    BY NothingRead
  <2>2. WasRead(index)
    BY <1>0 DEF WasRead
  <2>3. Phases /\ sync_seq \in Nat
    BY DEF RInv, Reads, IInv, StoreTypeOK
  <2>4. cursor \in Nat /\ index.cursor \in Nat
    BY <2>3 DEF Phases
  <2>5. status = "loading" /\ changes.stage = "none"
    BY <1>0, <2>3 DEF Phases
  <2> QED
    BY <2>1, <2>2, <2>4, <2>5
<1>2. cursor' = IF cursor >= index.cursor THEN cursor ELSE index.cursor
  BY <1>0, <1>1, MaxOfTwo
<1>3. NoRoundLeft'
  BY <1>0, <1>1 DEF Served, NoRoundLeft
<1>4. ASSUME NEW id \in Rows, Due(id)'
      PROVE  Coming(id)'
  <2>1. id \in Ids /\ seq[id] \in Nat /\ InTable(id)
    BY <1>0, <1>4, IssuesAreRows DEF RInv, IInv, StoreTypeOK, Due, InTable, Live, Tombstone
  <2>2. seq[id] > cursor /\ ~(seq[id] <= index.cursor)
    BY <1>0, <1>1, <1>2, <1>4, <2>1 DEF Due
  <2>3. Coming(id)
    BY <1>0, <1>4, <2>1, <2>2 DEF Served, AllComing, Due
  <2>4. ~Drains(id) /\ (Loads(id) => pullAfterBootstrap) /\ status # "cold"
    BY <1>0, <1>1, <2>2 DEF Drains, Loads, WasRead
  <2>5. \A k \in Nat : Reached(k)' => Reached(k)
    BY <1>0, <1>1, <1>2 DEF Reached, WasRead
  <2>6. ASSUME NEW e \in Afoot, Wakes(e, id)
        PROVE  e \in Afoot' /\ Wakes(e, id)'
    BY <1>0, <2>5, <2>6 DEF Wakes
  <2> QED
    BY <1>0, <2>3, <2>4, <2>6 DEF Coming
<1> QED
  BY <1>3, <1>4 DEF Served, AllComing

(* A page lands.                                                           *)
LEMMA ApplyChangesServes ==
    ASSUME RInv, TypeOK, Counted, Served, ApplyChanges
    PROVE  Served'
<1>0. /\ UNCHANGED <<status, index, pullTimer, pullAfterBootstrap, socket, Afoot, unheard, seq, state>>
      /\ changes.stage = "done" /\ cursor' = Max({cursor, changes.cursor})
      /\ pullQueued' = (pullQueued /\ changes.more)
      /\ IF changes.more \/ pullQueued THEN changes' = Sent(cursor') ELSE changes' = Rest
  BY DEF ApplyChanges, SendChanges, wire, store, rows, Afoot, Owed, PastFrame
<1>1. /\ cursor \in Nat /\ changes.cursor \in Nat /\ WasRead(changes)
      /\ Rest.stage = "none" /\ Sent(cursor').stage = "sent"
  BY <1>0, NothingRead DEF RInv, Reads, Phases, IInv, StoreTypeOK, WasRead
<1>2. cursor' = IF cursor >= changes.cursor THEN cursor ELSE changes.cursor
  BY <1>0, <1>1, MaxOfTwo
<1>3. NoRoundLeft'
  BY <1>0, <1>1 DEF Served, NoRoundLeft
<1>4. CASE changes.more \/ pullQueued
  BY <1>0, <1>1, <1>3, <1>4, AskedServes DEF Asked, Served, AllComing
<1>5. CASE ~(changes.more \/ pullQueued)
  <2>1. ASSUME NEW id \in Rows, Due(id)'
        PROVE  Coming(id)'
    <3>1. id \in Ids /\ seq[id] \in Nat /\ InTable(id)
      BY <1>0, <2>1, IssuesAreRows DEF RInv, IInv, StoreTypeOK, Due, InTable, Live, Tombstone
    <3>2. seq[id] > cursor /\ ~(seq[id] <= changes.cursor)
      BY <1>0, <1>1, <1>2, <2>1, <3>1 DEF Due
    <3>3. Coming(id)
      BY <1>0, <2>1, <3>1, <3>2 DEF Served, AllComing, Due
    <3>4. ~Drains(id) /\ (Loads(id) => Loads(id)')
      BY <1>0, <1>1, <1>5, <3>2 DEF Drains, Loads, WasRead
    <3>5. \A k \in Nat : Reached(k)' => Reached(k)
      BY <1>0, <1>1, <1>2, <1>5 DEF Reached, WasRead
    <3>6. ASSUME NEW e \in Afoot, Wakes(e, id)
          PROVE  e \in Afoot' /\ Wakes(e, id)'
      BY <1>0, <3>5, <3>6 DEF Wakes
    <3> QED
      BY <1>0, <3>3, <3>4, <3>6 DEF Coming
  <2> QED
    BY <1>3, <2>1 DEF Served, AllComing
<1> QED
  BY <1>4, <1>5

(* A request that fails leaves the tab without a snapshot, or lets it      *)
(* catch up when its timer fires or its socket opens, or owes no more.     *)
LEMMA FailServes ==
    ASSUME RInv', Counted', Served, IndexFails \/ ChangesFail
    PROVE  Served'
<1>1. CASE IndexFails
  <2>1. status' = "cold" /\ UNCHANGED <<pullQueued, changes>>
    BY <1>1 DEF IndexFails
  <2> QED
    BY <2>1 DEF Served, AllComing, Coming, NoRoundLeft
<1>2. CASE ChangesFail
  <2>1. NoRoundLeft'
    BY <1>2 DEF ChangesFail, NoRoundLeft
  <2>2. /\ pullTimer' = pullTimer /\ UNCHANGED <<socket, sync_seq>>
        /\ unheard' = IF socket = "closed" \/ pullTimer THEN unheard ELSE sync_seq
    BY <1>2 DEF ChangesFail, PullAfterFailure, wire, store
  <2>3. CASE socket = "closed" \/ pullTimer
    BY <2>1, <2>2, <2>3 DEF Served, AllComing, Coming
  <2>4. CASE ~(socket = "closed" \/ pullTimer)
    BY <2>1, <2>2, <2>4, NothingDue DEF RInv
  <2> QED
    BY <2>3, <2>4
<1> QED
  BY <1>1, <1>2

LEMMA NextServes == RInv /\ TypeOK /\ Counted /\ Framed /\ Served /\ [Next]_vars => Served'
<1> SUFFICES ASSUME RInv, TypeOK, Counted, Framed, Served, [Next]_vars
             PROVE  Served'
  OBVIOUS
<1>0. RInv' /\ Counted'
  BY NextKeeps, NextCounted
<1>1. CASE StoreSteps
  BY <1>0, <1>1, WritesServe
<1>2. CASE ServeIndex \/ ApplyIndex
  BY <1>2, ServeIndexServes, ApplyIndexServes
<1>3. CASE ServeChanges \/ ApplyChanges
  BY <1>3, ServeChangesServes, ApplyChangesServes
<1>4. CASE IndexFails \/ ChangesFail
  BY <1>0, <1>4, FailServes
<1>5. CASE PullTimerFires \/ RefreshProjectModel
  <2>1. Pull
    BY <1>5 DEF PullTimerFires, RefreshProjectModel
  <2> QED
    BY <2>1, AskServes
<1>6. CASE PullActiveOnFocus \/ RealtimeOpened
  BY <1>6, AskServes DEF PullActiveOnFocus, RealtimeOpened
<1>7. CASE ReplayForClient
  BY <1>0, <1>7, ReplayServes
<1>8. CASE PublishSome \/ ReceiveSome
  BY <1>0, <1>8, PublishServes, ReceiveServes
<1>9. CASE Lagged \/ ServerRestarts
  BY <1>9, LagServes, RestartServes
<1>10. CASE Subscribe
  <2>1. UNCHANGED <<tab, requests, seq, state, unheard>> /\ socket # "closed" /\ Afoot' = Afoot
    BY <1>10 DEF Subscribe, store, rows, Afoot, Owed, PastFrame
  <2> QED
    BY <2>1, SameTabServes
<1>11. CASE SocketCloses
  <2>1. UNCHANGED <<tab, requests, seq, state, unheard>> /\ socket' = "closed"
    BY <1>11 DEF SocketCloses, Disconnect, store, rows
  <2> QED
    BY <2>1, SameTabServes
<1>12. CASE UNCHANGED vars
  <2>1. UNCHANGED <<tab, requests, seq, state, unheard>> /\ UNCHANGED socket /\ Afoot' = Afoot
    BY <1>12 DEF vars, store, rows, wire, Afoot, Owed, PastFrame
  <2> QED
    BY <2>1, SameTabServes
<1> QED
  BY <1>1, <1>2, <1>3, <1>4, <1>5, <1>6, <1>7, <1>8, <1>9, <1>10, <1>11, <1>12 DEF Next

(* A tab that waits for nothing has missed nothing that the code owed it   *)
(* word of, whoever writes, whatever fails and whenever it fails.          *)
THEOREM QuietIsCurrent == Spec => []QuietTabIsCurrent
<1>1. Init => Counted /\ Framed /\ Served
  <2> SUFFICES ASSUME Init
               PROVE  Counted /\ Framed /\ Served
    OBVIOUS
  <2>1. sync_seq = 0 /\ \A id \in Ids : state[id] = "unborn" /\ seq[id] = 0
    BY DEF Init, StoreInit
  <2>2. socket = "closed" /\ pullQueued = FALSE /\ resume = NoFrame
    BY DEF Init
  <2> QED
    BY <2>1, <2>2 DEF Counted, Framed, Served, NoRoundLeft, AllComing, Coming
<1>2. RInv /\ Counted /\ [Next]_vars => Counted'
  BY NextCounted
<1>3. RInv /\ TypeOK /\ Counted /\ Framed /\ Served /\ [Next]_vars => Served'
  BY NextServes
<1>5. RInv /\ Framed /\ [Next]_vars => Framed'
  BY NextFramed
<1>4. RInv /\ TypeOK /\ CurrentBelowCursor /\ Served => QuietTabIsCurrent
  <2> SUFFICES ASSUME RInv, TypeOK, CurrentBelowCursor, Served, AtRest,
                      NEW id \in Rows, state[id] # "purged", ~Unheard(id)
               PROVE  Agrees(id)
    BY DEF QuietTabIsCurrent
  <2>1. ~Coming(id)
    <3>1. Afoot = {} /\ socket # "closed" /\ status = "ready" /\ ~pullTimer
      BY DEF AtRest, Afoot, Owed
    <3>2. index.stage = "none" /\ changes.stage = "none"
      BY DEF AtRest, TypeOK
    <3> QED
      BY <3>1, <3>2 DEF Coming, Drains, Loads, WasRead
  <2>2. id \in Ids /\ seq[id] \in Nat /\ cursor \in Nat /\ status = "ready"
    BY IssuesAreRows DEF RInv, IInv, StoreTypeOK, Reads, Phases, AtRest
  <2>3. CASE InTable(id)
    <3>1. ~(seq[id] > cursor /\ seq[id] > unheard)
      BY <2>1, <2>3 DEF Served, AllComing, Due
    <3>2. unheard \in Nat
      BY DEF TypeOK, RInv, IInv, StoreTypeOK
    <3>3. seq[id] <= cursor
      BY <2>2, <3>1, <3>2 DEF Unheard
    <3> QED
      BY <2>2, <3>3 DEF CurrentBelowCursor
  <2>4. CASE ~InTable(id)
    <3>1. state[id] = "unborn" /\ ReplicaTrue
      BY <2>2, <2>4 DEF RInv, IInv, StoreTypeOK, InTable, Live, Tombstone, Reads
    <3> QED
      BY <3>1 DEF ReplicaTrue, Faithful, Agrees, Live
  <2> QED
    BY <2>3, <2>4
<1> QED
  BY <1>1, <1>2, <1>3, <1>4, <1>5, ReadsHold, ReadModelTyped, ExactBelowCursor, PTL DEF Spec

-----------------------------------------------------------------------------
(* The replica as a reader of the store's stream.  The store's half is     *)
(* StoreIsAStream again, under this specification; of the tab's steps only *)
(* the two that apply an answer show anything new, and what they show is   *)
(* true up to the cursor because Reads says so of every answer.            *)
LEMMA StepIsStored ==
    ASSUME [Next]_vars
    PROVE  [StoreNext]_store \/ UNCHANGED <<sync_seq, rows, labels, now, sweep>>
BY DEF Next, vars, StoreSteps, StoreNext, ServeIndex, ApplyIndex, IndexFails, ServeChanges,
       ApplyChanges, ChangesFail, PullTimerFires, RefreshProjectModel, PullActiveOnFocus,
       PublishSome, Publish, ReceiveSome, Receive, Lagged, RealtimeOpened, Subscribe,
       ReplayForClient, SocketCloses, ServerRestarts

LEMMA FamiliesHere == Spec => []Families
<1>1. Init => Families
  BY InitFamilies DEF Init
<1>2. RInv /\ Families /\ [Next]_vars => Families'
  <2> SUFFICES ASSUME RInv, Families, [Next]_vars PROVE Families'
    OBVIOUS
  <2>1. FInv
    BY DEF FInv, RInv, IInv
  <2>2. CASE [StoreNext]_store
    BY <2>1, <2>2, StepFamilies
  <2>3. CASE UNCHANGED <<sync_seq, rows, labels, now, sweep>>
    BY <2>1, <2>3, UntouchedFamilies DEF rows, FInv
  <2> QED
    BY <2>2, <2>3, StepIsStored
<1> QED
  BY <1>1, <1>2, ReadsHold, PTL DEF Spec

LEMMA StreamStep ==
    ASSUME RInv, NoOrphanComment, [Next]_vars
    PROVE  [Stream!StreamNext]_(Stream!stream)
<1>1. CASE [StoreNext]_store
  BY <1>1, StepWrites DEF RInv
<1>2. CASE UNCHANGED <<sync_seq, rows, labels, now, sweep>>
  BY <1>2 DEF rows, Stream!stream, Entries, Purged, InTable, Live, Tombstone, Report
<1> QED
  BY <1>1, <1>2, StepIsStored

(* What the tab shows of a row that is in its replica, or is not.          *)
ShownFits(id) ==
    /\ replica[id] = NoRow => Shown[id] = NoEntry
    /\ replica[id] # NoRow => /\ Shown[id] = ShownOf(id)
                              /\ Shown[id] # NoEntry
                              /\ Shown[id].seq = replica[id].seq

LEMMA AllShownFit == \A id \in Rows : ShownFits(id) /\ ShownFits(id)'
<1> SUFFICES ASSUME NEW id \in Rows PROVE ShownFits(id) /\ ShownFits(id)'
  OBVIOUS
<1>1. Shown[id] = IF replica[id] # NoRow THEN ShownOf(id) ELSE NoEntry
  BY DEF Shown
<1>2. ShownFits(id)
  BY <1>1, EntryIsOne DEF ShownFits, ShownOf
<1>3. Shown'[id] = IF replica'[id] # NoRow THEN ShownOf(id)' ELSE NoEntry
  BY DEF Shown, NoRow, NoEntry
<1>4. ShownFits(id)'
  BY <1>3, EntryIsOne DEF ShownFits, ShownOf, NoRow, NoEntry
<1> QED
  BY <1>2, <1>4

LEMMA ReportIsNotGone ==
    ASSUME NEW c, NEW ls
    PROVE  [content |-> c, labels |-> ls] # Gone
BY DEF Gone

LEMMA ShowsTrue == RInv /\ status = "ready" => \A id \in Rows : Reader!TrueTo(id, Shown[id], cursor)
<1> SUFFICES ASSUME RInv, status = "ready", NEW id \in Rows
             PROVE  Reader!TrueTo(id, Shown[id], cursor)
  OBVIOUS
<1>1. /\ replica[id] # NoRow => Faithful(replica[id], id, TRUE)
      /\ InTable(id) /\ seq[id] <= cursor =>
            IF Live(id) THEN replica[id] # NoRow ELSE replica[id] = NoRow
  BY DEF RInv, Reads, ReplicaTrue
<1>2. /\ id \in Ids /\ EntryFits(id) /\ ShownFits(id)
      /\ state[id] \in {"unborn", "live", "deleted", "purged"} /\ seq[id] \in Nat
  BY IssuesAreRows, EntriesFit, AllShownFit DEF RInv, IInv, StoreTypeOK
<1>3. Report(id) # Gone <=> Live(id)
  BY ReportIsNotGone DEF Report
<1>4. ASSUME Shown[id] # NoEntry, id \notin Purged
      PROVE  /\ Entries[id] # NoEntry
             /\ Shown[id].seq < Entries[id].seq \/ Shown[id] = Entries[id]
  <2>1. replica[id] # NoRow /\ Shown[id] = ShownOf(id) /\ Shown[id].seq = replica[id].seq
    BY <1>2, <1>4 DEF ShownFits
  <2>2. InTable(id) /\ replica[id].seq \in Nat /\ replica[id].seq <= seq[id]
    BY <1>1, <1>2, <1>4, <2>1 DEF Faithful, Purged, InTable, Live, Tombstone
  <2>3. Entries[id] # NoEntry /\ Entries[id].seq = seq[id]
        /\ Entries[id] = [seq |-> seq[id], says |-> Report(id)]
    BY <1>2, <2>2 DEF EntryFits
  <2>4. CASE replica[id].seq < seq[id]
    BY <2>1, <2>3, <2>4
  <2>5. CASE replica[id].seq = seq[id]
    <3>1. /\ Live(id) /\ replica[id].content = content[id]
          /\ id \in Issues => replica[id].labels = worn[id]
      BY <1>1, <2>1, <2>2, <2>5 DEF Faithful
    <3>2. ShownOf(id) = [seq |-> seq[id], says |-> Report(id)]
      BY <2>5, <3>1 DEF ShownOf, Report
    <3> QED
      BY <2>1, <2>3, <3>2
  <2> QED
    BY <1>2, <2>2, <2>3, <2>4, <2>5
<1>5. ASSUME Entries[id] # NoEntry, Entries[id].seq <= cursor
      PROVE  Shown[id] # NoEntry <=> Entries[id].says # Gone
  <2>1. InTable(id) /\ Entries[id].seq = seq[id] /\ Entries[id].says = Report(id)
    BY <1>2, <1>5 DEF EntryFits
  <2>2. replica[id] # NoRow <=> Live(id)
    BY <1>1, <1>5, <2>1
  <2>3. Shown[id] # NoEntry <=> replica[id] # NoRow
    BY <1>2 DEF ShownFits
  <2> QED
    BY <1>3, <2>1, <2>2, <2>3
<1> QED
  BY <1>4, <1>5 DEF Reader!TrueTo

LEMMA AnswersAreReads ==
    ASSUME RInv, RInv', ApplyIndex \/ ApplyChanges,
           \A id \in Rows : Reader!TrueTo(id, Shown[id], cursor)'
    PROVE  Reader!Read
<1>1. Frozen
  BY StoreFrozen DEF ApplyIndex, ApplyChanges
<1>2. UNCHANGED <<sync_seq, Entries, Purged>>
  BY <1>1 DEF Frozen, Entries, Purged, InTable, Live, Tombstone, Report
<1>3. cursor' \in cursor..sync_seq
  <2>1. /\ cursor \in Nat /\ index.cursor \in Nat /\ changes.cursor \in Nat
        /\ sync_seq \in Nat /\ cursor' \in 0..sync_seq
    BY <1>1 DEF RInv, Reads, Phases, IInv, StoreTypeOK, Frozen
  <2>2. cursor' = Max({cursor, index.cursor}) \/ cursor' = Max({cursor, changes.cursor})
    BY DEF ApplyIndex, ApplyChanges
  <2>3. cursor' >= cursor
    BY <2>1, <2>2, MaxOfTwo
  <2> QED
    BY <2>1, <2>3
<1>4. ASSUME NEW id \in Rows
      PROVE  /\ Reader!TrueTo(id, Shown'[id], cursor')
             /\ Reader!NotBack(Shown[id], Shown'[id])
  <2>1. Reader!TrueTo(id, Shown'[id], cursor')
    BY <1>2 DEF Reader!TrueTo
  <2>2. ShownFits(id) /\ ShownFits(id)'
    BY AllShownFit
  <2>3. replica[id] # NoRow /\ replica'[id] # NoRow => replica'[id].seq >= replica[id].seq
    BY RowsOnlyAdvance DEF Next
  <2> QED
    BY <2>1, <2>2, <2>3 DEF Reader!NotBack, ShownFits, NoRow, NoEntry
<1> QED
  BY <1>2, <1>3, <1>4 DEF Reader!Read, Reader!stream

(* The road from the tables to the screen keeps the promise of a reader of *)
(* the stream, for any page size, faults and timings.                      *)
THEOREM ReplicaFollows == Spec => FollowsTheStream
<1>1. Init => Reader!Init
  <2> SUFFICES ASSUME Init PROVE Reader!Init
    OBVIOUS
  <2>1. Reader!StreamInit
    BY InitStream DEF Init, Stream!StreamInit, Reader!StreamInit
  <2>2. Shown = [id \in Rows |-> NoEntry] /\ cursor = 0
    BY DEF Init, Shown
  <2> QED
    BY <2>1, <2>2 DEF Reader!Init
<1>2. RInv /\ NoOrphanComment /\ RInv' /\ [Next]_vars
      /\ (RInv /\ status = "ready" => \A id \in Rows : Reader!TrueTo(id, Shown[id], cursor))'
      => [Reader!Next]_<<Reader!stream, Reader!reader>>
  <2> SUFFICES ASSUME RInv, NoOrphanComment, RInv', [Next]_vars,
                      (RInv /\ status = "ready" => \A id \in Rows : Reader!TrueTo(id, Shown[id], cursor))'
               PROVE  [Reader!Next]_<<Reader!stream, Reader!reader>>
    OBVIOUS
  <2>1. CASE ApplyIndex \/ ApplyChanges
    <3>1. status' = "ready"
      BY <2>1 DEF ApplyIndex, ApplyChanges, RInv, Reads, Phases
    <3> QED
      BY <2>1, <3>1, AnswersAreReads DEF Reader!Next
  <2>2. CASE UNCHANGED <<replica, cursor>>
    <3>1. UNCHANGED <<Shown, cursor>>
      BY <2>2 DEF Shown, ShownOf
    <3>2. [Stream!StreamNext]_(Stream!stream)
      BY StreamStep
    <3> QED
      BY <3>1, <3>2 DEF Reader!Next, Reader!reader, Reader!stream, Reader!StreamNext, Reader!Write,
                        Stream!stream, Stream!StreamNext, Stream!Write
  <2>3. UNCHANGED <<replica, cursor>> \/ ApplyChanges \/ ApplyIndex
    BY DEF Next, vars, tab, StoreSteps, ServeIndex, IndexFails, ServeChanges, ChangesFail,
           PullTimerFires, RefreshProjectModel, PullActiveOnFocus, Pull, SchedulePull,
           PublishSome, Publish, ReceiveSome, Receive, Lagged, RealtimeOpened, Subscribe,
           ReplayForClient, SocketCloses, ServerRestarts, Disconnect
  <2> QED
    BY <2>1, <2>2, <2>3
<1>3. Families => NoOrphanComment
  BY DEF Families, Family, NoOrphanComment
<1> QED
  BY <1>1, <1>2, <1>3, ShowsTrue, ReadsHold, FamiliesHere, PTL
  DEF Spec, FollowsTheStream, Reader!Spec
=============================================================================
