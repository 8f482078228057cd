--------------------------- MODULE SyncStore_proofs ---------------------------
(***************************************************************************)
(* The sync stream, for every value of the constants: StoreTypeOK and      *)
(* StreamIsTotal are inductive together, and MutationsAreStamped follows.  *)
(*                                                                         *)
(* The argument: every step draws fresh, distinct ticks for some set of    *)
(* rows (Draws, StepDraws), and whatever enters a table or changes what    *)
(* /changes says of it is in that set.                                     *)
(*                                                                         *)
(* Then comments and their parents: NoOrphanComment and                    *)
(* RestoreIsExact.  Neither is inductive.  That a comment which went down  *)
(* with its parent still carries the parent's timestamp needs that the     *)
(* parent is a tombstone as long as the comment is one; that no other      *)
(* comment carries it, that a comment deleted on its own keeps the instant *)
(* of its own deletion: Family says so of one comment, and every step      *)
(* keeps it.                                                               *)
(*                                                                         *)
(* Last, the tables as a ChangeStream: the rows that a step stamps are the *)
(* rows of one write, and what it purges were tombstones (StoreIsAStream). *)
(***************************************************************************)
EXTENDS SyncStore, FiniteSetTheorems, TLAPS

(* The rows of S draw distinct ticks past the counter, the others none.    *)
Draws(S) ==
    /\ S \subseteq Ids
    /\ sync_seq' \in Nat /\ sync_seq' >= sync_seq
    /\ seq' \in [Ids -> Nat]
    /\ \A id \in S : sync_seq < seq'[id] /\ seq'[id] <= sync_seq'
    /\ \A x, y \in S : seq'[x] = seq'[y] => x = y
    /\ \A id \in Ids \ S : seq'[id] = seq[id]

(* A set of rows covers a step when it holds all that the step puts into a *)
(* table or changes there.                                                 *)
CoversStep(S) ==
    \A id \in Ids :
        /\ InTable(id)' => InTable(id) \/ id \in S
        /\ Changed(id) /\ state'[id] # "purged" => id \in S

IInv == StoreTypeOK /\ StreamIsTotal

-----------------------------------------------------------------------------
(* A stamp draws for exactly its set.                                      *)
LEMMA StampDraws ==
    ASSUME StoreTypeOK, NEW S \in SUBSET Ids, Stamp(S)
    PROVE  Draws(S)
<1>1. IsFiniteSet(S)
  BY FS_Subset, StoreAssumption
<1>2. Cardinality(S) \in Nat
  BY <1>1, FS_CardinalityType
<1>3. PICK f \in Ticks(S) : seq' = [id \in Ids |-> IF id \in S THEN f[id] ELSE seq[id]]
  BY DEF Stamp
<1>4. /\ f \in [S -> (sync_seq + 1)..(sync_seq + Cardinality(S))]
      /\ \A x, y \in S : f[x] = f[y] => x = y
  BY <1>3 DEF Ticks
<1>5. sync_seq \in Nat /\ seq \in [Ids -> Nat]
  BY DEF StoreTypeOK
<1>6. sync_seq' = sync_seq + Cardinality(S)
  BY DEF Stamp
<1>7. \A id \in S : f[id] \in Nat /\ sync_seq < f[id] /\ f[id] <= sync_seq'
  BY <1>2, <1>4, <1>5, <1>6
<1>8. \A id \in S : seq'[id] = f[id]
  BY <1>3
<1>9. \A id \in Ids \ S : seq'[id] = seq[id]
  BY <1>3
<1>10. seq' \in [Ids -> Nat]
  BY <1>3, <1>5, <1>7
<1>11. sync_seq' \in Nat /\ sync_seq' >= sync_seq
  BY <1>2, <1>5, <1>6
<1> QED
  BY <1>4, <1>7, <1>8, <1>9, <1>10, <1>11 DEF Draws

(* A step that leaves the seqs alone draws for nobody.                     *)
LEMMA IdleDraws ==
    ASSUME StoreTypeOK, UNCHANGED seq, sync_seq' \in Nat, sync_seq' >= sync_seq
    PROVE  Draws({})
BY DEF Draws, StoreTypeOK

(* What a covering draw does to the stream.                                *)
LEMMA DrawKeepsStream ==
    ASSUME IInv, NEW S, Draws(S), CoversStep(S)
    PROVE  StreamIsTotal'
<1> USE DEF IInv
<1>1. sync_seq \in Nat /\ sync_seq' \in Nat /\ sync_seq' >= sync_seq
  BY DEF Draws, StoreTypeOK
<1>2. seq \in [Ids -> Nat] /\ seq' \in [Ids -> Nat]
  BY DEF Draws, StoreTypeOK
<1>3. ASSUME NEW x \in Ids, InTable(x)'
      PROVE  /\ seq'[x] \in 1..sync_seq'
             /\ x \notin S => InTable(x) /\ seq'[x] = seq[x] /\ seq[x] <= sync_seq
  <2>1. CASE x \in S
    <3>1. sync_seq < seq'[x] /\ seq'[x] <= sync_seq'
      BY <2>1 DEF Draws
    <3>2. seq'[x] \in Nat
      BY <1>2
    <3> QED
      BY <1>1, <2>1, <3>1, <3>2
  <2>2. CASE x \notin S
    <3>1. InTable(x)
      BY <1>3, <2>2 DEF CoversStep
    <3>2. seq'[x] = seq[x]
      BY <2>2 DEF Draws
    <3>3. seq[x] \in 1..sync_seq
      BY <3>1 DEF StreamIsTotal
    <3> QED
      BY <1>1, <2>2, <3>1, <3>2, <3>3
  <2> QED
    BY <2>1, <2>2
<1>4. ASSUME NEW x \in Ids, NEW y \in Ids, InTable(x)', InTable(y)', seq'[x] = seq'[y]
      PROVE  x = y
  <2>1. CASE x \in S /\ y \in S
    BY <1>4, <2>1 DEF Draws
  <2>2. CASE x \in S /\ y \notin S
    <3>1. sync_seq < seq'[x]
      BY <2>2 DEF Draws
    <3>2. seq'[y] = seq[y] /\ seq[y] <= sync_seq
      BY <1>3, <1>4, <2>2
    <3> QED
      BY <1>1, <1>2, <1>4, <3>1, <3>2
  <2>3. CASE x \notin S /\ y \in S
    <3>1. sync_seq < seq'[y]
      BY <2>3 DEF Draws
    <3>2. seq'[x] = seq[x] /\ seq[x] <= sync_seq
      BY <1>3, <1>4, <2>3
    <3> QED
      BY <1>1, <1>2, <1>4, <3>1, <3>2
  <2>4. CASE x \notin S /\ y \notin S
    <3>1. InTable(x) /\ InTable(y) /\ seq[x] = seq[y]
      BY <1>3, <1>4, <2>4
    <3> QED
      BY <3>1 DEF StreamIsTotal
  <2> QED
    BY <2>1, <2>2, <2>3, <2>4
<1> QED
  BY <1>3, <1>4 DEF StreamIsTotal

-----------------------------------------------------------------------------
(* One lemma per kind of operation: the set that draws covers the step.    *)
CoveredDraw == \E S : Draws(S) /\ CoversStep(S)

LEMMA CreateRowDraws ==
    ASSUME IInv, NEW id \in Rows, NEW v, NEW ls, NEW via, CreateRow(id, v, ls, via)
    PROVE  CoveredDraw
<1>1. id \in Ids /\ {id} \in SUBSET Ids
  BY DEF Ids
<1>2. Draws({id})
  BY <1>1, StampDraws DEF CreateRow, Write, IInv
<1>3. CoversStep({id})
  BY DEF CreateRow, CoversStep, Changed, InTable, Live, Tombstone, Set, IInv, StoreTypeOK
<1> QED
  BY <1>2, <1>3 DEF CoveredDraw

LEMMA UpdateRowDraws ==
    ASSUME IInv, NEW id \in Rows, NEW v, NEW ls, NEW via, UpdateRow(id, v, ls, via)
    PROVE  CoveredDraw
<1> DEFINE wanted == (UNION ls) \cap labels
           touched == ls # {} /\ worn[id] \cup wanted # {}
           S == (IF v # {} THEN {id} ELSE {})
                    \cup (IF touched THEN BumpedByLabels({id}) ELSE {})
<1>1. id \in Ids /\ S \in SUBSET Ids
  BY DEF Ids, BumpedByLabels
<1>2. /\ Stamp(S)
      /\ IF v = {} THEN UNCHANGED content ELSE \E x \in v : content' = Set(content, {id}, x)
      /\ worn' = IF ls = {} THEN worn ELSE Set(worn, {id}, wanted)
      /\ UNCHANGED state
  BY DEF UpdateRow, Write
<1>3. Draws(S)
  BY <1>1, <1>2, StampDraws DEF IInv
<1>4. ASSUME NEW x \in Ids, content'[x] # content[x]
      PROVE  x \in S
  BY <1>2, <1>4 DEF Set, IInv, StoreTypeOK
<1>5. ASSUME NEW x \in Issues, worn'[x] # worn[x]
      PROVE  x \in S
  <2>1. x \in Ids
    BY DEF Ids, Rows
  <2>2. ls # {} /\ x = id /\ worn'[id] = wanted
    BY <1>2, <1>5, <2>1 DEF Set, IInv, StoreTypeOK
  <2>3. touched
    BY <1>5, <2>2
  <2> QED
    BY <2>2, <2>3 DEF BumpedByLabels
<1>6. CoversStep(S)
  BY <1>2, <1>4, <1>5 DEF CoversStep, Changed, InTable, Live, Tombstone
<1> QED
  BY <1>3, <1>6 DEF CoveredDraw

LEMMA DeleteRowDraws ==
    ASSUME IInv, NEW id \in Rows, NEW via, DeleteRow(id, via)
    PROVE  CoveredDraw
<1> DEFINE S == {id} \cup CascadesTo(id)
<1>1. S \in SUBSET Ids
  BY DEF Ids, CascadesTo, ChildrenOf
<1>2. /\ Stamp(S) /\ Deletable(id)
      /\ state' = Set(state, S, "deleted")
      /\ UNCHANGED <<content, worn>>
  BY DEF DeleteRow, Write
<1>3. Draws(S)
  BY <1>1, <1>2, StampDraws DEF IInv
<1>4. CoversStep(S)
  BY <1>2 DEF CoversStep, Changed, InTable, Live, Tombstone, Set, IInv, StoreTypeOK
<1> QED
  BY <1>3, <1>4 DEF CoveredDraw

LEMMA RestoreRowDraws ==
    ASSUME IInv, NEW id \in Rows, NEW via, RestoreRow(id, via)
    PROVE  CoveredDraw
<1> DEFINE S == {id} \cup Revived(id)
<1>1. S \in SUBSET Ids
  BY DEF Ids, Revived, ChildrenOf
<1>2. /\ Stamp(S)
      /\ state' = Set(state, S, "live")
      /\ UNCHANGED <<content, worn>>
  BY DEF RestoreRow, Write
<1>3. Draws(S)
  BY <1>1, <1>2, StampDraws DEF IInv
<1>4. CoversStep(S)
  BY <1>2 DEF CoversStep, Changed, InTable, Live, Tombstone, Set, IInv, StoreTypeOK
<1> QED
  BY <1>3, <1>4 DEF CoveredDraw

(* Adding, editing and deleting a comment only touch the comment's row.    *)
LEMMA WriteCommentDraws ==
    ASSUME IInv, NEW c \in Comments, NEW p, NEW via, WriteComment(c, p, via),
           \A id \in Ids : id # c => content'[id] = content[id] /\ state'[id] = state[id]
    PROVE  CoveredDraw
<1> DEFINE S == {c} \cup BumpedByComment(p)
<1>1. S \in SUBSET Ids
  BY DEF Ids, Rows, BumpedByComment
<1>2. Stamp(S) /\ UNCHANGED worn
  BY DEF WriteComment, Write
<1>3. Draws(S)
  BY <1>1, <1>2, StampDraws DEF IInv
<1>4. CoversStep(S)
  BY <1>2 DEF CoversStep, Changed, InTable, Live, Tombstone
<1> QED
  BY <1>3, <1>4 DEF CoveredDraw

LEMMA CommentDraws ==
    ASSUME IInv, NEW c \in Comments, NEW via,
           \/ \E p \in Rows, v \in Values : AddComment(c, p, v, via)
           \/ \E v \in Values : EditComment(c, v, via)
           \/ DeleteComment(c, via)
    PROVE  CoveredDraw
<1>1. CASE \E p \in Rows, v \in Values : AddComment(c, p, v, via)
  BY <1>1, WriteCommentDraws DEF AddComment, Set, IInv, StoreTypeOK
<1>2. CASE \E v \in Values : EditComment(c, v, via)
  BY <1>2, WriteCommentDraws DEF EditComment, Set, IInv, StoreTypeOK
<1>3. CASE DeleteComment(c, via)
  BY <1>3, WriteCommentDraws DEF DeleteComment, Set, IInv, StoreTypeOK
<1> QED
  BY <1>1, <1>2, <1>3

LEMMA DropLabelDraws ==
    ASSUME IInv, NEW l, NEW instead, NEW via, DropLabel(l, instead, via)
    PROVE  CoveredDraw
<1> DEFINE S == BumpedByLabels(Wearing(l))
<1>1. S \in SUBSET Ids
  BY DEF Ids, Rows, BumpedByLabels
<1>2. /\ Stamp(S) /\ UNCHANGED <<state, content>>
      /\ worn' = [id \in Ids |->
            IF id \in Wearing(l) THEN (worn[id] \ {l}) \cup instead ELSE worn[id]]
  BY DEF DropLabel, Write
<1>3. Draws(S)
  BY <1>1, <1>2, StampDraws DEF IInv
<1>4. \A i \in Issues : worn'[i] # worn[i] => i \in S
  BY <1>2 DEF BumpedByLabels, Ids, Rows
<1>5. CoversStep(S)
  BY <1>2, <1>4 DEF CoversStep, Changed, InTable, Live, Tombstone
<1> QED
  BY <1>3, <1>5 DEF CoveredDraw

LEMMA CreateLabelDraws ==
    ASSUME IInv, NEW l, NEW via, CreateLabel(l, via)
    PROVE  CoveredDraw
<1>1. Draws({})
  BY StampDraws DEF CreateLabel, Write, IInv
<1>2. CoversStep({})
  BY DEF CreateLabel, CoversStep, Changed, InTable, Live, Tombstone
<1> QED
  BY <1>1, <1>2 DEF CoveredDraw

(* A removal changes only rows that are gone afterwards.                   *)
LEMMA RemoveCovers ==
    ASSUME IInv, NEW D \in SUBSET Ids, Remove(D), NEW S
    PROVE  CoversStep(S)
<1>1. \A id \in D : state'[id] = "purged"
  BY DEF Remove, Set
<1>2. \A id \in Ids \ D : state'[id] = state[id] /\ content'[id] = content[id] /\ worn'[id] = worn[id]
  BY DEF Remove, Set
<1>3. Issues \subseteq Ids
  BY DEF Ids, Rows
<1> QED
  BY <1>1, <1>2, <1>3 DEF CoversStep, Changed, InTable, Live, Tombstone

LEMMA SweepDraws ==
    ASSUME IInv, SweepStep
    PROVE  CoveredDraw
<1> USE DEF IInv
<1>0. sync_seq \in Nat
  BY DEF StoreTypeOK
<1>1. CASE PurgeComments
  <2> DEFINE dead == {c \in Comments : Expired(c)}
             S == UNION {BumpedByComment(parent[c]) : c \in dead}
  <2>1. S \in SUBSET Ids /\ dead \in SUBSET Ids
    BY DEF BumpedByComment, Ids, Rows
  <2>2. Stamp(S) /\ Remove(dead)
    BY <1>1 DEF PurgeComments
  <2>3. Draws(S) /\ CoversStep(S)
    BY <2>1, <2>2, StampDraws, RemoveCovers
  <2> QED
    BY <2>3 DEF CoveredDraw
<1>2. ASSUME NEW T \in SUBSET Rows, PurgeRows(T)
      PROVE  CoveredDraw
  <2> DEFINE dead == {id \in T : Expired(id)}
             orphans == {c \in Comments : parent[c] \in dead /\ InTable(c)}
  <2>1. dead \cup orphans \in SUBSET Ids
    BY DEF Ids
  <2>2. Remove(dead \cup orphans) /\ UNCHANGED <<sync_seq, seq>>
    BY <1>2 DEF PurgeRows
  <2>3. Draws({}) /\ CoversStep({})
    BY <1>0, <2>1, <2>2, IdleDraws, RemoveCovers
  <2> QED
    BY <2>3 DEF CoveredDraw
<1>3. CASE PurgeIssues
  BY <1>2, <1>3 DEF PurgeIssues, Rows
<1>4. CASE PurgePages
  BY <1>2, <1>4 DEF PurgePages, Rows
<1>5. CASE SweepFails
  <2>1. Draws({})
    BY <1>0, <1>5, IdleDraws DEF SweepFails, rows
  <2>2. CoversStep({})
    BY <1>5 DEF SweepFails, rows, CoversStep, Changed, InTable, Live, Tombstone
  <2> QED
    BY <2>1, <2>2 DEF CoveredDraw
<1> QED
  BY <1>1, <1>3, <1>4, <1>5 DEF SweepStep

LEMMA StepDraws ==
    ASSUME IInv, [StoreNext]_store
    PROVE  CoveredDraw
<1>0. sync_seq \in Nat
  BY DEF IInv, StoreTypeOK
<1> USE DEF IInv
<1>1. CASE UNCHANGED store
  <2>1. Draws({})
    BY <1>0, <1>1, IdleDraws DEF store, rows
  <2>2. CoversStep({})
    BY <1>1 DEF store, rows, CoversStep, Changed, InTable, Live, Tombstone
  <2> QED
    BY <2>1, <2>2 DEF CoveredDraw
<1>2. CASE ForeignWrite \/ Tick \/ Crash
  <2>1. sync_seq' \in Nat /\ sync_seq' >= sync_seq /\ UNCHANGED rows
    BY <1>0, <1>2 DEF ForeignWrite, Tick, Crash
  <2>2. Draws({})
    BY <2>1, IdleDraws DEF rows
  <2>3. CoversStep({})
    BY <2>1 DEF rows, CoversStep, Changed, InTable, Live, Tombstone
  <2> QED
    BY <2>2, <2>3 DEF CoveredDraw
<1>3. CASE SweepStep
  BY <1>3, SweepDraws
<1>4. ASSUME NEW via \in Writers,
             IssueStep(via) \/ PageStep(via) \/ CommentStep(via) \/ LabelStep(via)
      PROVE  CoveredDraw
  <2>1. Issues \subseteq Rows /\ Pages \subseteq Rows
    BY DEF Rows
  <2>2. CASE IssueStep(via)
    BY <2>1, <2>2, CreateRowDraws, UpdateRowDraws, DeleteRowDraws, RestoreRowDraws
       DEF IssueStep, CreateIssue, UpdateIssue, DeleteIssue, RestoreIssue
  <2>3. CASE PageStep(via)
    BY <2>1, <2>3, CreateRowDraws, UpdateRowDraws, DeleteRowDraws, RestoreRowDraws
       DEF PageStep, CreatePage, UpdatePage, DeletePage, RestorePage
  <2>4. CASE CommentStep(via)
    BY <2>4, CommentDraws DEF CommentStep
  <2>5. CASE LabelStep(via)
    BY <2>5, DropLabelDraws, CreateLabelDraws DEF LabelStep, DeleteLabel, MergeLabel
  <2> QED
    BY <1>4, <2>2, <2>3, <2>4, <2>5
<1> QED
  BY <1>1, <1>2, <1>3, <1>4 DEF StoreNext, StoreStep

-----------------------------------------------------------------------------
(* Type correctness.  The seq columns come from Draws; the outbox holds    *)
(* seqs that were drawn, because the row it announces is in its table.     *)
LEMMA StampTypes ==
    ASSUME StoreTypeOK, NEW S \in SUBSET Ids, Stamp(S)
    PROVE  /\ sync_seq' \in Nat /\ sync_seq' >= sync_seq
           /\ seq' \in [Ids -> Nat]
           /\ \A id \in Ids : seq[id] <= sync_seq => seq'[id] <= sync_seq'
<1>1. Draws(S)
  BY StampDraws
<1> QED
  BY <1>1 DEF Draws, StoreTypeOK

LEMMA AnnounceTypes ==
    ASSUME StoreTypeOK, sync_seq' \in Nat, sync_seq' >= sync_seq,
           NEW s \in Nat, s <= sync_seq', NEW via, Announce(via, s)
    PROVE  (outbox \subseteq 0..sync_seq)'
<1>1. outbox' \subseteq outbox \cup {s}
  BY DEF Announce
<1>2. \A x \in 0..sync_seq : x \in 0..sync_seq'
  BY DEF StoreTypeOK
<1>3. s \in 0..sync_seq'
  OBVIOUS
<1> QED
  BY <1>1, <1>2, <1>3 DEF StoreTypeOK

LEMMA SetTypes ==
    ASSUME NEW T, NEW c \in [Ids -> T], NEW S, NEW v \in T
    PROVE  Set(c, S, v) \in [Ids -> T]
BY DEF Set

(* What every server or CLI write does to the types, whatever columns it   *)
(* sets: the announced row is in its table or has just drawn.              *)
LEMMA WriteTypes ==
    ASSUME IInv, NEW S \in SUBSET Ids, NEW via, Write(via, S),
           NEW s \in {Advisory} \cup {seq'[id] : id \in S \cup {x \in Ids : InTable(x)}},
           Announce(via, s)
    PROVE  /\ (sync_seq \in Nat)'
           /\ (seq \in [Ids -> Nat])'
           /\ (now \in Nat \ {0})'
           /\ (sweep \in {"idle", "issues", "pages"})'
           /\ (outbox \subseteq 0..sync_seq)'
<1> USE DEF IInv
<1>1. Draws(S)
  BY StampDraws DEF Write
<1>2. sync_seq \in Nat /\ sync_seq' \in Nat /\ sync_seq' >= sync_seq /\ seq' \in [Ids -> Nat]
  BY <1>1 DEF Draws, StoreTypeOK
<1>3. s \in Nat /\ s <= sync_seq'
  <2>1. CASE s = Advisory
    BY <1>2, <2>1 DEF Advisory
  <2>2. CASE \E id \in S : s = seq'[id]
    BY <1>1, <1>2, <2>2 DEF Draws
  <2>3. CASE \E id \in Ids \ S : InTable(id) /\ s = seq'[id]
    <3>1. PICK id \in Ids \ S : InTable(id) /\ s = seq'[id]
      BY <2>3
    <3>2. seq'[id] = seq[id]
      BY <1>1 DEF Draws
    <3>3. seq[id] \in 1..sync_seq
      BY <3>1 DEF StreamIsTotal
    <3> QED
      BY <1>2, <3>1, <3>2, <3>3
  <2> QED
    BY <2>1, <2>2, <2>3
<1>4. (outbox \subseteq 0..sync_seq)'
  BY <1>2, <1>3, AnnounceTypes
<1>5. UNCHANGED <<now, sweep>>
  BY DEF Write
<1> QED
  BY <1>2, <1>4, <1>5 DEF StoreTypeOK

LEMMA RowTypes ==
    ASSUME IInv, NEW id \in Rows, NEW via,
           \/ \E v \in Values, ls \in SUBSET Labels : CreateRow(id, v, ls, via)
           \/ \E v \in Optional(Values), ls \in Optional(SUBSET Labels) : UpdateRow(id, v, ls, via)
           \/ DeleteRow(id, via)
           \/ RestoreRow(id, via)
    PROVE  StoreTypeOK'
<1> USE DEF IInv
<1>0. id \in Ids /\ id \notin Comments
  BY StoreAssumption DEF Ids
<1>1. ASSUME NEW v \in Values, NEW ls \in SUBSET Labels, CreateRow(id, v, ls, via)
      PROVE  StoreTypeOK'
  <2>1. Write(via, {id}) /\ Announce(via, seq'[id])
    BY <1>1 DEF CreateRow
  <2>2. /\ (sync_seq \in Nat)' /\ (seq \in [Ids -> Nat])' /\ (now \in Nat \ {0})'
        /\ (sweep \in {"idle", "issues", "pages"})' /\ (outbox \subseteq 0..sync_seq)'
    BY <1>0, <2>1, WriteTypes
  <2>3. /\ state' = Set(state, {id}, "live") /\ content' = Set(content, {id}, v)
        /\ worn' = Set(worn, {id}, ls \cap labels)
        /\ UNCHANGED <<deleted_at, parent, alone, labels>>
    BY <1>1 DEF CreateRow
  <2>4. (state \in [Ids -> {"unborn", "live", "deleted", "purged"}])'
    BY <2>3, SetTypes DEF StoreTypeOK
  <2>5. (content \in [Ids -> Values \cup {None}])'
    BY <2>3, SetTypes DEF StoreTypeOK
  <2>6. (worn \in [Ids -> SUBSET labels])'
    BY <2>3 DEF StoreTypeOK, Set
  <2>7. (\A c \in Comments : worn[c] = {})'
    BY <1>0, <2>3 DEF StoreTypeOK, Set, Ids
  <2> QED
    BY <2>2, <2>3, <2>4, <2>5, <2>6, <2>7 DEF StoreTypeOK
<1>2. ASSUME NEW v \in Optional(Values), NEW ls \in Optional(SUBSET Labels), UpdateRow(id, v, ls, via)
      PROVE  StoreTypeOK'
  <2> DEFINE wanted == (UNION ls) \cap labels
             touched == ls # {} /\ worn[id] \cup wanted # {}
             S == (IF v # {} THEN {id} ELSE {})
                      \cup (IF touched THEN BumpedByLabels({id}) ELSE {})
  <2>0. S \in SUBSET Ids /\ InTable(id)
    BY <1>0, <1>2 DEF BumpedByLabels, UpdateRow, InTable
  <2>1. Write(via, S) /\ Announce(via, seq'[id])
    BY <1>2 DEF UpdateRow
  <2>2. /\ (sync_seq \in Nat)' /\ (seq \in [Ids -> Nat])' /\ (now \in Nat \ {0})'
        /\ (sweep \in {"idle", "issues", "pages"})' /\ (outbox \subseteq 0..sync_seq)'
    <3> HIDE DEF S
    <3> QED BY <1>0, <2>0, <2>1, WriteTypes
  <2>3. /\ IF v = {} THEN UNCHANGED content ELSE \E x \in v : content' = Set(content, {id}, x)
        /\ worn' = IF ls = {} THEN worn ELSE Set(worn, {id}, wanted)
        /\ UNCHANGED <<state, deleted_at, parent, alone, labels>>
    BY <1>2 DEF UpdateRow
  <2>4. (content \in [Ids -> Values \cup {None}])'
    <3>1. CASE v = {}
      BY <2>3, <3>1 DEF StoreTypeOK
    <3>2. CASE v # {}
      <4>1. PICK x \in v : content' = Set(content, {id}, x)
        BY <2>3, <3>2
      <4>2. x \in Values \cup {None}
        BY DEF Optional
      <4> QED
        BY <4>1, <4>2, SetTypes DEF StoreTypeOK
    <3> QED
      BY <3>1, <3>2
  <2>5. (worn \in [Ids -> SUBSET labels])'
    BY <2>3 DEF StoreTypeOK, Set
  <2>6. (\A c \in Comments : worn[c] = {})'
    BY <1>0, <2>3 DEF StoreTypeOK, Set, Ids
  <2> QED
    BY <2>2, <2>3, <2>4, <2>5, <2>6 DEF StoreTypeOK
<1>3. ASSUME NEW S \in SUBSET Ids, id \in S, Write(via, S), Announce(via, seq'[id]),
             NEW st \in {"live", "deleted"}, state' = Set(state, S, st),
             NEW t \in Nat, deleted_at' = Set(deleted_at, S, t),
             NEW D, alone' = alone \/ alone' = Set(alone, D, 0),
             UNCHANGED <<content, worn, parent, labels>>
      PROVE  StoreTypeOK'
  <2>1. /\ (sync_seq \in Nat)' /\ (seq \in [Ids -> Nat])' /\ (now \in Nat \ {0})'
        /\ (sweep \in {"idle", "issues", "pages"})' /\ (outbox \subseteq 0..sync_seq)'
    BY <1>3, WriteTypes
  <2>2. (state \in [Ids -> {"unborn", "live", "deleted", "purged"}])'
    BY <1>3, SetTypes DEF StoreTypeOK
  <2>3. (deleted_at \in [Ids -> Nat])'
    BY <1>3, SetTypes DEF StoreTypeOK
  <2>4. (alone \in [Ids -> Nat])'
    <3>1. CASE alone' = alone
      BY <3>1 DEF StoreTypeOK
    <3>2. CASE alone' = Set(alone, D, 0)
      BY <3>2, SetTypes DEF StoreTypeOK
    <3> QED
      BY <1>3, <3>1, <3>2
  <2> QED
    BY <1>3, <2>1, <2>2, <2>3, <2>4 DEF StoreTypeOK
<1>4. CASE DeleteRow(id, via)
  <2>1. {id} \cup CascadesTo(id) \in SUBSET Ids /\ now \in Nat
    BY <1>0 DEF CascadesTo, ChildrenOf, Ids, StoreTypeOK
  <2> QED
    BY <1>3, <1>4, <2>1 DEF DeleteRow
<1>5. CASE RestoreRow(id, via)
  <2>1. {id} \cup Revived(id) \in SUBSET Ids
    BY <1>0 DEF Revived, ChildrenOf, Ids
  <2> QED
    BY <1>3, <1>5, <2>1 DEF RestoreRow
<1> QED
  BY <1>1, <1>2, <1>4, <1>5

LEMMA CommentTypes ==
    ASSUME IInv, NEW c \in Comments, NEW via,
           \/ \E p \in Rows, v \in Values : AddComment(c, p, v, via)
           \/ \E v \in Values : EditComment(c, v, via)
           \/ DeleteComment(c, via)
    PROVE  StoreTypeOK'
<1> USE DEF IInv
<1>0. c \in Ids
  BY DEF Ids
<1>1. ASSUME NEW p, WriteComment(c, p, via)
      PROVE  /\ (sync_seq \in Nat)' /\ (seq \in [Ids -> Nat])' /\ (now \in Nat \ {0})'
             /\ (sweep \in {"idle", "issues", "pages"})' /\ (outbox \subseteq 0..sync_seq)'
             /\ UNCHANGED <<worn, labels>>
  <2>1. {c} \cup BumpedByComment(p) \in SUBSET Ids
    BY <1>0 DEF BumpedByComment, Ids, Rows
  <2> QED
    BY <1>1, <2>1, WriteTypes DEF WriteComment
<1>2. ASSUME NEW p \in Rows, NEW v \in Values, AddComment(c, p, v, via)
      PROVE  StoreTypeOK'
  <2>1. (state \in [Ids -> {"unborn", "live", "deleted", "purged"}])'
    BY <1>2, SetTypes DEF AddComment, StoreTypeOK
  <2>2. (parent \in [Ids -> Rows \cup {None}])'
    BY <1>2, SetTypes DEF AddComment, StoreTypeOK
  <2>3. (content \in [Ids -> Values \cup {None}])'
    BY <1>2, SetTypes DEF AddComment, StoreTypeOK
  <2> QED
    BY <1>1, <1>2, <2>1, <2>2, <2>3 DEF AddComment, StoreTypeOK
<1>3. ASSUME NEW v \in Values, EditComment(c, v, via)
      PROVE  StoreTypeOK'
  <2>1. (content \in [Ids -> Values \cup {None}])'
    BY <1>3, SetTypes DEF EditComment, StoreTypeOK
  <2> QED
    BY <1>1, <1>3, <2>1 DEF EditComment, StoreTypeOK
<1>4. CASE DeleteComment(c, via)
  <2>1. (state \in [Ids -> {"unborn", "live", "deleted", "purged"}])'
    BY <1>4, SetTypes DEF DeleteComment, StoreTypeOK
  <2>2. (deleted_at \in [Ids -> Nat])'
    BY <1>4, SetTypes DEF DeleteComment, StoreTypeOK
  <2>3. (alone \in [Ids -> Nat])'
    BY <1>4, SetTypes DEF DeleteComment, StoreTypeOK
  <2> QED
    BY <1>1, <1>4, <2>1, <2>2, <2>3 DEF DeleteComment, StoreTypeOK
<1> QED
  BY <1>2, <1>3, <1>4

LEMMA LabelTypes ==
    ASSUME IInv, NEW via, LabelStep(via)
    PROVE  StoreTypeOK'
<1> USE DEF IInv
<1>1. ASSUME NEW S \in SUBSET Ids, Write(via, S), Announce(via, Advisory)
      PROVE  /\ (sync_seq \in Nat)' /\ (seq \in [Ids -> Nat])' /\ (now \in Nat \ {0})'
             /\ (sweep \in {"idle", "issues", "pages"})' /\ (outbox \subseteq 0..sync_seq)'
  BY <1>1, WriteTypes
<1>2. ASSUME NEW l \in Labels, CreateLabel(l, via)
      PROVE  StoreTypeOK'
  BY <1>1, <1>2 DEF CreateLabel, StoreTypeOK
<1>3. ASSUME NEW l \in Labels, NEW instead \in SUBSET (labels \ {l}), DropLabel(l, instead, via)
      PROVE  StoreTypeOK'
  <2>1. BumpedByLabels(Wearing(l)) \in SUBSET Ids
    BY DEF BumpedByLabels, Ids, Rows
  <2>2. /\ (sync_seq \in Nat)' /\ (seq \in [Ids -> Nat])' /\ (now \in Nat \ {0})'
        /\ (sweep \in {"idle", "issues", "pages"})' /\ (outbox \subseteq 0..sync_seq)'
    BY <1>1, <1>3, <2>1 DEF DropLabel
  <2>3. /\ labels' = labels \ {l}
        /\ worn' = [id \in Ids |->
              IF id \in Wearing(l) THEN (worn[id] \ {l}) \cup instead ELSE worn[id]]
        /\ UNCHANGED <<state, deleted_at, content, parent, alone>>
    BY <1>3 DEF DropLabel
  <2>4. ASSUME NEW id \in Ids
        PROVE  worn'[id] \subseteq labels'
    <3>1. CASE id \in Wearing(l)
      BY <2>3, <3>1 DEF StoreTypeOK
    <3>2. CASE id \notin Wearing(l)
      <4>1. worn'[id] = worn[id] /\ worn[id] \subseteq labels
        BY <2>3, <3>2 DEF StoreTypeOK
      <4>2. l \notin worn[id]
        BY <3>2 DEF Wearing, Ids, StoreTypeOK
      <4> QED
        BY <2>3, <4>1, <4>2
    <3> QED
      BY <3>1, <3>2
  <2>5. (worn \in [Ids -> SUBSET labels])'
    BY <2>3, <2>4
  <2>6. (\A c \in Comments : worn[c] = {})'
    BY <2>3, StoreAssumption DEF Wearing, Ids, StoreTypeOK
  <2> QED
    BY <2>2, <2>3, <2>5, <2>6 DEF StoreTypeOK
<1>4. CASE \E l \in Labels : CreateLabel(l, via)
  BY <1>2, <1>4
<1>5. CASE \E l \in Labels : DeleteLabel(l, via)
  BY <1>3, <1>5 DEF DeleteLabel
<1>6. CASE \E l, m \in Labels : MergeLabel(l, m, via)
  <2>1. PICK l \in Labels, m \in Labels : MergeLabel(l, m, via)
    BY <1>6
  <2>2. {m} \in SUBSET (labels \ {l}) /\ DropLabel(l, {m}, via)
    BY <2>1 DEF MergeLabel
  <2> QED
    BY <1>3, <2>2
<1> QED
  BY <1>4, <1>5, <1>6 DEF LabelStep

LEMMA RemoveTypes ==
    ASSUME StoreTypeOK, NEW D, Remove(D), UNCHANGED labels
    PROVE  /\ (state \in [Ids -> {"unborn", "live", "deleted", "purged"}])'
           /\ (deleted_at \in [Ids -> Nat])'
           /\ (content \in [Ids -> Values \cup {None}])'
           /\ (worn \in [Ids -> SUBSET labels])'
           /\ (\A c \in Comments : worn[c] = {})'
           /\ UNCHANGED <<parent, alone>>
<1>1. (state \in [Ids -> {"unborn", "live", "deleted", "purged"}])'
  BY SetTypes DEF Remove, StoreTypeOK
<1>2. (deleted_at \in [Ids -> Nat])'
  BY SetTypes DEF Remove, StoreTypeOK
<1>3. (content \in [Ids -> Values \cup {None}])'
  BY SetTypes DEF Remove, StoreTypeOK
<1>4. (worn \in [Ids -> SUBSET labels])'
  BY DEF Remove, Set, StoreTypeOK
<1>5. (\A c \in Comments : worn[c] = {})'
  BY DEF Remove, Set, StoreTypeOK, Ids
<1> QED
  BY <1>1, <1>2, <1>3, <1>4, <1>5 DEF Remove

LEMMA SweepTypes ==
    ASSUME IInv, SweepStep
    PROVE  StoreTypeOK'
<1> USE DEF IInv
<1>1. CASE PurgeComments
  <2> DEFINE S == UNION {BumpedByComment(parent[c]) : c \in {c \in Comments : Expired(c)}}
  <2>1. S \in SUBSET Ids
    BY DEF BumpedByComment, Ids, Rows
  <2>2. Stamp(S)
    BY <1>1 DEF PurgeComments
  <2>3. sync_seq' \in Nat /\ sync_seq' >= sync_seq /\ seq' \in [Ids -> Nat]
    BY <2>1, <2>2, StampTypes
  <2>4. (outbox \subseteq 0..sync_seq)'
    <3>1. \A x \in 0..sync_seq : x \in 0..sync_seq'
      BY <2>3 DEF StoreTypeOK
    <3> QED
      BY <1>1, <3>1 DEF PurgeComments, StoreTypeOK
  <2> QED
    BY <1>1, <2>3, <2>4, RemoveTypes DEF PurgeComments, StoreTypeOK
<1>2. ASSUME NEW T, PurgeRows(T), (sweep \in {"idle", "issues", "pages"})'
      PROVE  StoreTypeOK'
  <2>1. UNCHANGED labels
    BY <1>2 DEF PurgeRows
  <2> QED
    BY <1>2, <2>1, RemoveTypes DEF PurgeRows, StoreTypeOK
<1>3. CASE PurgeIssues
  BY <1>2, <1>3 DEF PurgeIssues
<1>4. CASE PurgePages
  BY <1>2, <1>4 DEF PurgePages
<1>5. CASE SweepFails
  BY <1>5 DEF SweepFails, rows, StoreTypeOK
<1> QED
  BY <1>1, <1>3, <1>4, <1>5 DEF SweepStep

LEMMA StepTypes ==
    ASSUME IInv, [StoreNext]_store
    PROVE  StoreTypeOK'
<1> USE DEF IInv
<1>1. CASE UNCHANGED store
  BY <1>1 DEF store, rows, StoreTypeOK
<1>2. CASE ForeignWrite
  <2>1. (outbox \subseteq 0..sync_seq)'
    <3>1. \A x \in 0..sync_seq : x \in 0..(sync_seq + 1)
      BY DEF StoreTypeOK
    <3> QED
      BY <1>2, <3>1 DEF ForeignWrite, StoreTypeOK
  <2> QED
    BY <1>2, <2>1 DEF ForeignWrite, rows, StoreTypeOK
<1>3. CASE Tick
  BY <1>3 DEF Tick, rows, StoreTypeOK
<1>4. CASE Crash
  BY <1>4 DEF Crash, rows, StoreTypeOK
<1>5. CASE SweepStep
  BY <1>5, SweepTypes
<1>6. ASSUME NEW via \in Writers,
             IssueStep(via) \/ PageStep(via) \/ CommentStep(via) \/ LabelStep(via)
      PROVE  StoreTypeOK'
  <2>1. Issues \subseteq Rows /\ Pages \subseteq Rows
    BY DEF Rows
  <2>2. CASE IssueStep(via)
    BY <2>1, <2>2, RowTypes DEF IssueStep, CreateIssue, UpdateIssue, DeleteIssue, RestoreIssue
  <2>3. CASE PageStep(via)
    BY <2>1, <2>3, RowTypes DEF PageStep, CreatePage, UpdatePage, DeletePage, RestorePage
  <2>4. CASE CommentStep(via)
    BY <2>4, CommentTypes DEF CommentStep
  <2>5. CASE LabelStep(via)
    BY <2>5, LabelTypes
  <2> QED
    BY <1>6, <2>2, <2>3, <2>4, <2>5
<1> QED
  BY <1>1, <1>2, <1>3, <1>4, <1>5, <1>6 DEF StoreNext, StoreStep

-----------------------------------------------------------------------------
LEMMA InitIInv == StoreInit => IInv
<1> SUFFICES ASSUME StoreInit
             PROVE  IInv
  OBVIOUS
<1>1. outbox \subseteq 0..sync_seq
  BY DEF StoreInit
<1>2. now \in Nat /\ sync_seq \in Nat
  BY DEF StoreInit
<1>3. Comments \subseteq Ids
  BY DEF Ids
<1>4. StoreTypeOK
  BY <1>1, <1>2, <1>3 DEF StoreInit, StoreTypeOK
<1>5. StreamIsTotal
  BY DEF StoreInit, StreamIsTotal, InTable, Live, Tombstone
<1> QED
  BY <1>4, <1>5 DEF IInv

LEMMA NextIInv == IInv /\ [StoreNext]_store => IInv'
<1> SUFFICES ASSUME IInv, [StoreNext]_store
             PROVE  IInv'
  OBVIOUS
<1>1. PICK S : Draws(S) /\ CoversStep(S)
  BY StepDraws DEF CoveredDraw
<1>2. StreamIsTotal'
  BY <1>1, DrawKeepsStream
<1> QED
  BY <1>2, StepTypes DEF IInv

LEMMA InductiveInvariant == StoreSpec => []IInv
BY InitIInv, NextIInv, PTL DEF StoreSpec

(* The store is well typed in every reachable state, and no row wears a    *)
(* label that does not exist.                                              *)
THEOREM StoreTypeCorrect == StoreSpec => []StoreTypeOK
<1>1. IInv => StoreTypeOK
  BY DEF IInv
<1> QED
  BY <1>1, InductiveInvariant, PTL

(* The order /changes pages by is total, for any number of rows, comments  *)
(* and writers: no two rows in the tables share a seq, none is ahead of    *)
(* sync_seq.                                                               *)
THEOREM StreamTotal == StoreSpec => []StreamIsTotal
<1>1. IInv => StreamIsTotal
  BY DEF IInv
<1> QED
  BY <1>1, InductiveInvariant, PTL

(* Every mutation of a row in the tables that /changes reports moves it    *)
(* past every seq handed out before.                                       *)
THEOREM EveryMutationStamped == StoreSpec => MutationsAreStamped
<1> DEFINE A == \A id \in Ids : Changed(id) /\ state'[id] # "purged" => seq'[id] > sync_seq
<1>1. IInv /\ [StoreNext]_store => [A]_store
  <2> SUFFICES ASSUME IInv, [StoreNext]_store PROVE A
    OBVIOUS
  <2>1. PICK S : Draws(S) /\ CoversStep(S)
    BY StepDraws DEF CoveredDraw
  <2>2. sync_seq \in Nat /\ seq' \in [Ids -> Nat]
    BY <2>1 DEF IInv, StoreTypeOK, Draws
  <2> QED
    BY <2>1, <2>2 DEF Draws, CoversStep
<1> HIDE DEF A
<1>2. StoreSpec => [][A]_store
  BY <1>1, InductiveInvariant, PTL DEF StoreSpec
<1> QED
  BY <1>2 DEF A, MutationsAreStamped

-----------------------------------------------------------------------------
(* Comments and their parents.                                             *)
Family(c) ==
    /\ InTable(c) => parent[c] \in Rows
    /\ Live(c) => Live(parent[c])
    /\ Tombstone(c) => InTable(parent[c])
    /\ state[c] \in {"unborn", "live"} => alone[c] = 0
    /\ Tombstone(c) /\ alone[c] = 0 =>
            Tombstone(parent[c]) /\ deleted_at[c] = deleted_at[parent[c]]
    /\ Tombstone(c) /\ alone[c] # 0 => deleted_at[c] = alone[c]

Families == \A c \in Comments : Family(c)

FInv == StoreTypeOK /\ Families

-----------------------------------------------------------------------------
(* A step that leaves these four columns alone leaves every family alone.  *)
LEMMA UntouchedFamilies ==
    ASSUME Families, UNCHANGED <<state, deleted_at, parent, alone>>
    PROVE  Families'
BY DEF Families, Family, InTable, Live, Tombstone

(* A row is not a comment.                                                 *)
LEMMA Disjoint ==
    /\ Rows \subseteq Ids /\ Comments \subseteq Ids
    /\ \A c \in Comments : c \notin Rows
BY StoreAssumption DEF Ids

LEMMA CreateRowFamilies ==
    ASSUME FInv, NEW id \in Rows, NEW v, NEW ls, NEW via, CreateRow(id, v, ls, via)
    PROVE  Families'
<1>1. /\ state' = [x \in Ids |-> IF x = id THEN "live" ELSE state[x]]
      /\ UNCHANGED <<deleted_at, parent, alone>> /\ state[id] = "unborn"
  BY DEF CreateRow, Set
<1> SUFFICES ASSUME NEW c \in Comments PROVE Family(c)'
  BY DEF Families
<1>2. c # id /\ c \in Ids /\ Family(c)
  BY Disjoint DEF FInv, Families
<1> QED
  BY <1>1, <1>2, Disjoint DEF Family, InTable, Live, Tombstone

LEMMA DeleteRowFamilies ==
    ASSUME FInv, NEW id \in Rows, NEW via, DeleteRow(id, via)
    PROVE  Families'
<1> DEFINE down == {id} \cup CascadesTo(id)
<1>1. /\ state' = [x \in Ids |-> IF x \in down THEN "deleted" ELSE state[x]]
      /\ deleted_at' = [x \in Ids |-> IF x \in down THEN now ELSE deleted_at[x]]
      /\ UNCHANGED <<parent, alone>> /\ Live(id)
  BY DEF DeleteRow, Deletable, Set
<1> SUFFICES ASSUME NEW c \in Comments PROVE Family(c)'
  BY DEF Families
<1>2. c # id /\ c \in Ids /\ Family(c)
  BY Disjoint DEF FInv, Families
<1>3. \A r \in Rows : r \in down <=> r = id
  BY Disjoint DEF CascadesTo, ChildrenOf
<1>4. CASE c \in CascadesTo(id)
  <2>1. Live(c) /\ parent[c] = id
    BY <1>4 DEF CascadesTo, ChildrenOf
  <2> QED
    BY <1>1, <1>2, <1>4, <2>1, Disjoint DEF Family, InTable, Live, Tombstone
<1>5. CASE c \notin CascadesTo(id)
  <2>1. c \notin down /\ (Live(c) => parent[c] # id)
    BY <1>2, <1>5 DEF CascadesTo, ChildrenOf
  <2>2. state'[c] = state[c] /\ deleted_at'[c] = deleted_at[c] /\ alone'[c] = alone[c]
    BY <1>1, <1>2, <1>5, <2>1
  <2>3. \A r \in Rows : r # id => state'[r] = state[r] /\ deleted_at'[r] = deleted_at[r]
    BY <1>1, <1>3, Disjoint
  <2>4. state'[id] = "deleted"
    BY <1>1, Disjoint
  <2> QED
    BY <1>1, <1>2, <2>1, <2>2, <2>3, <2>4 DEF Family, InTable, Live, Tombstone
<1> QED
  BY <1>4, <1>5

LEMMA RestoreRowFamilies ==
    ASSUME FInv, NEW id \in Rows, NEW via, RestoreRow(id, via)
    PROVE  Families'
<1> DEFINE up == {id} \cup Revived(id)
<1>1. /\ state' = [x \in Ids |-> IF x \in up THEN "live" ELSE state[x]]
      /\ deleted_at' = [x \in Ids |-> IF x \in up THEN 0 ELSE deleted_at[x]]
      /\ alone' = [x \in Ids |-> IF x \in up THEN 0 ELSE alone[x]]
      /\ UNCHANGED parent /\ Tombstone(id)
  BY DEF RestoreRow, Set
<1> SUFFICES ASSUME NEW c \in Comments PROVE Family(c)'
  BY DEF Families
<1>2. c # id /\ c \in Ids /\ Family(c)
  BY Disjoint DEF FInv, Families
<1>3. \A r \in Rows : r \in up <=> r = id
  BY Disjoint DEF Revived, ChildrenOf
<1>4. state'[id] = "live"
  BY <1>1, Disjoint
<1>5. CASE c \in Revived(id)
  <2>1. Tombstone(c) /\ parent[c] = id
    BY <1>5 DEF Revived, ChildrenOf
  <2> QED
    BY <1>1, <1>2, <1>4, <1>5, <2>1 DEF Family, InTable, Live, Tombstone
<1>6. CASE c \notin Revived(id)
  <2>1. c \notin up
    BY <1>2, <1>6
  <2>2. state'[c] = state[c] /\ deleted_at'[c] = deleted_at[c] /\ alone'[c] = alone[c]
    BY <1>1, <1>2, <2>1
  <2>3. \A r \in Rows : r # id => state'[r] = state[r] /\ deleted_at'[r] = deleted_at[r]
    BY <1>1, <1>3, Disjoint
  <2>4. Tombstone(c) /\ parent[c] = id => alone[c] # 0
    BY <1>2, <1>6 DEF Revived, ChildrenOf, Family
  <2> QED
    BY <1>1, <1>2, <1>4, <2>2, <2>3, <2>4 DEF Family, InTable, Live, Tombstone
<1> QED
  BY <1>5, <1>6

(* The three operations on comments touch one comment and no row.          *)
LEMMA CommentFamilies ==
    ASSUME FInv, NEW via, CommentStep(via)
    PROVE  Families'
<1>1. ASSUME NEW c \in Comments, NEW p \in Rows, NEW v \in Values, AddComment(c, p, v, via)
      PROVE  Families'
  <2>1. /\ state' = [x \in Ids |-> IF x = c THEN "live" ELSE state[x]]
        /\ parent' = [x \in Ids |-> IF x = c THEN p ELSE parent[x]]
        /\ UNCHANGED <<deleted_at, alone>>
        /\ state[c] = "unborn" /\ Live(p)
    BY <1>1 DEF AddComment, WriteComment, Set
  <2> SUFFICES ASSUME NEW d \in Comments PROVE Family(d)'
    BY DEF Families
  <2>2. d \in Ids /\ Family(d) /\ Family(c) /\ p \in Ids /\ p # c
    BY Disjoint DEF FInv, Families
  <2> QED
    BY <2>1, <2>2, Disjoint DEF Family, InTable, Live, Tombstone
<1>2. ASSUME NEW c \in Comments, NEW v \in Values, EditComment(c, v, via)
      PROVE  Families'
  BY <1>2, UntouchedFamilies DEF EditComment, WriteComment, FInv
<1>3. ASSUME NEW c \in Comments, DeleteComment(c, via)
      PROVE  Families'
  <2>1. /\ state' = [x \in Ids |-> IF x = c THEN "deleted" ELSE state[x]]
        /\ deleted_at' = [x \in Ids |-> IF x = c THEN now ELSE deleted_at[x]]
        /\ alone' = [x \in Ids |-> IF x = c THEN now ELSE alone[x]]
        /\ UNCHANGED parent /\ Live(c) /\ now # 0
    BY <1>3 DEF DeleteComment, WriteComment, Set, FInv, StoreTypeOK
  <2> SUFFICES ASSUME NEW d \in Comments PROVE Family(d)'
    BY DEF Families
  <2>2. d \in Ids /\ Family(d) /\ Family(c)
    BY Disjoint DEF FInv, Families
  <2> QED
    BY <2>1, <2>2, Disjoint DEF Family, InTable, Live, Tombstone
<1> QED
  BY <1>1, <1>2, <1>3 DEF CommentStep

(* The sweep removes comments before their parents, and what is left under *)
(* a parent goes with it.                                                  *)
LEMMA SweepFamilies ==
    ASSUME FInv, SweepStep
    PROVE  Families'
<1>1. CASE PurgeComments
  <2> DEFINE dead == {c \in Comments : Expired(c)}
  <2>1. /\ state' = [x \in Ids |-> IF x \in dead THEN "purged" ELSE state[x]]
        /\ deleted_at' = [x \in Ids |-> IF x \in dead THEN 0 ELSE deleted_at[x]]
        /\ UNCHANGED <<parent, alone>>
    BY <1>1 DEF PurgeComments, Remove, Set
  <2> SUFFICES ASSUME NEW c \in Comments PROVE Family(c)'
    BY DEF Families
  <2>2. c \in Ids /\ Family(c)
    BY Disjoint DEF FInv, Families
  <2>3. \A r \in Rows : r \in Ids /\ r \notin dead
    BY Disjoint
  <2> HIDE DEF dead
  <2> QED
    BY <2>1, <2>2, <2>3 DEF Family, InTable, Live, Tombstone
<1>2. ASSUME NEW T \in SUBSET Rows, PurgeRows(T)
      PROVE  Families'
  <2> DEFINE dead == {id \in T : Expired(id)}
             orphans == {c \in Comments : parent[c] \in dead /\ InTable(c)}
  <2>1. /\ state' = [x \in Ids |-> IF x \in dead \cup orphans THEN "purged" ELSE state[x]]
        /\ deleted_at' = [x \in Ids |-> IF x \in dead \cup orphans THEN 0 ELSE deleted_at[x]]
        /\ UNCHANGED <<parent, alone>>
    BY <1>2 DEF PurgeRows, Remove, Set
  <2> SUFFICES ASSUME NEW c \in Comments PROVE Family(c)'
    BY DEF Families
  <2>2. c \in Ids /\ Family(c) /\ c \notin dead
    BY Disjoint DEF FInv, Families
  <2>3. \A r \in Rows : r \in Ids /\ r \notin orphans
    BY Disjoint
  <2>4. InTable(c) /\ c \notin orphans => parent[c] \in Rows \ dead
    BY <2>2 DEF Family
  <2> HIDE DEF dead, orphans
  <2> QED
    BY <2>1, <2>2, <2>3, <2>4 DEF Family, InTable, Live, Tombstone
<1>3. CASE PurgeIssues
  BY <1>2, <1>3 DEF PurgeIssues, Rows
<1>4. CASE PurgePages
  BY <1>2, <1>4 DEF PurgePages, Rows
<1>5. CASE SweepFails
  BY <1>5, UntouchedFamilies DEF SweepFails, rows, FInv
<1> QED
  BY <1>1, <1>3, <1>4, <1>5 DEF SweepStep

LEMMA RowFamilies ==
    ASSUME FInv, NEW via, IssueStep(via) \/ PageStep(via)
    PROVE  Families'
<1>1. Issues \subseteq Rows /\ Pages \subseteq Rows
  BY DEF Rows
<1>2. ASSUME NEW id \in Rows, NEW v, NEW ls, UpdateRow(id, v, ls, via)
      PROVE  Families'
  <2>1. UNCHANGED <<state, deleted_at, parent, alone>>
    BY <1>2 DEF UpdateRow
  <2> QED
    BY <2>1, UntouchedFamilies DEF FInv
<1>3. CASE IssueStep(via)
  BY <1>1, <1>2, <1>3, CreateRowFamilies, DeleteRowFamilies, RestoreRowFamilies
  DEF IssueStep, CreateIssue, UpdateIssue, DeleteIssue, RestoreIssue
<1>4. CASE PageStep(via)
  BY <1>1, <1>2, <1>4, CreateRowFamilies, DeleteRowFamilies, RestoreRowFamilies
  DEF PageStep, CreatePage, UpdatePage, DeletePage, RestorePage
<1> QED
  BY <1>3, <1>4

LEMMA StepFamilies ==
    ASSUME FInv, [StoreNext]_store
    PROVE  Families'
<1>1. CASE UNCHANGED store
  BY <1>1, UntouchedFamilies DEF store, rows, FInv
<1>2. CASE ForeignWrite \/ Tick \/ Crash
  BY <1>2, UntouchedFamilies DEF ForeignWrite, Tick, Crash, rows, FInv
<1>3. ASSUME NEW via \in Writers, LabelStep(via)
      PROVE  Families'
  <2>1. UNCHANGED <<state, deleted_at, parent, alone>>
    BY <1>3 DEF LabelStep, CreateLabel, DeleteLabel, MergeLabel, DropLabel
  <2> QED
    BY <2>1, UntouchedFamilies DEF FInv
<1> QED
  BY <1>1, <1>2, <1>3, RowFamilies, CommentFamilies, SweepFamilies DEF StoreNext, StoreStep

-----------------------------------------------------------------------------
LEMMA InitFamilies == StoreInit => Families
<1>1. Comments \subseteq Ids
  BY DEF Ids
<1> QED
  BY <1>1 DEF StoreInit, Families, Family, InTable, Live, Tombstone

LEMMA FamiliesInvariant == StoreSpec => []Families
<1>1. IInv /\ Families /\ [StoreNext]_store => Families'
  BY StepFamilies DEF IInv, FInv
<1> QED
  BY <1>1, InitFamilies, InductiveInvariant, PTL DEF StoreSpec

(* No comment outlives its parent, for any number of rows, comments and    *)
(* writers, wherever the sweep is interrupted.                             *)
THEOREM NoOrphans == StoreSpec => []NoOrphanComment
<1>1. Families => NoOrphanComment
  BY DEF Families, Family, NoOrphanComment
<1> QED
  BY <1>1, FamiliesInvariant, PTL

(* The restore cascade finds every comment that went down with its parent  *)
(* and is still in the table, and none that was deleted on its own, unless *)
(* at the instant of the parent's deletion.                                *)
THEOREM RestoreExact == StoreSpec => []RestoreIsExact
<1>1. Families => RestoreIsExact
  BY DEF Families, Family, RestoreIsExact, ChildrenOf, Revived
<1> QED
  BY <1>1, FamiliesInvariant, PTL
-----------------------------------------------------------------------------
(* Comments and the issue they hang off.  The parent of a comment that a   *)
(* step changes is among the rows the step stamps, or is itself removed.   *)
CommentChanged(c) == content'[c] # content[c] \/ state'[c] # state[c]

Advances ==
    \A c \in Comments :
        LET i == parent'[c] IN
        (content'[c] # content[c] \/ state'[c] # state[c])
            /\ i \in Issues /\ state'[i] # "purged"
        => seq'[i] > sync_seq

(* Issues are rows of the stream.                                          *)
LEMMA IssuesAreRows == Issues \subseteq Rows /\ Pages \subseteq Rows /\ Rows \subseteq Ids
BY DEF Rows, Ids

LEMMA StampAdvances ==
    ASSUME StoreTypeOK, NEW S \in SUBSET Ids, Stamp(S),
           \A c \in Comments : CommentChanged(c) /\ parent'[c] \in Issues => parent'[c] \in S
    PROVE  Advances
<1>1. \A id \in S : sync_seq < seq'[id] /\ seq'[id] \in Nat
  BY StampDraws DEF Draws
<1>2. sync_seq \in Nat
  BY DEF StoreTypeOK
<1>3. \A id \in S : seq'[id] > sync_seq
  BY <1>1, <1>2
<1> QED
  BY <1>3 DEF Advances, CommentChanged

LEMMA NoCommentAdvances ==
    ASSUME \A c \in Comments : ~CommentChanged(c)
    PROVE  Advances
BY DEF Advances, CommentChanged

LEMMA RowAdvances ==
    ASSUME FInv, NEW id \in Rows, NEW v, NEW ls, NEW via,
           \/ CreateRow(id, v, ls, via) \/ UpdateRow(id, v, ls, via)
           \/ DeleteRow(id, via) \/ RestoreRow(id, via)
    PROVE  Advances
<1>1. id \in Ids /\ id \notin Comments
  BY Disjoint
<1>2. CASE CreateRow(id, v, ls, via) \/ UpdateRow(id, v, ls, via)
  <2>1. \A c \in Comments : c # id /\ c \in Ids
    BY Disjoint
  <2>2. \A c \in Comments : content'[c] = content[c] /\ state'[c] = state[c]
    BY <1>2, <2>1 DEF CreateRow, UpdateRow, Set, FInv, StoreTypeOK
  <2> QED
    BY <2>2, NoCommentAdvances DEF CommentChanged
<1>3. CASE DeleteRow(id, via)
  <2> DEFINE down == {id} \cup CascadesTo(id)
  <2>1. /\ Stamp(down) /\ down \in SUBSET Ids
        /\ state' = Set(state, down, "deleted") /\ UNCHANGED <<content, parent>>
    BY <1>1, <1>3, Disjoint DEF DeleteRow, Write, CascadesTo, ChildrenOf
  <2>2. \A c \in Comments : CommentChanged(c) => c \in CascadesTo(id)
    BY <1>1, <2>1, Disjoint DEF CommentChanged, Set, FInv, StoreTypeOK
  <2>3. \A c \in Comments : CommentChanged(c) => parent'[c] \in down
    BY <2>1, <2>2 DEF CascadesTo, ChildrenOf
  <2> QED
    BY <2>1, <2>3, StampAdvances DEF FInv
<1>4. CASE RestoreRow(id, via)
  <2> DEFINE up == {id} \cup Revived(id)
  <2>1. /\ Stamp(up) /\ up \in SUBSET Ids
        /\ state' = Set(state, up, "live") /\ UNCHANGED <<content, parent>>
    BY <1>1, <1>4, Disjoint DEF RestoreRow, Write, Revived, ChildrenOf
  <2>2. \A c \in Comments : CommentChanged(c) => c \in Revived(id)
    BY <1>1, <2>1, Disjoint DEF CommentChanged, Set, FInv, StoreTypeOK
  <2>3. \A c \in Comments : CommentChanged(c) => parent'[c] \in up
    BY <2>1, <2>2 DEF Revived, ChildrenOf
  <2> QED
    BY <2>1, <2>3, StampAdvances DEF FInv
<1> QED
  BY <1>2, <1>3, <1>4

(* A write to a comment bumps the issue the comment is on afterwards.      *)
LEMMA WriteCommentAdvances ==
    ASSUME FInv, NEW c \in Comments, NEW p, NEW via, WriteComment(c, p, via), parent'[c] = p,
           \A d \in Comments : d # c => content'[d] = content[d] /\ state'[d] = state[d]
    PROVE  Advances
<1> DEFINE S == {c} \cup BumpedByComment(p)
<1>1. S \in SUBSET Ids
  BY Disjoint, IssuesAreRows DEF BumpedByComment
<1>2. Stamp(S)
  BY DEF WriteComment, Write
<1>3. \A d \in Comments : CommentChanged(d) /\ parent'[d] \in Issues => parent'[d] \in S
  BY DEF CommentChanged, BumpedByComment
<1> QED
  BY <1>1, <1>2, <1>3, StampAdvances DEF FInv

LEMMA CommentAdvances ==
    ASSUME FInv, NEW via, CommentStep(via)
    PROVE  Advances
<1>1. ASSUME NEW c \in Comments, NEW p \in Rows, NEW v \in Values, AddComment(c, p, v, via)
      PROVE  Advances
  <2>1. \A d \in Comments : d # c => content'[d] = content[d] /\ state'[d] = state[d]
    BY <1>1, Disjoint DEF AddComment, Set
  <2>2. parent'[c] = p /\ WriteComment(c, p, via)
    BY <1>1, Disjoint DEF AddComment, Set
  <2> QED
    BY <2>1, <2>2, WriteCommentAdvances
<1>2. ASSUME NEW c \in Comments, NEW v \in Values, EditComment(c, v, via)
      PROVE  Advances
  <2>1. \A d \in Comments : d # c => content'[d] = content[d] /\ state'[d] = state[d]
    BY <1>2, Disjoint DEF EditComment, Set
  <2>2. parent'[c] = parent[c] /\ WriteComment(c, parent[c], via)
    BY <1>2 DEF EditComment
  <2> QED
    BY <2>1, <2>2, WriteCommentAdvances
<1>3. ASSUME NEW c \in Comments, DeleteComment(c, via)
      PROVE  Advances
  <2>1. \A d \in Comments : d # c => content'[d] = content[d] /\ state'[d] = state[d]
    BY <1>3, Disjoint DEF DeleteComment, Set
  <2>2. parent'[c] = parent[c] /\ WriteComment(c, parent[c], via)
    BY <1>3 DEF DeleteComment
  <2> QED
    BY <2>1, <2>2, WriteCommentAdvances
<1> QED
  BY <1>1, <1>2, <1>3 DEF CommentStep

(* What the sweep takes under a purged parent goes with a row that is gone.*)
LEMMA SweepAdvances ==
    ASSUME FInv, SweepStep
    PROVE  Advances
<1>1. CASE PurgeComments
  <2> DEFINE dead == {c \in Comments : Expired(c)}
             S == UNION {BumpedByComment(parent[c]) : c \in dead}
  <2>1. S \in SUBSET Ids
    BY IssuesAreRows DEF BumpedByComment
  <2>2. Stamp(S) /\ Remove(dead)
    BY <1>1 DEF PurgeComments
  <2>3. \A c \in Comments : CommentChanged(c) => c \in dead
    BY <2>2, Disjoint DEF Remove, Set, CommentChanged
  <2>4. \A c \in dead : parent[c] \in Issues => parent[c] \in S
    BY DEF BumpedByComment
  <2>5. UNCHANGED parent
    BY <2>2 DEF Remove
  <2> QED
    BY <2>1, <2>2, <2>3, <2>4, <2>5, StampAdvances DEF FInv
<1>2. ASSUME NEW T \in SUBSET Rows, PurgeRows(T)
      PROVE  Advances
  <2> DEFINE dead == {id \in T : Expired(id)}
             orphans == {c \in Comments : parent[c] \in dead /\ InTable(c)}
  <2>1. Remove(dead \cup orphans)
    BY <1>2 DEF PurgeRows
  <2>2. \A c \in Comments : CommentChanged(c) => c \in orphans
    BY <2>1, Disjoint DEF Remove, Set, CommentChanged
  <2>3. \A c \in orphans : parent'[c] \in dead
    BY <2>1 DEF Remove
  <2>4. \A id \in dead : state'[id] = "purged"
    BY <2>1, Disjoint DEF Remove, Set
  <2> QED
    BY <2>2, <2>3, <2>4 DEF Advances, CommentChanged
<1>3. CASE PurgeIssues
  BY <1>2, <1>3 DEF PurgeIssues, Rows
<1>4. CASE PurgePages
  BY <1>2, <1>4 DEF PurgePages, Rows
<1>5. CASE SweepFails
  BY <1>5, NoCommentAdvances DEF SweepFails, rows, CommentChanged
<1> QED
  BY <1>1, <1>3, <1>4, <1>5 DEF SweepStep

LEMMA StepAdvances ==
    ASSUME FInv, StoreNext
    PROVE  Advances
<1>1. CASE ForeignWrite \/ Tick \/ Crash
  BY <1>1, NoCommentAdvances DEF ForeignWrite, Tick, Crash, rows, CommentChanged
<1>2. ASSUME NEW via \in Writers, LabelStep(via)
      PROVE  Advances
  <2>1. UNCHANGED <<content, state>>
    BY <1>2 DEF LabelStep, CreateLabel, DeleteLabel, MergeLabel, DropLabel
  <2> QED
    BY <2>1, NoCommentAdvances DEF CommentChanged
<1>3. ASSUME NEW via \in Writers, IssueStep(via) \/ PageStep(via)
      PROVE  Advances
  BY <1>3, RowAdvances, IssuesAreRows
  DEF IssueStep, CreateIssue, UpdateIssue, DeleteIssue, RestoreIssue,
      PageStep, CreatePage, UpdatePage, DeletePage, RestorePage
<1> QED
  BY <1>1, <1>2, <1>3, CommentAdvances, SweepAdvances DEF StoreNext, StoreStep

(* Whatever adds, edits, deletes, revives or purges a comment of an issue  *)
(* that stays moves the issue past every cursor handed out before.         *)
THEOREM IssueFollowsComments == StoreSpec => CommentsAdvanceTheirIssue
<1>1. StoreTypeOK /\ Families /\ [StoreNext]_store => [Advances]_store
  BY StepAdvances DEF FInv
<1>2. StoreSpec => [][Advances]_store
  BY <1>1, StoreTypeCorrect, FamiliesInvariant, PTL DEF StoreSpec
<1> QED
  BY <1>2 DEF Advances, CommentsAdvanceTheirIssue

-----------------------------------------------------------------------------
(***************************************************************************)
(* The store as a change stream.  What a row's entry may do follows from   *)
(* the draw that covers the step and from what the step may do to the      *)
(* row's state: nothing comes back, nothing is forgotten, and only a       *)
(* tombstone is removed, also by the foreign key that takes the comments   *)
(* of a purged parent (NoOrphanComment).                                   *)
(***************************************************************************)
Fated(id) ==
    /\ state[id] = "purged" => state'[id] = "purged"
    /\ InTable(id) => InTable(id)' \/ state'[id] = "purged"
    /\ state'[id] = "purged" => state[id] = "purged" \/ Tombstone(id)

AllFated == \A id \in Ids : Fated(id)

LEMMA SetFated ==
    ASSUME NEW S, NEW v \in {"live", "deleted"}, state' = Set(state, S, v),
           \A id \in S : state[id] # "purged"
    PROVE  AllFated
BY DEF AllFated, Fated, Set, InTable, Live, Tombstone

LEMMA RemoveFated ==
    ASSUME NEW D, Remove(D), \A id \in D : Tombstone(id)
    PROVE  AllFated
BY DEF AllFated, Fated, Remove, Set, InTable, Live, Tombstone

LEMMA SameFated ==
    ASSUME UNCHANGED state
    PROVE  AllFated
BY DEF AllFated, Fated, InTable, Live, Tombstone

LEMMA RowFated ==
    ASSUME NEW id, NEW via,
           \/ \E v, ls : CreateRow(id, v, ls, via)
           \/ \E v, ls : UpdateRow(id, v, ls, via)
           \/ DeleteRow(id, via)
           \/ RestoreRow(id, via)
    PROVE  AllFated
<1>1. CASE \E v, ls : CreateRow(id, v, ls, via)
  BY <1>1, SetFated DEF CreateRow
<1>2. CASE \E v, ls : UpdateRow(id, v, ls, via)
  BY <1>2, SameFated DEF UpdateRow
<1>3. CASE DeleteRow(id, via)
  BY <1>3, SetFated DEF DeleteRow, Deletable, CascadesTo, Live
<1>4. CASE RestoreRow(id, via)
  BY <1>4, SetFated DEF RestoreRow, Revived, Tombstone
<1> QED
  BY <1>1, <1>2, <1>3, <1>4

LEMMA CommentFated ==
    ASSUME NEW via, CommentStep(via)
    PROVE  AllFated
<1>1. CASE \E c \in Comments, p \in Rows, v \in Values : AddComment(c, p, v, via)
  BY <1>1, SetFated DEF AddComment
<1>2. CASE \E c \in Comments, v \in Values : EditComment(c, v, via)
  BY <1>2, SameFated DEF EditComment
<1>3. CASE \E c \in Comments : DeleteComment(c, via)
  BY <1>3, SetFated DEF DeleteComment, Live
<1> QED
  BY <1>1, <1>2, <1>3 DEF CommentStep

LEMMA SweepFated ==
    ASSUME StoreTypeOK, NoOrphanComment, SweepStep
    PROVE  AllFated
<1>1. CASE PurgeComments
  BY <1>1, RemoveFated DEF PurgeComments, Expired
<1>2. ASSUME NEW T, PurgeRows(T)
      PROVE  AllFated
  <2> DEFINE dead == {id \in T : Expired(id)}
             orphans == {c \in Comments : parent[c] \in dead /\ InTable(c)}
  <2>1. \A id \in dead : Tombstone(id) /\ ~Live(id)
    BY DEF Expired, Tombstone, Live
  <2>2. \A c \in orphans : Tombstone(c)
    BY <2>1 DEF NoOrphanComment, InTable
  <2>3. Remove(dead \cup orphans)
    BY <1>2 DEF PurgeRows
  <2> HIDE DEF dead, orphans
  <2> QED
    BY <2>1, <2>2, <2>3, RemoveFated
<1>3. CASE PurgeIssues
  BY <1>2, <1>3 DEF PurgeIssues
<1>4. CASE PurgePages
  BY <1>2, <1>4 DEF PurgePages
<1>5. CASE SweepFails
  BY <1>5, SameFated DEF SweepFails, rows
<1> QED
  BY <1>1, <1>3, <1>4, <1>5 DEF SweepStep

LEMMA StepFated ==
    ASSUME StoreTypeOK, NoOrphanComment, [StoreNext]_store
    PROVE  AllFated
<1>1. CASE UNCHANGED store \/ ForeignWrite \/ Tick \/ Crash
  BY <1>1, SameFated DEF store, rows, ForeignWrite, Tick, Crash
<1>2. ASSUME NEW via \in Writers, LabelStep(via)
      PROVE  AllFated
  BY <1>2, SameFated DEF LabelStep, CreateLabel, DeleteLabel, MergeLabel, DropLabel
<1>3. ASSUME NEW via \in Writers, IssueStep(via)
      PROVE  AllFated
  BY <1>3, RowFated DEF IssueStep, CreateIssue, UpdateIssue, DeleteIssue, RestoreIssue
<1>4. ASSUME NEW via \in Writers, PageStep(via)
      PROVE  AllFated
  BY <1>4, RowFated DEF PageStep, CreatePage, UpdatePage, DeletePage, RestorePage
<1> QED
  BY <1>1, <1>2, <1>3, <1>4, CommentFated, SweepFated DEF StoreNext, StoreStep

(* What the stream holds of a row that is in its table, or is not.         *)
LEMMA EntryIsOne ==
    ASSUME NEW s, NEW r
    PROVE  /\ [seq |-> s, says |-> r] # NoEntry
           /\ [seq |-> s, says |-> r].seq = s
           /\ [seq |-> s, says |-> r].says = r
BY DEF NoEntry

EntryFits(id) ==
    /\ ~InTable(id) => Entries[id] = NoEntry
    /\ InTable(id) => /\ Entries[id] = [seq |-> seq[id], says |-> Report(id)]
                      /\ Entries[id] # NoEntry
                      /\ Entries[id].seq = seq[id]
                      /\ Entries[id].says = Report(id)

LEMMA EntriesFit == \A id \in Ids : EntryFits(id) /\ EntryFits(id)'
<1> SUFFICES ASSUME NEW id \in Ids PROVE EntryFits(id) /\ EntryFits(id)'
  OBVIOUS
<1>1. Entries[id] = IF InTable(id) THEN [seq |-> seq[id], says |-> Report(id)] ELSE NoEntry
  BY DEF Entries
<1>2. EntryFits(id)
  BY <1>1, EntryIsOne DEF EntryFits
<1>3. Entries'[id] = IF InTable(id)' THEN [seq |-> seq'[id], says |-> Report(id)'] ELSE NoEntry
  BY DEF Entries, NoEntry
<1>4. EntryFits(id)'
  BY <1>3, EntryIsOne DEF EntryFits, NoEntry
<1> QED
  BY <1>2, <1>4

(* An entry that no draw covers is the one that was there.                 *)
LEMMA UndrawnKeeps ==
    ASSUME StoreTypeOK, NEW S, Draws(S), CoversStep(S), AllFated,
           NEW id \in Ids, id \notin S \/ ~InTable(id)', state'[id] # "purged"
    PROVE  Entries'[id] = Entries[id]
<1>0. EntryFits(id) /\ EntryFits(id)'
  BY EntriesFit
<1>1. InTable(id) => InTable(id)'
  BY DEF AllFated, Fated
<1>2. CASE ~InTable(id)'
  BY <1>0, <1>1, <1>2 DEF EntryFits, NoEntry
<1>3. CASE InTable(id)'
  <2>1. id \notin S /\ InTable(id) /\ ~Changed(id)
    BY <1>3 DEF CoversStep
  <2>2. seq'[id] = seq[id]
    BY <2>1 DEF Draws
  <2>3. Report(id)' = Report(id)
    BY <2>1 DEF Changed, Report, Live, Gone
  <2> QED
    BY <1>0, <1>3, <2>1, <2>2, <2>3 DEF EntryFits
<1> QED
  BY <1>2, <1>3

LEMMA StepWrites ==
    ASSUME IInv, NoOrphanComment, [StoreNext]_store
    PROVE  Stream!StreamNext
<1>1. PICK S : Draws(S) /\ CoversStep(S)
  BY StepDraws DEF CoveredDraw
<1>2. AllFated /\ StoreTypeOK
  BY StepFated DEF IInv
<1> DEFINE W == {id \in S : InTable(id)'}
           gone == Purged' \ Purged
<1>3. W \in SUBSET Ids /\ sync_seq' >= sync_seq /\ sync_seq \in Nat /\ sync_seq' \in Nat
  BY <1>1, <1>2 DEF Draws, StoreTypeOK
<1>4. Purged \subseteq Purged' /\ W \cap Purged' = {}
  BY <1>2 DEF Purged, AllFated, Fated, InTable, Live, Tombstone
<1>5. ASSUME NEW id \in gone
      PROVE  Entries[id] # NoEntry /\ Entries[id].says = Gone
  <2>1. id \in Ids /\ Tombstone(id)
    BY <1>2 DEF Purged, AllFated, Fated
  <2>2. InTable(id) /\ Report(id) = Gone
    BY <2>1 DEF InTable, Report, Live, Tombstone
  <2> QED
    BY <2>1, <2>2, EntriesFit DEF EntryFits
<1>6. ASSUME NEW id \in Ids \ W
      PROVE  Entries'[id] = IF id \in gone THEN NoEntry ELSE Entries[id]
  <2>1. CASE state'[id] = "purged"
    <3>1. ~InTable(id)' /\ EntryFits(id) /\ EntryFits(id)'
      BY <2>1, EntriesFit DEF InTable, Live, Tombstone
    <3>2. id \in Purged => ~InTable(id)
      BY DEF Purged, InTable, Live, Tombstone
    <3> QED
      BY <2>1, <3>1, <3>2 DEF EntryFits, Purged, NoEntry
  <2>2. CASE state'[id] # "purged"
    BY <1>1, <1>2, <2>2, UndrawnKeeps DEF Purged
  <2> QED
    BY <2>1, <2>2
<1>7. ASSUME NEW id \in W
      PROVE  /\ Entries'[id] # NoEntry
             /\ Entries'[id].seq = seq'[id]
             /\ Entries'[id].seq \in (sync_seq + 1)..sync_seq'
  <2>1. id \in Ids /\ EntryFits(id)'
    BY <1>3, EntriesFit
  <2>2. Entries'[id] # NoEntry /\ Entries'[id].seq = seq'[id]
    BY <2>1 DEF EntryFits, NoEntry
  <2>3. sync_seq < seq'[id] /\ seq'[id] <= sync_seq' /\ seq'[id] \in Nat
    BY <1>1, <2>1 DEF Draws
  <2> QED
    BY <1>3, <2>2, <2>3
<1>8. \A x, y \in W : Entries'[x].seq = Entries'[y].seq => x = y
  BY <1>1, <1>7 DEF Draws
<1>9. Stream!Write(W)
  <2> HIDE DEF W
  <2> QED
    BY <1>3, <1>4, <1>5, <1>6, <1>7, <1>8 DEF Stream!Write
<1> QED
  BY <1>3, <1>9 DEF Stream!StreamNext

LEMMA InitStream == StoreInit => Stream!StreamInit
<1> SUFFICES ASSUME StoreInit PROVE Stream!StreamInit
  OBVIOUS
<1>1. \A id \in Ids : ~InTable(id) /\ state[id] # "purged"
  BY DEF StoreInit, InTable, Live, Tombstone
<1>2. Entries = [id \in Ids |-> NoEntry] /\ Purged = {} /\ sync_seq = 0
  BY <1>1 DEF Entries, Purged, StoreInit
<1> QED
  BY <1>2 DEF Stream!StreamInit

(* The store implements the change stream, for any tables, labels and      *)
(* writers: every transaction, trigger cascade, sweep statement and crash  *)
(* is one write of the stream or invisible in it.                          *)
THEOREM StoreIsAStream == StoreSpec => IsAStream
<1>1. IInv /\ NoOrphanComment /\ [StoreNext]_store => [Stream!StreamNext]_(Stream!stream)
  BY StepWrites
<1> QED
  BY <1>1, InitStream, InductiveInvariant, NoOrphans, PTL DEF StoreSpec, IsAStream, Stream!StreamSpec
=============================================================================
