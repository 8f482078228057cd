------------------------------ MODULE SyncStore ------------------------------
(***************************************************************************)
(* The syncable tables of one lific project and the instance-wide counter  *)
(* sync_seq that stamps them: src/db/queries/{issues,pages,comments,       *)
(* resources,trash}.rs with the triggers of migrations 045 and 047.        *)
(*                                                                         *)
(* One transaction is one step: SQLite has a single writer.  A trigger's   *)
(* work is part of the step of the statement that fires it.  A stamp may   *)
(* draw several ticks of sync_seq inside one transaction; only the last    *)
(* one of a row is ever visible, so a row draws one tick per transaction.  *)
(* SQLite does not fix the order in which the triggers of one statement    *)
(* fire, so the rows of one transaction draw their ticks in any order.     *)
(***************************************************************************)
EXTENDS Integers, FiniteSets

CONSTANTS
    Issues, Pages, Comments,    \* row ids; AUTOINCREMENT never reuses one
    Labels,                     \* label ids of the project
    Values,                     \* what a title or a body can hold
    Writers,                    \* subset of {"api", "cli"}
    TrashDays,                  \* [retention] trash_days, 0: never purge
    MaxSeq,                     \* bound: ticks of sync_seq
    MaxTime                     \* bound: the clock that stamps deleted_at

Rows == Issues \cup Pages
Ids == Rows \cup Comments
None == "none"

ASSUME StoreAssumption ==
    /\ TrashDays \in Nat /\ MaxSeq \in Nat /\ MaxTime \in Nat
    /\ IsFiniteSet(Ids)
    /\ Issues \cap Pages = {} /\ Rows \cap Comments = {}
    /\ None \notin Ids \cup Values

VARIABLES
    sync_seq,   \* sync_seq.value
    (* Columns of issues, pages and comments, by row id.                   *)
    state,      \* "unborn", "live", "deleted" (deleted_at set), "purged"
    seq,
    deleted_at, \* 0 is NULL
    content,
    worn,       \* issue_labels, page_labels
    parent,     \* issue_id or page_id of a comment
    alone,      \* history: instant at which a comment was deleted on its own;
                \* 0: it lives, or went down with its parent
    labels,     \* label ids that exist
    now,        \* strftime('now'), the clock of TOMBSTONE_NOW
    sweep,      \* where the trash sweep is between its three statements
    outbox      \* seqs whose handler has committed and not yet published

rows == <<state, seq, deleted_at, content, worn, parent, alone>>
store == <<sync_seq, rows, labels, now, sweep, outbox>>

(* Types, and no issue or page wears a label that does not exist.          *)
StoreTypeOK ==
    /\ sync_seq \in Nat
    /\ state \in [Ids -> {"unborn", "live", "deleted", "purged"}]
    /\ seq \in [Ids -> Nat]
    /\ deleted_at \in [Ids -> Nat]
    /\ content \in [Ids -> Values \cup {None}]
    /\ worn \in [Ids -> SUBSET labels]
    /\ \A c \in Comments : worn[c] = {}
    /\ parent \in [Ids -> Rows \cup {None}]
    /\ alone \in [Ids -> Nat]
    /\ labels \subseteq Labels
    /\ now \in Nat \ {0}
    /\ sweep \in {"idle", "issues", "pages"}
    /\ outbox \subseteq 0..sync_seq

Live(id) == state[id] = "live"
Tombstone(id) == state[id] = "deleted"
InTable(id) == Live(id) \/ Tombstone(id)
ChildrenOf(id) == {c \in Comments : parent[c] = id}

(* What an event without a seq leaves in the outbox.                       *)
Advisory == 0

-----------------------------------------------------------------------------
(* Mutant: one tick per statement instead of one per row.                  *)
OneTick(S) == [S -> {sync_seq + 1}]

(* The distinct fresh ticks that the rows of S may draw.                   *)
Ticks(S) ==
    {f \in [S -> (sync_seq + 1)..(sync_seq + Cardinality(S))] :
        \A x, y \in S : f[x] = f[y] => x = y}

(* The stamp triggers: each row of S draws a tick.                         *)
Stamp(S) ==
    /\ sync_seq + Cardinality(S) <= MaxSeq
    /\ \E f \in Ticks(S) : seq' = [id \in Ids |-> IF id \in S THEN f[id] ELSE seq[id]]
    /\ sync_seq' = sync_seq + Cardinality(S)

(* One committed transaction.  The server's writes wait for the sweep,     *)
(* which holds the process's write connection; other processes' do not.    *)
Write(via, stamped) ==
    /\ via = "api" => sweep = "idle"
    /\ Stamp(stamped)
    /\ UNCHANGED <<now, sweep>>

(* After it, a handler of the server holds the event to publish; the CLI   *)
(* and the stdio MCP server are other processes and publish nothing.       *)
Announce(via, s) == outbox' = IF via = "api" THEN outbox \cup {s} ELSE outbox

(* Column c with v in the rows of S.                                       *)
Set(c, S, v) == [id \in Ids |-> IF id \in S THEN v ELSE c[id]]

-----------------------------------------------------------------------------
(* Mutant: no label change bumps the row that wears the label.             *)
BumpedByNoLabels(S) == {}

(* issue_labels bumps its issue; page_labels has no such trigger.          *)
BumpedByLabels(S) == S \cap Issues

(* create_issue / create_page.  A label name nobody defined is skipped.    *)
CreateRow(id, v, ls, via) ==
    /\ state[id] = "unborn"
    /\ Write(via, {id})
    /\ state' = Set(state, {id}, "live")
    /\ content' = Set(content, {id}, v)
    /\ worn' = Set(worn, {id}, ls \cap labels)
    /\ Announce(via, seq'[id])
    /\ UNCHANGED <<deleted_at, parent, alone, labels>>

(* update_issue / update_page.  `v` and `ls` are optional fields: empty,   *)
(* or the one new value.  Replacing labels deletes the old pairs and       *)
(* inserts the new ones, and only touched pairs fire a trigger.  A stale   *)
(* expected_seq refuses the call, which then changes nothing.              *)
UpdateRow(id, v, ls, via) ==
    LET wanted == (UNION ls) \cap labels
        touched == ls # {} /\ worn[id] \cup wanted # {}
        stamped == (IF v # {} THEN {id} ELSE {})
                    \cup (IF touched THEN BumpedByLabels({id}) ELSE {})
    IN /\ Live(id)
       /\ Write(via, stamped)
       /\ IF v = {} THEN UNCHANGED content
          ELSE \E x \in v : content' = Set(content, {id}, x)
       /\ worn' = IF ls = {} THEN worn ELSE Set(worn, {id}, wanted)
       /\ Announce(via, seq'[id])
       /\ UNCHANGED <<state, deleted_at, parent, alone, labels>>

(* Mutant: the soft-delete cascade is missing.                             *)
CascadesToNone(id) == {}

(* Mutant: the cascade re-stamps the comments that are tombstones already. *)
CascadesToAll(id) == {c \in ChildrenOf(id) : InTable(c)}

(* The comments the soft-delete cascade of 047 takes down.                 *)
CascadesTo(id) == {c \in ChildrenOf(id) : Live(c)}

(* Mutant: `AND deleted_at IS NULL` is missing, a tombstone is re-stamped. *)
DeletableTwice(id) == InTable(id)

Deletable(id) == Live(id)

(* delete_issue / delete_page.  The cascaded comments bump their issue     *)
(* again, inside the same statement.                                       *)
DeleteRow(id, via) ==
    LET down == {id} \cup CascadesTo(id) IN
    /\ Deletable(id)
    /\ Write(via, down)
    /\ state' = Set(state, down, "deleted")
    /\ deleted_at' = Set(deleted_at, down, now)
    /\ Announce(via, seq'[id])
    /\ UNCHANGED <<content, worn, parent, alone, labels>>

(* Mutant: every comment under the row comes back.                         *)
RevivesAll(id) == {c \in ChildrenOf(id) : Tombstone(c)}

(* The comments the restore cascade of 047 revives.                        *)
Revived(id) ==
    {c \in ChildrenOf(id) : Tombstone(c) /\ deleted_at[c] = deleted_at[id]}

RestoreRow(id, via) ==
    LET up == {id} \cup Revived(id) IN
    /\ Tombstone(id)
    /\ Write(via, up)
    /\ state' = Set(state, up, "live")
    /\ deleted_at' = Set(deleted_at, up, 0)
    /\ alone' = Set(alone, up, 0)
    /\ Announce(via, seq'[id])
    /\ UNCHANGED <<content, worn, parent, labels>>

(* The operations, by table.  They differ in what a change of labels bumps *)
(* and in what a change of comments bumps.                                 *)
CreateIssue(i, v, ls, via) == CreateRow(i, v, ls, via)
UpdateIssue(i, v, ls, via) == UpdateRow(i, v, ls, via)
DeleteIssue(i, via) == DeleteRow(i, via)
RestoreIssue(i, via) == RestoreRow(i, via)
CreatePage(p, v, ls, via) == CreateRow(p, v, ls, via)
UpdatePage(p, v, ls, via) == UpdateRow(p, v, ls, via)
DeletePage(p, via) == DeleteRow(p, via)
RestorePage(p, via) == RestoreRow(p, via)

-----------------------------------------------------------------------------
(* Mutant: comments do not advance the issue they hang off.                *)
BumpedByNoComment(p) == {}

(* The issue whose seq and updated_at a comment's triggers bump; a comment *)
(* on a page bumps nothing.                                                *)
BumpedByComment(p) == {p} \cap Issues

(* The event of a comment handler carries the comment's own seq.           *)
WriteComment(c, p, via) ==
    /\ Write(via, {c} \cup BumpedByComment(p))
    /\ Announce(via, seq'[c])
    /\ UNCHANGED <<worn, labels>>

AddComment(c, p, v, via) ==
    /\ state[c] = "unborn"
    /\ Live(p)
    /\ WriteComment(c, p, via)
    /\ state' = Set(state, {c}, "live")
    /\ parent' = Set(parent, {c}, p)
    /\ content' = Set(content, {c}, v)
    /\ UNCHANGED <<deleted_at, alone>>

EditComment(c, v, via) ==
    /\ Live(c)
    /\ WriteComment(c, parent[c], via)
    /\ content' = Set(content, {c}, v)
    /\ UNCHANGED <<state, deleted_at, parent, alone>>

DeleteComment(c, via) ==
    /\ Live(c)
    /\ WriteComment(c, parent[c], via)
    /\ state' = Set(state, {c}, "deleted")
    /\ deleted_at' = Set(deleted_at, {c}, now)
    /\ alone' = Set(alone, {c}, now)
    /\ UNCHANGED <<content, parent>>

-----------------------------------------------------------------------------
(* Mutant: page_labels keeps the pairs of a label that is gone.            *)
WearingIssues(l) == {id \in Issues : l \in worn[id]}

Wearing(l) == {id \in Rows : l \in worn[id]}

(* Label l goes, and whoever wore it wears `instead`.  The event of a      *)
(* label handler carries no seq.                                           *)
DropLabel(l, instead, via) ==
    /\ labels' = labels \ {l}
    /\ Write(via, BumpedByLabels(Wearing(l)))
    /\ worn' = [id \in Ids |->
                  IF id \in Wearing(l) THEN (worn[id] \ {l}) \cup instead ELSE worn[id]]
    /\ Announce(via, Advisory)
    /\ UNCHANGED <<state, deleted_at, content, parent, alone>>

CreateLabel(l, via) ==
    /\ l \notin labels
    /\ labels' = labels \cup {l}
    /\ Write(via, {})
    /\ Announce(via, Advisory)
    /\ UNCHANGED <<state, deleted_at, content, worn, parent, alone>>

(* delete_label: the foreign key removes the pairs, firing their triggers. *)
DeleteLabel(l, via) == l \in labels /\ DropLabel(l, {}, via)

MergeLabel(l, m, via) == {l, m} \subseteq labels /\ l # m /\ DropLabel(l, {m}, via)

(* A write to another project: a tick, and no row of this one.             *)
ForeignWrite ==
    /\ sync_seq < MaxSeq
    /\ sync_seq' = sync_seq + 1
    /\ UNCHANGED <<rows, labels, now, sweep, outbox>>

-----------------------------------------------------------------------------
(* purge_tombstones: three autocommit statements under the writer lock of  *)
(* the server process.  Another process may write between them, and the    *)
(* process may die between them.                                           *)
Expired(id) ==
    /\ Tombstone(id)
    /\ deleted_at[id] < now - TrashDays

(* The rows of S leave their tables.  Their history stays for the          *)
(* properties: the last seq, the parent, how a comment went down.          *)
Remove(S) ==
    /\ state' = Set(state, S, "purged")
    /\ deleted_at' = Set(deleted_at, S, 0)
    /\ content' = Set(content, S, None)
    /\ worn' = Set(worn, S, {})
    /\ UNCHANGED <<parent, alone>>

(* DELETE FROM comments fires comments_bump_issue_ad for every row.        *)
PurgeComments ==
    LET dead == {c \in Comments : Expired(c)} IN
    /\ sweep = "idle" /\ TrashDays > 0
    /\ \E id \in Ids : Expired(id)
    /\ Stamp(UNION {BumpedByComment(parent[c]) : c \in dead})
    /\ Remove(dead)
    /\ sweep' = "issues"
    /\ UNCHANGED <<labels, now, outbox>>

(* DELETE FROM issues, then FROM pages; the foreign key takes whatever     *)
(* comment is left under a purged parent.                                  *)
PurgeRows(S) ==
    LET dead == {id \in S : Expired(id)}
        orphans == {c \in Comments : parent[c] \in dead /\ InTable(c)}
    IN /\ Remove(dead \cup orphans)
       /\ UNCHANGED <<sync_seq, seq, labels, now, outbox>>

PurgeIssues == sweep = "issues" /\ sweep' = "pages" /\ PurgeRows(Issues)
PurgePages == sweep = "pages" /\ sweep' = "idle" /\ PurgeRows(Pages)

(* A statement fails (another process holds the database): the sweep is    *)
(* abandoned, its earlier statements stay committed.                       *)
SweepFails ==
    /\ sweep # "idle"
    /\ sweep' = "idle"
    /\ UNCHANGED <<sync_seq, rows, labels, now, outbox>>

Tick ==
    /\ now < MaxTime
    /\ now' = now + 1
    /\ UNCHANGED <<sync_seq, rows, labels, sweep, outbox>>

(* The server process dies: the sweep stops where it is and committed      *)
(* handlers never publish.                                                 *)
Crash ==
    /\ sweep' = "idle" /\ outbox' = {}
    /\ UNCHANGED <<sync_seq, rows, labels, now>>

Optional(S) == {{}} \cup {{x} : x \in S}

StoreInit ==
    /\ sync_seq = 0
    /\ state = [id \in Ids |-> "unborn"]
    /\ seq = [id \in Ids |-> 0]
    /\ deleted_at = [id \in Ids |-> 0]
    /\ content = [id \in Ids |-> None]
    /\ worn = [id \in Ids |-> {}]
    /\ parent = [id \in Ids |-> None]
    /\ alone = [id \in Ids |-> 0]
    /\ labels = {}
    /\ now = 1
    /\ sweep = "idle"
    /\ outbox = {}

IssueStep(via) ==
    \/ \E i \in Issues, v \in Values, ls \in SUBSET Labels : CreateIssue(i, v, ls, via)
    \/ \E i \in Issues, v \in Optional(Values), ls \in Optional(SUBSET Labels) :
            UpdateIssue(i, v, ls, via)
    \/ \E i \in Issues : DeleteIssue(i, via) \/ RestoreIssue(i, via)

PageStep(via) ==
    \/ \E p \in Pages, v \in Values, ls \in SUBSET Labels : CreatePage(p, v, ls, via)
    \/ \E p \in Pages, v \in Optional(Values), ls \in Optional(SUBSET Labels) :
            UpdatePage(p, v, ls, via)
    \/ \E p \in Pages : DeletePage(p, via) \/ RestorePage(p, via)

CommentStep(via) ==
    \/ \E c \in Comments, p \in Rows, v \in Values : AddComment(c, p, v, via)
    \/ \E c \in Comments, v \in Values : EditComment(c, v, via)
    \/ \E c \in Comments : DeleteComment(c, via)

LabelStep(via) ==
    \/ \E l \in Labels : CreateLabel(l, via)
    \/ \E l \in Labels : DeleteLabel(l, via)
    \/ \E l, m \in Labels : MergeLabel(l, m, via)

SweepStep == PurgeComments \/ PurgeIssues \/ PurgePages \/ SweepFails

StoreStep ==
    \/ \E via \in Writers : IssueStep(via) \/ PageStep(via) \/ CommentStep(via) \/ LabelStep(via)
    \/ ForeignWrite
    \/ SweepStep
    \/ Tick

StoreNext == StoreStep \/ Crash

StoreSpec == StoreInit /\ [][StoreNext]_store
-----------------------------------------------------------------------------
(* The order /changes pages by is total: no two rows of the tables share a *)
(* tick, and none is ahead of the counter a bootstrap takes as its cursor. *)
StreamIsTotal ==
    /\ \A x, y \in Ids : InTable(x) /\ InTable(y) /\ seq[x] = seq[y] => x = y
    /\ \A x \in Ids : InTable(x) => seq[x] \in 1..sync_seq

(* No comment outlives its parent: none is live under a tombstone, none is *)
(* left when the parent's row is gone, however deletes, restores, sweeps,  *)
(* crashes and CLI writes interleave.                                      *)
NoOrphanComment ==
    \A c \in Comments :
        /\ Live(c) => Live(parent[c])
        /\ Tombstone(c) => InTable(parent[c])

(* "restoring the parent revives only the children that went down with it, *)
(* and a comment deleted on its own beforehand [...] stays deleted"        *)
(* (047_soft_delete.sql): the shared timestamp that the restore cascade    *)
(* goes by tells the two apart, both ways, through edits, repeated         *)
(* deletes, restores, another process and an interrupted sweep.  (A comment *)
(* deleted at the instant of its parent's deletion comes back too.)        *)
RestoreIsExact ==
    \A id \in Rows : \A c \in ChildrenOf(id) :
        Tombstone(id) /\ Tombstone(c)
            => (c \in Revived(id) <=> alone[c] \in {0, deleted_at[id]})

(* What /changes says of a row: gone, or its fields.                       *)
Changed(id) ==
    \/ content'[id] # content[id]
    \/ Live(id) # (state'[id] = "live")
    \/ id \in Issues /\ worn'[id] # worn[id]

(* "Every mutation of a syncable row gets a strictly increasing seq"       *)
(* (045_sync_seq.sql): an edit, a deletion or a restore of a row, and any  *)
(* change of an issue's labels through the row or through the label, puts  *)
(* the row past every cursor handed out before.                            *)
MutationsAreStamped ==
    [][\A id \in Ids :
        Changed(id) /\ state'[id] # "purged" => seq'[id] > sync_seq]_store

(* An issue whose comments change advances in the stream with them, unless *)
(* its own row is being removed.                                           *)
CommentsAdvanceTheirIssue ==
    [][\A c \in Comments :
        LET i == parent'[c] IN
        (content'[c] # content[c] \/ state'[c] # state[c])
            /\ i \in Issues /\ state'[i] # "purged"
        => seq'[i] > sync_seq]_store

(* What /changes reports of a row.  A page's labels are part of the answer *)
(* and not of the promise: they change without a seq.                      *)
Gone == [gone |-> TRUE]

Report(id) ==
    IF Live(id)
    THEN [content |-> content[id], labels |-> IF id \in Issues THEN worn[id] ELSE {}]
    ELSE Gone

NoEntry == [none |-> TRUE]

Entries == [id \in Ids |-> IF InTable(id) THEN [seq |-> seq[id], says |-> Report(id)] ELSE NoEntry]

Purged == {id \in Ids : state[id] = "purged"}

Stream == INSTANCE ChangeStream WITH head <- sync_seq, entry <- Entries, dropped <- Purged

(* To a client that follows it by seq, the store is a numbered stream: a   *)
(* write puts what it changes behind everything handed out before, with a  *)
(* number of its own, nothing else moves or changes what is reported of a  *)
(* row, and what leaves the tables had been reported gone, whichever       *)
(* triggers, cascades and sweep statements did it.                         *)
IsAStream == Stream!StreamSpec
=============================================================================
