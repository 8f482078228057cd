------------------------------ MODULE ReadModel ------------------------------
(***************************************************************************)
(* One browser tab's replica of the project of SyncStore, and the road     *)
(* between the two: the /index and /changes requests of                    *)
(* src/db/queries/changes.rs, the event socket of src/realtime.rs, and     *)
(* ProjectReadModel of web/src/lib/sync/readModel.svelte.ts.               *)
(*                                                                         *)
(* A request handler reads without a transaction: each SELECT is a step,   *)
(* and writes commit between them.  The tab is single threaded: a callback *)
(* runs to its next await in one step.  The model's life begins when a     *)
(* route calls ensureProjectModel, with the /index request sent.           *)
(***************************************************************************)
EXTENDS SyncStore, FiniteSetsExt

CONSTANTS
    Limit,          \* page size of /changes
    Realtime,       \* the tab has a session; a public page opens no socket
    Callers,        \* routes of the tab write and reconcile at once
    Faults          \* subset of {"request", "close", "lag", "crash"}

ASSUME ReadModelAssumption ==
    /\ Limit \in Nat \ {0}
    /\ Realtime \in BOOLEAN /\ Callers \in BOOLEAN
    /\ Faults \subseteq {"request", "close", "lag", "crash"}

VARIABLES
    status,             \* "cold", "loading" (bootstrapping), "ready"
    replica,            \* issues and pages: id -> row, or NoRow
    cursor,             \* highest stream position applied
    pullTimer,          \* the debounce timer is set
    pullQueued,         \* another round of drain() is wanted
    pullAfterBootstrap, \* an event arrived while /index was in flight
    index,              \* the /index request: stage and what it has read
    changes,            \* the /changes request of the running drain()
    socket,             \* "closed", "opened" (by the tab), "subscribed"
    resume,             \* cursor of the resume frame in flight, or NoFrame
    ring,               \* seqs the hub's replay ring has recorded
    inbox,              \* events on their way to the tab
    caller,             \* a call of pull(), what it had seen committed, and
                        \* whether it joined a bootstrap
    (* History, read by the properties alone.                              *)
    gap,                \* published after the upgrade and before the
                        \* subscribe, for the replay of the frame to bring
    unheard             \* tick up to which the code owes the tab no word

tab == <<status, replica, cursor, pullTimer, pullQueued, pullAfterBootstrap>>
requests == <<index, changes>>
wire == <<socket, resume, ring, inbox, gap>>
vars == <<store, tab, requests, wire, caller, unheard>>

NoRow == [gone |-> TRUE]
NoFrame == -1
(* resync.required or sync_required: both only schedule a pull.            *)
Resync == -1

Image == [seq : Nat, content : Values, labels : SUBSET Labels]
Rest == [stage |-> "none", cursor |-> 0, more |-> FALSE, got |-> <<>>]
Sent(since) == [stage |-> "sent", cursor |-> since, more |-> FALSE, got |-> <<>>]

TypeOK ==
    /\ status \in {"cold", "loading", "ready"}
    /\ replica \in [Rows -> Image \cup {NoRow}]
    /\ cursor \in 0..sync_seq
    /\ {pullTimer, pullQueued, pullAfterBootstrap} \subseteq BOOLEAN
    /\ index.stage \in {"none", "sent", "cursor", "issues", "pages", "issue_labels", "done", "lost"}
    /\ changes.stage \in {"none", "sent", "rows", "issue_labels", "done", "lost"}
    /\ index.stage # "none" <=> status = "loading"
    /\ pullTimer => status = "ready"
    /\ socket \in {"closed", "opened", "subscribed"}
    /\ resume \in Nat \cup {NoFrame}
    /\ ring \subseteq 1..sync_seq
    /\ inbox \subseteq (0..sync_seq) \cup {Resync}
    /\ caller.mode \in {"none", "waiting", "settled"}
    /\ gap \subseteq 1..sync_seq
    /\ unheard \in 0..sync_seq

-----------------------------------------------------------------------------
(* The server's two read handlers.                                         *)
ImageOf(id) == [seq |-> seq[id], content |-> content[id], labels |-> {}]

(* A SELECT adds the rows in S.                                            *)
WithRows(got, S) == [id \in DOMAIN got \cup S |-> IF id \in S THEN ImageOf(id) ELSE got[id]]

(* A later SELECT fills in the labels of the rows read in S.               *)
WithLabels(got, S) ==
    [id \in DOMAIN got |->
        IF id \in S /\ got[id] # NoRow
        THEN [seq |-> got[id].seq, content |-> got[id].content, labels |-> worn[id]]
        ELSE got[id]]

(* Mutant: the lists first, the cursor last.                               *)
IndexCursorLast(stage) == IF stage = "issue_labels" THEN sync_seq ELSE index.cursor

(* index_cursor is called before index_rows.                               *)
IndexCursor(stage) == IF stage = "sent" THEN sync_seq ELSE index.cursor

IndexSelect(from, to, got) ==
    /\ index.stage = from
    /\ index' = [stage |-> to, cursor |-> IndexCursor(from), more |-> FALSE, got |-> got]

(* get_index: the cursor, the issues, the pages, then their labels.        *)
IndexStep ==
    \/ IndexSelect("sent", "cursor", <<>>)
    \/ IndexSelect("cursor", "issues", WithRows(<<>>, {i \in Issues : Live(i)}))
    \/ IndexSelect("issues", "pages", WithRows(index.got, {p \in Pages : Live(p)}))
    \/ IndexSelect("pages", "issue_labels", WithLabels(index.got, Issues))
    \/ IndexSelect("issue_labels", "done", WithLabels(index.got, Pages))

ServeIndex == IndexStep /\ UNCHANGED <<store, tab, changes, wire, caller, unheard>>

(* The first n rows above `since` in seq order.                            *)
Oldest(since, n) ==
    {id \in Ids : /\ InTable(id) /\ seq[id] > since
                  /\ Cardinality({x \in Ids : InTable(x) /\ seq[x] \in (since + 1)..seq[id]}) <= n}

(* Mutant: the cursor of a page is one past its last row.                  *)
LastSeqPlusOne(S, since) == Max({since} \cup {seq[id] + 1 : id \in S})

LastSeq(S, since) == Max({since} \cup {seq[id] : id \in S})

(* list_changes: one page of rows, tombstones included, then the labels.   *)
(* The comments of the page only move its cursor.                          *)
ListChanges ==
    LET page == Oldest(changes.cursor, Limit) IN
    changes' = [stage |-> "rows", cursor |-> LastSeq(page, changes.cursor),
                more |-> Oldest(changes.cursor, Limit + 1) # page,
                got |-> [id \in page \cap Rows |-> IF Live(id) THEN ImageOf(id) ELSE NoRow]]

LabelSelect(from, to, S) ==
    /\ changes.stage = from
    /\ changes' = [stage |-> to, cursor |-> changes.cursor, more |-> changes.more,
                   got |-> WithLabels(changes.got, S)]

ChangesStep ==
    \/ changes.stage = "sent" /\ ListChanges
    \/ LabelSelect("rows", "issue_labels", Issues)
    \/ LabelSelect("issue_labels", "done", Pages)

ServeChanges == ChangesStep /\ UNCHANGED <<store, tab, index, wire, caller, unheard>>

-----------------------------------------------------------------------------
(* The tab.  A request in flight is sent from the cursor of that moment.   *)
(* One that fails is seen to fail when its answer is due: what the server  *)
(* read for it, if it did, goes nowhere.                                   *)
SendIndex == index' = Sent(0)
SendChanges(since) == changes' = Sent(since)

Failing == "request" \in Faults

NoCaller == [mode |-> "none", asked |-> 0, joined |-> FALSE]

(* The promise of the caller's pull() resolves: with the answer applied,   *)
(* or, when a request failed, with nothing, and then the call is forgotten.*)
Answered == [mode |-> "settled", asked |-> caller.asked, joined |-> caller.joined]

Settle == caller' = IF caller.mode = "waiting" THEN Answered ELSE caller
GiveUp == caller' = IF caller.mode = "waiting" THEN NoCaller ELSE caller

SchedulePull ==
    /\ \/ /\ status = "loading"
          /\ pullAfterBootstrap' = TRUE
          /\ UNCHANGED <<status, pullTimer, index>>
       \/ /\ status = "cold"
          /\ status' = "loading" /\ SendIndex
          /\ UNCHANGED <<pullTimer, pullAfterBootstrap>>
       \/ /\ status = "ready"
          /\ pullTimer' = TRUE
          /\ UNCHANGED <<status, pullAfterBootstrap, index>>
    /\ UNCHANGED <<replica, cursor, pullQueued, changes>>

(* Mutant: a pull during a drain only waits for it.                        *)
JoinRun == UNCHANGED <<pullQueued, changes>>

(* Mutant: a pull does not wait for the snapshot in flight.                *)
RaceBootstrap ==
    /\ status = "loading" /\ changes.stage = "none"
    /\ SendChanges(cursor)
    /\ UNCHANGED <<status, pullAfterBootstrap, index, pullQueued>>

QueueRun == pullQueued' = TRUE /\ UNCHANGED changes

JoinBootstrap ==
    /\ status = "loading"
    /\ pullAfterBootstrap' = TRUE
    /\ UNCHANGED <<status, index, pullQueued, changes>>

(* pull(), past the timer.                                                 *)
Pull ==
    /\ \/ JoinBootstrap
       \/ /\ status = "cold"
          /\ status' = "loading" /\ SendIndex
          /\ UNCHANGED <<pullAfterBootstrap, pullQueued, changes>>
       \/ /\ status = "ready"
          /\ IF changes.stage # "none" THEN QueueRun
             ELSE SendChanges(cursor) /\ UNCHANGED pullQueued
          /\ UNCHANGED <<status, pullAfterBootstrap, index>>
    /\ UNCHANGED <<replica, cursor>>

PullTimerFires ==
    /\ pullTimer
    /\ pullTimer' = FALSE
    /\ Pull
    /\ UNCHANGED <<store, wire, caller, unheard>>

(* A route reconciles right after a write of its own was acknowledged.     *)
RefreshProjectModel ==
    /\ Callers /\ caller.mode # "waiting"
    /\ caller' = [mode |-> "waiting", asked |-> sync_seq, joined |-> status = "loading"]
    /\ Pull
    /\ UNCHANGED <<store, pullTimer, wire, unheard>>

(* Tab focus, or a route that reopens the project.                         *)
PullActiveOnFocus == SchedulePull /\ UNCHANGED <<store, wire, caller, unheard>>

(* Mutant: what happened during the bootstrap is forgotten.                *)
NoCatchUp == FALSE

CatchUp == pullAfterBootstrap

(* bootstrap() resumes with the snapshot, then its finally clause runs.    *)
ApplyIndex ==
    /\ index.stage = "done"
    /\ replica' = [id \in Rows |-> IF id \in DOMAIN index.got THEN index.got[id] ELSE NoRow]
    /\ cursor' = Max({cursor, index.cursor})
    /\ status' = "ready"
    /\ index' = Rest
    /\ pullAfterBootstrap' = FALSE
    /\ pullTimer' = (pullTimer \/ CatchUp)
    /\ Settle
    /\ UNCHANGED <<store, pullQueued, changes, wire, unheard>>

IndexFails ==
    /\ index.stage = "lost" \/ (Failing /\ index.stage = "done")
    /\ status' = "cold"
    /\ index' = Rest
    /\ pullAfterBootstrap' = FALSE
    /\ GiveUp
    /\ UNCHANGED <<store, replica, cursor, pullTimer, pullQueued, changes, wire, unheard>>

(* Upsert if newer; a tombstone always removes.                            *)
Upserted(id) ==
    IF id \notin DOMAIN changes.got THEN replica[id]
    ELSE LET new == changes.got[id] IN
         IF new = NoRow \/ replica[id] = NoRow THEN new
         ELSE IF new.seq > replica[id].seq THEN new ELSE replica[id]

(* drain() resumes: applyChanges, then another page, another round, or the *)
(* end of the run.                                                         *)
ApplyChanges ==
    /\ changes.stage = "done"
    /\ replica' = [id \in Rows |-> Upserted(id)]
    /\ cursor' = Max({cursor, changes.cursor})
    /\ pullQueued' = (pullQueued /\ changes.more)
    /\ IF changes.more \/ pullQueued
       THEN SendChanges(cursor') /\ UNCHANGED caller
       ELSE changes' = Rest /\ Settle
    /\ UNCHANGED <<store, status, pullTimer, pullAfterBootstrap, index, wire, unheard>>

(* Mutant: the end of a failed drain clears the timer of a later pull.     *)
NoPullAfterFailure == FALSE

PullAfterFailure == pullTimer

(* drain() returns, its finally clause runs, and nothing tries again: what *)
(* it was to read the tab learns from the next pull, if one is scheduled   *)
(* or the socket is still to open, and else perhaps never.                 *)
ChangesFail ==
    /\ changes.stage = "lost" \/ (Failing /\ changes.stage = "done")
    /\ changes' = Rest
    /\ pullQueued' = FALSE
    /\ pullTimer' = PullAfterFailure
    /\ unheard' = IF socket = "closed" \/ pullTimer THEN unheard ELSE sync_seq
    /\ GiveUp
    /\ UNCHANGED <<store, status, replica, cursor, pullAfterBootstrap, index, wire>>

-----------------------------------------------------------------------------
(* The wire.                                                               *)

(* handleEvent: a duplicate from the resume boundary is ignored.           *)
Duplicate(e) == status = "ready" /\ e \notin {Resync, Advisory} /\ e <= cursor

(* handleRealtimeEvent.                                                    *)
Receive(e) ==
    /\ e \in inbox
    /\ inbox' = inbox \ {e}
    /\ IF Duplicate(e) THEN UNCHANGED <<tab, requests>> ELSE SchedulePull
    /\ UNCHANGED <<store, socket, resume, ring, gap, caller, unheard>>

(* RealtimeHub::send_message: record in the ring, broadcast.  A tab that   *)
(* is connected and not yet subscribed learns of it from the replay or not *)
(* at all.                                                                 *)
Publish(e) ==
    /\ e \in outbox
    /\ outbox' = outbox \ {e}
    /\ ring' = ring \cup ({e} \ {Advisory})
    /\ inbox' = IF socket = "subscribed" THEN inbox \cup {e} ELSE inbox
    /\ IF socket # "opened" THEN UNCHANGED <<gap, unheard>>
       ELSE IF resume # NoFrame /\ e # Advisory
       THEN gap' = gap \cup {e} /\ UNCHANGED unheard
       ELSE unheard' = sync_seq /\ UNCHANGED gap
    /\ UNCHANGED <<sync_seq, rows, labels, now, sweep, tab, requests, socket, resume, caller>>

(* The upgrade succeeds: the tab resumes from its cursor if it has one,    *)
(* and schedules a pull.                                                   *)
RealtimeOpened ==
    /\ Realtime
    /\ socket = "closed"
    /\ socket' = "opened"
    /\ resume' = IF status = "ready" THEN cursor ELSE NoFrame
    /\ SchedulePull
    /\ UNCHANGED <<store, ring, inbox, gap, caller, unheard>>

(* serve_socket looks up the visible projects, then subscribes.            *)
Subscribe ==
    /\ socket = "opened"
    /\ socket' = "subscribed"
    /\ UNCHANGED <<store, tab, requests, resume, ring, inbox, gap, caller, unheard>>

PastFrame(seqs) == {s \in seqs : s > resume}

(* Mutant: the replay leaves out the event next to the cursor.             *)
AllButNext(kept) == {s \in kept : s > resume + 1}

Replayed(kept) == PastFrame(kept)

(* replay_for_client: what the ring has kept past the cursor, or           *)
(* sync_required.  Not everything past the cursor need be kept (see        *)
(* ReplayHasNoGaps of ReplayRing).                                         *)
ReplayForClient ==
    /\ socket = "subscribed" /\ resume # NoFrame
    /\ \/ inbox' = inbox \cup {Resync} /\ UNCHANGED unheard
       \/ \E kept \in (SUBSET ring) :
            /\ inbox' = inbox \cup Replayed(kept)
            /\ unheard' = IF PastFrame(gap) \subseteq kept THEN unheard ELSE sync_seq
    /\ resume' = NoFrame /\ gap' = {}
    /\ UNCHANGED <<store, tab, requests, socket, ring, caller>>

(* The receiver fell behind: some events are lost, and the tab is told.    *)
Lagged ==
    /\ "lag" \in Faults
    /\ \E lost \in (SUBSET inbox) \ {{}} : inbox' = (inbox \ lost) \cup {Resync}
    /\ UNCHANGED <<store, tab, requests, socket, resume, ring, gap, caller, unheard>>

Disconnect ==
    /\ socket' = "closed" /\ inbox' = {} /\ resume' = NoFrame /\ gap' = {}
    /\ UNCHANGED <<tab, caller, unheard>>

SocketCloses ==
    /\ "close" \in Faults
    /\ socket # "closed"
    /\ Disconnect
    /\ UNCHANGED <<store, requests, ring>>

Lost(request) ==
    IF request.stage \in {"none", "done"} THEN request
    ELSE [stage |-> "lost", cursor |-> request.cursor, more |-> request.more, got |-> request.got]

(* The server process dies and restarts: its ring, its sockets, its        *)
(* unpublished events and the requests it was serving are gone.            *)
ServerRestarts ==
    /\ "crash" \in Faults
    /\ Crash
    /\ Disconnect
    /\ ring' = {}
    /\ index' = Lost(index) /\ changes' = Lost(changes)

-----------------------------------------------------------------------------
Init ==
    /\ StoreInit
    /\ status = "loading"
    /\ replica = [id \in Rows |-> NoRow]
    /\ cursor = 0
    /\ pullTimer = FALSE /\ pullQueued = FALSE /\ pullAfterBootstrap = FALSE
    /\ index = Sent(0)
    /\ changes = Rest
    /\ socket = "closed" /\ resume = NoFrame /\ ring = {} /\ inbox = {}
    /\ caller = NoCaller
    /\ gap = {} /\ unheard = 0

(* Rows move and no event will say so: another process wrote, or the sweep *)
(* took comments of an issue.                                              *)
Silent ==
    /\ outbox' = outbox /\ Advisory \notin outbox
    /\ \E id \in Rows : seq'[id] # seq[id]

StoreSteps ==
    /\ StoreStep
    /\ unheard' = IF Silent THEN sync_seq' ELSE unheard
    /\ UNCHANGED <<tab, requests, wire, caller>>
PublishSome == \E e \in outbox : Publish(e)
ReceiveSome == \E e \in inbox : Receive(e)

Next ==
    \/ StoreSteps
    \/ ServeIndex \/ ApplyIndex \/ IndexFails
    \/ ServeChanges \/ ApplyChanges \/ ChangesFail
    \/ PullTimerFires \/ RefreshProjectModel \/ PullActiveOnFocus
    \/ PublishSome \/ ReceiveSome \/ Lagged
    \/ RealtimeOpened \/ Subscribe \/ ReplayForClient
    \/ SocketCloses \/ ServerRestarts

Spec == Init /\ [][Next]_vars

(* The event loop runs its callbacks, the server serves what it accepted,  *)
(* handlers publish what they committed, the tab reconnects with backoff   *)
(* for ever, and a network over which answers are due again and again      *)
(* delivers one at last.  Writers, users and faults owe nothing.           *)
Fairness ==
    /\ WF_vars(ServeIndex) /\ SF_vars(ApplyIndex)
    /\ WF_vars(IndexFails /\ index.stage = "lost")
    /\ WF_vars(ServeChanges) /\ SF_vars(ApplyChanges)
    /\ WF_vars(ChangesFail /\ changes.stage = "lost")
    /\ WF_vars(PullTimerFires) /\ WF_vars(PublishSome) /\ WF_vars(ReceiveSome)
    /\ WF_vars(RealtimeOpened) /\ WF_vars(Subscribe) /\ WF_vars(ReplayForClient)

FairSpec == Spec /\ Fairness

-----------------------------------------------------------------------------
Agrees(id) ==
    IF Live(id)
    THEN /\ replica[id] # NoRow
         /\ replica[id].seq = seq[id]
         /\ replica[id].content = content[id]
         /\ id \in Issues => replica[id].labels = worn[id]
    ELSE replica[id] = NoRow

(* The delta discipline: a ready replica shows every row at or below its   *)
(* cursor exactly as the tables hold it, whatever wrote between the reads  *)
(* of /index and /changes.  (Labels of pages are not part of the promise:  *)
(* they change without a seq.)                                             *)
CurrentBelowCursor ==
    status = "ready" =>
        \A id \in Rows :
            seq[id] <= cursor /\ state[id] # "purged" => Agrees(id)

(* A row of the replica is never replaced by an older version of it, by a  *)
(* page or by a snapshot that was read earlier and lands later.            *)
ReplicaNeverGoesBack ==
    [][\A id \in Rows :
        replica[id] # NoRow /\ replica'[id] # NoRow
            => replica'[id].seq >= replica[id].seq]_vars

Reconciled ==
    \A id \in Rows : seq[id] <= caller.asked /\ state[id] # "purged" => Agrees(id)

(* pull() on a model with no snapshot in flight: when its promise settles, *)
(* every write committed before the call is in the replica, also when the  *)
(* call found another drain half way through.  (A call that joins a        *)
(* snapshot in flight gets no such promise from the code, nor does anyone  *)
(* get one of a row that the sweep has removed.)                           *)
PullReconciles == caller.mode = "settled" /\ ~caller.joined => Reconciled

(* The socket is up, and nothing is on its way to the tab or planned by it.*)
AtRest ==
    /\ status = "ready" /\ socket = "subscribed" /\ resume = NoFrame
    /\ inbox = {} /\ outbox = {}
    /\ ~pullTimer /\ changes.stage = "none"

(* What the code may leave a connected tab without until its next pull:    *)
(* writes of other processes, which publish nothing; what was published    *)
(* between the upgrade and the subscribe with no resume frame to bring it, *)
(* or that the ring lost before it answered the frame; and what was        *)
(* written before a /changes request that failed.  A pull past it ends the *)
(* debt: nothing above `unheard` or at or below the cursor is excused.     *)
Unheard(id) == seq[id] \in (cursor + 1)..unheard

(* A tab that waits for nothing has missed nothing it was to hear of: no   *)
(* event is dropped (as a duplicate, or because a snapshot or a drain is   *)
(* under way), lost with a connection, overtaken by a replay, or forgotten *)
(* by a drain that failed, without a pull following that reads what it     *)
(* announced.  This is what Converges rests on.                            *)
QuietTabIsCurrent ==
    AtRest => \A id \in Rows : state[id] # "purged" /\ ~Unheard(id) => Agrees(id)

(* Gaps are impossible: a row whose tombstone lies below the cursor has    *)
(* left the replica, also when the sweep removed the tombstone first.      *)
DeletionsReachTheReplica ==
    status = "ready" =>
        \A id \in Rows :
            state[id] = "purged" /\ seq[id] <= cursor => replica[id] = NoRow

(* What the replica shows, as entries of the stream.                       *)
ShownOf(id) ==
    [seq |-> replica[id].seq,
     says |-> [content |-> replica[id].content,
               labels |-> IF id \in Issues THEN replica[id].labels ELSE {}]]

Shown == [id \in Rows |-> IF replica[id] # NoRow THEN ShownOf(id) ELSE NoEntry]

Reader == INSTANCE StreamReader
          WITH head <- sync_seq, entry <- Entries, dropped <- Purged,
               Mirrored <- Rows, view <- Shown, upto <- cursor

(* The tab follows the stream: whatever was read in whichever order and    *)
(* between whichever writes, it shows the stream exactly up to its cursor, *)
(* no row beyond that the stream does not report or once reported, and it  *)
(* never goes back.                                                        *)
FollowsTheStream == Reader!Spec

(* Once the socket stays up, the replica catches up with every write that  *)
(* it was to hear of and stays there, without a user's help, whatever was  *)
(* lost while it was down; or it shows the error of a snapshot that        *)
(* failed, until something happens.                                        *)
Converges ==
    <>[](socket = "subscribed")
        => <>[](\/ status = "cold"
                \/ status = "ready" /\ \A id \in Rows : Agrees(id) \/ Unheard(id))
=============================================================================
