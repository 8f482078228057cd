# lific: a verification of its stateful parts

lific is an issue tracker: a Rust server over SQLite (axum REST API, MCP server, CLI) and a Svelte web
client. Rows are soft-deleted, swept and restored; browsers hold a replica that lives on pages of deltas and on
events that may be lost; recoveries must sever what was authorized before them; attachments and archived
projects are files beside the database; plans mirror the issues they refer to. This directory holds TLA+ models of
those parts, the TLC configurations that check them on small instances, and proofs that TLAPS checks for
every value of the constants.

Paths are relative to the repository: `src/` the server, `web/` the client, `migrations/` the schema.

## How to run

    tlc -config SyncStore.cfg MCSyncStore        # any run of PROJECT.json "runs"
    tlapm SyncStore_proofs.tla                   # any module named *_proofs

## The parts of the system

| component | state it keeps | operations | what is hard | here |
|---|---|---|---|---|
| Syncable tables and `sync_seq` (`src/db/queries/{issues,pages,comments,trash}.rs`, migrations 045, 047) | rows with `seq` and `deleted_at`, label pairs, one counter | create, update, soft delete with cascade, restore with cascade, purge | stamps drawn by triggers that fire each other; several rows in one statement; a sweep of three autocommit statements beside writers of other processes | `SyncStore` |
| Label definitions (`resources.rs`) | labels, pairs | create, delete, merge | a change of one row changes what others look like | `SyncStore` |
| Trash retention (`src/retention.rs`) | none of its own | a timed sweep | stops between statements; removes what replicas have not seen | `SyncStore` |
| Delta sync (`changes.rs`, `src/api/sync.rs`) | none | `/index`, `/changes?since=` | several SELECTs without a transaction, paging | `ReadModel` |
| Browser read model (`web/src/lib/sync/readModel.svelte.ts`) | replica, cursor, timers and flags | bootstrap, pull, drain, event, open | coalescing, joining requests in flight, failures at each await | `ReadModel` |
| Realtime hub (`src/realtime.rs`) | one replay ring per project, broadcast channels | publish, resume | handlers publish after the lock, in any order; expiry and eviction; restarts | `ReplayRing` |
| Event socket (`src/realtime.rs`) | visible projects, session, receiver positions | subscribe, forward, replay, revalidate, close | lag, revocation against queued events, a send that waits | `EventSocket` |
| Cross-tab leader (`leader.ts`, `App.svelte`) | a Web Lock, a BroadcastChannel, a socket, timers | elect, relay, promote, reconnect | promotion while frames are in flight; tabs that crash or sign out | `LeaderTabs` |
| Sessions, keys, accounts (`src/auth.rs`, `users.rs`), OAuth (`src/oauth.rs`) | tokens, codes and bots with lifetimes | sign in, approve, exchange, revoke, recover, deactivate | checks made before the writer is taken; recovery against approvals in flight; replays | `Credentials` |
| Attachments and blob storage (`src/storage.rs`, `attachments.rs`) | rows, links, files | upload, link, delete, collect orphans | row and file are two stores; failures between them | `DataDirectory` |
| Archives (`archived_projects.rs`, `project_archive/`), dumps (`dump.rs`) | archive files, listing rows | archive, unarchive, dump | long reads beside deletions; power cuts after unsynced commits | `DataDirectory` |
| Plans (`plans.rs`, migration 020) | step trees, links to issues | create, link, check, move, delete; follow an issue | statements outside transactions; triggers whose order SQLite does not fix | `Plans` |
| Members and authorization (`src/authz.rs`, `members.rs`) | roles | grant, revoke | open sockets of a removed member | in `EventSocket` |
| Optimistic concurrency (`issues.rs`, `pages.rs`) | the caller's `expected_seq` | conditional update | the comparison and the write must be one step | a stutter of `SyncStore` |
| Relations, waits, assignees | edges | edit | what makes an issue workable | no |
| Rate limits (`src/ratelimit.rs`) | bounded map of windows | check, evict | window arithmetic, a full map | no |
| Backups, migrations, importers | files, schema version | rotate, apply, map | crash in the middle | no |
| Autosave (`web/src/lib/saveQueue.ts`) | pending patch, request in flight | edit, flush, park | one flight at a time, nothing typed lost | no |
| MCP server, proxy and CLI | sessions of the proxy | forward, reinitialise | requests in flight at a reconnect | as writers only |

They meet in three places. **Calls**: REST, MCP and CLI all end in `src/db/queries`, serialised by the writer
mutex inside a process and by SQLite between processes; what is not in a transaction or savepoint commits statement by
statement. **Messages**: a REST or HTTP-MCP handler publishes an event on the hub *after* its transaction; the CLI
and the stdio MCP server have no hub and publish nothing. **Callbacks**: the tab's socket, timers, fetches
and focus handlers run on one event loop and interleave at every `await`, and tabs talk through a
BroadcastChannel.

### What makes each part correct

* Tables and stream: no two rows share a tick; whatever changes what `/changes` says of a row draws a new
  one; comments and parents stay consistent through deletes, restores and sweeps.
* Delta sync and read model: below its cursor a replica is exact; no row goes back in time; a settled
  `pull()` contains what its caller had seen; it converges once the socket stays up.
* Replay ring: an answer is complete or a refusal; an up-to-date client is not sent away.
* Event socket: a frame of a project goes out only if session and membership held since it was taken up; a
  gap is told before what follows it; a socket without session or peer is closed.
* Leader: at most one tab holds a socket; no connected tab misses a change; connections come back.
* Credentials: after a recovery nothing authorized earlier works or comes to life; an exchange happens once; nothing
  outlives the account that carries it.
* Data directory: a project is live or archived, never gone, whatever fails; a dump is whole; the sweep spares what a document uses.
* Plans: steps are trees of one plan; frozen plans stay; steps follow their issue.
* Relations: acyclic. Members: a project keeps a lead. Autosave: the last edit reaches the server or the user is told.
  Backups and migrations: a crash leaves the old or the new state. (Not modelled.)

## The modules

| module | is | uses |
|---|---|---|
| `ReplayRing` | the hub's replay buffer: handlers that commit and publish, clock, capacity, resume, restart | |
| `SyncStore` | the tables, the triggers, the counter, the trash sweep, the outbox of events | implements `ChangeStream` |
| `ChangeStream` | what the tables promise to whoever follows them by seq, without triggers, cascades and sweeps | |
| `ReadModel` | one tab, its two HTTP requests statement by statement, its socket, and faults | `SyncStore`; implements `StreamReader` |
| `StreamReader` | what a replica promises to whoever looks at it, without requests, events and timers | `ChangeStream` |
| `EventSocket` | the task behind a socket, its receivers, its peer, and who revokes what | |
| `LeaderTabs` | the tabs of one browser, lock, channel, socket, server and session | |
| `Credentials` | accounts, sessions, keys, grants, tokens, and requests in flight | implements `Authority` |
| `Authority` | how somebody comes to act as an account and what takes it away, without requests in flight | |
| `DataDirectory` | database, blobs, archive files, and every job over them step by step | implements `Shelf` |
| `Shelf` | what an instance promises of its projects, without files and jobs | |
| `Plans` | plans, steps, the triggers of migration 020, and several processes | |
| `MC*` | instances for TLC: symmetry sets | the module of that name |
| `ReplayRing_proofs`, `SyncStore_proofs`, `ReadModel_proofs`, `EventSocket_proofs`, `LeaderTabs_proofs`, `Credentials_proofs`, `DataDirectory_proofs`, `Plans_proofs` | theorems | the module of that name; `ReadModel_proofs` also `SyncStore_proofs` |

`ReadModel` composes: `StoreStep` of `SyncStore` runs beside the requests and the tab, and what the
handlers leave in `outbox` is what the hub publishes. The ring inside `ReadModel` is abstracted to the set
of recorded seqs with a nondeterministic answer to a resume: any part of what is past the cursor, or `sync_required`. `ReplayRing`
is the detailed ring, where the question is which answer is given; what is shown of the tab holds for each of them, also for
the incomplete replays that the ring may give (`ring_gaps`). `EventSocket` is the detailed server
end of that socket and `LeaderTabs` what stands between it and the tabs.

## How the models correspond to the code

### ReplayRing

`ring[p]` is `ProjectRing` with its three fields; `Expire`, `Record`, `Covers` are its methods of those
names, `Push`/`Trim`/`PopFront` the loops inside `record` and `expire`. `owner[s]` is the project of the
row that drew tick *s*: `sync_seq` is instance-wide, so a project sees gaps. `pending` holds what handlers
have committed and not yet published; `Publish` may take any of it, since handlers publish after they let
go of the writer. `CommitUnstamped` is a page update with labels alone, whose event carries the seq the
row already had. `published` is history.

### SyncStore

A row is a tuple of columns, one function per column. `state` is the row's life: `unborn`, `live`,
`deleted` (a tombstone: `deleted_at` is set), `purged`. `Stamp(S)` is the effect of the stamp and bump
triggers of migration 045 on the rows a transaction touches; `CascadesTo` and `Revived` are the cascade
triggers of migration 047; `BumpedByLabels` and `BumpedByComment` say which other row a trigger stamps.
One action is one operation of one table; `via` is the process: `"api"` holds the in-process writer (and
therefore waits for the sweep) and publishes, `"cli"` is another process that does neither. The sweep's
three `DELETE`s are the actions `PurgeComments`, `PurgeIssues`, `PurgePages`, and it may fail or die
between them.

What one step is. A mutation is one transaction: `DbPool::transaction` or a savepoint. The delete and restore handlers run
their statements in autocommit under the writer, but only one of them changes a syncable row; its triggers
belong to it. SQLite leaves the order of triggers on one event undefined, so the rows of one transaction
draw distinct ticks in any order. Inside a transaction a row may be stamped several times; only the last
tick is ever visible, so a row draws one. A refused `expected_seq` rolls back: a stutter.
`alone` is history (the instant at which a comment was deleted by itself, 0 if it was not), as are the seq and the parent of a purged row.

`ChangeStream` is the contract between the tables and `/changes`: `entry` holds the latest report of each row with its
number, a write puts the rows it changes behind everything written before, each with a number of its own, and only an
entry that reports its row deleted is ever dropped, for good. The mapping takes `head` to `sync_seq`, `entry` to
`Entries` (the rows in the tables, each with its `seq` and its `Report`) and `dropped` to `Purged`. `IsAStream` is that specification under the
mapping: it contains the order of the stamps, that every visible change is stamped, and that a sweep takes tombstones only.

### ReadModel

`index` and `changes` are requests in flight. `IndexStep` walks `get_index` SELECT by SELECT (cursor,
issues, pages, labels of issues, labels of pages), `ChangesStep` walks `list_changes` (rows of the page,
then their labels): each is a step, and the store moves between them. `status`, `cursor`, `pullTimer`,
`pullQueued`, `pullAfterBootstrap` are the fields of `ProjectReadModel`; `changes.stage # "none"` is its
`pullRun`. An action of the tab is one callback up to its next `await`: `ApplyIndex` is `bootstrap` after
its fetch with the `finally` clause, `ApplyChanges` is `drain` after its fetch up to the next one or to the end. `caller` is one caller
of `pull()`, with what was committed when it called. `socket = "opened"` is the gap between the upgrade a
tab sees and the subscription in `serve_socket`. A request that fails is seen to fail when its answer is due, or when the
server that was serving it is gone (`"lost"`). Two variables are history, read by the properties alone. `gap` holds what was published between the upgrade and
the subscription, which only the replay of the resume frame can bring. `unheard` is the tick up to which the code owes a connected tab no word: what
other processes wrote, what the sweep took from under an issue (`Silent`), what was published in that gap with no frame to bring it or gone from the
ring when the frame was answered, what was written before a `/changes` that failed with no pull scheduled behind it. `Unheard(id)` excuses a row
only while its seq is at or below `unheard` and above the cursor: any pull that gets past it ends the excuse. `/changes` also pages through comments; the replica keeps
none, so they only move the cursor.

`StreamReader` extends the stream with one variable for what the tab shows and one for how far it has read. A `Read`
goes as far as it likes, and afterwards the rows at or below that point are shown as the stream reports them, a row beyond it
as the stream reports it or as it was before, and none as it was before what was shown already. The mapping takes `view` to `Shown`, `upto` to `cursor`, and
the stream to the store's. Its steps are the ends of the two requests, `ApplyIndex` and `ApplyChanges`; every other
step of the tab, the server and the network is a stutter.

### EventSocket

`pc` is where `serve_socket`'s task is: `upgraded` and `looked` before it has subscribed, `select` at
`next_socket_input!`, `session`, `visible`, `refresh`, `ring` and `send` at the awaits of a handler. `Urgent` is the
order of the biased select (deadline, revocation, tick, event, message); `Take` starts the handling of an input, and
every handler goes through `revalidate_session` first (`SessionHolds`, `SessionRefused`). A project event then passes
`CheckVisible`, a resume goes to the ring, and each frame of a replay starts over (`NextFrame`). `Send` may wait for as
long as the peer does; `SendFails` is the bounded send giving up. `events`, `revoked` and their lag flags are the two
broadcast receivers: a message pushed onto a full one drops the oldest. `known` is `visible_projects`, which only
narrows what is worth a resync. Outside the task sessions end, are revoked (with or without a broadcast: another
process says nothing), memberships change, and the peer goes. `held`, `missed` and `behind` are history: what held at
some moment since the input in hand was taken up, and whether an event was lost without the client being told.

### LeaderTabs

One tab is `leader.ts` with the callbacks of `App.svelte`. `lock` and `waiting` are the Web Lock and its queue; `sock`,
`wire` and `inbox` the WebSocket, a frame on it, and the messages of the BroadcastChannel on their way to a tab.
`desired`, `followerOpen`, `needsResync`, `timer` and `probe` are the client's own fields: `disconnect` and `connect`
are `Disconnect` and `Connect`, `becomeLeader` is `BecomeLeader`, `handleChannelMessage` the `...Hears...` actions,
`scheduleRealtimeReconnect` is `Schedule`, `reconnectAfterFailedRealtimeAttempt` is `SocketFails` and then
`ProbeSettles`. A socket that the server or the network closed is `dead` until its close event is delivered. A `Change` makes every
tab's lists out of date; what brings them up to date is a frame, a relay, or a pull when the tab hears of a connection.

### Credentials

A request is checked when it arrives (`PasswordVerified`, `GrantAsked`), stays in `requests` while Argon2 or anything else
runs without a lock, and commits in one transaction that checks again (`StillCorrect` of `finalize_login`,
`RecentSession` of `revalidate_recent_session` and `recent_approver`) or is `Refused`. Between the two any transaction may commit. The
actions carry the names of the functions of `users.rs`, `api/auth.rs`, `auth.rs` and `oauth.rs`. `LockedKeys`, `LockedTokens` and
`LockedGrants` are the statements of `lock_down_account`. The `era` of an account counts its lockdowns, and every
credential carries the era of the session it descends from: history, which no guard reads (only the bound
`MaxLockdowns` does). One account has one tool: `(owner, tool)` is unique.

`Authority` knows no requests: a session comes from the password, a key or an approval from a session that is open *at that
moment*, a token from an approval that it uses up, and a recovery ends all of the account's in one step. The mapping takes
`opened` to the sessions with the era they come from, `keys`, `approvals` and `tokens` to the rows that are live or open,
`ended` to the grants that are spent, denied or gone, `recoveries` to `era`. `AuthorityIsEarned` says that the two-phase handlers, whose
checks precede their writes, are indistinguishable from that.

### DataDirectory and Shelf

`db` is the committed database, `safe` what a power cut leaves of it (`synchronous = NORMAL`: a commit is durable after a
checkpoint, `Settle` or `Checkpoint`), `blobs` and `files` the two directories. The store lock is `job`, `dump` or
neither (`StoreFree`); `DbFree` is SQLite's write lock, which an upload, an archiving and an import keep until they
commit. Each job is one action per write to disk and one per commit, with a failing branch of each; `Killed` drops the
lock and rolls back, `PowerCut` also replaces `db` by `safe`. `ask` is an unarchive request, whose staging is before any
lock. `sweep` is the list the orphan sweep works off, found once.

`Shelf` promises, without files or jobs: every project is live or archived, archiving and unarchiving keep what its
documents attach, a power cut takes the instance back to where it last settled, and bytes on record go missing in power
cuts only. The refinement maps `shelf` to `ShelfOf(db)` (a live project and what its links reach, or an archived one
and what its file holds), `settled` to `ShelfOf(safe)`, `missing` to the names without bytes. `ShelfKept` is `Shelf`'s
specification under that mapping, a property of `data_directory`. A project that is neither maps to a place `Shelf` does not have.

### Plans

`of`, `parent`, `link`, `done` and `reopened` are the columns of `plan_steps`, `plan` and `anchor` those of `plans`.
One action is one function of `plans.rs` where it is one statement or one savepoint; `set_step_done` is two
(`CheckReads`, `CheckCommits`: the step's link is read before the savepoint) and `move_step` is a walk
(`MoveStarts`, `MoveWalks`, `MoveCommits`, `MoveRefused`: SELECTs and an UPDATE that each commit by themselves). The three
triggers of migration 020 are `Closes` and `Unchecks`; the two that fire on one update run in either order. `Processes` are the server and
the MCP servers on standard input, each with a writer mutex of its own.

## The runs

| run | question | instance | distinct states |
|---|---|---|---|
| `ring` | does the ring know what it lost, and are its answers complete? | 2 projects, capacity 2, age 2, 3 ticks, 3 publications, clock 3 | 173 thousand |
| `ring_gaps` (violation) | ... in whatever order handlers publish? | 1 project, else as `ring` | |
| `store` | is it a stream (order, stamps, purges)? does a restore bring back exactly what the deletion took? comments and parents, labels; refinement of `ChangeStream` | 1 issue, 1 page, 1 comment, 2 labels, 2 contents, 6 ticks, clock 3, retention 1 | 325 thousand |
| `replica` | delta discipline, settled pulls, refinement of `StreamReader` (exact below the cursor, no going back) | 1 issue, 1 page, 1 label, 1 content, 3 ticks, page size 1, failing requests | 531 thousand |
| `replica_converges` | is a tab that waits for nothing current in all it was to hear of? does it get there (liveness)? with failing requests, lag, closes and restarts | 1 issue, 2 ticks, writers in the server and in another process | 308 thousand |
| `replica_purge` (violation) | does every deletion reach a replica? | 1 issue, 1 page, 3 ticks, clock 3 | |
| `event_socket` | who is sent what, gaps, and closing (liveness) | 1 socket, receivers of 1 message, replays of up to 2 frames | 143 thousand |
| `leader_tabs` | one socket, nothing missed, no tab cut off for good; liveness of the connection | 2 tabs, 2 crashes, outages or ended sessions | 86 thousand |
| `credentials` | recovery, deactivation, bots, revocation; single use in the refinement of `Authority` | 1 account with its bot, 2 sessions, 1 code, 1 device, 1 key name, 1 lockdown, 2 requests in flight | 481 thousand |
| `data_directory` | nothing lost, whole dumps, spared links, refinement of `Shelf` | 1 project, 1 content, 2 rows, 2 archives under 2 names, 2 unarchive requests, power cuts | 1.46 million |
| `plans` | whole trees, families, triggers | 2 plans, 2 steps, 1 issue, 2 processes of which one moves steps | 648 thousand |
| `plans_move` (violation) | ... when both move steps? | 1 plan, 2 steps | |

Why the bounds are enough. The ring: capacity 2 makes eviction, expiry and a partial ring reachable within
3 publications, and two projects make gaps in a project's seqs. `store`: 6 ticks hold create, comment, cascade and
restore of a page (1+1+2+2), and the same of an issue, where the comment bumps its parent, up to the cascade or
the purge (1+2+2+1); its restore, a seventh tick, is left to the theorems. One comment goes down alone or with its
parent, which are the two cases a restore tells apart; the theorems speak of any number of comments. Clock 3 with retention 1 lets the comment expire before, with or after its
parent, and a restored tombstone start anew. Two labels make a merge possible, onto a row that wears either, both or none.
`replica`: page size 1 makes every row a page boundary and the over-fetched row real; three ticks let a
row change between two SELECTs of two successive requests. One content is enough there, since content is read in one
SELECT with its seq and an edit that writes the same content draws a tick all the same; labels, which are read in another, vary, and contents do in `store`. `replica_converges`: two ticks, so that one event can be lost
while another arrives. `event_socket`: a receiver of one message lags at the second, a replay of two frames has one between
its first check and its end; sockets share nothing but what others send. `leader_tabs`: two tabs change roles twice. A third would be
there when the first leader dies and the second is being promoted, which is the shortest way to two `open` messages without a `close`; its
states are too many for the liveness check, and the safety properties are theorems for any number of tabs. `credentials`:
two requests in flight are an approval and the login or change that overtakes it; two sessions are the browser that recovers and the one that
is severed; the theorems lift each bound. `data_directory`: two rows share the one content, two requests unarchive one listing, two names let
a project be archived again beside the file of its first archive. `plans`: two steps are a parent and a child, in one
plan or in two. Contents, labels, ids and rows are interchangeable and reduced by
symmetry, in the runs that check safety only; nothing chooses among them.

Named bounds: `MaxSeq` (ticks of the counter), `MaxTime` (the clock), `MaxPublished` (publications per
project and process), `Buffer`, `MaxReplay`, `MaxTrouble`, `MaxLockdowns`, `MaxRequests`, `MaxRows`, `MaxArchives`.
They are guards of the actions that count; no proof relies on their values. In `LeaderTabs` also: one event, one probe per tab
and one unread `close` per tab at a time.

Deadlock checking stays on in every run but `credentials`, where an account that is deactivated, with its codes and its
lockdown used up, has nothing left to do.

### Constants that are assumptions

* `Realtime`: a public page has no session and opens no socket; its tab relies on focus and reload.
* `Callers`: routes of the tab write and call `refreshProjectModel` at once. Off where no property speaks of the
  caller: to the tab the call is a pull without its timer.
* `Faults`: which of failing requests, closing sockets, lagging receivers and server restarts happen. `replica_converges` has all four.
* `PowerCuts`: on in the run. Without them no row ever lacks its bytes, which is the theorem `BytesAreKept`.
* `Movers`: the processes in which somebody moves a step. `plans` has one, `plans_move` two.

### Fairness

`ReadModel`: weak fairness of what the runtime drives by itself: the tab's event loop (a resolved or
rejected fetch, a timer, a received frame), the server (an accepted request runs to its end, a handler
that committed publishes, a socket task subscribes and answers its resume frame) and the tab's reconnect,
which retries with backoff for ever. Writers, users, closes, lag and crashes owe nothing. Requests may fail, any number
of times and independently of the socket. The two answers are strongly fair: a network over which an answer is due again and again
delivers one at last, as often as others are lost. Failing is fair only for a request whose server died, since its connection breaks.
The code does not retry a failed `/changes`, so `Converges` does not say that a tab gets everything: it may end "cold" (a failed
snapshot, whose error the page shows), or without rows that are `Unheard`.

`EventSocket`: the runtime polls the task (weak, `Serve`); its interval and, for a peer that is gone, its deadline come
due (strong, since the task only looks while it is at the select). `Revalidate` is strongly fair: revocations of other users go before it and
are sign-outs that people ask for, so the task is polled now and then between two. Nobody has to publish, and a
session or a membership may change at any time.

`LeaderTabs`: weak fairness of every callback of a browser (timers, lock grants, socket events, channel messages, the
settling of `me()`), and of the server's restart. Nobody has to navigate, open a tab or sign in.

The other specifications state no fairness and no liveness.

## What the code does not keep

| run | the promise | what happens |
|---|---|---|
| `replica_purge` | `readModel.svelte.ts:21`, gaps are impossible | a tombstone swept before it was pulled leaves the deleted row in the replica |
| `ring_gaps` | `realtime.rs:887`, a replay is everything past the cursor or a refusal | two handlers publish in the opposite order of their seqs, or a page's labels are published with the page's old seq; once the ring drops the higher one in front, `covers` takes the lower one as proof that nothing is missing. `ReplayIsCompleteInOrder` is what holds; the tab is saved by the pull it schedules with every connection, except for what is published between the upgrade and the subscription after that pull was served (`unheard`) |
| `plans_move` | `plans.rs:628`, no step becomes a child of its own descendant | two processes move A below B and B below A; both walks reach the root, both updates go through. No plan shows the two any more, and a later walk into the cycle never ends, while it holds its process's writer |

### Known limits

Other promises the code does not keep in full. The models contain each of these behaviours; the properties state the part that does
hold, and none of them has a run of its own.

* `leader.ts:15-19` (a tab that logs out hands the lock over). When the token was replaced or removed while a leading
  tab's failed attempt waited for `me()`, `App.svelte:395` returns without a timer: the tab keeps the Web Lock without a
  socket, and tabs signed in later wait behind it. `TabsReconnect` speaks of runs whose session is left alone.
* `issues.rs:886` (a restore brings the comments back): not those that an interrupted sweep has already removed.
* `readModel.svelte.ts:147` (a settled `pull()` contains the caller's write): not a call that joins a bootstrap in
  flight. `PullReconciles` leaves those out.
* `045_sync_seq.sql:3` (every mutation is stamped): not a page's labels. `CurrentBelowCursor` speaks of the labels of issues only.
* `readModel.svelte.ts:325` (the pull at a connection "closes the window"): a connected tab may stay behind until its next pull (focus, reconnection, another event).
  A tab that is still loading sends no resume frame (`readModel.svelte.ts:323`), so what is published before the server subscribes is never sent to it, and a
  ring may have dropped it by the time it answers a frame. A drain that failed is not tried again (`readModel.svelte.ts:184`). Other processes publish nothing, and the sweep's removal
  of comments bumps an issue without an event. `QuietTabIsCurrent` and `Converges` say that nothing else is missed.
* `047_soft_delete.sql:22` (a comment deleted on its own stays deleted): a restore takes every comment whose `deleted_at` is the parent's, so a comment that was deleted by itself at the very
  millisecond of its parent's deletion comes back too. `RestoreIsExact` states that corner as it is.
* `App.svelte:408`: a socket's first connection brings no
  resync to the views that are not the read model, and `closeRealtimeSocket` forgets a pending resync while the page stays mounted.
* `attachments.rs`, `storage.rs:739`: bytes are unlinked right after a commit that a power cut may take back; the row is
  there again, its bytes are not. Bytes that a failed cleanup leaves behind are never collected (the sweep walks rows),
  whatever `api/attachments.rs:318` says. The grace window of `storage.rs:711` is measured from a file's creation, not from when its last link went.
* `019_plans.sql:33` (the reason of a reopening is cleared on the next completion or edit): edits leave it. `set_step_done` may close an
  issue that the step has just been detached from (`plans.rs:523`), and a step update of several parts stays half applied when a
  later part fails.

## What is proved

All for arbitrary constants, from the `...Assumption` of each module alone (bounds are naturals, some positive;
special values are outside the sets they mark; row ids are finitely many, kinds disjoint).

* `ReplayRing_proofs`: `TypeCorrect`, `RingSuffix`, `CompleteInOrder`, `DrainedComplete`, `CurrentClientStays`. `TypeOK` does
  not say why an answer is complete. The inductive invariant adds `Tracks(ring[p], published[p])`: the ring is a suffix
  of the history, `evicted` is set when it is a proper one, and `latest_seq` bounds the history. Then, for
  a history in order, an evicted event is below the oldest one kept, and `covers` refuses exactly when it
  may be above the cursor. `Attained` adds that `latest_seq` is a published seq or zero: a client that has everything is at it.
* `SyncStore_proofs`: `StoreTypeCorrect`, `StreamTotal`, `EveryMutationStamped`, `StoreIsAStream`. The first two are
  inductive together. The argument is a pair of lemmas: each step *draws* fresh distinct ticks for some set of rows
  (`Draws`), and that set *covers* everything the step puts into a table or changes there (`CoversStep`).
  Totality and the action property both follow from the pair. `NoOrphans` and `RestoreExact` need `Family`: the parent of a
  tombstone that was not deleted by itself is a tombstone with the same timestamp, one that was keeps the instant of its own deletion, and a live comment
  has no such instant (the clock is never 0). `IssueFollowsComments`: the issue of a comment that a step changes is among the rows it stamps, or is removed. `StoreIsAStream` is the refinement of
  `ChangeStream`: the rows drawn are the rows of one write (`Draws`, `CoversStep`), and what a step purges was a tombstone before it.
* `ReadModel_proofs`: `ExactBelowCursor`, `ReplicaOnlyAdvances`, `SettledIsReconciled`, `ReplicaFollows`, `QuietIsCurrent`, `ReadModelTyped`. `CurrentBelowCursor` says nothing of the
  answers in flight, on which the next replica depends. `Faithful` says of an image of a row, wherever it is, that it is what the
  tables hold or older than the row's seq; `IndexTrue` and `ChangesTrue`, that an answer has every row of its range whose seq
  has not passed the answer's cursor. A write between two SELECTs stamps the row past both (`StoreAges`, from the
  pair of lemmas of `SyncStore_proofs`), so both survive it. `SettledIsReconciled` adds `Told`: whatever its caller had seen is at or below the cursor of the
  answer that will settle the call, because a page that is followed by no other has read every row above its start
  (`LastPageHasAll`). That a finite
  set of seqs has a greatest one comes from the library's well-foundedness of strict inclusion. `ReadModelTyped` adds `Filled`: what is in a table has a content.
  `ReplicaFollows` is the refinement of `StreamReader`: `Faithful` and the two facts about answers make each end of a request one `Read`, and
  `StoreIsAStream` makes each step of the store one `Write`.
  `QuietIsCurrent` is what convergence rests on, as an invariant: a row that the tab has not read keeps it from coming to rest (`Coming`). Either a
  pull is planned, or the request under way will read the row (`Drains`, `Loads`) or be followed by one that does, or an
  event on its way will wake the tab for it (`Wakes`). Events are dropped as duplicates, joined with a request in flight or overtaken by it, and each of these cases
  needs that the cursor of the answer is at or beyond what the event announced. On its way (`Afoot`) is what waits to be published, what the socket
  carries and, as long as a resume frame is unanswered, what was published before the server subscribed (`Owed`), which the replay brings because the frame's cursor is never ahead of
  the tab's (`Framed`). The theorem assumes nothing of the writers, the faults or the timing: each step either announces what it stamps
  or raises `unheard` to it (`StepAnnounces`), and only rows above `unheard` are owed (`Due`).
* `Credentials_proofs`: `RecoverySevers`, `NoSessionOfAnOldPassword`, `OneExchange`, `NothingOutlivesItsAccount`, `RevokedForGood`, `AuthorityIsKept`, `CredentialsTyped`. One inductive
  invariant: beside the four it says that whatever is live names an account, that requests present a session that was somebody's and never
  somebody else's since, and that a grant that is not spent was never exchanged. Its steps fall into those that insert one
  credential (which descends from a session of the current era, checked in the same transaction) and those that cut. `RevokedForGood`
  adds that a grant with a token has given one, so is not open. `AuthorityIsKept` is the refinement of `Authority`: with that invariant each
  transaction is one of its steps, because what it checks again implies the step's guard at the moment of the commit, and
  arrivals, refusals and what they leave behind are stutters. `OneExchange` (a grant gives at most one token) is the part of it that
  `Exchange` and `ended` say, proved on its own.
* `EventSocket_proofs`: `SentOnlyWhileAllowed`, `GapsAreTold`, `SocketTyped`. The invariant says for each `pc` what must have been seen to get there:
  from `session` on nothing is in hand unless it was taken (`InBetween`), at `visible` the session held (`HeldSoFar`), a lag flag is set
  for as long as a loss is untold (`LagIsPending`), and an event taken up after a loss was taken after the telling (`UpToDate`).
* `LeaderTabs_proofs`: `OneSocketPerBrowser`, `NoTabMisses`, `TabsTyped`. That no tab is left behind says nothing of a tab that is still waiting for a message;
  `Excuses` does: while the socket is open, for each tab that is behind there is a frame on the wire, an event or an open in its own inbox, or its
  hello in the leader's. An open excuses views only if the tab will ask for a resync then, which is `Aware`: who was told of a connection
  either still believes in it or knows that it lost something. `Online` (a socket is open only while the server would answer) makes the reads succeed, `Queued` that
  a tab that lets go leaves no request behind. `RestIsConnected`, the safety core of `TabsReconnect`, needs to know who is going to do something for a
  tab that is cut off. `Fresh`: while the session is left alone, every open tab wants a connection. `InLine`: whoever wants one holds the lock
  or is in its queue. `Trying`: a holder without a socket has a timer or a probe. `Reached`: while the holder's socket is open, each of the others has
  been told so last (by its belief and its inbox together, `Hears`), or its hello is in the holder's inbox.
* `DataDirectory_proofs`: `ProjectsAreKept`, `DumpsAreWhole`, `LinkedIsSpared`, `BytesAreKept`, `DirectoryTyped`. `Kept` says that listings name
  distinct files that are there and hold their project, in `db` and in `safe`; that a request past its commit owns a file that
  `safe` no longer needs once it is durable; and that the file of a job is apart from both. `DumpAlone` says that jobs and dumps exclude each
  other; `Bytes`, that a job that will remove bytes holds only such as no row names. `ShelfIsKept` is the refinement of `Shelf`: `Whole` adds what
  is in a file (that of an archiving holds what its project attaches until it commits, and a request imports what its listed file holds), and that no project is live and listed, or listed twice. Each commit is one
  step of `Shelf`; every other step leaves the database, the listed files and so the shelf alone, or takes bytes away. `DirectoryTyped` adds `Room`:
  what a job or an import is about to insert still fits the bound its guard checked.
* `Plans_proofs`: `TypesKept`, `FamiliesKept`, `TreeKept`, `ReopenedStaysUnchecked`, `IssuesDrive` (from `FrozenKept` and `IssuesFollowed`). `FamiliesKept` needs no assumption on who moves;
  `TreeKept` assumes one mover, and its invariant adds what the walk has learnt (`Walked`): the step is on no row it has passed, and
  the parent of a passed row has been passed too or is next. When the walk ends at the root, a set that the move would make into a cycle
  therefore contained one before.

Every invariant, action property and refinement of a passing run is proved for every value of the constants, one of them under the assumption its entry states
(`TreeWhole`: one mover). Liveness (`Converges`, `DeadSocketsClose`, `TabsReconnect`) stays with TLC: TLAPS has
no ENABLED and so no fairness.

## What is not modelled

Of the modelled parts:

* store and read model: relations, waits, assignees, mentions and attachment links of an issue
  (read by `/changes` as labels are); comment kinds; moving rows between folders and modules; hard deletion
  of a project; renaming a label; several projects in one tab. A label merge on the wire is an event without a seq.
* `EventSocket`: heartbeats and the cache of the activity baseline, the rate limit and the socket counts, the audience of
  administrators, deletion of a project, a closed broadcast channel.
* `LeaderTabs`: browsers without locks or channels, frames that a follower sends through the leader, heartbeats, how long a backoff
  is, loading of the user after a sign-in.
* `Credentials`: the shell commands of the operator that name no session (`rotate_api_key` gives a new key to whoever owned the name, also one
  that was revoked; `key assign`), sign-up, passwordless and automatic login, tokens without an account, the last-administrator guard, polling intervals and
  the bound on device rows, PKCE, clients and redirects.
* `DataDirectory`: one document stands for all of a project's content; thumbnails, text extraction and permissions are left out, and so are foreign
  archives, an identifier that another project took, a restore of the whole instance and permanent deletion of a project. Staging is one step.
  Written files were synced and removed ones stay removed. An upload over MCP, which does not clean up after a failure, is the branch of
  `Discards` that keeps the bytes.
* `Plans`: titles, descriptions, positions, the audit log, lists and search.

The parts without a module, each with its reason in PROJECT.json: relations, waits and assignees; rate limits; migrations; backups and audit
pruning; importers; the MCP proxy; autosave. Left out for good: rendering, argument parsing, the mapping of importers, search and
reports (no state of their own), operating system services. Much of the repository is of that kind, or tests (which
are in the same files), so the share of its lines that a model can stand for is small.

## Plan

Done: all modules above. What would come next, in this order:

1. `ReplayRing` and `EventSocket` as refinements of the connection that `ReadModel` assumes (a frame, a replay or a `sync_required`), so that the three compose.
2. `SaveQueue`: coalescing, one flight, parking. `OptimisticUpdate`: two editors with `expected_seq` over `SyncStore`'s updates; what a conflict may mean
   when a purge or a comment bumps the row.
3. Relations and waits over `Plans`; `Backup` and `Migrate`: crash between any two file or database steps.
4. `RateLimit` (pure arithmetic against a reference), `McpProxy`.
