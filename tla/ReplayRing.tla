----------------------------- MODULE ReplayRing -----------------------------
(***************************************************************************)
(* The per-project replay ring of lific's realtime hub (src/realtime.rs).  *)
(*                                                                         *)
(* A request handler commits a mutation, which draws a tick of the         *)
(* instance-wide sync_seq counter, releases the writer lock, and only then *)
(* publishes the event.  Two handlers may therefore publish in the         *)
(* opposite order of their ticks.  The hub keeps the last RingCapacity     *)
(* events of a project for at most RingMaxAge, and answers a reconnecting  *)
(* client's `resume` frame either with the buffered events past its        *)
(* cursor or with `sync_required`.                                         *)
(***************************************************************************)
EXTENDS Integers, Sequences

CONSTANTS
    Projects,       \* project ids
    RingCapacity,   \* RING_CAPACITY
    RingMaxAge,     \* RING_MAX_AGE, in clock ticks
    MaxSeq,         \* bound: how many ticks sync_seq hands out
    MaxPublished,   \* bound: how many events a process publishes per project
    MaxTime         \* bound: how far the clock runs

ASSUME RingAssumption ==
    /\ RingCapacity \in Nat \ {0}
    /\ RingMaxAge \in Nat \ {0}
    /\ MaxSeq \in Nat
    /\ MaxPublished \in Nat
    /\ MaxTime \in Nat

VARIABLES
    owner,      \* owner[s]: the project of the row that drew tick s
    pending,    \* ticks committed by handlers that have not published yet
    now,        \* Instant::now()
    ring,       \* ReplayBuffer.projects
    published   \* history: the seqs this process published, per project

vars == <<owner, pending, now, ring, published>>

Seqs == 1..Len(owner)

BufferedEvent == [seq : Nat, published_at : Nat]

ProjectRing == [events : Seq(BufferedEvent), latest_seq : Nat, evicted : BOOLEAN]

(* Mutant: a new ring starts below the first cursor a client can hold.     *)
EmptyRingBelowZero == [events |-> <<>>, latest_seq |-> -1, evicted |-> FALSE]

(* A missing entry of ReplayBuffer.projects answers as this one does.      *)
EmptyRing == [events |-> <<>>, latest_seq |-> 0, evicted |-> FALSE]

TypeOK ==
    /\ owner \in Seq(Projects)
    /\ pending \subseteq Seqs
    /\ now \in Nat
    /\ ring \in [Projects -> ProjectRing]
    /\ published \in [Projects -> Seq(Nat)]

-----------------------------------------------------------------------------
Aged(e, t) == t - e.published_at >= RingMaxAge

(* How many entries the expire loop pops before it meets a fresh one.      *)
ExpiredPrefix(events, t) ==
    CHOOSE k \in 0..Len(events) :
        /\ k < Len(events) => ~Aged(events[k + 1], t)
        /\ \A j \in 0..(k - 1) : Aged(events[j + 1], t)

(* Mutant: the pop forgets that the ring lost something.                   *)
PopFrontSilently(r, k) ==
    [r EXCEPT !.events = SubSeq(r.events, k + 1, Len(r.events))]

PopFront(r, k) ==
    [events |-> SubSeq(r.events, k + 1, Len(r.events)),
     latest_seq |-> r.latest_seq,
     evicted |-> r.evicted \/ k > 0]

Expire(r, t) == PopFront(r, ExpiredPrefix(r.events, t))

(* Mutant: latest_seq follows the last event instead of the highest.       *)
BumpToLast(latest, s) == s

Bump(latest, s) == IF s > latest THEN s ELSE latest

Push(r, s, t) ==
    [events |-> Append(r.events, [seq |-> s, published_at |-> t]),
     latest_seq |-> Bump(r.latest_seq, s),
     evicted |-> r.evicted]

Trim(r) ==
    PopFront(r, IF Len(r.events) > RingCapacity
                THEN Len(r.events) - RingCapacity ELSE 0)

Record(r, s, t) == Trim(Push(Expire(r, t), s, t))

(* Mutant: the comparison with the oldest event is off by one.             *)
CoversOffByOne(r, cursor) ==
    \/ ~r.evicted
    \/ /\ r.events # <<>>
       /\ r.events[1].seq <= cursor + 2
    \/ /\ r.events = <<>>
       /\ r.latest_seq <= cursor

(* Mutant: the oldest event must be one the client has already seen.       *)
CoversStrictly(r, cursor) ==
    \/ ~r.evicted
    \/ /\ r.events # <<>>
       /\ r.events[1].seq < cursor
    \/ /\ r.events = <<>>
       /\ r.latest_seq <= cursor

Covers(r, cursor) ==
    \/ ~r.evicted
    \/ /\ r.events # <<>>
       /\ r.events[1].seq <= cursor + 1
    \/ /\ r.events = <<>>
       /\ r.latest_seq <= cursor

(* The seqs a Replay answer carries.                                       *)
Replayed(r, cursor) ==
    {s \in {r.events[i].seq : i \in DOMAIN r.events} : s > cursor}

-----------------------------------------------------------------------------
Init ==
    /\ owner = <<>>
    /\ pending = {}
    /\ now = 0
    /\ ring = [p \in Projects |-> EmptyRing]
    /\ published = [p \in Projects |-> <<>>]

(* A handler's transaction commits a row of p and releases the writer.     *)
Commit(p) ==
    /\ Len(owner) < MaxSeq
    /\ owner' = Append(owner, p)
    /\ pending' = pending \cup {Len(owner) + 1}
    /\ UNCHANGED <<now, ring, published>>

(* A handler whose edit stamps nothing (a page's labels only) publishes    *)
(* the seq the row already carried.                                        *)
CommitUnstamped(s) ==
    /\ pending' = pending \cup {s}
    /\ UNCHANGED <<owner, now, ring, published>>

(* send_with_seq: buffer before the live fan-out, whoever is listening.    *)
Publish(s) ==
    LET p == owner[s] IN
    /\ s \in pending
    /\ Len(published[p]) < MaxPublished
    /\ pending' = pending \ {s}
    /\ ring' = [ring EXCEPT ![p] = Record(@, s, now)]
    /\ published' = [published EXCEPT ![p] = Append(@, s)]
    /\ UNCHANGED <<owner, now>>

(* A client's resume frame: expire, then answer (see ResumeOutcome).       *)
Resume(p) ==
    /\ ring' = [ring EXCEPT ![p] = Expire(@, now)]
    /\ UNCHANGED <<owner, pending, now, published>>

(* What Resume answers to cursor: `sync_required`, or a set of seqs.       *)
ResumeOutcome(p, cursor) ==
    LET r == Expire(ring[p], now) IN
    [sync_required |-> ~Covers(r, cursor),
     replay |-> IF Covers(r, cursor) THEN Replayed(r, cursor) ELSE {}]

Tick ==
    /\ now < MaxTime
    /\ now' = now + 1
    /\ UNCHANGED <<owner, pending, ring, published>>

(* The process stops: rings, and events not published yet, are gone, the   *)
(* sync_seq counter is in the database.                                    *)
Restart ==
    /\ pending' = {}
    /\ ring' = [p \in Projects |-> EmptyRing]
    /\ published' = [p \in Projects |-> <<>>]
    /\ UNCHANGED <<owner, now>>

Next ==
    \/ \E p \in Projects : Commit(p)
    \/ \E s \in Seqs : CommitUnstamped(s)
    \/ \E s \in Seqs : Publish(s)
    \/ \E p \in Projects : Resume(p)
    \/ Tick
    \/ Restart

Spec == Init /\ [][Next]_vars

-----------------------------------------------------------------------------
Published(p) == {published[p][i] : i \in DOMAIN published[p]}

(* Everything this process published for p past cursor is in the answer.   *)
Complete(p, cursor) ==
    \/ ResumeOutcome(p, cursor).sync_required
    \/ \A s \in Published(p) : s > cursor => s \in ResumeOutcome(p, cursor).replay

InPublishOrder(p) ==
    \A i, j \in DOMAIN published[p] : i <= j => published[p][i] <= published[p][j]

(* The ring is the newest part of what was published, and it knows when it *)
(* is not all of it: what `evicted` and the two pop loops must maintain.   *)
RingIsSuffix ==
    \A p \in Projects :
        LET es == ring[p].events
            lost == Len(published[p]) - Len(es)
        IN /\ Len(es) <= RingCapacity
           /\ lost >= 0
           /\ lost > 0 => ring[p].evicted
           /\ \A i \in DOMAIN es : es[i].seq = published[p][i + lost]

(* replay_for_client's promise, "either every seq-bearing event this       *)
(* project published after `cursor` goes out ..., or the client is told    *)
(* `sync_required`", for a project whose handlers published in seq order.  *)
ReplayIsCompleteInOrder ==
    \A p \in Projects : InPublishOrder(p) => \A c \in 0..Len(owner) : Complete(p, c)

(* replay_for_client: "There is no third 'here is some of it' outcome".    *)
(* There is: publications that overtake each other, or a page's labels     *)
(* published with an old seq, leave at the front of the ring a seq that    *)
(* hides the loss of a higher one.                                         *)
ReplayHasNoGaps == \A p \in Projects : \A c \in 0..Len(owner) : Complete(p, c)

(* Once every event aged out, the answer is complete whatever the order in *)
(* which the handlers published: latest_seq is a maximum.                  *)
DrainedRingIsComplete ==
    \A p \in Projects :
        Expire(ring[p], now).events = <<>> => \A c \in 0..Len(owner) : Complete(p, c)

(* A client that has applied everything published is never sent to         *)
(* /changes: the answer to it is an empty replay.                          *)
CurrentClientIsNotSentAway ==
    \A p \in Projects : \A c \in 0..Len(owner) :
        (\A s \in Published(p) : s <= c) => ~ResumeOutcome(p, c).sync_required
=============================================================================
