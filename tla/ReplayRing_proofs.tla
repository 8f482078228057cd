------------------------- MODULE ReplayRing_proofs --------------------------
(***************************************************************************)
(* Proofs about the replay ring, for every set of projects, every          *)
(* capacity, every age limit and every bound.                              *)
(*                                                                         *)
(* The inductive invariant relates each ring to the history of what this   *)
(* process published (Tracks): the ring is a suffix of the history, it     *)
(* knows when it is a proper one, and latest_seq bounds the history.       *)
(***************************************************************************)
EXTENDS ReplayRing, WellFoundedInduction, TLAPS

(* Ring r is the newest part of history h and knows when h is longer.      *)
Tracks(r, h) ==
    /\ Len(r.events) <= Len(h)
    /\ Len(r.events) < Len(h) => r.evicted
    /\ \A i \in 1..Len(r.events) : r.events[i].seq = h[i + (Len(h) - Len(r.events))]
    /\ \A i \in 1..Len(h) : h[i] <= r.latest_seq

IInv ==
    /\ TypeOK
    /\ \A p \in Projects : Tracks(ring[p], published[p])
    /\ \A p \in Projects : Len(ring[p].events) <= RingCapacity

-----------------------------------------------------------------------------
(* Index arithmetic, stated on plain numbers.                              *)
LEMMA Offsets ==
    ASSUME NEW a \in Nat, NEW b \in Nat
    PROVE  /\ (a + 1) + (b - a) = b + 1
           /\ b - a > 0 => a < b
  OBVIOUS

LEMMA OneMoreTick ==
    ASSUME NEW n \in Nat, NEW S \in SUBSET (1..n)
    PROVE  S \cup {n + 1} \subseteq 1..(n + 1)
  OBVIOUS

(* The expire loop stops inside the queue: the entry it stops at exists.   *)
LEMMA ExpiredPrefixInRange ==
    ASSUME NEW es \in Seq(BufferedEvent), NEW t \in Nat
    PROVE  ExpiredPrefix(es, t) \in 0..Len(es)
<1> DEFINE Stops == {k \in Nat : k = Len(es) \/ (k < Len(es) /\ ~Aged(es[k + 1], t))}
<1>1. Stops \subseteq Nat /\ Len(es) \in Stops
  OBVIOUS
<1>2. PICK k \in Stops : \A j \in Stops : ~(<<j, k>> \in OpToRel(<, Nat))
  <2>1. IsWellFoundedOn(OpToRel(<, Nat), Nat)
    BY NatLessThanWellFounded
  <2> QED
    BY <1>1, <2>1, WFMin, Zenon
<1>3. \A j \in Nat : j \in Stops => ~(j < k)
  BY <1>2 DEF OpToRel
<1>4. k \in 0..Len(es)
  OBVIOUS
<1>5. k < Len(es) => ~Aged(es[k + 1], t)
  BY <1>4
<1>6. ASSUME NEW j \in 0..(k - 1) PROVE Aged(es[j + 1], t)
  <2>1. j \in Nat /\ j < k /\ j < Len(es)
    BY <1>4
  <2>2. j \notin Stops
    BY <1>3, <2>1
  <2> QED
    BY <2>1, <2>2
<1> QED
  BY <1>4, <1>5, <1>6 DEF ExpiredPrefix

(* Popping from the front keeps a ring a ring, and keeps it tracking.      *)
LEMMA PopFrontTracks ==
    ASSUME NEW r \in ProjectRing, NEW k \in 0..Len(r.events)
    PROVE  /\ PopFront(r, k) \in ProjectRing
           /\ Len(PopFront(r, k).events) = Len(r.events) - k
           /\ \A h \in Seq(Nat) : Tracks(r, h) => Tracks(PopFront(r, k), h)
<1> DEFINE es == r.events
           q == PopFront(r, k)
<1>1. es \in Seq(BufferedEvent) /\ Len(es) \in Nat /\ r.latest_seq \in Nat /\ r.evicted \in BOOLEAN
  BY DEF ProjectRing
<1>2. /\ q.events = SubSeq(es, k + 1, Len(es))
      /\ q.latest_seq = r.latest_seq
      /\ q.evicted = (r.evicted \/ k > 0)
      /\ q = [events |-> q.events, latest_seq |-> q.latest_seq, evicted |-> q.evicted]
  BY <1>1 DEF PopFront, ProjectRing
<1>3. /\ q.events \in Seq(BufferedEvent)
      /\ Len(q.events) = Len(es) - k
      /\ \A i \in 1..Len(q.events) : q.events[i] = es[i + k]
  <2> HIDE DEF es, q
  <2>1. k \in Nat /\ k <= Len(es) /\ Len(es) - k \in Nat
    BY <1>1 DEF es
  <2>2. SubSeq(es, k + 1, Len(es)) \in Seq(BufferedEvent)
    BY <1>1, <2>1
  <2>3. Len(SubSeq(es, k + 1, Len(es))) = Len(es) - k
    BY <1>1, <2>1
  <2>4. \A i \in 1..(Len(es) - k) : SubSeq(es, k + 1, Len(es))[i] = es[i + k]
    BY <1>1, <2>1
  <2> QED
    BY <1>2, <2>2, <2>3, <2>4
<1>4. q \in ProjectRing
  BY <1>1, <1>2, <1>3 DEF ProjectRing
<1>5. ASSUME NEW h \in Seq(Nat), Tracks(r, h)
      PROVE  Tracks(q, h)
  <2>1. Len(h) \in Nat
    OBVIOUS
  <2>2. Len(es) <= Len(h) /\ (Len(es) < Len(h) => r.evicted)
    BY <1>5 DEF Tracks
  <2>4. Len(q.events) <= Len(h)
    BY <1>1, <1>3, <2>1, <2>2
  <2>5. ASSUME Len(q.events) < Len(h) PROVE q.evicted
    <3>1. r.evicted \/ k > 0
      BY <1>1, <1>3, <2>1, <2>2, <2>5
    <3> QED
      BY <1>2, <3>1
  <2>3. ASSUME NEW i \in 1..Len(q.events)
        PROVE  q.events[i].seq = h[i + (Len(h) - Len(q.events))]
    <3>1. i + k \in 1..Len(es)
      BY <1>1, <1>3
    <3>2. es[i + k].seq = h[(i + k) + (Len(h) - Len(es))]
      BY <1>5, <3>1 DEF Tracks
    <3>3. (i + k) + (Len(h) - Len(es)) = i + (Len(h) - Len(q.events))
      BY <1>1, <1>3, <2>1
    <3> QED
      BY <1>3, <3>2, <3>3
  <2> QED
    BY <1>2, <1>5, <2>3, <2>4, <2>5 DEF Tracks
<1> QED
  BY <1>3, <1>4, <1>5

LEMMA ExpireTracks ==
    ASSUME NEW r \in ProjectRing, NEW t \in Nat
    PROVE  /\ Expire(r, t) \in ProjectRing
           /\ Len(Expire(r, t).events) <= Len(r.events)
           /\ \A h \in Seq(Nat) : Tracks(r, h) => Tracks(Expire(r, t), h)
<1> DEFINE k == ExpiredPrefix(r.events, t)
<1>1. r.events \in Seq(BufferedEvent)
  BY DEF ProjectRing
<1>2. k \in 0..Len(r.events)
  BY <1>1, ExpiredPrefixInRange
<1> HIDE DEF k
<1>3. /\ PopFront(r, k) \in ProjectRing
      /\ Len(PopFront(r, k).events) = Len(r.events) - k
      /\ \A h \in Seq(Nat) : Tracks(r, h) => Tracks(PopFront(r, k), h)
  BY <1>2, PopFrontTracks
<1>4. Expire(r, t) = PopFront(r, k)
  BY DEF Expire, k
<1> QED
  BY <1>1, <1>2, <1>3, <1>4

(* Publishing extends the ring and the history by the same event.          *)
LEMMA PushTracks ==
    ASSUME NEW r \in ProjectRing, NEW s \in Nat, NEW t \in Nat
    PROVE  /\ Push(r, s, t) \in ProjectRing
           /\ Len(Push(r, s, t).events) = Len(r.events) + 1
           /\ \A h \in Seq(Nat) : Tracks(r, h) => Tracks(Push(r, s, t), Append(h, s))
<1> DEFINE e == [seq |-> s, published_at |-> t]
           q == Push(r, s, t)
<1>1. r.events \in Seq(BufferedEvent) /\ Len(r.events) \in Nat /\ r.latest_seq \in Nat /\ r.evicted \in BOOLEAN
  BY DEF ProjectRing
<1>2. e \in BufferedEvent /\ e.seq = s
  BY DEF BufferedEvent
<1>3. /\ q.events = Append(r.events, e)
      /\ q.latest_seq = Bump(r.latest_seq, s)
      /\ q.evicted = r.evicted
      /\ q = [events |-> q.events, latest_seq |-> q.latest_seq, evicted |-> q.evicted]
  BY <1>1 DEF Push, ProjectRing
<1>4. q.latest_seq \in Nat /\ q.latest_seq >= s /\ q.latest_seq >= r.latest_seq
  BY <1>1, <1>3 DEF Bump
<1> HIDE DEF e, q
<1>5. /\ q.events \in Seq(BufferedEvent)
      /\ Len(q.events) = Len(r.events) + 1
      /\ \A i \in 1..Len(r.events) : q.events[i] = r.events[i]
      /\ q.events[Len(r.events) + 1] = e
  BY <1>1, <1>2, <1>3
<1>6. q \in ProjectRing
  BY <1>1, <1>3, <1>4, <1>5 DEF ProjectRing
<1>7. ASSUME NEW h \in Seq(Nat), Tracks(r, h)
      PROVE  Tracks(q, Append(h, s))
  <2> DEFINE g == Append(h, s)
  <2>1. /\ g \in Seq(Nat) /\ Len(h) \in Nat /\ Len(g) = Len(h) + 1
        /\ \A i \in 1..Len(h) : g[i] = h[i] /\ h[i] \in Nat
        /\ g[Len(h) + 1] = s
    OBVIOUS
  <2> HIDE DEF g
  <2>2. Len(q.events) <= Len(g) /\ (Len(q.events) < Len(g) => q.evicted)
    BY <1>1, <1>3, <1>5, <1>7, <2>1 DEF Tracks
  <2>3. ASSUME NEW i \in 1..Len(q.events)
        PROVE  q.events[i].seq = g[i + (Len(g) - Len(q.events))]
    <3>1. Len(g) - Len(q.events) = Len(h) - Len(r.events)
      BY <1>1, <1>5, <2>1
    <3>2. CASE i = Len(r.events) + 1
      <4>1. (Len(r.events) + 1) + (Len(h) - Len(r.events)) = Len(h) + 1
        BY <1>1, <2>1, Offsets
      <4>2. i + (Len(g) - Len(q.events)) = Len(h) + 1
        BY <3>1, <3>2, <4>1
      <4> QED
        BY <1>2, <1>5, <2>1, <3>2, <4>2
    <3>3. CASE i # Len(r.events) + 1
      <4>1. i \in 1..Len(r.events)
        BY <1>1, <1>5, <3>3
      <4>2. r.events[i].seq = h[i + (Len(h) - Len(r.events))]
        BY <1>7, <4>1 DEF Tracks
      <4>3. i + (Len(h) - Len(r.events)) \in 1..Len(h)
        BY <1>1, <1>7, <2>1, <4>1 DEF Tracks
      <4> QED
        BY <1>5, <2>1, <3>1, <4>1, <4>2, <4>3
    <3> QED
      BY <3>2, <3>3
  <2>4. ASSUME NEW i \in 1..Len(g)
        PROVE  g[i] <= q.latest_seq
    <3>1. CASE i = Len(h) + 1
      BY <1>4, <2>1, <3>1
    <3>2. CASE i # Len(h) + 1
      <4>1. i \in 1..Len(h)
        BY <2>1, <3>2
      <4>2. h[i] <= r.latest_seq
        BY <1>7, <4>1 DEF Tracks
      <4> QED
        BY <1>1, <1>4, <2>1, <4>1, <4>2
    <3> QED
      BY <3>1, <3>2
  <2> QED
    BY <2>2, <2>3, <2>4 DEF Tracks, g
<1> QED
  BY <1>5, <1>6, <1>7 DEF q

(* ReplayBuffer::record keeps the ring within its capacity and tracking.   *)
LEMMA RecordTracks ==
    ASSUME NEW r \in ProjectRing, NEW s \in Nat, NEW t \in Nat
    PROVE  /\ Record(r, s, t) \in ProjectRing
           /\ Len(Record(r, s, t).events) <= RingCapacity
           /\ \A h \in Seq(Nat) : Tracks(r, h) => Tracks(Record(r, s, t), Append(h, s))
<1> DEFINE a == Expire(r, t)
           b == Push(a, s, t)
           k == IF Len(b.events) > RingCapacity THEN Len(b.events) - RingCapacity ELSE 0
<1>1. /\ a \in ProjectRing
      /\ \A h \in Seq(Nat) : Tracks(r, h) => Tracks(a, h)
  BY ExpireTracks
<1> HIDE DEF a
<1>2. /\ b \in ProjectRing
      /\ \A h \in Seq(Nat) : Tracks(a, h) => Tracks(b, Append(h, s))
  BY <1>1, PushTracks
<1> HIDE DEF b
<1>3. b.events \in Seq(BufferedEvent) /\ Len(b.events) \in Nat
  BY <1>2 DEF ProjectRing
<1>4. k \in 0..Len(b.events) /\ Len(b.events) - k <= RingCapacity
  BY <1>3, RingAssumption
<1> HIDE DEF k
<1>5. /\ PopFront(b, k) \in ProjectRing
      /\ Len(PopFront(b, k).events) = Len(b.events) - k
      /\ \A h \in Seq(Nat) : Tracks(b, h) => Tracks(PopFront(b, k), h)
  BY <1>2, <1>4, PopFrontTracks
<1>6. Record(r, s, t) = PopFront(b, k)
  BY DEF Record, Trim, a, b, k
<1>7. \A h \in Seq(Nat) : Append(h, s) \in Seq(Nat)
  OBVIOUS
<1> QED
  BY <1>1, <1>2, <1>4, <1>5, <1>6, <1>7

-----------------------------------------------------------------------------
LEMMA InitIInv == Init => IInv
<1> SUFFICES ASSUME Init PROVE IInv
  OBVIOUS
<1>1. EmptyRing \in ProjectRing /\ Tracks(EmptyRing, <<>>) /\ Len(EmptyRing.events) <= RingCapacity
  BY RingAssumption DEF EmptyRing, ProjectRing, Tracks
<1> QED
  BY <1>1 DEF Init, IInv, TypeOK

LEMMA NextIInv == IInv /\ [Next]_vars => IInv'
<1> SUFFICES ASSUME IInv, [Next]_vars PROVE IInv'
  OBVIOUS
<1> USE DEF IInv
<1>1. ASSUME NEW p \in Projects, Commit(p) PROVE IInv'
  <2>1. /\ owner' \in Seq(Projects) /\ Len(owner') = Len(owner) + 1 /\ Len(owner) \in Nat
        /\ pending' = pending \cup {Len(owner) + 1}
        /\ UNCHANGED <<now, ring, published>>
    BY <1>1 DEF Commit, TypeOK
  <2>2. pending \subseteq 1..Len(owner)
    BY DEF TypeOK, Seqs
  <2>3. pending' \subseteq 1..Len(owner')
    BY <2>1, <2>2, OneMoreTick
  <2>4. TypeOK'
    BY <2>1, <2>3 DEF TypeOK, Seqs
  <2> QED
    BY <2>1, <2>4
<1>2. ASSUME NEW s \in Seqs, CommitUnstamped(s) PROVE IInv'
  BY <1>2 DEF CommitUnstamped, TypeOK, Seqs
<1>3. ASSUME NEW s \in Seqs, Publish(s) PROVE IInv'
  <2> DEFINE p == owner[s]
  <2>1. p \in Projects /\ s \in Nat /\ now \in Nat /\ ring[p] \in ProjectRing
        /\ published[p] \in Seq(Nat)
    BY DEF TypeOK, Seqs
  <2> HIDE DEF p
  <2>2. /\ Record(ring[p], s, now) \in ProjectRing
        /\ Len(Record(ring[p], s, now).events) <= RingCapacity
        /\ Tracks(Record(ring[p], s, now), Append(published[p], s))
    BY <2>1, RecordTracks
  <2>3. /\ ring' = [ring EXCEPT ![p] = Record(ring[p], s, now)]
        /\ published' = [published EXCEPT ![p] = Append(published[p], s)]
        /\ pending' \subseteq pending
        /\ owner' = owner /\ now' = now
    BY <1>3 DEF Publish, p
  <2>4. TypeOK'
    BY <2>1, <2>2, <2>3 DEF TypeOK, Seqs
  <2>5. \A q \in Projects : Tracks(ring[q], published[q])'
    BY <2>1, <2>2, <2>3 DEF TypeOK
  <2>6. \A q \in Projects : Len(ring'[q].events) <= RingCapacity
    BY <2>1, <2>2, <2>3 DEF TypeOK
  <2> QED
    BY <2>4, <2>5, <2>6
<1>4. ASSUME NEW p \in Projects, Resume(p) PROVE IInv'
  <2>1. ring[p] \in ProjectRing /\ published[p] \in Seq(Nat) /\ now \in Nat
    BY DEF TypeOK
  <2>2. /\ Expire(ring[p], now) \in ProjectRing
        /\ Len(Expire(ring[p], now).events) <= Len(ring[p].events)
        /\ Tracks(Expire(ring[p], now), published[p])
    BY <2>1, ExpireTracks
  <2>3. Len(Expire(ring[p], now).events) <= RingCapacity
    BY <2>1, <2>2, RingAssumption DEF ProjectRing
  <2>4. /\ ring' = [ring EXCEPT ![p] = Expire(ring[p], now)]
        /\ UNCHANGED <<owner, pending, now, published>>
    BY <1>4 DEF Resume
  <2>5. TypeOK'
    BY <2>2, <2>4 DEF TypeOK, Seqs
  <2>6. \A q \in Projects : Tracks(ring[q], published[q])'
    BY <2>2, <2>4 DEF TypeOK
  <2>7. \A q \in Projects : Len(ring'[q].events) <= RingCapacity
    BY <2>3, <2>4 DEF TypeOK
  <2> QED
    BY <2>5, <2>6, <2>7
<1>5. CASE Tick
  BY <1>5 DEF Tick, TypeOK, Seqs
<1>6. CASE Restart
  <2>1. EmptyRing \in ProjectRing /\ Tracks(EmptyRing, <<>>) /\ Len(EmptyRing.events) <= RingCapacity
    BY RingAssumption DEF EmptyRing, ProjectRing, Tracks
  <2> QED
    BY <1>6, <2>1 DEF Restart, TypeOK, Seqs
<1>7. CASE UNCHANGED vars
  BY <1>7 DEF vars, TypeOK, Seqs
<1> QED
  BY <1>1, <1>2, <1>3, <1>4, <1>5, <1>6, <1>7 DEF Next

LEMMA InductiveInvariant == Spec => []IInv
  BY InitIInv, NextIInv, PTL DEF Spec

-----------------------------------------------------------------------------
(* Type correctness of the hub's replay state.                             *)
THEOREM TypeCorrect == Spec => []TypeOK
<1>1. IInv => TypeOK
  BY DEF IInv
<1> QED
  BY <1>1, InductiveInvariant, PTL

(* The ring never forgets that it forgot: it is the newest RingCapacity or *)
(* fewer events of the history, and `evicted` is set whenever it is not    *)
(* all of it, through every order of record, expire and restart.           *)
THEOREM RingSuffix == Spec => []RingIsSuffix
<1>1. IInv => RingIsSuffix
  <2> SUFFICES ASSUME IInv, NEW p \in Projects
               PROVE  LET es == ring[p].events
                          lost == Len(published[p]) - Len(es)
                      IN /\ Len(es) <= RingCapacity
                         /\ lost >= 0
                         /\ lost > 0 => ring[p].evicted
                         /\ \A i \in DOMAIN es : es[i].seq = published[p][i + lost]
    BY DEF RingIsSuffix
  <2>1. /\ ring[p].events \in Seq(BufferedEvent)
        /\ published[p] \in Seq(Nat)
        /\ Tracks(ring[p], published[p])
        /\ Len(ring[p].events) <= RingCapacity
    BY DEF IInv, TypeOK, ProjectRing
  <2>2. Len(ring[p].events) \in Nat /\ Len(published[p]) \in Nat
        /\ DOMAIN ring[p].events = 1..Len(ring[p].events)
    BY <2>1
  <2> DEFINE es == ring[p].events
             lost == Len(published[p]) - Len(es)
  <2>3. lost >= 0
    BY <2>1, <2>2 DEF Tracks
  <2>4. lost > 0 => ring[p].evicted
    <3>1. Len(es) < Len(published[p]) => ring[p].evicted
      BY <2>1 DEF Tracks
    <3>2. lost > 0 => Len(es) < Len(published[p])
      BY <2>2, Offsets
    <3> QED
      BY <3>1, <3>2
  <2>5. \A i \in DOMAIN es : es[i].seq = published[p][i + lost]
    BY <2>1, <2>2 DEF Tracks
  <2> QED
    BY <2>1, <2>3, <2>4, <2>5
<1> QED
  BY <1>1, InductiveInvariant, PTL

(* A ring that tracks an in-order history answers a resume completely.     *)
LEMMA InOrderAnswer ==
    ASSUME NEW r \in ProjectRing, NEW h \in Seq(Nat), NEW c \in Nat,
           Tracks(r, h), Covers(r, c),
           \A i, j \in DOMAIN h : i <= j => h[i] <= h[j],
           NEW n \in DOMAIN h, h[n] > c
    PROVE  h[n] \in Replayed(r, c)
<1> DEFINE lost == Len(h) - Len(r.events)
<1>1. /\ r.events \in Seq(BufferedEvent) /\ Len(r.events) \in Nat /\ Len(h) \in Nat
      /\ DOMAIN r.events = 1..Len(r.events) /\ DOMAIN h = 1..Len(h)
      /\ h[n] \in Nat /\ r.latest_seq \in Nat /\ lost \in Nat
      /\ (r.events # <<>>) <=> (Len(r.events) > 0)
  BY DEF ProjectRing, Tracks
<1>4. \A i \in 1..Len(r.events) : r.events[i].seq = h[i + lost]
  BY DEF Tracks
<1>5. Len(h) = Len(r.events) + lost
  BY <1>1
<1> HIDE DEF lost
<1>2. CASE n > lost
  <2>1. n - lost \in 1..Len(r.events) /\ (n - lost) + lost = n
    BY <1>1, <1>2, <1>5
  <2>2. r.events[n - lost].seq = h[n]
    BY <1>4, <2>1
  <2> QED
    BY <1>1, <2>1, <2>2 DEF Replayed
<1>3. CASE n <= lost
  <2>1. r.evicted
    BY <1>1, <1>3, <1>5 DEF Tracks
  <2>2. r.events # <<>>
    BY <1>1, <2>1 DEF Covers, Tracks
  <2>3. r.events[1].seq <= c + 1 /\ 1 \in DOMAIN r.events
    BY <1>1, <2>1, <2>2 DEF Covers
  <2>4. r.events[1].seq = h[1 + lost] /\ 1 + lost \in DOMAIN h
    BY <1>1, <1>4, <1>5, <2>3
  <2>7. n <= 1 + lost
    BY <1>1, <1>3
  <2>5. h[n] <= h[1 + lost] /\ h[1 + lost] \in Nat
    BY <2>4, <2>7
  <2>6. h[n] = r.events[1].seq
    BY <1>1, <2>3, <2>4, <2>5
  <2> QED
    BY <2>3, <2>6 DEF Replayed
<1> QED
  BY <1>1, <1>2, <1>3

(* The replay promise, for every capacity and age limit: when a project's  *)
(* handlers published in seq order, a resume that is not refused carries   *)
(* every event the process published past the client's cursor.            *)
THEOREM CompleteInOrder == Spec => []ReplayIsCompleteInOrder
<1>1. IInv => ReplayIsCompleteInOrder
  <2> SUFFICES ASSUME IInv, NEW p \in Projects, InPublishOrder(p),
                      NEW c \in 0..Len(owner)
               PROVE  Complete(p, c)
    BY DEF ReplayIsCompleteInOrder
  <2> DEFINE r == Expire(ring[p], now)
  <2>1. /\ ring[p] \in ProjectRing /\ published[p] \in Seq(Nat) /\ now \in Nat
        /\ Tracks(ring[p], published[p]) /\ c \in Nat
    BY DEF IInv, TypeOK
  <2>2. r \in ProjectRing /\ Tracks(r, published[p])
    BY <2>1, ExpireTracks
  <2> HIDE DEF r
  <2>3. ASSUME Covers(r, c), NEW n \in DOMAIN published[p], published[p][n] > c
        PROVE  published[p][n] \in Replayed(r, c)
    BY <2>1, <2>2, <2>3, InOrderAnswer DEF InPublishOrder
  <2>4. CASE Covers(r, c)
    <3>1. ResumeOutcome(p, c).replay = Replayed(r, c)
      BY <2>4 DEF ResumeOutcome, r
    <3>2. \A s \in Published(p) : s > c => s \in Replayed(r, c)
      BY <2>3, <2>4 DEF Published
    <3> QED
      BY <3>1, <3>2 DEF Complete
  <2>5. CASE ~Covers(r, c)
    BY <2>5 DEF Complete, ResumeOutcome, r
  <2> QED
    BY <2>4, <2>5
<1> QED
  BY <1>1, InductiveInvariant, PTL

(* latest_seq is a seq that was published, or the zero of a new ring.      *)
Attained(r, h) == r.latest_seq = 0 \/ \E i \in 1..Len(h) : h[i] = r.latest_seq

LEMMA RecordAttains ==
    ASSUME NEW r, NEW t, NEW s \in Nat, NEW h \in Seq(Nat), Attained(r, h)
    PROVE  Attained(Record(r, s, t), Append(h, s))
<1> DEFINE g == Append(h, s)
<1>1. Len(h) \in Nat /\ Len(g) = Len(h) + 1 /\ g[Len(h) + 1] = s /\ \A i \in 1..Len(h) : g[i] = h[i]
  OBVIOUS
<1> HIDE DEF g
<1>2. Record(r, s, t).latest_seq = Bump(r.latest_seq, s)
  BY DEF Record, Trim, PopFront, Push, Expire
<1>3. CASE Bump(r.latest_seq, s) = s
  BY <1>1, <1>2, <1>3 DEF Attained, g
<1>4. CASE Bump(r.latest_seq, s) = r.latest_seq
  BY <1>1, <1>2, <1>4 DEF Attained, g
<1> QED
  BY <1>3, <1>4 DEF Bump

LEMMA AttainedNext ==
    ASSUME IInv, \A p \in Projects : Attained(ring[p], published[p]), [Next]_vars
    PROVE  \A p \in Projects : Attained(ring[p], published[p])'
<1> SUFFICES ASSUME NEW q \in Projects PROVE Attained(ring[q], published[q])'
  OBVIOUS
<1>0. /\ Attained(ring[q], published[q]) /\ published[q] \in Seq(Nat)
      /\ ring \in [Projects -> ProjectRing] /\ published \in [Projects -> Seq(Nat)]
  BY DEF IInv, TypeOK
<1>1. CASE UNCHANGED <<ring, published>>
  BY <1>0, <1>1 DEF Attained
<1>2. ASSUME NEW s \in Seqs, Publish(s) PROVE Attained(ring[q], published[q])'
  <2>1. /\ ring' = [ring EXCEPT ![owner[s]] = Record(ring[owner[s]], s, now)]
        /\ published' = [published EXCEPT ![owner[s]] = Append(published[owner[s]], s)]
        /\ s \in Nat
    BY <1>2 DEF Publish, Seqs
  <2>2. CASE q = owner[s]
    <3>1. ring'[q] = Record(ring[q], s, now) /\ published'[q] = Append(published[q], s)
      BY <1>0, <2>1, <2>2
    <3>2. Attained(Record(ring[q], s, now), Append(published[q], s))
      BY <1>0, <2>1, RecordAttains
    <3> QED
      BY <3>1, <3>2 DEF Attained
  <2>3. CASE q # owner[s]
    BY <1>0, <2>1, <2>3 DEF Attained
  <2> QED
    BY <2>2, <2>3
<1>3. ASSUME NEW p \in Projects, Resume(p) PROVE Attained(ring[q], published[q])'
  <2>1. published' = published /\ ring'[q].latest_seq = ring[q].latest_seq
    BY <1>0, <1>3 DEF Resume, Expire, PopFront
  <2> QED
    BY <1>0, <2>1 DEF Attained
<1>4. CASE Restart
  BY <1>4 DEF Restart, EmptyRing, Attained
<1> QED
  BY <1>1, <1>2, <1>3, <1>4 DEF Next, Commit, CommitUnstamped, Tick, vars

(* What the answers below are read off: the ring after the expiry that a   *)
(* resume makes.                                                           *)
LEMMA AnswerRing ==
    ASSUME IInv, NEW p \in Projects
    PROVE  /\ Expire(ring[p], now) \in ProjectRing
           /\ Expire(ring[p], now).latest_seq = ring[p].latest_seq
           /\ Tracks(Expire(ring[p], now), published[p])
           /\ published[p] \in Seq(Nat)
<1>1. ring[p] \in ProjectRing /\ published[p] \in Seq(Nat) /\ now \in Nat /\ Tracks(ring[p], published[p])
  BY DEF IInv, TypeOK
<1>2. Expire(ring[p], now).latest_seq = ring[p].latest_seq
  BY DEF Expire, PopFront
<1> QED
  BY <1>1, <1>2, ExpireTracks

(* A drained ring answers completely whatever the order its project's      *)
(* handlers published in: what it lost is below latest_seq.                *)
THEOREM DrainedComplete == Spec => []DrainedRingIsComplete
<1>1. IInv => DrainedRingIsComplete
  <2> SUFFICES ASSUME IInv, NEW p \in Projects, Expire(ring[p], now).events = <<>>, NEW c \in 0..Len(owner)
               PROVE  Complete(p, c)
    BY DEF DrainedRingIsComplete
  <2> DEFINE r == Expire(ring[p], now)
             h == published[p]
  <2>1. r \in ProjectRing /\ Tracks(r, h) /\ h \in Seq(Nat)
    BY AnswerRing
  <2>2. r.events = <<>> /\ Len(r.events) = 0 /\ Len(h) \in Nat /\ DOMAIN h = 1..Len(h) /\ c \in Int /\ r.latest_seq \in Nat
    BY <2>1 DEF IInv, TypeOK, ProjectRing
  <2>3. Complete(p, c) <=> (~Covers(r, c) \/ \A s \in Published(p) : s > c => s \in Replayed(r, c))
    BY DEF Complete, ResumeOutcome
  <2> HIDE DEF r
  <2>4. ASSUME Covers(r, c), NEW i \in DOMAIN h PROVE ~(h[i] > c)
    <3>1. h[i] <= r.latest_seq /\ h[i] \in Nat
      BY <2>1, <2>2 DEF Tracks
    <3>2. r.evicted
      BY <2>1, <2>2 DEF Tracks
    <3>3. r.latest_seq <= c
      BY <2>2, <2>4, <3>2 DEF Covers
    <3> QED
      BY <2>2, <3>1, <3>3
  <2> QED
    BY <2>3, <2>4 DEF Published
<1> QED
  BY <1>1, InductiveInvariant, PTL

(* A client that has everything is answered with an empty replay, never    *)
(* sent to /changes: latest_seq is no higher than what was published.      *)
THEOREM CurrentClientStays == Spec => []CurrentClientIsNotSentAway
<1> DEFINE AllAttained == \A p \in Projects : Attained(ring[p], published[p])
<1>1. ASSUME Init PROVE AllAttained
  <2>1. EmptyRing.latest_seq = 0
    BY DEF EmptyRing
  <2>2. \A p \in Projects : ring[p] = EmptyRing
    BY <1>1 DEF Init
  <2> QED
    BY <2>1, <2>2 DEF Attained
<1>2. IInv /\ AllAttained /\ [Next]_vars => AllAttained'
  BY AttainedNext
<1>3. IInv /\ AllAttained => CurrentClientIsNotSentAway
  <2> SUFFICES ASSUME IInv, AllAttained, NEW p \in Projects, NEW c \in 0..Len(owner),
                      \A s \in Published(p) : s <= c
               PROVE  Covers(Expire(ring[p], now), c)
    BY DEF CurrentClientIsNotSentAway, ResumeOutcome
  <2> DEFINE r == Expire(ring[p], now)
             h == published[p]
  <2>1. r \in ProjectRing /\ Tracks(r, h) /\ h \in Seq(Nat) /\ Attained(r, h)
    BY AnswerRing DEF Attained
  <2>2. /\ Len(h) \in Nat /\ DOMAIN h = 1..Len(h) /\ c \in Nat
        /\ r.events \in Seq(BufferedEvent) /\ Len(r.events) \in Nat
        /\ (r.events # <<>>) <=> (Len(r.events) > 0)
    BY <2>1 DEF IInv, TypeOK, ProjectRing
  <2>3. \A i \in 1..Len(h) : h[i] \in Nat /\ h[i] <= c
    BY <2>1, <2>2 DEF Published
  <2> HIDE DEF r, h
  <2>4. CASE r.events # <<>>
    <3>1. 1 + (Len(h) - Len(r.events)) \in 1..Len(h) /\ 1 \in 1..Len(r.events)
      BY <2>1, <2>2, <2>4 DEF Tracks
    <3>2. r.events[1].seq = h[1 + (Len(h) - Len(r.events))]
      BY <2>1, <3>1 DEF Tracks
    <3>3. r.events[1].seq \in Nat /\ r.events[1].seq <= c
      BY <2>3, <3>1, <3>2
    <3>4. r.events[1].seq <= c + 1
      BY <2>2, <3>3
    <3> QED
      BY <2>4, <3>4 DEF Covers, r
  <2>5. CASE r.events = <<>>
    <3>1. r.latest_seq <= c
      BY <2>1, <2>2, <2>3 DEF Attained
    <3> QED
      BY <2>5, <3>1 DEF Covers, r
  <2> QED
    BY <2>4, <2>5
<1> QED
  BY <1>1, <1>2, <1>3, InductiveInvariant, PTL DEF Spec
=============================================================================
