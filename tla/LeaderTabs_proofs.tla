-------------------------- MODULE LeaderTabs_proofs ---------------------------
(***************************************************************************)
(* One connection per browser, no tab left behind while it stands, and no  *)
(* tab left without it, for any number of tabs.                            *)
(***************************************************************************)
EXTENDS LeaderTabs, SequenceTheorems, TLAPS

LockTyped ==
    /\ lock \in Tabs \cup {NoTab}
    /\ sock \in [Tabs -> {"none", "connecting", "open", "dead"}]

IInv == LockTyped /\ OneSocket

LEMMA InitIInv == Init => IInv
BY DEF Init, IInv, LockTyped, OneSocket

(* A socket is opened only by the holder of the lock, the lock is granted  *)
(* only when it is free, and every way of giving it up closes the socket.  *)
LEMMA IInvStep ==
    ASSUME IInv, [Next]_vars
    PROVE  IInv'
<1> USE TabsAssumption DEF IInv, LockTyped, OneSocket, browser
<1>1. CASE SessionEnds
  BY <1>1 DEF SessionEnds, Dying
<1>2. CASE SessionReplaced
  BY <1>2 DEF SessionReplaced, Dying
<1>3. CASE ServerDown
  BY <1>3 DEF ServerDown, Dying
<1>4. CASE ServerUp
  BY <1>4 DEF ServerUp
<1>5. CASE Change
  BY <1>5 DEF Change
<1>6. ASSUME NEW t \in Tabs, OpenTab(t) PROVE IInv'
  BY <1>6 DEF OpenTab, Connect
<1>7. ASSUME NEW t \in Tabs, CloseTab(t) PROVE IInv'
  BY <1>7 DEF CloseTab, LetGo, ReleaseLock
<1>8. ASSUME NEW t \in Tabs, Login(t) PROVE IInv'
  BY <1>8 DEF Login, Connect
<1>9. ASSUME NEW t \in Tabs, Logout(t) PROVE IInv'
  BY <1>9 DEF Logout, LetGo, ReleaseLock, Dying
<1>10. ASSUME NEW t \in Tabs, Navigate(t) PROVE IInv'
  BY <1>10 DEF Navigate, Connect, Disconnect, TeardownSocket, LetGo, ReleaseLock
<1>11. ASSUME NEW t \in Tabs, TimerFires(t) PROVE IInv'
  BY <1>11 DEF TimerFires, Connect, Disconnect, TeardownSocket, LetGo, ReleaseLock
<1>12. ASSUME NEW t \in Tabs, BecomeLeader(t) PROVE IInv'
  BY <1>12 DEF BecomeLeader
<1>13. ASSUME NEW t \in Tabs, SocketOpens(t) PROVE IInv'
  BY <1>13 DEF SocketOpens
<1>14. ASSUME NEW t \in Tabs, SocketFails(t) PROVE IInv'
  BY <1>14 DEF SocketFails
<1>15. ASSUME NEW t \in Tabs, SocketCloses(t) PROVE IInv'
  BY <1>15 DEF SocketCloses
<1>16. ASSUME NEW t \in Tabs, ProbeSettles(t) PROVE IInv'
  BY <1>16 DEF ProbeSettles, Disconnect, TeardownSocket, LetGo, ReleaseLock
<1>17. ASSUME NEW t \in Tabs, SocketMessage(t) PROVE IInv'
  BY <1>17 DEF SocketMessage
<1>18. ASSUME NEW t \in Tabs, LeaderHears(t) PROVE IInv'
  BY <1>18 DEF LeaderHears
<1>19. ASSUME NEW t \in Tabs, FollowerHearsEvent(t) PROVE IInv'
  BY <1>19 DEF FollowerHearsEvent
<1>20. ASSUME NEW t \in Tabs, FollowerHearsOpen(t) PROVE IInv'
  BY <1>20 DEF FollowerHearsOpen
<1>21. ASSUME NEW t \in Tabs, FollowerHearsClose(t) PROVE IInv'
  BY <1>21 DEF FollowerHearsClose
<1>22. ASSUME NEW t \in Tabs, FollowerIgnoresHello(t) PROVE IInv'
  BY <1>22 DEF FollowerIgnoresHello
<1>23. CASE UNCHANGED vars
  BY <1>23 DEF vars
<1>24. QED
  BY <1>1, <1>2, <1>3, <1>4, <1>5, <1>6, <1>7, <1>8, <1>9, <1>10, <1>11, <1>12, <1>13, <1>14, <1>15, <1>16, <1>17, <1>18, <1>19, <1>20, <1>21, <1>22, <1>23 DEF Next, Browser

(* leader.ts: however tabs open, die, sign out and take over, at most the  *)
(* holder of the lock has a socket.                                        *)
THEOREM OneSocketPerBrowser == Spec => []OneSocket
<1>1. IInv => OneSocket
  BY DEF IInv
<1>2. QED
  BY InitIInv, IInvStep, <1>1, PTL DEF Spec
-----------------------------------------------------------------------------
(* The inductive invariant behind TabsCatchUp.                             *)
Distinct(q) == \A i, j \in 1..Len(q) : q[i] = q[j] => i = j

(* A request for the lock is of a tab that wants a connection, one per tab.*)
Queued == Distinct(waiting) /\ \A i \in 1..Len(waiting) : waiting[i] \in desired

(* Nothing is sent to a tab that does not listen.                          *)
Listening == \A t \in Tabs : t \notin desired => inbox[t] = <<>>

(* A socket is up only while the server would answer its tab.              *)
Online == \A t \in Tabs : sock[t] = "open" => server = "up" /\ token = "valid"

(* A tab that was told of a connection is still told so, or knows it lost  *)
(* something.                                                              *)
Aware ==
    \A t \in met :
        IF lock = t
        THEN sock[t] \in {"open", "dead"} \/ t \in needsResync
        ELSE t \in followerOpen \cup needsResync

(* What is still on its way to a tab that has not caught up.               *)
Behind(t) == t \notin lists \/ t \in missed
Coming(t) ==
    \/ lock = t /\ t \in wire
    \/ lock # t /\ wire # {}
    \/ lock # t /\ Contains(inbox[t], "event")
    \/ lock # t /\ Contains(inbox[t], "open")
    \/ lock # t /\ Contains(inbox[lock], "hello")

Excuses ==
    lock # NoTab /\ sock[lock] = "open" =>
        \A t \in desired : Behind(t) => Coming(t)

LInv == TypeOK /\ Queued /\ Listening /\ OneSocket /\ Online /\ Aware /\ Excuses

-----------------------------------------------------------------------------
(* Sequences: the queue of the lock and the inboxes.                       *)
LEMMA ArrivesIn ==
    ASSUME NEW S, NEW q \in Seq(S), NEW k \in S
    PROVE  /\ Append(q, k) \in Seq(S)
           /\ Contains(Append(q, k), k)
           /\ \A e : Contains(q, e) => Contains(Append(q, k), e)
<1>1. /\ Append(q, k) \in Seq(S) /\ Len(Append(q, k)) = Len(q) + 1
      /\ \A i \in 1..Len(q) : Append(q, k)[i] = q[i]
      /\ Append(q, k)[Len(q) + 1] = k
  OBVIOUS
<1>2. Len(q) \in Nat
  OBVIOUS
<1>3. QED
  BY <1>1, <1>2 DEF Contains

LEMMA LeavesFrom ==
    ASSUME NEW S, NEW q \in Seq(S), q # <<>>, NEW e, Contains(q, e), Head(q) # e
    PROVE  Contains(Tail(q), e)
<1>1. PICK i \in 1..Len(q) : q[i] = e
  BY DEF Contains
<1>2. i # 1
  BY <1>1
<1>3. /\ Len(Tail(q)) = Len(q) - 1
      /\ \A j \in 1..Len(Tail(q)) : Tail(q)[j] = q[j + 1]
  BY HeadTailProperties
<1>4. i - 1 \in 1..Len(Tail(q)) /\ Tail(q)[i - 1] = e
  BY <1>1, <1>2, <1>3
<1>5. QED
  BY <1>4 DEF Contains

(* What is left when one request is taken out.                             *)
LEMMA Removed ==
    ASSUME NEW S, NEW q \in Seq(S), NEW i \in 1..Len(q)
    PROVE  /\ RemoveAt(q, i) \in Seq(S)
           /\ Len(RemoveAt(q, i)) = Len(q) - 1
           /\ \A j \in 1..(Len(q) - 1) : RemoveAt(q, i)[j] = IF j < i THEN q[j] ELSE q[j + 1]
<1> DEFINE a == SubSeq(q, 1, i - 1)
           b == SubSeq(q, i + 1, Len(q))
<1>1. /\ a \in Seq(S) /\ Len(a) = i - 1
      /\ \A j \in 1..(i - 1) : a[j] = q[j]
  <2>1. \A j \in 1..(i - 1) : q[j] \in S
    OBVIOUS
  <2>2. QED
    BY <2>1, SubSeqProperties, Z3
<1>2. /\ b \in Seq(S) /\ Len(b) = Len(q) - i
      /\ \A j \in 1..(Len(q) - i) : b[j] = q[i + j]
  <2>1. \A j \in (i + 1)..Len(q) : q[j] \in S
    OBVIOUS
  <2>2. /\ b \in Seq(S)
        /\ Len(b) = IF i + 1 <= Len(q) THEN Len(q) - (i + 1) + 1 ELSE 0
        /\ \A j \in 1..(Len(q) - (i + 1) + 1) : b[j] = q[(i + 1) + j - 1]
    BY <2>1, SubSeqProperties, Z3
  <2>3. QED
    BY <2>2
<1> HIDE DEF a, b
<1>3. /\ a \o b \in Seq(S) /\ Len(a \o b) = Len(a) + Len(b)
      /\ \A j \in 1..(Len(a) + Len(b)) : (a \o b)[j] = IF j <= Len(a) THEN a[j] ELSE b[j - Len(a)]
  BY <1>1, <1>2, ConcatProperties
<1>4. RemoveAt(q, i) = a \o b
  BY DEF RemoveAt, a, b
<1>5. ASSUME NEW j \in 1..(Len(q) - 1)
      PROVE  (a \o b)[j] = IF j < i THEN q[j] ELSE q[j + 1]
  <2>1. CASE j < i
    BY <2>1, <1>1, <1>2, <1>3
  <2>2. CASE j >= i
    <3>1. (a \o b)[j] = b[j - (i - 1)]
      BY <2>2, <1>1, <1>2, <1>3
    <3>2. b[j - (i - 1)] = q[i + (j - (i - 1))]
      BY <2>2, <1>2
    <3>3. QED
      BY <2>2, <3>1, <3>2
  <2>3. j < i \/ j >= i
    OBVIOUS
  <2>4. QED
    BY <2>1, <2>2, <2>3
<1>6. Len(q) \in Nat /\ Len(a \o b) = Len(q) - 1
  BY <1>1, <1>2, <1>3
<1>7. QED
  BY <1>3, <1>4, <1>5, <1>6

InboxTyped == inbox \in [Tabs -> Seq(Messages)]

LEMMA PostedFacts ==
    ASSUME InboxTyped, NEW from, NEW k \in Messages
    PROVE  /\ Posted(from, k) \in [Tabs -> Seq(Messages)]
           /\ \A u \in Tabs : u \notin desired => Posted(from, k)[u] = inbox[u]
           /\ \A u \in Tabs : u \in desired /\ u # from => Contains(Posted(from, k)[u], k)
           /\ \A u \in Tabs : \A e : Contains(inbox[u], e) => Contains(Posted(from, k)[u], e)
<1>1. ASSUME NEW u \in Tabs
      PROVE  /\ Append(inbox[u], k) \in Seq(Messages)
             /\ Contains(Append(inbox[u], k), k)
             /\ \A e : Contains(inbox[u], e) => Contains(Append(inbox[u], k), e)
  <2>1. inbox[u] \in Seq(Messages)
    BY DEF InboxTyped
  <2>2. QED
    BY <2>1, ArrivesIn
<1>2. ASSUME NEW u \in Tabs
      PROVE  Posted(from, k)[u] = IF u \in desired \ {from} THEN Append(inbox[u], k) ELSE inbox[u]
  BY DEF Posted
<1>3. Posted(from, k) \in [Tabs -> Seq(Messages)]
  BY <1>1 DEF Posted, InboxTyped
<1>4. ASSUME NEW u \in Tabs, u \in desired, u # from
      PROVE  Contains(Posted(from, k)[u], k)
  BY <1>1, <1>2, <1>4
<1>5. ASSUME NEW u \in Tabs, NEW e, Contains(inbox[u], e)
      PROVE  Contains(Posted(from, k)[u], e)
  BY <1>1, <1>2, <1>5
<1>6. QED
  BY <1>2, <1>3, <1>4, <1>5

LEMMA TakenFacts ==
    ASSUME InboxTyped, NEW t \in Tabs, inbox[t] # <<>>
    PROVE  /\ Tail(inbox[t]) \in Seq(Messages)
           /\ Taken(t) \in [Tabs -> Seq(Messages)]
           /\ \A u \in Tabs : u # t => Taken(t)[u] = inbox[u]
           /\ Taken(t)[t] = Tail(inbox[t])
           /\ \A e : Contains(inbox[t], e) /\ Heard(t) # e => Contains(Tail(inbox[t]), e)
<1>1. inbox[t] \in Seq(Messages)
  BY DEF InboxTyped
<1>2. Tail(inbox[t]) \in Seq(Messages)
  BY <1>1
<1>3. \A e : Contains(inbox[t], e) /\ Heard(t) # e => Contains(Tail(inbox[t]), e)
  BY <1>1, LeavesFrom DEF Heard
<1>4. QED
  BY <1>2, <1>3 DEF Taken, InboxTyped

-----------------------------------------------------------------------------
(* The types, and one request per tab.                                     *)
LockSide ==
    /\ lock \in desired \cup {NoTab} /\ desired \subseteq Tabs
    /\ waiting \in Seq(Tabs) /\ Queued
    /\ followerOpen \subseteq desired

Sockets ==
    /\ sock \in [Tabs -> {"none", "connecting", "open", "dead"}]
    /\ wire \subseteq {t \in Tabs : sock[t] = "open"}
    /\ InboxTyped

AppSide ==
    /\ needsResync \subseteq Tabs /\ timer \subseteq Tabs
    /\ probe \in [Tabs -> {"idle", "none", "token", "old"}]
    /\ lists \subseteq Tabs
    /\ met \subseteq desired /\ missed \subseteq met

World ==
    /\ page \in [Tabs -> {"closed", "login", "app"}]
    /\ token \in {"none", "valid", "ended"}
    /\ server \in {"up", "down"}
    /\ trouble \in 0..MaxTrouble
    /\ signedOut \in BOOLEAN

LEMMA TypeOKParts == TypeOK /\ Queued <=> World /\ LockSide /\ Sockets /\ AppSide
BY DEF TypeOK, World, LockSide, Sockets, AppSide, InboxTyped

LEMMA WithdrawFacts ==
    ASSUME LockSide, NEW t \in Tabs, Withdraw(t), desired' = desired \ {t}
    PROVE  waiting' \in Seq(Tabs) /\ Queued'
<1>1. CASE ~Contains(waiting, t)
  <2>1. waiting' = waiting
    BY <1>1 DEF Withdraw
  <2>2. \A i \in 1..Len(waiting) : waiting[i] # t
    BY <1>1 DEF Contains
  <2>3. QED
    BY <2>1, <2>2 DEF LockSide, Queued, Distinct
<1>2. CASE Contains(waiting, t)
  <2>1. PICK i \in 1..Len(waiting) : waiting[i] = t /\ waiting' = RemoveAt(waiting, i)
    BY <1>2 DEF Withdraw, LockSide
  <2>2. /\ waiting' \in Seq(Tabs)
        /\ Len(waiting') = Len(waiting) - 1
        /\ \A j \in 1..(Len(waiting) - 1) :
              waiting'[j] = IF j < i THEN waiting[j] ELSE waiting[j + 1]
    BY <2>1, Removed DEF LockSide
  <2>3. Len(waiting) \in Nat
    BY DEF LockSide
  <2>4. ASSUME NEW j \in 1..Len(waiting')
        PROVE  waiting'[j] \in desired'
    <3>1. PICK k \in 1..Len(waiting) : k # i /\ waiting'[j] = waiting[k]
      <4>1. CASE j < i
        BY <4>1, <2>2, <2>3
      <4>2. CASE ~(j < i)
        BY <4>2, <2>2, <2>3
      <4>3. QED
        BY <4>1, <4>2
    <3>2. waiting[k] # waiting[i] /\ waiting[k] \in desired
      BY <3>1 DEF LockSide, Queued, Distinct
    <3>3. QED
      BY <2>1, <3>1, <3>2
  <2>5. ASSUME NEW j \in 1..Len(waiting'), NEW k \in 1..Len(waiting'), waiting'[j] = waiting'[k]
        PROVE  j = k
    <3>1. \A a, b \in 1..Len(waiting) : waiting[a] = waiting[b] => a = b
      BY DEF LockSide, Queued, Distinct
    <3>2. j \in 1..(Len(waiting) - 1) /\ k \in 1..(Len(waiting) - 1)
      BY <2>2
    <3>3. CASE j < i /\ k < i
      BY <3>1, <3>2, <3>3, <2>2, <2>3, <2>5
    <3>4. CASE j < i /\ ~(k < i)
      <4>1. waiting[j] = waiting[k + 1]
        BY <3>2, <3>4, <2>2, <2>5
      <4>2. j = k + 1
        BY <3>1, <3>2, <4>1, <2>3
      <4>3. QED
        BY <3>4, <4>2, <3>2, <2>3
    <3>5. CASE ~(j < i) /\ k < i
      <4>1. waiting[j + 1] = waiting[k]
        BY <3>2, <3>5, <2>2, <2>5
      <4>2. j + 1 = k
        BY <3>1, <3>2, <4>1, <2>3
      <4>3. QED
        BY <3>5, <4>2, <3>2, <2>3
    <3>6. CASE ~(j < i) /\ ~(k < i)
      <4>1. waiting[j + 1] = waiting[k + 1]
        BY <3>2, <3>6, <2>2, <2>5
      <4>2. j + 1 = k + 1
        BY <3>1, <3>2, <4>1, <2>3
      <4>3. QED
        BY <4>2, <3>2, <2>3
    <3>7. QED
      BY <3>3, <3>4, <3>5, <3>6
  <2>6. QED
    BY <2>2, <2>4, <2>5 DEF Queued, Distinct
<1>3. QED
  BY <1>1, <1>2

LEMMA LetGoFacts ==
    ASSUME LockSide, AppSide, NEW t \in Tabs, LetGo(t)
    PROVE  /\ LockSide'
           /\ needsResync' \subseteq Tabs /\ timer' \subseteq Tabs
           /\ met' \subseteq desired' /\ missed' \subseteq met'
<1>1. waiting' \in Seq(Tabs) /\ Queued'
  BY WithdrawFacts DEF LetGo
<1>2. lock' \in desired' \cup {NoTab} /\ desired' \subseteq Tabs /\ followerOpen' \subseteq desired'
  BY DEF LetGo, ReleaseLock, LockSide
<1>3. needsResync' \subseteq Tabs /\ timer' \subseteq Tabs /\ met' \subseteq desired' /\ missed' \subseteq met'
  BY DEF LetGo, AppSide
<1>4. QED
  BY <1>1, <1>2, <1>3 DEF LockSide

LEMMA ConnectFacts ==
    ASSUME LockSide, Sockets, NEW t \in Tabs, Connect(t)
    PROVE  LockSide' /\ Sockets' /\ desired \subseteq desired'
<1>1. /\ lock' = lock /\ wire' = wire /\ followerOpen' = followerOpen
      /\ desired' = desired \cup {t}
  BY DEF Connect
<1>2. waiting' \in Seq(Tabs) /\ Queued'
  <2>1. CASE lock = t \/ Contains(waiting, t)
    BY <2>1, <1>1 DEF Connect, LockSide, Queued
  <2>2. CASE ~(lock = t \/ Contains(waiting, t))
    <3>1. waiting' = Append(waiting, t) /\ waiting \in Seq(Tabs)
      BY <2>2 DEF Connect, LockSide
    <3>2. \A i \in 1..Len(waiting) : waiting[i] # t
      BY <2>2 DEF Contains
    <3>3. QED
      BY <3>1, <3>2, <1>1 DEF LockSide, Queued, Distinct
  <2>3. QED
    BY <2>1, <2>2
<1>3. LockSide'
  BY <1>1, <1>2 DEF LockSide
<1>4. sock' \in [Tabs -> {"none", "connecting", "open", "dead"}] /\ wire' \subseteq {u \in Tabs : sock'[u] = "open"}
  BY <1>1 DEF Connect, Sockets
<1>5. InboxTyped'
  <2>1. Posted(t, "hello") \in [Tabs -> Seq(Messages)]
    BY PostedFacts DEF Sockets, Messages
  <2>2. QED
    BY <2>1 DEF Connect, Sockets, InboxTyped
<1>6. QED
  BY <1>1, <1>3, <1>4, <1>5 DEF Sockets

(* Closing the inbox of a tab, with or without a word to the others.       *)
LEMMA HungUp ==
    ASSUME InboxTyped, NEW t \in Tabs,
           inbox' = [(IF Readable(t) THEN Posted(t, "close") ELSE inbox) EXCEPT ![t] = <<>>]
    PROVE  /\ InboxTyped'
           /\ \A u \in Tabs : \A e : u # t /\ Contains(inbox[u], e) => Contains(inbox'[u], e)
<1>1. /\ Posted(t, "close") \in [Tabs -> Seq(Messages)]
      /\ \A u \in Tabs : \A e : Contains(inbox[u], e) => Contains(Posted(t, "close")[u], e)
  BY PostedFacts DEF Messages
<1>2. CASE Readable(t)
  BY <1>1, <1>2 DEF InboxTyped
<1>3. CASE ~Readable(t)
  BY <1>3 DEF InboxTyped
<1>4. QED
  BY <1>2, <1>3

LEMMA DisconnectFacts ==
    ASSUME LockSide, Sockets, AppSide, NEW t \in Tabs, Disconnect(t)
    PROVE  /\ LockSide' /\ Sockets'
           /\ needsResync' \subseteq Tabs /\ timer' \subseteq Tabs
           /\ met' \subseteq desired' /\ missed' \subseteq met'
<1>1. LetGo(t) /\ TeardownSocket(t)
  BY DEF Disconnect
<1>2. LockSide' /\ needsResync' \subseteq Tabs /\ timer' \subseteq Tabs
      /\ met' \subseteq desired' /\ missed' \subseteq met'
  BY <1>1, LetGoFacts
<1>3. InboxTyped'
  BY HungUp DEF Disconnect, Sockets
<1>4. sock' \in [Tabs -> {"none", "connecting", "open", "dead"}] /\ wire' \subseteq {u \in Tabs : sock'[u] = "open"}
  BY <1>1 DEF TeardownSocket, Sockets
<1>5. QED
  BY <1>2, <1>3, <1>4 DEF Sockets

Typed == World /\ LockSide /\ Sockets /\ AppSide

LEMMA DyingTyped ==
    ASSUME Sockets
    PROVE  /\ Dying \in [Tabs -> {"none", "connecting", "open", "dead"}]
           /\ \A t \in Tabs : Dying[t] # "open"
BY DEF Dying, Sockets

LEMMA OutdatedTyped ==
    ASSUME AppSide
    PROVE  Outdated \in [Tabs -> {"idle", "none", "token", "old"}]
BY DEF Outdated, AppSide

LEMMA TypedStep ==
    ASSUME Typed, Listening, OneSocket, [Next]_vars
    PROVE  Typed'
<1> USE TabsAssumption DEF Typed
<1>1. CASE SessionEnds
  <2>1. World'
    BY <1>1 DEF SessionEnds, World
  <2>2. LockSide' /\ AppSide'
    BY <1>1 DEF SessionEnds, LockSide, AppSide, Queued, app, shown
  <2>3. Sockets'
    BY <1>1, DyingTyped DEF SessionEnds, Sockets, InboxTyped
  <2>4. QED
    BY <2>1, <2>2, <2>3
<1>2. CASE SessionReplaced
  <2>1. World'
    BY <1>2 DEF SessionReplaced, World
  <2>2. LockSide' /\ AppSide'
    BY <1>2, OutdatedTyped DEF SessionReplaced, LockSide, AppSide, Queued, shown
  <2>3. Sockets'
    BY <1>2, DyingTyped DEF SessionReplaced, Sockets, InboxTyped
  <2>4. QED
    BY <2>1, <2>2, <2>3
<1>3. CASE ServerDown
  <2>1. World'
    BY <1>3 DEF ServerDown, World
  <2>2. LockSide' /\ AppSide'
    BY <1>3 DEF ServerDown, LockSide, AppSide, Queued, app, shown
  <2>3. Sockets'
    BY <1>3, DyingTyped DEF ServerDown, Sockets, InboxTyped
  <2>4. QED
    BY <2>1, <2>2, <2>3
<1>4. CASE ServerUp
  <2>1. World'
    BY <1>4 DEF ServerUp, World
  <2>2. LockSide' /\ AppSide' /\ Sockets'
    BY <1>4 DEF ServerUp, LockSide, AppSide, Sockets, InboxTyped, Queued, browser, app, shown
  <2>3. QED
    BY <2>1, <2>2
<1>5. CASE Change
  <2>1. World'
    BY <1>5 DEF Change, World
  <2>2. LockSide' /\ AppSide' /\ Sockets'
    BY <1>5 DEF Change, LockSide, AppSide, Sockets, InboxTyped, Queued, app
  <2>3. QED
    BY <2>1, <2>2
<1>6. ASSUME NEW t \in Tabs, OpenTab(t) PROVE Typed'
  <2>1. CASE token = "valid"
    <3>1. Connect(t) /\ UNCHANGED <<token, app, met, missed>> /\ lists' = lists \cup {t}
      BY <1>6, <2>1 DEF OpenTab
    <3>2. LockSide' /\ Sockets' /\ desired \subseteq desired'
      BY <3>1, ConnectFacts
    <3>3. AppSide'
      BY <3>1, <3>2 DEF AppSide, app
    <3>4. World'
      BY <1>6, <2>1, <3>1 DEF OpenTab, World
    <3>5. QED
      BY <3>2, <3>3, <3>4
  <2>2. CASE token # "valid"
    <3>1. World'
      BY <1>6, <2>2 DEF OpenTab, World
    <3>2. LockSide' /\ AppSide' /\ Sockets'
      BY <1>6, <2>2, OutdatedTyped DEF OpenTab, LockSide, AppSide, Sockets, InboxTyped, Queued, browser, shown
    <3>3. QED
      BY <3>1, <3>2
  <2>3. QED
    BY <2>1, <2>2
<1>7. ASSUME NEW t \in Tabs, CloseTab(t) PROVE Typed'
  <2>1. /\ LockSide' /\ needsResync' \subseteq Tabs /\ timer' \subseteq Tabs
        /\ met' \subseteq desired' /\ missed' \subseteq met'
    BY <1>7, LetGoFacts DEF CloseTab
  <2>2. AppSide'
    BY <1>7, <2>1 DEF CloseTab, AppSide
  <2>3. Sockets'
    BY <1>7 DEF CloseTab, Sockets, InboxTyped
  <2>4. World'
    BY <1>7 DEF CloseTab, World
  <2>5. QED
    BY <2>1, <2>2, <2>3, <2>4
<1>8. ASSUME NEW t \in Tabs, Login(t) PROVE Typed'
  <2>1. LockSide' /\ Sockets' /\ desired \subseteq desired'
    BY <1>8, ConnectFacts DEF Login
  <2>2. AppSide'
    BY <1>8, <2>1, OutdatedTyped DEF Login, AppSide
  <2>3. World'
    BY <1>8 DEF Login, World
  <2>4. QED
    BY <2>1, <2>2, <2>3
<1>9. ASSUME NEW t \in Tabs, Logout(t) PROVE Typed'
  <2>1. /\ LockSide' /\ needsResync' \subseteq Tabs /\ timer' \subseteq Tabs
        /\ met' \subseteq desired' /\ missed' \subseteq met'
    BY <1>9, LetGoFacts DEF Logout
  <2>2. AppSide'
    BY <1>9, <2>1, OutdatedTyped DEF Logout, AppSide
  <2>3. InboxTyped'
    BY <1>9, HungUp DEF Logout, Sockets
  <2>4. Sockets'
    BY <1>9, <2>3, DyingTyped DEF Logout, Sockets
  <2>5. World'
    BY <1>9 DEF Logout, World
  <2>6. QED
    BY <2>1, <2>2, <2>4, <2>5
<1>10. ASSUME NEW t \in Tabs, Navigate(t) PROVE Typed'
  <2>1. World'
    BY <1>10 DEF Navigate, World
  <2>2. CASE token = "none"
    <3>1. Disconnect(t)
      BY <1>10, <2>2 DEF Navigate
    <3>2. /\ LockSide' /\ Sockets' /\ needsResync' \subseteq Tabs /\ timer' \subseteq Tabs
          /\ met' \subseteq desired' /\ missed' \subseteq met'
      BY <3>1, DisconnectFacts
    <3>3. AppSide'
      BY <1>10, <3>2 DEF Navigate, AppSide
    <3>4. QED
      BY <2>1, <3>2, <3>3
  <2>3. CASE token # "none"
    <3>1. Connect(t) /\ UNCHANGED <<needsResync, timer, met, missed>>
      BY <1>10, <2>3 DEF Navigate
    <3>2. LockSide' /\ Sockets' /\ desired \subseteq desired'
      BY <3>1, ConnectFacts
    <3>3. AppSide'
      BY <1>10, <3>1, <3>2 DEF Navigate, AppSide
    <3>4. QED
      BY <2>1, <3>2, <3>3
  <2>4. QED
    BY <2>2, <2>3
<1>11. ASSUME NEW t \in Tabs, TimerFires(t) PROVE Typed'
  <2>1. World'
    BY <1>11 DEF TimerFires, World
  <2>2. CASE token = "none"
    <3>1. Disconnect(t)
      BY <1>11, <2>2 DEF TimerFires
    <3>2. /\ LockSide' /\ Sockets' /\ needsResync' \subseteq Tabs /\ timer' \subseteq Tabs
          /\ met' \subseteq desired' /\ missed' \subseteq met'
      BY <3>1, DisconnectFacts
    <3>3. AppSide'
      BY <1>11, <3>2 DEF TimerFires, AppSide
    <3>4. QED
      BY <2>1, <3>2, <3>3
  <2>3. CASE token # "none"
    <3>1. Connect(t) /\ timer' = timer \ {t} /\ UNCHANGED <<needsResync, met, missed>>
      BY <1>11, <2>3 DEF TimerFires
    <3>2. LockSide' /\ Sockets' /\ desired \subseteq desired'
      BY <3>1, ConnectFacts
    <3>3. AppSide'
      BY <1>11, <3>1, <3>2 DEF TimerFires, AppSide
    <3>4. QED
      BY <2>1, <3>2, <3>3
  <2>4. QED
    BY <2>2, <2>3
<1>12. ASSUME NEW t \in Tabs, BecomeLeader(t) PROVE Typed'
  <2>1. World' /\ AppSide'
    BY <1>12 DEF BecomeLeader, ReportsLoss, World, AppSide, shown
  <2>2. Sockets'
    <3>1. sock[t] = "none"
      BY <1>12 DEF BecomeLeader, OneSocket, Sockets
    <3>2. QED
      BY <1>12, <3>1 DEF BecomeLeader, Sockets, InboxTyped
  <2>3. LockSide'
    <3>1. /\ waiting # <<>> /\ waiting \in Seq(Tabs) /\ waiting' = Tail(waiting)
          /\ t = waiting[1] /\ Len(waiting) \in Nat /\ Len(waiting) >= 1
      BY <1>12 DEF BecomeLeader, LockSide
    <3>2. /\ Tail(waiting) \in Seq(Tabs) /\ Len(Tail(waiting)) = Len(waiting) - 1
          /\ \A i \in 1..Len(Tail(waiting)) : Tail(waiting)[i] = waiting[i + 1]
      BY <3>1, HeadTailProperties
    <3>3. \A i \in 1..Len(Tail(waiting)) : i + 1 \in 1..Len(waiting)
      BY <3>1, <3>2
    <3>4. Distinct(Tail(waiting))
      <4>1. ASSUME NEW i \in 1..Len(Tail(waiting)), NEW j \in 1..Len(Tail(waiting)),
                   Tail(waiting)[i] = Tail(waiting)[j]
            PROVE  i = j
        <5>1. waiting[i + 1] = waiting[j + 1]
          BY <3>2, <4>1
        <5>2. i + 1 = j + 1
          BY <3>3, <5>1 DEF LockSide, Queued, Distinct
        <5>3. QED
          BY <5>2
      <4>2. QED
        BY <4>1 DEF Distinct
    <3>5. \A i \in 1..Len(Tail(waiting)) : Tail(waiting)[i] \in desired
      BY <3>2, <3>3 DEF LockSide, Queued
    <3>6. t \in desired
      BY <3>1 DEF LockSide, Queued
    <3>7. QED
      BY <1>12, <3>1, <3>2, <3>4, <3>5, <3>6 DEF BecomeLeader, ReportsLoss, LockSide, Queued
  <2>4. QED
    BY <2>1, <2>2, <2>3
<1>13. ASSUME NEW t \in Tabs, SocketOpens(t) PROVE Typed'
  <2>1. World' /\ LockSide'
    BY <1>13 DEF SocketOpens, World, LockSide, Queued
  <2>2. t \in desired
    BY <1>13 DEF SocketOpens, OneSocket, LockSide
  <2>3. AppSide'
    BY <1>13, <2>2 DEF SocketOpens, Resync, Read, AppSide
  <2>4. InboxTyped'
    BY <1>13, PostedFacts DEF SocketOpens, Sockets, InboxTyped, Messages
  <2>5. Sockets'
    BY <1>13, <2>4 DEF SocketOpens, Sockets
  <2>6. QED
    BY <2>1, <2>3, <2>5
<1>14. ASSUME NEW t \in Tabs, SocketFails(t) PROVE Typed'
  <2>1. World' /\ LockSide' /\ AppSide'
    BY <1>14 DEF SocketFails, World, LockSide, Queued, AppSide, shown
  <2>2. InboxTyped'
    BY <1>14, PostedFacts DEF SocketFails, Sockets, InboxTyped, Messages
  <2>3. Sockets'
    BY <1>14, <2>2 DEF SocketFails, Sockets
  <2>4. QED
    BY <2>1, <2>3
<1>15. ASSUME NEW t \in Tabs, SocketCloses(t) PROVE Typed'
  <2>1. World' /\ LockSide' /\ AppSide'
    BY <1>15 DEF SocketCloses, Schedule, World, LockSide, Queued, AppSide, shown
  <2>2. InboxTyped'
    BY <1>15, PostedFacts DEF SocketCloses, Sockets, InboxTyped, Messages
  <2>3. Sockets'
    BY <1>15, <2>2 DEF SocketCloses, Sockets
  <2>4. QED
    BY <2>1, <2>3
<1>16. ASSUME NEW t \in Tabs, ProbeSettles(t) PROVE Typed'
  <2>1. World'
    BY <1>16 DEF ProbeSettles, World
  <2>2. ASSUME UNCHANGED browser PROVE LockSide' /\ Sockets'
    BY <2>2 DEF browser, LockSide, Sockets, InboxTyped, Queued
  <2>3. CASE Changed(t)
    <3>1. UNCHANGED browser
      BY <1>16, <2>3 DEF ProbeSettles
    <3>2. AppSide'
      BY <1>16, <2>3 DEF ProbeSettles, AppSide, browser
    <3>3. QED
      BY <2>1, <2>2, <3>1, <3>2
  <2>4. CASE ~Changed(t) /\ Unauthorized
    <3>1. Disconnect(t)
      BY <1>16, <2>4 DEF ProbeSettles
    <3>2. /\ LockSide' /\ Sockets' /\ needsResync' \subseteq Tabs /\ timer' \subseteq Tabs
          /\ met' \subseteq desired' /\ missed' \subseteq met'
      BY <3>1, DisconnectFacts
    <3>3. AppSide'
      BY <1>16, <2>4, <3>2, OutdatedTyped DEF ProbeSettles, AppSide
    <3>4. QED
      BY <2>1, <3>2, <3>3
  <2>5. CASE ~Changed(t) /\ ~Unauthorized
    <3>1. UNCHANGED browser
      BY <1>16, <2>5 DEF ProbeSettles
    <3>2. AppSide'
      BY <1>16, <2>5 DEF ProbeSettles, Schedule, AppSide, browser
    <3>3. QED
      BY <2>1, <2>2, <3>1, <3>2
  <2>6. QED
    BY <2>3, <2>4, <2>5
<1>17. ASSUME NEW t \in Tabs, SocketMessage(t) PROVE Typed'
  <2>1. World' /\ LockSide' /\ AppSide'
    BY <1>17 DEF SocketMessage, Read, World, LockSide, Queued, AppSide, app
  <2>2. InboxTyped'
    BY <1>17, PostedFacts DEF SocketMessage, Sockets, InboxTyped, Messages
  <2>3. Sockets'
    BY <1>17, <2>2 DEF SocketMessage, Sockets
  <2>4. QED
    BY <2>1, <2>3
<1>18. ASSUME NEW t \in Tabs, LeaderHears(t) PROVE Typed'
  <2>1. World' /\ LockSide' /\ AppSide'
    BY <1>18 DEF LeaderHears, World, LockSide, Queued, AppSide, app, shown
  <2>2. Tail(inbox[t]) \in Seq(Messages) /\ Taken(t) \in [Tabs -> Seq(Messages)]
    BY <1>18, TakenFacts DEF LeaderHears, Sockets
  <2>3. Posted(t, "open") \in [Tabs -> Seq(Messages)]
    BY PostedFacts DEF Sockets, Messages
  <2>4. Sockets'
    BY <1>18, <2>2, <2>3 DEF LeaderHears, Sockets, InboxTyped
  <2>5. QED
    BY <2>1, <2>4
<1>19. ASSUME NEW t \in Tabs, FollowerHearsEvent(t) PROVE Typed'
  <2>1. World' /\ LockSide' /\ AppSide'
    BY <1>19 DEF FollowerHearsEvent, Read, World, LockSide, Queued, AppSide, app
  <2>2. Sockets'
    BY <1>19, TakenFacts DEF FollowerHearsEvent, Sockets, InboxTyped
  <2>3. QED
    BY <2>1, <2>2
<1>20. ASSUME NEW t \in Tabs, FollowerHearsOpen(t) PROVE Typed'
  <2>1. t \in desired
    BY <1>20 DEF FollowerHearsOpen, Listening
  <2>2. World' /\ LockSide'
    BY <1>20, <2>1 DEF FollowerHearsOpen, World, LockSide, Queued
  <2>3. AppSide'
    BY <1>20, <2>1 DEF FollowerHearsOpen, Resync, MissingAt, Read, AppSide, LockSide
  <2>4. Sockets'
    BY <1>20, TakenFacts DEF FollowerHearsOpen, Sockets, InboxTyped
  <2>5. QED
    BY <2>2, <2>3, <2>4
<1>21. ASSUME NEW t \in Tabs, FollowerHearsClose(t) PROVE Typed'
  <2>1. World' /\ LockSide' /\ AppSide'
    BY <1>21 DEF FollowerHearsClose, ReportsLoss, World, LockSide, Queued, AppSide, shown
  <2>2. Sockets'
    BY <1>21, TakenFacts DEF FollowerHearsClose, Sockets, InboxTyped
  <2>3. QED
    BY <2>1, <2>2
<1>22. ASSUME NEW t \in Tabs, FollowerIgnoresHello(t) PROVE Typed'
  <2>1. World' /\ LockSide' /\ AppSide'
    BY <1>22 DEF FollowerIgnoresHello, World, LockSide, Queued, AppSide, app, shown
  <2>2. Sockets'
    BY <1>22, TakenFacts DEF FollowerIgnoresHello, Sockets, InboxTyped
  <2>3. QED
    BY <2>1, <2>2
<1>23. CASE UNCHANGED vars
  BY <1>23 DEF vars, browser, app, shown, World, LockSide, Queued, Sockets, InboxTyped, AppSide
<1>24. QED
  BY <1>1, <1>2, <1>3, <1>4, <1>5, <1>6, <1>7, <1>8, <1>9, <1>10, <1>11, <1>12, <1>13, <1>14, <1>15, <1>16, <1>17, <1>18, <1>19, <1>20, <1>21, <1>22, <1>23 DEF Next, Browser

LEMMA ListeningStep ==
    ASSUME Typed, Listening, [Next]_vars
    PROVE  Listening'
<1> USE DEF Typed, Sockets, InboxTyped
<1>1. \A k \in Messages : \A t, u \in Tabs : u \notin desired => Posted(t, k)[u] = <<>>
  BY PostedFacts DEF Listening
<1>2. ASSUME desired' = desired, inbox' = inbox PROVE Listening'
  BY <1>2 DEF Listening
<1>3. ASSUME NEW t \in Tabs, NEW k \in Messages, desired' = desired, inbox' = Posted(t, k) PROVE Listening'
  BY <1>1, <1>3 DEF Listening
<1>4. ASSUME NEW t \in Tabs, inbox[t] # <<>>, desired' = desired, inbox' = Taken(t) PROVE Listening'
  BY <1>4 DEF Listening, Taken
<1>5. ASSUME NEW t \in Tabs, Connect(t) PROVE Listening'
  <2>1. desired' = desired \cup {t}
    BY <1>5 DEF Connect
  <2>2. inbox' = inbox \/ inbox' = Posted(t, "hello")
    BY <1>5 DEF Connect
  <2>3. "hello" \in Messages
    BY DEF Messages
  <2>4. QED
    BY <1>1, <2>1, <2>2, <2>3 DEF Listening
<1>6. ASSUME NEW t \in Tabs, LetGo(t),
             inbox' = [(IF Readable(t) THEN Posted(t, "close") ELSE inbox) EXCEPT ![t] = <<>>]
      PROVE  Listening'
  <2>1. desired' = desired \ {t}
    BY <1>6 DEF LetGo
  <2>2. "close" \in Messages
    BY DEF Messages
  <2>3. Posted(t, "close") \in [Tabs -> Seq(Messages)]
    BY <2>2, PostedFacts
  <2>4. inbox'[t] = <<>>
    BY <1>6, <2>3
  <2>5. ASSUME NEW u \in Tabs, u # t PROVE inbox'[u] = inbox[u] \/ inbox'[u] = Posted(t, "close")[u]
    BY <1>6, <2>3, <2>5
  <2>6. QED
    BY <1>1, <2>1, <2>2, <2>4, <2>5 DEF Listening
<1>7. CASE SessionEnds \/ SessionReplaced \/ ServerDown \/ ServerUp \/ Change \/ UNCHANGED vars
  BY <1>2, <1>7 DEF SessionEnds, SessionReplaced, ServerDown, ServerUp, Change, vars, browser
<1>8. ASSUME NEW t \in Tabs, OpenTab(t) \/ Login(t) PROVE Listening'
  <2>1. Connect(t) \/ (desired' = desired /\ inbox' = inbox)
    BY <1>8 DEF OpenTab, Login, browser
  <2>2. QED
    BY <1>2, <1>5, <2>1
<1>9. ASSUME NEW t \in Tabs, CloseTab(t) PROVE Listening'
  BY <1>9 DEF CloseTab, LetGo, Listening
<1>10. ASSUME NEW t \in Tabs, Logout(t) PROVE Listening'
  BY <1>6, <1>10 DEF Logout
<1>11. ASSUME NEW t \in Tabs, Navigate(t) \/ TimerFires(t) \/ ProbeSettles(t) PROVE Listening'
  <2>1. Connect(t) \/ Disconnect(t) \/ (desired' = desired /\ inbox' = inbox)
    BY <1>11 DEF Navigate, TimerFires, ProbeSettles, browser
  <2>2. QED
    BY <1>2, <1>5, <1>6, <2>1 DEF Disconnect
<1>12. ASSUME NEW t \in Tabs, BecomeLeader(t) PROVE Listening'
  BY <1>2, <1>12 DEF BecomeLeader
<1>13. ASSUME NEW t \in Tabs, SocketOpens(t) \/ SocketFails(t) \/ SocketCloses(t) \/ SocketMessage(t) PROVE Listening'
  <2>1. /\ desired' = desired
        /\ inbox' = Posted(t, "open") \/ inbox' = Posted(t, "close") \/ inbox' = Posted(t, "event")
    BY <1>13 DEF SocketOpens, SocketFails, SocketCloses, SocketMessage
  <2>2. QED
    BY <1>3, <2>1 DEF Messages
<1>14. ASSUME NEW t \in Tabs, LeaderHears(t) PROVE Listening'
  <2>1. desired' = desired /\ inbox[t] # <<>> /\ t \in desired
    BY <1>14 DEF LeaderHears, Listening
  <2>2. CASE Answers(t)
    <3>1. inbox' = [Posted(t, "open") EXCEPT ![t] = Tail(inbox[t])]
      BY <1>14, <2>2 DEF LeaderHears
    <3>2. "open" \in Messages
      BY DEF Messages
    <3>3. Posted(t, "open") \in [Tabs -> Seq(Messages)]
      BY <3>2, PostedFacts
    <3>4. \A u \in Tabs : u # t => inbox'[u] = Posted(t, "open")[u]
      BY <3>1, <3>3
    <3>5. QED
      BY <1>1, <2>1, <3>2, <3>4 DEF Listening
  <2>3. CASE ~Answers(t)
    BY <1>4, <1>14, <2>1, <2>3 DEF LeaderHears
  <2>4. QED
    BY <2>2, <2>3
<1>15. ASSUME NEW t \in Tabs,
              FollowerHearsEvent(t) \/ FollowerHearsOpen(t) \/ FollowerHearsClose(t) \/ FollowerIgnoresHello(t)
       PROVE  Listening'
  BY <1>4, <1>15 DEF FollowerHearsEvent, FollowerHearsOpen, FollowerHearsClose, FollowerIgnoresHello
<1>16. QED
  BY <1>7, <1>8, <1>9, <1>10, <1>11, <1>12, <1>13, <1>14, <1>15 DEF Next, Browser

-----------------------------------------------------------------------------
(* The server hangs up whatever it would no longer answer.                 *)
LEMMA OnlineStep ==
    ASSUME Typed, Online, [Next]_vars
    PROVE  Online'
<1> USE DEF Typed, Online, Sockets
<1>1. CASE SessionEnds \/ SessionReplaced \/ ServerDown
  BY <1>1, DyingTyped DEF SessionEnds, SessionReplaced, ServerDown
<1>2. CASE ServerUp \/ Change \/ UNCHANGED vars
  BY <1>2 DEF ServerUp, Change, vars, browser
<1>3. ASSUME NEW t \in Tabs, OpenTab(t) PROVE Online'
  BY <1>3 DEF OpenTab, Connect, browser
<1>4. ASSUME NEW t \in Tabs, CloseTab(t) PROVE Online'
  BY <1>4 DEF CloseTab
<1>5. ASSUME NEW t \in Tabs, Login(t) PROVE Online'
  BY <1>5 DEF Login, Connect
<1>6. ASSUME NEW t \in Tabs, Logout(t) PROVE Online'
  BY <1>6, DyingTyped DEF Logout
<1>7. ASSUME NEW t \in Tabs, Navigate(t) \/ TimerFires(t) PROVE Online'
  BY <1>7 DEF Navigate, TimerFires, Connect, Disconnect, TeardownSocket
<1>8. ASSUME NEW t \in Tabs, ProbeSettles(t) PROVE Online'
  <2>1. CASE UNCHANGED <<token, browser>>
    BY <1>8, <2>1 DEF ProbeSettles, browser
  <2>2. CASE Unauthorized /\ Disconnect(t)
    BY <1>8, <2>2 DEF ProbeSettles, Unauthorized, Disconnect, TeardownSocket
  <2>3. QED
    BY <1>8, <2>1, <2>2 DEF ProbeSettles
<1>9. ASSUME NEW t \in Tabs, BecomeLeader(t) \/ SocketOpens(t) \/ SocketFails(t) \/ SocketCloses(t) \/ SocketMessage(t)
      PROVE  Online'
  BY <1>9 DEF BecomeLeader, SocketOpens, SocketFails, SocketCloses, SocketMessage
<1>10. ASSUME NEW t \in Tabs,
              LeaderHears(t) \/ FollowerHearsEvent(t) \/ FollowerHearsOpen(t) \/ FollowerHearsClose(t)
              \/ FollowerIgnoresHello(t)
       PROVE  Online'
  BY <1>10 DEF LeaderHears, FollowerHearsEvent, FollowerHearsOpen, FollowerHearsClose, FollowerIgnoresHello
<1>11. QED
  BY <1>1, <1>2, <1>3, <1>4, <1>5, <1>6, <1>7, <1>8, <1>9, <1>10 DEF Next, Browser

(* What a tab knows of its connection survives every change of hands.      *)
LEMMA AwareStep ==
    ASSUME Typed, OneSocket, Listening, Aware, [Next]_vars
    PROVE  Aware'
<1> USE TabsAssumption DEF Aware, Typed, Sockets, AppSide, LockSide
<1>1. CASE SessionEnds \/ SessionReplaced \/ ServerDown
  BY <1>1 DEF SessionEnds, SessionReplaced, ServerDown, Dying, app, shown
<1>2. CASE ServerUp \/ Change \/ UNCHANGED vars
  BY <1>2 DEF ServerUp, Change, vars, browser, app, shown
<1>3. ASSUME NEW t \in Tabs, Connect(t), UNCHANGED <<met, needsResync>> PROVE Aware'
  BY <1>3 DEF Connect
<1>4. ASSUME NEW t \in Tabs, LetGo(t), sock' = [sock EXCEPT ![t] = "none"] PROVE Aware'
  BY <1>4 DEF LetGo, ReleaseLock
<1>5. ASSUME NEW t \in Tabs, OpenTab(t) PROVE Aware'
  <2>1. CASE Connect(t) /\ UNCHANGED <<met, needsResync>>
    BY <1>3, <2>1
  <2>2. CASE UNCHANGED <<browser, met, needsResync>>
    BY <2>2 DEF browser
  <2>3. QED
    BY <1>5, <2>1, <2>2 DEF OpenTab, app, shown
<1>6. ASSUME NEW t \in Tabs, CloseTab(t) PROVE Aware'
  BY <1>4, <1>6 DEF CloseTab
<1>7. ASSUME NEW t \in Tabs, Login(t) PROVE Aware'
  BY <1>3, <1>7 DEF Login
<1>8. ASSUME NEW t \in Tabs, Logout(t) PROVE Aware'
  BY <1>8 DEF Logout, LetGo, ReleaseLock, Dying
<1>9. ASSUME NEW t \in Tabs, Disconnect(t) PROVE Aware'
  BY <1>4, <1>9 DEF Disconnect, TeardownSocket
<1>10. ASSUME NEW t \in Tabs, Navigate(t) \/ TimerFires(t) PROVE Aware'
  BY <1>3, <1>9, <1>10 DEF Navigate, TimerFires
<1>11. ASSUME NEW t \in Tabs, ProbeSettles(t) PROVE Aware'
  <2>1. CASE UNCHANGED <<browser, met, needsResync>>
    BY <2>1 DEF browser
  <2>2. QED
    BY <1>9, <1>11, <2>1 DEF ProbeSettles
<1>12. ASSUME NEW t \in Tabs, BecomeLeader(t) PROVE Aware'
  BY <1>12 DEF BecomeLeader, ReportsLoss, shown
<1>13. ASSUME NEW t \in Tabs, SocketOpens(t) PROVE Aware'
  <2>1. lock = t
    BY <1>13 DEF SocketOpens, OneSocket
  <2>2. QED
    BY <1>13, <2>1 DEF SocketOpens, Resync
<1>14. ASSUME NEW t \in Tabs, SocketFails(t) \/ SocketCloses(t) PROVE Aware'
  BY <1>14 DEF SocketFails, SocketCloses, shown
<1>15. ASSUME NEW t \in Tabs, SocketMessage(t) \/ LeaderHears(t) \/ FollowerHearsEvent(t) \/ FollowerIgnoresHello(t)
       PROVE  Aware'
  BY <1>15 DEF SocketMessage, LeaderHears, FollowerHearsEvent, FollowerIgnoresHello, app, shown
<1>16. ASSUME NEW t \in Tabs, FollowerHearsOpen(t) PROVE Aware'
  BY <1>16 DEF FollowerHearsOpen, Resync, MissingAt
<1>17. ASSUME NEW t \in Tabs, FollowerHearsClose(t) PROVE Aware'
  BY <1>17 DEF FollowerHearsClose, ReportsLoss, shown
<1>18. QED
  BY <1>1, <1>2, <1>5, <1>6, <1>7, <1>8, <1>10, <1>11, <1>12, <1>13, <1>14, <1>15, <1>16, <1>17 DEF Next, Browser

(* A tab falls behind only by a change or by starting to listen, and the   *)
(* frame, the relayed event or the hello of that moment is still there, or *)
(* became an event or an open, until the tab has read again.               *)
LEMMA ExcusesStep ==
    ASSUME Typed, OneSocket, Listening, Online, Aware, Excuses, [Next]_vars
    PROVE  Excuses'
<1> USE DEF Typed, Sockets, LockSide
<1>1. ASSUME \A t \in Tabs : sock'[t] # "open", LockSide' PROVE Excuses'
  BY <1>1 DEF Excuses
<1>2. ASSUME UNCHANGED <<lock, sock, wire, inbox, desired, lists, missed>> PROVE Excuses'
  BY <1>2 DEF Excuses, Behind, Coming
<1>3. wire \subseteq {lock}
  BY DEF OneSocket
<1>4. InboxTyped
  OBVIOUS
<1>5. Typed'
  BY TypedStep
<1>6. CASE SessionEnds \/ SessionReplaced \/ ServerDown
  <2>1. \A t \in Tabs : sock'[t] # "open"
    BY <1>6, DyingTyped DEF SessionEnds, SessionReplaced, ServerDown
  <2>2. QED
    BY <1>1, <1>5, <2>1
<1>7. CASE ServerUp \/ UNCHANGED vars
  BY <1>2, <1>7 DEF ServerUp, vars, browser, shown
<1>8. CASE Change
  BY <1>8, TabsAssumption DEF Change, Excuses, Coming
<1>9. ASSUME NEW t \in Tabs, Connect(t), lists \subseteq lists', missed' = missed PROVE Excuses'
  <2>1. /\ lock' = lock /\ wire' = wire /\ desired' = desired \cup {t}
    BY <1>9 DEF Connect
  <2>2. SUFFICES ASSUME lock # NoTab, sock'[lock] = "open", NEW u \in desired', Behind(u)'
                 PROVE  Coming(u)'
    BY <2>1 DEF Excuses
  <2>3. sock[lock] = "open" /\ lock \in desired /\ u \in Tabs
    BY <1>9, <2>1, <2>2 DEF Connect
  <2>4. CASE u \in desired
    <3>1. Coming(u)
      BY <1>9, <2>2, <2>3, <2>4 DEF Excuses, Behind
    <3>2. \A v \in Tabs : \A e : Contains(inbox[v], e) => Contains(inbox'[v], e)
      BY <1>4, <1>9, PostedFacts DEF Connect, Messages
    <3>3. QED
      BY <2>1, <2>3, <3>1, <3>2 DEF Coming
  <2>5. CASE u \notin desired
    <3>1. u = t /\ lock # t
      BY <2>1, <2>2, <2>3, <2>5
    <3>2. inbox' = Posted(t, "hello")
      BY <1>9, <2>5, <3>1 DEF Connect
    <3>3. Contains(inbox'[lock], "hello")
      BY <1>4, <2>3, <3>1, <3>2, PostedFacts DEF Messages
    <3>4. QED
      BY <2>1, <3>1, <3>3 DEF Coming
  <2>6. QED
    BY <2>4, <2>5
<1>10. ASSUME NEW t \in Tabs, LetGo(t),
              \A u \in Tabs : sock'[u] = "open" => sock[u] = "open",
              wire' = wire \ {t},
              \A u \in Tabs : \A e : u # t /\ Contains(inbox[u], e) => Contains(inbox'[u], e),
              \A u \in Tabs : u # t => (u \in lists => u \in lists')
       PROVE  Excuses'
  <2>1. desired' = desired \ {t} /\ missed' = missed \ {t} /\ lock' = IF lock = t THEN NoTab ELSE lock
    BY <1>10 DEF LetGo, ReleaseLock
  <2>2. SUFFICES ASSUME lock' # NoTab, sock'[lock'] = "open", NEW u \in desired', Behind(u)'
                 PROVE  Coming(u)'
    BY DEF Excuses
  <2>3. lock' = lock /\ lock # t /\ u # t /\ u \in desired /\ lock \in Tabs /\ sock[lock] = "open"
    BY <1>10, <2>1, <2>2
  <2>4. Behind(u)
    BY <1>10, <2>1, <2>2, <2>3 DEF Behind
  <2>5. Coming(u)
    BY <2>3, <2>4, TabsAssumption DEF Excuses
  <2>6. wire' = wire
    BY <1>3, <1>10, <2>3
  <2>7. QED
    BY <1>10, <2>3, <2>5, <2>6 DEF Coming
<1>11. ASSUME NEW t \in Tabs, Disconnect(t), lists' = lists PROVE Excuses'
  <2>1. LetGo(t) /\ TeardownSocket(t)
    BY <1>11 DEF Disconnect
  <2>2. \A u \in Tabs : \A e : u # t /\ Contains(inbox[u], e) => Contains(inbox'[u], e)
    BY <1>4, <1>11, HungUp DEF Disconnect
  <2>3. QED
    BY <1>10, <1>11, <2>1, <2>2 DEF TeardownSocket
<1>12. ASSUME NEW t \in Tabs, OpenTab(t) PROVE Excuses'
  <2>1. CASE token = "valid"
    BY <1>9, <1>12, <2>1 DEF OpenTab
  <2>2. CASE token # "valid"
    BY <1>2, <1>12, <2>2 DEF OpenTab, browser, shown
  <2>3. QED
    BY <2>1, <2>2
<1>13. ASSUME NEW t \in Tabs, CloseTab(t) PROVE Excuses'
  <2>1. \A u \in Tabs : \A e : u # t /\ Contains(inbox[u], e) => Contains(inbox'[u], e)
    BY <1>4, <1>13 DEF CloseTab, InboxTyped
  <2>2. QED
    BY <1>10, <1>13, <2>1 DEF CloseTab
<1>14. ASSUME NEW t \in Tabs, Login(t) PROVE Excuses'
  BY <1>9, <1>14 DEF Login
<1>15. ASSUME NEW t \in Tabs, Logout(t) PROVE Excuses'
  <2>1. \A u \in Tabs : sock'[u] # "open"
    BY <1>15, DyingTyped DEF Logout
  <2>2. QED
    BY <1>1, <1>5, <2>1
<1>16. ASSUME NEW t \in Tabs, Navigate(t) \/ TimerFires(t) PROVE Excuses'
  BY <1>9, <1>11, <1>16 DEF Navigate, TimerFires
<1>17. ASSUME NEW t \in Tabs, ProbeSettles(t) PROVE Excuses'
  <2>1. CASE UNCHANGED <<browser, missed>>
    BY <1>2, <1>17, <2>1 DEF ProbeSettles, browser
  <2>2. QED
    BY <1>11, <1>17, <2>1 DEF ProbeSettles
<1>18. ASSUME NEW t \in Tabs, BecomeLeader(t) PROVE Excuses'
  BY <1>18 DEF BecomeLeader, Excuses
<1>19. ASSUME NEW t \in Tabs, SocketOpens(t) PROVE Excuses'
  <2>1. lock = t /\ lock' = t /\ desired' = desired
    BY <1>19 DEF SocketOpens, OneSocket
  <2>2. SUFFICES ASSUME NEW u \in desired, Behind(u)' PROVE Coming(u)'
    BY <2>1 DEF Excuses
  <2>3. u # t
    <3>1. t \in lists'
      BY <1>19 DEF SocketOpens, Resync, Read
    <3>2. t \notin missed'
      <4>1. missed' = missed \ ({t} \cap needsResync)
        BY <1>19 DEF SocketOpens, Resync, Read
      <4>2. t \in missed => t \in needsResync
        BY <1>19, <2>1 DEF SocketOpens, Aware, AppSide
      <4>3. QED
        BY <4>1, <4>2
    <3>3. QED
      BY <2>2, <3>1, <3>2 DEF Behind
  <2>4. Contains(inbox'[u], "open")
    BY <1>4, <1>19, <2>3, PostedFacts DEF SocketOpens, Messages
  <2>5. QED
    BY <2>1, <2>3, <2>4 DEF Coming
<1>20. ASSUME NEW t \in Tabs, SocketFails(t) \/ SocketCloses(t) PROVE Excuses'
  <2>1. lock = t /\ lock' = t /\ sock'[t] = "none"
    BY <1>20 DEF SocketFails, SocketCloses, OneSocket
  <2>2. QED
    BY <2>1 DEF Excuses
<1>21. ASSUME NEW t \in Tabs, SocketMessage(t) PROVE Excuses'
  <2>1. lock = t /\ lock' = t /\ desired' = desired /\ sock[t] = "open"
    BY <1>3, <1>21 DEF SocketMessage
  <2>2. SUFFICES ASSUME NEW u \in desired, Behind(u)' PROVE Coming(u)'
    BY <2>1 DEF Excuses
  <2>3. u # t
    BY <1>21, <2>1, <2>2 DEF SocketMessage, Read, Online, Behind
  <2>4. Contains(inbox'[u], "event")
    BY <1>4, <1>21, <2>3, PostedFacts DEF SocketMessage, Messages
  <2>5. QED
    BY <2>1, <2>3, <2>4 DEF Coming
<1>22. ASSUME NEW t \in Tabs, LeaderHears(t) PROVE Excuses'
  <2>1. /\ lock = t /\ lock' = t /\ inbox[t] # <<>> /\ desired' = desired /\ sock' = sock
        /\ wire' = wire /\ lists' = lists /\ missed' = missed
    BY <1>22 DEF LeaderHears, shown
  <2>2. SUFFICES ASSUME sock[t] = "open", NEW u \in desired, Behind(u) PROVE Coming(u)'
    BY <2>1 DEF Excuses, Behind
  <2>3. Coming(u) /\ u \in Tabs
    BY <2>1, <2>2, TabsAssumption DEF Excuses
  <2>4. CASE u = t
    BY <2>1, <2>3, <2>4 DEF Coming
  <2>5. CASE u # t /\ Answers(t)
    <3>1. inbox' = [Posted(t, "open") EXCEPT ![t] = Tail(inbox[t])]
      BY <1>22, <2>5 DEF LeaderHears
    <3>2. Posted(t, "open") \in [Tabs -> Seq(Messages)] /\ Contains(Posted(t, "open")[u], "open")
      BY <1>4, <2>3, <2>5, PostedFacts DEF Messages
    <3>3. inbox'[u] = Posted(t, "open")[u]
      BY <2>3, <2>5, <3>1, <3>2
    <3>4. QED
      BY <2>1, <2>5, <3>2, <3>3 DEF Coming
  <2>6. CASE u # t /\ ~Answers(t)
    <3>1. Heard(t) # "hello"
      BY <2>2, <2>6 DEF Answers, Readable
    <3>2. inbox' = Taken(t)
      BY <1>22, <2>6 DEF LeaderHears
    <3>3. inbox'[u] = inbox[u] /\ (Contains(inbox[t], "hello") => Contains(inbox'[t], "hello"))
      BY <1>4, <2>1, <2>3, <2>6, <3>1, <3>2, TakenFacts
    <3>4. QED
      BY <2>1, <2>3, <2>6, <3>3 DEF Coming
  <2>7. QED
    BY <2>4, <2>5, <2>6
(* A follower takes a message: no other tab's excuse changes.              *)
<1>23. ASSUME NEW t \in Tabs, lock # t, inbox[t] # <<>>, inbox' = Taken(t),
              UNCHANGED <<lock, sock, wire, desired>>,
              \A u \in Tabs : u # t => (Behind(u)' => Behind(u)),
              sock[lock] = "open" /\ lock # NoTab /\ t \in desired /\ Behind(t)' =>
                 Behind(t) /\ Heard(t) \notin {"event", "open"}
       PROVE  Excuses'
  <2>1. SUFFICES ASSUME lock # NoTab, sock[lock] = "open", NEW u \in desired, Behind(u)'
                 PROVE  Coming(u)'
    BY <1>23 DEF Excuses
  <2>2. u \in Tabs /\ lock \in Tabs /\ inbox'[lock] = inbox[lock]
    BY <1>4, <1>23, <2>1, TakenFacts
  <2>3. CASE u # t
    <3>1. Coming(u) /\ inbox'[u] = inbox[u]
      BY <1>4, <1>23, <2>1, <2>2, <2>3, TakenFacts DEF Excuses
    <3>2. QED
      BY <1>23, <2>2, <3>1 DEF Coming
  <2>4. CASE u = t
    <3>1. Coming(t) /\ Heard(t) # "event" /\ Heard(t) # "open"
      BY <1>23, <2>1, <2>4 DEF Excuses
    <3>2. \A e : Contains(inbox[t], e) /\ Heard(t) # e => Contains(inbox'[t], e)
      BY <1>4, <1>23, TakenFacts
    <3>3. QED
      BY <1>23, <2>2, <2>4, <3>1, <3>2 DEF Coming
  <2>5. QED
    BY <2>3, <2>4
<1>24. ASSUME NEW t \in Tabs, FollowerHearsEvent(t) PROVE Excuses'
  <2>1. \A u \in Tabs : u # t => (Behind(u)' => Behind(u))
    BY <1>24 DEF FollowerHearsEvent, Read, Behind
  <2>2. sock[lock] = "open" /\ lock # NoTab => ~Behind(t)'
    BY <1>24 DEF FollowerHearsEvent, Read, Online, Behind
  <2>3. QED
    BY <1>23, <1>24, <2>1, <2>2 DEF FollowerHearsEvent
<1>25. ASSUME NEW t \in Tabs, FollowerHearsOpen(t) PROVE Excuses'
  <2>1. \A u \in Tabs : u # t => (Behind(u)' => Behind(u))
    BY <1>25 DEF FollowerHearsOpen, Resync, Read, Behind
  <2>2. t \in missed => t \in MissingAt(t)
    BY <1>25 DEF FollowerHearsOpen, MissingAt, Aware, AppSide
  <2>3. sock[lock] = "open" /\ lock # NoTab => ~Behind(t)'
    BY <1>25, <2>2 DEF FollowerHearsOpen, Resync, Read, Online, Behind
  <2>4. QED
    BY <1>23, <1>25, <2>1, <2>3 DEF FollowerHearsOpen
<1>26. ASSUME NEW t \in Tabs, FollowerHearsClose(t) \/ FollowerIgnoresHello(t) PROVE Excuses'
  <2>1. \A u \in Tabs : Behind(u)' => Behind(u)
    BY <1>26 DEF FollowerHearsClose, FollowerIgnoresHello, Behind, shown
  <2>2. Heard(t) \notin {"event", "open"}
    BY <1>26 DEF FollowerHearsClose, FollowerIgnoresHello
  <2>3. /\ lock # t /\ inbox[t] # <<>> /\ inbox' = Taken(t)
        /\ UNCHANGED <<lock, sock, wire, desired>>
    BY <1>26 DEF FollowerHearsClose, FollowerIgnoresHello
  <2>4. QED
    BY <1>23, <2>1, <2>2, <2>3
<1>27. QED
  BY <1>6, <1>7, <1>8, <1>12, <1>13, <1>14, <1>15, <1>16, <1>17, <1>18, <1>19, <1>20, <1>21, <1>22, <1>24, <1>25, <1>26 DEF Next, Browser

-----------------------------------------------------------------------------
LEMMA InitLInv == Init => LInv
<1>1. ASSUME Init PROVE Typed
  <2>1. trouble \in 0..MaxTrouble
    BY <1>1, TabsAssumption DEF Init
  <2>2. World
    BY <1>1, <2>1 DEF Init, World
  <2>3. LockSide
    BY <1>1 DEF Init, LockSide, Queued, Distinct
  <2>4. Sockets
    BY <1>1 DEF Init, Sockets, InboxTyped
  <2>5. AppSide
    BY <1>1 DEF Init, AppSide
  <2>6. QED
    BY <2>2, <2>3, <2>4, <2>5 DEF Typed
<1>2. Init => TypeOK /\ Queued
  BY <1>1, TypeOKParts DEF Typed
<1>3. Init => OneSocket /\ Online /\ Aware /\ Excuses /\ Listening
  BY DEF Init, OneSocket, Online, Aware, Excuses, Listening
<1>4. QED
  BY <1>2, <1>3 DEF LInv

LEMMA LInvStep ==
    ASSUME LInv, [Next]_vars
    PROVE  LInv'
<1>1. Typed
  BY TypeOKParts DEF LInv, Typed
<1>2. IInv
  BY <1>1 DEF LInv, IInv, LockTyped, Typed, LockSide, Sockets
<1>3. OneSocket'
  BY <1>2, IInvStep DEF IInv
<1>4. Typed'
  BY <1>1, TypedStep DEF LInv
<1>5. TypeOK' /\ Queued'
  BY <1>4 DEF Typed, TypeOK, World, LockSide, Sockets, AppSide, InboxTyped
<1>6. Listening' /\ Online'
  BY <1>1, ListeningStep, OnlineStep DEF LInv
<1>7. Aware' /\ Excuses'
  BY <1>1, AwareStep, ExcusesStep DEF LInv
<1>8. QED
  BY <1>3, <1>5, <1>6, <1>7 DEF LInv

LEMMA Invariant == Spec => []LInv
BY InitLInv, LInvStep, PTL DEF Spec

-----------------------------------------------------------------------------
(* The inductive invariant behind RestingTabsAreConnected: who wants a     *)
(* connection is in line for the lock, a leader without a socket is trying *)
(* to get one, and while it has one, each follower was told so last, or    *)
(* will be.                                                                *)
NoClose(q) == ~Contains(q, "close")
Standing(q) ==
    \E i \in 1..Len(q) : q[i] = "open" /\ \A j \in 1..Len(q) : j > i => q[j] # "close"

Hears(t) == Standing(inbox[t]) \/ (t \in followerOpen /\ NoClose(inbox[t]))

Fresh ==
    ~signedOut =>
        /\ token = "valid"
        /\ \A t \in Tabs :
              /\ page[t] \in {"closed", "app"} /\ probe[t] \in {"idle", "token"}
              /\ page[t] = "app" => t \in desired

InLine == \A t \in desired : lock = t \/ Contains(waiting, t)

Trying ==
    ~signedOut /\ lock # NoTab =>
        sock[lock] # "none" \/ lock \in timer \/ probe[lock] # "idle"

Reached ==
    lock # NoTab /\ sock[lock] = "open" =>
        \A t \in desired \ {lock} : Contains(inbox[lock], "hello") \/ Hears(t)

LEMMA StandingGrows ==
    ASSUME NEW q \in Seq(Messages), NEW k \in Messages
    PROVE  /\ Standing(Append(q, "open"))
           /\ k # "close" /\ Standing(q) => Standing(Append(q, k))
           /\ k # "close" /\ NoClose(q) => NoClose(Append(q, k))
<1>1. Len(q) \in Nat
  OBVIOUS
<1>2. ASSUME NEW m \in Messages
      PROVE  /\ Len(Append(q, m)) = Len(q) + 1
             /\ \A i \in 1..Len(q) : Append(q, m)[i] = q[i]
             /\ Append(q, m)[Len(q) + 1] = m
  OBVIOUS
<1>3. Standing(Append(q, "open"))
  <2>1. "open" \in Messages
    BY DEF Messages
  <2>2. Len(q) + 1 \in 1..Len(Append(q, "open"))
    BY <1>1, <1>2, <2>1
  <2>3. \A j \in 1..Len(Append(q, "open")) : ~(j > Len(q) + 1)
    BY <1>1, <1>2, <2>1
  <2>4. QED
    BY <1>2, <2>1, <2>2, <2>3 DEF Standing
<1>4. ASSUME k # "close", Standing(q) PROVE Standing(Append(q, k))
  <2>1. PICK i \in 1..Len(q) : q[i] = "open" /\ \A j \in 1..Len(q) : j > i => q[j] # "close"
    BY <1>4 DEF Standing
  <2>2. i \in 1..Len(Append(q, k)) /\ Append(q, k)[i] = "open"
    BY <1>1, <1>2, <2>1
  <2>3. ASSUME NEW j \in 1..Len(Append(q, k)), j > i PROVE Append(q, k)[j] # "close"
    <3>1. CASE j = Len(q) + 1
      BY <1>2, <1>4, <3>1
    <3>2. CASE j \in 1..Len(q)
      BY <1>2, <2>1, <2>3, <3>2
    <3>3. QED
      BY <1>1, <1>2, <3>1, <3>2
  <2>4. QED
    BY <2>2, <2>3 DEF Standing
<1>5. ASSUME k # "close", NoClose(q) PROVE NoClose(Append(q, k))
  BY <1>1, <1>2, <1>5 DEF NoClose, Contains
<1>6. QED
  BY <1>3, <1>4, <1>5

LEMMA StandingShrinks ==
    ASSUME NEW q \in Seq(Messages), q # <<>>
    PROVE  /\ NoClose(q) => NoClose(Tail(q))
           /\ Standing(q) => Standing(Tail(q)) \/ (Head(q) = "open" /\ NoClose(Tail(q)))
<1>1. /\ Len(q) \in Nat /\ Len(q) >= 1 /\ Head(q) = q[1]
      /\ Len(Tail(q)) = Len(q) - 1
      /\ \A j \in 1..Len(Tail(q)) : Tail(q)[j] = q[j + 1]
  BY HeadTailProperties
<1>2. \A j \in 1..Len(Tail(q)) : j + 1 \in 1..Len(q)
  BY <1>1
<1>3. ASSUME NoClose(q) PROVE NoClose(Tail(q))
  BY <1>1, <1>2, <1>3 DEF NoClose, Contains
<1>4. ASSUME Standing(q), ~Standing(Tail(q)) PROVE Head(q) = "open" /\ NoClose(Tail(q))
  <2>1. PICK i \in 1..Len(q) : q[i] = "open" /\ \A j \in 1..Len(q) : j > i => q[j] # "close"
    BY <1>4 DEF Standing
  <2>2. CASE i = 1
    <3>1. \A j \in 1..Len(Tail(q)) : Tail(q)[j] # "close"
      BY <1>1, <1>2, <2>1, <2>2
    <3>2. QED
      BY <1>1, <2>1, <2>2, <3>1 DEF NoClose, Contains
  <2>3. CASE i # 1
    <3>1. i - 1 \in 1..Len(Tail(q)) /\ Tail(q)[i - 1] = "open"
      BY <1>1, <2>1, <2>3
    <3>2. ASSUME NEW j \in 1..Len(Tail(q)), j > i - 1 PROVE Tail(q)[j] # "close"
      <4>1. j + 1 > i /\ j + 1 \in 1..Len(q)
        BY <1>1, <1>2, <3>2
      <4>2. QED
        BY <1>1, <2>1, <4>1
    <3>3. Standing(Tail(q))
      BY <3>1, <3>2 DEF Standing
    <3>4. QED
      BY <1>4, <3>3
  <2>4. QED
    BY <2>2, <2>3
<1>5. QED
  BY <1>3, <1>4

(* Nothing but a close can take a connection from a tab.                   *)
LEMMA StillHeard ==
    ASSUME InboxTyped, NEW from, NEW k \in Messages, k # "close", NEW u \in Tabs
    PROVE  /\ Standing(inbox[u]) => Standing(Posted(from, k)[u])
           /\ NoClose(inbox[u]) => NoClose(Posted(from, k)[u])
           /\ k = "open" /\ u \in desired \ {from} => Standing(Posted(from, k)[u])
<1>1. inbox[u] \in Seq(Messages)
  BY DEF InboxTyped
<1>2. Posted(from, k)[u] = IF u \in desired \ {from} THEN Append(inbox[u], k) ELSE inbox[u]
  BY DEF Posted
<1>3. /\ Standing(Append(inbox[u], "open"))
      /\ Standing(inbox[u]) => Standing(Append(inbox[u], k))
      /\ NoClose(inbox[u]) => NoClose(Append(inbox[u], k))
  BY <1>1, StandingGrows
<1>4. QED
  BY <1>2, <1>3

-----------------------------------------------------------------------------
LEMMA WithdrawKeeps ==
    ASSUME LockSide, NEW t \in Tabs, Withdraw(t), NEW u, u # t, Contains(waiting, u)
    PROVE  Contains(waiting', u)
<1>1. CASE ~Contains(waiting, t)
  BY <1>1 DEF Withdraw
<1>2. CASE Contains(waiting, t)
  <2>1. PICK i \in 1..Len(waiting) : waiting[i] = t /\ waiting' = RemoveAt(waiting, i)
    BY <1>2 DEF Withdraw, LockSide
  <2>2. /\ Len(waiting') = Len(waiting) - 1
        /\ \A j \in 1..(Len(waiting) - 1) :
              waiting'[j] = IF j < i THEN waiting[j] ELSE waiting[j + 1]
    BY <2>1, Removed DEF LockSide
  <2>3. PICK k \in 1..Len(waiting) : waiting[k] = u
    BY DEF Contains
  <2> Len(waiting) \in Nat
    BY DEF LockSide
  <2>4. CASE k < i
    <3>1. k \in 1..Len(waiting') /\ waiting'[k] = u
      BY <2>2, <2>3, <2>4
    <3>2. QED
      BY <3>1 DEF Contains
  <2>5. CASE k > i
    <3>1. k - 1 \in 1..Len(waiting') /\ waiting'[k - 1] = u
      BY <2>2, <2>3, <2>5
    <3>2. QED
      BY <3>1 DEF Contains
  <2>6. k # i
    BY <2>1, <2>3
  <2>7. QED
    BY <2>4, <2>5, <2>6
<1>3. QED
  BY <1>1, <1>2

(* leader.ts: a tab that wants a connection holds the lock or queues for it.*)
LEMMA InLineStep ==
    ASSUME Typed, InLine, [Next]_vars
    PROVE  InLine'
<1> USE DEF Typed, LockSide
<1>1. ASSUME UNCHANGED <<desired, lock, waiting>> PROVE InLine'
  BY <1>1 DEF InLine
<1>2. ASSUME NEW t \in Tabs, Connect(t) PROVE InLine'
  <2>1. lock' = lock /\ desired' = desired \cup {t}
    BY <1>2 DEF Connect
  <2>2. CASE lock = t \/ Contains(waiting, t)
    BY <1>2, <2>1, <2>2 DEF Connect, InLine
  <2>3. CASE ~(lock = t \/ Contains(waiting, t))
    <3>1. waiting' = Append(waiting, t)
      BY <1>2, <2>3 DEF Connect
    <3>2. Contains(waiting', t) /\ \A e : Contains(waiting, e) => Contains(waiting', e)
      BY <3>1, ArrivesIn
    <3>3. QED
      BY <2>1, <3>2 DEF InLine
  <2>4. QED
    BY <2>2, <2>3
<1>3. ASSUME NEW t \in Tabs, LetGo(t) PROVE InLine'
  <2>1. desired' = desired \ {t} /\ lock' = (IF lock = t THEN NoTab ELSE lock) /\ Withdraw(t)
    BY <1>3 DEF LetGo, ReleaseLock
  <2>2. \A u : u # t /\ Contains(waiting, u) => Contains(waiting', u)
    BY <2>1, WithdrawKeeps
  <2>3. QED
    BY <2>1, <2>2 DEF InLine
<1>4. ASSUME NEW t \in Tabs, BecomeLeader(t) PROVE InLine'
  <2>1. /\ waiting # <<>> /\ Head(waiting) = t /\ waiting' = Tail(waiting)
        /\ lock = NoTab /\ lock' = t /\ desired' = desired
    BY <1>4 DEF BecomeLeader
  <2>2. \A u : Contains(waiting, u) /\ u # t => Contains(waiting', u)
    BY <2>1, LeavesFrom
  <2>3. QED
    BY <2>1, <2>2, TabsAssumption DEF InLine
<1>5. CASE SessionEnds \/ SessionReplaced \/ ServerDown \/ ServerUp \/ Change \/ UNCHANGED vars
  BY <1>1, <1>5 DEF SessionEnds, SessionReplaced, ServerDown, ServerUp, Change, vars, browser
<1>6. ASSUME NEW t \in Tabs, OpenTab(t) \/ Login(t) PROVE InLine'
  <2>1. Connect(t) \/ UNCHANGED <<desired, lock, waiting>>
    BY <1>6 DEF OpenTab, Login, browser
  <2>2. QED
    BY <1>1, <1>2, <2>1
<1>7. ASSUME NEW t \in Tabs, CloseTab(t) \/ Logout(t) PROVE InLine'
  BY <1>3, <1>7 DEF CloseTab, Logout
<1>8. ASSUME NEW t \in Tabs, Navigate(t) \/ TimerFires(t) \/ ProbeSettles(t) PROVE InLine'
  <2>1. Connect(t) \/ LetGo(t) \/ UNCHANGED <<desired, lock, waiting>>
    BY <1>8 DEF Navigate, TimerFires, ProbeSettles, Disconnect, browser
  <2>2. QED
    BY <1>1, <1>2, <1>3, <2>1
<1>9. ASSUME NEW t \in Tabs,
             SocketOpens(t) \/ SocketFails(t) \/ SocketCloses(t) \/ SocketMessage(t) \/ LeaderHears(t)
             \/ FollowerHearsEvent(t) \/ FollowerHearsOpen(t) \/ FollowerHearsClose(t) \/ FollowerIgnoresHello(t)
      PROVE  InLine'
  BY <1>1, <1>9 DEF SocketOpens, SocketFails, SocketCloses, SocketMessage, LeaderHears,
     FollowerHearsEvent, FollowerHearsOpen, FollowerHearsClose, FollowerIgnoresHello
<1>10. QED
  BY <1>4, <1>5, <1>6, <1>7, <1>8, <1>9 DEF Next, Browser

-----------------------------------------------------------------------------
(* App.svelte: until a session ends, every open tab shows the app, with the*)
(* token its probes knew.                                                  *)
LEMMA FreshStep ==
    ASSUME Typed, Typed', Fresh, [Next]_vars
    PROVE  Fresh'
<1> USE DEF Typed, World, LockSide, AppSide
<1>1. signedOut' = FALSE => signedOut = FALSE
  BY DEF Next, Browser, SessionEnds, SessionReplaced, ServerDown, ServerUp, Change, OpenTab, CloseTab,
     Login, Logout, Navigate, TimerFires, ProbeSettles, BecomeLeader, SocketOpens, SocketFails,
     SocketCloses, SocketMessage, LeaderHears, FollowerHearsEvent, FollowerHearsOpen,
     FollowerHearsClose, FollowerIgnoresHello, vars
<1>2. SUFFICES ASSUME signedOut = FALSE, signedOut' = FALSE PROVE Fresh'
  <2>1. signedOut' = TRUE => Fresh'
    BY DEF Fresh
  <2>2. QED
    BY <1>1, <2>1
<1>3. /\ token = "valid"
      /\ \A t \in Tabs :
            /\ page[t] \in {"closed", "app"} /\ probe[t] \in {"idle", "token"}
            /\ page[t] = "app" => t \in desired
  BY <1>2 DEF Fresh
<1>4. ASSUME UNCHANGED <<page, token, desired, probe>> PROVE Fresh'
  BY <1>3, <1>4 DEF Fresh
<1>5. ASSUME NEW t \in Tabs, OpenTab(t) PROVE Fresh'
  BY <1>3, <1>5 DEF OpenTab, Connect, app, Fresh
<1>6. ASSUME NEW t \in Tabs, CloseTab(t) PROVE Fresh'
  BY <1>3, <1>6 DEF CloseTab, LetGo, Fresh
<1>7. ASSUME NEW t \in Tabs, Navigate(t) \/ TimerFires(t) PROVE Fresh'
  BY <1>3, <1>7 DEF Navigate, TimerFires, Connect, Fresh
<1>8. ASSUME NEW t \in Tabs, ProbeSettles(t) PROVE Fresh'
  <2>1. ~Changed(t) /\ ~Unauthorized
    BY <1>3 DEF Changed, Unauthorized
  <2>2. QED
    BY <1>3, <1>8, <2>1 DEF ProbeSettles, browser, Fresh
<1>9. ASSUME NEW t \in Tabs, SocketFails(t) PROVE Fresh'
  BY <1>3, <1>9 DEF SocketFails, Fresh
<1>10. ASSUME NEW t \in Tabs, Login(t) \/ Logout(t) PROVE Fresh'
  BY <1>2, <1>3, <1>10 DEF Login, Logout
<1>11. CASE SessionEnds \/ SessionReplaced
  BY <1>2, <1>11 DEF SessionEnds, SessionReplaced
<1>12. CASE ServerDown \/ ServerUp \/ Change \/ UNCHANGED vars
  BY <1>4, <1>12 DEF ServerDown, ServerUp, Change, vars, browser, app
<1>13. ASSUME NEW t \in Tabs, BecomeLeader(t) \/ SocketOpens(t) \/ SocketCloses(t) \/ SocketMessage(t)
       PROVE  Fresh'
  BY <1>4, <1>13 DEF BecomeLeader, SocketOpens, SocketCloses, SocketMessage, app
<1>14. ASSUME NEW t \in Tabs,
              LeaderHears(t) \/ FollowerHearsEvent(t) \/ FollowerHearsOpen(t) \/ FollowerHearsClose(t)
              \/ FollowerIgnoresHello(t)
       PROVE  Fresh'
  BY <1>4, <1>14 DEF LeaderHears, FollowerHearsEvent, FollowerHearsOpen, FollowerHearsClose,
     FollowerIgnoresHello, app
<1>15. QED
  BY <1>5, <1>6, <1>7, <1>8, <1>9, <1>10, <1>11, <1>12, <1>13, <1>14 DEF Next, Browser
-----------------------------------------------------------------------------
(* A leader without a socket has its retry, or the answer it waits for.    *)
LEMMA TryingStep ==
    ASSUME Typed, OneSocket, Fresh, Fresh', Trying, [Next]_vars
    PROVE  Trying'
<1> USE TabsAssumption DEF Typed, World, LockSide, AppSide, Sockets
<1>1. ~signedOut' => ~signedOut
  BY DEF Next, Browser, SessionEnds, SessionReplaced, ServerDown, ServerUp, Change, OpenTab, CloseTab,
     Login, Logout, Navigate, TimerFires, ProbeSettles, BecomeLeader, SocketOpens, SocketFails,
     SocketCloses, SocketMessage, LeaderHears, FollowerHearsEvent, FollowerHearsOpen,
     FollowerHearsClose, FollowerIgnoresHello, vars
<1>2. SUFFICES ASSUME ~signedOut, ~signedOut' PROVE Trying'
  BY <1>1 DEF Trying
<1>3. /\ token = "valid" /\ token' = "valid"
      /\ \A t \in Tabs : page[t] \in {"closed", "app"} /\ probe[t] \in {"idle", "token"}
  BY <1>2 DEF Fresh
<1>4. ASSUME UNCHANGED <<lock, timer, probe>>,
             \A t \in Tabs : sock[t] # "none" => sock'[t] # "none"
      PROVE  Trying'
  BY <1>2, <1>4 DEF Trying
<1>5. ASSUME NEW t \in Tabs, Connect(t), probe' = probe, timer \ {t} \subseteq timer' PROVE Trying'
  BY <1>2, <1>5 DEF Connect, Trying
<1>6. ASSUME NEW t \in Tabs, CloseTab(t) PROVE Trying'
  BY <1>2, <1>6 DEF CloseTab, LetGo, ReleaseLock, Trying
<1>7. ASSUME NEW t \in Tabs, OpenTab(t) PROVE Trying'
  BY <1>3, <1>5, <1>7 DEF OpenTab, app
<1>8. ASSUME NEW t \in Tabs, Navigate(t) \/ TimerFires(t) PROVE Trying'
  BY <1>3, <1>5, <1>8 DEF Navigate, TimerFires
<1>9. ASSUME NEW t \in Tabs, ProbeSettles(t) PROVE Trying'
  <2>1. ~Changed(t) /\ ~Unauthorized
    BY <1>3 DEF Changed, Unauthorized
  <2>2. /\ probe' = [probe EXCEPT ![t] = "idle"] /\ lock' = lock /\ sock' = sock /\ Schedule(t)
    BY <1>9, <2>1 DEF ProbeSettles, browser
  <2>3. CASE lock = t
    BY <1>3, <2>2, <2>3 DEF Schedule, HasLiveConnection, Trying
  <2>4. CASE lock # t
    BY <1>2, <2>2, <2>4 DEF Schedule, Trying
  <2>5. QED
    BY <2>3, <2>4
<1>10. ASSUME NEW t \in Tabs, BecomeLeader(t) PROVE Trying'
  BY <1>10 DEF BecomeLeader, Trying
<1>11. ASSUME NEW t \in Tabs, SocketFails(t) PROVE Trying'
  <2>1. lock = t /\ lock' = t /\ probe'[t] = "token"
    BY <1>3, <1>11 DEF SocketFails, OneSocket
  <2>2. QED
    BY <2>1 DEF Trying
<1>12. ASSUME NEW t \in Tabs, SocketCloses(t) PROVE Trying'
  <2>1. lock = t /\ lock' = t /\ sock'[t] = "none"
    BY <1>12 DEF SocketCloses, OneSocket
  <2>2. t \in timer'
    BY <1>3, <1>12, <2>1 DEF SocketCloses, Schedule, HasLiveConnection
  <2>3. QED
    BY <2>1, <2>2 DEF Trying
<1>13. ASSUME NEW t \in Tabs, Login(t) \/ Logout(t) PROVE Trying'
  BY <1>2, <1>3, <1>13 DEF Login, Logout
<1>14. CASE SessionEnds \/ SessionReplaced
  BY <1>2, <1>14 DEF SessionEnds, SessionReplaced
<1>15. CASE ServerDown \/ ServerUp \/ Change \/ UNCHANGED vars
  BY <1>4, <1>15 DEF ServerDown, ServerUp, Change, Dying, vars, browser, app
<1>16. ASSUME NEW t \in Tabs, SocketOpens(t) \/ SocketMessage(t) PROVE Trying'
  BY <1>4, <1>16 DEF SocketOpens, SocketMessage, app
<1>17. ASSUME NEW t \in Tabs,
              LeaderHears(t) \/ FollowerHearsEvent(t) \/ FollowerHearsOpen(t) \/ FollowerHearsClose(t)
              \/ FollowerIgnoresHello(t)
       PROVE  Trying'
  BY <1>4, <1>17 DEF LeaderHears, FollowerHearsEvent, FollowerHearsOpen, FollowerHearsClose,
     FollowerIgnoresHello, app
<1>18. QED
  BY <1>6, <1>7, <1>8, <1>9, <1>10, <1>11, <1>12, <1>13, <1>14, <1>15, <1>16, <1>17 DEF Next, Browser

-----------------------------------------------------------------------------
(* leader.ts: while the shared socket is up, every other tab was told so,  *)
(* will be, or has its hello in the leader's inbox.                        *)
LEMMA ReachedStep ==
    ASSUME Typed, OneSocket, Reached, [Next]_vars
    PROVE  Reached'
<1> USE TabsAssumption DEF Typed, LockSide, Sockets
<1>1. ASSUME lock' = NoTab \/ sock'[lock'] # "open" PROVE Reached'
  BY <1>1 DEF Reached
<1>2. ASSUME UNCHANGED <<lock, desired, sock, inbox, followerOpen>> PROVE Reached'
  BY <1>2 DEF Reached, Hears
<1>3. InboxTyped
  OBVIOUS
<1>4. ASSUME NEW t \in Tabs, sock[t] \in {"connecting", "dead"} PROVE lock = t
  BY <1>4 DEF OneSocket
<1>5. CASE SessionEnds \/ SessionReplaced \/ ServerDown
  <2>1. \A t \in Tabs : sock'[t] # "open"
    BY <1>5, DyingTyped DEF SessionEnds, SessionReplaced, ServerDown
  <2>2. lock' = lock
    BY <1>5 DEF SessionEnds, SessionReplaced, ServerDown
  <2>3. QED
    BY <1>1, <2>1, <2>2
<1>6. CASE ServerUp \/ Change \/ UNCHANGED vars
  BY <1>2, <1>6 DEF ServerUp, Change, vars, browser
<1>7. ASSUME NEW from, NEW k \in Messages, k # "close", inbox' = Posted(from, k),
             UNCHANGED <<lock, desired, sock, followerOpen>>
      PROVE  Reached'
  <2>1. \A u \in Tabs : \A e : Contains(inbox[u], e) => Contains(inbox'[u], e)
    BY <1>3, <1>7, PostedFacts
  <2>2. \A u \in Tabs : /\ Standing(inbox[u]) => Standing(inbox'[u])
                        /\ NoClose(inbox[u]) => NoClose(inbox'[u])
    BY <1>3, <1>7, StillHeard
  <2>3. QED
    BY <1>7, <2>1, <2>2 DEF Reached, Hears
<1>8. ASSUME NEW t \in Tabs, Connect(t) PROVE Reached'
  <2>1. lock' = lock /\ followerOpen' = followerOpen /\ desired' = desired \cup {t}
    BY <1>8 DEF Connect
  <2>2. SUFFICES ASSUME lock # NoTab, sock'[lock] = "open", NEW u \in desired', u # lock
                 PROVE  Contains(inbox'[lock], "hello") \/ Hears(u)'
    BY <2>1 DEF Reached
  <2>3. sock[lock] = "open" /\ lock \in desired /\ lock \in Tabs /\ u \in Tabs
    BY <1>8, <2>1, <2>2 DEF Connect
  <2>4. inbox' = inbox \/ inbox' = Posted(t, "hello")
    BY <1>8 DEF Connect
  <2>5. /\ \A v \in Tabs : \A e : Contains(inbox[v], e) => Contains(inbox'[v], e)
        /\ Standing(inbox[u]) => Standing(inbox'[u])
        /\ NoClose(inbox[u]) => NoClose(inbox'[u])
    <3>1. "hello" \in Messages /\ "hello" # "close"
      BY DEF Messages
    <3>2. \A v \in Tabs : \A e : Contains(inbox[v], e) => Contains(Posted(t, "hello")[v], e)
      BY <1>3, <3>1, PostedFacts
    <3>3. /\ Standing(inbox[u]) => Standing(Posted(t, "hello")[u])
          /\ NoClose(inbox[u]) => NoClose(Posted(t, "hello")[u])
      BY <1>3, <2>3, <3>1, StillHeard
    <3>4. QED
      BY <2>4, <3>2, <3>3
  <2>6. CASE u \in desired
    <3>1. Contains(inbox[lock], "hello") \/ Hears(u)
      BY <2>2, <2>3, <2>6 DEF Reached
    <3>2. QED
      BY <2>1, <2>3, <2>5, <3>1 DEF Hears
  <2>7. CASE u \notin desired
    <3>1. u = t /\ inbox' = Posted(t, "hello")
      BY <1>8, <2>1, <2>2, <2>7 DEF Connect
    <3>2. "hello" \in Messages
      BY DEF Messages
    <3>3. Contains(inbox'[lock], "hello")
      BY <1>3, <2>2, <2>3, <3>1, <3>2, PostedFacts
    <3>4. QED
      BY <3>3
  <2>8. QED
    BY <2>6, <2>7
<1>9. ASSUME NEW t \in Tabs, LetGo(t),
             \A u \in Tabs : sock'[u] = "open" => sock[u] = "open",
             lock # t => \A u \in Tabs : u # t => inbox'[u] = inbox[u]
      PROVE  Reached'
  <2>1. /\ desired' = desired \ {t} /\ followerOpen' = followerOpen \ {t}
        /\ lock' = IF lock = t THEN NoTab ELSE lock
    BY <1>9 DEF LetGo, ReleaseLock
  <2>2. SUFFICES ASSUME lock' # NoTab, sock'[lock'] = "open", NEW u \in desired', u # lock'
                 PROVE  Contains(inbox'[lock'], "hello") \/ Hears(u)'
    BY DEF Reached
  <2>3. lock' = lock /\ lock # t /\ u # t /\ u \in desired /\ u \in Tabs /\ lock \in Tabs /\ lock # NoTab
    BY <2>1, <2>2
  <2>4. inbox'[u] = inbox[u] /\ inbox'[lock] = inbox[lock] /\ sock[lock] = "open"
    BY <1>9, <2>2, <2>3
  <2>5. Contains(inbox[lock], "hello") \/ Hears(u)
    BY <2>2, <2>3, <2>4 DEF Reached
  <2>6. QED
    BY <2>1, <2>3, <2>4, <2>5 DEF Hears
(* Only the leader says that the connection is gone.                       *)
<1>10. ASSUME NEW t \in Tabs, lock # t,
              inbox' = [(IF Readable(t) THEN Posted(t, "close") ELSE inbox) EXCEPT ![t] = <<>>]
       PROVE  \A u \in Tabs : u # t => inbox'[u] = inbox[u]
  <2>1. ~Readable(t)
    BY <1>10 DEF Readable, OneSocket
  <2>2. QED
    BY <1>3, <1>10, <2>1 DEF InboxTyped
<1>11. ASSUME NEW t \in Tabs, Disconnect(t) PROVE Reached'
  BY <1>9, <1>10, <1>11 DEF Disconnect, TeardownSocket
<1>12. ASSUME NEW t \in Tabs, OpenTab(t) PROVE Reached'
  BY <1>2, <1>8, <1>12 DEF OpenTab, browser
<1>13. ASSUME NEW t \in Tabs, CloseTab(t) PROVE Reached'
  <2>1. \A u \in Tabs : u # t => inbox'[u] = inbox[u]
    BY <1>3, <1>13 DEF CloseTab, InboxTyped
  <2>2. QED
    BY <1>9, <1>13, <2>1 DEF CloseTab
<1>14. ASSUME NEW t \in Tabs, Login(t) PROVE Reached'
  BY <1>8, <1>14 DEF Login
<1>15. ASSUME NEW t \in Tabs, Logout(t) PROVE Reached'
  <2>1. \A u \in Tabs : sock'[u] = "open" => sock[u] = "open"
    BY <1>15, DyingTyped DEF Logout
  <2>2. QED
    BY <1>9, <1>10, <1>15, <2>1 DEF Logout
<1>16. ASSUME NEW t \in Tabs, Navigate(t) \/ TimerFires(t) PROVE Reached'
  BY <1>8, <1>11, <1>16 DEF Navigate, TimerFires
<1>17. ASSUME NEW t \in Tabs, ProbeSettles(t) PROVE Reached'
  BY <1>2, <1>11, <1>17 DEF ProbeSettles, browser
<1>18. ASSUME NEW t \in Tabs, BecomeLeader(t) PROVE Reached'
  BY <1>1, <1>18 DEF BecomeLeader
<1>19. ASSUME NEW t \in Tabs, SocketOpens(t) PROVE Reached'
  <2>1. /\ lock = t /\ UNCHANGED <<lock, desired, followerOpen>> /\ inbox' = Posted(t, "open")
    BY <1>4, <1>19 DEF SocketOpens
  <2>2. "open" \in Messages /\ "open" # "close"
    BY DEF Messages
  <2>3. \A u \in desired \ {t} : Standing(inbox'[u])
    BY <1>3, <2>1, <2>2, StillHeard
  <2>4. QED
    BY <2>1, <2>3 DEF Reached, Hears
<1>20. ASSUME NEW t \in Tabs, SocketFails(t) \/ SocketCloses(t) PROVE Reached'
  BY <1>1, <1>4, <1>20 DEF SocketFails, SocketCloses
<1>21. ASSUME NEW t \in Tabs, SocketMessage(t) PROVE Reached'
  BY <1>7, <1>21 DEF SocketMessage, Messages
<1>22. ASSUME NEW t \in Tabs, LeaderHears(t) PROVE Reached'
  <2>1. lock = t /\ UNCHANGED <<lock, desired, sock, followerOpen>> /\ inbox[t] # <<>>
    BY <1>22 DEF LeaderHears
  <2>2. CASE Answers(t)
    <3>1. inbox' = [Posted(t, "open") EXCEPT ![t] = Tail(inbox[t])]
      BY <1>22, <2>2 DEF LeaderHears
    <3>2. "open" \in Messages /\ "open" # "close"
      BY DEF Messages
    <3>3. Posted(t, "open") \in [Tabs -> Seq(Messages)]
      BY <1>3, <3>2, PostedFacts
    <3>4. \A u \in desired \ {t} : Standing(Posted(t, "open")[u])
      BY <1>3, <3>2, StillHeard
    <3>5. \A u \in desired \ {t} : inbox'[u] = Posted(t, "open")[u]
      BY <3>1, <3>3
    <3>6. QED
      BY <2>1, <3>4, <3>5 DEF Reached, Hears
  <2>3. CASE ~Answers(t) /\ sock[t] = "open"
    <3>1. Heard(t) # "hello" /\ inbox' = Taken(t)
      BY <1>22, <2>3 DEF Answers, Readable, LeaderHears
    <3>2. /\ \A u \in Tabs : u # t => inbox'[u] = inbox[u]
          /\ Contains(inbox[t], "hello") => Contains(inbox'[t], "hello")
      BY <1>3, <2>1, <3>1, TakenFacts
    <3>3. QED
      BY <2>1, <3>2 DEF Reached, Hears
  <2>4. CASE sock[t] # "open"
    BY <1>1, <2>1, <2>4
  <2>5. QED
    BY <2>2, <2>3, <2>4
<1>23. ASSUME NEW t \in Tabs, lock # t, inbox[t] # <<>>, inbox' = Taken(t),
              UNCHANGED <<lock, desired, sock>>,
              followerOpen' \ {t} = followerOpen \ {t},
              Heard(t) = "open" => t \in followerOpen',
              Heard(t) # "close" /\ t \in followerOpen => t \in followerOpen'
       PROVE  Reached'
  <2>1. SUFFICES ASSUME lock # NoTab, sock[lock] = "open", NEW u \in desired, u # lock
                 PROVE  Contains(inbox'[lock], "hello") \/ Hears(u)'
    BY <1>23 DEF Reached
  <2>2. Contains(inbox[lock], "hello") \/ Hears(u)
    BY <2>1 DEF Reached
  <2>3. \A v \in Tabs : v # t => inbox'[v] = inbox[v]
    BY <1>3, <1>23, TakenFacts
  <2>4. CASE u # t
    BY <1>23, <2>1, <2>2, <2>3, <2>4 DEF Hears
  <2>5. CASE u = t
    <3>1. inbox[t] \in Seq(Messages) /\ inbox'[t] = Tail(inbox[t])
      BY <1>3, <1>23, TakenFacts DEF InboxTyped
    <3>2. /\ NoClose(inbox[t]) => NoClose(Tail(inbox[t]))
          /\ Standing(inbox[t]) =>
                Standing(Tail(inbox[t])) \/ (Heard(t) = "open" /\ NoClose(Tail(inbox[t])))
      BY <1>23, <3>1, StandingShrinks DEF Heard
    <3>3. NoClose(inbox[t]) => Heard(t) # "close"
      BY <1>23, <3>1 DEF NoClose, Contains, Heard
    <3>4. QED
      BY <1>23, <2>1, <2>2, <2>3, <2>5, <3>1, <3>2, <3>3 DEF Hears
  <2>6. QED
    BY <2>4, <2>5
<1>24. ASSUME NEW t \in Tabs, FollowerHearsEvent(t) \/ FollowerIgnoresHello(t) PROVE Reached'
  BY <1>23, <1>24 DEF FollowerHearsEvent, FollowerIgnoresHello
<1>25. ASSUME NEW t \in Tabs, FollowerHearsOpen(t) PROVE Reached'
  BY <1>23, <1>25 DEF FollowerHearsOpen
<1>26. ASSUME NEW t \in Tabs, FollowerHearsClose(t) PROVE Reached'
  BY <1>23, <1>26 DEF FollowerHearsClose, ReportsLoss
<1>27. QED
  BY <1>5, <1>6, <1>12, <1>13, <1>14, <1>15, <1>16, <1>17, <1>18, <1>19, <1>20, <1>21, <1>22, <1>24, <1>25, <1>26 DEF Next, Browser
-----------------------------------------------------------------------------
RInv == LInv /\ InLine /\ Fresh /\ Trying /\ Reached

LEMMA InitRInv == Init => RInv
<1>1. Init => InLine /\ Fresh /\ Trying /\ Reached
  BY DEF Init, InLine, Fresh, Trying, Reached
<1>2. QED
  BY InitLInv, <1>1 DEF RInv

LEMMA RInvStep ==
    ASSUME RInv, [Next]_vars
    PROVE  RInv'
<1>1. LInv'
  BY LInvStep DEF RInv
<1>2. Typed /\ Typed' /\ OneSocket
  <2>1. LInv => Typed /\ OneSocket
    BY TypeOKParts DEF LInv, Typed
  <2>2. Typed'
    BY <1>1 DEF LInv, Typed, TypeOK, Queued, World, LockSide, Sockets, AppSide, InboxTyped
  <2>3. QED
    BY <2>1, <2>2 DEF RInv
<1>3. InLine' /\ Reached'
  BY <1>2, InLineStep, ReachedStep DEF RInv
<1>4. Fresh'
  BY <1>2, FreshStep DEF RInv
<1>5. Trying'
  BY <1>2, <1>4, TryingStep DEF RInv
<1>6. QED
  BY <1>1, <1>3, <1>4, <1>5 DEF RInv

LEMMA Served == Spec => []RInv
BY InitRInv, RInvStep, PTL DEF Spec

LEMMA RestIsConnected ==
    ASSUME RInv
    PROVE  RestingTabsAreConnected
<1> USE TabsAssumption DEF RInv, LInv, TypeOK
<1>1. SUFFICES ASSUME AtRest, ~signedOut, NEW t \in Tabs, page[t] = "app"
               PROVE  Connected(t)
  BY DEF RestingTabsAreConnected
<1>2. t \in desired
  BY <1>1 DEF Fresh
<1>3. lock # NoTab
  BY <1>1, <1>2 DEF AtRest, InLine, Contains
<1>4. lock \in Tabs /\ sock[lock] \in {"none", "open"}
  BY <1>1, <1>3 DEF AtRest
<1>5. sock[lock] = "open"
  BY <1>1, <1>3, <1>4 DEF AtRest, Trying
<1>6. CASE t = lock
  BY <1>5, <1>6 DEF Connected
<1>7. CASE t # lock
  <2>1. inbox[lock] = <<>> /\ inbox[t] = <<>>
    BY <1>1, <1>4 DEF AtRest
  <2>2. Contains(inbox[lock], "hello") \/ Hears(t)
    BY <1>2, <1>3, <1>5, <1>7 DEF Reached
  <2>3. t \in followerOpen
    BY <2>1, <2>2 DEF Contains, Hears, Standing
  <2>4. QED
    BY <1>7, <2>3 DEF Connected
<1>8. QED
  BY <1>6, <1>7
-----------------------------------------------------------------------------
(* Every variable of the tabs, the lock and the channel keeps its type: in *)
(* particular only a listening tab holds the lock or was told of a         *)
(* connection.                                                             *)
THEOREM TabsTyped == Spec => []TypeOK
<1>1. LInv => TypeOK
  BY DEF LInv
<1>2. QED
  BY Invariant, <1>1, PTL

(* leader.ts, App.svelte: a connected tab has caught up once nothing is on *)
(* its way to it, however often the lock changed hands, the server went or *)
(* the session ended; and while no session ended, tabs that are cut off    *)
(* still have a retry, an answer or a message under way.                   *)
THEOREM NoTabMisses == Spec => []TabsCatchUp
<1>1. ASSUME RInv PROVE TabsCatchUp
  <2>1. ASSUME NEW t \in Tabs, Settled(t) PROVE ~Coming(t)
    BY <2>1 DEF Settled, Coming
  <2>2. \A t \in desired : t \in Tabs /\ (Settled(t) => ~Behind(t))
    BY <1>1, <2>1 DEF RInv, LInv, TypeOK, Excuses, Settled
  <2>3. ListsCatchUp
    BY <2>2 DEF ListsCatchUp, Behind
  <2>4. ViewsCatchUp
    BY <1>1, <2>2 DEF ViewsCatchUp, Behind, RInv, LInv, TypeOK
  <2>5. QED
    BY <1>1, <2>3, <2>4, RestIsConnected DEF TabsCatchUp
<1>2. QED
  BY Served, <1>1, PTL
===============================================================================
