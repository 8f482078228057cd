------------------------------ MODULE LeaderTabs ------------------------------
(***************************************************************************)
(* One event socket per browser: web/src/lib/sync/leader.ts with the       *)
(* callbacks of web/src/App.svelte, for the tabs of one browser.  The tab  *)
(* that holds the Web Lock owns the socket and relays to the others over a *)
(* BroadcastChannel.                                                       *)
(*                                                                         *)
(* External: the lock manager grants an exclusive lock in the order of     *)
(* requests and frees it when its tab dies; the channel delivers each      *)
(* message once to every other tab that listens.  Browsers without either  *)
(* (each tab its own leader) are left out.                                 *)
(***************************************************************************)
EXTENDS Naturals, Sequences, SequencesExt

CONSTANTS
    Tabs,
    NoTab,
    MaxTrouble  \* crashes, outages and ended sessions (bound)

ASSUME TabsAssumption == NoTab \notin Tabs /\ MaxTrouble \in Nat

VARIABLES
    page,           \* what a tab shows
    token,          \* lific_token in localStorage, shared by the tabs
    server,
    trouble,        \* how much is still to go wrong
    lock, waiting,  \* the Web Lock and the requests queued for it
    desired,        \* tabs that called connect() and listen to the channel
    sock,           \* readyState of a tab's socket; a dead one is still OPEN
    wire,           \* sockets with a frame on its way
    inbox,          \* channel messages on their way to a tab
    followerOpen,
    needsResync, timer, probe,  \* App.svelte: realtimeNeedsResync,
                                \* realtimeReconnect, the me() of a failed attempt
    lists,          \* tabs whose read model is current
    met,            \* history: tabs told of a connection since connect()
    missed,         \* history: those whose other views do not show a change since
    signedOut       \* history: a session ended, or was replaced

browser == <<lock, waiting, desired, sock, wire, inbox, followerOpen>>
app == <<needsResync, timer, probe>>
shown == <<lists, met, missed>>
vars == <<page, token, server, trouble, browser, app, shown, signedOut>>

Messages == {"event", "open", "close", "hello"}

TypeOK ==
    /\ page \in [Tabs -> {"closed", "login", "app"}]
    /\ token \in {"none", "valid", "ended"}
    /\ server \in {"up", "down"}
    /\ trouble \in 0..MaxTrouble
    /\ lock \in desired \cup {NoTab}
    /\ waiting \in Seq(Tabs)
    /\ desired \subseteq Tabs
    /\ sock \in [Tabs -> {"none", "connecting", "open", "dead"}]
    /\ wire \subseteq {t \in Tabs : sock[t] = "open"}
    /\ inbox \in [Tabs -> Seq(Messages)]
    /\ followerOpen \subseteq desired
    /\ needsResync \subseteq Tabs /\ timer \subseteq Tabs
    /\ probe \in [Tabs -> {"idle", "none", "token", "old"}]
    /\ lists \subseteq Tabs
    /\ met \subseteq desired /\ missed \subseteq met
    /\ signedOut \in BOOLEAN

-----------------------------------------------------------------------------
(* The channel, the sync client and the session.                           *)
Posted(from, kind) ==
    [t \in Tabs |-> IF t \in desired \ {from} THEN Append(inbox[t], kind) ELSE inbox[t]]

(* A read goes through only when the server answers it.                    *)
Read(tabs) == IF server = "up" /\ token = "valid" THEN tabs ELSE {}

(* handleRealtimeOpen: the read model pulls, the other views refresh only  *)
(* on the resync.required of a reconnect.                                  *)
Resync(t, missing) ==
    /\ lists' = lists \cup Read({t})
    /\ missed' = missed \ Read({t} \cap missing)
    /\ needsResync' = missing \ {t}
    /\ met' = met \cup {t}

(* connect().                                                              *)
Connect(t) ==
    /\ desired' = desired \cup {t}
    /\ inbox' = IF t \in desired THEN inbox ELSE Posted(t, "hello")
    /\ sock' = IF lock = t /\ sock[t] = "none" THEN [sock EXCEPT ![t] = "connecting"] ELSE sock
    /\ waiting' = IF lock = t \/ Contains(waiting, t) THEN waiting ELSE Append(waiting, t)
    /\ UNCHANGED <<lock, wire, followerOpen>>

(* Mutant: the term ends and the socket is left to the browser.            *)
LeavesSocket(t) ==
    /\ sock' = sock
    /\ UNCHANGED wire

TeardownSocket(t) ==
    /\ sock' = [sock EXCEPT ![t] = "none"]
    /\ wire' = wire \ {t}

(* Mutant: the promise of the lock request is never resolved.              *)
KeepsTerm(t) == UNCHANGED lock

ReleaseLock(t) == lock' = IF lock = t THEN NoTab ELSE lock

(* The request of a tab that is still queued is aborted; it has at most one.*)
Withdraw(t) ==
    IF Contains(waiting, t)
    THEN \E i \in DOMAIN waiting : waiting[i] = t /\ waiting' = RemoveAt(waiting, i)
    ELSE UNCHANGED waiting

(* What a tab that stops wanting a connection forgets.                     *)
LetGo(t) ==
    /\ desired' = desired \ {t}
    /\ followerOpen' = followerOpen \ {t}
    /\ Withdraw(t)
    /\ ReleaseLock(t)
    /\ timer' = timer \ {t}
    /\ needsResync' = needsResync \ {t}
    /\ met' = met \ {t} /\ missed' = missed \ {t}

Readable(t) == sock[t] \in {"open", "dead"}

(* closeRealtimeSocket and disconnect().                                   *)
Disconnect(t) ==
    /\ TeardownSocket(t)
    /\ inbox' = [(IF Readable(t) THEN Posted(t, "close") ELSE inbox) EXCEPT ![t] = <<>>]
    /\ LetGo(t)

(* Mutant: who wants a connection is taken to have one.                    *)
Wanted(t) == t \in desired

HasLiveConnection(t) == IF lock = t THEN sock'[t] # "none" ELSE t \in desired

(* scheduleRealtimeReconnect, for a tab whose socket is gone.              *)
Schedule(t) ==
    timer' = IF token # "none" /\ ~HasLiveConnection(t) THEN timer \cup {t} ELSE timer

(* The stored token is replaced or removed: a probe that knew the old one. *)
Outdated == [t \in Tabs |-> IF probe[t] = "token" THEN "old" ELSE probe[t]]

Dying == [t \in Tabs |-> IF sock[t] = "open" THEN "dead" ELSE sock[t]]

-----------------------------------------------------------------------------
(* The people, the server and the network.                                 *)
OpenTab(t) ==
    /\ page[t] = "closed" /\ server = "up"
    /\ IF token = "valid"
       THEN /\ page' = [page EXCEPT ![t] = "app"]
            /\ Connect(t)
            /\ lists' = lists \cup {t}
            /\ UNCHANGED <<token, app, met, missed>>
       ELSE /\ page' = [page EXCEPT ![t] = "login"]
            /\ token' = "none"
            /\ probe' = Outdated
            /\ UNCHANGED <<browser, needsResync, timer, shown>>
    /\ UNCHANGED <<server, trouble, signedOut>>

(* A tab is closed or crashes: nothing is said, the browser frees the lock.*)
CloseTab(t) ==
    /\ page[t] # "closed" /\ trouble > 0
    /\ trouble' = trouble - 1
    /\ page' = [page EXCEPT ![t] = "closed"]
    /\ sock' = [sock EXCEPT ![t] = "none"] /\ wire' = wire \ {t}
    /\ inbox' = [inbox EXCEPT ![t] = <<>>]
    /\ LetGo(t)
    /\ probe' = [probe EXCEPT ![t] = "idle"]
    /\ lists' = lists \ {t}
    /\ UNCHANGED <<token, server, signedOut>>

Login(t) ==
    /\ page[t] = "login" /\ server = "up"
    /\ token' = "valid"
    /\ page' = [page EXCEPT ![t] = "app"]
    /\ probe' = Outdated
    /\ Connect(t)
    /\ lists' = lists \cup {t}
    /\ UNCHANGED <<server, trouble, needsResync, timer, met, missed, signedOut>>

(* The tab signs out: the other tabs are not told.                         *)
Logout(t) ==
    /\ page[t] = "app" /\ token = "valid" /\ server = "up" /\ trouble > 0
    /\ trouble' = trouble - 1
    /\ token' = "none" /\ signedOut' = TRUE
    /\ page' = [page EXCEPT ![t] = "login"]
    /\ probe' = Outdated
    /\ inbox' = [(IF Readable(t) THEN Posted(t, "close") ELSE inbox) EXCEPT ![t] = <<>>]
    /\ sock' = [Dying EXCEPT ![t] = "none"] /\ wire' = {}
    /\ LetGo(t)
    /\ UNCHANGED <<server, lists>>

(* Expiry, or a revocation from elsewhere: the token stays in the browser. *)
SessionEnds ==
    /\ token = "valid" /\ trouble > 0
    /\ trouble' = trouble - 1
    /\ token' = "ended" /\ signedOut' = TRUE
    /\ sock' = Dying /\ wire' = {}
    /\ UNCHANGED <<page, server, lock, waiting, desired, inbox, followerOpen, app, shown>>

(* A password change or a reauthentication swaps the session under the tabs.*)
SessionReplaced ==
    /\ token = "valid" /\ server = "up" /\ trouble > 0
    /\ \E t \in Tabs : page[t] = "app"
    /\ trouble' = trouble - 1
    /\ signedOut' = TRUE
    /\ probe' = Outdated
    /\ sock' = Dying /\ wire' = {}
    /\ UNCHANGED <<page, token, server, lock, waiting, desired, inbox, followerOpen, needsResync, timer, shown>>

ServerDown ==
    /\ server = "up" /\ trouble > 0
    /\ trouble' = trouble - 1
    /\ server' = "down"
    /\ sock' = Dying /\ wire' = {}
    /\ UNCHANGED <<page, token, lock, waiting, desired, inbox, followerOpen, app, shown, signedOut>>

ServerUp ==
    /\ server = "down"
    /\ server' = "up"
    /\ UNCHANGED <<page, token, trouble, browser, app, shown, signedOut>>

(* Somebody's write, published; one at a time is on its way (bound).       *)
Change ==
    /\ wire = {} /\ \A t \in Tabs : ~Contains(inbox[t], "event")
    /\ lists' = {} /\ missed' = met
    /\ wire' = {t \in Tabs : sock[t] = "open"}
    /\ UNCHANGED <<page, token, server, trouble, lock, waiting, desired, sock, inbox, followerOpen, app, met, signedOut>>

-----------------------------------------------------------------------------
(* syncRealtimeSocket, on every route change.                              *)
Navigate(t) ==
    /\ page[t] = "app"
    /\ IF token = "none"
       THEN Disconnect(t) /\ page' = [page EXCEPT ![t] = "login"]
       ELSE Connect(t) /\ UNCHANGED <<page, needsResync, timer, met, missed>>
    /\ UNCHANGED <<token, server, trouble, probe, lists, signedOut>>

TimerFires(t) ==
    /\ t \in timer
    /\ IF token = "none"
       THEN Disconnect(t)
       ELSE /\ Connect(t)
            /\ timer' = timer \ {t}
            /\ UNCHANGED <<needsResync, met, missed>>
    /\ UNCHANGED <<page, token, server, trouble, probe, lists, signedOut>>

(* A leader that died said nothing: the gap is reported on promotion.      *)
ReportsLoss(t) ==
    /\ followerOpen' = followerOpen \ {t}
    /\ needsResync' = needsResync \cup ({t} \cap followerOpen)

(* The lock is granted: becomeLeader.                                      *)
BecomeLeader(t) ==
    /\ lock = NoTab /\ waiting # <<>> /\ Head(waiting) = t
    /\ lock' = t /\ waiting' = Tail(waiting)
    /\ ReportsLoss(t)
    /\ sock' = [sock EXCEPT ![t] = "connecting"]
    /\ UNCHANGED <<page, token, server, trouble, desired, wire, inbox, timer, probe, shown, signedOut>>

(* The open event of the socket.                                           *)
SocketOpens(t) ==
    /\ sock[t] = "connecting" /\ server = "up" /\ token = "valid"
    /\ sock' = [sock EXCEPT ![t] = "open"]
    /\ inbox' = Posted(t, "open")
    /\ Resync(t, needsResync)
    /\ UNCHANGED <<page, token, server, trouble, lock, waiting, desired, wire, followerOpen, timer, probe, signedOut>>

(* The close event, before the socket ever opened: the session is probed   *)
(* (one probe, and one unread close per tab, at a time: bounds).           *)
SocketFails(t) ==
    /\ sock[t] = "connecting" /\ ~(server = "up" /\ token = "valid")
    /\ probe[t] = "idle" /\ \A u \in Tabs : ~Contains(inbox[u], "close")
    /\ sock' = [sock EXCEPT ![t] = "none"]
    /\ inbox' = Posted(t, "close")
    /\ needsResync' = needsResync \cup {t}
    /\ probe' = [probe EXCEPT ![t] = IF token = "none" THEN "none" ELSE "token"]
    /\ UNCHANGED <<page, token, server, trouble, lock, waiting, desired, wire, followerOpen, timer, shown, signedOut>>

SocketCloses(t) ==
    /\ sock[t] = "dead"
    /\ sock' = [sock EXCEPT ![t] = "none"]
    /\ inbox' = Posted(t, "close")
    /\ needsResync' = needsResync \cup {t}
    /\ Schedule(t)
    /\ UNCHANGED <<page, token, server, trouble, lock, waiting, desired, wire, followerOpen, probe, shown, signedOut>>

(* reconnectAfterFailedRealtimeAttempt, when me() settles.                 *)
Changed(t) == probe[t] = "old" \/ (probe[t] = "none" /\ token # "none")
Unauthorized == server = "up" /\ token # "valid"

ProbeSettles(t) ==
    /\ probe[t] # "idle"
    /\ \/ /\ Changed(t)
          /\ probe' = [probe EXCEPT ![t] = "idle"]
          /\ UNCHANGED <<page, token, browser, needsResync, timer, met, missed>>
       \/ /\ ~Changed(t) /\ Unauthorized
          /\ token' = "none"
          /\ page' = [page EXCEPT ![t] = "login"]
          /\ probe' = [Outdated EXCEPT ![t] = "idle"]
          /\ Disconnect(t)
       \/ /\ ~Changed(t) /\ ~Unauthorized
          /\ probe' = [probe EXCEPT ![t] = "idle"]
          /\ UNCHANGED <<page, token, browser, needsResync, met, missed>>
          /\ Schedule(t)
    /\ UNCHANGED <<server, trouble, lists, signedOut>>

(* A frame reaches the leader, which shows and relays it.                  *)
SocketMessage(t) ==
    /\ t \in wire
    /\ wire' = wire \ {t}
    /\ inbox' = Posted(t, "event")
    /\ lists' = lists \cup Read({t}) /\ missed' = missed \ Read({t})
    /\ UNCHANGED <<page, token, server, trouble, lock, waiting, desired, sock, followerOpen, app, met, signedOut>>

(* handleChannelMessage.                                                   *)
Heard(t) == Head(inbox[t])
Taken(t) == [inbox EXCEPT ![t] = Tail(inbox[t])]

(* Mutant: a new tab waits for the next reconnect.                         *)
NeverAnswers(t) == FALSE

(* The leader answers a hello while it has a socket, and nothing else.     *)
Answers(t) == Heard(t) = "hello" /\ Readable(t)

LeaderHears(t) ==
    /\ lock = t /\ inbox[t] # <<>>
    /\ inbox' = IF Answers(t) THEN [Posted(t, "open") EXCEPT ![t] = Tail(inbox[t])] ELSE Taken(t)
    /\ UNCHANGED <<page, token, server, trouble, lock, waiting, desired, sock, wire, followerOpen, app, shown, signedOut>>

FollowerHearsEvent(t) ==
    /\ lock # t /\ inbox[t] # <<>> /\ Heard(t) = "event"
    /\ inbox' = Taken(t)
    /\ lists' = lists \cup Read({t}) /\ missed' = missed \ Read({t})
    /\ UNCHANGED <<page, token, server, trouble, lock, waiting, desired, sock, wire, followerOpen, app, met, signedOut>>

(* Two opens with no close between them: the first leader vanished.        *)
MissingAt(t) == needsResync \cup ({t} \cap followerOpen)

FollowerHearsOpen(t) ==
    /\ lock # t /\ inbox[t] # <<>> /\ Heard(t) = "open"
    /\ inbox' = Taken(t)
    /\ Resync(t, MissingAt(t))
    /\ followerOpen' = followerOpen \cup {t}
    /\ UNCHANGED <<page, token, server, trouble, lock, waiting, desired, sock, wire, timer, probe, signedOut>>

FollowerHearsClose(t) ==
    /\ lock # t /\ inbox[t] # <<>> /\ Heard(t) = "close"
    /\ inbox' = Taken(t)
    /\ ReportsLoss(t)
    /\ UNCHANGED <<page, token, server, trouble, lock, waiting, desired, sock, wire, timer, probe, shown, signedOut>>

FollowerIgnoresHello(t) ==
    /\ lock # t /\ inbox[t] # <<>> /\ Heard(t) = "hello"
    /\ inbox' = Taken(t)
    /\ UNCHANGED <<page, token, server, trouble, lock, waiting, desired, sock, wire, followerOpen, app, shown, signedOut>>

-----------------------------------------------------------------------------
Init ==
    /\ page = [t \in Tabs |-> "closed"]
    /\ token = "valid" /\ server = "up" /\ trouble = MaxTrouble
    /\ lock = NoTab /\ waiting = <<>> /\ desired = {}
    /\ sock = [t \in Tabs |-> "none"] /\ wire = {}
    /\ inbox = [t \in Tabs |-> <<>>] /\ followerOpen = {}
    /\ needsResync = {} /\ timer = {} /\ probe = [t \in Tabs |-> "idle"]
    /\ lists = {} /\ met = {} /\ missed = {}
    /\ signedOut = FALSE

Browser(t) ==
    \/ TimerFires(t) \/ ProbeSettles(t) \/ BecomeLeader(t)
    \/ SocketOpens(t) \/ SocketFails(t) \/ SocketCloses(t) \/ SocketMessage(t)
    \/ LeaderHears(t) \/ FollowerHearsEvent(t) \/ FollowerHearsOpen(t) \/ FollowerHearsClose(t)
    \/ FollowerIgnoresHello(t)

Next ==
    \/ SessionEnds \/ SessionReplaced \/ ServerDown \/ ServerUp \/ Change
    \/ \E t \in Tabs :
          OpenTab(t) \/ CloseTab(t) \/ Login(t) \/ Logout(t) \/ Navigate(t) \/ Browser(t)

Spec == Init /\ [][Next]_vars

(* Browsers run their timers and deliver their events, and the server is   *)
(* started again.  Nobody has to navigate, open or sign in.                *)
Fairness ==
    /\ WF_vars(ServerUp)
    /\ \A t \in Tabs :
          /\ WF_vars(TimerFires(t)) /\ WF_vars(ProbeSettles(t)) /\ WF_vars(BecomeLeader(t))
          /\ WF_vars(SocketOpens(t)) /\ WF_vars(SocketFails(t)) /\ WF_vars(SocketCloses(t))
          /\ WF_vars(SocketMessage(t)) /\ WF_vars(LeaderHears(t)) /\ WF_vars(FollowerHearsEvent(t))
          /\ WF_vars(FollowerHearsOpen(t)) /\ WF_vars(FollowerHearsClose(t))
          /\ WF_vars(FollowerIgnoresHello(t))

FairSpec == Spec /\ Fairness

-----------------------------------------------------------------------------
(* Only the holder of the lock has a socket, whoever signs out, crashes or *)
(* reconnects: one connection per browser.                                 *)
OneSocket == \A t \in Tabs : sock[t] # "none" => lock = t

Settled(t) ==
    /\ lock # NoTab /\ sock[lock] = "open" /\ wire = {}
    /\ ~Contains(inbox[t], "event") /\ ~Contains(inbox[t], "open")
    /\ ~Contains(inbox[lock], "hello")

(* While the shared connection is up and nothing is on its way to a tab,   *)
(* its read model has caught up, whichever leaders died in between.        *)
ListsCatchUp == \A t \in desired : Settled(t) => t \in lists

(* So have its other views, once the tab was connected: a gap is always    *)
(* noticed and answered with resync.required.                              *)
ViewsCatchUp == \A t \in missed : ~Settled(t)

Connected(t) == IF lock = t THEN sock[t] = "open" ELSE t \in followerOpen

(* No timer, probe, attempt, grant or message of the browser is pending.   *)
AtRest ==
    /\ timer = {} /\ (lock = NoTab => waiting = <<>>)
    /\ \A t \in Tabs :
          probe[t] = "idle" /\ inbox[t] = <<>> /\ sock[t] \notin {"connecting", "dead"}

(* With the session left alone, the browser never comes to rest while an   *)
(* open tab is cut off: whoever lost its connection has a retry under way. *)
RestingTabsAreConnected ==
    AtRest /\ ~signedOut => \A t \in Tabs : page[t] = "app" => Connected(t)

(* No tab misses a change while its connection stands, and none is left    *)
(* without one for good.                                                   *)
TabsCatchUp == ListsCatchUp /\ ViewsCatchUp /\ RestingTabsAreConnected

(* With the session left alone, every open tab gets its connection back    *)
(* after crashes of other tabs and outages of the server.                  *)
TabsReconnect ==
    \A t \in Tabs :
        page[t] = "app" /\ ~signedOut ~> Connected(t) \/ page[t] # "app" \/ signedOut
===============================================================================
