----------------------------- MODULE EventSocket ------------------------------
(***************************************************************************)
(* The task behind one event socket: serve_socket of src/realtime.rs, for  *)
(* the sockets of a user and one project.  The task takes one input at a   *)
(* time, in the order of next_socket_input!, and every check of the        *)
(* session or of the project, and every send, is an await: sign-outs,      *)
(* membership changes and publications happen in between.                  *)
(*                                                                         *)
(* tokio's broadcast channel is external: a receiver that falls more than  *)
(* Buffer messages behind loses the oldest and is told so by its next      *)
(* recv.                                                                   *)
(***************************************************************************)
EXTENDS Naturals, Sequences

CONSTANTS
    Sockets,    \* sockets of the user
    Buffer,     \* capacity of a broadcast channel (bound)
    MaxReplay   \* frames of one replay (bound; the ring holds RING_CAPACITY)

ASSUME SocketAssumption == Buffer \in Nat \ {0} /\ MaxReplay \in Nat

VARIABLES
    live,       \* the session of the socket is in the table, its user active
    member,     \* the user can view the project
    unsaid,     \* broadcasts of committed changes still to be sent
    peer,       \* the browser answers
    pc,         \* where the task is
    input,      \* what it is handling
    frame,      \* what it is sending
    left,       \* replayed frames still to be sent
    known,      \* visible_projects: holds the project or not, or is None
    events, lagged,         \* its receiver of the event channel
    revoked, revLagged,     \* its receiver of the revocation channel
    due,        \* timers that came due
    held,       \* history: what held at some moment since the input, or the
                \* frame of a replay, was taken up
    missed,     \* history: an event was lost and the client was not told
    behind      \* history: missed, when the event in hand was taken up

receivers == <<events, lagged, revoked, revLagged, due>>
task == <<pc, input, frame, left, known>>
history == <<held, missed, behind>>
vars == <<live, member, unsaid, peer, task, receivers, history>>

Timers == {"deadline", "tick"}
ProjectEvents == {"issue", "updated"}
Inputs == {"none", "tick", "revocations", "lag", "resume", "replay", "baseline"} \cup ProjectEvents
Frames == {"none", "project", "resync", "sync_required", "baseline", "ping"}
Subscribed == {"select", "session", "visible", "refresh", "ring", "send"}

WorldTyped ==
    /\ live \in [Sockets -> BOOLEAN]
    /\ member \in BOOLEAN
    /\ unsaid \subseteq {"updated", "revoked"}
    /\ peer \in [Sockets -> {"up", "gone"}]

TaskTyped ==
    /\ pc \in [Sockets -> {"closed", "upgraded", "looked"} \cup Subscribed]
    /\ input \in [Sockets -> Inputs]
    /\ frame \in [Sockets -> Frames]
    /\ left \in [Sockets -> 0..MaxReplay]
    /\ known \in [Sockets -> {"shown", "hidden", "none"}]

QueuesTyped ==
    /\ events \in [Sockets -> Seq(ProjectEvents)]
    /\ lagged \in [Sockets -> BOOLEAN]
    /\ revoked \in [Sockets -> Seq({"own", "other"})]
    /\ revLagged \in [Sockets -> BOOLEAN]
    /\ due \in [Sockets -> SUBSET Timers]

HistoryTyped ==
    /\ held \in [Sockets -> SUBSET {"session", "member"}]
    /\ missed \in [Sockets -> BOOLEAN]
    /\ behind \in [Sockets -> BOOLEAN]

(* A task that is not handling anything has nothing in hand.               *)
AtRest ==
    \A s \in Sockets :
        pc[s] \in {"closed", "upgraded", "looked", "select"} => input[s] = "none" /\ frame[s] = "none"

TypeOK == WorldTyped /\ TaskTyped /\ QueuesTyped /\ HistoryTyped /\ AtRest

-----------------------------------------------------------------------------
(* The world outside the task.                                             *)

(* What holds now is what held at some moment since the input was taken up.*)
Now(s) == (IF live[s] THEN {"session"} ELSE {}) \cup (IF member THEN {"member"} ELSE {})

SignIn(s) ==
    /\ pc[s] = "closed" /\ ~live[s]
    /\ live' = [live EXCEPT ![s] = TRUE]
    /\ UNCHANGED <<member, unsaid, peer, task, receivers, history>>

(* A recovery or a deactivation; from another process nothing is said.     *)
Revoke ==
    /\ live' = [s \in Sockets |-> FALSE]
    /\ unsaid' \in {unsaid, unsaid \cup {"revoked"}}
    /\ UNCHANGED <<member, peer, task, receivers, history>>

(* One session ends: logout, expiry, a refresh.  Nobody is told.           *)
SessionEnds(s) ==
    /\ live[s]
    /\ live' = [live EXCEPT ![s] = FALSE]
    /\ UNCHANGED <<member, unsaid, peer, task, receivers, history>>

(* add_member, remove_member, a change of enforcement.                     *)
MembershipChanges ==
    /\ member' = ~member
    /\ unsaid' = unsaid \cup {"updated"}
    /\ held' = [s \in Sockets |-> held[s] \cup (IF member' THEN {"member"} ELSE {})]
    /\ UNCHANGED <<live, peer, task, receivers, missed, behind>>

Receives(s) == pc[s] \in Subscribed
Overflows(s, queue) == Receives(s) /\ Len(queue[s]) = Buffer

(* send_message to every receiver.                                         *)
Pushed(queue, e) ==
    [s \in Sockets |->
        IF ~Receives(s) THEN queue[s]
        ELSE IF Overflows(s, queue) THEN Append(Tail(queue[s]), e) ELSE Append(queue[s], e)]

Publish(e) ==
    /\ e = "updated" => "updated" \in unsaid
    /\ unsaid' = unsaid \ {e}
    /\ events' = Pushed(events, e)
    /\ lagged' = [s \in Sockets |-> lagged[s] \/ Overflows(s, events)]
    /\ missed' = [s \in Sockets |-> missed[s] \/ Overflows(s, events)]
    /\ UNCHANGED <<live, member, peer, task, revoked, revLagged, due, held, behind>>

(* revoke_user, of this user or of another.                                *)
RevokeUser(who) ==
    /\ who = "own" => "revoked" \in unsaid
    /\ unsaid' = IF who = "own" THEN unsaid \ {"revoked"} ELSE unsaid
    /\ revoked' = Pushed(revoked, who)
    /\ revLagged' = [s \in Sockets |-> revLagged[s] \/ Overflows(s, revoked)]
    /\ UNCHANGED <<live, member, peer, task, events, lagged, due, history>>

(* An interval elapses; while an input is handled nobody looks.            *)
ComesDue(s, timer) ==
    /\ pc[s] = "select" /\ timer \notin due[s]
    /\ due' = [due EXCEPT ![s] = due[s] \cup {timer}]
    /\ UNCHANGED <<live, member, unsaid, peer, task, events, lagged, revoked, revLagged, history>>

PeerGoes(s) ==
    /\ peer[s] = "up" /\ pc[s] # "closed"
    /\ peer' = [peer EXCEPT ![s] = "gone"]
    /\ UNCHANGED <<live, member, unsaid, task, receivers, history>>

-----------------------------------------------------------------------------
Goto(s, label) == pc' = [pc EXCEPT ![s] = label]
Environment == UNCHANGED <<live, member, unsaid>>

(* The task ends: the receivers go with it.                                *)
Close(s) ==
    /\ Goto(s, "closed")
    /\ input' = [input EXCEPT ![s] = "none"] /\ frame' = [frame EXCEPT ![s] = "none"]
    /\ left' = [left EXCEPT ![s] = 0] /\ known' = [known EXCEPT ![s] = "none"]
    /\ events' = [events EXCEPT ![s] = <<>>] /\ lagged' = [lagged EXCEPT ![s] = FALSE]
    /\ revoked' = [revoked EXCEPT ![s] = <<>>] /\ revLagged' = [revLagged EXCEPT ![s] = FALSE]
    /\ due' = [due EXCEPT ![s] = {}]
    /\ held' = [held EXCEPT ![s] = {}] /\ missed' = [missed EXCEPT ![s] = FALSE]
    /\ behind' = [behind EXCEPT ![s] = FALSE]
    /\ peer' = [peer EXCEPT ![s] = "up"]
    /\ Environment

(* visible_projects_for; None when nothing is enforced or the query fails. *)
VisibleProjects == {IF member THEN "shown" ELSE "hidden", "none"}

(* events_ws: the session was valid when the upgrade was answered.         *)
Upgrade(s) ==
    /\ pc[s] = "closed" /\ live[s]
    /\ Goto(s, "upgraded")
    /\ UNCHANGED <<live, member, unsaid, peer, input, frame, left, known, receivers, history>>

LookUp(s) ==
    /\ pc[s] = "upgraded"
    /\ Goto(s, "looked")
    /\ \E k \in VisibleProjects : known' = [known EXCEPT ![s] = k]
    /\ UNCHANGED <<live, member, unsaid, peer, input, frame, left, receivers, history>>

Subscribe(s) ==
    /\ pc[s] = "looked"
    /\ Goto(s, "select")
    /\ UNCHANGED <<live, member, unsaid, peer, input, frame, left, known, receivers, history>>

-----------------------------------------------------------------------------
(* Mutant: serving comes first, then the timers.                           *)
ServeFirst(s) ==
    CASE revLagged[s] \/ revoked[s] # <<>> -> "revocation"
      [] lagged[s] \/ events[s] # <<>> -> "event"
      [] "deadline" \in due[s] -> "deadline"
      [] "tick" \in due[s] -> "tick"
      [] OTHER -> "message"

(* next_socket_input!, most urgent first.                                  *)
Urgent(s) ==
    CASE "deadline" \in due[s] -> "deadline"
      [] revLagged[s] \/ revoked[s] # <<>> -> "revocation"
      [] "tick" \in due[s] -> "tick"
      [] lagged[s] \/ events[s] # <<>> -> "event"
      [] OTHER -> "message"

Ready(s, arm) == pc[s] = "select" /\ Urgent(s) = arm

(* An input is in hand: its history starts.                                *)
Take(s, in) ==
    /\ Goto(s, "session")
    /\ input' = [input EXCEPT ![s] = in]
    /\ held' = [held EXCEPT ![s] = Now(s)]
    /\ behind' = [behind EXCEPT ![s] = missed[s]]
    /\ UNCHANGED <<peer, frame, left, known, missed>>
    /\ Environment

ProgressDeadline(s) == Ready(s, "deadline") /\ Close(s)

(* revocation_flow: a lagged receiver revalidates, the user's own id       *)
(* closes, any other is ignored.                                           *)
RevocationsLag(s) ==
    /\ Ready(s, "revocation") /\ revLagged[s]
    /\ Take(s, "revocations")
    /\ revLagged' = [revLagged EXCEPT ![s] = FALSE]
    /\ UNCHANGED <<events, lagged, revoked, due>>

OwnRevocation(s) ==
    /\ Ready(s, "revocation") /\ ~revLagged[s]
    /\ Head(revoked[s]) = "own"
    /\ Close(s)

OtherRevocation(s) ==
    /\ Ready(s, "revocation") /\ ~revLagged[s]
    /\ Head(revoked[s]) = "other"
    /\ revoked' = [revoked EXCEPT ![s] = Tail(revoked[s])]
    /\ Environment
    /\ UNCHANGED <<peer, task, events, lagged, revLagged, due, history>>

Revalidate(s) ==
    /\ Ready(s, "tick")
    /\ Take(s, "tick")
    /\ due' = [due EXCEPT ![s] = due[s] \ {"tick"}]
    /\ UNCHANGED <<events, lagged, revoked, revLagged>>

(* The ping interval has no timer of its own here: it elapses at any time. *)
Ping(s) ==
    /\ Ready(s, "event") \/ Ready(s, "message")
    /\ Goto(s, "send")
    /\ frame' = [frame EXCEPT ![s] = "ping"]
    /\ Environment
    /\ UNCHANGED <<peer, input, left, known, receivers, history>>

EventsLag(s) ==
    /\ Ready(s, "event") /\ lagged[s]
    /\ Take(s, "lag")
    /\ lagged' = [lagged EXCEPT ![s] = FALSE]
    /\ UNCHANGED <<events, revoked, revLagged, due>>

Event(s) ==
    /\ Ready(s, "event") /\ ~lagged[s]
    /\ Take(s, Head(events[s]))
    /\ events' = [events EXCEPT ![s] = Tail(events[s])]
    /\ UNCHANGED <<lagged, revoked, revLagged, due>>

(* A frame of the client; what is not one of these, or too many of them,   *)
(* closes the socket.  A pong or a heartbeat only pushes the deadline back;*)
(* a ping is answered by a step like Ping.                                 *)
ClientMessage(s) ==
    /\ Ready(s, "message")
    /\ peer[s] = "up"
    /\ \/ \E in \in {"resume", "baseline"} : Take(s, in) /\ UNCHANGED receivers
       \/ Close(s)

-----------------------------------------------------------------------------
(* Handling.                                                               *)
Resend(s, what) ==
    /\ Goto(s, "send")
    /\ frame' = [frame EXCEPT ![s] = what]

(* Mutant: the input stays in hand.                                        *)
StillInHand(s) == Goto(s, "select") /\ UNCHANGED input

Done(s) ==
    /\ Goto(s, "select")
    /\ input' = [input EXCEPT ![s] = "none"]

(* Mutant: a lag is logged, and the views are refreshed on the server only.*)
LagIsLogged(in) ==
    CASE in \in {"tick", "revocations", "lag"} -> "refresh"
      [] in = "baseline" -> "send"
      [] OTHER -> "visible"

(* Where a valid session leads.                                            *)
AfterSession(in) ==
    CASE in \in {"tick", "revocations"} -> "refresh"
      [] in \in {"lag", "baseline"} -> "send"
      [] OTHER -> "visible"

(* What is sent at once; a baseline that cannot be read is a resync.       *)
Answers(in) ==
    CASE in = "lag" -> {"resync"}
      [] in = "baseline" -> {"baseline", "resync"}
      [] OTHER -> {"none"}

(* Mutant: the interval check only refreshes the visible projects.         *)
TickKeepsSession(s) == live[s] \/ input[s] = "tick"

SessionValid(s) == live[s]

(* revalidate_session; an error closes like an invalid session.            *)
SessionHolds(s) ==
    /\ pc[s] = "session"
    /\ SessionValid(s)
    /\ Goto(s, AfterSession(input[s]))
    /\ \E what \in Answers(input[s]) : frame' = [frame EXCEPT ![s] = what]
    /\ Environment
    /\ UNCHANGED <<peer, input, left, known, receivers, history>>

SessionRefused(s) == pc[s] = "session" /\ Close(s)

RefreshVisible(s) ==
    /\ pc[s] = "refresh"
    /\ Done(s)
    /\ \E k \in VisibleProjects : known' = [known EXCEPT ![s] = k]
    /\ Environment
    /\ UNCHANGED <<peer, frame, left, receivers, history>>

Remembers(s, changes, k) ==
    known' = [known EXCEPT ![s] = IF changes /\ known[s] # "none" THEN k ELSE known[s]]

(* visible_to and project_visible; an error hides.                         *)
CheckVisible(s) ==
    /\ pc[s] = "visible"
    /\ \/ /\ member
          /\ IF input[s] = "resume"
             THEN Goto(s, "ring") /\ UNCHANGED <<frame, known>>
             ELSE /\ Resend(s, "project")
                  /\ Remembers(s, input[s] \in ProjectEvents, "shown")
          /\ UNCHANGED input
       \/ /\ input[s] \in {"resume", "replay"}
          /\ Resend(s, "sync_required")
          /\ UNCHANGED <<input, known>>
       \/ /\ input[s] \in ProjectEvents
          /\ Remembers(s, input[s] = "updated", "hidden")
          /\ IF known[s] = "shown" /\ input[s] = "updated"
             THEN Resend(s, "resync") /\ UNCHANGED input
             ELSE Done(s) /\ UNCHANGED frame
    /\ Environment
    /\ UNCHANGED <<peer, left, receivers, history>>

(* Mutant: one check answers for the whole replay.                         *)
Unchecked(s) ==
    /\ Resend(s, "project")
    /\ held' = [held EXCEPT ![s] = Now(s)]

(* Every replayed frame starts over with the session.                      *)
NextFrame(s) ==
    /\ Goto(s, "session")
    /\ frame' = [frame EXCEPT ![s] = "none"]
    /\ held' = [held EXCEPT ![s] = Now(s)]

(* hub.resume.                                                             *)
Resume(s) ==
    /\ pc[s] = "ring"
    /\ \/ Resend(s, "sync_required") /\ UNCHANGED <<input, left, held>>
       \/ \E n \in 1..MaxReplay :
            /\ Goto(s, "session")
            /\ input' = [input EXCEPT ![s] = "replay"]
            /\ left' = [left EXCEPT ![s] = n]
            /\ held' = [held EXCEPT ![s] = Now(s)]
            /\ UNCHANGED frame
       \/ Done(s) /\ UNCHANGED <<frame, left, held>>
    /\ Environment
    /\ UNCHANGED <<peer, known, receivers, missed, behind>>

(* A resync covers what was lost before it; more may be lost already.      *)
Untold(s) == missed[s] /\ (frame[s] = "resync" => lagged[s])

(* The frame is out; a replay goes on, any other input is done with.       *)
ReplayGoesOn(s) ==
    /\ pc[s] = "send"
    /\ frame[s] = "project" /\ left[s] > 1
    /\ left' = [left EXCEPT ![s] = left[s] - 1]
    /\ NextFrame(s)
    /\ Environment
    /\ UNCHANGED <<peer, input, known, receivers, missed, behind>>

Sent(s) ==
    /\ pc[s] = "send"
    /\ ~(frame[s] = "project" /\ left[s] > 1)
    /\ missed' = [missed EXCEPT ![s] = Untold(s)]
    /\ left' = [left EXCEPT ![s] = 0]
    /\ Done(s)
    /\ frame' = [frame EXCEPT ![s] = "none"]
    /\ Environment
    /\ UNCHANGED <<peer, known, receivers, held, behind>>

(* send_bounded gives up after SOCKET_SEND_TIMEOUT, or the connection is   *)
(* already broken.                                                         *)
SendFails(s) == pc[s] = "send" /\ Close(s)

-----------------------------------------------------------------------------
Init ==
    /\ live = [s \in Sockets |-> TRUE]
    /\ member \in BOOLEAN
    /\ unsaid = {}
    /\ peer = [s \in Sockets |-> "up"]
    /\ pc = [s \in Sockets |-> "closed"]
    /\ input = [s \in Sockets |-> "none"] /\ frame = [s \in Sockets |-> "none"]
    /\ left = [s \in Sockets |-> 0] /\ known = [s \in Sockets |-> "none"]
    /\ events = [s \in Sockets |-> <<>>] /\ lagged = [s \in Sockets |-> FALSE]
    /\ revoked = [s \in Sockets |-> <<>>] /\ revLagged = [s \in Sockets |-> FALSE]
    /\ due = [s \in Sockets |-> {}]
    /\ held = [s \in Sockets |-> {}]
    /\ missed = [s \in Sockets |-> FALSE] /\ behind = [s \in Sockets |-> FALSE]

Serve(s) ==
    \/ LookUp(s) \/ Subscribe(s)
    \/ ProgressDeadline(s) \/ RevocationsLag(s) \/ OwnRevocation(s) \/ OtherRevocation(s)
    \/ Revalidate(s) \/ Ping(s) \/ EventsLag(s) \/ Event(s)
    \/ SessionHolds(s) \/ SessionRefused(s) \/ RefreshVisible(s) \/ CheckVisible(s)
    \/ Resume(s) \/ ReplayGoesOn(s) \/ Sent(s) \/ SendFails(s)

Outside ==
    \/ Revoke \/ MembershipChanges
    \/ \E e \in ProjectEvents : Publish(e)
    \/ \E who \in {"own", "other"} : RevokeUser(who)

Next ==
    \/ Outside
    \/ \E s \in Sockets :
          \/ Serve(s) \/ Upgrade(s) \/ ClientMessage(s)
          \/ SignIn(s) \/ SessionEnds(s) \/ PeerGoes(s)
          \/ \E timer \in Timers : ComesDue(s, timer)

Spec == Init /\ [][Next]_vars

(* The runtime polls the task, and its timers go off: the interval always, *)
(* the deadline when nothing comes from the peer; strongly, for the task   *)
(* only sees them at the select.  Revalidate is strongly fair because      *)
(* revocations of other users, which go first, are sign-outs that people   *)
(* ask for: the task is polled now and then between two.                   *)
Fairness ==
    \A s \in Sockets :
        /\ WF_vars(Serve(s)) /\ SF_vars(Revalidate(s))
        /\ SF_vars(ComesDue(s, "tick"))
        /\ SF_vars(peer[s] = "gone" /\ ComesDue(s, "deadline"))

FairSpec == Spec /\ Fairness

-----------------------------------------------------------------------------
(* A frame of the project goes out only when, since the event or this very *)
(* frame of the replay was taken up, the session was valid and the project *)
(* visible: what ended before, while another send was waiting, stops it.   *)
OnlyWhileAllowed ==
    \A s \in Sockets : pc[s] = "send" /\ frame[s] = "project" => held[s] = {"session", "member"}

(* Once events were lost for a socket, it sends no later event before the  *)
(* client was told to refetch.                                             *)
NoSilentGap ==
    \A s \in Sockets :
        pc[s] = "send" /\ frame[s] = "project" /\ input[s] \in ProjectEvents => ~behind[s]

(* A socket whose session ended is closed, also when the revocation came   *)
(* before it subscribed, was lost, or was never sent by another process.   *)
RevokedSocketCloses ==
    \A s \in Sockets : pc[s] # "closed" /\ ~live[s] ~> pc[s] = "closed"

(* A peer that answers nothing does not keep its socket, however many      *)
(* events are queued for it.                                               *)
GonePeerCloses == \A s \in Sockets : peer[s] = "gone" ~> pc[s] = "closed"

(* No task serves a socket for ever that has lost its session or its peer. *)
DeadSocketsClose == RevokedSocketCloses /\ GonePeerCloses
===============================================================================
