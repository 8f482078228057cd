-------------------------- MODULE EventSocket_proofs --------------------------
(***************************************************************************)
(* Safety of serve_socket for any number of sockets, any buffer and any    *)
(* length of replay.                                                       *)
(***************************************************************************)
EXTENDS EventSocket, TLAPS

(* Between two awaits nothing is being sent, and only a resume asks the    *)
(* ring.                                                                   *)
InBetween ==
    \A s \in Sockets :
        /\ pc[s] \in {"refresh", "visible", "ring"} => frame[s] = "none"
        /\ pc[s] = "ring" => input[s] = "resume"

(* While a check is still to come, what holds now is remembered; once the  *)
(* session was found valid it was valid at some moment since.              *)
HeldSoFar ==
    \A s \in Sockets :
        /\ pc[s] \in {"session", "visible"} /\ member => "member" \in held[s]
        /\ pc[s] = "session" /\ live[s] => "session" \in held[s]
        /\ pc[s] = "visible" => "session" \in held[s]

(* A loss the client was not told of is still to be reported by the        *)
(* receiver, or is what the task is handling.                              *)
LagIsPending ==
    \A s \in Sockets :
        /\ missed[s] => lagged[s] \/ input[s] = "lag"
        /\ input[s] = "lag" => pc[s] \in {"session", "send"}
        /\ input[s] = "lag" /\ pc[s] = "send" => frame[s] = "resync"

(* An event is taken up only when nothing was lost before it.              *)
UpToDate ==
    \A s \in Sockets :
        pc[s] \in {"session", "visible", "send"} /\ input[s] \in ProjectEvents => ~behind[s]

IInv == TypeOK /\ InBetween /\ HeldSoFar /\ OnlyWhileAllowed /\ LagIsPending /\ UpToDate

(* What an arm of the select means for the queue it takes from.            *)
LEMMA ReadyMeans ==
    ASSUME NEW s \in Sockets, NEW arm, Ready(s, arm)
    PROVE  /\ pc[s] = "select"
           /\ arm = "event" => lagged[s] \/ events[s] # <<>>
           /\ arm = "revocation" => revLagged[s] \/ revoked[s] # <<>>
BY DEF Ready, Urgent

(* The receiver's next message, when it did not lag.                       *)
LEMMA NextEvent ==
    ASSUME TypeOK, NEW s \in Sockets, Event(s)
    PROVE  /\ Head(events[s]) \in ProjectEvents
           /\ Tail(events[s]) \in Seq(ProjectEvents)
<1>1. events[s] \in Seq(ProjectEvents) /\ events[s] # <<>>
  BY ReadyMeans DEF Event, TypeOK, QueuesTyped
<1>2. QED
  BY <1>1

(* Sessions, the membership and the peers stay what they are. *)
LEMMA WorldStep ==
    ASSUME TypeOK, [Next]_vars
    PROVE  WorldTyped'
<1> USE SocketAssumption DEF vars, task, receivers, history, Environment, Goto, Subscribed, TypeOK, WorldTyped
<1>a. ASSUME NEW s \in Sockets, Close(s) PROVE WorldTyped'
  BY <1>a DEF Close
<1>1. ASSUME Revoke PROVE WorldTyped'
  BY <1>1 DEF Revoke
<1>2. ASSUME MembershipChanges PROVE WorldTyped'
  BY <1>2 DEF MembershipChanges
<1>3. ASSUME NEW e \in ProjectEvents, Publish(e) PROVE WorldTyped'
  BY <1>3 DEF Publish, Pushed, Overflows, Receives
<1>4. ASSUME NEW who \in {"own", "other"}, RevokeUser(who) PROVE WorldTyped'
  BY <1>4 DEF RevokeUser, Pushed, Overflows, Receives
<1>5. ASSUME NEW s \in Sockets, SignIn(s) PROVE WorldTyped'
  BY <1>5 DEF SignIn
<1>6. ASSUME NEW s \in Sockets, SessionEnds(s) PROVE WorldTyped'
  BY <1>6 DEF SessionEnds
<1>7. ASSUME NEW s \in Sockets, NEW timer \in Timers, ComesDue(s, timer) PROVE WorldTyped'
  BY <1>7 DEF ComesDue
<1>8. ASSUME NEW s \in Sockets, PeerGoes(s) PROVE WorldTyped'
  BY <1>8 DEF PeerGoes
<1>9. ASSUME NEW s \in Sockets, Upgrade(s) PROVE WorldTyped'
  BY <1>9 DEF Upgrade
<1>10. ASSUME NEW s \in Sockets, LookUp(s) PROVE WorldTyped'
  BY <1>10 DEF LookUp, VisibleProjects
<1>11. ASSUME NEW s \in Sockets, Subscribe(s) PROVE WorldTyped'
  BY <1>11 DEF Subscribe
<1>12. ASSUME NEW s \in Sockets, ProgressDeadline(s) PROVE WorldTyped'
  BY <1>12, <1>a DEF ProgressDeadline
<1>13. ASSUME NEW s \in Sockets, RevocationsLag(s) PROVE WorldTyped'
  BY <1>13, ReadyMeans DEF RevocationsLag, Take, Now
<1>14. ASSUME NEW s \in Sockets, OwnRevocation(s) PROVE WorldTyped'
  BY <1>14, <1>a DEF OwnRevocation
<1>15. ASSUME NEW s \in Sockets, OtherRevocation(s) PROVE WorldTyped'
  BY <1>15, ReadyMeans DEF OtherRevocation
<1>16. ASSUME NEW s \in Sockets, Revalidate(s) PROVE WorldTyped'
  BY <1>16, ReadyMeans DEF Revalidate, Take, Now
<1>17. ASSUME NEW s \in Sockets, Ping(s) PROVE WorldTyped'
  BY <1>17, ReadyMeans DEF Ping, Resend
<1>18. ASSUME NEW s \in Sockets, EventsLag(s) PROVE WorldTyped'
  BY <1>18, ReadyMeans DEF EventsLag, Take, Now
<1>19. ASSUME NEW s \in Sockets, Event(s) PROVE WorldTyped'
  BY <1>19, ReadyMeans, NextEvent DEF Event, Take, Now
<1>20. ASSUME NEW s \in Sockets, ClientMessage(s) PROVE WorldTyped'
  <2>1. ASSUME NEW in \in {"resume", "baseline"}, Take(s, in), UNCHANGED receivers
       PROVE  WorldTyped'
    BY <1>20, <2>1, ReadyMeans DEF ClientMessage, Take, Now
  <2>2. CASE Close(s)
    BY <1>20, <2>2, <1>a
  <2>3. QED
    BY <1>20, <2>1, <2>2 DEF ClientMessage
<1>21. ASSUME NEW s \in Sockets, SessionHolds(s) PROVE WorldTyped'
  BY <1>21 DEF SessionHolds, SessionValid, AfterSession, Answers
<1>22. ASSUME NEW s \in Sockets, SessionRefused(s) PROVE WorldTyped'
  BY <1>22, <1>a DEF SessionRefused
<1>23. ASSUME NEW s \in Sockets, RefreshVisible(s) PROVE WorldTyped'
  BY <1>23 DEF RefreshVisible, Done, VisibleProjects
<1>24. ASSUME NEW s \in Sockets, CheckVisible(s) PROVE WorldTyped'
  BY <1>24 DEF CheckVisible, Done, Resend, Remembers
<1>25. ASSUME NEW s \in Sockets, Resume(s) PROVE WorldTyped'
  BY <1>25 DEF Resume, Done, Resend, Now
<1>26. ASSUME NEW s \in Sockets, ReplayGoesOn(s) PROVE WorldTyped'
  BY <1>26 DEF ReplayGoesOn, NextFrame, Now
<1>27. ASSUME NEW s \in Sockets, Sent(s) PROVE WorldTyped'
  BY <1>27 DEF Sent, Done, Untold
<1>28. ASSUME NEW s \in Sockets, SendFails(s) PROVE WorldTyped'
  BY <1>28, <1>a DEF SendFails
<1>29. CASE UNCHANGED vars
  BY <1>29
<1> HIDE DEF WorldTyped
<1>30. QED
  BY <1>1, <1>2, <1>3, <1>4, <1>5, <1>6, <1>7, <1>8, <1>9, <1>10, <1>11, <1>12, <1>13, <1>14, <1>15, <1>16, <1>17, <1>18, <1>19, <1>20, <1>21, <1>22, <1>23, <1>24, <1>25, <1>26, <1>27, <1>28, <1>29 DEF Next, Outside, Serve

(* The variables of the task keep their types. *)
LEMMA TaskStep ==
    ASSUME TypeOK, [Next]_vars
    PROVE  TaskTyped'
<1> USE SocketAssumption DEF vars, task, receivers, history, Environment, Goto, Subscribed, TypeOK, TaskTyped, QueuesTyped, ProjectEvents, Inputs, Frames
<1>a. ASSUME NEW s \in Sockets, Close(s) PROVE TaskTyped'
  BY <1>a DEF Close
<1>1. ASSUME Revoke PROVE TaskTyped'
  BY <1>1 DEF Revoke
<1>2. ASSUME MembershipChanges PROVE TaskTyped'
  BY <1>2 DEF MembershipChanges
<1>3. ASSUME NEW e \in ProjectEvents, Publish(e) PROVE TaskTyped'
  BY <1>3 DEF Publish, Pushed, Overflows, Receives
<1>4. ASSUME NEW who \in {"own", "other"}, RevokeUser(who) PROVE TaskTyped'
  BY <1>4 DEF RevokeUser, Pushed, Overflows, Receives
<1>5. ASSUME NEW s \in Sockets, SignIn(s) PROVE TaskTyped'
  BY <1>5 DEF SignIn
<1>6. ASSUME NEW s \in Sockets, SessionEnds(s) PROVE TaskTyped'
  BY <1>6 DEF SessionEnds
<1>7. ASSUME NEW s \in Sockets, NEW timer \in Timers, ComesDue(s, timer) PROVE TaskTyped'
  BY <1>7 DEF ComesDue
<1>8. ASSUME NEW s \in Sockets, PeerGoes(s) PROVE TaskTyped'
  BY <1>8 DEF PeerGoes
<1>9. ASSUME NEW s \in Sockets, Upgrade(s) PROVE TaskTyped'
  BY <1>9 DEF Upgrade
<1>10. ASSUME NEW s \in Sockets, LookUp(s) PROVE TaskTyped'
  BY <1>10 DEF LookUp, VisibleProjects
<1>11. ASSUME NEW s \in Sockets, Subscribe(s) PROVE TaskTyped'
  BY <1>11 DEF Subscribe
<1>12. ASSUME NEW s \in Sockets, ProgressDeadline(s) PROVE TaskTyped'
  BY <1>12, <1>a DEF ProgressDeadline
<1>13. ASSUME NEW s \in Sockets, RevocationsLag(s) PROVE TaskTyped'
  BY <1>13, ReadyMeans DEF RevocationsLag, Take, Now
<1>14. ASSUME NEW s \in Sockets, OwnRevocation(s) PROVE TaskTyped'
  BY <1>14, <1>a DEF OwnRevocation
<1>15. ASSUME NEW s \in Sockets, OtherRevocation(s) PROVE TaskTyped'
  BY <1>15, ReadyMeans DEF OtherRevocation
<1>16. ASSUME NEW s \in Sockets, Revalidate(s) PROVE TaskTyped'
  BY <1>16, ReadyMeans DEF Revalidate, Take, Now
<1>17. ASSUME NEW s \in Sockets, Ping(s) PROVE TaskTyped'
  BY <1>17, ReadyMeans DEF Ping, Resend
<1>18. ASSUME NEW s \in Sockets, EventsLag(s) PROVE TaskTyped'
  BY <1>18, ReadyMeans DEF EventsLag, Take, Now
<1>19. ASSUME NEW s \in Sockets, Event(s) PROVE TaskTyped'
  BY <1>19, ReadyMeans, NextEvent DEF Event, Take, Now
<1>20. ASSUME NEW s \in Sockets, ClientMessage(s) PROVE TaskTyped'
  <2>1. ASSUME NEW in \in {"resume", "baseline"}, Take(s, in), UNCHANGED receivers
       PROVE  TaskTyped'
    BY <1>20, <2>1, ReadyMeans DEF ClientMessage, Take, Now
  <2>2. CASE Close(s)
    BY <1>20, <2>2, <1>a
  <2>3. QED
    BY <1>20, <2>1, <2>2 DEF ClientMessage
<1>21. ASSUME NEW s \in Sockets, SessionHolds(s) PROVE TaskTyped'
  BY <1>21 DEF SessionHolds, SessionValid, AfterSession, Answers
<1>22. ASSUME NEW s \in Sockets, SessionRefused(s) PROVE TaskTyped'
  BY <1>22, <1>a DEF SessionRefused
<1>23. ASSUME NEW s \in Sockets, RefreshVisible(s) PROVE TaskTyped'
  BY <1>23 DEF RefreshVisible, Done, VisibleProjects
<1>24. ASSUME NEW s \in Sockets, CheckVisible(s) PROVE TaskTyped'
  BY <1>24 DEF CheckVisible, Done, Resend, Remembers
<1>25. ASSUME NEW s \in Sockets, Resume(s) PROVE TaskTyped'
  <2>1. CASE Resend(s, "sync_required") /\ UNCHANGED <<input, left, held>>
    BY <1>25, <2>1 DEF Resume, Resend
  <2>2. ASSUME NEW n \in 1..MaxReplay, Goto(s, "session"), input' = [input EXCEPT ![s] = "replay"],
              left' = [left EXCEPT ![s] = n], held' = [held EXCEPT ![s] = Now(s)], UNCHANGED frame
       PROVE  TaskTyped'
    BY <1>25, <2>2 DEF Resume, Now
  <2>3. CASE Done(s) /\ UNCHANGED <<frame, left, held>>
    BY <1>25, <2>3 DEF Resume, Done
  <2>4. QED
    BY <1>25, <2>1, <2>2, <2>3 DEF Resume
<1>26. ASSUME NEW s \in Sockets, ReplayGoesOn(s) PROVE TaskTyped'
  BY <1>26 DEF ReplayGoesOn, NextFrame, Now
<1>27. ASSUME NEW s \in Sockets, Sent(s) PROVE TaskTyped'
  BY <1>27 DEF Sent, Done, Untold
<1>28. ASSUME NEW s \in Sockets, SendFails(s) PROVE TaskTyped'
  BY <1>28, <1>a DEF SendFails
<1>29. CASE UNCHANGED vars
  BY <1>29
<1> HIDE DEF TaskTyped
<1>30. QED
  BY <1>1, <1>2, <1>3, <1>4, <1>5, <1>6, <1>7, <1>8, <1>9, <1>10, <1>11, <1>12, <1>13, <1>14, <1>15, <1>16, <1>17, <1>18, <1>19, <1>20, <1>21, <1>22, <1>23, <1>24, <1>25, <1>26, <1>27, <1>28, <1>29 DEF Next, Outside, Serve

(* The receivers keep their types. *)
LEMMA QueuesStep ==
    ASSUME TypeOK, [Next]_vars
    PROVE  QueuesTyped'
<1> USE SocketAssumption DEF vars, task, receivers, history, Environment, Goto, Subscribed, TypeOK, TaskTyped, QueuesTyped, ProjectEvents, Timers
<1>a. ASSUME NEW s \in Sockets, Close(s) PROVE QueuesTyped'
  BY <1>a DEF Close
<1>1. ASSUME Revoke PROVE QueuesTyped'
  BY <1>1 DEF Revoke
<1>2. ASSUME MembershipChanges PROVE QueuesTyped'
  BY <1>2 DEF MembershipChanges
<1>3. ASSUME NEW e \in ProjectEvents, Publish(e) PROVE QueuesTyped'
  BY <1>3 DEF Publish, Pushed, Overflows, Receives
<1>4. ASSUME NEW who \in {"own", "other"}, RevokeUser(who) PROVE QueuesTyped'
  BY <1>4 DEF RevokeUser, Pushed, Overflows, Receives
<1>5. ASSUME NEW s \in Sockets, SignIn(s) PROVE QueuesTyped'
  BY <1>5 DEF SignIn
<1>6. ASSUME NEW s \in Sockets, SessionEnds(s) PROVE QueuesTyped'
  BY <1>6 DEF SessionEnds
<1>7. ASSUME NEW s \in Sockets, NEW timer \in Timers, ComesDue(s, timer) PROVE QueuesTyped'
  BY <1>7 DEF ComesDue
<1>8. ASSUME NEW s \in Sockets, PeerGoes(s) PROVE QueuesTyped'
  BY <1>8 DEF PeerGoes
<1>9. ASSUME NEW s \in Sockets, Upgrade(s) PROVE QueuesTyped'
  BY <1>9 DEF Upgrade
<1>10. ASSUME NEW s \in Sockets, LookUp(s) PROVE QueuesTyped'
  BY <1>10 DEF LookUp, VisibleProjects
<1>11. ASSUME NEW s \in Sockets, Subscribe(s) PROVE QueuesTyped'
  BY <1>11 DEF Subscribe
<1>12. ASSUME NEW s \in Sockets, ProgressDeadline(s) PROVE QueuesTyped'
  BY <1>12, <1>a DEF ProgressDeadline
<1>13. ASSUME NEW s \in Sockets, RevocationsLag(s) PROVE QueuesTyped'
  BY <1>13, ReadyMeans DEF RevocationsLag, Take, Now
<1>14. ASSUME NEW s \in Sockets, OwnRevocation(s) PROVE QueuesTyped'
  BY <1>14, <1>a DEF OwnRevocation
<1>15. ASSUME NEW s \in Sockets, OtherRevocation(s) PROVE QueuesTyped'
  BY <1>15, ReadyMeans DEF OtherRevocation
<1>16. ASSUME NEW s \in Sockets, Revalidate(s) PROVE QueuesTyped'
  BY <1>16, ReadyMeans DEF Revalidate, Take, Now
<1>17. ASSUME NEW s \in Sockets, Ping(s) PROVE QueuesTyped'
  BY <1>17, ReadyMeans DEF Ping, Resend
<1>18. ASSUME NEW s \in Sockets, EventsLag(s) PROVE QueuesTyped'
  BY <1>18, ReadyMeans DEF EventsLag, Take, Now
<1>19. ASSUME NEW s \in Sockets, Event(s) PROVE QueuesTyped'
  BY <1>19, ReadyMeans, NextEvent DEF Event, Take, Now
<1>20. ASSUME NEW s \in Sockets, ClientMessage(s) PROVE QueuesTyped'
  <2>1. ASSUME NEW in \in {"resume", "baseline"}, Take(s, in), UNCHANGED receivers
       PROVE  QueuesTyped'
    BY <1>20, <2>1, ReadyMeans DEF ClientMessage, Take, Now
  <2>2. CASE Close(s)
    BY <1>20, <2>2, <1>a
  <2>3. QED
    BY <1>20, <2>1, <2>2 DEF ClientMessage
<1>21. ASSUME NEW s \in Sockets, SessionHolds(s) PROVE QueuesTyped'
  BY <1>21 DEF SessionHolds, SessionValid, AfterSession, Answers
<1>22. ASSUME NEW s \in Sockets, SessionRefused(s) PROVE QueuesTyped'
  BY <1>22, <1>a DEF SessionRefused
<1>23. ASSUME NEW s \in Sockets, RefreshVisible(s) PROVE QueuesTyped'
  BY <1>23 DEF RefreshVisible, Done, VisibleProjects
<1>24. ASSUME NEW s \in Sockets, CheckVisible(s) PROVE QueuesTyped'
  BY <1>24 DEF CheckVisible, Done, Resend, Remembers
<1>25. ASSUME NEW s \in Sockets, Resume(s) PROVE QueuesTyped'
  BY <1>25 DEF Resume, Done, Resend, Now
<1>26. ASSUME NEW s \in Sockets, ReplayGoesOn(s) PROVE QueuesTyped'
  BY <1>26 DEF ReplayGoesOn, NextFrame, Now
<1>27. ASSUME NEW s \in Sockets, Sent(s) PROVE QueuesTyped'
  BY <1>27 DEF Sent, Done, Untold
<1>28. ASSUME NEW s \in Sockets, SendFails(s) PROVE QueuesTyped'
  BY <1>28, <1>a DEF SendFails
<1>29. CASE UNCHANGED vars
  BY <1>29
<1> HIDE DEF QueuesTyped
<1>30. QED
  BY <1>1, <1>2, <1>3, <1>4, <1>5, <1>6, <1>7, <1>8, <1>9, <1>10, <1>11, <1>12, <1>13, <1>14, <1>15, <1>16, <1>17, <1>18, <1>19, <1>20, <1>21, <1>22, <1>23, <1>24, <1>25, <1>26, <1>27, <1>28, <1>29 DEF Next, Outside, Serve

(* The history keeps its types. *)
LEMMA HistoryStep ==
    ASSUME TypeOK, [Next]_vars
    PROVE  HistoryTyped'
<1> USE SocketAssumption DEF vars, task, receivers, history, Environment, Goto, Subscribed, TypeOK, WorldTyped, QueuesTyped, HistoryTyped
<1>a. ASSUME NEW s \in Sockets, Close(s) PROVE HistoryTyped'
  BY <1>a DEF Close
<1>1. ASSUME Revoke PROVE HistoryTyped'
  BY <1>1 DEF Revoke
<1>2. ASSUME MembershipChanges PROVE HistoryTyped'
  BY <1>2 DEF MembershipChanges
<1>3. ASSUME NEW e \in ProjectEvents, Publish(e) PROVE HistoryTyped'
  BY <1>3 DEF Publish, Pushed, Overflows, Receives
<1>4. ASSUME NEW who \in {"own", "other"}, RevokeUser(who) PROVE HistoryTyped'
  BY <1>4 DEF RevokeUser, Pushed, Overflows, Receives
<1>5. ASSUME NEW s \in Sockets, SignIn(s) PROVE HistoryTyped'
  BY <1>5 DEF SignIn
<1>6. ASSUME NEW s \in Sockets, SessionEnds(s) PROVE HistoryTyped'
  BY <1>6 DEF SessionEnds
<1>7. ASSUME NEW s \in Sockets, NEW timer \in Timers, ComesDue(s, timer) PROVE HistoryTyped'
  BY <1>7 DEF ComesDue
<1>8. ASSUME NEW s \in Sockets, PeerGoes(s) PROVE HistoryTyped'
  BY <1>8 DEF PeerGoes
<1>9. ASSUME NEW s \in Sockets, Upgrade(s) PROVE HistoryTyped'
  BY <1>9 DEF Upgrade
<1>10. ASSUME NEW s \in Sockets, LookUp(s) PROVE HistoryTyped'
  BY <1>10 DEF LookUp, VisibleProjects
<1>11. ASSUME NEW s \in Sockets, Subscribe(s) PROVE HistoryTyped'
  BY <1>11 DEF Subscribe
<1>12. ASSUME NEW s \in Sockets, ProgressDeadline(s) PROVE HistoryTyped'
  BY <1>12, <1>a DEF ProgressDeadline
<1>13. ASSUME NEW s \in Sockets, RevocationsLag(s) PROVE HistoryTyped'
  BY <1>13, ReadyMeans DEF RevocationsLag, Take, Now
<1>14. ASSUME NEW s \in Sockets, OwnRevocation(s) PROVE HistoryTyped'
  BY <1>14, <1>a DEF OwnRevocation
<1>15. ASSUME NEW s \in Sockets, OtherRevocation(s) PROVE HistoryTyped'
  BY <1>15, ReadyMeans DEF OtherRevocation
<1>16. ASSUME NEW s \in Sockets, Revalidate(s) PROVE HistoryTyped'
  BY <1>16, ReadyMeans DEF Revalidate, Take, Now
<1>17. ASSUME NEW s \in Sockets, Ping(s) PROVE HistoryTyped'
  BY <1>17, ReadyMeans DEF Ping, Resend
<1>18. ASSUME NEW s \in Sockets, EventsLag(s) PROVE HistoryTyped'
  BY <1>18, ReadyMeans DEF EventsLag, Take, Now
<1>19. ASSUME NEW s \in Sockets, Event(s) PROVE HistoryTyped'
  BY <1>19, ReadyMeans, NextEvent DEF Event, Take, Now
<1>20. ASSUME NEW s \in Sockets, ClientMessage(s) PROVE HistoryTyped'
  <2>1. ASSUME NEW in \in {"resume", "baseline"}, Take(s, in), UNCHANGED receivers
       PROVE  HistoryTyped'
    BY <1>20, <2>1, ReadyMeans DEF ClientMessage, Take, Now
  <2>2. CASE Close(s)
    BY <1>20, <2>2, <1>a
  <2>3. QED
    BY <1>20, <2>1, <2>2 DEF ClientMessage
<1>21. ASSUME NEW s \in Sockets, SessionHolds(s) PROVE HistoryTyped'
  BY <1>21 DEF SessionHolds, SessionValid, AfterSession, Answers
<1>22. ASSUME NEW s \in Sockets, SessionRefused(s) PROVE HistoryTyped'
  BY <1>22, <1>a DEF SessionRefused
<1>23. ASSUME NEW s \in Sockets, RefreshVisible(s) PROVE HistoryTyped'
  BY <1>23 DEF RefreshVisible, Done, VisibleProjects
<1>24. ASSUME NEW s \in Sockets, CheckVisible(s) PROVE HistoryTyped'
  BY <1>24 DEF CheckVisible, Done, Resend, Remembers
<1>25. ASSUME NEW s \in Sockets, Resume(s) PROVE HistoryTyped'
  <2>1. CASE Resend(s, "sync_required") /\ UNCHANGED <<input, left, held>>
    BY <1>25, <2>1 DEF Resume, Resend
  <2>2. ASSUME NEW n \in 1..MaxReplay, Goto(s, "session"), input' = [input EXCEPT ![s] = "replay"],
              left' = [left EXCEPT ![s] = n], held' = [held EXCEPT ![s] = Now(s)], UNCHANGED frame
       PROVE  HistoryTyped'
    BY <1>25, <2>2 DEF Resume, Now
  <2>3. CASE Done(s) /\ UNCHANGED <<frame, left, held>>
    BY <1>25, <2>3 DEF Resume, Done
  <2>4. QED
    BY <1>25, <2>1, <2>2, <2>3 DEF Resume
<1>26. ASSUME NEW s \in Sockets, ReplayGoesOn(s) PROVE HistoryTyped'
  BY <1>26 DEF ReplayGoesOn, NextFrame, Now
<1>27. ASSUME NEW s \in Sockets, Sent(s) PROVE HistoryTyped'
  BY <1>27 DEF Sent, Done, Untold
<1>28. ASSUME NEW s \in Sockets, SendFails(s) PROVE HistoryTyped'
  BY <1>28, <1>a DEF SendFails
<1>29. CASE UNCHANGED vars
  BY <1>29
<1> HIDE DEF HistoryTyped
<1>30. QED
  BY <1>1, <1>2, <1>3, <1>4, <1>5, <1>6, <1>7, <1>8, <1>9, <1>10, <1>11, <1>12, <1>13, <1>14, <1>15, <1>16, <1>17, <1>18, <1>19, <1>20, <1>21, <1>22, <1>23, <1>24, <1>25, <1>26, <1>27, <1>28, <1>29 DEF Next, Outside, Serve

(* A step to a rest leaves nothing in hand. *)
LEMMA AtRestStep ==
    ASSUME TypeOK, InBetween, [Next]_vars
    PROVE  AtRest'
<1> USE SocketAssumption DEF vars, task, receivers, history, Environment, Goto, Subscribed, TypeOK, TaskTyped, AtRest, InBetween
<1>a. ASSUME NEW s \in Sockets, Close(s) PROVE AtRest'
  BY <1>a DEF Close
<1>1. ASSUME Revoke PROVE AtRest'
  BY <1>1 DEF Revoke
<1>2. ASSUME MembershipChanges PROVE AtRest'
  BY <1>2 DEF MembershipChanges
<1>3. ASSUME NEW e \in ProjectEvents, Publish(e) PROVE AtRest'
  BY <1>3 DEF Publish, Pushed, Overflows, Receives
<1>4. ASSUME NEW who \in {"own", "other"}, RevokeUser(who) PROVE AtRest'
  BY <1>4 DEF RevokeUser, Pushed, Overflows, Receives
<1>5. ASSUME NEW s \in Sockets, SignIn(s) PROVE AtRest'
  BY <1>5 DEF SignIn
<1>6. ASSUME NEW s \in Sockets, SessionEnds(s) PROVE AtRest'
  BY <1>6 DEF SessionEnds
<1>7. ASSUME NEW s \in Sockets, NEW timer \in Timers, ComesDue(s, timer) PROVE AtRest'
  BY <1>7 DEF ComesDue
<1>8. ASSUME NEW s \in Sockets, PeerGoes(s) PROVE AtRest'
  BY <1>8 DEF PeerGoes
<1>9. ASSUME NEW s \in Sockets, Upgrade(s) PROVE AtRest'
  BY <1>9 DEF Upgrade
<1>10. ASSUME NEW s \in Sockets, LookUp(s) PROVE AtRest'
  BY <1>10 DEF LookUp, VisibleProjects
<1>11. ASSUME NEW s \in Sockets, Subscribe(s) PROVE AtRest'
  BY <1>11 DEF Subscribe
<1>12. ASSUME NEW s \in Sockets, ProgressDeadline(s) PROVE AtRest'
  BY <1>12, <1>a DEF ProgressDeadline
<1>13. ASSUME NEW s \in Sockets, RevocationsLag(s) PROVE AtRest'
  BY <1>13, ReadyMeans DEF RevocationsLag, Take, Now
<1>14. ASSUME NEW s \in Sockets, OwnRevocation(s) PROVE AtRest'
  BY <1>14, <1>a DEF OwnRevocation
<1>15. ASSUME NEW s \in Sockets, OtherRevocation(s) PROVE AtRest'
  BY <1>15, ReadyMeans DEF OtherRevocation
<1>16. ASSUME NEW s \in Sockets, Revalidate(s) PROVE AtRest'
  BY <1>16, ReadyMeans DEF Revalidate, Take, Now
<1>17. ASSUME NEW s \in Sockets, Ping(s) PROVE AtRest'
  BY <1>17, ReadyMeans DEF Ping, Resend
<1>18. ASSUME NEW s \in Sockets, EventsLag(s) PROVE AtRest'
  BY <1>18, ReadyMeans DEF EventsLag, Take, Now
<1>19. ASSUME NEW s \in Sockets, Event(s) PROVE AtRest'
  BY <1>19, ReadyMeans, NextEvent DEF Event, Take, Now
<1>20. ASSUME NEW s \in Sockets, ClientMessage(s) PROVE AtRest'
  <2>1. ASSUME NEW in \in {"resume", "baseline"}, Take(s, in), UNCHANGED receivers
       PROVE  AtRest'
    BY <1>20, <2>1, ReadyMeans DEF ClientMessage, Take, Now
  <2>2. CASE Close(s)
    BY <1>20, <2>2, <1>a
  <2>3. QED
    BY <1>20, <2>1, <2>2 DEF ClientMessage
<1>21. ASSUME NEW s \in Sockets, SessionHolds(s) PROVE AtRest'
  BY <1>21 DEF SessionHolds, SessionValid, AfterSession, Answers
<1>22. ASSUME NEW s \in Sockets, SessionRefused(s) PROVE AtRest'
  BY <1>22, <1>a DEF SessionRefused
<1>23. ASSUME NEW s \in Sockets, RefreshVisible(s) PROVE AtRest'
  BY <1>23 DEF RefreshVisible, Done, VisibleProjects
<1>24. ASSUME NEW s \in Sockets, CheckVisible(s) PROVE AtRest'
  BY <1>24 DEF CheckVisible, Done, Resend, Remembers
<1>25. ASSUME NEW s \in Sockets, Resume(s) PROVE AtRest'
  BY <1>25 DEF Resume, Done, Resend, Now
<1>26. ASSUME NEW s \in Sockets, ReplayGoesOn(s) PROVE AtRest'
  BY <1>26 DEF ReplayGoesOn, NextFrame, Now
<1>27. ASSUME NEW s \in Sockets, Sent(s) PROVE AtRest'
  BY <1>27 DEF Sent, Done, Untold
<1>28. ASSUME NEW s \in Sockets, SendFails(s) PROVE AtRest'
  BY <1>28, <1>a DEF SendFails
<1>29. CASE UNCHANGED vars
  BY <1>29
<1> HIDE DEF AtRest
<1>30. QED
  BY <1>1, <1>2, <1>3, <1>4, <1>5, <1>6, <1>7, <1>8, <1>9, <1>10, <1>11, <1>12, <1>13, <1>14, <1>15, <1>16, <1>17, <1>18, <1>19, <1>20, <1>21, <1>22, <1>23, <1>24, <1>25, <1>26, <1>27, <1>28, <1>29 DEF Next, Outside, Serve

(* InBetween is kept by every action. *)
LEMMA InBetweenStep ==
    ASSUME TypeOK, InBetween, [Next]_vars
    PROVE  InBetween'
<1> USE SocketAssumption DEF vars, task, receivers, history, Environment, Goto, Subscribed, TypeOK, TaskTyped, AtRest, InBetween, ProjectEvents
<1>a. ASSUME NEW s \in Sockets, Close(s) PROVE InBetween'
  BY <1>a DEF Close
<1>1. ASSUME Revoke PROVE InBetween'
  BY <1>1 DEF Revoke
<1>2. ASSUME MembershipChanges PROVE InBetween'
  BY <1>2 DEF MembershipChanges
<1>3. ASSUME NEW e \in ProjectEvents, Publish(e) PROVE InBetween'
  BY <1>3 DEF Publish, Pushed, Overflows, Receives
<1>4. ASSUME NEW who \in {"own", "other"}, RevokeUser(who) PROVE InBetween'
  BY <1>4 DEF RevokeUser, Pushed, Overflows, Receives
<1>5. ASSUME NEW s \in Sockets, SignIn(s) PROVE InBetween'
  BY <1>5 DEF SignIn
<1>6. ASSUME NEW s \in Sockets, SessionEnds(s) PROVE InBetween'
  BY <1>6 DEF SessionEnds
<1>7. ASSUME NEW s \in Sockets, NEW timer \in Timers, ComesDue(s, timer) PROVE InBetween'
  BY <1>7 DEF ComesDue
<1>8. ASSUME NEW s \in Sockets, PeerGoes(s) PROVE InBetween'
  BY <1>8 DEF PeerGoes
<1>9. ASSUME NEW s \in Sockets, Upgrade(s) PROVE InBetween'
  BY <1>9 DEF Upgrade
<1>10. ASSUME NEW s \in Sockets, LookUp(s) PROVE InBetween'
  BY <1>10 DEF LookUp, VisibleProjects
<1>11. ASSUME NEW s \in Sockets, Subscribe(s) PROVE InBetween'
  BY <1>11 DEF Subscribe
<1>12. ASSUME NEW s \in Sockets, ProgressDeadline(s) PROVE InBetween'
  BY <1>12, <1>a DEF ProgressDeadline
<1>13. ASSUME NEW s \in Sockets, RevocationsLag(s) PROVE InBetween'
  BY <1>13, ReadyMeans DEF RevocationsLag, Take, Now
<1>14. ASSUME NEW s \in Sockets, OwnRevocation(s) PROVE InBetween'
  BY <1>14, <1>a DEF OwnRevocation
<1>15. ASSUME NEW s \in Sockets, OtherRevocation(s) PROVE InBetween'
  BY <1>15, ReadyMeans DEF OtherRevocation
<1>16. ASSUME NEW s \in Sockets, Revalidate(s) PROVE InBetween'
  BY <1>16, ReadyMeans DEF Revalidate, Take, Now
<1>17. ASSUME NEW s \in Sockets, Ping(s) PROVE InBetween'
  BY <1>17, ReadyMeans DEF Ping, Resend
<1>18. ASSUME NEW s \in Sockets, EventsLag(s) PROVE InBetween'
  BY <1>18, ReadyMeans DEF EventsLag, Take, Now
<1>19. ASSUME NEW s \in Sockets, Event(s) PROVE InBetween'
  BY <1>19, ReadyMeans, NextEvent DEF Event, Take, Now
<1>20. ASSUME NEW s \in Sockets, ClientMessage(s) PROVE InBetween'
  <2>1. ASSUME NEW in \in {"resume", "baseline"}, Take(s, in), UNCHANGED receivers
       PROVE  InBetween'
    BY <1>20, <2>1, ReadyMeans DEF ClientMessage, Take, Now
  <2>2. CASE Close(s)
    BY <1>20, <2>2, <1>a
  <2>3. QED
    BY <1>20, <2>1, <2>2 DEF ClientMessage
<1>21. ASSUME NEW s \in Sockets, SessionHolds(s) PROVE InBetween'
  BY <1>21 DEF SessionHolds, SessionValid, AfterSession, Answers
<1>22. ASSUME NEW s \in Sockets, SessionRefused(s) PROVE InBetween'
  BY <1>22, <1>a DEF SessionRefused
<1>23. ASSUME NEW s \in Sockets, RefreshVisible(s) PROVE InBetween'
  BY <1>23 DEF RefreshVisible, Done, VisibleProjects
<1>24. ASSUME NEW s \in Sockets, CheckVisible(s) PROVE InBetween'
  BY <1>24 DEF CheckVisible, Done, Resend, Remembers
<1>25. ASSUME NEW s \in Sockets, Resume(s) PROVE InBetween'
  BY <1>25 DEF Resume, Done, Resend, Now
<1>26. ASSUME NEW s \in Sockets, ReplayGoesOn(s) PROVE InBetween'
  BY <1>26 DEF ReplayGoesOn, NextFrame, Now
<1>27. ASSUME NEW s \in Sockets, Sent(s) PROVE InBetween'
  BY <1>27 DEF Sent, Done, Untold
<1>28. ASSUME NEW s \in Sockets, SendFails(s) PROVE InBetween'
  BY <1>28, <1>a DEF SendFails
<1>29. CASE UNCHANGED vars
  BY <1>29
<1> HIDE DEF InBetween
<1>30. QED
  BY <1>1, <1>2, <1>3, <1>4, <1>5, <1>6, <1>7, <1>8, <1>9, <1>10, <1>11, <1>12, <1>13, <1>14, <1>15, <1>16, <1>17, <1>18, <1>19, <1>20, <1>21, <1>22, <1>23, <1>24, <1>25, <1>26, <1>27, <1>28, <1>29 DEF Next, Outside, Serve

(* HeldSoFar is kept by every action. *)
LEMMA HeldSoFarStep ==
    ASSUME TypeOK, HeldSoFar, [Next]_vars
    PROVE  HeldSoFar'
<1> USE SocketAssumption DEF vars, task, receivers, history, Environment, Goto, Subscribed, TypeOK, WorldTyped, TaskTyped, HistoryTyped, HeldSoFar
<1>a. ASSUME NEW s \in Sockets, Close(s) PROVE HeldSoFar'
  BY <1>a DEF Close
<1>1. ASSUME Revoke PROVE HeldSoFar'
  BY <1>1 DEF Revoke
<1>2. ASSUME MembershipChanges PROVE HeldSoFar'
  BY <1>2 DEF MembershipChanges
<1>3. ASSUME NEW e \in ProjectEvents, Publish(e) PROVE HeldSoFar'
  BY <1>3 DEF Publish, Pushed, Overflows, Receives
<1>4. ASSUME NEW who \in {"own", "other"}, RevokeUser(who) PROVE HeldSoFar'
  BY <1>4 DEF RevokeUser, Pushed, Overflows, Receives
<1>5. ASSUME NEW s \in Sockets, SignIn(s) PROVE HeldSoFar'
  BY <1>5 DEF SignIn
<1>6. ASSUME NEW s \in Sockets, SessionEnds(s) PROVE HeldSoFar'
  BY <1>6 DEF SessionEnds
<1>7. ASSUME NEW s \in Sockets, NEW timer \in Timers, ComesDue(s, timer) PROVE HeldSoFar'
  BY <1>7 DEF ComesDue
<1>8. ASSUME NEW s \in Sockets, PeerGoes(s) PROVE HeldSoFar'
  BY <1>8 DEF PeerGoes
<1>9. ASSUME NEW s \in Sockets, Upgrade(s) PROVE HeldSoFar'
  BY <1>9 DEF Upgrade
<1>10. ASSUME NEW s \in Sockets, LookUp(s) PROVE HeldSoFar'
  BY <1>10 DEF LookUp, VisibleProjects
<1>11. ASSUME NEW s \in Sockets, Subscribe(s) PROVE HeldSoFar'
  BY <1>11 DEF Subscribe
<1>12. ASSUME NEW s \in Sockets, ProgressDeadline(s) PROVE HeldSoFar'
  BY <1>12, <1>a DEF ProgressDeadline
<1>13. ASSUME NEW s \in Sockets, RevocationsLag(s) PROVE HeldSoFar'
  BY <1>13, ReadyMeans DEF RevocationsLag, Take, Now
<1>14. ASSUME NEW s \in Sockets, OwnRevocation(s) PROVE HeldSoFar'
  BY <1>14, <1>a DEF OwnRevocation
<1>15. ASSUME NEW s \in Sockets, OtherRevocation(s) PROVE HeldSoFar'
  BY <1>15, ReadyMeans DEF OtherRevocation
<1>16. ASSUME NEW s \in Sockets, Revalidate(s) PROVE HeldSoFar'
  BY <1>16, ReadyMeans DEF Revalidate, Take, Now
<1>17. ASSUME NEW s \in Sockets, Ping(s) PROVE HeldSoFar'
  BY <1>17, ReadyMeans DEF Ping, Resend
<1>18. ASSUME NEW s \in Sockets, EventsLag(s) PROVE HeldSoFar'
  BY <1>18, ReadyMeans DEF EventsLag, Take, Now
<1>19. ASSUME NEW s \in Sockets, Event(s) PROVE HeldSoFar'
  BY <1>19, ReadyMeans, NextEvent DEF Event, Take, Now
<1>20. ASSUME NEW s \in Sockets, ClientMessage(s) PROVE HeldSoFar'
  <2>1. ASSUME NEW in \in {"resume", "baseline"}, Take(s, in), UNCHANGED receivers
       PROVE  HeldSoFar'
    BY <1>20, <2>1, ReadyMeans DEF ClientMessage, Take, Now
  <2>2. CASE Close(s)
    BY <1>20, <2>2, <1>a
  <2>3. QED
    BY <1>20, <2>1, <2>2 DEF ClientMessage
<1>21. ASSUME NEW s \in Sockets, SessionHolds(s) PROVE HeldSoFar'
  BY <1>21 DEF SessionHolds, SessionValid, AfterSession, Answers
<1>22. ASSUME NEW s \in Sockets, SessionRefused(s) PROVE HeldSoFar'
  BY <1>22, <1>a DEF SessionRefused
<1>23. ASSUME NEW s \in Sockets, RefreshVisible(s) PROVE HeldSoFar'
  BY <1>23 DEF RefreshVisible, Done, VisibleProjects
<1>24. ASSUME NEW s \in Sockets, CheckVisible(s) PROVE HeldSoFar'
  BY <1>24 DEF CheckVisible, Done, Resend, Remembers
<1>25. ASSUME NEW s \in Sockets, Resume(s) PROVE HeldSoFar'
  BY <1>25 DEF Resume, Done, Resend, Now
<1>26. ASSUME NEW s \in Sockets, ReplayGoesOn(s) PROVE HeldSoFar'
  BY <1>26 DEF ReplayGoesOn, NextFrame, Now
<1>27. ASSUME NEW s \in Sockets, Sent(s) PROVE HeldSoFar'
  BY <1>27 DEF Sent, Done, Untold
<1>28. ASSUME NEW s \in Sockets, SendFails(s) PROVE HeldSoFar'
  BY <1>28, <1>a DEF SendFails
<1>29. CASE UNCHANGED vars
  BY <1>29
<1> HIDE DEF HeldSoFar
<1>30. QED
  BY <1>1, <1>2, <1>3, <1>4, <1>5, <1>6, <1>7, <1>8, <1>9, <1>10, <1>11, <1>12, <1>13, <1>14, <1>15, <1>16, <1>17, <1>18, <1>19, <1>20, <1>21, <1>22, <1>23, <1>24, <1>25, <1>26, <1>27, <1>28, <1>29 DEF Next, Outside, Serve

(* No step starts sending a frame of the project without both. *)
LEMMA OnlyWhileAllowedStep ==
    ASSUME TypeOK, InBetween, HeldSoFar, OnlyWhileAllowed, [Next]_vars
    PROVE  OnlyWhileAllowed'
<1> USE SocketAssumption DEF vars, task, receivers, history, Environment, Goto, Subscribed, TypeOK, WorldTyped, TaskTyped, HistoryTyped, AtRest, InBetween, HeldSoFar, OnlyWhileAllowed
<1>a. ASSUME NEW s \in Sockets, Close(s) PROVE OnlyWhileAllowed'
  BY <1>a DEF Close
<1>1. ASSUME Revoke PROVE OnlyWhileAllowed'
  BY <1>1 DEF Revoke
<1>2. ASSUME MembershipChanges PROVE OnlyWhileAllowed'
  BY <1>2 DEF MembershipChanges
<1>3. ASSUME NEW e \in ProjectEvents, Publish(e) PROVE OnlyWhileAllowed'
  BY <1>3 DEF Publish, Pushed, Overflows, Receives
<1>4. ASSUME NEW who \in {"own", "other"}, RevokeUser(who) PROVE OnlyWhileAllowed'
  BY <1>4 DEF RevokeUser, Pushed, Overflows, Receives
<1>5. ASSUME NEW s \in Sockets, SignIn(s) PROVE OnlyWhileAllowed'
  BY <1>5 DEF SignIn
<1>6. ASSUME NEW s \in Sockets, SessionEnds(s) PROVE OnlyWhileAllowed'
  BY <1>6 DEF SessionEnds
<1>7. ASSUME NEW s \in Sockets, NEW timer \in Timers, ComesDue(s, timer) PROVE OnlyWhileAllowed'
  BY <1>7 DEF ComesDue
<1>8. ASSUME NEW s \in Sockets, PeerGoes(s) PROVE OnlyWhileAllowed'
  BY <1>8 DEF PeerGoes
<1>9. ASSUME NEW s \in Sockets, Upgrade(s) PROVE OnlyWhileAllowed'
  BY <1>9 DEF Upgrade
<1>10. ASSUME NEW s \in Sockets, LookUp(s) PROVE OnlyWhileAllowed'
  BY <1>10 DEF LookUp, VisibleProjects
<1>11. ASSUME NEW s \in Sockets, Subscribe(s) PROVE OnlyWhileAllowed'
  BY <1>11 DEF Subscribe
<1>12. ASSUME NEW s \in Sockets, ProgressDeadline(s) PROVE OnlyWhileAllowed'
  BY <1>12, <1>a DEF ProgressDeadline
<1>13. ASSUME NEW s \in Sockets, RevocationsLag(s) PROVE OnlyWhileAllowed'
  BY <1>13, ReadyMeans DEF RevocationsLag, Take, Now
<1>14. ASSUME NEW s \in Sockets, OwnRevocation(s) PROVE OnlyWhileAllowed'
  BY <1>14, <1>a DEF OwnRevocation
<1>15. ASSUME NEW s \in Sockets, OtherRevocation(s) PROVE OnlyWhileAllowed'
  BY <1>15, ReadyMeans DEF OtherRevocation
<1>16. ASSUME NEW s \in Sockets, Revalidate(s) PROVE OnlyWhileAllowed'
  BY <1>16, ReadyMeans DEF Revalidate, Take, Now
<1>17. ASSUME NEW s \in Sockets, Ping(s) PROVE OnlyWhileAllowed'
  BY <1>17, ReadyMeans DEF Ping, Resend
<1>18. ASSUME NEW s \in Sockets, EventsLag(s) PROVE OnlyWhileAllowed'
  BY <1>18, ReadyMeans DEF EventsLag, Take, Now
<1>19. ASSUME NEW s \in Sockets, Event(s) PROVE OnlyWhileAllowed'
  BY <1>19, ReadyMeans, NextEvent DEF Event, Take, Now
<1>20. ASSUME NEW s \in Sockets, ClientMessage(s) PROVE OnlyWhileAllowed'
  <2>1. ASSUME NEW in \in {"resume", "baseline"}, Take(s, in), UNCHANGED receivers
       PROVE  OnlyWhileAllowed'
    BY <1>20, <2>1, ReadyMeans DEF ClientMessage, Take, Now
  <2>2. CASE Close(s)
    BY <1>20, <2>2, <1>a
  <2>3. QED
    BY <1>20, <2>1, <2>2 DEF ClientMessage
<1>21. ASSUME NEW s \in Sockets, SessionHolds(s) PROVE OnlyWhileAllowed'
  BY <1>21 DEF SessionHolds, SessionValid, AfterSession, Answers
<1>22. ASSUME NEW s \in Sockets, SessionRefused(s) PROVE OnlyWhileAllowed'
  BY <1>22, <1>a DEF SessionRefused
<1>23. ASSUME NEW s \in Sockets, RefreshVisible(s) PROVE OnlyWhileAllowed'
  BY <1>23 DEF RefreshVisible, Done, VisibleProjects
<1>24. ASSUME NEW s \in Sockets, CheckVisible(s) PROVE OnlyWhileAllowed'
  BY <1>24 DEF CheckVisible, Done, Resend, Remembers
<1>25. ASSUME NEW s \in Sockets, Resume(s) PROVE OnlyWhileAllowed'
  BY <1>25 DEF Resume, Done, Resend, Now
<1>26. ASSUME NEW s \in Sockets, ReplayGoesOn(s) PROVE OnlyWhileAllowed'
  BY <1>26 DEF ReplayGoesOn, NextFrame, Now
<1>27. ASSUME NEW s \in Sockets, Sent(s) PROVE OnlyWhileAllowed'
  BY <1>27 DEF Sent, Done, Untold
<1>28. ASSUME NEW s \in Sockets, SendFails(s) PROVE OnlyWhileAllowed'
  BY <1>28, <1>a DEF SendFails
<1>29. CASE UNCHANGED vars
  BY <1>29
<1> HIDE DEF OnlyWhileAllowed
<1>30. QED
  BY <1>1, <1>2, <1>3, <1>4, <1>5, <1>6, <1>7, <1>8, <1>9, <1>10, <1>11, <1>12, <1>13, <1>14, <1>15, <1>16, <1>17, <1>18, <1>19, <1>20, <1>21, <1>22, <1>23, <1>24, <1>25, <1>26, <1>27, <1>28, <1>29 DEF Next, Outside, Serve

(* LagIsPending is kept by every action. *)
LEMMA LagIsPendingStep ==
    ASSUME TypeOK, InBetween, LagIsPending, [Next]_vars
    PROVE  LagIsPending'
<1> USE SocketAssumption DEF vars, task, receivers, history, Environment, Goto, Subscribed, TypeOK, TaskTyped, QueuesTyped, HistoryTyped, AtRest, InBetween, LagIsPending, ProjectEvents
<1>a. ASSUME NEW s \in Sockets, Close(s) PROVE LagIsPending'
  BY <1>a DEF Close
<1>1. ASSUME Revoke PROVE LagIsPending'
  BY <1>1 DEF Revoke
<1>2. ASSUME MembershipChanges PROVE LagIsPending'
  BY <1>2 DEF MembershipChanges
<1>3. ASSUME NEW e \in ProjectEvents, Publish(e) PROVE LagIsPending'
  BY <1>3 DEF Publish, Pushed, Overflows, Receives
<1>4. ASSUME NEW who \in {"own", "other"}, RevokeUser(who) PROVE LagIsPending'
  BY <1>4 DEF RevokeUser, Pushed, Overflows, Receives
<1>5. ASSUME NEW s \in Sockets, SignIn(s) PROVE LagIsPending'
  BY <1>5 DEF SignIn
<1>6. ASSUME NEW s \in Sockets, SessionEnds(s) PROVE LagIsPending'
  BY <1>6 DEF SessionEnds
<1>7. ASSUME NEW s \in Sockets, NEW timer \in Timers, ComesDue(s, timer) PROVE LagIsPending'
  BY <1>7 DEF ComesDue
<1>8. ASSUME NEW s \in Sockets, PeerGoes(s) PROVE LagIsPending'
  BY <1>8 DEF PeerGoes
<1>9. ASSUME NEW s \in Sockets, Upgrade(s) PROVE LagIsPending'
  BY <1>9 DEF Upgrade
<1>10. ASSUME NEW s \in Sockets, LookUp(s) PROVE LagIsPending'
  BY <1>10 DEF LookUp, VisibleProjects
<1>11. ASSUME NEW s \in Sockets, Subscribe(s) PROVE LagIsPending'
  BY <1>11 DEF Subscribe
<1>12. ASSUME NEW s \in Sockets, ProgressDeadline(s) PROVE LagIsPending'
  BY <1>12, <1>a DEF ProgressDeadline
<1>13. ASSUME NEW s \in Sockets, RevocationsLag(s) PROVE LagIsPending'
  BY <1>13, ReadyMeans DEF RevocationsLag, Take, Now
<1>14. ASSUME NEW s \in Sockets, OwnRevocation(s) PROVE LagIsPending'
  BY <1>14, <1>a DEF OwnRevocation
<1>15. ASSUME NEW s \in Sockets, OtherRevocation(s) PROVE LagIsPending'
  BY <1>15, ReadyMeans DEF OtherRevocation
<1>16. ASSUME NEW s \in Sockets, Revalidate(s) PROVE LagIsPending'
  BY <1>16, ReadyMeans DEF Revalidate, Take, Now
<1>17. ASSUME NEW s \in Sockets, Ping(s) PROVE LagIsPending'
  BY <1>17, ReadyMeans DEF Ping, Resend
<1>18. ASSUME NEW s \in Sockets, EventsLag(s) PROVE LagIsPending'
  BY <1>18, ReadyMeans DEF EventsLag, Take, Now
<1>19. ASSUME NEW s \in Sockets, Event(s) PROVE LagIsPending'
  BY <1>19, ReadyMeans, NextEvent DEF Event, Take, Now
<1>20. ASSUME NEW s \in Sockets, ClientMessage(s) PROVE LagIsPending'
  <2>1. ASSUME NEW in \in {"resume", "baseline"}, Take(s, in), UNCHANGED receivers
       PROVE  LagIsPending'
    BY <1>20, <2>1, ReadyMeans DEF ClientMessage, Take, Now
  <2>2. CASE Close(s)
    BY <1>20, <2>2, <1>a
  <2>3. QED
    BY <1>20, <2>1, <2>2 DEF ClientMessage
<1>21. ASSUME NEW s \in Sockets, SessionHolds(s) PROVE LagIsPending'
  BY <1>21 DEF SessionHolds, SessionValid, AfterSession, Answers
<1>22. ASSUME NEW s \in Sockets, SessionRefused(s) PROVE LagIsPending'
  BY <1>22, <1>a DEF SessionRefused
<1>23. ASSUME NEW s \in Sockets, RefreshVisible(s) PROVE LagIsPending'
  BY <1>23 DEF RefreshVisible, Done, VisibleProjects
<1>24. ASSUME NEW s \in Sockets, CheckVisible(s) PROVE LagIsPending'
  BY <1>24 DEF CheckVisible, Done, Resend, Remembers
<1>25. ASSUME NEW s \in Sockets, Resume(s) PROVE LagIsPending'
  BY <1>25 DEF Resume, Done, Resend, Now
<1>26. ASSUME NEW s \in Sockets, ReplayGoesOn(s) PROVE LagIsPending'
  BY <1>26 DEF ReplayGoesOn, NextFrame, Now
<1>27. ASSUME NEW s \in Sockets, Sent(s) PROVE LagIsPending'
  BY <1>27 DEF Sent, Done, Untold
<1>28. ASSUME NEW s \in Sockets, SendFails(s) PROVE LagIsPending'
  BY <1>28, <1>a DEF SendFails
<1>29. CASE UNCHANGED vars
  BY <1>29
<1> HIDE DEF LagIsPending
<1>30. QED
  BY <1>1, <1>2, <1>3, <1>4, <1>5, <1>6, <1>7, <1>8, <1>9, <1>10, <1>11, <1>12, <1>13, <1>14, <1>15, <1>16, <1>17, <1>18, <1>19, <1>20, <1>21, <1>22, <1>23, <1>24, <1>25, <1>26, <1>27, <1>28, <1>29 DEF Next, Outside, Serve

(* UpToDate is kept by every action. *)
LEMMA UpToDateStep ==
    ASSUME TypeOK, InBetween, LagIsPending, UpToDate, [Next]_vars
    PROVE  UpToDate'
<1> USE SocketAssumption DEF vars, task, receivers, history, Environment, Goto, Subscribed, TypeOK, TaskTyped, QueuesTyped, HistoryTyped, AtRest, InBetween, LagIsPending, UpToDate, ProjectEvents
<1>a. ASSUME NEW s \in Sockets, Close(s) PROVE UpToDate'
  BY <1>a DEF Close
<1>1. ASSUME Revoke PROVE UpToDate'
  BY <1>1 DEF Revoke
<1>2. ASSUME MembershipChanges PROVE UpToDate'
  BY <1>2 DEF MembershipChanges
<1>3. ASSUME NEW e \in ProjectEvents, Publish(e) PROVE UpToDate'
  BY <1>3 DEF Publish, Pushed, Overflows, Receives
<1>4. ASSUME NEW who \in {"own", "other"}, RevokeUser(who) PROVE UpToDate'
  BY <1>4 DEF RevokeUser, Pushed, Overflows, Receives
<1>5. ASSUME NEW s \in Sockets, SignIn(s) PROVE UpToDate'
  BY <1>5 DEF SignIn
<1>6. ASSUME NEW s \in Sockets, SessionEnds(s) PROVE UpToDate'
  BY <1>6 DEF SessionEnds
<1>7. ASSUME NEW s \in Sockets, NEW timer \in Timers, ComesDue(s, timer) PROVE UpToDate'
  BY <1>7 DEF ComesDue
<1>8. ASSUME NEW s \in Sockets, PeerGoes(s) PROVE UpToDate'
  BY <1>8 DEF PeerGoes
<1>9. ASSUME NEW s \in Sockets, Upgrade(s) PROVE UpToDate'
  BY <1>9 DEF Upgrade
<1>10. ASSUME NEW s \in Sockets, LookUp(s) PROVE UpToDate'
  BY <1>10 DEF LookUp, VisibleProjects
<1>11. ASSUME NEW s \in Sockets, Subscribe(s) PROVE UpToDate'
  BY <1>11 DEF Subscribe
<1>12. ASSUME NEW s \in Sockets, ProgressDeadline(s) PROVE UpToDate'
  BY <1>12, <1>a DEF ProgressDeadline
<1>13. ASSUME NEW s \in Sockets, RevocationsLag(s) PROVE UpToDate'
  BY <1>13, ReadyMeans DEF RevocationsLag, Take, Now
<1>14. ASSUME NEW s \in Sockets, OwnRevocation(s) PROVE UpToDate'
  BY <1>14, <1>a DEF OwnRevocation
<1>15. ASSUME NEW s \in Sockets, OtherRevocation(s) PROVE UpToDate'
  BY <1>15, ReadyMeans DEF OtherRevocation
<1>16. ASSUME NEW s \in Sockets, Revalidate(s) PROVE UpToDate'
  BY <1>16, ReadyMeans DEF Revalidate, Take, Now
<1>17. ASSUME NEW s \in Sockets, Ping(s) PROVE UpToDate'
  BY <1>17, ReadyMeans DEF Ping, Resend
<1>18. ASSUME NEW s \in Sockets, EventsLag(s) PROVE UpToDate'
  BY <1>18, ReadyMeans DEF EventsLag, Take, Now
<1>19. ASSUME NEW s \in Sockets, Event(s) PROVE UpToDate'
  BY <1>19, ReadyMeans, NextEvent DEF Event, Take, Now
<1>20. ASSUME NEW s \in Sockets, ClientMessage(s) PROVE UpToDate'
  <2>1. ASSUME NEW in \in {"resume", "baseline"}, Take(s, in), UNCHANGED receivers
       PROVE  UpToDate'
    BY <1>20, <2>1, ReadyMeans DEF ClientMessage, Take, Now
  <2>2. CASE Close(s)
    BY <1>20, <2>2, <1>a
  <2>3. QED
    BY <1>20, <2>1, <2>2 DEF ClientMessage
<1>21. ASSUME NEW s \in Sockets, SessionHolds(s) PROVE UpToDate'
  BY <1>21 DEF SessionHolds, SessionValid, AfterSession, Answers
<1>22. ASSUME NEW s \in Sockets, SessionRefused(s) PROVE UpToDate'
  BY <1>22, <1>a DEF SessionRefused
<1>23. ASSUME NEW s \in Sockets, RefreshVisible(s) PROVE UpToDate'
  BY <1>23 DEF RefreshVisible, Done, VisibleProjects
<1>24. ASSUME NEW s \in Sockets, CheckVisible(s) PROVE UpToDate'
  BY <1>24 DEF CheckVisible, Done, Resend, Remembers
<1>25. ASSUME NEW s \in Sockets, Resume(s) PROVE UpToDate'
  <2>1. CASE Resend(s, "sync_required") /\ UNCHANGED <<input, left, held>>
    BY <1>25, <2>1 DEF Resume, Resend
  <2>2. ASSUME NEW n \in 1..MaxReplay, Goto(s, "session"), input' = [input EXCEPT ![s] = "replay"],
              left' = [left EXCEPT ![s] = n], held' = [held EXCEPT ![s] = Now(s)], UNCHANGED frame
       PROVE  UpToDate'
    BY <1>25, <2>2 DEF Resume, Now
  <2>3. CASE Done(s) /\ UNCHANGED <<frame, left, held>>
    BY <1>25, <2>3 DEF Resume, Done
  <2>4. QED
    BY <1>25, <2>1, <2>2, <2>3 DEF Resume
<1>26. ASSUME NEW s \in Sockets, ReplayGoesOn(s) PROVE UpToDate'
  BY <1>26 DEF ReplayGoesOn, NextFrame, Now
<1>27. ASSUME NEW s \in Sockets, Sent(s) PROVE UpToDate'
  BY <1>27 DEF Sent, Done, Untold
<1>28. ASSUME NEW s \in Sockets, SendFails(s) PROVE UpToDate'
  BY <1>28, <1>a DEF SendFails
<1>29. CASE UNCHANGED vars
  BY <1>29
<1> HIDE DEF UpToDate
<1>30. QED
  BY <1>1, <1>2, <1>3, <1>4, <1>5, <1>6, <1>7, <1>8, <1>9, <1>10, <1>11, <1>12, <1>13, <1>14, <1>15, <1>16, <1>17, <1>18, <1>19, <1>20, <1>21, <1>22, <1>23, <1>24, <1>25, <1>26, <1>27, <1>28, <1>29 DEF Next, Outside, Serve

LEMMA InitIInv == Init => IInv
BY SocketAssumption DEF Init, IInv, TypeOK, WorldTyped, TaskTyped, QueuesTyped, HistoryTyped, AtRest, InBetween, HeldSoFar, OnlyWhileAllowed, LagIsPending, UpToDate,
   Subscribed, Timers, ProjectEvents, Inputs, Frames

LEMMA IInvStep == IInv /\ [Next]_vars => IInv'
BY WorldStep, TaskStep, QueuesStep, HistoryStep, AtRestStep, InBetweenStep, HeldSoFarStep, OnlyWhileAllowedStep, LagIsPendingStep, UpToDateStep DEF IInv, TypeOK

LEMMA Inductive == Spec => []IInv
BY InitIInv, IInvStep, PTL DEF Spec

(* Every variable keeps its type, and a task at its select has nothing in  *)
(* hand.                                                                   *)
THEOREM SocketTyped == Spec => []TypeOK
<1>1. IInv => TypeOK
  BY DEF IInv
<1>2. QED
  BY Inductive, <1>1, PTL

(* serve_socket sends a frame of a project only to who was allowed to see  *)
(* it since the event or the replayed frame was taken up.                  *)
THEOREM SentOnlyWhileAllowed == Spec => []OnlyWhileAllowed
<1>1. IInv => OnlyWhileAllowed
  BY DEF IInv
<1>2. QED
  BY Inductive, <1>1, PTL

(* forward_event tells of a lag before it forwards a later event.          *)
THEOREM GapsAreTold == Spec => []NoSilentGap
<1>1. IInv => NoSilentGap
  BY DEF IInv, UpToDate, NoSilentGap
<1>2. QED
  BY Inductive, <1>1, PTL
===============================================================================
