------------------------------ MODULE Plans_proofs ------------------------------
(***************************************************************************)
(* Any number of plans, steps, issues and processes.                       *)
(***************************************************************************)
EXTENDS Plans, TLAPS

Shape ==
    /\ of \in [Steps -> Plans \cup {NoPlan}]
    /\ parent \in [Steps -> Steps \cup {Root}]
    /\ req = [p \in Processes |-> req[p]]
    /\ \A p \in Processes : req[p].to \in Steps \cup {Root} /\ req[p].at \in Steps \cup {Root}

(* What a move has learnt: its step is on no row the walk has passed, and  *)
(* the parents of those rows have been passed too, or are next.            *)
Walked(p) ==
    req[p].op = "move" =>
        /\ req[p].step \notin req[p].seen /\ req[p].to # req[p].step
        /\ req[p].to \in req[p].seen \cup {req[p].at}
        /\ \A x \in req[p].seen : x \in Rows => parent[x] \in req[p].seen \cup {req[p].at}

Family == Shape /\ FamiliesStayInTheirPlan

-----------------------------------------------------------------------------
(* Families.                                                               *)

(* A new row joins the plan of its parent.                                 *)
LEMMA FamilyGrows ==
    ASSUME Family,
           NEW p \in Processes, NEW pl \in Plans, NEW i \in Issues \cup {NoIssue},
           \/ CreatePlan(p, pl, i)
           \/ \E above \in Steps \cup {Root}, s \in Steps : AddStep(p, pl, above, s, i)
    PROVE  Family'
<1> USE PlansAssumption DEF Family, Shape, FamiliesStayInTheirPlan, Row, Rows
<1>1. CASE CreatePlan(p, pl, i)
  <2>1. PICK S \in SUBSET Unborn : \E up \in Trees(S) :
           /\ of' = [s \in Steps |-> IF s \in S THEN pl ELSE of[s]]
           /\ parent' = [s \in Steps |-> IF s \in S THEN up[s] ELSE parent[s]]
    BY <1>1 DEF CreatePlan
  <2>2. PICK up \in Trees(S) :
           /\ of' = [s \in Steps |-> IF s \in S THEN pl ELSE of[s]]
           /\ parent' = [s \in Steps |-> IF s \in S THEN up[s] ELSE parent[s]]
    BY <2>1
  <2>3. S \subseteq Steps /\ \A s \in S : ~Row(s) /\ up[s] \in S \cup {Root}
    BY DEF Unborn, Trees
  <2>4. Shape'
    BY <1>1, <2>2, <2>3 DEF CreatePlan, Writes
  <2>5. ASSUME NEW s \in Steps, of'[s] # NoPlan, parent'[s] # Root
        PROVE  of'[parent'[s]] # NoPlan /\ of'[parent'[s]] = of'[s]
    <3>1. CASE s \in S
      BY <2>2, <2>3, <2>5, <3>1
    <3>2. CASE s \notin S
      BY <2>2, <2>3, <2>5, <3>2
    <3> QED
      BY <3>1, <3>2
  <2> QED
    BY <2>4, <2>5
<1>2. CASE \E above \in Steps \cup {Root}, s \in Steps : AddStep(p, pl, above, s, i)
  BY <1>2 DEF AddStep, Writes, Unborn
<1> QED
  BY <1>1, <1>2

(* What is removed takes its children along.                               *)
LEMMA FamilyShrinks ==
    ASSUME Family, NEW S \in SUBSET Rows, Remove(S), req' = req,
           \A t \in Rows : parent[t] \in S => t \in S
    PROVE  Family'
BY PlansAssumption DEF Family, Shape, FamiliesStayInTheirPlan, Row, Rows, Remove

LEMMA SubtreeClosed ==
    ASSUME Shape, NEW s \in Steps, Row(s)
    PROVE  /\ Subtree(s) \subseteq Rows
           /\ \A t \in Rows : parent[t] \in Subtree(s) => t \in Subtree(s)
BY DEF Subtree

LEMMA FamilyNext ==
    ASSUME Family, [Next]_vars
    PROVE  Family'
<1>1. ASSUME UNCHANGED <<of, parent>>, Shape'
      PROVE  Family'
  BY <1>1 DEF Family, Shape, FamiliesStayInTheirPlan, Row, Rows
<1>2. CASE UNCHANGED vars
  BY <1>1, <1>2 DEF vars, tree, Family, Shape
<1>3. ASSUME NEW p \in Processes, NEW pl \in Plans, NEW i \in Issues \cup {NoIssue},
             \/ CreatePlan(p, pl, i)
             \/ \E to \in {"active", "done", "archived"} : UpdatePlan(p, pl, to, i)
             \/ \E above \in Steps \cup {Root}, s \in Steps : AddStep(p, pl, above, s, i)
      PROVE  Family'
  <2>1. CASE \E to \in {"active", "done", "archived"} : UpdatePlan(p, pl, to, i)
    BY <1>1, <2>1 DEF UpdatePlan, Writes, tree, Family, Shape
  <2> QED
    BY <1>3, <2>1, FamilyGrows
<1>4. ASSUME NEW p \in Processes, NEW pl \in Plans, DeletePlan(p, pl)
      PROVE  Family'
  <2>1. StepsOf(pl) \in SUBSET Rows /\ \A t \in Rows : parent[t] \in StepsOf(pl) => t \in StepsOf(pl)
    BY PlansAssumption DEF Family, Shape, FamiliesStayInTheirPlan, StepsOf, Rows, Row
  <2> QED
    BY <1>4, <2>1, FamilyShrinks DEF DeletePlan, Writes
<1>5. ASSUME NEW p \in Processes, NEW s \in Steps, DeleteStep(p, s)
      PROVE  Family'
  <2>1. Subtree(s) \in SUBSET Rows /\ \A t \in Rows : parent[t] \in Subtree(s) => t \in Subtree(s)
    BY <1>5, SubtreeClosed DEF Family, DeleteStep
  <2> QED
    BY <1>5, <2>1, FamilyShrinks DEF DeleteStep, Writes
<1>6. ASSUME NEW p \in Processes, NEW s \in Steps,
             \/ Uncheck(p, s) \/ CheckReads(p, s)
             \/ \E i \in Issues \cup {NoIssue} : SetStepIssue(p, s, i)
             \/ \E to \in Steps \cup {Root} : MoveStarts(p, s, to)
      PROVE  Family'
  BY <1>1, <1>6 DEF Uncheck, CheckReads, SetStepIssue, MoveStarts, Writes, Request, tree, Family, Shape
<1>7. ASSUME NEW p \in Processes, NEW i \in Issues,
             Close(p, i) \/ Reopen(p, i) \/ DeleteIssue(p, i) \/ RestoreIssue(p, i) \/ PurgeIssue(p, i)
      PROVE  Family'
  BY <1>1, <1>7 DEF Close, Reopen, DeleteIssue, RestoreIssue, PurgeIssue, Writes, tree, Family, Shape
<1>8. ASSUME NEW p \in Processes, CheckCommits(p) \/ MoveWalks(p) \/ MoveRefused(p)
      PROVE  Family'
  BY <1>1, <1>8 DEF CheckCommits, MoveWalks, MoveRefused, Ends, Idle, Request, tree, Family, Shape
<1>9. ASSUME NEW p \in Processes, MoveCommits(p)
      PROVE  Family'
  <2>1. Shape'
    BY <1>9 DEF MoveCommits, Ends, Idle, Request, Family, Shape
  <2>2. ASSUME NEW s \in Rows, parent'[s] # Root
        PROVE  parent'[s] \in Steps /\ Row(parent'[s]) /\ of[parent'[s]] = of[s]
    <3>1. CASE s = req[p].step
      BY <1>9, <2>2, <3>1 DEF MoveCommits, IsSibling, Family, Shape, Rows
    <3>2. CASE s # req[p].step
      BY <1>9, <2>2, <3>2 DEF MoveCommits, Family, Shape, FamiliesStayInTheirPlan, Rows
    <3> QED
      BY <3>1, <3>2
  <2> QED
    BY <1>9, <2>1, <2>2 DEF MoveCommits, Family, FamiliesStayInTheirPlan, Row, Rows
<1> QED
  BY <1>2, <1>3, <1>4, <1>5, <1>6, <1>7, <1>8, <1>9 DEF Next, PlanStep, StepStep, IssueStep

(* A parent is always a row of the same plan: for any number of processes, *)
(* all of which may move steps.                                            *)
THEOREM FamiliesKept == Spec => []FamiliesStayInTheirPlan
<1>1. Init => Family
  BY DEF Init, Idle, Request, Family, Shape, FamiliesStayInTheirPlan, Rows, Row
<1>2. Family => FamiliesStayInTheirPlan
  BY DEF Family
<1> QED
  BY <1>1, <1>2, FamilyNext, PTL DEF Spec

-----------------------------------------------------------------------------
(* Types.                                                                  *)

(* The part of TypeOK that deletion, linking and purging could break.      *)
Typed ==
    /\ TypeOK
    /\ \A s \in Steps : ~Row(s) => link[s] = NoIssue

LEMMA TypedRemove ==
    ASSUME Typed, NEW S \in SUBSET Rows, Remove(S), UNCHANGED <<plan, anchor, status, deleted, req>>
    PROVE  Typed'
BY PlansAssumption DEF Typed, TypeOK, Remove, Row, Rows, Exists, Listed

LEMMA TypedCreate ==
    ASSUME Typed, NEW p \in Processes, NEW pl \in Plans, NEW i \in Issues \cup {NoIssue}, CreatePlan(p, pl, i)
    PROVE  Typed'
<1>1. PICK S \in SUBSET Unborn : \E up \in Trees(S), refs \in [S -> {j \in Issues : Listed(j)} \cup {NoIssue}], D \in SUBSET S :
         /\ of' = [s \in Steps |-> IF s \in S THEN pl ELSE of[s]]
         /\ parent' = [s \in Steps |-> IF s \in S THEN up[s] ELSE parent[s]]
         /\ link' = [s \in Steps |-> IF s \in S THEN refs[s] ELSE link[s]]
         /\ done' = done \cup D
  BY DEF CreatePlan
<1>2. PICK up \in Trees(S), refs \in [S -> {j \in Issues : Listed(j)} \cup {NoIssue}], D \in SUBSET S :
         /\ of' = [s \in Steps |-> IF s \in S THEN pl ELSE of[s]]
         /\ parent' = [s \in Steps |-> IF s \in S THEN up[s] ELSE parent[s]]
         /\ link' = [s \in Steps |-> IF s \in S THEN refs[s] ELSE link[s]]
         /\ done' = done \cup D
  BY <1>1
<1>3. S \subseteq Steps /\ \A s \in S : ~Row(s) /\ up[s] \in Steps \cup {Root}
  BY DEF Unborn, Trees
<1>4. /\ UNCHANGED <<reopened, status, deleted, req>>
      /\ plan' = [plan EXCEPT ![pl] = "active"]
      /\ anchor' = [anchor EXCEPT ![pl] = i]
  BY DEF CreatePlan, Writes, issues
<1>5. /\ of' \in [Steps -> Plans \cup {NoPlan}] /\ parent' \in [Steps -> Steps \cup {Root}]
      /\ link' \in [Steps -> Issues \cup {NoIssue}]
  BY <1>2, <1>3 DEF Typed, TypeOK
<1>6. Rows' = Rows \cup S
  BY <1>2, <1>3, PlansAssumption DEF Rows, Row
<1>7. done' \subseteq Rows' /\ reopened' \subseteq Rows'
  BY <1>2, <1>4, <1>6 DEF Typed, TypeOK
<1>8. \A s \in Rows' : Exists(of[s])'
  BY <1>2, <1>4, <1>6, <1>3 DEF Typed, TypeOK, Exists, Row, Rows
<1>9. ASSUME NEW j \in Issues, ~Listed(j)', NEW s \in Rows'
      PROVE  link'[s] # j
  <2>1. ~Listed(j)
    BY <1>4, <1>9 DEF Listed
  <2>2. CASE s \in S
    BY <1>2, <1>3, <2>1, <2>2, PlansAssumption
  <2>3. CASE s \in Rows /\ s \notin S
    BY <1>2, <2>1, <2>3 DEF Typed, TypeOK, Rows
  <2> QED
    BY <1>6, <2>2, <2>3
<1>10. \A s \in Steps : ~Row(s)' => link'[s] = NoIssue
  BY <1>2, <1>3, <1>6 DEF Typed, Row, Rows
<1> QED
  BY <1>4, <1>5, <1>7, <1>8, <1>9, <1>10 DEF Typed, TypeOK
LEMMA TypedCloses ==
    ASSUME Typed, NEW i \in Issues, status[i] = "open", NEW S \in SUBSET Rows, Closes(i, S),
           UNCHANGED <<anchor, tree, deleted>>,
           req' \in [Processes -> [op : {"none", "check", "move"}, step : Steps \cup {Root}, issue : Issues \cup {NoIssue},
                                   to : Steps \cup {Root}, at : Steps \cup {Root}, seen : SUBSET Steps]]
    PROVE  Typed'
<1>1. PICK plans \in {Active, Active \ Anchored(i)} :
         /\ done' = done \cup S \cup Mirrors(i, plans)
         /\ reopened' = (reopened \ S) \ (Mirrors(i, plans) \ done)
  BY DEF Closes
<1>2. UNCHANGED <<of, parent, link>> /\ Rows' = Rows
  BY DEF tree, Rows, Row
<1>3. done' \subseteq Rows' /\ reopened' \subseteq Rows'
  BY <1>1, <1>2 DEF Typed, TypeOK, Mirrors
<1>4. /\ plan' \in [Plans -> {"none", "active", "done", "archived"}]
      /\ \A pl \in Plans : Exists(pl) => Exists(pl)'
  BY DEF Closes, Typed, TypeOK, Anchored, Active, Exists
<1>5. status' \in [Issues -> {"open", "done", "purged"}] /\ \A j \in Issues : ~Listed(j)' => ~Listed(j)
  BY DEF Closes, Typed, TypeOK, Listed
<1>6. \A s \in Rows' : Exists(of[s])'
  BY <1>2, <1>4 DEF Typed, TypeOK, Exists, Rows, Row
<1> QED
  BY <1>2, <1>3, <1>4, <1>5, <1>6 DEF Typed, TypeOK, Row

LEMMA TypedIdle == Idle \in [op : {"none", "check", "move"}, step : Steps \cup {Root}, issue : Issues \cup {NoIssue},
                            to : Steps \cup {Root}, at : Steps \cup {Root}, seen : SUBSET Steps]
BY DEF Idle, Request

LEMMA TypedNext ==
    ASSUME Typed, [Next]_vars
    PROVE  Typed'
<1> DEFINE Requests == [op : {"none", "check", "move"}, step : Steps \cup {Root}, issue : Issues \cup {NoIssue},
                        to : Steps \cup {Root}, at : Steps \cup {Root}, seen : SUBSET Steps]
<1>1. CASE UNCHANGED vars
  BY <1>1 DEF vars, tree, checks, issues, Typed, TypeOK, Rows, Row, Exists, Listed
<1>2. ASSUME NEW p \in Processes, NEW pl \in Plans, DeletePlan(p, pl)
      PROVE  Typed'
  <2>1. /\ of' = [s \in Steps |-> IF of[s] = pl THEN NoPlan ELSE of[s]]
        /\ parent' = [s \in Steps |-> IF of[s] = pl THEN Root ELSE parent[s]]
        /\ link' = [s \in Steps |-> IF of[s] = pl THEN NoIssue ELSE link[s]]
        /\ done' = done \ StepsOf(pl) /\ reopened' = reopened \ StepsOf(pl)
    BY <1>2, PlansAssumption DEF DeletePlan, Remove, StepsOf, Rows, Row, Typed, TypeOK
  <2>2. plan' = [plan EXCEPT ![pl] = "none"] /\ anchor' = [anchor EXCEPT ![pl] = NoIssue]
        /\ UNCHANGED <<status, deleted, req>>
    BY <1>2 DEF DeletePlan, Writes, issues
  <2>3. Rows' = Rows \ StepsOf(pl)
    BY <2>1 DEF Rows, Row, StepsOf
  <2>4. \A s \in Rows' : Exists(of[s])'
    BY <2>1, <2>2, <2>3 DEF Rows, Row, StepsOf, Exists, Typed, TypeOK
  <2>5. /\ of' \in [Steps -> Plans \cup {NoPlan}] /\ parent' \in [Steps -> Steps \cup {Root}]
        /\ link' \in [Steps -> Issues \cup {NoIssue}]
    BY <2>1 DEF Typed, TypeOK
  <2>6. \A j \in Issues : ~Listed(j)' => \A s \in Rows' : link'[s] # j
    BY <2>1, <2>2, <2>3, PlansAssumption DEF Typed, TypeOK, Listed, Rows, Row
  <2> QED
    BY <2>1, <2>2, <2>3, <2>4, <2>5, <2>6 DEF Typed, TypeOK, Rows, Row
<1>3. ASSUME NEW p \in Processes, NEW pl \in Plans, NEW i \in Issues \cup {NoIssue},
             NEW to \in {"active", "done", "archived"}, UpdatePlan(p, pl, to, i)
      PROVE  Typed'
  BY <1>3 DEF UpdatePlan, Writes, tree, checks, issues, Typed, TypeOK, Rows, Row, Exists, Listed
<1>4. ASSUME NEW p \in Processes, NEW pl \in Plans, NEW i \in Issues \cup {NoIssue},
             NEW above \in Steps \cup {Root}, NEW s \in Steps, AddStep(p, pl, above, s, i)
      PROVE  Typed'
  <2>1. /\ of' = [of EXCEPT ![s] = pl] /\ parent' = [parent EXCEPT ![s] = above] /\ link' = [link EXCEPT ![s] = i]
        /\ UNCHANGED <<plan, anchor, done, reopened, status, deleted, req>> /\ Exists(pl) /\ (i # NoIssue => Listed(i))
    BY <1>4 DEF AddStep, Writes, checks, issues
  <2>2. Rows' = Rows \cup {s}
    BY <2>1, PlansAssumption DEF Rows, Row, Typed, TypeOK
  <2>3. \A t \in Rows' : Exists(of[t])'
    BY <2>1, <2>2 DEF Rows, Row, Exists, Typed, TypeOK
  <2>4. \A j \in Issues : ~Listed(j)' => \A t \in Rows' : link'[t] # j
    BY <2>1, <2>2, PlansAssumption DEF Typed, TypeOK, Listed, Rows, Row
  <2>5. \A t \in Steps : ~Row(t)' => link'[t] = NoIssue
    BY <2>1, <2>2 DEF Typed, TypeOK, Rows, Row
  <2>6. /\ of' \in [Steps -> Plans \cup {NoPlan}] /\ parent' \in [Steps -> Steps \cup {Root}]
        /\ link' \in [Steps -> Issues \cup {NoIssue}]
    BY <2>1 DEF Typed, TypeOK
  <2>7. done' \subseteq Rows' /\ reopened' \subseteq Rows'
    BY <2>1, <2>2 DEF Typed, TypeOK
  <2> QED
    BY <2>1, <2>3, <2>4, <2>5, <2>6, <2>7 DEF Typed, TypeOK
<1>5. ASSUME NEW p \in Processes, NEW s \in Steps, DeleteStep(p, s)
      PROVE  Typed'
  <2>1. Subtree(s) \in SUBSET Rows
    BY DEF Subtree
  <2> QED
    BY <1>5, <2>1, TypedRemove DEF DeleteStep, Writes, issues
<1>6. ASSUME NEW p \in Processes, NEW s \in Steps, NEW i \in Issues \cup {NoIssue},
             Uncheck(p, s) \/ SetStepIssue(p, s, i)
      PROVE  Typed'
  <2>1. CASE Uncheck(p, s)
    BY <2>1 DEF Uncheck, Writes, tree, issues, Typed, TypeOK, Rows, Row, Exists, Listed
  <2>2. CASE SetStepIssue(p, s, i)
    BY <2>2, PlansAssumption DEF SetStepIssue, Writes, checks, issues, Typed, TypeOK, Rows, Row, Exists, Listed
  <2> QED
    BY <1>6, <2>1, <2>2
<1>7. ASSUME NEW p \in Processes, NEW i \in Issues, Close(p, i)
      PROVE  Typed'
  <2>1. req' \in [Processes -> Requests]
    BY <1>7 DEF Close, Writes, Typed, TypeOK
  <2> QED
    BY <1>7, <2>1, TypedCloses DEF Close
<1>8. ASSUME NEW p \in Processes, NEW i \in Issues, Reopen(p, i)
      PROVE  Typed'
  BY <1>8 DEF Reopen, Unchecks, Mirrors, Writes, tree, Typed, TypeOK, Rows, Row, Exists, Listed
<1>9. ASSUME NEW p \in Processes, NEW i \in Issues, DeleteIssue(p, i) \/ RestoreIssue(p, i)
      PROVE  Typed'
  BY <1>9 DEF DeleteIssue, RestoreIssue, Writes, tree, checks, Typed, TypeOK, Rows, Row, Exists, Listed
<1>10. ASSUME NEW p \in Processes, NEW i \in Issues, PurgeIssue(p, i)
       PROVE  Typed'
  BY <1>10, PlansAssumption DEF PurgeIssue, Writes, checks, Typed, TypeOK, Rows, Row, Exists, Listed
<1>11. ASSUME NEW p \in Processes, UNCHANGED <<plan, anchor, tree, checks, issues>>, req' \in [Processes -> Requests]
       PROVE  Typed'
  BY <1>11 DEF tree, checks, issues, Typed, TypeOK, Rows, Row, Exists, Listed
<1>12. ASSUME NEW p \in Processes, NEW s \in Steps, NEW to \in Steps \cup {Root},
              CheckReads(p, s) \/ MoveStarts(p, s, to)
       PROVE  Typed'
  <2>1. req' \in [Processes -> Requests]
    BY <1>12 DEF CheckReads, MoveStarts, Request, Typed, TypeOK
  <2> QED
    BY <1>11, <1>12, <2>1 DEF CheckReads, MoveStarts
<1>13. ASSUME NEW p \in Processes, Ends(p)
       PROVE  req' \in [Processes -> Requests]
  BY <1>13, TypedIdle DEF Ends, Typed, TypeOK
<1>14. ASSUME NEW p \in Processes, CheckCommits(p)
       PROVE  Typed'
  <2>1. Checked(p) \in SUBSET Rows
    BY DEF Checked
  <2>2. CASE req[p].issue # NoIssue /\ status[req[p].issue] = "open" /\ req[p].issue \notin deleted
    <3>1. req[p].issue \in Issues
      BY <2>2 DEF Typed, TypeOK
    <3> QED
      BY <1>13, <1>14, <2>1, <2>2, <3>1, TypedCloses DEF CheckCommits
  <2>3. CASE ~(req[p].issue # NoIssue /\ status[req[p].issue] = "open" /\ req[p].issue \notin deleted)
    <3>1. /\ done' = done \cup Checked(p) /\ reopened' = reopened \ Checked(p)
          /\ UNCHANGED <<plan, anchor, of, parent, link, status, deleted>>
      BY <1>14, <2>3 DEF CheckCommits, Explained, tree
    <3>2. req' \in [Processes -> Requests]
      BY <1>13, <1>14 DEF CheckCommits
    <3>3. done' \subseteq Rows' /\ reopened' \subseteq Rows' /\ Rows' = Rows
      BY <2>1, <3>1 DEF Typed, TypeOK, Rows, Row
    <3> QED
      BY <3>1, <3>2, <3>3 DEF Typed, TypeOK, Row, Exists, Listed
  <2> QED
    BY <2>2, <2>3
<1>15. ASSUME NEW p \in Processes, MoveWalks(p) \/ MoveRefused(p)
       PROVE  Typed'
  <2>1. CASE MoveWalks(p)
    <3>1. req[p].at \in Steps /\ req[p].step \in Steps \cup {Root} /\ req[p].to \in Steps \cup {Root}
          /\ req[p].seen \in SUBSET Steps /\ parent[req[p].at] \in Steps \cup {Root}
      BY <2>1 DEF MoveWalks, Typed, TypeOK
    <3>2. Request("move", req[p].step, NoIssue, req[p].to, parent[req[p].at], req[p].seen \cup {req[p].at}) \in Requests
      BY <3>1 DEF Request
    <3>3. req' \in [Processes -> Requests]
      BY <2>1, <3>2 DEF MoveWalks, Typed, TypeOK
    <3> QED
      BY <1>11, <2>1, <3>3 DEF MoveWalks
  <2>2. CASE MoveRefused(p)
    BY <1>11, <1>13, <2>2 DEF MoveRefused
  <2> QED
    BY <1>15, <2>1, <2>2
<1>16. ASSUME NEW p \in Processes, MoveCommits(p)
       PROVE  Typed'
  <2>1. parent' \in [Steps -> Steps \cup {Root}] /\ req' \in [Processes -> Requests]
    BY <1>13, <1>16 DEF MoveCommits, Typed, TypeOK
  <2> QED
    BY <1>16, <2>1 DEF MoveCommits, checks, issues, Typed, TypeOK, Rows, Row, Exists, Listed
<1> QED
  BY <1>1, <1>2, <1>3, <1>4, <1>5, <1>6, <1>7, <1>8, <1>9, <1>10, <1>12, <1>14, <1>15, <1>16, TypedCreate
     DEF Next, PlanStep, StepStep, IssueStep

(* The types of the rows, of their references and of the requests: no row  *)
(* outlives its plan, no reference the issue.                              *)
THEOREM TypesKept == Spec => []TypeOK
<1>1. Init => Typed
  BY PlansAssumption, TypedIdle DEF Init, Typed, TypeOK, Rows, Row, Exists, Listed
<1>2. Typed => TypeOK
  BY DEF Typed
<1> QED
  BY <1>1, <1>2, TypedNext, PTL DEF Spec
-----------------------------------------------------------------------------
(* Reopened steps.                                                         *)

(* A closing issue takes the reason off the steps that it completes; the   *)
(* other steps that it refers to were complete already.                    *)
LEMMA ClosingExplains ==
    ASSUME ReopenedMeansUnchecked, NEW i \in Issues, NEW S, Closes(i, S)
    PROVE  ReopenedMeansUnchecked'
<1>1. PICK plans \in {Active, Active \ Anchored(i)} :
         /\ done' = done \cup S \cup Mirrors(i, plans)
         /\ reopened' = (reopened \ S) \ (Mirrors(i, plans) \ done)
  BY DEF Closes
<1> QED
  BY <1>1 DEF ReopenedMeansUnchecked

LEMMA ReopenedNext ==
    ASSUME Typed, ReopenedMeansUnchecked, [Next]_vars
    PROVE  ReopenedMeansUnchecked'
<1> USE DEF ReopenedMeansUnchecked
<1>1. CASE UNCHANGED vars
  BY <1>1 DEF vars, checks
<1>2. ASSUME NEW p \in Processes, NEW pl \in Plans, NEW i \in Issues \cup {NoIssue}, CreatePlan(p, pl, i)
      PROVE  ReopenedMeansUnchecked'
  <2>1. PICK S \in SUBSET Unborn : \E D \in SUBSET S : done' = done \cup D
    BY <1>2 DEF CreatePlan
  <2>2. S \cap Rows = {} /\ reopened \subseteq Rows /\ reopened' = reopened
    BY <1>2 DEF CreatePlan, Unborn, Rows, Typed, TypeOK
  <2> QED
    BY <2>1, <2>2
<1>3. ASSUME NEW p \in Processes,
             \/ \E pl \in Plans : DeletePlan(p, pl)
             \/ \E s \in Steps : DeleteStep(p, s) \/ Uncheck(p, s)
      PROVE  ReopenedMeansUnchecked'
  BY <1>3 DEF DeletePlan, DeleteStep, Uncheck, Remove
<1>4. ASSUME NEW p \in Processes, NEW i \in Issues, Close(p, i) \/ Reopen(p, i)
      PROVE  ReopenedMeansUnchecked'
  <2>1. CASE Close(p, i)
    BY <2>1, ClosingExplains DEF Close
  <2>2. CASE Reopen(p, i)
    BY <2>2 DEF Reopen
  <2> QED
    BY <1>4, <2>1, <2>2
<1>5. ASSUME NEW p \in Processes, CheckCommits(p)
      PROVE  ReopenedMeansUnchecked'
  <2>1. CASE req[p].issue # NoIssue /\ status[req[p].issue] = "open" /\ req[p].issue \notin deleted
    <3>1. req[p].issue \in Issues
      BY <2>1 DEF Typed, TypeOK
    <3> QED
      BY <1>5, <2>1, <3>1, ClosingExplains DEF CheckCommits
  <2>2. CASE ~(req[p].issue # NoIssue /\ status[req[p].issue] = "open" /\ req[p].issue \notin deleted)
    BY <1>5, <2>2 DEF CheckCommits, Explained
  <2> QED
    BY <2>1, <2>2
<1>6. ASSUME UNCHANGED checks
      PROVE  ReopenedMeansUnchecked'
  BY <1>6 DEF checks
<1>7. ASSUME NEW p \in Processes, NEW pl \in Plans, NEW i \in Issues \cup {NoIssue},
             \/ \E to \in {"active", "done", "archived"} : UpdatePlan(p, pl, to, i)
             \/ \E above \in Steps \cup {Root}, s \in Steps : AddStep(p, pl, above, s, i)
      PROVE  ReopenedMeansUnchecked'
  BY <1>6, <1>7 DEF UpdatePlan, AddStep, checks
<1>8. ASSUME NEW p \in Processes, NEW s \in Steps,
             \/ CheckReads(p, s)
             \/ \E i \in Issues \cup {NoIssue} : SetStepIssue(p, s, i)
             \/ \E to \in Steps \cup {Root} : MoveStarts(p, s, to)
      PROVE  ReopenedMeansUnchecked'
  BY <1>6, <1>8 DEF CheckReads, SetStepIssue, MoveStarts, checks
<1>9. ASSUME NEW p \in Processes, MoveWalks(p) \/ MoveCommits(p) \/ MoveRefused(p)
             \/ \E i \in Issues : DeleteIssue(p, i) \/ RestoreIssue(p, i) \/ PurgeIssue(p, i)
      PROVE  ReopenedMeansUnchecked'
  BY <1>6, <1>9 DEF MoveWalks, MoveCommits, MoveRefused, DeleteIssue, RestoreIssue, PurgeIssue, checks
<1> QED
  BY <1>1, <1>2, <1>3, <1>4, <1>5, <1>7, <1>8, <1>9 DEF Next, PlanStep, StepStep, IssueStep

(* A step that says why it was reopened is not checked, whichever trigger  *)
(* runs first and whatever a check read before it commits.                 *)
THEOREM ReopenedStaysUnchecked == Spec => []ReopenedMeansUnchecked
<1>1. Init => Typed /\ ReopenedMeansUnchecked
  BY PlansAssumption, TypedIdle DEF Init, Typed, TypeOK, Rows, Row, Exists, Listed, ReopenedMeansUnchecked
<1>2. Typed /\ ReopenedMeansUnchecked /\ [Next]_vars => (Typed /\ ReopenedMeansUnchecked)'
  BY TypedNext, ReopenedNext
<1> QED
  BY <1>1, <1>2, PTL DEF Spec

-----------------------------------------------------------------------------
(* The triggers.                                                           *)

(* A step that changes an issue's status: its writer, what it checks.      *)
LEMMA StatusSteps ==
    ASSUME Typed, [Next]_vars, status' # status
    PROVE  \E p \in Processes, i \in Issues :
              \/ status[i] = "open" /\ Closes(i, {})
              \/ req[p].op = "check" /\ status[i] = "open" /\ Closes(i, Checked(p))
              \/ Reopen(p, i) \/ PurgeIssue(p, i)
<1>1. ~UNCHANGED vars
  BY DEF vars, issues
<1>2. ASSUME NEW p \in Processes, NEW pl \in Plans, DeletePlan(p, pl)
      PROVE  FALSE
  BY <1>2 DEF DeletePlan, issues
<1>3. ASSUME NEW p \in Processes, NEW i \in Issues
      PROVE  /\ ~DeleteIssue(p, i) /\ ~RestoreIssue(p, i)
             /\ Close(p, i) => status[i] = "open" /\ Closes(i, {})
  BY DEF DeleteIssue, RestoreIssue, Close
<1>4. ASSUME NEW p \in Processes
      PROVE  ~MoveWalks(p) /\ ~MoveCommits(p) /\ ~MoveRefused(p)
  BY DEF MoveWalks, MoveCommits, MoveRefused, issues
<1>5. ASSUME NEW p \in Processes, CheckCommits(p)
      PROVE  \E i \in Issues : req[p].op = "check" /\ status[i] = "open" /\ Closes(i, Checked(p))
  <2>1. req[p].issue # NoIssue /\ status[req[p].issue] = "open" /\ Closes(req[p].issue, Checked(p)) /\ req[p].op = "check"
    BY <1>5 DEF CheckCommits
  <2> QED
    BY <2>1 DEF Typed, TypeOK
<1>6. ASSUME NEW p \in Processes
      PROVE  ~PlanStep(p) /\ (StepStep(p) => FALSE) /\ (IssueStep(p) => \E i \in Issues : Close(p, i) \/ Reopen(p, i) \/ PurgeIssue(p, i))
  <2>1. ~PlanStep(p)
    BY DEF PlanStep, CreatePlan, UpdatePlan, AddStep, issues
  <2>2. ~StepStep(p)
    BY DEF StepStep, DeleteStep, Uncheck, CheckReads, SetStepIssue, MoveStarts, issues
  <2> QED
    BY <1>3, <2>1, <2>2 DEF IssueStep
<1> QED
  BY <1>1, <1>2, <1>3, <1>4, <1>5, <1>6 DEF Next

(* A plan that is done or archived is frozen.                              *)
THEOREM FrozenKept == Spec => FrozenPlansStay
<1>1. Init => Typed
  BY PlansAssumption, TypedIdle DEF Init, Typed, TypeOK, Rows, Row, Exists, Listed
<1>2. ASSUME Typed, [Next]_vars
      PROVE  [status' # status =>
                \A s \in Rows : of[s] \notin Active /\ s \in Rows' => (s \in done' <=> s \in done) \/ CheckedNow(s)]_vars
  <2> SUFFICES ASSUME status' # status, NEW s \in Rows, of[s] \notin Active
               PROVE  (s \in done' <=> s \in done) \/ CheckedNow(s)
    OBVIOUS
  <2>1. PICK p \in Processes, i \in Issues :
              \/ status[i] = "open" /\ Closes(i, {})
              \/ req[p].op = "check" /\ status[i] = "open" /\ Closes(i, Checked(p))
              \/ Reopen(p, i) \/ PurgeIssue(p, i)
    BY <1>2, StatusSteps
  <2>2. \A plans \in {Active, Active \ Anchored(i)} : s \notin Mirrors(i, plans)
    BY DEF Mirrors
  <2>3. CASE Closes(i, {})
    BY <2>2, <2>3 DEF Closes
  <2>4. CASE req[p].op = "check" /\ Closes(i, Checked(p))
    <3>1. s \in done' <=> s \in done \/ s \in Checked(p)
      BY <2>2, <2>4 DEF Closes
    <3>2. s \in Checked(p) => CheckedNow(s)
      BY <2>4 DEF Checked, CheckedNow
    <3> QED
      BY <3>1, <3>2
  <2>5. CASE Reopen(p, i)
    BY <2>2, <2>5 DEF Reopen, Unchecks
  <2>6. CASE PurgeIssue(p, i)
    BY <2>6 DEF PurgeIssue, checks
  <2> QED
    BY <2>1, <2>3, <2>4, <2>5, <2>6
<1> QED
  BY <1>1, <1>2, TypedNext, PTL DEF Spec, FrozenPlansStay

(* Steps of a plan that stays active follow their issue, in whichever      *)
(* order the triggers run.                                                 *)
THEOREM IssuesFollowed == Spec => StepsFollowTheirIssue
<1> DEFINE Followed ==
      \A i \in Issues :
          /\ status[i] = "open" /\ status'[i] = "done" =>
                /\ \A s \in Rows : link[s] = i /\ plan'[of[s]] = "active" => s \in done'
                /\ \A pl \in Plans : anchor[pl] = i => plan'[pl] # "active"
          /\ status[i] = "done" /\ status'[i] = "open" =>
                \A s \in Rows : link[s] = i /\ of[s] \in Active => s \notin done'
<1>1. Init => Typed
  BY PlansAssumption, TypedIdle DEF Init, Typed, TypeOK, Rows, Row, Exists, Listed
<1>2. ASSUME Typed, [Next]_vars
      PROVE  [Followed]_vars
  <2>1. ASSUME status' = status
        PROVE  Followed
    BY <2>1
  <2>2. ASSUME status' # status
        PROVE  Followed
    <3>1. PICK p \in Processes, i \in Issues :
                \/ status[i] = "open" /\ Closes(i, {})
                \/ req[p].op = "check" /\ status[i] = "open" /\ Closes(i, Checked(p))
                \/ Reopen(p, i) \/ PurgeIssue(p, i)
      BY <1>2, <2>2, StatusSteps
    <3>2. \A s \in Rows : of[s] \in Plans
      BY <1>2 DEF Typed, TypeOK, Rows, Row
    <3>3. status \in [Issues -> {"open", "done", "purged"}] /\ plan \in [Plans -> {"none", "active", "done", "archived"}]
      BY <1>2 DEF Typed, TypeOK
    <3>4. ASSUME NEW S, status[i] = "open", Closes(i, S)
          PROVE  Followed
      <4>1. PICK plans \in {Active, Active \ Anchored(i)} : done' = done \cup S \cup Mirrors(i, plans)
        BY <3>4 DEF Closes
      <4>2. /\ status' = [status EXCEPT ![i] = "done"]
            /\ plan' = [pl \in Plans |-> IF pl \in Anchored(i) THEN "archived" ELSE plan[pl]]
        BY <3>4 DEF Closes
      <4>3. ASSUME NEW s \in Rows, link[s] = i, plan'[of[s]] = "active"
            PROVE  s \in done'
        BY <3>2, <4>1, <4>2, <4>3 DEF Mirrors, Active
      <4>4. \A pl \in Plans : anchor[pl] = i => plan'[pl] # "active"
        BY <4>2 DEF Anchored, Active
      <4>5. \A j \in Issues : j # i => status'[j] = status[j]
        BY <3>3, <4>2
      <4>6. status'[i] = "done"
        BY <3>3, <4>2
      <4> QED
        BY <3>4, <4>3, <4>4, <4>5, <4>6
    <3>5. CASE Reopen(p, i)
      <4>1. \A j \in Issues : j # i => status'[j] = status[j]
        BY <3>3, <3>5 DEF Reopen
      <4>2. status[i] = "done" /\ done' = done \ Unchecks(i)
        BY <3>5 DEF Reopen
      <4> QED
        BY <4>1, <4>2 DEF Unchecks, Mirrors
    <3>6. CASE PurgeIssue(p, i)
      BY <3>3, <3>6 DEF PurgeIssue
    <3> QED
      BY <3>1, <3>4, <3>5, <3>6
  <2> QED
    BY <2>1, <2>2
<1> QED
  BY <1>1, <1>2, TypedNext, PTL DEF Spec, StepsFollowTheirIssue
(* The issues drive the steps of the active plans, and no others.          *)
THEOREM IssuesDrive == Spec => IssuesDriveActivePlans
BY FrozenKept, IssuesFollowed DEF IssuesDriveActivePlans

-----------------------------------------------------------------------------
(* Trees.  Two processes that move steps at the same time can tie a knot,  *)
(* as the run plans_move shows; when one process moves, nothing else can.  *)

Walks(p) ==
    /\ req[p].op = "move" => p \in Movers /\ req[p].step \in Steps
    /\ Walked(p)

LEMMA WalkStays ==
    ASSUME NEW p \in Processes, Walks(p), req'[p] = req[p],
           \A x \in req[p].seen : x \in Rows' => x \in Rows /\ parent'[x] = parent[x]
    PROVE  Walks(p)'
BY DEF Walks, Walked

(* Of one's own steps, only those of a move make a move's request.         *)
LEMMA OwnWalk ==
    ASSUME Typed, NEW p \in Processes, Walks(p),
           \/ Ends(p)
           \/ \E s \in Steps : CheckReads(p, s) \/ \E to \in Steps \cup {Root} : MoveStarts(p, s, to)
           \/ MoveWalks(p)
    PROVE  Walks(p)'
<1>1. CASE Ends(p)
  BY <1>1 DEF Ends, Idle, Request, Walks, Walked, Typed, TypeOK
<1>2. ASSUME NEW s \in Steps, CheckReads(p, s)
      PROVE  Walks(p)'
  BY <1>2 DEF CheckReads, Request, Walks, Walked, Typed, TypeOK
<1>3. ASSUME NEW s \in Steps, NEW to \in Steps \cup {Root}, MoveStarts(p, s, to)
      PROVE  Walks(p)'
  BY <1>3 DEF MoveStarts, Request, Walks, Walked, Typed, TypeOK
<1>4. CASE MoveWalks(p)
  <2>1. req'[p] = Request("move", req[p].step, NoIssue, req[p].to, parent[req[p].at], req[p].seen \cup {req[p].at})
    BY <1>4 DEF MoveWalks, Typed, TypeOK
  <2>2. /\ req'[p].step = req[p].step /\ req'[p].to = req[p].to
        /\ req'[p].at = parent[req[p].at] /\ req'[p].seen = req[p].seen \cup {req[p].at}
    BY <2>1 DEF Request
  <2>3. Rows' = Rows /\ parent' = parent /\ req[p].op = "move" /\ req[p].at # req[p].step
    BY <1>4 DEF MoveWalks, MeetsTheStep, tree, Rows, Row
  <2>4. \A x \in req'[p].seen : x \in Rows' => parent'[x] \in req'[p].seen \cup {req'[p].at}
    BY <2>2, <2>3 DEF Walks, Walked
  <2> QED
    BY <2>2, <2>3, <2>4 DEF Walks, Walked
<1> QED
  BY <1>1, <1>2, <1>3, <1>4

(* What the others do leaves the rows that a walk has passed as they were, *)
(* or removes them: no new row is one of them, and nobody else moves.      *)
LEMMA OthersLeaveTheWalk ==
    ASSUME Typed, \A a, b \in Movers : a = b,
           NEW p \in Processes, NEW q \in Processes, p # q, Walks(p), Walks(q),
           req'[p] = req[p],
           \/ PlanStep(q) \/ StepStep(q) \/ IssueStep(q) \/ \E pl \in Plans : DeletePlan(q, pl)
           \/ CheckCommits(q) \/ MoveWalks(q) \/ MoveCommits(q) \/ MoveRefused(q)
    PROVE  Walks(p)'
<1>1. ASSUME NEW S \in SUBSET Rows, Remove(S)
      PROVE  Walks(p)'
  BY <1>1, WalkStays DEF Remove, Rows, Row
<1>2. ASSUME UNCHANGED tree
      PROVE  Walks(p)'
  BY <1>2, WalkStays DEF tree, Rows, Row
<1>3. ASSUME NEW pl \in Plans, NEW i \in Issues \cup {NoIssue}, CreatePlan(q, pl, i)
      PROVE  Walks(p)'
  <2>1. PICK S \in SUBSET Unborn : \E up \in Trees(S) :
           /\ of' = [s \in Steps |-> IF s \in S THEN pl ELSE of[s]]
           /\ parent' = [s \in Steps |-> IF s \in S THEN up[s] ELSE parent[s]]
    BY <1>3 DEF CreatePlan
  <2>2. \A x \in req[p].seen : x \notin S
    BY DEF Unborn
  <2> QED
    BY <2>1, <2>2, WalkStays DEF Rows, Row
<1>4. ASSUME NEW pl \in Plans, NEW i \in Issues \cup {NoIssue}, NEW s \in Steps, NEW above \in Steps \cup {Root},
             AddStep(q, pl, above, s, i)
      PROVE  Walks(p)'
  BY <1>4, WalkStays DEF AddStep, Unborn, Rows, Row, Typed, TypeOK
<1>5. CASE MoveCommits(q)
  <2>1. CASE req[p].op = "move"
    BY <1>5, <2>1 DEF MoveCommits, Walks
  <2>2. CASE req[p].op # "move"
    BY <2>2 DEF Walks, Walked
  <2> QED
    BY <2>1, <2>2
<1>6. CASE PlanStep(q)
  <2>1. ASSUME NEW pl \in Plans, NEW i \in Issues \cup {NoIssue}, NEW to \in {"active", "done", "archived"},
               UpdatePlan(q, pl, to, i)
        PROVE  UNCHANGED tree
    BY <2>1 DEF UpdatePlan
  <2> QED
    BY <1>2, <1>3, <1>4, <1>6, <2>1 DEF PlanStep
<1>7. CASE StepStep(q)
  <2>1. ASSUME NEW s \in Steps, DeleteStep(q, s)
        PROVE  Walks(p)'
    <3>1. Subtree(s) \in SUBSET Rows
      BY DEF Subtree
    <3> QED
      BY <1>1, <2>1, <3>1 DEF DeleteStep
  <2>2. ASSUME NEW s \in Steps, NEW i \in Issues \cup {NoIssue}, SetStepIssue(q, s, i)
        PROVE  Walks(p)'
    BY <2>2, WalkStays DEF SetStepIssue, Rows, Row
  <2>3. ASSUME NEW s \in Steps, Uncheck(q, s) \/ CheckReads(q, s) \/ \E to \in Steps \cup {Root} : MoveStarts(q, s, to)
        PROVE  Walks(p)'
    BY <1>2, <2>3 DEF Uncheck, CheckReads, MoveStarts
  <2> QED
    BY <1>7, <2>1, <2>2, <2>3 DEF StepStep
<1>8. CASE IssueStep(q)
  <2>1. ASSUME NEW i \in Issues, PurgeIssue(q, i)
        PROVE  Walks(p)'
    BY <2>1, WalkStays DEF PurgeIssue, Rows, Row
  <2>2. ASSUME NEW i \in Issues, Close(q, i) \/ Reopen(q, i) \/ DeleteIssue(q, i) \/ RestoreIssue(q, i)
        PROVE  Walks(p)'
    BY <1>2, <2>2 DEF Close, Reopen, DeleteIssue, RestoreIssue
  <2> QED
    BY <1>8, <2>1, <2>2 DEF IssueStep
<1>9. ASSUME NEW pl \in Plans, DeletePlan(q, pl)
      PROVE  Walks(p)'
  <2>1. StepsOf(pl) \in SUBSET Rows
    BY DEF StepsOf
  <2> QED
    BY <1>1, <1>9, <2>1 DEF DeletePlan
<1>10. CASE CheckCommits(q) \/ MoveWalks(q) \/ MoveRefused(q)
  BY <1>2, <1>10 DEF CheckCommits, MoveWalks, MoveRefused
<1> QED
  BY <1>5, <1>6, <1>7, <1>8, <1>9, <1>10
LEMMA WalksNext ==
    ASSUME Typed, \A a, b \in Movers : a = b, \A p \in Processes : Walks(p), [Next]_vars
    PROVE  \A p \in Processes : Walks(p)'
<1> SUFFICES ASSUME NEW p \in Processes
             PROVE  Walks(p)'
  OBVIOUS
<1>1. CASE UNCHANGED vars
  BY <1>1 DEF vars, tree, Walks, Walked, Rows, Row
<1>2. CASE Next
  <2>1. PICK q \in Processes :
           \/ PlanStep(q) \/ StepStep(q) \/ IssueStep(q) \/ \E pl \in Plans : DeletePlan(q, pl)
           \/ CheckCommits(q) \/ MoveWalks(q) \/ MoveCommits(q) \/ MoveRefused(q)
    BY <1>2 DEF Next
  <2>2. ASSUME Writes(q), p = q
        PROVE  Walks(p)'
    BY <2>2 DEF Writes, Idle, Request, Walks, Walked
  <2>3. CASE p = q
    <3>1. PlanStep(q) => Writes(q)
      BY DEF PlanStep, CreatePlan, UpdatePlan, AddStep
    <3>2. IssueStep(q) => Writes(q)
      BY DEF IssueStep, Close, Reopen, DeleteIssue, RestoreIssue, PurgeIssue
    <3>3. \A pl \in Plans : DeletePlan(q, pl) => Writes(q)
      BY DEF DeletePlan
    <3>4. StepStep(q) =>
            \/ Writes(q)
            \/ \E s \in Steps : CheckReads(q, s) \/ \E to \in Steps \cup {Root} : MoveStarts(q, s, to)
      BY DEF StepStep, DeleteStep, Uncheck, SetStepIssue
    <3>5. CheckCommits(q) \/ MoveCommits(q) \/ MoveRefused(q) => Ends(q)
      BY DEF CheckCommits, MoveCommits, MoveRefused
    <3> QED
      BY <2>1, <2>2, <2>3, <3>1, <3>2, <3>3, <3>4, <3>5, OwnWalk
  <2>4. CASE p # q
    <3>1. req'[p] = req[p]
      <4>1. PlanStep(q) => req' = req
        BY DEF PlanStep, CreatePlan, UpdatePlan, AddStep, Writes
      <4>2. IssueStep(q) => req' = req
        BY DEF IssueStep, Close, Reopen, DeleteIssue, RestoreIssue, PurgeIssue, Writes
      <4>3. \A pl \in Plans : DeletePlan(q, pl) => req' = req
        BY DEF DeletePlan, Writes
      <4>4. CheckCommits(q) \/ MoveCommits(q) \/ MoveRefused(q) \/ MoveWalks(q) => \E r : req' = [req EXCEPT ![q] = r]
        BY DEF CheckCommits, MoveCommits, MoveRefused, MoveWalks, Ends
      <4>5. StepStep(q) => req' = req \/ \E r : req' = [req EXCEPT ![q] = r]
        BY DEF StepStep, DeleteStep, Uncheck, SetStepIssue, CheckReads, MoveStarts, Writes
      <4> QED
        BY <2>1, <2>4, <4>1, <4>2, <4>3, <4>4, <4>5 DEF Typed, TypeOK
    <3> QED
      BY <2>1, <2>4, <3>1, OthersLeaveTheWalk
  <2> QED
    BY <2>3, <2>4
<1> QED
  BY <1>1, <1>2

(* Removing rows, and hanging new ones from the root or from old rows,     *)
(* ties no knot.                                                           *)
LEMMA TreeShrinks ==
    ASSUME TreeWhole, \A s \in Rows' : s \in Rows /\ parent'[s] = parent[s]
    PROVE  TreeWhole'
BY DEF TreeWhole

LEMMA TreeGrows ==
    ASSUME TreeWhole, Typed, NEW S \in SUBSET Steps, S \cap Rows = {}, Rows' = Rows \cup S,
           \A s \in Rows : parent'[s] = parent[s] /\ parent[s] \notin S,
           \A T \in (SUBSET S) \ {{}} : \E s \in T : parent'[s] \notin T
    PROVE  TreeWhole'
<1> SUFFICES ASSUME NEW T \in SUBSET (Rows \cup S), T # {}, \A s \in T : parent'[s] \in T
             PROVE  FALSE
  BY DEF TreeWhole
<1>1. CASE T \cap Rows # {}
  <2>1. PICK s \in T \cap Rows : parent[s] \notin T \cap Rows
    BY <1>1 DEF TreeWhole
  <2> QED
    BY <2>1
<1>2. CASE T \cap Rows = {}
  BY <1>2
<1> QED
  BY <1>1, <1>2

(* A move that has walked to the root moves its step below rows that are   *)
(* not below it.                                                           *)
LEMMA TreeMoves ==
    ASSUME TreeWhole, Typed, NEW p \in Processes, Walks(p), MoveCommits(p)
    PROVE  TreeWhole'
<1> DEFINE s == req[p].step
           to == req[p].to
           seen == req[p].seen
<1>1. /\ s \in Rows /\ s \notin seen /\ to \in seen \cup {Root}
      /\ \A x \in seen : x \in Rows => parent[x] \in seen \cup {Root}
      /\ parent' = [parent EXCEPT ![s] = to]
      /\ Rows' = Rows
  BY DEF MoveCommits, Walks, Walked, Rows, Row
<1>2. parent \in [Steps -> Steps \cup {Root}] /\ Root \notin Steps /\ Rows \subseteq Steps
  BY PlansAssumption DEF Typed, TypeOK, Rows
<1> HIDE DEF s, to, seen
<1> SUFFICES ASSUME NEW T \in SUBSET Rows, T # {}, \A t \in T : parent'[t] \in T
             PROVE  FALSE
  BY <1>1 DEF TreeWhole
<1>3. CASE s \notin T
  <2>1. PICK t \in T : parent[t] \notin T
    BY DEF TreeWhole
  <2> QED
    BY <1>1, <1>2, <1>3, <2>1
<1>4. CASE s \in T
  <2>1. to \in T \cap seen
    BY <1>1, <1>2, <1>4
  <2>2. PICK y \in T \cap seen : parent[y] \notin T \cap seen
    BY <2>1 DEF TreeWhole
  <2>3. y # s /\ y \in Rows /\ parent'[y] = parent[y]
    BY <1>1, <1>2, <2>2
  <2>4. parent[y] \in T
    BY <2>2, <2>3
  <2>5. parent[y] \in seen
    BY <1>1, <1>2, <2>2, <2>3, <2>4
  <2> QED
    BY <2>2, <2>4, <2>5
<1> QED
  BY <1>3, <1>4

LEMMA TreeNext ==
    ASSUME TreeWhole, Typed, Family, \A p \in Processes : Walks(p), [Next]_vars
    PROVE  TreeWhole'
<1>1. ASSUME UNCHANGED <<of, parent>>
      PROVE  TreeWhole'
  BY <1>1, TreeShrinks DEF Rows, Row
<1>2. ASSUME NEW S \in SUBSET Rows, Remove(S)
      PROVE  TreeWhole'
  BY <1>2, TreeShrinks DEF Remove, Rows, Row
<1>3. \A s \in Rows : parent[s] \in Rows \cup {Root}
  BY DEF Family, Shape, FamiliesStayInTheirPlan, Rows, Row
<1>4. ASSUME NEW p \in Processes, NEW pl \in Plans, NEW i \in Issues \cup {NoIssue}, CreatePlan(p, pl, i)
      PROVE  TreeWhole'
  <2>1. PICK S \in SUBSET Unborn : \E up \in Trees(S) :
           /\ of' = [s \in Steps |-> IF s \in S THEN pl ELSE of[s]]
           /\ parent' = [s \in Steps |-> IF s \in S THEN up[s] ELSE parent[s]]
    BY <1>4 DEF CreatePlan
  <2>2. PICK up \in Trees(S) :
           /\ of' = [s \in Steps |-> IF s \in S THEN pl ELSE of[s]]
           /\ parent' = [s \in Steps |-> IF s \in S THEN up[s] ELSE parent[s]]
    BY <2>1
  <2>3. S \in SUBSET Steps /\ S \cap Rows = {} /\ Root \notin S
    BY PlansAssumption DEF Unborn, Rows
  <2>4. Rows' = Rows \cup S
    BY <2>2, <2>3, PlansAssumption DEF Rows, Row
  <2>5. \A s \in Rows : parent'[s] = parent[s] /\ parent[s] \notin S
    BY <1>3, <2>2, <2>3 DEF Rows
  <2>6. ASSUME NEW T \in SUBSET S, T # {}
        PROVE  \E s \in T : parent'[s] \notin T
    <3>1. PICK s \in T : up[s] \notin T
      BY <2>6 DEF Trees
    <3>2. parent'[s] = up[s]
      BY <2>2, <2>3, <3>1
    <3> QED
      BY <3>1, <3>2
  <2>7. \A T \in (SUBSET S) \ {{}} : \E s \in T : parent'[s] \notin T
    BY <2>6
  <2> QED
    BY <2>3, <2>4, <2>5, <2>7, TreeGrows
<1>5. ASSUME NEW p \in Processes, NEW pl \in Plans, NEW i \in Issues \cup {NoIssue}, NEW s \in Steps,
             NEW above \in Steps \cup {Root}, AddStep(p, pl, above, s, i)
      PROVE  TreeWhole'
  <2>1. s \notin Rows /\ above \in Rows \cup {Root} /\ s # Root
    BY <1>5, PlansAssumption DEF AddStep, Unborn, Rows, Row
  <2>2. of' = [of EXCEPT ![s] = pl] /\ parent' = [parent EXCEPT ![s] = above]
    BY <1>5 DEF AddStep
  <2>3. Rows' = Rows \cup {s} /\ \A t \in Rows : parent'[t] = parent[t] /\ parent[t] # s
    BY <1>3, <2>1, <2>2, PlansAssumption DEF Rows, Row, Typed, TypeOK
  <2>4. parent'[s] = above
    BY <2>2 DEF Typed, TypeOK
  <2>5. \A T \in (SUBSET {s}) \ {{}} : \E t \in T : parent'[t] \notin T
    BY <2>1, <2>4
  <2>6. {s} \in SUBSET Steps /\ {s} \cap Rows = {}
    BY <2>1
  <2>7. \A t \in Rows : parent'[t] = parent[t] /\ parent[t] \notin {s}
    BY <2>3
  <2>8. Rows' = Rows \cup {s}
    BY <2>3
  <2> QED
    BY <2>5, <2>6, <2>7, <2>8, TreeGrows
<1>6. ASSUME NEW p \in Processes, PlanStep(p)
      PROVE  TreeWhole'
  <2>1. ASSUME NEW pl \in Plans, NEW i \in Issues \cup {NoIssue}, NEW to \in {"active", "done", "archived"},
               UpdatePlan(p, pl, to, i)
        PROVE  UNCHANGED <<of, parent>>
    BY <2>1 DEF UpdatePlan, tree
  <2> QED
    BY <1>1, <1>4, <1>5, <1>6, <2>1 DEF PlanStep
<1>7. ASSUME NEW p \in Processes, StepStep(p)
      PROVE  TreeWhole'
  <2>1. ASSUME NEW s \in Steps, DeleteStep(p, s)
        PROVE  TreeWhole'
    <3>1. Subtree(s) \in SUBSET Rows
      BY DEF Subtree
    <3> QED
      BY <1>2, <2>1, <3>1 DEF DeleteStep
  <2>2. ASSUME NEW s \in Steps,
               \/ Uncheck(p, s) \/ CheckReads(p, s)
               \/ \E i \in Issues \cup {NoIssue} : SetStepIssue(p, s, i)
               \/ \E to \in Steps \cup {Root} : MoveStarts(p, s, to)
        PROVE  UNCHANGED <<of, parent>>
    BY <2>2 DEF Uncheck, CheckReads, SetStepIssue, MoveStarts, tree
  <2> QED
    BY <1>1, <1>7, <2>1, <2>2 DEF StepStep
<1>8. ASSUME NEW p \in Processes,
             IssueStep(p) \/ CheckCommits(p) \/ MoveWalks(p) \/ MoveRefused(p)
      PROVE  TreeWhole'
  BY <1>1, <1>8 DEF IssueStep, Close, Reopen, DeleteIssue, RestoreIssue, PurgeIssue, CheckCommits, MoveWalks, MoveRefused, tree
<1>9. ASSUME NEW p \in Processes, NEW pl \in Plans, DeletePlan(p, pl)
      PROVE  TreeWhole'
  <2>1. StepsOf(pl) \in SUBSET Rows
    BY DEF StepsOf
  <2> QED
    BY <1>2, <1>9, <2>1 DEF DeletePlan
<1>10. CASE UNCHANGED vars
  BY <1>1, <1>10 DEF vars, tree
<1> QED
  BY <1>6, <1>7, <1>8, <1>9, <1>10, TreeMoves DEF Next

(* While only one process moves steps, every step hangs from the root of   *)
(* its plan, whatever the others add, delete and archive meanwhile.        *)
THEOREM TreeKept ==
    ASSUME \A a, b \in Movers : a = b
    PROVE  Spec => []TreeWhole
<1> DEFINE IInv == TreeWhole /\ Typed /\ Family /\ \A p \in Processes : Walks(p)
<1>1. Init => IInv
  <2>1. Init => Typed
    BY PlansAssumption, TypedIdle DEF Init, Typed, TypeOK, Rows, Row, Exists, Listed
  <2>2. Init => Family
    BY DEF Init, Idle, Request, Family, Shape, FamiliesStayInTheirPlan, Rows, Row
  <2>3. Init => TreeWhole
    BY DEF Init, TreeWhole, Rows, Row
  <2>4. Init => \A p \in Processes : Walks(p)
    BY DEF Init, Idle, Request, Walks, Walked
  <2> QED
    BY <2>1, <2>2, <2>3, <2>4
<1>2. IInv /\ [Next]_vars => IInv'
  <2> SUFFICES ASSUME IInv, [Next]_vars
               PROVE  IInv'
    OBVIOUS
  <2>1. Typed'
    BY TypedNext
  <2>2. Family'
    BY FamilyNext
  <2>3. (\A p \in Processes : Walks(p))'
    BY WalksNext
  <2>4. TreeWhole'
    BY TreeNext
  <2> QED
    BY <2>1, <2>2, <2>3, <2>4
<1>3. IInv => TreeWhole
  OBVIOUS
<1> QED
  BY <1>1, <1>2, <1>3, PTL DEF Spec
===============================================================================
