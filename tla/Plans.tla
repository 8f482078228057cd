--------------------------------- MODULE Plans ---------------------------------
(***************************************************************************)
(* Plans: trees of steps, and how they follow the issues they refer to.    *)
(* src/db/queries/plans.rs and the triggers of migration 020.              *)
(*                                                                         *)
(* Every process that opens the database writes to it: the server and each *)
(* MCP server on standard input.  The writer mutex keeps the requests of   *)
(* one process apart; between two statements of a request that are not in  *)
(* a savepoint, other processes commit.  A request that edits, links,      *)
(* checks and moves a step does so in statements that each commit by       *)
(* themselves: here it is that many requests of its process.               *)
(*                                                                         *)
(* Titles, descriptions, positions and the audit log are left out.         *)
(***************************************************************************)
EXTENDS Naturals

CONSTANTS
    Plans, Steps, Issues,
    Processes,
    Movers,         \* the processes that move steps
    Root,           \* the parent of a top-level step (NULL)
    NoPlan, NoIssue

ASSUME PlansAssumption ==
    /\ Root \notin Steps /\ NoPlan \notin Plans /\ NoIssue \notin Issues
    /\ Movers \subseteq Processes

VARIABLES
    plan,       \* plans.status, or "none": no such row
    anchor,     \* plans.issue_id
    of,         \* plan_steps.plan_id
    parent,     \* plan_steps.parent_step_id
    link,       \* plan_steps.issue_id
    done,       \* steps that are checked
    reopened,   \* steps with reopened_via_issue_at
    status,     \* issues.status, of the issues in the table
    deleted,    \* issues with deleted_at
    req         \* what the holder of each process's writer is doing

tree == <<of, parent, link>>
checks == <<done, reopened>>
issues == <<status, deleted>>
vars == <<plan, anchor, tree, checks, issues, req>>

Row(s) == of[s] # NoPlan
Rows == {s \in Steps : Row(s)}
Exists(pl) == plan[pl] # "none"
Listed(i) == status[i] # "purged"

(* issue: what a check read; to, at: the parent a move proposes and how    *)
(* far its walk is; seen (history): the rows that the walk has passed.     *)
Request(op, s, i, to, at, seen) ==
    [op |-> op, step |-> s, issue |-> i, to |-> to, at |-> at, seen |-> seen]

Idle == Request("none", Root, NoIssue, Root, Root, {})

TypeOK ==
    /\ plan \in [Plans -> {"none", "active", "done", "archived"}]
    /\ anchor \in [Plans -> Issues \cup {NoIssue}]
    /\ of \in [Steps -> Plans \cup {NoPlan}]
    /\ parent \in [Steps -> Steps \cup {Root}]
    /\ link \in [Steps -> Issues \cup {NoIssue}]
    /\ done \subseteq Rows /\ reopened \subseteq Rows
    /\ status \in [Issues -> {"open", "done", "purged"}] /\ deleted \subseteq Issues
    /\ req \in [Processes -> [op : {"none", "check", "move"}, step : Steps \cup {Root}, issue : Issues \cup {NoIssue},
                              to : Steps \cup {Root}, at : Steps \cup {Root}, seen : SUBSET Steps]]
    /\ \A s \in Rows : Exists(of[s])
    /\ \A i \in Issues : ~Listed(i) => \A s \in Rows : link[s] # i

-----------------------------------------------------------------------------
Writes(p) == req[p] = Idle /\ UNCHANGED req
Ends(p) == req' = [req EXCEPT ![p] = Idle]

(* The rows that go with s by ON DELETE CASCADE: s and what is below it.   *)
Subtree(s) ==
    {t \in Rows : \A S \in SUBSET Rows :
        s \in S /\ (\A u \in Rows : parent[u] \in S => u \in S) => t \in S}

Remove(S) ==
    /\ of' = [s \in Steps |-> IF s \in S THEN NoPlan ELSE of[s]]
    /\ parent' = [s \in Steps |-> IF s \in S THEN Root ELSE parent[s]]
    /\ link' = [s \in Steps |-> IF s \in S THEN NoIssue ELSE link[s]]
    /\ done' = done \ S /\ reopened' = reopened \ S

(* AUTOINCREMENT: no request knows the id of a new row.                    *)
Unborn == {s \in Steps : ~Row(s) /\ \A p \in Processes : req[p].step # s /\ req[p].to # s /\ req[p].at # s /\ s \notin req[p].seen}

(* A tree of new rows: everything in it hangs, in the end, from the root.  *)
Trees(S) ==
    {up \in [S -> S \cup {Root}] : \A T \in (SUBSET S) \ {{}} : \E s \in T : up[s] \notin T}

-----------------------------------------------------------------------------
(* Plans.                                                                  *)

(* create_plan: the plan and its tree in one savepoint.                    *)
CreatePlan(p, pl, i) ==
    /\ Writes(p) /\ ~Exists(pl)
    /\ i # NoIssue => Listed(i)
    /\ plan' = [plan EXCEPT ![pl] = "active"]
    /\ anchor' = [anchor EXCEPT ![pl] = i]
    /\ \E S \in SUBSET Unborn : \E up \in Trees(S), refs \in [S -> {j \in Issues : Listed(j)} \cup {NoIssue}], D \in SUBSET S :
          /\ of' = [s \in Steps |-> IF s \in S THEN pl ELSE of[s]]
          /\ parent' = [s \in Steps |-> IF s \in S THEN up[s] ELSE parent[s]]
          /\ link' = [s \in Steps |-> IF s \in S THEN refs[s] ELSE link[s]]
          /\ done' = done \cup D
    /\ UNCHANGED <<reopened, issues>>

(* update_plan: a status by hand, and an anchor.                           *)
UpdatePlan(p, pl, to, i) ==
    /\ Writes(p) /\ Exists(pl)
    /\ i # NoIssue => Listed(i)
    /\ plan' = [plan EXCEPT ![pl] = to]
    /\ anchor' = [anchor EXCEPT ![pl] = i]
    /\ UNCHANGED <<tree, checks, issues>>

(* Mutant: the steps below another step are left to the parent's cascade.  *)
TopStepsOf(pl) == {s \in Rows : of[s] = pl /\ parent[s] = Root}

StepsOf(pl) == {s \in Rows : of[s] = pl}

DeletePlan(p, pl) ==
    /\ Writes(p) /\ Exists(pl)
    /\ plan' = [plan EXCEPT ![pl] = "none"]
    /\ anchor' = [anchor EXCEPT ![pl] = NoIssue]
    /\ Remove(StepsOf(pl))
    /\ UNCHANGED issues

-----------------------------------------------------------------------------
(* Steps.  A step's plan never changes, so what assert_step_in_plan saw    *)
(* still holds of the rows that are there when the statement runs.         *)

(* add_step: below a step of the plan, or at the root.                     *)
AddStep(p, pl, above, s, i) ==
    /\ Writes(p) /\ Exists(pl) /\ s \in Unborn
    /\ above # Root => of[above] = pl
    /\ i # NoIssue => Listed(i)
    /\ of' = [of EXCEPT ![s] = pl]
    /\ parent' = [parent EXCEPT ![s] = above]
    /\ link' = [link EXCEPT ![s] = i]
    /\ UNCHANGED <<plan, anchor, checks, issues>>

(* set_step_issue; the issue was looked at before, and may be deleted.     *)
SetStepIssue(p, s, i) ==
    /\ Writes(p) /\ Row(s)
    /\ i # NoIssue => Listed(i)
    /\ link' = [link EXCEPT ![s] = i]
    /\ UNCHANGED <<plan, anchor, of, parent, checks, issues>>

DeleteStep(p, s) ==
    /\ Writes(p) /\ Row(s)
    /\ Remove(Subtree(s))
    /\ UNCHANGED <<plan, anchor, issues>>

(* set_step_done(false): the issue is not reopened.                        *)
Uncheck(p, s) ==
    /\ Writes(p) /\ s \in done
    /\ done' = done \ {s}
    /\ UNCHANGED <<plan, anchor, tree, reopened, issues>>

-----------------------------------------------------------------------------
(* The triggers of migration 020.                                          *)
Active == {pl \in Plans : plan[pl] = "active"}
Anchored(i) == {pl \in Active : anchor[pl] = i}

(* Mutant: frozen plans follow too.                                        *)
AllMirrors(i, plans) == {s \in Rows : link[s] = i}

Mirrors(i, plans) == {s \in Rows : link[s] = i /\ of[s] \in plans}

(* SQLite promises no order of two triggers on one update: the steps of a  *)
(* plan that the same issue archives may be completed, or be frozen first. *)
Closes(i, checked) ==
    /\ status' = [status EXCEPT ![i] = "done"]
    /\ \E plans \in {Active, Active \ Anchored(i)} :
          /\ done' = done \cup checked \cup Mirrors(i, plans)
          /\ reopened' = (reopened \ checked) \ (Mirrors(i, plans) \ done)
    /\ plan' = [pl \in Plans |-> IF pl \in Anchored(i) THEN "archived" ELSE plan[pl]]

(* Mutant: the steps of a reopened issue stay checked.                     *)
NoneOf(i) == {}

Unchecks(i) == Mirrors(i, Active) \cap done

(* update_issue, as far as the status goes.                                *)
Close(p, i) ==
    /\ Writes(p) /\ status[i] = "open" /\ i \notin deleted
    /\ Closes(i, {})
    /\ UNCHANGED <<anchor, tree, deleted>>

Reopen(p, i) ==
    /\ Writes(p) /\ status[i] = "done" /\ i \notin deleted
    /\ status' = [status EXCEPT ![i] = "open"]
    /\ done' = done \ Unchecks(i)
    /\ reopened' = reopened \cup Unchecks(i)
    /\ UNCHANGED <<plan, anchor, tree, deleted>>

(* Deletion and restore leave the references to an issue, a purge does not.*)
DeleteIssue(p, i) ==
    /\ Writes(p) /\ Listed(i) /\ i \notin deleted
    /\ deleted' = deleted \cup {i}
    /\ UNCHANGED <<plan, anchor, tree, checks, status>>

RestoreIssue(p, i) ==
    /\ Writes(p) /\ i \in deleted
    /\ deleted' = deleted \ {i}
    /\ UNCHANGED <<plan, anchor, tree, checks, status>>

PurgeIssue(p, i) ==
    /\ Writes(p) /\ i \in deleted
    /\ status' = [status EXCEPT ![i] = "purged"]
    /\ deleted' = deleted \ {i}
    /\ link' = [s \in Steps |-> IF link[s] = i THEN NoIssue ELSE link[s]]
    /\ anchor' = [pl \in Plans |-> IF anchor[pl] = i THEN NoIssue ELSE anchor[pl]]
    /\ UNCHANGED <<plan, of, parent, checks>>

-----------------------------------------------------------------------------
(* set_step_done(true) reads the step's issue, then opens its savepoint.   *)
CheckReads(p, s) ==
    /\ req[p] = Idle /\ Row(s)
    /\ req' = [req EXCEPT ![p] = Request("check", s, link[s], Root, Root, {})]
    /\ UNCHANGED <<plan, anchor, tree, checks, issues>>

Checked(p) == {req[p].step} \cap Rows

(* Mutant: the reason of the last reopening stays.                         *)
Unexplained(p) == {}

Explained(p) == Checked(p)

(* A deleted issue is left alone, one that is done has nothing to cascade. *)
CheckCommits(p) ==
    /\ req[p].op = "check"
    /\ LET i == req[p].issue
       IN  IF i # NoIssue /\ status[i] = "open" /\ i \notin deleted
           THEN Closes(i, Checked(p))
           ELSE /\ done' = done \cup Checked(p)
                /\ reopened' = reopened \ Explained(p)
                /\ UNCHANGED <<plan, status>>
    /\ Ends(p)
    /\ UNCHANGED <<anchor, tree, deleted>>

-----------------------------------------------------------------------------
(* move_step: the walk up from the proposed parent, one SELECT at a time.  *)
(* Its parent is given, the root, or the one that step_parent just read.   *)
MoveStarts(p, s, to) ==
    /\ p \in Movers
    /\ req[p] = Idle /\ Row(s) /\ to # s
    /\ req' = [req EXCEPT ![p] = Request("move", s, NoIssue, to, to, {})]
    /\ UNCHANGED <<plan, anchor, tree, checks, issues>>

(* Mutant: a step is only refused as its own parent.                       *)
IsItsParent(p) == req[p].to = req[p].step

MeetsTheStep(p) == req[p].at = req[p].step

MoveWalks(p) ==
    /\ req[p].op = "move" /\ req[p].at # Root /\ ~MeetsTheStep(p)
    /\ LET r == req[p]
       IN  req' = [req EXCEPT ![p] = Request("move", r.step, NoIssue, r.to, parent[r.at], r.seen \cup {r.at})]
    /\ UNCHANGED <<plan, anchor, tree, checks, issues>>

(* Mutant: the parent may be a step of any plan.                           *)
IsStep(p) == Row(req[p].to)

IsSibling(p) == Row(req[p].to) /\ of[req[p].to] = of[req[p].step]

MoveCommits(p) ==
    /\ req[p].op = "move" /\ req[p].at = Root
    /\ Row(req[p].step)
    /\ req[p].to # Root => IsSibling(p)
    /\ parent' = [parent EXCEPT ![req[p].step] = req[p].to]
    /\ Ends(p)
    /\ UNCHANGED <<plan, anchor, of, link, checks, issues>>

(* A cycle, another plan, a row that is gone.                              *)
MoveRefused(p) ==
    /\ req[p].op = "move"
    /\ \/ req[p].at # Root /\ MeetsTheStep(p)
       \/ req[p].at = Root /\ (~Row(req[p].step) \/ (req[p].to # Root /\ ~IsSibling(p)))
    /\ Ends(p)
    /\ UNCHANGED <<plan, anchor, tree, checks, issues>>

-----------------------------------------------------------------------------
Init ==
    /\ plan = [pl \in Plans |-> "none"] /\ anchor = [pl \in Plans |-> NoIssue]
    /\ of = [s \in Steps |-> NoPlan] /\ parent = [s \in Steps |-> Root]
    /\ link = [s \in Steps |-> NoIssue]
    /\ done = {} /\ reopened = {}
    /\ status = [i \in Issues |-> "open"] /\ deleted = {}
    /\ req = [p \in Processes |-> Idle]

PlanStep(p) ==
    \E pl \in Plans, i \in Issues \cup {NoIssue} :
        \/ CreatePlan(p, pl, i)
        \/ \E to \in {"active", "done", "archived"} : UpdatePlan(p, pl, to, i)
        \/ \E above \in Steps \cup {Root}, s \in Steps : AddStep(p, pl, above, s, i)

IssueStep(p) ==
    \E i \in Issues :
        Close(p, i) \/ Reopen(p, i) \/ DeleteIssue(p, i) \/ RestoreIssue(p, i) \/ PurgeIssue(p, i)

StepStep(p) ==
    \E s \in Steps :
        \/ DeleteStep(p, s) \/ Uncheck(p, s) \/ CheckReads(p, s)
        \/ \E i \in Issues \cup {NoIssue} : SetStepIssue(p, s, i)
        \/ \E to \in Steps \cup {Root} : MoveStarts(p, s, to)

Next ==
    \E p \in Processes :
        \/ PlanStep(p) \/ StepStep(p) \/ IssueStep(p)
        \/ \E pl \in Plans : DeletePlan(p, pl)
        \/ CheckCommits(p) \/ MoveWalks(p) \/ MoveCommits(p) \/ MoveRefused(p)

Spec == Init /\ [][Next]_vars

-----------------------------------------------------------------------------
(* Every step hangs from the root of its plan: get_plan shows all of them, *)
(* and no set of steps is a cycle that nobody can see or walk out of.      *)
TreeWhole == \A S \in SUBSET Rows : S # {} => \E s \in S : parent[s] \notin S

(* A step's parent is there, in the same plan, whatever is moved, added    *)
(* and deleted at the same time.                                           *)
FamiliesStayInTheirPlan ==
    \A s \in Rows : parent[s] # Root => Row(parent[s]) /\ of[parent[s]] = of[s]

(* A step that says why it was reopened is not checked.                    *)
ReopenedMeansUnchecked == reopened \cap done = {}

CheckedNow(s) == \E p \in Processes : req[p].op = "check" /\ req[p].step = s

(* A plan that is done or archived is frozen: no issue changes its steps,  *)
(* only somebody who checks that very step.                                *)
FrozenPlansStay ==
    [][status' # status =>
          \A s \in Rows : of[s] \notin Active /\ s \in Rows' =>
              (s \in done' <=> s \in done) \/ CheckedNow(s)]_vars

(* When an issue closes or reopens, the steps that mirror it in a plan     *)
(* that stays active follow, and no active plan is left anchored to a      *)
(* closing issue; in whichever order the triggers run.                     *)
StepsFollowTheirIssue ==
    [][\A i \in Issues :
          /\ status[i] = "open" /\ status'[i] = "done" =>
                /\ \A s \in Rows : link[s] = i /\ plan'[of[s]] = "active" => s \in done'
                /\ \A pl \in Plans : anchor[pl] = i => plan'[pl] # "active"
          /\ status[i] = "done" /\ status'[i] = "open" =>
                \A s \in Rows : link[s] = i /\ of[s] \in Active => s \notin done']_vars

(* An issue drives the steps of the active plans, and no others.           *)
IssuesDriveActivePlans == FrozenPlansStay /\ StepsFollowTheirIssue
===============================================================================
