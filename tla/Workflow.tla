------------------------------- MODULE Workflow -------------------------------
(***************************************************************************)
(* One piece of work under its department's review policy: every event the *)
(* office accepts for a task, applied by the workflow engine, while people *)
(* are paused and return and the department is edited around it.           *)
(*                                                                         *)
(* The last four variables are history, read by properties and by no       *)
(* action's guard: what was asked of the people who approved, and what     *)
(* they answered.                                                          *)
(***************************************************************************)
EXTENDS WorkflowEngine

CONSTANTS
  PolicyEdits,   \* BOOLEAN: whether the department's policy is edited meanwhile
  Pausable,      \* the employees who may be paused while the work is open
  MaxRounds      \* bound: owner's declines, which no policy caps

ASSUME WorkflowConstants ==
  /\ PolicyEdits \in BOOLEAN
  /\ Pausable \subseteq Employees
  /\ MaxRounds \in Nat

VARIABLES
  task,
  policy,     \* the department's review policy
  active,     \* the employees whose status is active
  endorsed,   \* who has approved the work as last submitted
  vouched,    \* the departments one of whose people approved this work
  claimed,    \* the criteria the last submission, approval or report claimed
  cleared     \* the pipeline stages that gathered their approvals

history == <<endorsed, vouched, claimed, cleared>>
context == <<policy, active>>
vars    == <<task, policy, active, endorsed, vouched, claimed, cleared>>

ctx == [policy |-> policy, active |-> active]

Init ==
  /\ task \in {NewTask(a) : a \in Actors}
  /\ policy \in Policies
  /\ active = Employees
  /\ endorsed = {} /\ vouched = {} /\ claimed = {} /\ cleared = {}

-------------------------------------------------------------------------------
(* Events on the task.                                                     *)

DoSubmit ==
  \E met \in SUBSET Criteria :
    /\ task' \in Submit(task, ctx, met)
    /\ endorsed' = {} /\ claimed' = met
    /\ UNCHANGED <<policy, active, vouched, cleared>>

\* The stage whose approvals `who` completes, if it does.
StageCompleted(who) ==
  {s.name : s \in {policy.stages[i] : i \in {j \in Located(task, policy.stages) :
                       Cardinality(who) >= policy.stages[j].required}}}

DoApprove(actor, met) ==
  /\ task' \in Approve(task, ctx, actor, met)
  /\ endorsed' = endorsed \cup {actor}
  /\ vouched' = vouched \cup {DepartmentOf[e] : e \in {actor} \ {Nobody}}
  /\ claimed' = met
  /\ cleared' = IF policy.kind = "pipeline" THEN cleared \cup StageCompleted(endorsed')
                                            ELSE cleared
  /\ UNCHANGED context

DoRequestChanges(actor) ==
  /\ task' \in RequestChanges(task, ctx, actor)
  /\ UNCHANGED <<context, history>>

DoCheckReported(outcome, met) ==
  /\ task' \in CheckReported(task, ctx, outcome, met)
  /\ claimed' = met
  /\ UNCHANGED <<context, endorsed, vouched, cleared>>

DoGateDecided(decision) ==
  /\ decision = "rejected" => task.rounds < MaxRounds
  /\ task' \in GateDecided(task, ctx, decision)
  /\ UNCHANGED <<context, history>>

DoStart         == task' \in Start(task)         /\ UNCHANGED <<context, history>>
DoBlock         == task' \in Block(task)         /\ UNCHANGED <<context, history>>
DoUnblock       == task' \in Unblock(task)       /\ UNCHANGED <<context, history>>
DoCancel        == task' \in Cancel(task)        /\ UNCHANGED <<context, history>>
DoAwaitDecision == task' \in AwaitDecision(task) /\ UNCHANGED <<context, history>>
DoCallDecided   == task' \in CallDecided(task)   /\ UNCHANGED <<context, history>>

DoReassign ==
  /\ \E to \in Employees : task' \in Reassign(task, to)
  /\ UNCHANGED <<context, history>>

DoUpdateTask ==
  /\ \E wanted \in SUBSET Criteria : task' \in UpdateTask(task, wanted)
  /\ UNCHANGED <<context, history>>

-------------------------------------------------------------------------------
(* What changes around the task.                                           *)

EditPolicy ==
  /\ PolicyEdits
  /\ policy' \in Policies
  /\ UNCHANGED <<task, active, history>>

SetEmployeeStatus ==
  /\ \E e \in Pausable : active' = IF e \in active THEN active \ {e} ELSE active \cup {e}
  /\ UNCHANGED <<task, policy, history>>

Next ==
  \/ DoStart \/ DoSubmit \/ DoBlock \/ DoUnblock \/ DoCancel
  \/ DoReassign \/ DoAwaitDecision \/ DoCallDecided \/ DoUpdateTask
  \/ \E actor \in Actors, met \in SUBSET Criteria : DoApprove(actor, met)
  \/ \E actor \in Actors : DoRequestChanges(actor)
  \/ \E outcome \in {"passed", "failed", "errored"}, met \in SUBSET Criteria :
       DoCheckReported(outcome, met)
  \/ \E decision \in {"approved", "rejected"} : DoGateDecided(decision)
  \/ EditPolicy \/ SetEmployeeStatus

Spec == Init /\ [][Next]_vars

\* Whoever is asked answers in the end: every named reviewer who has not yet
\* approved does, claiming the whole list; with nobody named the owner does; a
\* check that was asked for passes and a gate is decided.
Answers ==
  \/ \E r \in task.reviewers \ task.approvals : DoApprove(r, Owed(task))
  \/ task.reviewers = {} /\ DoApprove(Nobody, Owed(task))
  \/ DoCheckReported("passed", Owed(task))
  \/ DoGateDecided("approved")

FairSpec == Spec /\ WF_vars(Answers /\ task' # task)

\* What the office sees to by itself, and what it waits for a person or a check to
\* do: the scheduler asks one reviewer who is there, and an approval does not change
\* the key it asked under, so that nobody is asked after the first.
AsksOnce ==
  \/ task.approvals = {} /\ \E r \in task.reviewers \cap active : DoApprove(r, Owed(task))
  \/ task.reviewers = {} /\ DoApprove(Nobody, Owed(task))
  \/ DoCheckReported("passed", Owed(task))
  \/ DoGateDecided("approved")

-------------------------------------------------------------------------------
(* Properties.                                                             *)

TypeOK ==
  /\ task \in Task
  /\ policy \in Policies
  /\ active \in SUBSET Employees
  /\ endorsed \in SUBSET Actors
  /\ vouched \in SUBSET Departments
  /\ claimed \in SUBSET Criteria
  /\ cleared \in SUBSET StageNames

\* An event that moves work twice never leaves it halfway: between events no
\* task is approved, changes_requested or transferred, and only work nobody
\* was ever given has no assignee.
Resting ==
  /\ task.status \in RestingStatuses
  /\ task.assignee = Nobody => task.status \in {"backlog", "cancelled"}

\* Nobody is asked to review work they are holding, whatever is reassigned,
\* re-staged, paused or edited between the submission and the answer.
NoSelfReview == task.status = "in_review" => task.assignee \notin task.reviewers

\* Approvals counted towards a review were given to this submission: none
\* survives a new submission, a request for changes or a change of hands, even
\* by way of an escalation that leaves the task's approvals where they were.
ApprovalsAreCurrent == task.status = "in_review" => task.approvals \subseteq endorsed

\* A checking department's signature is on the task only if one of its own
\* people approved the work.
SignaturesAreReal ==
  \A d \in task.checkedBy : IsChecker(d) /\ d \in vouched

\* Done means what it says: what the completing event claimed covers the list
\* in force, although the list may be edited up to the moment of completion.
DoneMeansMet ==
  task.status = "done" /\ policy.kind \in {"direct", "manager", "peer", "quorum", "automated"}
    => Owed(task) \subseteq claimed

\* Work sent back over and over ends with a person: no policy with a cap is
\* ever asked for more rounds than its cap.
RoundsCapped ==
  /\ policy.kind \in CappedKinds => task.rounds <= policy.maxIterations
  /\ policy.kind = "direct" => task.rounds <= CHECK_ROUNDS

\* Work is finished only when every department checking it that had somebody to
\* ask has signed.
CheckedBeforeDone ==
  [][task'.status = "done" /\ task.status # "done" => PendingCheckers(task', ctx) = {}]_vars

\* Work ends as its policy says: what was claimed covers the list, and nobody is
\* asked for more rounds than the policy allows.
EndsFairly == TypeOK /\ DoneMeansMet /\ RoundsCapped

\* A checking department's signature is neither forged nor left out.
ChecksHold == []SignaturesAreReal /\ CheckedBeforeDone

\* A quorum completes on the approvals asked for, counted over people.
QuorumHeld ==
  task.status = "done" /\ policy.kind = "quorum" => Cardinality(endorsed) >= policy.required

\* A pipeline completes only after every one of its stages gathered its own
\* approvals, whatever was handed over, sent back or escalated in between.
PipelineInFull ==
  task.status = "done" /\ policy.kind = "pipeline" =>
    {policy.stages[i].name : i \in DOMAIN policy.stages} \subseteq cleared

\* Approvals that are counted are counted in full.
CountedInFull == QuorumHeld /\ PipelineInFull

\* Finished work is not changed by any later event.
FinishedIsFinal == [][task.status \in TerminalStatuses => UNCHANGED task]_vars

\* A review that is asked for ends: once everybody asked has answered, the work
\* leaves review.
ReviewEnds == task.status = "in_review" ~> task.status # "in_review"

\* The review counts more approvals than the one the office asks for by itself.
CountsSeveral ==
  \/ policy.kind = "quorum" /\ policy.required > 1
  \/ \E i \in Located(task, policy.stages) : policy.stages[i].required > 1

\* Asked once, a review ends; or it counts several approvals, has the first of them
\* and waits for somebody named who was not asked; or its reviewers are all away.
CountedReviewMoves ==
  task.status = "in_review" ~>
    \/ task.status # "in_review"
    \/ task.approvals # {} /\ task.reviewers \ task.approvals # {} /\ CountsSeveral
    \/ task.reviewers # {} /\ task.reviewers \cap active = {}
===============================================================================
