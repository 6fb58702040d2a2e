---------------------------- MODULE WorkflowEngine ----------------------------
(***************************************************************************)
(* The workflow engine (packages/orchestrator/src/workflow): pure          *)
(* functions from a task, an event and a context to an outcome.  An        *)
(* operator here returns the SET of tasks the event may leave behind: the  *)
(* empty set is a refusal (the code's error Result), and more than one     *)
(* element is a choice that rests on data left out of the model (skills    *)
(* and open-task counts decide which of several eligible colleagues is     *)
(* ranked first).                                                          *)
(*                                                                         *)
(* A context c carries what the office reads when the event arrives: the   *)
(* department's review policy and who is active.                           *)
(***************************************************************************)
EXTENDS TaskStates, Naturals, FiniteSets, Sequences

CONSTANTS
  Employees,         \* everybody in the office
  Nobody,            \* no employee: unassigned work, or a person acting
  Departments,
  Home,              \* the department that does this work
  DepartmentOf,      \* [Employees -> Departments]
  SupervisorOf,      \* [Employees -> Employees \cup {Nobody}]
  Checkers,          \* departments with a "reviews" arrow onto Home, as drawn
  Policies,          \* the review policies Home may have
  Criteria,          \* the acceptance criteria somebody may write down
  DefinitionOfDone,  \* the department's standing criteria
  Gates,             \* categories of action a gate may hold
  TaskGates,         \* the categories this piece of work records
  StageNames,
  NoStage            \* work that has not entered a pipeline

ASSUME EngineConstants ==
  /\ Nobody \notin Employees
  /\ Home \in Departments
  /\ DepartmentOf \in [Employees -> Departments]
  /\ SupervisorOf \in [Employees -> Employees \cup {Nobody}]
  /\ Checkers \in Seq(Departments \ {Home})
  /\ DefinitionOfDone \subseteq Criteria
  /\ TaskGates \subseteq Gates
  /\ NoStage \notin StageNames

Actors == Employees \cup {Nobody}

-------------------------------------------------------------------------------
(* Tasks and review policies.                                              *)

Task ==
  [ status    : TaskStatuses,
    assignee  : Actors,
    reviewers : SUBSET Employees,
    approvals : SUBSET Actors,
    stage     : StageNames \cup {NoStage},
    checkedBy : SUBSET Departments,
    rounds    : Nat,               \* history entries that reach changes_requested
    criteria  : SUBSET Criteria ]

NewTask(assignee) ==
  [ status    |-> IF assignee = Nobody THEN "backlog" ELSE "assigned",
    assignee  |-> assignee,
    reviewers |-> {},
    approvals |-> {},
    stage     |-> NoStage,
    checkedBy |-> {},
    rounds    |-> 0,
    criteria  |-> {} ]

PolicyKinds == {"direct", "manager", "peer", "quorum", "gate", "automated", "pipeline"}

\* The kinds that declare maxIterations.
CappedKinds == PolicyKinds \ {"direct", "gate"}

Stage ==
  [ name : StageNames, worker : Actors, reviewers : SUBSET Employees, required : Nat \ {0} ]

Policy ==
  [ kind : PolicyKinds, required : Nat, maxIterations : Nat, gates : SUBSET Gates,
    stages : Seq(Stage) ]

\* What parseReviewPolicy lets a department keep.
WellFormed(p) ==
  /\ p \in Policy
  /\ p.kind \in CappedKinds => p.maxIterations > 0
  /\ p.kind = "quorum" => p.required > 0
  /\ p.kind = "gate" => p.gates # {}
  /\ p.kind = "pipeline" =>
       /\ p.stages # << >>
       /\ \A i, j \in DOMAIN p.stages : p.stages[i].name = p.stages[j].name => i = j
       /\ \A i \in DOMAIN p.stages :
            LET s == p.stages[i] IN
            /\ s.worker \notin s.reviewers
            /\ s.required = 1 \/ s.required <= Cardinality(s.reviewers)

ASSUME PolicyConstants == \A p \in Policies : WellFormed(p)

\* A department that reviews nothing of its own may be sent back this often.
CHECK_ROUNDS == 3

-------------------------------------------------------------------------------
(* Transitions, the definition of done, and who may act.                   *)

Move(t, to) ==
  { [t EXCEPT !.status = s, !.rounds = @ + (IF s = "changes_requested" THEN 1 ELSE 0)] :
      s \in {x \in {to} : CanTransition(t.status, x)} }

MoveTwice(t, via, to) == UNION {Move(u, to) : u \in Move(t, via)}

\* The task's own list when it has one, otherwise its department's.
Owed(t) == IF t.criteria # {} THEN t.criteria ELSE DefinitionOfDone

\* Mutant: only the department's list is asked about.
OutstandingOfDepartment(t, met) == DefinitionOfDone \ met

Outstanding(t, met) == Owed(t) \ met

\* No named reviewers means the owner reviews, and anybody may act for them.
MayReview(t, actor) == t.reviewers = {} \/ actor \in t.reviewers

\* Mutant: whoever does the work may be picked to review it.
EligibleIncludingSelf(t, c, d) == {e \in c.active : DepartmentOf[e] = d}

\* Everybody rankPeers leaves in: active, there, and not doing the work.
Eligible(t, c, d) == {e \in c.active : DepartmentOf[e] = d /\ e # t.assignee}

\* The reviewer chosen by the first checking department that has not signed
\* and has somebody to ask.
PendingCheckers(t, c) ==
  LET open == {i \in DOMAIN Checkers :
                 Checkers[i] \notin t.checkedBy /\ Eligible(t, c, Checkers[i]) # {}}
  IN  {e \in Employees : \E i \in open :
         /\ e \in Eligible(t, c, Checkers[i])
         /\ \A j \in open : i <= j}

IsChecker(d) == \E i \in DOMAIN Checkers : Checkers[i] = d

\* Mutant: any approval signs for every department that checks.
SignedOffByAll(t, actor) == t.checkedBy \cup {d \in Departments : IsChecker(d)}

SignedOffBy(t, actor) ==
  t.checkedBy \cup {d \in Departments :
                      actor \in Employees /\ DepartmentOf[actor] = d /\ IsChecker(d)}

\* Mutant: somebody without a supervisor has nobody as theirs.
SupervisorOfNobody(t, doing) ==
  IF t.assignee = Nobody THEN {{}} ELSE {{x} : x \in {SupervisorOf[t.assignee]} \ {doing}}

\* The supervisor of whoever holds the work when the event arrives; {} is the
\* owner.  `doing` is who would be reviewed: nobody reviews their own work.
SupervisorChoices(t, doing) ==
  LET boss == SupervisorOf[t.assignee]
  IN  IF t.assignee = Nobody \/ boss = Nobody THEN {{}}
      ELSE {{x} : x \in {boss} \ {doing}}

\* Mutant: an earlier round's approvals still stand.
AskForKeepingApprovals(t, asked) == Move([t EXCEPT !.reviewers = asked], "in_review")

AskFor(t, asked) == Move([t EXCEPT !.reviewers = asked, !.approvals = {}], "in_review")

SubmitForReview(t, choices) == UNION {AskFor(t, asked) : asked \in choices}

-------------------------------------------------------------------------------
(* The review mechanics every policy shares.  A cap of 0 is "no cap        *)
(* declared", which the code refuses.                                      *)

Cap(c, fallback) == IF c.policy.kind \in CappedKinds THEN c.policy.maxIterations ELSE fallback

\* Mutant: one round more than the cap.
RequestChangesOnceMore(t, actor, cap) ==
  IF ~MayReview(t, actor) \/ cap = 0 THEN {}
  ELSE IF t.rounds > cap THEN Move(t, "escalated")
  ELSE MoveTwice([t EXCEPT !.approvals = {}], "changes_requested", "in_progress")

RequestChangesOrEscalate(t, actor, cap) ==
  IF ~MayReview(t, actor) \/ cap = 0 THEN {}
  ELSE IF t.rounds + 1 > cap THEN Move(t, "escalated")
  ELSE MoveTwice([t EXCEPT !.approvals = {}], "changes_requested", "in_progress")

\* Mutant: one department's signature is enough for all of them.
ApproveReviewOneSignature(t, c, actor, met) ==
  LET signed  == [t EXCEPT !.checkedBy = SignedOffBy(t, actor)]
      pending == PendingCheckers(signed, c)
  IN  IF ~MayReview(t, actor) THEN {}
      ELSE IF Outstanding(t, met) # {} THEN RequestChangesOrEscalate(t, actor, Cap(c, 0))
      ELSE IF pending # {} /\ signed.checkedBy = {}
        THEN UNION {SubmitForReview(u, {{r} : r \in pending}) : u \in Move(signed, "approved")}
      ELSE MoveTwice(signed, "approved", "done")

ApproveReview(t, c, actor, met) ==
  LET signed  == [t EXCEPT !.checkedBy = SignedOffBy(t, actor)]
      pending == PendingCheckers(signed, c)
  IN  IF ~MayReview(t, actor) THEN {}
      ELSE IF Outstanding(t, met) # {} THEN RequestChangesOrEscalate(t, actor, Cap(c, 0))
      ELSE IF pending # {}
        THEN UNION {SubmitForReview(u, {{r} : r \in pending}) : u \in Move(signed, "approved")}
      ELSE MoveTwice(signed, "approved", "done")

\* The approval recorded, and how many a review has then gathered.
Tallied(t, actor) == [t EXCEPT !.approvals = @ \cup {actor}]

\* Mutant: the review completes one approval early.
GatherOneShort(t, actor, required, reached) ==
  IF t.status # "in_review" \/ ~MayReview(t, actor) THEN {}
  ELSE IF Cardinality(Tallied(t, actor).approvals) + 1 >= required THEN reached
  ELSE {Tallied(t, actor)}

\* Mutant: the review completes one approval late.
GatherOneMore(t, actor, required, reached) ==
  IF t.status # "in_review" \/ ~MayReview(t, actor) THEN {}
  ELSE IF Cardinality(Tallied(t, actor).approvals) > required THEN reached
  ELSE {Tallied(t, actor)}

Gather(t, actor, required, reached) ==
  IF t.status # "in_review" \/ ~MayReview(t, actor) THEN {}
  ELSE IF Cardinality(Tallied(t, actor).approvals) >= required THEN reached
  ELSE {Tallied(t, actor)}

-------------------------------------------------------------------------------
(* The pipeline policy: an ordered chain of stages on one task.            *)

Located(t, stages) ==
  {i \in DOMAIN stages :
     stages[i].name = IF t.stage = NoStage THEN stages[1].name ELSE t.stage}

Worker(t, stage) == IF stage.worker = Nobody THEN t.assignee ELSE stage.worker

EnterStage(t, stage) ==
  SubmitForReview([t EXCEPT !.stage = stage.name, !.assignee = Worker(t, stage)],
                  IF stage.reviewers # {} THEN {stage.reviewers}
                                          ELSE SupervisorChoices(t, Worker(t, stage)))

HandOn(t, stage) ==
  IF Worker(t, stage) = Nobody THEN {}
  ELSE MoveTwice([t EXCEPT !.stage = stage.name, !.assignee = Worker(t, stage),
                           !.reviewers = {}, !.approvals = {}], "approved", "assigned")

\* Mutant: the last stage is taken for the one before it.
SignOffStageEarly(t, actor, stages, i) ==
  Gather(t, actor, stages[i].required,
         IF i + 1 = Len(stages) THEN MoveTwice(Tallied(t, actor), "approved", "done")
                                ELSE HandOn(Tallied(t, actor), stages[i + 1]))

SignOffStage(t, actor, stages, i) ==
  Gather(t, actor, stages[i].required,
         IF i = Len(stages) THEN MoveTwice(Tallied(t, actor), "approved", "done")
                            ELSE HandOn(Tallied(t, actor), stages[i + 1]))

-------------------------------------------------------------------------------
(* Events a review policy decides.                                         *)

SubmitDirect(t, c, met) ==
  IF Outstanding(t, met) # {} THEN {}
  ELSE IF PendingCheckers(t, c) # {} THEN SubmitForReview(t, {{r} : r \in PendingCheckers(t, c)})
  ELSE Move(t, "done")

SubmitThroughGate(t, c, met) ==
  IF Outstanding(t, met) # {} THEN {}
  ELSE IF TaskGates \cap c.policy.gates # {} THEN AskFor(t, {})
  ELSE Move([t EXCEPT !.reviewers = {}, !.approvals = {}], "done")

\* Mutant: the committee is whoever could be found.
FormCommitteeShort(t, c) ==
  SubmitForReview(t, {rs \in SUBSET Eligible(t, c, Home) :
                        Cardinality(rs) + 1 = c.policy.required})

FormCommittee(t, c) ==
  SubmitForReview(t, {rs \in SUBSET Eligible(t, c, Home) :
                        Cardinality(rs) = c.policy.required})

AskPeer(t, c) ==
  SubmitForReview(t, IF Eligible(t, c, Home) # {} THEN {{p} : p \in Eligible(t, c, Home)}
                                                  ELSE SupervisorChoices(t, t.assignee))

Submit(t, c, met) ==
  CASE c.policy.kind = "direct"    -> SubmitDirect(t, c, met)
    [] c.policy.kind = "manager"   -> SubmitForReview(t, SupervisorChoices(t, t.assignee))
    [] c.policy.kind = "peer"      -> AskPeer(t, c)
    [] c.policy.kind = "quorum"    -> FormCommittee(t, c)
    [] c.policy.kind = "gate"      -> SubmitThroughGate(t, c, met)
    [] c.policy.kind = "automated" -> AskFor(t, {})
    [] c.policy.kind = "pipeline"  ->
         UNION {EnterStage(t, c.policy.stages[i]) : i \in Located(t, c.policy.stages)}

\* Mutant: nobody answers for a department that reviews nothing of its own.
NoCheckerAsked(t) == t.status = "in_review" /\ t.reviewers = {}

\* Under the direct policy only a department checking this work is asked.
CheckerAsked(t) == t.status = "in_review" /\ t.reviewers # {}

Approve(t, c, actor, met) ==
  CASE c.policy.kind = "direct"            -> IF CheckerAsked(t)
                                              THEN ApproveReview(t, c, actor, met) ELSE {}
    [] c.policy.kind \in {"manager", "peer"} -> ApproveReview(t, c, actor, met)
    [] c.policy.kind = "quorum"            ->
         Gather(t, actor, c.policy.required, ApproveReview(Tallied(t, actor), c, actor, met))
    [] c.policy.kind = "pipeline"          ->
         UNION {SignOffStage(t, actor, c.policy.stages, i) : i \in Located(t, c.policy.stages)}
    [] c.policy.kind \in {"gate", "automated"} -> {}

RequestChanges(t, c, actor) ==
  CASE c.policy.kind = "direct"            -> IF CheckerAsked(t)
                                              THEN RequestChangesOrEscalate(t, actor, CHECK_ROUNDS)
                                              ELSE {}
    [] c.policy.kind \in {"manager", "peer", "quorum"} ->
         RequestChangesOrEscalate(t, actor, Cap(c, 0))
    [] c.policy.kind = "pipeline"          ->
         UNION {RequestChangesOrEscalate(
                  [t EXCEPT !.assignee = Worker(t, c.policy.stages[i])], actor, Cap(c, 0)) :
                i \in Located(t, c.policy.stages)}
    [] c.policy.kind \in {"gate", "automated"} -> {}

\* A report names no employee: nothing in the office dispatches one for them.
CheckReported(t, c, outcome, met) ==
  IF c.policy.kind # "automated" \/ t.status # "in_review" THEN {}
  ELSE CASE outcome = "passed"  -> ApproveReview(t, c, Nobody, met)
         [] outcome = "failed"  -> RequestChangesOrEscalate(t, Nobody, Cap(c, 0))
         [] outcome = "errored" -> Move(t, "escalated")

\* Mutant: a declined gate leaves the work where the decision put it.
GateDecidedHalfway(t, c, decision) ==
  IF c.policy.kind # "gate" \/ t.status # "in_review" THEN {}
  ELSE IF decision = "approved" THEN MoveTwice(t, "approved", "done")
  ELSE Move(t, "changes_requested")

GateDecided(t, c, decision) ==
  IF c.policy.kind # "gate" \/ t.status # "in_review" THEN {}
  ELSE IF decision = "approved" THEN MoveTwice(t, "approved", "done")
  ELSE MoveTwice(t, "changes_requested", "in_progress")

-------------------------------------------------------------------------------
(* Events that do not depend on a policy.                                  *)

Start(t) == Move(t, "in_progress")

Block(t) == Move(t, "blocked")

Unblock(t) == IF t.assignee = Nobody THEN {} ELSE Move(t, "in_progress")

\* Mutant: the status is written without asking the state machine.
CancelOutright(t) == {[t EXCEPT !.status = "cancelled"]}

Cancel(t) == Move(t, "cancelled")

\* Across, then down: transferred, then assigned to whoever has it now.
Reassign(t, to) ==
  IF to = t.assignee THEN {}
  ELSE MoveTwice([t EXCEPT !.reviewers = {}, !.approvals = {}, !.assignee = to],
                 "transferred", "assigned")

\* A run stopped before a consequential call; the calls it holds are modelled
\* where the run is.
AwaitDecision(t) == Move(t, "blocked")

CallDecided(t) == IF t.status # "blocked" THEN {} ELSE Move(t, "in_progress")

\* An edit of what the work is for; refused once it is finished.
UpdateTask(t, criteria) ==
  IF t.status \in TerminalStatuses THEN {} ELSE {[t EXCEPT !.criteria = criteria]}
===============================================================================
