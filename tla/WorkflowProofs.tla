---------------------------- MODULE WorkflowProofs ----------------------------
(***************************************************************************)
(* Theorems about one piece of work under its department's policy, for     *)
(* every office and every set of well-formed review policies.              *)
(***************************************************************************)
EXTENDS Workflow, EngineProofs

-------------------------------------------------------------------------------
(* The invariant.  TypeOK alone is not inductive: that a submission asks   *)
(* nobody to review their own work needs the assignee to be somebody, and  *)
(* that needs the task to be between events.                               *)

IInv == TypeOK /\ Sound(task) /\ ApprovalsAreCurrent

\* A step that applies an event: lawful for the task, and the history notes
\* stay within their types.
Applied(kept) ==
  /\ Lawful(task, task', kept)
  /\ UNCHANGED context
  /\ task.status = "in_review" => kept \subseteq endorsed'
  /\ endorsed' \in SUBSET Actors
  /\ vouched' \in SUBSET Departments
  /\ claimed' \in SUBSET Criteria
  /\ cleared' \in SUBSET StageNames

LEMMA AppliedKeepsIInv ==
  ASSUME IInv, NEW kept, Applied(kept)
  PROVE  IInv'
<1>1. task' \in Task /\ Sound(task)'
  BY DEF Applied, Lawful, Sound
<1>2. TypeOK'
  BY <1>1 DEF IInv, TypeOK, Applied, context
<1>3. ApprovalsAreCurrent'
  BY DEF IInv, ApprovalsAreCurrent, Applied, Lawful
<1>4. QED
  BY <1>1, <1>2, <1>3 DEF IInv

LEMMA CtxIsGood ==
  ASSUME TypeOK
  PROVE  GoodContext(ctx)
BY PolicyConstants DEF TypeOK, GoodContext, WellFormed, ctx

\* The actions are exactly the events: each is an Applied step, or changes
\* nothing but what surrounds the task.
LEMMA EveryStep ==
  ASSUME IInv, Next
  PROVE  (\E kept : Applied(kept)) \/ (task' = task /\ UNCHANGED history
                                      /\ policy' \in Policies /\ active' \in SUBSET Employees)
<1>1. /\ task \in Task /\ Sound(task) /\ GoodContext(ctx)
      /\ endorsed \in SUBSET Actors
      /\ vouched \in SUBSET Departments /\ claimed \in SUBSET Criteria
      /\ cleared \in SUBSET StageNames
      /\ policy \in Policies /\ active \in SUBSET Employees
      /\ task.status = "in_review" => task.approvals \subseteq endorsed
  BY CtxIsGood DEF IInv, TypeOK, ApprovalsAreCurrent
<1>2. ASSUME Lawful(task, task', {}), UNCHANGED <<context, history>>
      PROVE  Applied({})
  BY <1>1, <1>2 DEF Applied, history
<1>3. CASE DoSubmit
  <2>1. PICK met \in SUBSET Criteria :
          /\ task' \in Submit(task, ctx, met)
          /\ endorsed' = {} /\ claimed' = met
          /\ UNCHANGED <<policy, active, vouched, cleared>>
    BY <1>3 DEF DoSubmit
  <2>2. Lawful(task, task', {})
    BY <1>1, <2>1, SubmitLawful
  <2>3. Applied({})
    BY <1>1, <2>1, <2>2 DEF Applied, context
  <2>4. QED
    BY <2>3
<1>4. ASSUME NEW actor \in Actors, NEW met \in SUBSET Criteria, DoApprove(actor, met)
      PROVE  Applied(task.approvals \cup {actor})
  <2>1. Lawful(task, task', task.approvals \cup {actor})
    BY <1>1, <1>4, ApproveLawful DEF DoApprove
  <2>2. /\ UNCHANGED context
        /\ endorsed' = endorsed \cup {actor}
        /\ endorsed' \in SUBSET Actors
        /\ claimed' \in SUBSET Criteria
    BY <1>1, <1>4 DEF DoApprove
  <2>3. vouched' \in SUBSET Departments
    BY <1>1, <1>4, EngineConstants DEF DoApprove, Actors
  <2>4. cleared' \in SUBSET StageNames
    <3>1. policy.stages \in Seq(Stage)
      BY <1>1 DEF GoodContext, ctx, Policy
    <3>2. \A i \in DOMAIN policy.stages : policy.stages[i] \in Stage
      BY <3>1
    <3>3. \A s \in Stage : s.name \in StageNames
      BY DEF Stage
    <3>4. StageCompleted(endorsed') \in SUBSET StageNames
      BY <3>2, <3>3 DEF StageCompleted, Located
    <3>5. QED
      BY <1>1, <1>4, <3>4 DEF DoApprove
  <2>5. QED
    BY <1>1, <2>1, <2>2, <2>3, <2>4 DEF Applied
<1>5. ASSUME NEW actor \in Actors, DoRequestChanges(actor)
      PROVE  Applied({})
  BY <1>1, <1>2, <1>5, RequestChangesLawful DEF DoRequestChanges
<1>6. ASSUME NEW outcome \in {"passed", "failed", "errored"}, NEW met \in SUBSET Criteria,
             DoCheckReported(outcome, met)
      PROVE  Applied({})
  <2>1. Lawful(task, task', {})
    BY <1>1, <1>6, CheckReportedLawful DEF DoCheckReported
  <2>2. QED
    BY <1>1, <1>6, <2>1 DEF DoCheckReported, Applied
<1>7. ASSUME NEW decision, DoGateDecided(decision)
      PROVE  Applied({})
  BY <1>1, <1>2, <1>7, GateDecidedLawful DEF DoGateDecided
<1>8. CASE DoStart \/ DoBlock \/ DoUnblock \/ DoCancel \/ DoAwaitDecision \/ DoCallDecided
  <2>1. UNCHANGED <<context, history>>
    BY <1>8 DEF DoStart, DoBlock, DoUnblock, DoCancel, DoAwaitDecision, DoCallDecided
  <2>2. \E to \in {"in_progress", "blocked", "cancelled"} : task' \in Move(task, to)
    BY <1>8 DEF DoStart, DoBlock, DoUnblock, DoCancel, DoAwaitDecision, DoCallDecided,
                Start, Block, Unblock, Cancel, AwaitDecision, CallDecided
  <2>3. Lawful(task, task', {})
    BY <1>1, <2>2, MoveLawful
  <2>4. QED
    BY <1>2, <2>1, <2>3
<1>9. CASE DoReassign
  BY <1>1, <1>2, <1>9, ReassignLawful DEF DoReassign
<1>10. CASE DoUpdateTask
  <2>1. Lawful(task, task', task.approvals) /\ UNCHANGED <<context, history>>
    BY <1>1, <1>10, UpdateTaskLawful DEF DoUpdateTask
  <2>2. Applied(task.approvals)
    BY <1>1, <2>1 DEF Applied, history
  <2>3. QED
    BY <2>2
<1>11. CASE EditPolicy
  BY <1>1, <1>11 DEF EditPolicy
<1>12. CASE SetEmployeeStatus
  BY <1>1, <1>12, WorkflowConstants DEF SetEmployeeStatus
<1>13. QED
  BY <1>3, <1>4, <1>5, <1>6, <1>7, <1>8, <1>9, <1>10, <1>11, <1>12 DEF Next

-------------------------------------------------------------------------------
(* Theorems.                                                               *)

LEMMA InitIInv == ASSUME Init PROVE IInv
<1>1. PICK a \in Actors : task = NewTask(a)
  BY DEF Init
<1>2. NewTask(a) \in Task /\ Sound(NewTask(a))
  BY DEF NewTask, Task, Sound, TaskStatuses, RestingStatuses, TransientStatuses
<1>3. TypeOK
  BY <1>1, <1>2, EngineConstants DEF Init, TypeOK, Actors
<1>4. ApprovalsAreCurrent
  BY <1>1 DEF ApprovalsAreCurrent, NewTask
<1>5. QED
  BY <1>1, <1>2, <1>3, <1>4 DEF IInv

LEMMA NextIInv ==
  ASSUME IInv, [Next]_vars
  PROVE  IInv'
<1>1. CASE Next
  <2>1. CASE \E kept : Applied(kept)
    BY <2>1, AppliedKeepsIInv
  <2>2. CASE /\ task' = task /\ UNCHANGED history
             /\ policy' \in Policies /\ active' \in SUBSET Employees
    BY <2>2 DEF IInv, TypeOK, ApprovalsAreCurrent, Sound, history
  <2>3. QED
    BY <1>1, <2>1, <2>2, EveryStep
<1>2. CASE UNCHANGED vars
  BY <1>2 DEF IInv, TypeOK, ApprovalsAreCurrent, Sound, vars
<1>3. QED
  BY <1>1, <1>2

\* The invariant holds throughout, in every office.
THEOREM Invariance == Spec => []IInv
<1>1. Init => IInv
  BY InitIInv
<1>2. IInv /\ [Next]_vars => IInv'
  BY NextIInv
<1>3. QED
  BY <1>1, <1>2, PTL DEF Spec

\* The types hold whatever happens to the work.
THEOREM TypeCorrect == Spec => []TypeOK
<1>1. IInv => TypeOK
  BY DEF IInv
<1>2. QED
  BY <1>1, Invariance, PTL

\* No event stores work halfway between two statuses, and only work nobody was
\* ever given is held by nobody.
THEOREM RestsBetweenEvents == Spec => []Resting
<1>1. IInv => Resting
  BY DEF IInv, Sound, Resting
<1>2. QED
  BY <1>1, Invariance, PTL

\* Nobody is ever asked to review the work they hold, provided every pipeline
\* stage names its worker: a stage without one keeps whoever holds the work,
\* and its reviewers may include them.
THEOREM NobodyReviewsTheirOwn ==
  ASSUME PipelinesNameWorkers
  PROVE  Spec => []NoSelfReview
<1>1. IInv => NoSelfReview
  BY DEF IInv, Sound, NoSelfReview
<1>2. QED
  BY <1>1, Invariance, PTL

\* Every approval counted on work in review was given to the submission under
\* review.
THEOREM CountsOnlyThisSubmission == Spec => []ApprovalsAreCurrent
<1>1. IInv => ApprovalsAreCurrent
  BY DEF IInv
<1>2. QED
  BY <1>1, Invariance, PTL

\* Work that is done or cancelled is never changed again, by any event.
THEOREM FinishedStaysFinished == Spec => FinishedIsFinal
<1>1. IInv /\ [Next]_vars => [task.status \in TerminalStatuses => UNCHANGED task]_vars
  <2>1. SUFFICES ASSUME IInv, Next, task.status \in TerminalStatuses
                 PROVE  UNCHANGED task
    BY DEF vars
  <2>2. ~ \E kept : Applied(kept)
    BY <2>1 DEF Applied, Lawful
  <2>3. QED
    BY <2>1, <2>2, EveryStep
<1>2. QED
  BY <1>1, Invariance, PTL DEF Spec, FinishedIsFinal

-------------------------------------------------------------------------------
(* The signatures, the list and the rounds.                                *)

\* A step in which `actor` answers and `met` is what is claimed.
Answered(actor, met) ==
  /\ task.status \notin TerminalStatuses
  /\ Fair(task, task', ctx, actor, met)
  /\ UNCHANGED context
  /\ claimed' = met
  /\ vouched' = vouched \cup {DepartmentOf[e] : e \in {actor} \ {Nobody}}

\* Every step is an answer, an edit of open work, or leaves the task alone.
LEMMA EveryStepIsFair ==
  ASSUME IInv, Next
  PROVE  \/ \E actor \in Actors, met \in SUBSET Criteria : Answered(actor, met)
         \/ /\ task.status \notin TerminalStatuses
            /\ \E wanted : task' = [task EXCEPT !.criteria = wanted]
            /\ UNCHANGED <<context, history>>
         \/ task' = task /\ UNCHANGED history /\ (policy' = policy \/ PolicyEdits)
<1>1. /\ task \in Task /\ Sound(task) /\ GoodContext(ctx)
      /\ claimed \in SUBSET Criteria /\ Nobody \in Actors
  BY CtxIsGood DEF IInv, TypeOK, Actors
<1>2. ASSUME Lawful(task, task', {}), UNCHANGED <<context, history>>,
             \A met : Fair(task, task', ctx, Nobody, met)
      PROVE  Answered(Nobody, claimed)
  BY <1>1, <1>2 DEF Answered, Lawful, history
<1>3. CASE DoSubmit
  <2>1. PICK met \in SUBSET Criteria :
          /\ task' \in Submit(task, ctx, met)
          /\ claimed' = met
          /\ UNCHANGED <<policy, active, vouched>>
    BY <1>3 DEF DoSubmit
  <2>2. Lawful(task, task', {}) /\ Fair(task, task', ctx, Nobody, met)
    BY <1>1, <2>1, SubmitLawful, SubmitFair
  <2>3. Answered(Nobody, met)
    BY <2>1, <2>2 DEF Answered, Lawful, context
  <2>4. QED
    BY <1>1, <2>3
<1>4. ASSUME NEW actor \in Actors, NEW met \in SUBSET Criteria, DoApprove(actor, met)
      PROVE  Answered(actor, met)
  <2>1. Lawful(task, task', task.approvals \cup {actor})
    BY <1>1, <1>4, ApproveLawful DEF DoApprove
  <2>2. Fair(task, task', ctx, actor, met)
    BY <1>1, <1>4, ApproveFair DEF DoApprove
  <2>3. QED
    BY <1>4, <2>1, <2>2 DEF Answered, Lawful, DoApprove
<1>5. ASSUME NEW actor \in Actors, DoRequestChanges(actor)
      PROVE  Answered(Nobody, claimed)
  <2>1. task' \in RequestChanges(task, ctx, actor) /\ UNCHANGED <<context, history>>
    BY <1>5 DEF DoRequestChanges
  <2>2. \A met : Fair(task, task', ctx, Nobody, met)
    BY <1>1, <2>1, SentBackFair
  <2>3. QED
    BY <1>1, <1>2, <2>1, <2>2, RequestChangesLawful
<1>6. ASSUME NEW outcome \in {"passed", "failed", "errored"}, NEW met \in SUBSET Criteria,
             DoCheckReported(outcome, met)
      PROVE  Answered(Nobody, met)
  <2>1. Lawful(task, task', {}) /\ Fair(task, task', ctx, Nobody, met)
    BY <1>1, <1>6, CheckReportedLawful, CheckReportedFair DEF DoCheckReported
  <2>2. QED
    BY <1>6, <2>1 DEF Answered, Lawful, DoCheckReported
<1>7. ASSUME NEW decision, DoGateDecided(decision)
      PROVE  Answered(Nobody, claimed)
  <2>1. task' \in GateDecided(task, ctx, decision) /\ UNCHANGED <<context, history>>
    BY <1>7 DEF DoGateDecided
  <2>2. \A met : Fair(task, task', ctx, Nobody, met)
    BY <1>1, <2>1, GateDecidedFair
  <2>3. QED
    BY <1>1, <1>2, <2>1, <2>2, GateDecidedLawful
<1>8. CASE DoStart \/ DoBlock \/ DoUnblock \/ DoCancel \/ DoAwaitDecision \/ DoCallDecided
  <2>1. UNCHANGED <<context, history>>
    BY <1>8 DEF DoStart, DoBlock, DoUnblock, DoCancel, DoAwaitDecision, DoCallDecided
  <2>2. PICK to \in {"in_progress", "blocked", "cancelled"} : task' \in Move(task, to)
    BY <1>8 DEF DoStart, DoBlock, DoUnblock, DoCancel, DoAwaitDecision, DoCallDecided,
                Start, Block, Unblock, Cancel, AwaitDecision, CallDecided
  <2>3. to \in TaskStatuses \ {"done", "changes_requested"}
    BY <2>2 DEF TaskStatuses
  <2>4. \A met : Fair(task, task', ctx, Nobody, met)
    BY <1>1, <2>2, <2>3, MoveFair
  <2>5. QED
    BY <1>1, <1>2, <2>1, <2>2, <2>4, MoveLawful
<1>9. CASE DoReassign
  <2>1. PICK to \in Employees : task' \in Reassign(task, to)
    BY <1>9 DEF DoReassign
  <2>2. \A met : Fair(task, task', ctx, Nobody, met)
    BY <1>1, <2>1, ReassignFair
  <2>3. QED
    BY <1>1, <1>2, <1>9, <2>1, <2>2, ReassignLawful DEF DoReassign
<1>10. CASE DoUpdateTask
  BY <1>10 DEF DoUpdateTask, UpdateTask
<1>11. CASE EditPolicy
  BY <1>11 DEF EditPolicy
<1>12. CASE SetEmployeeStatus
  BY <1>12 DEF SetEmployeeStatus
<1>13. QED
  BY <1>1, <1>3, <1>4, <1>5, <1>6, <1>7, <1>8, <1>9, <1>10, <1>11, <1>12 DEF Next

\* An answer signs for the department of whoever gave it, and for no other.
LEMMA SignedByTheirOwn ==
  ASSUME SignaturesAreReal, NEW actor \in Actors, NEW met, Answered(actor, met)
  PROVE  SignaturesAreReal'
<1>1. task'.checkedBy \subseteq SignedOffBy(task, actor)
  BY DEF Answered, Fair
<1>2. ASSUME NEW d \in task'.checkedBy
      PROVE  IsChecker(d) /\ d \in vouched'
  <2>1. CASE d \in task.checkedBy
    BY <2>1 DEF SignaturesAreReal, Answered
  <2>2. CASE actor \in Employees /\ DepartmentOf[actor] = d /\ IsChecker(d)
    <3>1. actor # Nobody
      BY <2>2, EngineConstants
    <3>2. QED
      BY <2>2, <3>1 DEF Answered
  <2>3. QED
    BY <1>1, <1>2, <2>1, <2>2 DEF SignedOffBy
<1>3. QED
  BY <1>2 DEF SignaturesAreReal, IsChecker

LEMMA NextSigned ==
  ASSUME IInv, SignaturesAreReal, [Next]_vars
  PROVE  SignaturesAreReal'
<1>1. CASE \E actor \in Actors, met \in SUBSET Criteria : Answered(actor, met)
  BY <1>1, SignedByTheirOwn
<1>2. CASE /\ \E wanted : task' = [task EXCEPT !.criteria = wanted]
           /\ UNCHANGED <<context, history>>
  <2>1. task'.checkedBy = task.checkedBy /\ vouched' = vouched
    BY <1>2 DEF IInv, TypeOK, Task, history
  <2>2. QED
    BY <2>1 DEF SignaturesAreReal, IsChecker
<1>3. CASE task' = task /\ UNCHANGED history
  BY <1>3 DEF SignaturesAreReal, IsChecker, history
<1>4. CASE UNCHANGED vars
  BY <1>4 DEF SignaturesAreReal, IsChecker, vars
<1>5. QED
  BY <1>1, <1>2, <1>3, <1>4, EveryStepIsFair

\* Work is finished by an answer, and one that left nobody to ask.
LEMMA FinishedOnceChecked ==
  ASSUME IInv, [Next]_vars, \A p \in Policies : AsksForChecks(p),
         task'.status = "done", task.status # "done"
  PROVE  PendingCheckers(task', ctx) = {}
<1>1. CASE \E actor \in Actors, met \in SUBSET Criteria : Answered(actor, met)
  BY <1>1 DEF Answered, Fair, Closed, IInv, TypeOK, ctx
<1>2. CASE \E wanted : task' = [task EXCEPT !.criteria = wanted]
  BY <1>2 DEF IInv, TypeOK, Task
<1>3. CASE task' = task
  BY <1>3
<1>4. CASE UNCHANGED vars
  BY <1>4 DEF vars
<1>5. QED
  BY <1>1, <1>2, <1>3, <1>4, EveryStepIsFair

\* Where no policy of the department is a gate or a pipeline, which finish work
\* without asking anybody else, a checking department's signature is on the task
\* only if one of its own people approved the work, and no work is finished while
\* one that could be asked has not signed.
THEOREM NoCheckIsForgedOrLeftOut ==
  ASSUME \A p \in Policies : AsksForChecks(p)
  PROVE  Spec => ChecksHold
<1>1. Init => SignaturesAreReal
  BY DEF Init, NewTask, SignaturesAreReal
<1>2. IInv /\ SignaturesAreReal /\ [Next]_vars => SignaturesAreReal'
  BY NextSigned
<1>3. IInv /\ [Next]_vars =>
        [task'.status = "done" /\ task.status # "done" => PendingCheckers(task', ctx) = {}]_vars
  BY FinishedOnceChecked
<1>4. QED
  BY <1>1, <1>2, <1>3, Invariance, PTL DEF Spec, ChecksHold, CheckedBeforeDone

LEMMA NextEndsFairly ==
  ASSUME IInv, EndsFairly, [Next]_vars, ~PolicyEdits
  PROVE  DoneMeansMet' /\ RoundsCapped'
<1>1. ASSUME NEW actor \in Actors, NEW met \in SUBSET Criteria, Answered(actor, met)
      PROVE  DoneMeansMet' /\ RoundsCapped'
  <2>1. policy' = policy /\ claimed' = met
    BY <1>1 DEF Answered, context
  <2>2. DoneMeansMet'
    BY <1>1, <2>1 DEF Answered, Fair, Closed, AsksForChecks, Outstanding, DoneMeansMet, ctx
  <2>3. RoundsCapped'
    BY <1>1, <2>1 DEF Answered, Fair, WithinCap, EndsFairly, RoundsCapped, ctx
  <2>4. QED
    BY <2>2, <2>3
<1>2. CASE /\ task.status \notin TerminalStatuses
           /\ \E wanted : task' = [task EXCEPT !.criteria = wanted]
           /\ UNCHANGED <<context, history>>
  <2>1. task'.status = task.status /\ task'.rounds = task.rounds /\ policy' = policy
    BY <1>2 DEF IInv, TypeOK, Task, context
  <2>2. QED
    BY <1>2, <2>1 DEF EndsFairly, DoneMeansMet, RoundsCapped, TerminalStatuses
<1>3. CASE task' = task /\ UNCHANGED history /\ policy' = policy
  BY <1>3 DEF EndsFairly, DoneMeansMet, RoundsCapped, history
<1>4. CASE UNCHANGED vars
  BY <1>4 DEF EndsFairly, DoneMeansMet, RoundsCapped, vars
<1>5. QED
  BY <1>1, <1>2, <1>3, <1>4, EveryStepIsFair

\* While the department keeps its policy, finished work meets the list it was
\* finished under, whatever becomes of that list until then, and no work is sent
\* back more often than the policy allows.
THEOREM WorkEndsFairly ==
  ASSUME ~PolicyEdits
  PROVE  Spec => []EndsFairly
<1>1. Init => EndsFairly
  <2>1. ASSUME Init
        PROVE  EndsFairly
    <3>1. TypeOK
      BY <2>1, InitIInv DEF IInv
    <3>2. task.status # "done" /\ task.rounds = 0
      BY <2>1 DEF Init, NewTask
    <3>3. policy.maxIterations \in Nat
      BY <3>1, PolicyConstants DEF TypeOK, WellFormed, Policy
    <3>4. QED
      BY <3>1, <3>2, <3>3 DEF EndsFairly, DoneMeansMet, RoundsCapped, CHECK_ROUNDS
  <2>2. QED
    BY <2>1
<1>2. IInv /\ EndsFairly /\ [Next]_vars /\ IInv' => EndsFairly'
  BY NextEndsFairly DEF EndsFairly, IInv
<1>3. QED
  BY <1>1, <1>2, Invariance, PTL DEF Spec
===============================================================================
