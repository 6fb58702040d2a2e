----------------------------- MODULE EngineProofs -----------------------------
(***************************************************************************)
(* Facts about the workflow engine, for every office and every set of      *)
(* well-formed review policies.                                            *)
(*                                                                         *)
(* The engine's operators are taken one at a time: each lemma says what an *)
(* outcome u of an operator applied to a sound task t looks like.  The     *)
(* invariance proofs of the modules that use the engine only cite them.    *)
(***************************************************************************)
EXTENDS WorkflowEngine, FiniteSetTheorems, TLAPS

\* Every stage of every pipeline the department may have says who works on it.
\* The office does not insist: a stage may keep whoever holds the work.
NamesWorkers(p) ==
  p.kind = "pipeline" => \A i \in DOMAIN p.stages : p.stages[i].worker # Nobody

PipelinesNameWorkers == \A p \in Policies : NamesWorkers(p)

\* The part of the invariant that speaks of the task alone.
Sound(t) ==
  /\ t \in Task
  /\ t.status \in RestingStatuses
  /\ t.assignee = Nobody => t.status \in {"backlog", "cancelled"}
  /\ PipelinesNameWorkers /\ t.status = "in_review" => t.assignee \notin t.reviewers

\* A move changes the status along the table, counts a round when changes are
\* requested, and nothing else.
LEMMA MoveFacts ==
  ASSUME NEW t \in Task, NEW to \in TaskStatuses, NEW u \in Move(t, to)
  PROVE  /\ u \in Task
         /\ u.status = to
         /\ CanTransition(t.status, to)
         /\ u.assignee = t.assignee
         /\ u.reviewers = t.reviewers
         /\ u.approvals = t.approvals
         /\ u.stage = t.stage
         /\ u.checkedBy = t.checkedBy
         /\ u.criteria = t.criteria
         /\ u.rounds = IF to = "changes_requested" THEN t.rounds + 1 ELSE t.rounds
<1>1. CanTransition(t.status, to)
  BY DEF Move
<1>2. u = [t EXCEPT !.status = to,
                    !.rounds = @ + (IF to = "changes_requested" THEN 1 ELSE 0)]
  BY DEF Move
<1>3. t.rounds + (IF to = "changes_requested" THEN 1 ELSE 0) \in Nat
  BY DEF Task
<1>4. u.rounds = IF to = "changes_requested" THEN t.rounds + 1 ELSE t.rounds
  <2>1. u.rounds = t.rounds + (IF to = "changes_requested" THEN 1 ELSE 0)
    BY <1>2 DEF Task
  <2>2. t.rounds \in Nat
    BY DEF Task
  <2>3. QED
    BY <2>1, <2>2
<1>5. QED
  BY <1>1, <1>2, <1>3, <1>4 DEF Task

\* Two moves in one event, through a status that is not stored.
LEMMA MoveTwiceFacts ==
  ASSUME NEW t \in Task, NEW via \in TaskStatuses, NEW to \in TaskStatuses,
         NEW u \in MoveTwice(t, via, to)
  PROVE  /\ u \in Task
         /\ u.status = to
         /\ CanTransition(t.status, via)
         /\ CanTransition(via, to)
         /\ u.assignee = t.assignee
         /\ u.reviewers = t.reviewers
         /\ u.approvals = t.approvals
         /\ u.checkedBy = t.checkedBy
         /\ u.criteria = t.criteria
         /\ to # "changes_requested" =>
              u.rounds = IF via = "changes_requested" THEN t.rounds + 1 ELSE t.rounds
<1>1. PICK m \in Move(t, via) : u \in Move(m, to)
  BY DEF MoveTwice
<1>2. m \in Task /\ m.status = via
  BY <1>1, MoveFacts
<1>3. QED
  BY <1>1, <1>2, MoveFacts

\* From which statuses the moves the engine makes are possible.
LEMMA Sources ==
  ASSUME NEW s \in TaskStatuses
  PROVE  /\ CanTransition(s, "in_review") => s \in {"in_progress", "approved"}
         /\ CanTransition(s, "approved") => s = "in_review"
         /\ CanTransition(s, "changes_requested") => s = "in_review"
         /\ CanTransition(s, "done") => s \in {"in_progress", "approved"}
         /\ CanTransition(s, "in_progress") =>
              s \in {"assigned", "changes_requested", "blocked", "escalated"}
         /\ CanTransition(s, "escalated") =>
              s \in {"in_progress", "in_review", "changes_requested", "blocked"}
         /\ CanTransition(s, "blocked") => s \in {"assigned", "in_progress"}
         /\ CanTransition(s, "transferred") =>
              s \in {"assigned", "in_progress", "changes_requested", "blocked", "escalated"}
         /\ s \in TerminalStatuses => \A x \in TaskStatuses : ~CanTransition(s, x)
BY DEF CanTransition, TaskTransitions, TaskStatuses, TerminalStatuses

-------------------------------------------------------------------------------
(* What the shared review mechanics leave behind.                          *)

LEMMA AskForFacts ==
  ASSUME NEW t \in Task, NEW asked \in SUBSET Employees, NEW u \in AskFor(t, asked)
  PROVE  /\ u \in Task
         /\ u.status = "in_review"
         /\ u.reviewers = asked
         /\ u.approvals = {}
         /\ u.assignee = t.assignee
         /\ u.checkedBy = t.checkedBy /\ u.criteria = t.criteria /\ u.rounds = t.rounds
         /\ t.status \in {"in_progress", "approved"}
<1> DEFINE staged == [t EXCEPT !.reviewers = asked, !.approvals = {}]
<1>1. /\ staged \in Task
      /\ staged.checkedBy = t.checkedBy
      /\ staged.criteria = t.criteria
      /\ staged.rounds = t.rounds
      /\ staged.reviewers = asked
      /\ staged.approvals = {}
      /\ staged.assignee = t.assignee
      /\ staged.status = t.status
  BY DEF Task
<1>2. u \in Move(staged, "in_review") /\ "in_review" \in TaskStatuses
  BY DEF AskFor, TaskStatuses
<1> HIDE DEF staged
<1>3. CanTransition(staged.status, "in_review") /\ staged.status \in TaskStatuses
  BY <1>1, <1>2, MoveFacts DEF Task
<1>4. QED
  BY <1>1, <1>2, <1>3, MoveFacts, Sources

LEMMA SubmitForReviewFacts ==
  ASSUME NEW t \in Task, NEW choices \in SUBSET SUBSET Employees,
         NEW u \in SubmitForReview(t, choices)
  PROVE  /\ u \in Task
         /\ u.status = "in_review"
         /\ u.reviewers \in choices
         /\ u.approvals = {}
         /\ u.assignee = t.assignee
         /\ u.checkedBy = t.checkedBy /\ u.criteria = t.criteria /\ u.rounds = t.rounds
         /\ t.status \in {"in_progress", "approved"}
<1>1. PICK asked \in choices : u \in AskFor(t, asked)
  BY DEF SubmitForReview
<1>2. QED
  BY <1>1, AskForFacts

\* Whoever stands in for the reviewers is never the person under review.
LEMMA SupervisorChoicesFacts ==
  ASSUME NEW t \in Task, NEW doing, NEW asked \in SupervisorChoices(t, doing)
  PROVE  asked \in SUBSET Employees /\ doing \notin asked
<1>1. CASE t.assignee = Nobody \/ SupervisorOf[t.assignee] = Nobody
  BY <1>1 DEF SupervisorChoices
<1>2. CASE ~(t.assignee = Nobody \/ SupervisorOf[t.assignee] = Nobody)
  <2>1. t.assignee \in Employees /\ SupervisorOf[t.assignee] \in Employees
    BY <1>2, EngineConstants DEF Task, Actors
  <2>2. PICK x \in {SupervisorOf[t.assignee]} \ {doing} : asked = {x}
    BY <1>2 DEF SupervisorChoices
  <2>3. QED
    BY <2>1, <2>2
<1>3. QED
  BY <1>1, <1>2

LEMMA EligibleFacts ==
  ASSUME NEW t, NEW c, NEW d, NEW e \in Eligible(t, c, d)
  PROVE  e \in c.active /\ e # t.assignee
BY DEF Eligible

LEMMA PendingCheckersFacts ==
  ASSUME NEW t, NEW c, NEW e \in PendingCheckers(t, c)
  PROVE  e \in Employees /\ e # t.assignee
<1>1. e \in Employees /\ \E i \in DOMAIN Checkers : e \in Eligible(t, c, Checkers[i])
  BY DEF PendingCheckers
<1>2. QED
  BY <1>1, EligibleFacts

LEMMA RequestChangesFacts ==
  ASSUME NEW t \in Task, NEW actor, NEW cap,
         NEW u \in RequestChangesOrEscalate(t, actor, cap)
  PROVE  /\ u \in Task
         /\ u.status \in {"escalated", "in_progress"}
         /\ u.assignee = t.assignee
         /\ t.status \in {"in_progress", "in_review", "changes_requested", "blocked"}
<1> DEFINE fresh == [t EXCEPT !.approvals = {}]
<1>1. /\ fresh \in Task
      /\ fresh.assignee = t.assignee
      /\ fresh.status = t.status
  BY DEF Task
<1>2. \/ u \in Move(t, "escalated")
      \/ u \in MoveTwice(fresh, "changes_requested", "in_progress")
  BY DEF RequestChangesOrEscalate
<1>3. /\ {"escalated", "changes_requested", "in_progress"} \subseteq TaskStatuses
      /\ t.status \in TaskStatuses
  BY DEF TaskStatuses, Task
<1> HIDE DEF fresh
<1>4. CASE u \in Move(t, "escalated")
  BY <1>3, <1>4, MoveFacts, Sources
<1>5. CASE u \in MoveTwice(fresh, "changes_requested", "in_progress")
  <2>1. /\ u \in Task /\ u.status = "in_progress" /\ u.assignee = fresh.assignee
        /\ CanTransition(fresh.status, "changes_requested")
    BY <1>1, <1>3, <1>5, MoveTwiceFacts
  <2>2. QED
    BY <1>1, <1>3, <2>1, Sources
<1>6. QED
  BY <1>2, <1>4, <1>5

LEMMA ApproveReviewFacts ==
  ASSUME NEW t \in Task, NEW c, NEW actor, NEW met,
         NEW u \in ApproveReview(t, c, actor, met)
  PROVE  /\ u \in Task
         /\ u.status \in {"escalated", "in_progress", "in_review", "done"}
         /\ u.assignee = t.assignee
         /\ t.status \in {"in_progress", "in_review", "changes_requested", "blocked"}
         /\ u.status = "in_review" => u.assignee \notin u.reviewers /\ u.approvals = {}
<1> DEFINE signed  == [t EXCEPT !.checkedBy = SignedOffBy(t, actor)]
           pending == PendingCheckers(signed, c)
<1>1. /\ signed \in Task
      /\ signed.assignee = t.assignee
      /\ signed.status = t.status
  BY DEF Task, SignedOffBy
<1>2. /\ {"approved", "done", "in_review"} \subseteq TaskStatuses
      /\ t.status \in TaskStatuses
  BY DEF TaskStatuses, Task
<1>3. \A e \in pending : e \in Employees /\ e # signed.assignee
  BY PendingCheckersFacts
<1>4. \/ u \in RequestChangesOrEscalate(t, actor, Cap(c, 0))
      \/ \E m \in Move(signed, "approved") :
            u \in SubmitForReview(m, {{r} : r \in pending})
      \/ u \in MoveTwice(signed, "approved", "done")
  BY DEF ApproveReview
<1> HIDE DEF signed, pending
<1>5. CASE u \in RequestChangesOrEscalate(t, actor, Cap(c, 0))
  BY <1>5, RequestChangesFacts
<1>6. ASSUME NEW m \in Move(signed, "approved"),
             u \in SubmitForReview(m, {{r} : r \in pending})
      PROVE  /\ u \in Task /\ u.status = "in_review" /\ u.assignee = t.assignee
             /\ t.status = "in_review" /\ u.assignee \notin u.reviewers /\ u.approvals = {}
  <2>1. /\ m \in Task /\ m.assignee = t.assignee
        /\ CanTransition(signed.status, "approved")
    BY <1>1, <1>2, MoveFacts
  <2>2. {{r} : r \in pending} \in SUBSET SUBSET Employees
    BY <1>3
  <2>3. /\ u \in Task /\ u.status = "in_review" /\ u.assignee = m.assignee
        /\ u.approvals = {} /\ u.reviewers \in {{r} : r \in pending}
    BY <1>6, <2>1, <2>2, SubmitForReviewFacts
  <2>4. t.status = "in_review"
    BY <1>1, <1>2, <2>1, Sources
  <2>5. QED
    BY <1>1, <1>3, <2>1, <2>3, <2>4
<1>7. CASE u \in MoveTwice(signed, "approved", "done")
  <2>1. /\ u \in Task /\ u.status = "done" /\ u.assignee = signed.assignee
        /\ CanTransition(signed.status, "approved")
    BY <1>1, <1>2, <1>7, MoveTwiceFacts
  <2>2. QED
    BY <1>1, <1>2, <2>1, Sources
<1>8. QED
  BY <1>4, <1>5, <1>6, <1>7

-------------------------------------------------------------------------------
(* One event at a time.  An outcome u of an event applied to t is lawful   *)
(* when t was not finished, u is sound, and work left in review counts     *)
(* either no approvals or, if it was in review before, some of `kept`.     *)

Lawful(t, u, kept) ==
  /\ t.status \notin TerminalStatuses
  /\ Sound(u)
  /\ u.status = "in_review" =>
       \/ u.approvals = {}
       \/ t.status = "in_review" /\ u.approvals \subseteq kept

\* A context the office can put an event in.
GoodContext(c) ==
  /\ c.policy \in Policies
  /\ c.policy \in Policy
  /\ WellFormed(c.policy)
  /\ c.active \subseteq Employees

\* Work that is open and held by somebody stays sound when it comes out of an
\* event in any of the statuses people work in.
LEMMA HeldIsLawful ==
  ASSUME NEW t \in Task, Sound(t), NEW u \in Task, NEW kept,
         u.assignee = t.assignee,
         t.status \in {"in_progress", "in_review", "changes_requested", "blocked",
                       "escalated", "assigned", "approved"},
         u.status \in RestingStatuses,
         u.status = "in_review" => u.assignee \notin u.reviewers /\ u.approvals = {}
  PROVE  Lawful(t, u, kept)
BY DEF Lawful, Sound, TerminalStatuses

LEMMA MoveLawful ==
  ASSUME NEW t \in Task, Sound(t), NEW kept,
         NEW to \in {"in_progress", "done", "blocked", "escalated", "cancelled"},
         NEW u \in Move(t, to)
  PROVE  Lawful(t, u, kept)
<1>1. to \in TaskStatuses /\ t.status \in TaskStatuses
  BY DEF TaskStatuses, Task
<1>2. /\ u \in Task /\ u.status = to /\ u.assignee = t.assignee
      /\ CanTransition(t.status, to)
  BY <1>1, MoveFacts
<1>3. t.status \notin TerminalStatuses
  BY <1>1, <1>2, Sources
<1>4. to \in RestingStatuses
  BY DEF RestingStatuses, TaskStatuses, TransientStatuses
<1>5. to # "cancelled" => t.status \notin {"backlog", "cancelled"}
  BY <1>1, <1>2, <1>3, Sources DEF TerminalStatuses
<1>6. QED
  BY <1>2, <1>3, <1>4, <1>5 DEF Lawful, Sound

LEMMA AskForLawful ==
  ASSUME NEW t \in Task, Sound(t), NEW kept, NEW choices \in SUBSET SUBSET Employees,
         \A asked \in choices : t.assignee \notin asked,
         NEW u \in SubmitForReview(t, choices)
  PROVE  Lawful(t, u, kept)
<1>1. /\ u \in Task /\ u.status = "in_review" /\ u.reviewers \in choices
      /\ u.approvals = {} /\ u.assignee = t.assignee
      /\ t.status \in {"in_progress", "approved"}
  BY SubmitForReviewFacts
<1>2. "in_review" \in RestingStatuses
  BY DEF RestingStatuses, TaskStatuses, TransientStatuses
<1>3. QED
  BY <1>1, <1>2, HeldIsLawful

LEMMA RequestChangesOrEscalateLawful ==
  ASSUME NEW t \in Task, Sound(t), NEW kept, NEW actor, NEW cap,
         NEW worker \in Actors, t.assignee # Nobody => worker # Nobody,
         NEW u \in RequestChangesOrEscalate([t EXCEPT !.assignee = worker], actor, cap)
  PROVE  Lawful(t, u, kept)
<1> DEFINE held == [t EXCEPT !.assignee = worker]
<1>1. held \in Task /\ held.assignee = worker /\ held.status = t.status
  BY DEF Task, Actors
<1> HIDE DEF held
<1>2. u \in RequestChangesOrEscalate(held, actor, cap)
  BY DEF held
<1>3. /\ u \in Task /\ u.status \in {"escalated", "in_progress"} /\ u.assignee = worker
      /\ t.status \in {"in_progress", "in_review", "changes_requested", "blocked"}
  BY <1>1, <1>2, RequestChangesFacts
<1>4. u.status \in RestingStatuses /\ worker # Nobody
  BY <1>3 DEF RestingStatuses, TaskStatuses, TransientStatuses, Sound
<1>5. QED
  BY <1>3, <1>4 DEF Lawful, Sound, TerminalStatuses

LEMMA OwnRequestChangesLawful ==
  ASSUME NEW t \in Task, Sound(t), NEW kept, NEW actor, NEW cap,
         NEW u \in RequestChangesOrEscalate(t, actor, cap)
  PROVE  Lawful(t, u, kept)
<1>1. /\ u \in Task /\ u.status \in {"escalated", "in_progress"} /\ u.assignee = t.assignee
      /\ t.status \in {"in_progress", "in_review", "changes_requested", "blocked"}
  BY RequestChangesFacts
<1>2. u.status \in RestingStatuses
  BY <1>1 DEF RestingStatuses, TaskStatuses, TransientStatuses
<1>3. QED
  BY <1>1, <1>2, HeldIsLawful

LEMMA ApproveReviewLawful ==
  ASSUME NEW t \in Task, Sound(t), NEW kept, NEW c, NEW actor, NEW met,
         NEW u \in ApproveReview(t, c, actor, met)
  PROVE  Lawful(t, u, kept)
<1>1. /\ u \in Task
      /\ u.status \in {"escalated", "in_progress", "in_review", "done"}
      /\ u.assignee = t.assignee
      /\ t.status \in {"in_progress", "in_review", "changes_requested", "blocked"}
      /\ u.status = "in_review" => u.assignee \notin u.reviewers /\ u.approvals = {}
  BY ApproveReviewFacts
<1>2. u.status \in RestingStatuses
  BY <1>1 DEF RestingStatuses, TaskStatuses, TransientStatuses
<1>3. QED
  BY <1>1, <1>2, HeldIsLawful

-------------------------------------------------------------------------------
(* The events of a review.                                                 *)

\* Entering a pipeline stage puts the work in the hands of the stage's worker
\* and asks somebody else.
LEMMA EnterStageLawful ==
  ASSUME NEW t \in Task, Sound(t), NEW kept, NEW stage \in Stage,
         PipelinesNameWorkers => stage.worker # Nobody,
         stage.worker \notin stage.reviewers,
         NEW u \in EnterStage(t, stage)
  PROVE  Lawful(t, u, kept)
<1> DEFINE staged  == [t EXCEPT !.stage = stage.name, !.assignee = Worker(t, stage)]
           choices == IF stage.reviewers # {} THEN {stage.reviewers}
                      ELSE SupervisorChoices(t, Worker(t, stage))
<1>1. /\ Worker(t, stage) \in Actors
      /\ PipelinesNameWorkers => Worker(t, stage) = stage.worker
      /\ t.assignee # Nobody => Worker(t, stage) # Nobody
  BY DEF Worker, Stage, Task
<1>2. /\ staged \in Task
      /\ staged.assignee = Worker(t, stage)
      /\ staged.status = t.status
  BY <1>1 DEF Task, Stage
<1>3. u \in SubmitForReview(staged, choices)
  BY DEF EnterStage
<1>4. \A asked \in choices :
        asked \in SUBSET Employees /\ (PipelinesNameWorkers => Worker(t, stage) \notin asked)
  <2>1. stage.reviewers \in SUBSET Employees
    BY DEF Stage
  <2>2. \A asked \in SupervisorChoices(t, Worker(t, stage)) :
          asked \in SUBSET Employees /\ Worker(t, stage) \notin asked
    BY SupervisorChoicesFacts
  <2>3. QED
    BY <1>1, <2>1, <2>2
<1> HIDE DEF staged, choices
<1>5. /\ u \in Task /\ u.status = "in_review" /\ u.reviewers \in choices
      /\ u.approvals = {} /\ u.assignee = staged.assignee
      /\ t.status \in {"in_progress", "approved"}
  <2>1. choices \in SUBSET SUBSET Employees
    BY <1>4
  <2>2. QED
    BY <1>2, <1>3, <2>1, SubmitForReviewFacts
<1>6. "in_review" \in RestingStatuses
  BY DEF RestingStatuses, TaskStatuses, TransientStatuses
<1>7. t.assignee # Nobody
  BY <1>5 DEF Sound
<1>8. QED
  BY <1>1, <1>2, <1>4, <1>5, <1>6, <1>7 DEF Lawful, Sound, TerminalStatuses

\* A committee, a peer or a supervisor: none of them is whoever does the work.
LEMMA ColleaguesAreOthers ==
  ASSUME NEW t \in Task, NEW c, c.active \subseteq Employees
  PROVE  \A e \in Eligible(t, c, Home) : e \in Employees /\ e # t.assignee
BY EligibleFacts

LEMMA SubmitLawful ==
  ASSUME NEW t \in Task, Sound(t), NEW kept, NEW c, GoodContext(c), NEW met,
         NEW u \in Submit(t, c, met)
  PROVE  Lawful(t, u, kept)
<1>1. \A e \in Eligible(t, c, Home) : e \in Employees /\ e # t.assignee
  BY ColleaguesAreOthers DEF GoodContext
<1>2. \A asked \in SupervisorChoices(t, t.assignee) :
        asked \in SUBSET Employees /\ t.assignee \notin asked
  BY SupervisorChoicesFacts
<1>3. t.assignee \notin {} /\ {{}} \in SUBSET SUBSET Employees
  OBVIOUS
<1>4. ASSUME u \in AskFor(t, {})
      PROVE  Lawful(t, u, kept)
  <2>1. u \in SubmitForReview(t, {{}})
    BY <1>4 DEF SubmitForReview
  <2>2. QED
    BY <1>3, <2>1, AskForLawful
<1>5. CASE c.policy.kind = "direct"
  <2>1. u \in SubmitDirect(t, c, met)
    BY <1>5 DEF Submit
  <2>2. \/ u \in SubmitForReview(t, {{r} : r \in PendingCheckers(t, c)})
        \/ u \in Move(t, "done")
    BY <2>1 DEF SubmitDirect
  <2>3. \A r \in PendingCheckers(t, c) : r \in Employees /\ r # t.assignee
    BY PendingCheckersFacts
  <2>4. QED
    BY <2>2, <2>3, AskForLawful, MoveLawful
<1>6. CASE c.policy.kind = "manager"
  BY <1>2, <1>6, AskForLawful DEF Submit
<1>7. CASE c.policy.kind = "peer"
  <2>1. u \in SubmitForReview(t, IF Eligible(t, c, Home) # {}
                                 THEN {{p} : p \in Eligible(t, c, Home)}
                                 ELSE SupervisorChoices(t, t.assignee))
    BY <1>7 DEF Submit, AskPeer
  <2>2. QED
    BY <1>1, <1>2, <2>1, AskForLawful
<1>8. CASE c.policy.kind = "quorum"
  <2>1. u \in SubmitForReview(t, {rs \in SUBSET Eligible(t, c, Home) :
                                    Cardinality(rs) = c.policy.required})
    BY <1>8 DEF Submit, FormCommittee
  <2>2. QED
    BY <1>1, <2>1, AskForLawful
<1>9. CASE c.policy.kind = "gate"
  <2> DEFINE clean == [t EXCEPT !.reviewers = {}, !.approvals = {}]
  <2>1. u \in SubmitThroughGate(t, c, met)
    BY <1>9 DEF Submit
  <2>2. u \in AskFor(t, {}) \/ u \in Move(clean, "done")
    BY <2>1 DEF SubmitThroughGate
  <2>3. clean \in Task /\ Sound(clean) /\ clean.status = t.status
    BY DEF Task, Sound
  <2> HIDE DEF clean
  <2>4. ASSUME u \in Move(clean, "done")
        PROVE  Lawful(t, u, kept)
    <3>1. Lawful(clean, u, kept)
      BY <2>3, <2>4, MoveLawful
    <3>2. u.status = "done"
      BY <2>3, <2>4, MoveFacts DEF TaskStatuses
    <3>3. QED
      BY <2>3, <3>1, <3>2 DEF Lawful
  <2>5. QED
    BY <1>4, <2>2, <2>4
<1>10. CASE c.policy.kind = "automated"
  BY <1>4, <1>10 DEF Submit
<1>11. CASE c.policy.kind = "pipeline"
  <2>1. PICK i \in Located(t, c.policy.stages) : u \in EnterStage(t, c.policy.stages[i])
    BY <1>11 DEF Submit
  <2>2. i \in DOMAIN c.policy.stages
    BY <2>1 DEF Located
  <2>3. c.policy.stages[i] \in Stage
    BY <2>2 DEF GoodContext, Policy
  <2>4. /\ PipelinesNameWorkers => c.policy.stages[i].worker # Nobody
        /\ c.policy.stages[i].worker \notin c.policy.stages[i].reviewers
    BY <1>11, <2>2 DEF GoodContext, WellFormed, PipelinesNameWorkers, NamesWorkers
  <2>5. QED
    BY <2>1, <2>3, <2>4, EnterStageLawful
<1>12. c.policy.kind \in PolicyKinds
  BY DEF GoodContext, Policy
<1>13. QED
  BY <1>5, <1>6, <1>7, <1>8, <1>9, <1>10, <1>11, <1>12 DEF PolicyKinds

\* One more approval on the same submission.
LEMMA TalliedFacts ==
  ASSUME NEW t \in Task, NEW actor \in Actors
  PROVE  /\ Tallied(t, actor) \in Task
         /\ Tallied(t, actor).approvals = t.approvals \cup {actor}
         /\ Tallied(t, actor).status = t.status
         /\ Tallied(t, actor).assignee = t.assignee
         /\ Tallied(t, actor).reviewers = t.reviewers
         /\ Sound(t) => Sound(Tallied(t, actor))
<1>1. t.approvals \cup {actor} \in SUBSET Actors
  BY DEF Task
<1>2. Tallied(t, actor) \in Task
  BY <1>1 DEF Task, Tallied
<1>3. QED
  BY <1>1, <1>2 DEF Task, Tallied, Sound

\* A review that has not gathered enough keeps its tally and nothing else.
LEMMA GatherLawful ==
  ASSUME NEW t \in Task, Sound(t), NEW actor \in Actors, NEW required, NEW reached,
         NEW u \in Gather(t, actor, required, reached),
         t.status = "in_review" => \A v \in reached : Lawful(t, v, t.approvals \cup {actor})
  PROVE  Lawful(t, u, t.approvals \cup {actor})
<1>1. t.status = "in_review" /\ (u \in reached \/ u = Tallied(t, actor))
  BY DEF Gather
<1>2. CASE u = Tallied(t, actor)
  BY <1>1, <1>2, TalliedFacts DEF Lawful, TerminalStatuses
<1>3. QED
  BY <1>1, <1>2

\* Whatever the completing approval does with a tally, it is lawful for the
\* task as it was before the approval.
LEMMA LawfulAfterTally ==
  ASSUME NEW t \in Task, NEW actor \in Actors, t.status = "in_review",
         NEW u, Lawful(Tallied(t, actor), u, t.approvals \cup {actor})
  PROVE  Lawful(t, u, t.approvals \cup {actor})
BY TalliedFacts DEF Lawful

LEMMA MoveTwiceLawful ==
  ASSUME NEW t \in Task, Sound(t), NEW kept,
         NEW via \in {"approved", "changes_requested"},
         NEW to \in {"assigned", "in_progress", "done"},
         NEW u \in MoveTwice(t, via, to)
  PROVE  Lawful(t, u, kept)
<1>1. via \in TaskStatuses /\ to \in TaskStatuses /\ t.status \in TaskStatuses
  BY DEF TaskStatuses, Task
<1>2. /\ u \in Task /\ u.status = to /\ u.assignee = t.assignee
      /\ CanTransition(t.status, via)
  BY <1>1, MoveTwiceFacts
<1>3. t.status = "in_review"
  BY <1>1, <1>2, Sources
<1>4. to \in RestingStatuses
  BY DEF RestingStatuses, TaskStatuses, TransientStatuses
<1>5. QED
  BY <1>2, <1>3, <1>4, HeldIsLawful

LEMMA HandOnLawful ==
  ASSUME NEW t \in Task, NEW kept, NEW stage \in Stage, NEW u \in HandOn(t, stage)
  PROVE  Lawful(t, u, kept)
<1> DEFINE handed == [t EXCEPT !.stage = stage.name, !.assignee = Worker(t, stage),
                               !.reviewers = {}, !.approvals = {}]
<1>1. Worker(t, stage) # Nobody /\ u \in MoveTwice(handed, "approved", "assigned")
  BY DEF HandOn
<1>2. /\ handed \in Task /\ handed.status = t.status
      /\ handed.assignee = Worker(t, stage)
  BY DEF Task, Stage, Actors, Worker
<1>3. "approved" \in TaskStatuses /\ "assigned" \in TaskStatuses /\ t.status \in TaskStatuses
  BY DEF TaskStatuses, Task
<1> HIDE DEF handed
<1>4. /\ u \in Task /\ u.status = "assigned" /\ u.assignee = handed.assignee
      /\ CanTransition(t.status, "approved")
  BY <1>1, <1>2, <1>3, MoveTwiceFacts
<1>5. t.status = "in_review" /\ "assigned" \in RestingStatuses
  BY <1>3, <1>4, Sources DEF RestingStatuses, TaskStatuses, TransientStatuses
<1>6. QED
  BY <1>1, <1>2, <1>4, <1>5 DEF Lawful, Sound, TerminalStatuses

LEMMA ApproveLawful ==
  ASSUME NEW t \in Task, Sound(t), NEW c, GoodContext(c), NEW actor \in Actors, NEW met,
         NEW u \in Approve(t, c, actor, met)
  PROVE  Lawful(t, u, t.approvals \cup {actor})
<1>1. CASE c.policy.kind \in {"direct", "manager", "peer"}
  <2>1. u \in ApproveReview(t, c, actor, met)
    BY <1>1 DEF Approve
  <2>2. QED
    BY <2>1, ApproveReviewLawful
<1>2. CASE c.policy.kind = "quorum"
  <2>1. u \in Gather(t, actor, c.policy.required,
                     ApproveReview(Tallied(t, actor), c, actor, met))
    BY <1>2 DEF Approve
  <2>2. \A v \in ApproveReview(Tallied(t, actor), c, actor, met) :
          Lawful(Tallied(t, actor), v, t.approvals \cup {actor})
    BY TalliedFacts, ApproveReviewLawful
  <2>3. t.status = "in_review" =>
          \A v \in ApproveReview(Tallied(t, actor), c, actor, met) : Lawful(t, v, t.approvals \cup {actor})
    BY <2>2, LawfulAfterTally
  <2>4. QED
    BY <2>1, <2>3, GatherLawful
<1>3. CASE c.policy.kind = "pipeline"
  <2> DEFINE stages == c.policy.stages
  <2>1. PICK i \in Located(t, stages) : u \in SignOffStage(t, actor, stages, i)
    BY <1>3 DEF Approve
  <2> DEFINE after == IF i = Len(stages) THEN MoveTwice(Tallied(t, actor), "approved", "done")
                      ELSE HandOn(Tallied(t, actor), stages[i + 1])
  <2>2. u \in Gather(t, actor, stages[i].required, after)
    BY <2>1 DEF SignOffStage
  <2>3. i = Len(stages) \/ stages[i + 1] \in Stage
    <3>1. stages \in Seq(Stage) /\ i \in 1..Len(stages)
      BY <2>1 DEF GoodContext, Policy, Located
    <3>2. QED
      BY <3>1
  <2>4. \A v \in after : Lawful(Tallied(t, actor), v, t.approvals \cup {actor})
    <3>1. Tallied(t, actor) \in Task /\ Sound(Tallied(t, actor))
      BY TalliedFacts
    <3>2. CASE i = Len(stages)
      BY <3>1, <3>2, MoveTwiceLawful
    <3>3. CASE i # Len(stages)
      BY <2>3, <3>1, <3>3, HandOnLawful
    <3>4. QED
      BY <3>2, <3>3
  <2> HIDE DEF after
  <2>5. t.status = "in_review" => \A v \in after : Lawful(t, v, t.approvals \cup {actor})
    BY <2>4, LawfulAfterTally
  <2>6. QED
    BY <2>2, <2>5, GatherLawful
<1>4. c.policy.kind \in PolicyKinds /\ c.policy.kind \notin {"gate", "automated"}
  BY DEF GoodContext, Policy, Approve
<1>5. QED
  BY <1>1, <1>2, <1>3, <1>4 DEF PolicyKinds

LEMMA RequestChangesLawful ==
  ASSUME NEW t \in Task, Sound(t), NEW kept, NEW c, GoodContext(c), NEW actor,
         NEW u \in RequestChanges(t, c, actor)
  PROVE  Lawful(t, u, kept)
<1>1. CASE c.policy.kind = "pipeline"
  <2>1. PICK i \in Located(t, c.policy.stages) :
          u \in RequestChangesOrEscalate(
                  [t EXCEPT !.assignee = Worker(t, c.policy.stages[i])], actor, Cap(c, 0))
    BY <1>1 DEF RequestChanges
  <2>2. i \in DOMAIN c.policy.stages /\ c.policy.stages[i] \in Stage
    BY <2>1 DEF Located, GoodContext, Policy
  <2>3. /\ Worker(t, c.policy.stages[i]) \in Actors
        /\ t.assignee # Nobody => Worker(t, c.policy.stages[i]) # Nobody
    BY <2>2 DEF Worker, Stage, Task
  <2>4. QED
    BY <2>1, <2>3, RequestChangesOrEscalateLawful
<1>2. CASE c.policy.kind # "pipeline"
  <2>1. \E cap : u \in RequestChangesOrEscalate(t, actor, cap)
    BY <1>2 DEF RequestChanges, GoodContext, Policy, PolicyKinds
  <2>2. QED
    BY <2>1, OwnRequestChangesLawful
<1>3. QED
  BY <1>1, <1>2

-------------------------------------------------------------------------------
(* The remaining events.                                                   *)

LEMMA CheckReportedLawful ==
  ASSUME NEW t \in Task, Sound(t), NEW kept, NEW c, NEW met,
         NEW outcome \in {"passed", "failed", "errored"},
         NEW u \in CheckReported(t, c, outcome, met)
  PROVE  Lawful(t, u, kept)
<1>1. \/ u \in ApproveReview(t, c, Nobody, met)
      \/ u \in RequestChangesOrEscalate(t, Nobody, Cap(c, 0))
      \/ u \in Move(t, "escalated")
  BY DEF CheckReported
<1>2. QED
  BY <1>1, ApproveReviewLawful, OwnRequestChangesLawful, MoveLawful

LEMMA GateDecidedLawful ==
  ASSUME NEW t \in Task, Sound(t), NEW kept, NEW c, NEW decision,
         NEW u \in GateDecided(t, c, decision)
  PROVE  Lawful(t, u, kept)
<1>1. \/ u \in MoveTwice(t, "approved", "done")
      \/ u \in MoveTwice(t, "changes_requested", "in_progress")
  BY DEF GateDecided
<1>2. QED
  BY <1>1, MoveTwiceLawful

LEMMA ReassignLawful ==
  ASSUME NEW t \in Task, Sound(t), NEW kept, NEW to \in Employees,
         NEW u \in Reassign(t, to)
  PROVE  Lawful(t, u, kept)
<1> DEFINE handed == [t EXCEPT !.reviewers = {}, !.approvals = {}, !.assignee = to]
<1>1. handed \in Task /\ handed.status = t.status /\ handed.assignee = to
  BY DEF Task, Actors
<1>2. u \in MoveTwice(handed, "transferred", "assigned")
  BY DEF Reassign
<1>3. /\ "transferred" \in TaskStatuses /\ "assigned" \in TaskStatuses
      /\ t.status \in TaskStatuses
  BY DEF TaskStatuses, Task
<1> HIDE DEF handed
<1>4. /\ u \in Task /\ u.status = "assigned" /\ u.assignee = to
      /\ CanTransition(t.status, "transferred")
  BY <1>1, <1>2, <1>3, MoveTwiceFacts
<1>5. /\ t.status \notin TerminalStatuses
      /\ "assigned" \in RestingStatuses
      /\ to # Nobody
  BY <1>3, <1>4, Sources, EngineConstants
     DEF RestingStatuses, TaskStatuses, TransientStatuses
<1>6. QED
  BY <1>4, <1>5 DEF Lawful, Sound

LEMMA UpdateTaskLawful ==
  ASSUME NEW t \in Task, Sound(t), NEW wanted \in SUBSET Criteria,
         NEW u \in UpdateTask(t, wanted)
  PROVE  Lawful(t, u, t.approvals)
<1>1. t.status \notin TerminalStatuses /\ u = [t EXCEPT !.criteria = wanted]
  BY DEF UpdateTask
<1>2. /\ u \in Task /\ u.status = t.status /\ u.assignee = t.assignee
      /\ u.reviewers = t.reviewers /\ u.approvals = t.approvals
  BY <1>1 DEF Task
<1>3. QED
  BY <1>1, <1>2 DEF Lawful, Sound

-------------------------------------------------------------------------------
(* What the events leave of the checks, the rounds and the list.  An       *)
(* outcome u of an event by `actor`, who claims `met`, is fair when only   *)
(* the actor's own department signed, no round was added that the policy   *)
(* does not allow, and finished work has nothing outstanding.              *)

WithinCap(n, c) ==
  /\ c.policy.kind \in CappedKinds => n <= c.policy.maxIterations
  /\ c.policy.kind = "direct" => n <= CHECK_ROUNDS

\* The policies under which the list is asked about and other departments sign.
AsksForChecks(p) == p.kind \notin {"gate", "pipeline"}

Closed(u, c, met) ==
  AsksForChecks(c.policy) => Outstanding(u, met) = {} /\ PendingCheckers(u, c) = {}

Fair(t, u, c, actor, met) ==
  /\ u.checkedBy \subseteq SignedOffBy(t, actor)
  /\ u.criteria = t.criteria
  /\ u.rounds # t.rounds => WithinCap(u.rounds, c)
  /\ u.status = "done" => Closed(u, c, met)

\* Neither depends on more of the task than this.
LEMMA ClosedDependsOn ==
  ASSUME NEW t, NEW u, NEW c, NEW met,
         u.assignee = t.assignee, u.checkedBy = t.checkedBy, u.criteria = t.criteria,
         Outstanding(t, met) = {}, PendingCheckers(t, c) = {}
  PROVE  Closed(u, c, met)
BY DEF Closed, Outstanding, Owed, PendingCheckers, Eligible

\* An event that touches none of it is fair unless it finishes the work.
LEMMA KeptIsFair ==
  ASSUME NEW t \in Task, NEW u, NEW c, NEW actor, NEW met,
         u.checkedBy = t.checkedBy, u.criteria = t.criteria, u.rounds = t.rounds,
         u.status # "done"
  PROVE  Fair(t, u, c, actor, met)
BY DEF Fair, SignedOffBy

LEMMA MoveFair ==
  ASSUME NEW t \in Task, NEW c, NEW actor, NEW met,
         NEW to \in TaskStatuses \ {"done", "changes_requested"}, NEW u \in Move(t, to)
  PROVE  Fair(t, u, c, actor, met)
BY MoveFacts, KeptIsFair

LEMMA AskForFair ==
  ASSUME NEW t \in Task, NEW c, NEW actor, NEW met,
         NEW choices \in SUBSET SUBSET Employees, NEW u \in SubmitForReview(t, choices)
  PROVE  Fair(t, u, c, actor, met)
BY SubmitForReviewFacts, KeptIsFair

\* A round is added only while the cap allows it.
LEMMA RequestChangesFair ==
  ASSUME NEW t \in Task, NEW c, NEW actor, NEW by, NEW met, NEW cap \in Nat,
         cap # 0 => \A n \in Nat : n <= cap => WithinCap(n, c),
         NEW u \in RequestChangesOrEscalate(t, by, cap)
  PROVE  Fair(t, u, c, actor, met)
<1> DEFINE fresh == [t EXCEPT !.approvals = {}]
<1>1. /\ fresh \in Task /\ fresh.checkedBy = t.checkedBy
      /\ fresh.criteria = t.criteria /\ fresh.rounds = t.rounds
  BY DEF Task
<1>2. /\ cap # 0
      /\ \/ u \in Move(t, "escalated")
         \/ /\ ~(t.rounds + 1 > cap)
            /\ u \in MoveTwice(fresh, "changes_requested", "in_progress")
  BY DEF RequestChangesOrEscalate
<1>3. {"escalated", "changes_requested", "in_progress"} \subseteq TaskStatuses
  BY DEF TaskStatuses
<1> HIDE DEF fresh
<1>4. CASE u \in Move(t, "escalated")
  BY <1>3, <1>4, MoveFair
<1>5. CASE /\ ~(t.rounds + 1 > cap)
           /\ u \in MoveTwice(fresh, "changes_requested", "in_progress")
  <2>1. /\ u.status = "in_progress" /\ u.checkedBy = fresh.checkedBy
        /\ u.criteria = fresh.criteria /\ u.rounds = fresh.rounds + 1
    BY <1>1, <1>3, <1>5, MoveTwiceFacts
  <2>2. t.rounds \in Nat
    BY DEF Task
  <2>3. WithinCap(u.rounds, c)
    BY <1>1, <1>2, <1>5, <2>1, <2>2
  <2>4. QED
    BY <1>1, <2>1, <2>3 DEF Fair, SignedOffBy
<1>6. QED
  BY <1>2, <1>4, <1>5

\* The cap a policy declares is the cap the rounds are held against.
LEMMA CapIsTheCap ==
  ASSUME NEW c, GoodContext(c)
  PROVE  /\ Cap(c, 0) \in Nat
         /\ Cap(c, 0) # 0 => \A n \in Nat : n <= Cap(c, 0) => WithinCap(n, c)
BY DEF Cap, GoodContext, Policy, WithinCap, CappedKinds

LEMMA ApproveReviewFair ==
  ASSUME NEW t \in Task, NEW c, GoodContext(c), NEW actor, NEW met,
         NEW u \in ApproveReview(t, c, actor, met)
  PROVE  Fair(t, u, c, actor, met)
<1> DEFINE signed  == [t EXCEPT !.checkedBy = SignedOffBy(t, actor)]
           pending == PendingCheckers(signed, c)
<1>1. /\ signed \in Task
      /\ signed.checkedBy = SignedOffBy(t, actor)
      /\ signed.criteria = t.criteria /\ signed.rounds = t.rounds
      /\ Outstanding(signed, met) = Outstanding(t, met)
  BY DEF Task, SignedOffBy, Outstanding, Owed
<1>2. {"approved", "done", "in_review"} \subseteq TaskStatuses
  BY DEF TaskStatuses
<1>3. \A e \in pending : e \in Employees
  BY PendingCheckersFacts
<1>4. \/ u \in RequestChangesOrEscalate(t, actor, Cap(c, 0))
      \/ \E m \in Move(signed, "approved") :
            u \in SubmitForReview(m, {{r} : r \in pending})
      \/ /\ Outstanding(t, met) = {} /\ pending = {}
         /\ u \in MoveTwice(signed, "approved", "done")
  BY DEF ApproveReview
<1> HIDE DEF signed
<1>5. CASE u \in RequestChangesOrEscalate(t, actor, Cap(c, 0))
  BY <1>5, CapIsTheCap, RequestChangesFair
<1>6. ASSUME NEW m \in Move(signed, "approved"),
             u \in SubmitForReview(m, {{r} : r \in pending})
      PROVE  Fair(t, u, c, actor, met)
  <2>1. /\ m \in Task /\ m.checkedBy = signed.checkedBy /\ m.criteria = signed.criteria
        /\ m.rounds = signed.rounds
    BY <1>1, <1>2, MoveFacts
  <2>2. {{r} : r \in pending} \in SUBSET SUBSET Employees
    BY <1>3
  <2>3. /\ u.status = "in_review" /\ u.checkedBy = m.checkedBy /\ u.criteria = m.criteria
        /\ u.rounds = m.rounds
    BY <1>6, <2>1, <2>2, SubmitForReviewFacts
  <2>4. QED
    BY <1>1, <2>1, <2>3 DEF Fair
<1>7. CASE /\ Outstanding(t, met) = {} /\ pending = {}
           /\ u \in MoveTwice(signed, "approved", "done")
  <2>1. /\ u.status = "done" /\ u.assignee = signed.assignee
        /\ u.checkedBy = signed.checkedBy /\ u.criteria = signed.criteria
        /\ u.rounds = signed.rounds
    BY <1>1, <1>2, <1>7, MoveTwiceFacts
  <2>2. Closed(u, c, met)
    BY <1>1, <1>7, <2>1, ClosedDependsOn
  <2>3. QED
    BY <1>1, <2>1, <2>2 DEF Fair
<1>8. QED
  BY <1>4, <1>5, <1>6, <1>7

LEMMA SubmitFair ==
  ASSUME NEW t \in Task, NEW c, GoodContext(c), NEW actor, NEW met,
         NEW u \in Submit(t, c, met)
  PROVE  Fair(t, u, c, actor, met)
<1>1. \A e \in Eligible(t, c, Home) : e \in Employees
  BY EligibleFacts DEF GoodContext
<1>2. \A asked \in SupervisorChoices(t, t.assignee) : asked \in SUBSET Employees
  BY SupervisorChoicesFacts
<1>3. ASSUME u \in AskFor(t, {})
      PROVE  Fair(t, u, c, actor, met)
  <2>1. u \in SubmitForReview(t, {{}}) /\ {{}} \in SUBSET SUBSET Employees
    BY <1>3 DEF SubmitForReview
  <2>2. QED
    BY <2>1, AskForFair
<1>4. CASE c.policy.kind = "direct"
  <2>1. u \in SubmitDirect(t, c, met)
    BY <1>4 DEF Submit
  <2>2. CASE u \in SubmitForReview(t, {{r} : r \in PendingCheckers(t, c)})
    <3>1. {{r} : r \in PendingCheckers(t, c)} \in SUBSET SUBSET Employees
      BY PendingCheckersFacts
    <3>2. QED
      BY <2>2, <3>1, AskForFair
  <2>3. CASE /\ Outstanding(t, met) = {} /\ PendingCheckers(t, c) = {}
             /\ u \in Move(t, "done")
    <3>1. /\ u.assignee = t.assignee /\ u.checkedBy = t.checkedBy
          /\ u.criteria = t.criteria /\ u.rounds = t.rounds
      BY <2>3, MoveFacts DEF TaskStatuses
    <3>2. Closed(u, c, met)
      BY <2>3, <3>1, ClosedDependsOn
    <3>3. QED
      BY <3>1, <3>2 DEF Fair, SignedOffBy
  <2>4. QED
    BY <2>1, <2>2, <2>3 DEF SubmitDirect
<1>5. CASE c.policy.kind = "manager"
  BY <1>2, <1>5, AskForFair DEF Submit
<1>6. CASE c.policy.kind = "peer"
  <2>1. u \in SubmitForReview(t, IF Eligible(t, c, Home) # {}
                                 THEN {{p} : p \in Eligible(t, c, Home)}
                                 ELSE SupervisorChoices(t, t.assignee))
    BY <1>6 DEF Submit, AskPeer
  <2>2. QED
    BY <1>1, <1>2, <2>1, AskForFair
<1>7. CASE c.policy.kind = "quorum"
  <2>1. u \in SubmitForReview(t, {rs \in SUBSET Eligible(t, c, Home) :
                                    Cardinality(rs) = c.policy.required})
    BY <1>7 DEF Submit, FormCommittee
  <2>2. QED
    BY <1>1, <2>1, AskForFair
<1>8. CASE c.policy.kind = "gate"
  <2> DEFINE clean == [t EXCEPT !.reviewers = {}, !.approvals = {}]
  <2>1. u \in AskFor(t, {}) \/ u \in Move(clean, "done")
    BY <1>8 DEF Submit, SubmitThroughGate
  <2>2. CASE u \in Move(clean, "done")
    <3>1. /\ clean \in Task /\ clean.checkedBy = t.checkedBy
          /\ clean.criteria = t.criteria /\ clean.rounds = t.rounds
      BY DEF Task
    <3> HIDE DEF clean
    <3>2. /\ u.checkedBy = t.checkedBy /\ u.criteria = t.criteria /\ u.rounds = t.rounds
      BY <2>2, <3>1, MoveFacts DEF TaskStatuses
    <3>3. QED
      BY <1>8, <3>2 DEF Fair, Closed, AsksForChecks, SignedOffBy
  <2>3. QED
    BY <1>3, <2>1, <2>2
<1>9. CASE c.policy.kind = "automated"
  BY <1>3, <1>9 DEF Submit
<1>10. CASE c.policy.kind = "pipeline"
  <2>1. PICK i \in Located(t, c.policy.stages) : u \in EnterStage(t, c.policy.stages[i])
    BY <1>10 DEF Submit
  <2>2. i \in DOMAIN c.policy.stages /\ c.policy.stages[i] \in Stage
    BY <2>1 DEF Located, GoodContext, Policy
  <2> DEFINE stage   == c.policy.stages[i]
             staged  == [t EXCEPT !.stage = stage.name, !.assignee = Worker(t, stage)]
             choices == IF stage.reviewers # {} THEN {stage.reviewers}
                        ELSE SupervisorChoices(t, Worker(t, stage))
  <2>3. u \in SubmitForReview(staged, choices)
    BY <2>1 DEF EnterStage
  <2>4. /\ staged \in Task /\ staged.checkedBy = t.checkedBy
        /\ staged.criteria = t.criteria /\ staged.rounds = t.rounds
    BY <2>2 DEF Task, Stage, Worker
  <2>5. choices \in SUBSET SUBSET Employees
    <3>1. stage.reviewers \in SUBSET Employees
      BY <2>2 DEF Stage
    <3>2. \A asked \in SupervisorChoices(t, Worker(t, stage)) : asked \in SUBSET Employees
      BY SupervisorChoicesFacts
    <3>3. QED
      BY <3>1, <3>2
  <2> HIDE DEF staged, choices, stage
  <2>6. /\ u.status = "in_review" /\ u.checkedBy = t.checkedBy
        /\ u.criteria = t.criteria /\ u.rounds = t.rounds
    BY <2>3, <2>4, <2>5, SubmitForReviewFacts
  <2>7. QED
    BY <2>6, KeptIsFair
<1>11. c.policy.kind \in PolicyKinds
  BY DEF GoodContext, Policy
<1>12. QED
  BY <1>4, <1>5, <1>6, <1>7, <1>8, <1>9, <1>10, <1>11 DEF PolicyKinds

\* Adding to the tally leaves the rest as it was.
LEMMA FairAfterTally ==
  ASSUME NEW t \in Task, NEW actor \in Actors, NEW c, NEW met,
         NEW u, Fair(Tallied(t, actor), u, c, actor, met)
  PROVE  Fair(t, u, c, actor, met)
<1>1. /\ Tallied(t, actor).checkedBy = t.checkedBy
      /\ Tallied(t, actor).criteria = t.criteria
      /\ Tallied(t, actor).rounds = t.rounds
  BY DEF Tallied, Task
<1>2. QED
  BY <1>1 DEF Fair, SignedOffBy

LEMMA ApproveFair ==
  ASSUME NEW t \in Task, NEW c, GoodContext(c), NEW actor \in Actors, NEW met,
         NEW u \in Approve(t, c, actor, met)
  PROVE  Fair(t, u, c, actor, met)
<1>1. CASE c.policy.kind \in {"direct", "manager", "peer"}
  <2>1. u \in ApproveReview(t, c, actor, met)
    BY <1>1 DEF Approve
  <2>2. QED
    BY <2>1, ApproveReviewFair
<1>2. ASSUME t.status = "in_review", u = Tallied(t, actor)
      PROVE  Fair(t, u, c, actor, met)
  BY <1>2, KeptIsFair DEF Tallied, Task
<1>3. CASE c.policy.kind = "quorum"
  <2>1. \/ u \in ApproveReview(Tallied(t, actor), c, actor, met)
        \/ t.status = "in_review" /\ u = Tallied(t, actor)
    BY <1>3 DEF Approve, Gather
  <2>2. QED
    BY <1>2, <2>1, TalliedFacts, ApproveReviewFair, FairAfterTally
<1>4. CASE c.policy.kind = "pipeline"
  <2> DEFINE stages == c.policy.stages
  <2>1. PICK i \in Located(t, stages) : u \in SignOffStage(t, actor, stages, i)
    BY <1>4 DEF Approve
  <2>2. \/ t.status = "in_review" /\ u = Tallied(t, actor)
        \/ u \in MoveTwice(Tallied(t, actor), "approved", "done")
        \/ i # Len(stages) /\ u \in HandOn(Tallied(t, actor), stages[i + 1])
    BY <2>1 DEF SignOffStage, Gather
  <2>3. /\ Tallied(t, actor) \in Task
        /\ Tallied(t, actor).checkedBy = t.checkedBy
        /\ Tallied(t, actor).criteria = t.criteria
        /\ Tallied(t, actor).rounds = t.rounds
    BY TalliedFacts DEF Tallied, Task
  <2>4. CASE u \in MoveTwice(Tallied(t, actor), "approved", "done")
    <3>1. /\ u.checkedBy = t.checkedBy /\ u.criteria = t.criteria /\ u.rounds = t.rounds
      BY <2>3, <2>4, MoveTwiceFacts DEF TaskStatuses
    <3>2. QED
      BY <1>4, <3>1 DEF Fair, Closed, AsksForChecks, SignedOffBy
  <2>5. CASE i # Len(stages) /\ u \in HandOn(Tallied(t, actor), stages[i + 1])
    <3>1. stages[i + 1] \in Stage
      <4>1. stages \in Seq(Stage) /\ i \in 1 .. Len(stages)
        BY <2>1 DEF GoodContext, Policy, Located
      <4>2. QED
        BY <2>5, <4>1
    <3> DEFINE handed == [Tallied(t, actor) EXCEPT !.stage = stages[i + 1].name,
                             !.assignee = Worker(Tallied(t, actor), stages[i + 1]),
                             !.reviewers = {}, !.approvals = {}]
    <3>2. u \in MoveTwice(handed, "approved", "assigned")
      BY <2>5 DEF HandOn
    <3>3. /\ handed \in Task /\ handed.checkedBy = t.checkedBy
          /\ handed.criteria = t.criteria /\ handed.rounds = t.rounds
      BY <2>3, <3>1 DEF Task, Stage, Worker, Actors
    <3> HIDE DEF handed
    <3>4. /\ u.status = "assigned" /\ u.checkedBy = t.checkedBy
          /\ u.criteria = t.criteria /\ u.rounds = t.rounds
      BY <3>2, <3>3, MoveTwiceFacts DEF TaskStatuses
    <3>5. QED
      BY <3>4, KeptIsFair
  <2>6. QED
    BY <1>2, <2>2, <2>4, <2>5
<1>5. c.policy.kind \in PolicyKinds /\ c.policy.kind \notin {"gate", "automated"}
  BY DEF GoodContext, Policy, Approve
<1>6. QED
  BY <1>1, <1>3, <1>4, <1>5 DEF PolicyKinds

LEMMA SentBackFair ==
  ASSUME NEW t \in Task, NEW c, GoodContext(c), NEW actor, NEW by, NEW met,
         NEW u \in RequestChanges(t, c, by)
  PROVE  Fair(t, u, c, actor, met)
<1>1. CASE c.policy.kind = "direct"
  <2>1. u \in RequestChangesOrEscalate(t, by, CHECK_ROUNDS)
    BY <1>1 DEF RequestChanges
  <2>2. CHECK_ROUNDS \in Nat /\ \A n \in Nat : n <= CHECK_ROUNDS => WithinCap(n, c)
    BY <1>1 DEF CHECK_ROUNDS, WithinCap, CappedKinds
  <2>3. QED
    BY <2>1, <2>2, RequestChangesFair
<1>2. CASE c.policy.kind \in {"manager", "peer", "quorum"}
  <2>1. u \in RequestChangesOrEscalate(t, by, Cap(c, 0))
    BY <1>2 DEF RequestChanges
  <2>2. QED
    BY <2>1, CapIsTheCap, RequestChangesFair
<1>3. CASE c.policy.kind = "pipeline"
  <2>1. PICK i \in Located(t, c.policy.stages) :
          u \in RequestChangesOrEscalate(
                  [t EXCEPT !.assignee = Worker(t, c.policy.stages[i])], by, Cap(c, 0))
    BY <1>3 DEF RequestChanges
  <2> DEFINE held == [t EXCEPT !.assignee = Worker(t, c.policy.stages[i])]
  <2>2. c.policy.stages[i] \in Stage
    BY <2>1 DEF Located, GoodContext, Policy
  <2>3. /\ held \in Task /\ held.checkedBy = t.checkedBy
        /\ held.criteria = t.criteria /\ held.rounds = t.rounds
    BY <2>2 DEF Task, Stage, Worker
  <2>4. u \in RequestChangesOrEscalate(held, by, Cap(c, 0))
    BY <2>1
  <2> HIDE DEF held
  <2>5. Fair(held, u, c, actor, met)
    BY <2>3, <2>4, CapIsTheCap, RequestChangesFair
  <2>6. QED
    BY <2>3, <2>5 DEF Fair, SignedOffBy
<1>4. c.policy.kind \in PolicyKinds /\ c.policy.kind \notin {"gate", "automated"}
  BY DEF GoodContext, Policy, RequestChanges
<1>5. QED
  BY <1>1, <1>2, <1>3, <1>4 DEF PolicyKinds

LEMMA CheckReportedFair ==
  ASSUME NEW t \in Task, NEW c, GoodContext(c), NEW met,
         NEW outcome \in {"passed", "failed", "errored"},
         NEW u \in CheckReported(t, c, outcome, met)
  PROVE  Fair(t, u, c, Nobody, met)
<1>1. \/ u \in ApproveReview(t, c, Nobody, met)
      \/ u \in RequestChangesOrEscalate(t, Nobody, Cap(c, 0))
      \/ u \in Move(t, "escalated")
  BY DEF CheckReported
<1>2. "escalated" \in TaskStatuses \ {"done", "changes_requested"}
  BY DEF TaskStatuses
<1>3. QED
  BY <1>1, <1>2, ApproveReviewFair, CapIsTheCap, RequestChangesFair, MoveFair

\* A gate's decision is the owner's: no cap holds it, and nobody checks.
LEMMA GateDecidedFair ==
  ASSUME NEW t \in Task, NEW c, NEW actor, NEW decision, NEW met,
         NEW u \in GateDecided(t, c, decision)
  PROVE  Fair(t, u, c, actor, met)
<1>1. /\ c.policy.kind = "gate"
      /\ \/ u \in MoveTwice(t, "approved", "done")
         \/ u \in MoveTwice(t, "changes_requested", "in_progress")
  BY DEF GateDecided
<1>2. {"approved", "done", "changes_requested", "in_progress"} \subseteq TaskStatuses
  BY DEF TaskStatuses
<1>3. u.checkedBy = t.checkedBy /\ u.criteria = t.criteria
  BY <1>1, <1>2, MoveTwiceFacts
<1>4. QED
  BY <1>1, <1>3 DEF Fair, WithinCap, Closed, AsksForChecks, CappedKinds, SignedOffBy

LEMMA ReassignFair ==
  ASSUME NEW t \in Task, NEW c, NEW actor, NEW met, NEW to \in Employees,
         NEW u \in Reassign(t, to)
  PROVE  Fair(t, u, c, actor, met)
<1> DEFINE handed == [t EXCEPT !.reviewers = {}, !.approvals = {}, !.assignee = to]
<1>1. /\ handed \in Task /\ handed.checkedBy = t.checkedBy
      /\ handed.criteria = t.criteria /\ handed.rounds = t.rounds
  BY DEF Task, Actors
<1>2. u \in MoveTwice(handed, "transferred", "assigned")
  BY DEF Reassign
<1> HIDE DEF handed
<1>3. /\ u.status = "assigned" /\ u.checkedBy = t.checkedBy
      /\ u.criteria = t.criteria /\ u.rounds = t.rounds
  BY <1>1, <1>2, MoveTwiceFacts DEF TaskStatuses
<1>4. QED
  BY <1>3, KeptIsFair
===============================================================================
