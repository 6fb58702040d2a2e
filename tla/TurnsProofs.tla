------------------------------ MODULE TurnsProofs ------------------------------
(***************************************************************************)
(* What holds of an employee's turns in every office, under every policy   *)
(* and whatever goes wrong: the types, and that a consequential call is    *)
(* made on an approval, and once.                                          *)
(***************************************************************************)
EXTENDS Turns, EngineProofs

-------------------------------------------------------------------------------
(* What the office makes of an event is sound again.                       *)

LEMMA ContextIsGood == GoodContext(ctx)
BY PolicyConstants, TurnConstants DEF GoodContext, WellFormed, ctx

LEMMA OutcomeIsSound ==
  ASSUME Sound(task), NEW event \in TurnEvents, NEW actor \in Actors,
         NEW u \in Outcome(event, actor)
  PROVE  Sound(u)
<1>1. task \in Task
  BY DEF Sound
<1>2. CASE event = "start"
  <2>1. u \in Move(task, "in_progress")
    BY <1>2 DEF Outcome, Start
  <2>2. QED
    BY <1>1, <2>1, MoveLawful DEF Lawful
<1>3. CASE event = "submit"
  <2>1. u \in Submit(task, ctx, {})
    BY <1>3 DEF Outcome
  <2>2. QED
    BY <1>1, <2>1, ContextIsGood, SubmitLawful DEF Lawful
<1>4. CASE event = "await_decision"
  <2>1. u \in Move(task, "blocked")
    BY <1>4 DEF Outcome, AwaitDecision
  <2>2. QED
    BY <1>1, <2>1, MoveLawful DEF Lawful
<1>5. CASE event = "approve"
  <2>1. u \in Approve(task, ctx, actor, {})
    BY <1>5 DEF Outcome
  <2>2. QED
    BY <1>1, <2>1, ContextIsGood, ApproveLawful DEF Lawful
<1>6. CASE event = "request_changes"
  <2>1. u \in RequestChanges(task, ctx, actor)
    BY <1>6 DEF Outcome
  <2>2. QED
    BY <1>1, <2>1, ContextIsGood, RequestChangesLawful DEF Lawful
<1>7. QED
  BY <1>2, <1>3, <1>4, <1>5, <1>6 DEF TurnEvents

LEMMA MoveIsSound ==
  ASSUME Sound(task), NEW move \in Moves, NEW u \in MovedBy(move)
  PROVE  Sound(u)
<1>1. task \in Task
  BY DEF Sound
<1>2. CASE move \in {"cancel", "block", "unblock"}
  <2>1. \E to \in {"cancelled", "blocked", "in_progress"} : u \in Move(task, to)
    BY <1>2 DEF MovedBy, Cancel, Block, Unblock
  <2>2. QED
    BY <1>1, <2>1, MoveLawful DEF Lawful
<1>3. CASE move = "reassign"
  <2>1. \E e \in Employees : u \in Reassign(task, e)
    BY <1>3 DEF MovedBy
  <2>2. QED
    BY <1>1, <2>1, ReassignLawful DEF Lawful
<1>4. CASE move = "review"
  <2>1. \/ u \in Approve(task, ctx, Nobody, {})
        \/ u \in RequestChanges(task, ctx, Nobody)
    BY <1>4 DEF MovedBy
  <2>2. Nobody \in Actors
    BY DEF Actors
  <2>3. QED
    BY <1>1, <2>1, <2>2, ContextIsGood, ApproveLawful, RequestChangesLawful DEF Lawful
<1>5. QED
  BY <1>2, <1>3, <1>4 DEF Moves

LEMMA CallDecidedIsSound ==
  ASSUME Sound(task), NEW u \in CallDecided(task)
  PROVE  Sound(u)
<1>1. task \in Task /\ u \in Move(task, "in_progress")
  BY DEF Sound, CallDecided
<1>2. QED
  BY <1>1, MoveLawful DEF Lawful

-------------------------------------------------------------------------------
(* The invariant.  CallsAreSound is not inductive: that a call is approved *)
(* when it is made rests on what the turn read of the decisions, and that  *)
(* it is made once rests on where a run that is still held may be found.   *)

\* The office's own state.
OfficeFits ==
  /\ Sound(task)
  /\ {revision, calls, faults, attempt} \subseteq Nat
  /\ saved \in Run \cup {NoRun}
  /\ decided \in SUBSET Decisions

\* A job that waits has an attempt left, and the one the worker holds is held.
JobsFit ==
  /\ jobs \in [DOMAIN jobs -> Job] /\ DOMAIN jobs \subseteq Keys
  /\ \A k \in DOMAIN jobs :
       /\ jobs[k].state = "held" <=> turn # NoTurn /\ turn.key = k
       /\ jobs[k].attempts <= MaxAttempts
       /\ jobs[k].state = "waiting" => jobs[k].attempts < MaxAttempts

TurnFits == turn # NoTurn => turn \in Turn /\ turn.key \in DOMAIN jobs

HasRun == turn # NoTurn /\ turn.pc \in {"running", "saving", "posting"}
Saving == turn # NoTurn /\ turn.pc = "saving"

\* A turn that has got so far is having a conversation, and one whose last step
\* is being written down has just got its call answered.
TurnsHaveRuns == (HasRun => turn.run \in Run) /\ (Saving => turn.run.state = "answered")

\* Whatever says a call is approved, the office or a turn that read it there,
\* somebody did approve it.
ApprovedIn(S) == \A d \in S : d[2] = "approved" => d[1] \in approved

ApprovalsAreReal == ApprovedIn(decided) /\ (turn # NoTurn => ApprovedIn(turn.known))

\* The next call's name was never used.
NamesAreFresh ==
  /\ \A p \in performed : p[1] \in Nat /\ p[1] <= calls
  /\ saved # NoRun => saved.id <= calls
  /\ HasRun => turn.run.id <= calls

Performed(call) == \E p \in performed : p[1] = call

\* A run that is held at a call that was made stands where the result was never
\* written down, or where it is just about to be.
HeldBeforeItsCall ==
  /\ saved # NoRun /\ saved.state = "held" /\ Performed(saved.id) =>
       saved.id \in unsaved \/ (Saving /\ turn.run.id = saved.id)
  /\ HasRun /\ turn.run.state = "held" /\ Performed(turn.run.id) => turn.run.id \in unsaved

CallsInv ==
  /\ ApprovalsAreReal /\ NamesAreFresh /\ HeldBeforeItsCall
  /\ GatedCallsAreApproved /\ CallsRunOnce

IInv == OfficeFits /\ JobsFit /\ TurnFits /\ TurnsHaveRuns /\ CallsInv

LEMMA IInvIsTyped == IInv => TypeOK
BY DEF IInv, OfficeFits, JobsFit, TurnFits, TypeOK, Sound

-------------------------------------------------------------------------------
(* The jobs.                                                               *)

LEMMA JobsKept ==
  ASSUME JobsFit, UNCHANGED jobs, turn # NoTurn, turn' # NoTurn, turn'.key = turn.key
  PROVE  JobsFit'
BY DEF JobsFit

\* However a turn ends, its job is no longer held.
LEMMA JobReleased ==
  ASSUME JobsFit, TurnFits, turn # NoTurn, turn' = NoTurn, Failed(turn.key) \/ Finished(turn.key)
  PROVE  JobsFit'
<1> DEFINE k == turn.key
<1>1. PICK s \in {"waiting", "dead", "done"} :
        /\ jobs' = [jobs EXCEPT ![k].state = s]
        /\ s = "waiting" => ~(jobs[k].attempts >= MaxAttempts)
  BY DEF Failed, Finished
<1>2. k \in DOMAIN jobs /\ jobs[k] \in Job
  BY DEF JobsFit, TurnFits
<1>3. DOMAIN jobs' = DOMAIN jobs
  BY <1>1
<1>4. jobs[k].attempts \in Nat /\ MaxAttempts \in Nat
  BY <1>2, TurnConstants DEF Job
<1>5. ASSUME NEW j \in DOMAIN jobs
      PROVE  /\ jobs'[j] \in Job
             /\ jobs'[j].state # "held"
             /\ jobs'[j].attempts <= MaxAttempts
             /\ jobs'[j].state = "waiting" => jobs'[j].attempts < MaxAttempts
  <2>1. CASE j = k
    <3>1. jobs'[j] = [jobs[k] EXCEPT !.state = s]
      BY <1>1, <1>2, <2>1
    <3>2. /\ jobs'[j].state = s /\ jobs'[j].attempts = jobs[k].attempts
          /\ jobs'[j] \in Job
      BY <1>2, <3>1 DEF Job
    <3>3. jobs[k].attempts <= MaxAttempts
      BY <1>2 DEF JobsFit
    <3>4. QED
      BY <1>1, <1>4, <3>2, <3>3
  <2>2. CASE j # k
    <3>1. jobs'[j] = jobs[j]
      BY <1>1, <2>2
    <3>2. jobs[j].state # "held"
      BY <2>2 DEF JobsFit
    <3>3. QED
      BY <3>1, <3>2 DEF JobsFit
  <2>3. QED
    BY <2>1, <2>2
<1>6. jobs' \in [DOMAIN jobs' -> Job]
  BY <1>1, <1>3, <1>5
<1>7. QED
  BY <1>3, <1>5, <1>6 DEF JobsFit

LEMMA TurnGoesOn ==
  ASSUME JobsFit, TurnFits, turn # NoTurn, UNCHANGED jobs, turn' \in Turn, turn'.key = turn.key
  PROVE  JobsFit' /\ TurnFits' /\ turn' # NoTurn
<1>1. turn' # NoTurn
  BY TurnConstants
<1>2. QED
  BY <1>1, JobsKept DEF TurnFits

LEMMA FewFaults ==
  ASSUME faults \in Nat, NEW kind, Fault(kind)
  PROVE  faults' \in Nat
BY DEF Fault

-------------------------------------------------------------------------------
(* The calls: what an action must leave alone for the invariant to hold.   *)

\* Nothing the invariant reads of the office changes, and the turn's run does not
\* either, or there is no turn any more.
LEMMA CallsKept ==
  ASSUME CallsInv,
         UNCHANGED <<saved, decided, approved, calls, performed, unsaved>>,
         UNCHANGED turn \/ (turn' = NoTurn /\ ~Saving)
  PROVE  CallsInv'
<1>1. CASE UNCHANGED turn
  BY <1>1 DEF CallsInv, ApprovalsAreReal, ApprovedIn, NamesAreFresh, HeldBeforeItsCall,
              Performed, Saving, HasRun, GatedCallsAreApproved, CallsRunOnce
<1>2. CASE turn' = NoTurn /\ ~Saving
  BY <1>2 DEF CallsInv, ApprovalsAreReal, ApprovedIn, NamesAreFresh, HeldBeforeItsCall,
              Performed, Saving, HasRun, GatedCallsAreApproved, CallsRunOnce
<1>3. QED
  BY <1>1, <1>2

\* The office forgets what an attempt wrote down, or keeps it.
LEMMA CallsCleared ==
  ASSUME CallsInv,
         UNCHANGED <<approved, calls, performed, unsaved>>,
         (saved' = NoRun /\ decided' = {}) \/ UNCHANGED <<saved, decided>>,
         \/ UNCHANGED turn
         \/ turn' = NoTurn /\ ~Saving
         \/ /\ turn # NoTurn /\ turn' # NoTurn /\ turn.pc = "posting" /\ turn'.pc = "posting"
            /\ turn'.run = turn.run /\ turn'.known = turn.known
  PROVE  CallsInv'
<1>1. saved' = NoRun \/ saved' = saved
  OBVIOUS
<1>2. decided' = {} \/ decided' = decided
  OBVIOUS
<1>3. ApprovalsAreReal'
  BY <1>2 DEF CallsInv, ApprovalsAreReal, ApprovedIn
<1>4. NamesAreFresh'
  BY <1>1 DEF CallsInv, NamesAreFresh, HasRun
<1>5. HeldBeforeItsCall'
  BY <1>1 DEF CallsInv, HeldBeforeItsCall, Performed, Saving, HasRun
<1>6. QED
  BY <1>3, <1>4, <1>5 DEF CallsInv, GatedCallsAreApproved, CallsRunOnce

-------------------------------------------------------------------------------
(* The scheduler and the queue.                                            *)

LEMMA ScheduleKeeps ==
  ASSUME IInv, Schedule
  PROVE  IInv'
<1>1. /\ turn = NoTurn /\ turn' = NoTurn
      /\ UNCHANGED <<office, calls, faults, performed, unsaved>>
  BY DEF Schedule
<1>2. PICK due \in Due :
        /\ Key(due[1]) \notin DOMAIN jobs
        /\ jobs' = With(Key(due[1]), [state |-> "waiting", employee |-> due[2], attempts |-> 0])
  BY DEF Schedule
<1> DEFINE k   == Key(due[1])
           job == [state |-> "waiting", employee |-> due[2], attempts |-> 0]
<1>3. due[1] \in {RUN, REVIEW} /\ due[2] \in Employees
  <2>1. \/ due \in {<<REVIEW, e>> : e \in FirstOf(task.reviewers)}
        \/ task.status \in {"assigned", "in_progress"} /\ due = <<RUN, task.assignee>>
    BY DEF Due
  <2>2. FirstOf(task.reviewers) \subseteq Employees
    BY DEF FirstOf, IInv, OfficeFits, Sound, Task
  <2>3. task.status \in {"assigned", "in_progress"} => task.assignee \in Employees
    BY DEF IInv, OfficeFits, Sound, Task, Actors
  <2>4. QED
    BY <2>1, <2>2, <2>3
<1>4. k \in Keys /\ job \in Job
  BY <1>3 DEF Key, Keys, Job, IInv, OfficeFits
<1>5. JobsFit'
  <2> HIDE DEF k, job
  <2>1. /\ DOMAIN jobs' = DOMAIN jobs \cup {k}
        /\ jobs'[k] = job
        /\ \A j \in DOMAIN jobs : j # k => jobs'[j] = jobs[j]
    BY <1>2 DEF With, k, job
  <2>2. k \notin DOMAIN jobs
    BY <1>2 DEF k
  <2>3. \A j \in DOMAIN jobs' : jobs'[j] \in Job
    BY <1>4, <2>1, <2>2 DEF IInv, JobsFit
  <2>4. jobs' \in [DOMAIN jobs' -> Job]
    BY <1>2, <2>3 DEF With
  <2>5. job.state = "waiting" /\ job.attempts = 0 /\ 0 < MaxAttempts /\ 0 <= MaxAttempts
    BY TurnConstants DEF job
  <2>6. \A j \in DOMAIN jobs' :
          /\ jobs'[j].state # "held"
          /\ jobs'[j].attempts <= MaxAttempts
          /\ jobs'[j].state = "waiting" => jobs'[j].attempts < MaxAttempts
    BY <1>1, <2>1, <2>2, <2>5 DEF IInv, JobsFit
  <2>7. DOMAIN jobs' \subseteq Keys
    BY <1>4, <2>1 DEF IInv, JobsFit
  <2>8. QED
    BY <1>1, <2>4, <2>6, <2>7 DEF JobsFit
<1>6. CallsInv'
  BY <1>1, CallsKept DEF IInv, office
<1>7. QED
  BY <1>1, <1>5, <1>6 DEF IInv, OfficeFits, Sound, TurnFits, TurnsHaveRuns, HasRun, Saving, office

LEMMA ForgetKeeps ==
  ASSUME IInv, Forget
  PROVE  IInv'
<1>1. UNCHANGED <<office, turn, calls, faults, performed, unsaved>>
  BY DEF Forget
<1>2. PICK k \in DOMAIN jobs :
        jobs[k].state = "done" /\ jobs' = [x \in DOMAIN jobs \ {k} |-> jobs[x]]
  BY DEF Forget, Forgettable
<1>3. /\ DOMAIN jobs' = DOMAIN jobs \ {k}
      /\ \A j \in DOMAIN jobs' : jobs'[j] = jobs[j]
      /\ jobs' \in [DOMAIN jobs' -> Job]
  BY <1>2 DEF IInv, JobsFit
<1>4. JobsFit'
  BY <1>1, <1>3 DEF IInv, JobsFit
<1>5. TurnFits'
  BY <1>1, <1>2, <1>3 DEF IInv, TurnFits, JobsFit
<1>6. CallsInv'
  BY <1>1, CallsKept DEF IInv, office
<1>7. QED
  BY <1>1, <1>4, <1>5, <1>6 DEF IInv, OfficeFits, Sound, TurnsHaveRuns, HasRun, Saving, office

LEMMA TakeKeeps ==
  ASSUME IInv, Take
  PROVE  IInv'
<1>1. turn = NoTurn /\ UNCHANGED <<office, calls, faults, performed, unsaved>>
  BY DEF Take
<1>2. PICK k \in DOMAIN jobs :
        /\ jobs[k].state = "waiting"
        /\ jobs' = [jobs EXCEPT ![k].state = "held", ![k].attempts = @ + 1]
        /\ turn' = [key |-> k, kind |-> k[1], actor |-> jobs[k].employee, pc |-> "asking",
                    seen |-> task.status, attempt |-> attempt, known |-> {},
                    run |-> NoRun, events |-> << >>]
  BY DEF Take
<1>3. /\ k \in Keys /\ jobs[k] \in Job /\ jobs[k].attempts < MaxAttempts
      /\ jobs[k].attempts \in Nat /\ MaxAttempts \in Nat
  BY <1>2, TurnConstants DEF IInv, JobsFit, Job
<1>4. turn' \in Turn
  BY <1>2, <1>3 DEF Turn, Keys, Job, IInv, OfficeFits, Sound, Task
<1>5. turn' # NoTurn
  BY <1>4, TurnConstants
<1>6. JobsFit'
  <2>1. DOMAIN jobs' = DOMAIN jobs
    BY <1>2
  <2> DEFINE held == [jobs[k] EXCEPT !.state = "held"]
  <2>2. /\ held \in Job /\ held.state = "held" /\ held.attempts = jobs[k].attempts
        /\ jobs'[k] = [held EXCEPT !.attempts = jobs[k].attempts + 1]
    BY <1>2, <1>3 DEF Job
  <2> HIDE DEF held
  <2>3. /\ jobs'[k].state = "held" /\ jobs'[k].attempts = jobs[k].attempts + 1
        /\ jobs'[k] \in Job
    BY <1>3, <2>2 DEF Job
  <2>4. \A j \in DOMAIN jobs : j # k => jobs'[j] = jobs[j]
    BY <1>2
  <2>5. \A j \in DOMAIN jobs' : jobs'[j] \in Job
    BY <2>1, <2>3, <2>4 DEF IInv, JobsFit
  <2>6. jobs' \in [DOMAIN jobs' -> Job]
    BY <1>2, <2>1, <2>5
  <2>7. \A j \in DOMAIN jobs' :
          /\ jobs'[j].state = "held" <=> j = k
          /\ jobs'[j].attempts <= MaxAttempts
          /\ jobs'[j].state = "waiting" => jobs'[j].attempts < MaxAttempts
    BY <1>1, <1>3, <2>1, <2>3, <2>4 DEF IInv, JobsFit
  <2>8. turn'.key = k
    BY <1>2
  <2>9. QED
    BY <1>5, <2>1, <2>6, <2>7, <2>8 DEF IInv, JobsFit
<1>7. TurnFits'
  BY <1>2, <1>4 DEF TurnFits
<1>8. turn'.pc = "asking" /\ turn'.known = {}
  BY <1>2
<1>9. CallsInv'
  BY <1>1, <1>8 DEF IInv, CallsInv, ApprovalsAreReal, ApprovedIn, NamesAreFresh,
                    HeldBeforeItsCall, Performed, Saving, HasRun, GatedCallsAreApproved,
                    CallsRunOnce, office
<1>10. QED
  BY <1>1, <1>6, <1>7, <1>8, <1>9
     DEF IInv, OfficeFits, Sound, TurnsHaveRuns, HasRun, Saving, office

LEMMA UnreadKeeps ==
  ASSUME IInv, Unread
  PROVE  IInv'
<1>1. /\ turn # NoTurn /\ turn.pc = "asking" /\ turn' = NoTurn
      /\ Failed(turn.key) /\ Fault("load")
      /\ UNCHANGED <<office, calls, performed, unsaved>>
  BY DEF Unread
<1>2. JobsFit'
  BY <1>1, JobReleased DEF IInv
<1>3. CallsInv'
  BY <1>1, CallsKept DEF IInv, office, Saving
<1>4. faults' \in Nat
  BY <1>1, FewFaults DEF IInv, OfficeFits
<1>5. QED
  BY <1>1, <1>2, <1>3, <1>4
     DEF IInv, OfficeFits, Sound, TurnFits, TurnsHaveRuns, HasRun, Saving, office

LEMMA DoneKeeps ==
  ASSUME IInv, Done
  PROVE  IInv'
<1>1. /\ turn # NoTurn /\ turn.pc = "posting" /\ turn' = NoTurn /\ Finished(turn.key)
      /\ UNCHANGED <<office, calls, faults, performed, unsaved>>
  BY DEF Done, Posting
<1>2. JobsFit'
  BY <1>1, JobReleased DEF IInv
<1>3. CallsInv'
  BY <1>1, CallsKept DEF IInv, office, Saving
<1>4. QED
  BY <1>1, <1>2, <1>3
     DEF IInv, OfficeFits, Sound, TurnFits, TurnsHaveRuns, HasRun, Saving, office

LEMMA RestartKeeps ==
  ASSUME IInv, Restart
  PROVE  IInv'
<1>1. /\ turn' = NoTurn /\ jobs' = [k \in {} |-> 0] /\ Fault("restart")
      /\ UNCHANGED <<office, calls, performed>>
      /\ unsaved \subseteq unsaved'
      /\ Saving => turn.run.id \in unsaved'
  BY DEF Restart, Saving
<1>2. JobsFit'
  BY <1>1 DEF JobsFit
<1>3. faults' \in Nat
  BY <1>1, FewFaults DEF IInv, OfficeFits
<1>4. CallsInv'
  BY <1>1 DEF IInv, CallsInv, ApprovalsAreReal, ApprovedIn, NamesAreFresh, HeldBeforeItsCall,
              Performed, Saving, HasRun, GatedCallsAreApproved, CallsRunOnce, office
<1>5. QED
  BY <1>1, <1>2, <1>3, <1>4
     DEF IInv, OfficeFits, Sound, TurnFits, TurnsHaveRuns, HasRun, Saving, office

-------------------------------------------------------------------------------
(* A turn, step by step.                                                   *)

LEMMA ReadDecisionsKeeps ==
  ASSUME IInv, ReadDecisions
  PROVE  IInv'
<1>1. /\ turn # NoTurn /\ turn.pc = "asking"
      /\ UNCHANGED <<office, jobs, calls, performed, unsaved>>
      /\ UNCHANGED faults \/ Fault("load")
  BY DEF ReadDecisions
<1>2. turn \in Turn
  BY <1>1 DEF IInv, TurnFits
<1>3. PICK known \in {decided, turn.known} :
        turn' = [turn EXCEPT !.pc = "loading", !.known = known]
  <2>1. CASE turn' = [turn EXCEPT !.pc = "loading", !.known = decided]
    BY <2>1
  <2>2. CASE turn' = [turn EXCEPT !.pc = "loading"]
    <3>1. turn' = [turn EXCEPT !.pc = "loading", !.known = turn.known]
      BY <1>2, <2>2 DEF Turn
    <3>2. QED
      BY <3>1
  <2>3. QED
    BY <2>1, <2>2 DEF ReadDecisions
<1>4. known \in SUBSET Decisions
  BY <1>2 DEF Turn, IInv, OfficeFits
<1>5. turn' \in Turn /\ turn'.key = turn.key /\ turn'.pc = "loading" /\ turn'.known = known
  BY <1>2, <1>3, <1>4 DEF Turn
<1>6. JobsFit' /\ TurnFits' /\ turn' # NoTurn
  BY <1>1, <1>5, TurnGoesOn DEF IInv
<1>7. faults' \in Nat
  BY <1>1, FewFaults DEF IInv, OfficeFits
<1>8. CallsInv'
  BY <1>1, <1>5, <1>3
     DEF IInv, CallsInv, ApprovalsAreReal, ApprovedIn, NamesAreFresh, HeldBeforeItsCall,
         Performed, Saving, HasRun, GatedCallsAreApproved, CallsRunOnce, office
<1>9. QED
  BY <1>1, <1>5, <1>6, <1>7, <1>8 DEF IInv, OfficeFits, Sound, TurnsHaveRuns, HasRun, Saving, office

\* A turn that goes on with a run, in the office as it was.
LEMMA RunTaken ==
  ASSUME IInv, turn # NoTurn, ~Saving, UNCHANGED <<office, jobs, calls, performed, unsaved>>,
         faults' \in Nat, turn' \in Turn, turn'.key = turn.key, turn'.known = turn.known,
         turn'.run \in Run, turn'.run.id <= calls,
         turn'.pc = "saving" => turn'.run.state = "answered",
         turn'.run.state = "held" /\ Performed(turn'.run.id) => turn'.run.id \in unsaved
  PROVE  IInv'
<1>1. JobsFit' /\ TurnFits' /\ turn' # NoTurn
  BY TurnGoesOn DEF IInv
<1>2. TurnsHaveRuns'
  BY DEF TurnsHaveRuns, HasRun, Saving
<1>3. ApprovalsAreReal'
  BY DEF IInv, CallsInv, ApprovalsAreReal, ApprovedIn, office
<1>4. NamesAreFresh'
  BY DEF IInv, CallsInv, NamesAreFresh, HasRun, office
<1>5. HeldBeforeItsCall'
  BY DEF IInv, CallsInv, HeldBeforeItsCall, HasRun, Saving, Performed, office
<1>6. GatedCallsAreApproved' /\ CallsRunOnce'
  BY DEF IInv, CallsInv, GatedCallsAreApproved, CallsRunOnce, office
<1>7. OfficeFits'
  BY DEF IInv, OfficeFits, Sound, office
<1>8. QED
  BY <1>1, <1>2, <1>3, <1>4, <1>5, <1>6, <1>7 DEF IInv, CallsInv

LEMMA BeginKeeps ==
  ASSUME IInv, Begin
  PROVE  IInv'
<1> DEFINE new == [kind |-> turn.kind, by |-> turn.actor, attempt |-> turn.attempt,
                   id |-> 0, state |-> "underway", answer |-> "nothing"]
<1>1. /\ turn # NoTurn /\ turn.pc = "loading"
      /\ UNCHANGED <<office, jobs, calls, performed, unsaved>>
      /\ UNCHANGED faults \/ Fault("load")
      /\ turn' = [turn EXCEPT !.pc = "running", !.run = new]
  BY DEF Begin, Loading
<1>2. turn \in Turn /\ faults' \in Nat /\ 0 <= calls
  BY <1>1, FewFaults DEF IInv, TurnFits, OfficeFits
<1>3. new \in Run /\ new.state = "underway" /\ new.id = 0
  BY <1>2 DEF Run, Turn
<1> HIDE DEF new
<1>4. /\ turn' \in Turn /\ turn'.key = turn.key /\ turn'.known = turn.known
      /\ turn'.run = new /\ turn'.pc = "running"
  BY <1>1, <1>2, <1>3 DEF Turn
<1>5. QED
  BY <1>1, <1>2, <1>3, <1>4, RunTaken DEF Saving

LEMMA ResumeKeeps ==
  ASSUME IInv, Resume
  PROVE  IInv'
<1>1. /\ turn # NoTurn /\ turn.pc = "loading" /\ saved # NoRun
      /\ UNCHANGED <<office, jobs, calls, faults, performed, unsaved>>
      /\ turn' = [turn EXCEPT !.pc = "running", !.run = saved]
  BY DEF Resume, Loading
<1>2. turn \in Turn /\ faults' \in Nat /\ saved \in Run
  BY <1>1 DEF IInv, TurnFits, OfficeFits
<1>3. /\ turn' \in Turn /\ turn'.key = turn.key /\ turn'.known = turn.known
      /\ turn'.run = saved /\ turn'.pc = "running"
  BY <1>1, <1>2 DEF Turn
<1>4. /\ saved.id <= calls
      /\ saved.state = "held" /\ Performed(saved.id) => saved.id \in unsaved
  BY <1>1 DEF IInv, CallsInv, NamesAreFresh, HeldBeforeItsCall, Saving
<1>5. QED
  BY <1>1, <1>2, <1>3, <1>4, RunTaken DEF Saving

\* What a turn reports are events.
LEMMA ReportsAreEvents ==
  ASSUME NEW t, NEW answer
  PROVE  /\ Report(t, answer) \in Seq(TurnEvents)
         /\ Starting(t) \in Seq(TurnEvents)
         /\ Starting(t) \o <<"await_decision">> \in Seq(TurnEvents)
<1>1. Starting(t) \in Seq(TurnEvents)
  <2>1. <<"start">> \in Seq(TurnEvents)
    BY DEF TurnEvents
  <2>2. << >> \in Seq(TurnEvents)
    OBVIOUS
  <2>3. QED
    BY <2>1, <2>2, Zenon DEF Starting
<1>2. /\ <<"submit">> \in Seq(TurnEvents) /\ <<"approve">> \in Seq(TurnEvents)
      /\ <<"request_changes">> \in Seq(TurnEvents) /\ <<"await_decision">> \in Seq(TurnEvents)
  BY DEF TurnEvents
<1>3. \A more \in Seq(TurnEvents) : Starting(t) \o more \in Seq(TurnEvents)
  BY <1>1
<1>4. QED
  BY <1>1, <1>2, <1>3 DEF Report

\* A turn that begins to report.
LEMMA ReportingTurn ==
  ASSUME turn \in Turn, NEW run \in Run, NEW events \in Seq(TurnEvents)
  PROVE  /\ Reporting(run, events) \in Turn
         /\ Reporting(run, events).key = turn.key
         /\ Reporting(run, events).known = turn.known
         /\ Reporting(run, events).pc = "posting"
         /\ Reporting(run, events).run = run
<1> DEFINE going == [turn EXCEPT !.pc = "posting", !.run = run]
<1>1. going \in Turn /\ going.key = turn.key /\ going.known = turn.known
      /\ going.pc = "posting" /\ going.run = run
  BY DEF Turn
<1>2. Reporting(run, events) = [going EXCEPT !.events = events]
  BY DEF Reporting
<1> HIDE DEF going
<1>3. QED
  BY <1>1, <1>2 DEF Turn

LEMMA ReplayKeeps ==
  ASSUME IInv, Replay
  PROVE  IInv'
<1>1. /\ turn # NoTurn /\ turn.pc = "loading" /\ saved # NoRun /\ saved.state = "finished"
      /\ UNCHANGED <<office, jobs, calls, faults, performed, unsaved>>
      /\ turn' = Reporting(saved, Report(turn, saved.answer))
  BY DEF Replay, Loading
<1>2. turn \in Turn /\ faults' \in Nat /\ saved \in Run
  BY <1>1 DEF IInv, TurnFits, OfficeFits
<1>3. /\ turn' \in Turn /\ turn'.key = turn.key /\ turn'.known = turn.known
      /\ turn'.run = saved /\ turn'.pc = "posting"
  BY <1>1, <1>2, ReportsAreEvents, ReportingTurn
<1>4. saved.id <= calls
  BY <1>1 DEF IInv, CallsInv, NamesAreFresh
<1>5. QED
  BY <1>1, <1>2, <1>3, <1>4, RunTaken DEF Saving

\* A run that ends, or stops, is written down or not, and the turn reports.
LEMMA RunEnds ==
  ASSUME IInv, turn # NoTurn, turn.pc = "running",
         UNCHANGED <<task, revision, decided, attempt, approved, jobs, performed, unsaved>>,
         faults' \in Nat, calls' \in Nat, calls <= calls',
         turn' \in Turn, turn'.key = turn.key, turn'.known = turn.known,
         turn'.pc = "posting", turn'.run \in Run, turn'.run.id <= calls',
         turn'.run.state = "held" /\ Performed(turn'.run.id) => turn'.run.id \in unsaved,
         saved' = turn'.run \/ saved' = saved
  PROVE  IInv'
<1>1. JobsFit' /\ TurnFits' /\ turn' # NoTurn
  BY TurnGoesOn DEF IInv
<1>2. TurnsHaveRuns'
  BY DEF TurnsHaveRuns, HasRun, Saving
<1>3. ApprovalsAreReal'
  BY DEF IInv, CallsInv, ApprovalsAreReal, ApprovedIn
<1>4. NamesAreFresh'
  <2>1. \A n \in Nat : n <= calls => n <= calls'
    BY DEF IInv, OfficeFits
  <2>2. \A p \in performed' : p[1] \in Nat /\ p[1] <= calls'
    BY <2>1 DEF IInv, CallsInv, NamesAreFresh
  <2>3. saved' # NoRun => saved'.id <= calls'
    <3>1. saved # NoRun => saved.id \in Nat /\ saved.id <= calls
      BY DEF IInv, CallsInv, NamesAreFresh, OfficeFits, Run
    <3>2. QED
      BY <2>1, <3>1
  <2>4. QED
    BY <2>2, <2>3 DEF NamesAreFresh, HasRun
<1>5. HeldBeforeItsCall'
  BY DEF IInv, CallsInv, HeldBeforeItsCall, HasRun, Saving, Performed
<1>6. GatedCallsAreApproved' /\ CallsRunOnce'
  BY DEF IInv, CallsInv, GatedCallsAreApproved, CallsRunOnce
<1>7. OfficeFits'
  BY DEF IInv, OfficeFits, Sound
<1>8. QED
  BY <1>1, <1>2, <1>3, <1>4, <1>5, <1>6, <1>7 DEF IInv, CallsInv

LEMMA KeptOrNot ==
  ASSUME faults \in Nat, NEW checkpoint, Keep(checkpoint)
  PROVE  faults' \in Nat /\ (saved' = checkpoint \/ saved' = saved)
BY FewFaults DEF Keep

LEMMA RunsAreKnown ==
  ASSUME IInv, turn # NoTurn, turn.pc \in {"running", "saving", "posting"}
  PROVE  /\ turn \in Turn /\ turn.run \in Run /\ turn.run.id <= calls
         /\ turn.run.state = "held" /\ Performed(turn.run.id) => turn.run.id \in unsaved
         /\ calls \in Nat /\ faults \in Nat
BY DEF IInv, OfficeFits, TurnFits, TurnsHaveRuns, HasRun, CallsInv, NamesAreFresh,
       HeldBeforeItsCall

LEMMA HoldKeeps ==
  ASSUME IInv, Hold
  PROVE  IInv'
<1> DEFINE held == [turn.run EXCEPT !.state = "held", !.id = Named]
<1>1. /\ turn # NoTurn /\ turn.pc = "running"
      /\ UNCHANGED <<task, revision, decided, attempt, approved, jobs, performed, unsaved>>
      /\ \/ turn.run.state = "underway" /\ calls' = calls + 1
         \/ turn.run.state = "held" /\ calls' = calls
      /\ Keep(held)
      /\ turn' = Reporting(held, Starting(turn) \o <<"await_decision">>)
  BY DEF Hold, Running
<1>2. /\ turn \in Turn /\ turn.run \in Run /\ turn.run.id <= calls
      /\ turn.run.state = "held" /\ Performed(turn.run.id) => turn.run.id \in unsaved
      /\ calls \in Nat /\ faults \in Nat
  BY <1>1, RunsAreKnown
<1>3. Named \in Nat /\ Named <= calls'
  BY <1>1, <1>2 DEF Named, Run
<1>4. held \in Run /\ held.id = Named
  BY <1>2, <1>3 DEF Run
<1>5. Performed(Named) => Named \in unsaved
  <2>1. CASE turn.run.state = "underway"
    <3>1. Named = calls + 1
      BY <2>1 DEF Named
    <3>2. \A p \in performed : p[1] \in Nat /\ p[1] <= calls
      BY DEF IInv, CallsInv, NamesAreFresh
    <3>3. ~Performed(Named)
      BY <1>2, <3>1, <3>2 DEF Performed
    <3>4. QED
      BY <3>3
  <2>2. CASE turn.run.state = "held"
    BY <1>2, <2>2 DEF Named
  <2>3. QED
    BY <1>1, <2>1, <2>2
<1>6. faults' \in Nat /\ (saved' = held \/ saved' = saved)
  BY <1>1, <1>2, KeptOrNot
<1>7. calls' \in Nat /\ calls <= calls'
  BY <1>1, <1>2
<1> HIDE DEF held
<1>8. /\ turn' \in Turn /\ turn'.key = turn.key /\ turn'.known = turn.known
      /\ turn'.run = held /\ turn'.pc = "posting"
  BY <1>1, <1>2, <1>4, ReportsAreEvents, ReportingTurn
<1>9. QED
  BY <1>1, <1>3, <1>4, <1>5, <1>6, <1>7, <1>8, RunEnds

LEMMA EndKeeps ==
  ASSUME IInv, End
  PROVE  IInv'
<1>1. PICK answer \in Answers \cap MaySay(turn) :
        /\ Keep([turn.run EXCEPT !.state = "finished", !.answer = answer])
        /\ turn' = Reporting([turn.run EXCEPT !.state = "finished", !.answer = answer],
                             Report(turn, answer))
  BY DEF End
<1> DEFINE finished == [turn.run EXCEPT !.state = "finished", !.answer = answer]
<1>2. /\ turn # NoTurn /\ turn.pc = "running"
      /\ UNCHANGED <<task, revision, decided, attempt, approved, jobs, calls, performed, unsaved>>
  BY DEF End, Running
<1>3. /\ turn \in Turn /\ turn.run \in Run /\ turn.run.id <= calls
      /\ calls \in Nat /\ faults \in Nat
  BY <1>2, RunsAreKnown
<1>4. finished \in Run /\ finished.id = turn.run.id /\ finished.state = "finished"
  BY <1>3 DEF Run
<1>5. Keep(finished) /\ turn' = Reporting(finished, Report(turn, answer))
  BY <1>1
<1> HIDE DEF finished
<1>6. faults' \in Nat /\ (saved' = finished \/ saved' = saved)
  BY <1>3, <1>5, KeptOrNot
<1>7. /\ turn' \in Turn /\ turn'.key = turn.key /\ turn'.known = turn.known
      /\ turn'.run = finished /\ turn'.pc = "posting"
  BY <1>3, <1>4, <1>5, ReportsAreEvents, ReportingTurn
<1>8. QED
  BY <1>2, <1>3, <1>4, <1>6, <1>7, RunEnds

LEMMA ProviderFailsKeeps ==
  ASSUME IInv, ProviderFails
  PROVE  IInv'
<1>1. /\ turn # NoTurn /\ turn.pc = "running" /\ turn.run.state # "held" /\ Fault("provider")
      /\ turn' = Reporting(turn.run, Starting(turn))
      /\ saved' = turn.run \/ saved' = saved
      /\ UNCHANGED <<task, revision, decided, attempt, approved, jobs, calls, performed, unsaved>>
  BY DEF ProviderFails, Running
<1>2. /\ turn \in Turn /\ turn.run \in Run /\ turn.run.id <= calls
      /\ calls \in Nat /\ faults \in Nat
  BY <1>1, RunsAreKnown
<1>3. Starting(turn) \in Seq(TurnEvents)
  BY ReportsAreEvents
<1>4. /\ turn' \in Turn /\ turn'.key = turn.key /\ turn'.known = turn.known
      /\ turn'.run = turn.run /\ turn'.pc = "posting"
  BY <1>1, <1>2, <1>3, ReportingTurn
<1>5. faults' \in Nat
  BY <1>1, <1>2, FewFaults
<1>6. QED
  BY <1>1, <1>2, <1>4, <1>5, RunEnds

LEMMA AnsweredTurn ==
  ASSUME turn \in Turn, turn.run \in Run
  PROVE  /\ Answered \in Turn /\ Answered.key = turn.key /\ Answered.known = turn.known
         /\ Answered.pc = "saving" /\ Answered.run \in Run
         /\ Answered.run.state = "answered" /\ Answered.run.id = turn.run.id
<1> DEFINE answered == [turn.run EXCEPT !.state = "answered"]
<1>1. answered \in Run /\ answered.state = "answered" /\ answered.id = turn.run.id
  BY DEF Run
<1>2. Answered = [turn EXCEPT !.pc = "saving", !.run = answered]
  BY DEF Answered
<1> HIDE DEF answered
<1>3. QED
  BY <1>1, <1>2 DEF Turn

\* The call is approved: the turn read so of the office.  It is made again only
\* if what it gave was lost, and how often it was made says whether it is.
LEMMA CallKeeps ==
  ASSUME IInv, Call
  PROVE  IInv'
<1> DEFINE id == turn.run.id
<1>1. /\ turn # NoTurn /\ turn.pc = "running" /\ turn.run.state = "held"
      /\ <<id, "approved">> \in turn.known
      /\ turn' = Answered
      /\ performed' = performed \cup {<<id, 1 + Times(id)>>}
      /\ UNCHANGED <<office, jobs, calls, faults, unsaved>>
  BY DEF Call, Running, Callable, DecidedOn
<1>2. /\ turn \in Turn /\ turn.run \in Run /\ id <= calls
      /\ Performed(id) => id \in unsaved
      /\ calls \in Nat
  BY <1>1, RunsAreKnown
<1>3. /\ turn' \in Turn /\ turn'.key = turn.key /\ turn'.known = turn.known
      /\ turn'.pc = "saving" /\ turn'.run \in Run
      /\ turn'.run.state = "answered" /\ turn'.run.id = id
  BY <1>1, <1>2, AnsweredTurn
<1>4. id \in Nat
  BY <1>2 DEF Run
<1>5. JobsFit' /\ TurnFits' /\ turn' # NoTurn
  BY <1>1, <1>3, TurnGoesOn DEF IInv
<1>6. id \in approved
  BY <1>1 DEF IInv, CallsInv, ApprovalsAreReal, ApprovedIn
<1>7. 1 + Times(id) > 1 => id \in unsaved
  <2>1. CASE Performed(id)
    BY <1>2, <2>1
  <2>2. CASE ~Performed(id)
    <3>1. {p \in performed : p[1] = id} = {}
      BY <2>2 DEF Performed
    <3>2. Times(id) = 0
      BY <3>1, FS_EmptySet DEF Times
    <3>3. QED
      BY <3>2
  <2>3. QED
    BY <2>1, <2>2
<1> HIDE DEF id
<1>8. ApprovalsAreReal'
  BY <1>1, <1>3, <1>5 DEF IInv, CallsInv, ApprovalsAreReal, ApprovedIn, office
<1>9. NamesAreFresh'
  BY <1>1, <1>2, <1>3, <1>4 DEF IInv, CallsInv, NamesAreFresh, HasRun, office
<1>10. HeldBeforeItsCall'
  <2>1. ASSUME saved # NoRun, saved.state = "held", Performed(saved.id)'
        PROVE  saved.id \in unsaved \/ id = saved.id
    BY <1>1, <2>1 DEF IInv, CallsInv, HeldBeforeItsCall, Performed, Saving, office
  <2>2. Saving' /\ turn'.run.state # "held"
    BY <1>3, <1>5 DEF Saving
  <2>3. QED
    BY <1>1, <1>3, <2>1, <2>2 DEF HeldBeforeItsCall, office
<1>11. GatedCallsAreApproved' /\ CallsRunOnce'
  BY <1>1, <1>6, <1>7 DEF IInv, CallsInv, GatedCallsAreApproved, CallsRunOnce, office
<1>12. QED
  BY <1>1, <1>3, <1>5, <1>8, <1>9, <1>10, <1>11
     DEF IInv, CallsInv, OfficeFits, Sound, TurnsHaveRuns, HasRun, Saving, office

LEMMA GoWithoutKeeps ==
  ASSUME IInv, GoWithout
  PROVE  IInv'
<1>1. /\ turn # NoTurn /\ turn.pc = "running" /\ turn' = Answered
      /\ UNCHANGED <<office, jobs, calls, faults, performed, unsaved>>
  BY DEF GoWithout, Running
<1>2. /\ turn \in Turn /\ turn.run \in Run /\ turn.run.id <= calls
      /\ faults' \in Nat
  BY <1>1, RunsAreKnown
<1>3. /\ turn' \in Turn /\ turn'.key = turn.key /\ turn'.known = turn.known
      /\ turn'.pc = "saving" /\ turn'.run \in Run
      /\ turn'.run.state = "answered" /\ turn'.run.id = turn.run.id
  BY <1>1, <1>2, AnsweredTurn
<1>4. QED
  BY <1>1, <1>2, <1>3, RunTaken DEF Saving

\* The step is written down, or what its call gave is lost.
LEMMA SaveStepKeeps ==
  ASSUME IInv, SaveStep
  PROVE  IInv'
<1>1. /\ turn # NoTurn /\ turn.pc = "saving"
      /\ \/ saved' = turn.run /\ UNCHANGED <<faults, unsaved>>
         \/ Fault("save") /\ UNCHANGED saved /\ unsaved' = unsaved \cup {turn.run.id}
      /\ turn' = [turn EXCEPT !.pc = "running"]
      /\ UNCHANGED <<task, revision, decided, attempt, approved, jobs, calls, performed>>
  BY DEF SaveStep, Written
<1>2. /\ turn \in Turn /\ turn.run \in Run /\ turn.run.id <= calls
      /\ turn.run.state = "answered"
  BY <1>1, RunsAreKnown DEF IInv, TurnsHaveRuns, Saving
<1>3. /\ turn' \in Turn /\ turn'.key = turn.key /\ turn'.known = turn.known
      /\ turn'.run = turn.run /\ turn'.pc = "running"
  BY <1>1, <1>2 DEF Turn
<1>4. JobsFit' /\ TurnFits' /\ turn' # NoTurn
  BY <1>1, <1>3, TurnGoesOn DEF IInv
<1>5. faults' \in Nat /\ saved' \in Run \cup {NoRun}
  BY <1>1, <1>2, FewFaults DEF IInv, OfficeFits
<1>6. OfficeFits'
  BY <1>1, <1>5 DEF IInv, OfficeFits, Sound
<1>7. ApprovalsAreReal'
  BY <1>1, <1>3 DEF IInv, CallsInv, ApprovalsAreReal, ApprovedIn
<1>8. NamesAreFresh'
  BY <1>1, <1>2, <1>3 DEF IInv, CallsInv, NamesAreFresh, HasRun
<1>9. HeldBeforeItsCall'
  <2>1. unsaved \subseteq unsaved' /\ (saved' = turn.run \/ (saved' = saved /\ turn.run.id \in unsaved'))
    BY <1>1
  <2>2. turn'.run.state # "held"
    BY <1>2, <1>3
  <2>3. saved' # NoRun /\ saved'.state = "held" /\ Performed(saved.id)' => saved'.id \in unsaved'
    BY <1>1, <1>2, <2>1 DEF IInv, CallsInv, HeldBeforeItsCall, Performed, Saving
  <2>4. QED
    BY <2>2, <2>3 DEF HeldBeforeItsCall
<1>10. GatedCallsAreApproved' /\ CallsRunOnce'
  BY <1>1 DEF IInv, CallsInv, GatedCallsAreApproved, CallsRunOnce
<1>11. TurnsHaveRuns'
  BY <1>2, <1>3 DEF TurnsHaveRuns, HasRun, Saving
<1>12. QED
  BY <1>4, <1>6, <1>7, <1>8, <1>9, <1>10, <1>11 DEF IInv, CallsInv

-------------------------------------------------------------------------------
(* What the office makes of what it is told.                               *)

LEMMA ApplyFits ==
  ASSUME IInv, NEW u, Sound(u), NEW keeping, Apply(u, keeping), UNCHANGED calls, faults' \in Nat
  PROVE  /\ OfficeFits' /\ approved' = approved
         /\ (saved' = NoRun /\ decided' = {}) \/ UNCHANGED <<saved, decided>>
<1>1. task' = u /\ revision' \in Nat /\ attempt' \in Nat /\ approved' = approved
  BY DEF Apply, IInv, OfficeFits
<1>2. (saved' = NoRun /\ decided' = {}) \/ UNCHANGED <<saved, decided>>
  BY DEF Apply
<1>3. Sound(task)'
  BY <1>1 DEF Sound
<1>4. QED
  BY <1>1, <1>2, <1>3 DEF IInv, OfficeFits

LEMMA PostKeeps ==
  ASSUME IInv, Post
  PROVE  IInv'
<1>1. /\ turn # NoTurn /\ turn.pc = "posting" /\ turn.events # << >>
      /\ turn' = [turn EXCEPT !.events = Tail(turn.events)]
      /\ UNCHANGED <<jobs, calls, faults, performed, unsaved>>
  BY DEF Post, Posting
<1>2. PICK u \in Outcome(Head(turn.events), turn.actor) : Apply(u, FALSE)
  BY DEF Post
<1>3. turn \in Turn /\ turn.run \in Run /\ faults' \in Nat
  BY <1>1, RunsAreKnown
<1>4. /\ turn.events \in Seq(TurnEvents) /\ Head(turn.events) \in TurnEvents
      /\ Tail(turn.events) \in Seq(TurnEvents) /\ turn.actor \in Actors
  BY <1>1, <1>3 DEF Turn, Actors
<1>5. Sound(u)
  BY <1>2, <1>4, OutcomeIsSound DEF IInv, OfficeFits
<1>6. /\ turn' \in Turn /\ turn'.key = turn.key /\ turn'.known = turn.known
      /\ turn'.run = turn.run /\ turn'.pc = "posting"
  BY <1>1, <1>3, <1>4 DEF Turn
<1>7. JobsFit' /\ TurnFits' /\ turn' # NoTurn
  BY <1>1, <1>6, TurnGoesOn DEF IInv
<1>8. /\ OfficeFits' /\ approved' = approved
      /\ (saved' = NoRun /\ decided' = {}) \/ UNCHANGED <<saved, decided>>
  BY <1>1, <1>2, <1>3, <1>5, ApplyFits
<1>9. CallsInv'
  BY <1>1, <1>6, <1>7, <1>8, CallsCleared DEF IInv
<1>10. TurnsHaveRuns'
  BY <1>3, <1>6 DEF TurnsHaveRuns, HasRun, Saving
<1>11. QED
  BY <1>7, <1>8, <1>9, <1>10 DEF IInv

LEMMA RefusedKeeps ==
  ASSUME IInv, Refused
  PROVE  IInv'
<1>1. /\ turn # NoTurn /\ turn.pc = "posting"
      /\ turn' = [turn EXCEPT !.events = << >>]
      /\ UNCHANGED <<office, jobs, calls, faults, performed, unsaved>>
  BY DEF Refused, Posting
<1>2. /\ turn \in Turn /\ turn.run \in Run /\ turn.run.id <= calls /\ faults' \in Nat
      /\ turn.run.state = "held" /\ Performed(turn.run.id) => turn.run.id \in unsaved
  BY <1>1, RunsAreKnown
<1>3. << >> \in Seq(TurnEvents)
  OBVIOUS
<1>4. /\ turn' \in Turn /\ turn'.key = turn.key /\ turn'.known = turn.known
      /\ turn'.run = turn.run /\ turn'.pc = "posting"
  BY <1>1, <1>2, <1>3 DEF Turn
<1>5. QED
  BY <1>1, <1>2, <1>4, RunTaken DEF Saving

LEMMA LostKeeps ==
  ASSUME IInv, Lost
  PROVE  IInv'
<1>1. /\ turn # NoTurn /\ turn.pc = "posting" /\ turn.events # << >>
      /\ Failed(turn.key) /\ turn' = NoTurn
      /\ UNCHANGED <<calls, performed, unsaved>>
  BY DEF Lost, Posting
<1>2. turn \in Turn /\ faults \in Nat
  BY <1>1, RunsAreKnown
<1>3. Head(turn.events) \in TurnEvents /\ turn.actor \in Actors
  BY <1>1, <1>2 DEF Turn, Actors
<1>4. /\ OfficeFits' /\ approved' = approved
      /\ (saved' = NoRun /\ decided' = {}) \/ UNCHANGED <<saved, decided>>
  <2>1. CASE Fault("event") /\ UNCHANGED office
    <3>1. faults' \in Nat
      BY <1>2, <2>1, FewFaults
    <3>2. QED
      BY <1>1, <2>1, <3>1 DEF IInv, OfficeFits, Sound, office
  <2>2. ASSUME NEW kind, Fault(kind),
               NEW u \in Outcome(Head(turn.events), turn.actor), Apply(u, kind = "office")
        PROVE  /\ OfficeFits' /\ approved' = approved
               /\ (saved' = NoRun /\ decided' = {}) \/ UNCHANGED <<saved, decided>>
    <3>1. faults' \in Nat
      BY <1>2, <2>2, FewFaults
    <3>2. Sound(u)
      BY <1>3, <2>2, OutcomeIsSound DEF IInv, OfficeFits
    <3>3. QED
      BY <1>1, <2>2, <3>1, <3>2, ApplyFits
  <2>3. QED
    BY <2>1, <2>2 DEF Lost
<1>5. JobsFit'
  BY <1>1, JobReleased DEF IInv
<1>6. CallsInv'
  BY <1>1, <1>4, CallsCleared DEF IInv, Saving
<1>7. QED
  BY <1>1, <1>4, <1>5, <1>6 DEF IInv, TurnFits, TurnsHaveRuns, HasRun, Saving

LEMMA PersonMovesKeeps ==
  ASSUME IInv, PersonMoves
  PROVE  IInv'
<1>1. UNCHANGED <<jobs, turn, calls, faults, performed, unsaved>>
  BY DEF PersonMoves
<1>2. PICK move \in PeopleMay : \E u \in MovedBy(move) : Apply(u, FALSE)
  BY DEF PersonMoves
<1>3. PICK u \in MovedBy(move) : Apply(u, FALSE)
  BY <1>2
<1>4. Sound(u) /\ faults' \in Nat
  BY <1>1, <1>3, MoveIsSound, TurnConstants DEF IInv, OfficeFits
<1>5. /\ OfficeFits' /\ approved' = approved
      /\ (saved' = NoRun /\ decided' = {}) \/ UNCHANGED <<saved, decided>>
  BY <1>1, <1>3, <1>4, ApplyFits
<1>6. CallsInv'
  BY <1>1, <1>5, CallsCleared DEF IInv
<1>7. QED
  BY <1>1, <1>5, <1>6 DEF IInv, JobsFit, TurnFits, TurnsHaveRuns, HasRun, Saving

LEMMA DecideKeeps ==
  ASSUME IInv, Decide
  PROVE  IInv'
<1>1. UNCHANGED <<saved, attempt, jobs, turn, calls, performed, unsaved>>
  BY DEF Decide
<1>2. PICK call \in Decidable, decision \in {"approved", "declined"} :
        /\ decided' = {d \in decided : d[1] # call} \cup {<<call, decision>>}
        /\ approved' = approved \cup {c \in {call} : decision = "approved"}
  BY DEF Decide, Noted
<1>3. call \in Nat
  <2>1. saved # NoRun => saved.id \in Nat
    BY DEF IInv, OfficeFits, Run
  <2>2. calls \in Nat
    BY DEF IInv, OfficeFits
  <2>3. QED
    BY <2>1, <2>2 DEF Decidable, HeldAtTheOffice
<1>4. decided' \in SUBSET Decisions
  BY <1>2, <1>3 DEF IInv, OfficeFits, Decisions
<1>5. OfficeFits'
  <2>1. CASE task' \in CallDecided(task) /\ revision' = revision + 1 /\ UNCHANGED faults
    <3>1. Sound(task)'
      BY <2>1, CallDecidedIsSound DEF IInv, OfficeFits, Sound
    <3>2. QED
      BY <1>1, <1>4, <2>1, <3>1 DEF IInv, OfficeFits
  <2>2. CASE Fault("office") /\ UNCHANGED <<task, revision>>
    <3>1. faults' \in Nat
      BY <2>2, FewFaults DEF IInv, OfficeFits
    <3>2. QED
      BY <1>1, <1>4, <2>2, <3>1 DEF IInv, OfficeFits, Sound
  <2>3. QED
    BY <2>1, <2>2 DEF Decide
<1>6. approved \subseteq approved' /\ (decision = "approved" => call \in approved')
  BY <1>2
<1>7. ApprovalsAreReal'
  BY <1>1, <1>2, <1>6 DEF IInv, CallsInv, ApprovalsAreReal, ApprovedIn
<1>8. GatedCallsAreApproved' /\ CallsRunOnce' /\ NamesAreFresh' /\ HeldBeforeItsCall'
  BY <1>1, <1>6
     DEF IInv, CallsInv, GatedCallsAreApproved, CallsRunOnce, NamesAreFresh, HasRun,
         HeldBeforeItsCall, Performed, Saving
<1>9. QED
  BY <1>1, <1>5, <1>7, <1>8 DEF IInv, CallsInv, JobsFit, TurnFits, TurnsHaveRuns, HasRun, Saving

-------------------------------------------------------------------------------
(* The theorems.                                                           *)

LEMMA InitIInv == Init => IInv
<1> SUFFICES ASSUME Init PROVE IInv
  OBVIOUS
<1>1. Sound(task)
  <2>1. PICK a \in Employees : task = NewTask(a)
    BY DEF Init
  <2>2. NewTask(a) \in Task /\ Sound(NewTask(a))
    BY DEF NewTask, Task, Sound, Actors, TaskStatuses, RestingStatuses, TransientStatuses
  <2>3. QED
    BY <2>1, <2>2
<1>2. OfficeFits
  BY <1>1 DEF Init, OfficeFits
<1>3. JobsFit
  BY DEF Init, JobsFit
<1>4. QED
  BY <1>2, <1>3
     DEF Init, IInv, TurnFits, TurnsHaveRuns, HasRun, Saving, CallsInv, ApprovalsAreReal,
         ApprovedIn, NamesAreFresh, HeldBeforeItsCall, GatedCallsAreApproved, CallsRunOnce

LEMMA NextIInv == IInv /\ [Next]_vars => IInv'
<1> SUFFICES ASSUME IInv, [Next]_vars PROVE IInv'
  OBVIOUS
<1>1. ASSUME WorkerNext PROVE IInv'
  BY <1>1, TakeKeeps, ReadDecisionsKeeps, BeginKeeps, ResumeKeeps, ReplayKeeps, HoldKeeps,
     CallKeeps, GoWithoutKeeps, SaveStepKeeps, EndKeeps, PostKeeps, RefusedKeeps, DoneKeeps
     DEF WorkerNext
<1>2. ASSUME UNCHANGED vars PROVE IInv'
  BY <1>2 DEF vars, IInv, OfficeFits, Sound, JobsFit, TurnFits, TurnsHaveRuns, HasRun, Saving,
     CallsInv, ApprovalsAreReal, ApprovedIn, NamesAreFresh, HeldBeforeItsCall, Performed,
     GatedCallsAreApproved, CallsRunOnce
<1>3. QED
  BY <1>1, <1>2, ScheduleKeeps, ForgetKeeps, UnreadKeeps, ProviderFailsKeeps, LostKeeps,
     RestartKeeps, PersonMovesKeeps, DecideKeeps DEF Next

\* The invariant that carries the rest, under every policy, roster and fault.
THEOREM Invariance == Spec => []IInv
BY InitIInv, NextIInv, PTL DEF Spec

\* Tasks, checkpoints, jobs and turns are well formed, a held job is the worker's,
\* and none is tried more often than the queue allows.
THEOREM TypeCorrect == Spec => []TypeOK
BY Invariance, IInvIsTyped, PTL

\* A consequential call is made on an approval, and once unless what it gave was
\* lost before it was written down: whoever restarts, loses, repeats or decides
\* what, for any number of attempts, calls and decisions.
THEOREM CallsAreOnApprovalAndOnce == Spec => []CallsAreSound
<1>1. IInv => CallsAreSound
  BY DEF IInv, CallsInv, CallsAreSound
<1>2. QED
  BY Invariance, <1>1, PTL

===============================================================================
