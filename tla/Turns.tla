-------------------------------- MODULE Turns --------------------------------
(***************************************************************************)
(* An employee's turns at one piece of work: the scheduler that queues one *)
(* per change of the task, the worker that takes a turn and reports its    *)
(* events, the checkpoint a run leaves at the office so that it can be     *)
(* picked up again, the calls it holds for a person, and the office that   *)
(* applies the events and clears what a finished attempt wrote down.       *)
(*                                                                         *)
(* There is one worker, as office-worker.ts builds it, with a queue of its *)
(* own: whatever is in it goes when the worker does.  A conversation is    *)
(* reduced to what can be read back from its checkpoint: whose it is, how  *)
(* it stands and what it answered; it makes at most one consequential      *)
(* call, named by the conversation.                                        *)
(***************************************************************************)
EXTENDS WorkflowEngine

CONSTANTS
  Policy0,        \* the department's review policy, not edited here
  Roster,         \* Employees in the order the office lists them
  Answers,        \* what a model may say at the end of a run
  GatedCalls,     \* BOOLEAN: whether runs make consequential calls
  PeopleMay,      \* what people do to the work: see Moves
  Midturn,        \* BOOLEAN: whether they do it during a turn as well
  FaultsMay,      \* what may go wrong: see FaultKinds
  MaxAttempts,    \* the queue's attempts per job
  MaxRevisions,   \* bound: people act until the history is this long
  MaxCalls,       \* bound: consequential calls asked for
  MaxFaults,      \* bound: how often something goes wrong
  NoTurn, NoRun   \* the worker between jobs; no checkpoint

Moves == {"cancel", "block", "unblock", "reassign", "review"}

\* The worker's process ends; keeping or reading a checkpoint fails; an event or
\* the answer to it is lost; the office stops between writing a task and
\* clearing what its attempt wrote down; the provider fails.
FaultKinds == {"restart", "save", "load", "event", "office", "provider"}

RUN    == "agent_run"
REVIEW == "agent_review"

\* One job per kind of turn and change of the task.
Keys == {RUN, REVIEW} \X Nat

Job == [state : {"waiting", "held", "done", "dead"}, employee : Employees, attempts : Nat]

\* What a checkpoint keeps of a conversation.
Run == [kind : {RUN, REVIEW}, by : Employees, attempt : Nat, id : Nat,
        state : {"underway", "held", "answered", "finished"}, answer : Answers \cup {"nothing"}]

Decisions == Nat \X {"approved", "declined"}

\* What an employee reports of a turn.
TurnEvents == {"start", "submit", "await_decision", "approve", "request_changes"}

\* A turn, with the decisions it knows of and the events it has left to report.
Turn == [key : Keys, kind : {RUN, REVIEW}, actor : Employees,
         pc : {"asking", "loading", "running", "saving", "posting"},
         seen : TaskStatuses, attempt : Nat, known : SUBSET Decisions,
         run : Run \cup {NoRun},
         events : Seq(TurnEvents)]

ASSUME TurnConstants ==
  /\ Policy0 \in Policies
  /\ Answers \subseteq {"submitted", "approved", "rejected", "nothing"}
  /\ {GatedCalls, Midturn} \subseteq BOOLEAN
  /\ PeopleMay \subseteq Moves
  /\ FaultsMay \subseteq FaultKinds
  /\ {MaxRevisions, MaxCalls, MaxFaults} \subseteq Nat
  /\ MaxAttempts \in Nat \ {0}
  /\ NoTurn \notin Turn

VARIABLES
  task,
  revision,    \* the length of the task's history
  saved,       \* the run's checkpoint at the office
  decided,     \* the calls a person decided, each with the decision
  jobs,        \* idempotency key -> the job it stands for
  turn,        \* what the worker is doing
  calls,       \* consequential calls asked for
  faults,
  attempt,     \* history: which stretch of work on the task this is
  performed,   \* history: the consequential calls made, with how often
  approved,    \* history: the calls somebody ever approved
  unsaved      \* history: calls made whose result was never written down

office == <<task, revision, saved, decided, attempt, approved>>
vars == <<task, revision, saved, decided, jobs, turn, calls, faults, attempt,
          performed, approved, unsaved>>

ctx == [policy |-> Policy0, active |-> Employees]

Init ==
  /\ \E a \in Employees : task = NewTask(a)
  /\ revision = 0 /\ saved = NoRun /\ decided = {}
  /\ jobs = [k \in {} |-> 0] /\ turn = NoTurn /\ calls = 0 /\ faults = 0
  /\ attempt = 0 /\ performed = {} /\ approved = {} /\ unsaved = {}

-------------------------------------------------------------------------------
(* The office applies an event.                                            *)

\* The statuses a run in flight can be in; anything else ends the attempt.
ATTEMPT_STATUSES == {"in_progress", "blocked"}

\* Mutant: what a finished attempt wrote down stays where it is.
ClearedNever(u) == FALSE

Cleared(u) == u.status \notin ATTEMPT_STATUSES

\* Recording an approval that completes nothing adds nothing to the history.
Grew(u) == u # [task EXCEPT !.approvals = u.approvals]

\* Waiting for more approvals, or for a person, is the same stretch of work.
SameAttempt(u) ==
  \/ u.status = task.status
  \/ u.status \in ATTEMPT_STATUSES /\ task.status \in ATTEMPT_STATUSES \cup {"assigned"}

\* `keeping` is an office that stopped before it cleared anything.
Apply(u, keeping) ==
  /\ task' = u
  /\ revision' = IF Grew(u) THEN revision + 1 ELSE revision
  /\ attempt' = IF SameAttempt(u) THEN attempt ELSE attempt + 1
  /\ IF Cleared(u) /\ ~keeping THEN saved' = NoRun /\ decided' = {}
                               ELSE UNCHANGED <<saved, decided>>
  /\ UNCHANGED approved

\* What an employee's event makes of the task.
Outcome(event, actor) ==
  CASE event = "start"           -> Start(task)
    [] event = "submit"          -> Submit(task, ctx, {})
    [] event = "await_decision"  -> AwaitDecision(task)
    [] event = "approve"         -> Approve(task, ctx, actor, {})
    [] event = "request_changes" -> RequestChanges(task, ctx, actor)

-------------------------------------------------------------------------------
(* The scheduler and the queue.                                            *)

Key(kind) == <<kind, revision>>

\* The first of S in the office's list.
FirstOf(S) == {e \in S : \E i \in DOMAIN Roster :
                 Roster[i] = e /\ \A j \in DOMAIN Roster : Roster[j] \in S => i <= j}

\* Whose move it is: the first reviewer's who may be asked, or the assignee's.
Due ==
  IF task.status = "in_review" THEN {<<REVIEW, e>> : e \in FirstOf(task.reviewers)}
  ELSE IF task.status \in {"assigned", "in_progress"} THEN {<<RUN, task.assignee>>}
  ELSE {}

With(k, job) == [x \in DOMAIN jobs \cup {k} |-> IF x = k THEN job ELSE jobs[x]]

Schedule ==
  /\ turn = NoTurn
  /\ \E due \in Due :
       /\ Key(due[1]) \notin DOMAIN jobs
       /\ jobs' = With(Key(due[1]), [state |-> "waiting", employee |-> due[2],
                                     attempts |-> 0])
  /\ UNCHANGED <<office, turn, calls, faults, performed, unsaved>>

\* Mutant: a key that was ever used stays taken.
ForgettableNever(k) == FALSE

\* Finished work is deduplicated for a while, then its key is forgotten.
Forgettable(k) == jobs[k].state = "done"

Forget ==
  /\ \E k \in DOMAIN jobs :
       /\ Forgettable(k)
       /\ jobs' = [x \in DOMAIN jobs \ {k} |-> jobs[x]]
  /\ UNCHANGED <<office, turn, calls, faults, performed, unsaved>>

\* Mutant: a finished job keeps its lease.
FinishedHolding(k) == UNCHANGED jobs

Finished(k) == jobs' = [jobs EXCEPT ![k].state = "done"]

\* Mutant: the first failure is the last.
FailedForGood(k) == jobs' = [jobs EXCEPT ![k].state = "dead"]

Failed(k) ==
  jobs' = [jobs EXCEPT ![k].state = IF jobs[k].attempts >= MaxAttempts THEN "dead"
                                                                     ELSE "waiting"]

-------------------------------------------------------------------------------
(* A turn.                                                                 *)

Fault(kind) == kind \in FaultsMay /\ faults < MaxFaults /\ faults' = faults + 1

\* The worker claims a job and reads the task, whatever has become of it since.
Take ==
  /\ turn = NoTurn
  /\ \E k \in DOMAIN jobs :
       /\ jobs[k].state = "waiting"
       /\ jobs' = [jobs EXCEPT ![k].state = "held", ![k].attempts = @ + 1]
       /\ turn' = [key |-> k, kind |-> k[1], actor |-> jobs[k].employee, pc |-> "asking",
                   seen |-> task.status, attempt |-> attempt, known |-> {},
                   run |-> NoRun, events |-> << >>]
  /\ UNCHANGED <<office, calls, faults, performed, unsaved>>

\* The task cannot be read: the job goes back to the queue.
Unread ==
  /\ turn # NoTurn /\ turn.pc = "asking" /\ Fault("load")
  /\ Failed(turn.key)
  /\ turn' = NoTurn
  /\ UNCHANGED <<office, calls, performed, unsaved>>

\* It asks what a person has decided; an office that cannot say has decided nothing.
ReadDecisions ==
  /\ turn # NoTurn /\ turn.pc = "asking"
  /\ \/ turn' = [turn EXCEPT !.pc = "loading", !.known = decided] /\ UNCHANGED faults
     \/ turn' = [turn EXCEPT !.pc = "loading"] /\ Fault("load")
  /\ UNCHANGED <<office, jobs, calls, performed, unsaved>>

Starting(t) == IF t.kind = RUN /\ t.seen = "assigned" THEN <<"start">> ELSE << >>

\* A reviewer's answer that is not an approval asks for changes, and an author's
\* answer of any kind is work to submit.
Report(t, answer) ==
  IF answer = "nothing" THEN Starting(t)
  ELSE IF t.kind = RUN THEN Starting(t) \o <<"submit">>
  ELSE IF answer = "approved" THEN <<"approve">>
  ELSE <<"request_changes">>

\* The turn once its conversation stops: what came of it is to be reported.
Reporting(run, events) == [turn EXCEPT !.pc = "posting", !.run = run, !.events = events]

Loading == turn # NoTurn /\ turn.pc = "loading"

\* A reviewer is given no tools, and no gate either.
MayCall(t) == GatedCalls /\ t.kind = RUN

\* Nothing is written down, or it cannot be read: a conversation begins.
Begin ==
  /\ Loading
  /\ \/ saved = NoRun /\ UNCHANGED faults
     \/ saved # NoRun /\ Fault("load")
  /\ turn' = [turn EXCEPT !.pc = "running",
                !.run = [kind |-> turn.kind, by |-> turn.actor, attempt |-> turn.attempt,
                         id |-> 0, state |-> "underway", answer |-> "nothing"]]
  /\ UNCHANGED <<office, jobs, calls, performed, unsaved>>

\* A conversation that was written down goes on where it stopped.
Resume ==
  /\ Loading
  /\ saved # NoRun /\ saved.state # "finished"
  /\ turn' = [turn EXCEPT !.pc = "running", !.run = saved]
  /\ UNCHANGED <<office, jobs, calls, faults, performed, unsaved>>

\* A finished one is answered from the record.
Replay ==
  /\ Loading
  /\ saved # NoRun /\ saved.state = "finished"
  /\ turn' = Reporting(saved, Report(turn, saved.answer))
  /\ UNCHANGED <<office, jobs, calls, faults, performed, unsaved>>

Running == turn # NoTurn /\ turn.pc = "running"

\* Keeping a checkpoint may fail, which the worker reports and lives with.
Keep(checkpoint) ==
  \/ saved' = checkpoint /\ UNCHANGED faults
  \/ Fault("save") /\ UNCHANGED saved

DecidedOn(call) == {d \in {"approved", "declined"} : <<call, d>> \in turn.known}

\* A conversation's call is named when it is first asked for.
Named == IF turn.run.state = "held" THEN turn.run.id ELSE calls + 1

\* The model wants a consequential call nobody has decided on: the run is
\* written down and stops, and the office is told it waits.
Hold ==
  /\ Running /\ MayCall(turn)
  /\ \/ turn.run.state = "underway" /\ calls < MaxCalls /\ calls' = calls + 1
     \/ turn.run.state = "held" /\ DecidedOn(turn.run.id) = {} /\ UNCHANGED calls
  /\ LET held == [turn.run EXCEPT !.state = "held", !.id = Named] IN
       /\ Keep(held)
       /\ turn' = Reporting(held, Starting(turn) \o <<"await_decision">>)
  /\ UNCHANGED <<task, revision, decided, attempt, approved, jobs, performed, unsaved>>

\* Mutant: a call that was held is made when its run goes on.
CallableOnceHeld == turn.run.state = "held"

\* A run that goes on makes the call it was held at, once it is approved.
Callable == MayCall(turn) /\ turn.run.state = "held" /\ "approved" \in DecidedOn(turn.run.id)

\* The turn once the call has its result, and before that is written down.
Answered == [turn EXCEPT !.pc = "saving", !.run = [@ EXCEPT !.state = "answered"]]

Times(call) == Cardinality({p \in performed : p[1] = call})

Call ==
  /\ Running /\ Callable
  /\ turn' = Answered
  /\ performed' = performed \cup {<<turn.run.id, 1 + Times(turn.run.id)>>}
  /\ UNCHANGED <<office, jobs, calls, faults, unsaved>>

\* A declined call is answered with the refusal, and a reviewer who goes on with
\* the author's run answers its call with nothing; the run goes on.
GoWithout ==
  /\ Running /\ turn.run.state = "held"
  /\ "declined" \in DecidedOn(turn.run.id) \/ ~MayCall(turn)
  /\ turn' = Answered
  /\ UNCHANGED <<office, jobs, calls, faults, performed, unsaved>>

\* Mutant: only the end of a run is written down.
WrittenAtTheEnd == saved

\* What is written down after a step: the conversation with its results.
Written == turn.run

SaveStep ==
  /\ turn # NoTurn /\ turn.pc = "saving"
  /\ \/ saved' = Written /\ UNCHANGED <<faults, unsaved>>
     \/ Fault("save") /\ UNCHANGED saved /\ unsaved' = unsaved \cup {turn.run.id}
  /\ turn' = [turn EXCEPT !.pc = "running"]
  /\ UNCHANGED <<task, revision, decided, attempt, approved, jobs, calls, performed>>

\* The model ends the run.  Running out of steps is an end without an answer.
MaySay(t) == {"nothing"} \cup (IF t.kind = RUN THEN {"submitted"} ELSE {"approved", "rejected"})

End ==
  /\ Running /\ turn.run.state # "held"
  /\ \E answer \in Answers \cap MaySay(turn) :
       LET finished == [turn.run EXCEPT !.state = "finished", !.answer = answer] IN
       /\ Keep(finished)
       /\ turn' = Reporting(finished, Report(turn, answer))
  /\ UNCHANGED <<task, revision, decided, attempt, approved, jobs, calls, performed, unsaved>>

\* The provider fails: the run stays resumable and the turn ends with no answer.
ProviderFails ==
  /\ Running /\ turn.run.state # "held" /\ Fault("provider")
  /\ turn' = Reporting(turn.run, Starting(turn))
  /\ saved' \in {turn.run} \cup (IF "save" \in FaultsMay THEN {saved} ELSE {})
  /\ UNCHANGED <<task, revision, decided, attempt, approved, jobs, calls, performed, unsaved>>

Posting == turn # NoTurn /\ turn.pc = "posting"

\* An event the office takes.
Post ==
  /\ Posting /\ turn.events # << >>
  /\ \E u \in Outcome(Head(turn.events), turn.actor) : Apply(u, FALSE)
  /\ turn' = [turn EXCEPT !.events = Tail(@)]
  /\ UNCHANGED <<jobs, calls, faults, performed, unsaved>>

\* One it refuses: what the turn decided after it is not reported either.
Refused ==
  /\ Posting /\ turn.events # << >>
  /\ Outcome(Head(turn.events), turn.actor) = {}
  /\ turn' = [turn EXCEPT !.events = << >>]
  /\ UNCHANGED <<office, jobs, calls, faults, performed, unsaved>>

\* One that is lost, or whose answer is: the job goes back to the queue, and the
\* office may have applied the event all the same, or stopped half-way.
Lost ==
  /\ Posting /\ turn.events # << >>
  /\ Failed(turn.key)
  /\ turn' = NoTurn
  /\ \/ Fault("event") /\ UNCHANGED office
     \/ /\ \E kind \in {"event", "office"} :
             /\ Fault(kind)
             /\ \E u \in Outcome(Head(turn.events), turn.actor) : Apply(u, kind = "office")
  /\ UNCHANGED <<calls, performed, unsaved>>

Done ==
  /\ Posting /\ turn.events = << >>
  /\ Finished(turn.key)
  /\ turn' = NoTurn
  /\ UNCHANGED <<office, calls, faults, performed, unsaved>>

\* The worker's process ends, and its queue with it.
Restart ==
  /\ Fault("restart")
  /\ unsaved' = IF turn # NoTurn /\ turn.pc = "saving" THEN unsaved \cup {turn.run.id}
                                                       ELSE unsaved
  /\ jobs' = [k \in {} |-> 0] /\ turn' = NoTurn
  /\ UNCHANGED <<office, calls, performed>>

-------------------------------------------------------------------------------
(* People.                                                                 *)

\* A person acts on the canvas, and nobody in particular acts: the reviews that
\* name nobody are theirs to answer.
MovedBy(move) ==
  CASE move = "cancel"   -> Cancel(task)
    [] move = "block"    -> Block(task)
    [] move = "unblock"  -> Unblock(task)
    [] move = "reassign" -> UNION {Reassign(task, e) : e \in Employees}
    [] move = "review"   -> IF task.status = "in_review" /\ task.reviewers = {}
                            THEN Approve(task, ctx, Nobody, {}) \cup RequestChanges(task, ctx, Nobody)
                            ELSE {}

PersonMoves ==
  /\ revision < MaxRevisions
  /\ Midturn \/ turn = NoTurn
  /\ \E move \in PeopleMay : \E u \in MovedBy(move) : Apply(u, FALSE)
  /\ UNCHANGED <<jobs, turn, calls, faults, performed, unsaved>>

\* Mutant: the work starts again without the decision.
NotedNowhere(call, decision) == decided

Noted(call, decision) == {d \in decided : d[1] # call} \cup {<<call, decision>>}

HeldAtTheOffice == saved # NoRun /\ saved.state = "held"

\* The calls a decision may name: the one the office keeps a run at, and when it
\* keeps none, any; 0 is a call nobody asked for.
Decidable == IF HeldAtTheOffice THEN {saved.id} ELSE 0 .. calls

\* A call is decided: written down, then the work starts again.
Decide ==
  /\ revision < MaxRevisions
  /\ CallDecided(task) # {}
  /\ \E call \in Decidable, decision \in {"approved", "declined"} :
       /\ decided' = Noted(call, decision)
       /\ approved' = approved \cup {c \in {call} : decision = "approved"}
  /\ \/ task' \in CallDecided(task) /\ revision' = revision + 1 /\ UNCHANGED faults
     \/ Fault("office") /\ UNCHANGED <<task, revision>>
  /\ UNCHANGED <<saved, attempt, jobs, turn, calls, performed, unsaved>>

WorkerNext ==
  \/ Take \/ ReadDecisions \/ Begin \/ Resume \/ Replay \/ Hold \/ Call \/ GoWithout
  \/ SaveStep \/ End \/ Post \/ Refused \/ Done

Next ==
  \/ Schedule \/ Forget \/ WorkerNext \/ Unread \/ ProviderFails \/ Lost \/ Restart
  \/ PersonMoves \/ Decide

Spec == Init /\ [][Next]_vars

\* main.ts ticks the worker for as long as it runs: it schedules, forgets what is
\* old enough and takes turns, each of which the bound on its steps ends.
FairSpec ==
  Spec /\ WF_vars(Schedule) /\ WF_vars(Forget) /\ WF_vars(WorkerNext)

-------------------------------------------------------------------------------
(* Properties.                                                             *)

TypeOK ==
  /\ task \in Task /\ task.status \in RestingStatuses
  /\ {revision, calls, faults, attempt} \subseteq Nat
  /\ saved \in Run \cup {NoRun}
  /\ decided \in SUBSET Decisions
  /\ jobs \in [DOMAIN jobs -> Job] /\ DOMAIN jobs \subseteq Keys
  /\ \A k \in DOMAIN jobs :
       /\ jobs[k].state = "held" <=> turn # NoTurn /\ turn.key = k
       /\ jobs[k].attempts <= MaxAttempts
  /\ turn # NoTurn => turn \in Turn /\ turn.key \in DOMAIN jobs

\* What a turn reports is its own employee's answer, for this kind of turn and in
\* this stretch of the work.  agent-turn.ts keys the checkpoint by the task alone
\* and rests on the office having cleared it "when the work moves on, so a later
\* attempt never reads an older answer".
AnswersAreTheirOwn ==
  Posting =>
    /\ turn.run.kind = turn.kind
    /\ turn.run.by = turn.actor
    /\ turn.run.attempt = turn.attempt

\* The turns are sound: types, and no turn speaks for another.
TurnsSound == TypeOK /\ AnswersAreTheirOwn

\* No consequential call is made that nobody ever approved, whoever restarts,
\* loses or repeats what (approval-gate.ts, agent-run-loop.ts).
GatedCallsAreApproved == \A p \in performed : p[1] \in approved

\* A call is made a second time only if the first was never written down: a
\* checkpoint holds "the results of tools that already ran, so resuming does not
\* call them again" (checkpoint.ts).
CallsRunOnce == \A p \in performed : p[2] > 1 => p[1] \in unsaved

\* A consequential call is made on an approval, and once.
CallsAreSound == GatedCallsAreApproved /\ CallsRunOnce

\* A call the office keeps a run at and somebody approved is made, unless it is
\* declined after all or the work is called off: server.ts writes the decision down
\* first so that it "cannot be approved and then forgotten".  One whose run was never
\* kept is approved to no effect.
ApprovedCallsAreMade ==
  \A call \in 1 .. MaxCalls :
    HeldAtTheOffice /\ saved.id = call /\ call \in approved
      ~> \/ \E p \in performed : p[1] = call
         \/ <<call, "declined">> \in decided
         \/ task.status = "cancelled"

\* Work somebody holds does not stay on their desk, and a review that was asked of
\* colleagues is answered (scheduler.ts, worker.ts).
WorkMovesOn == task.status \in {"assigned", "in_progress"}
                 ~> task.status \notin {"assigned", "in_progress"}

ReviewMovesOn == task.status = "in_review" /\ task.reviewers # {} ~> task.status # "in_review"

===============================================================================
