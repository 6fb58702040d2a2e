----------------------------- MODULE HeadlessRun -----------------------------
(***************************************************************************)
(* `vo run` (apps/cli/src/run): an office file and a brief, run on one     *)
(* machine until the office goes quiet.  One loop ticks a worker of its    *)
(* own, which queues what is due and takes each turn to its end before the *)
(* next; when a tick finds nothing to do, whoever is at the desk, if       *)
(* anybody is, is asked about what waits for a person, and the run ends    *)
(* unless something was answered.                                          *)
(*                                                                         *)
(* The brief is task 1; a handoff arrow may lead from its department to    *)
(* another one, `Onward`, whose work is task 2 and goes no further.  What  *)
(* an employee's turn does inside is module Conversation's: here it ends   *)
(* in a verdict, in nothing, or held before the calls of one answer.       *)
(***************************************************************************)
EXTENDS WorkflowEngine

CONSTANTS
  Onward,       \* where finished work is handed on; its own policy is "direct"
  Rosters,      \* the people at work, in the order of the file: Seq(Employees)
  BatchSize,    \* DEFAULT_BATCH_SIZE, turns in a tick
  MaxTicks,     \* a run stops after so many ticks
  MaxStops,     \* bound: how often runs are held before a call
  MaxPapers,    \* bound: documents filed
  Absent        \* no such task

RunConstants ==
  /\ Onward \in Departments \ {Home}
  /\ \A r \in Rosters : r \in Seq(Employees)
  /\ BatchSize \in Nat \ {0}
  /\ {MaxTicks, MaxStops, MaxPapers} \subseteq Nat

VARIABLES
  open,        \* whether the office's hours are on
  desk,        \* whether somebody is there to decide
  policy, roster,
  tasks,       \* the run's map of tasks
  kept,        \* the checkpoint of each task
  decisions,   \* what the owner decided, per task
  trays,       \* the documents each task was handed and made
  jobs, used,  \* the queue: jobs that wait, and keys it has seen
  pc, ticks,
  did,         \* jobs queued and taken in this tick
  taken,
  turn,        \* the turn being reported
  seen, left,  \* the tasks as answerGates read them, and what it has yet to ask
  answered,
  stops,       \* how often a run was held
  papers,      \* documents filed
  made,        \* history: the calls made
  decided,     \* history: every decision that was made
  fruitless    \* history: the turns that left their task as it was

owner == <<open, desk, policy, roster>>
queue == <<jobs, used>>
loop == <<ticks, did, taken>>
asking == <<seen, left, answered>>
history == <<stops, papers, made, decided, fruitless>>
vars == <<owner, tasks, kept, decisions, trays, queue, pc, loop, turn, asking, history>>

Ids == {1, 2}
RUN == "agent_run"
REVIEW == "agent_review"
NoTurn == [id |-> 0, key |-> << >>, actor |-> Nobody, events |-> << >>]

Active == {roster[i] : i \in DOMAIN roster}
At(id) == IF id = 1 THEN Home ELSE Onward

\* The engine as it stands for the room the work is handed on to.
Across == INSTANCE WorkflowEngine WITH Home <- Onward, Checkers <- << >>

Plain == [kind |-> "direct", required |-> 0, maxIterations |-> 0, gates |-> {}, stages |-> << >>]
PolicyAt(id) == IF id = 1 THEN policy ELSE Plain
ContextFor(id) == [policy |-> PolicyAt(id), active |-> Active]

NoRun == [state |-> "none", batch |-> {}, pending |-> {}, answer |-> "nothing"]

\* A task, how long its history is, and the calls whose decision is recorded there.
Item(work) == [work |-> work, revision |-> 0, said |-> {}]

-------------------------------------------------------------------------------
(* The command.                                                            *)

There(r) == SelectSeq(r, LAMBDA e : DepartmentOf[e] = Home)
Supervised(r) == SelectSeq(There(r), LAMBDA e : SupervisorOf[e] # Nobody)

\* Somebody with a supervisor takes the brief, so that the supervisor can review it.
TakesTheBrief(r) == IF Supervised(r) # << >> THEN Head(Supervised(r)) ELSE Head(There(r))

Init ==
  /\ open \in BOOLEAN /\ desk \in BOOLEAN /\ policy \in Policies
  /\ roster \in {r \in Rosters : There(r) # << >>}
  /\ tasks = [i \in Ids |-> IF i = 1 THEN Item(NewTask(TakesTheBrief(roster))) ELSE Absent]
  /\ kept = [i \in Ids |-> NoRun] /\ decisions = [i \in Ids |-> {}]
  /\ trays = [i \in Ids |-> [handed |-> {}, out |-> {}]]
  /\ jobs = {} /\ used = {} /\ pc = "ticking" /\ ticks = 0 /\ did = 0 /\ taken = 0
  /\ turn = NoTurn /\ seen = tasks /\ left = {} /\ answered = FALSE
  /\ stops = 0 /\ papers = 0 /\ made = {} /\ decided = {} /\ fruitless = {}

Present == {i \in Ids : tasks[i] # Absent}

-------------------------------------------------------------------------------
(* A tick of the worker.                                                   *)

\* Whose move it is, of the people at work, and the key of their turn.
Movers(item) ==
  IF item.work.status = "in_review" THEN item.work.reviewers
  ELSE IF item.work.status \in {"assigned", "in_progress"} THEN {item.work.assignee} \ {Nobody}
  ELSE {}

Key(id) ==
  <<IF tasks[id].work.status = "in_review" THEN REVIEW ELSE RUN, id, tasks[id].revision>>

Due == {id \in Present : open /\ Movers(tasks[id]) \cap Active # {}}

FirstOf(S) == CHOOSE e \in S : \E i \in DOMAIN roster :
                roster[i] = e /\ \A j \in DOMAIN roster : roster[j] \in S => i <= j

DueJobs == {[key |-> Key(id), who |-> FirstOf(Movers(tasks[id]) \cap Active)] : id \in Due}

Tick ==
  /\ pc = "ticking" /\ ticks < MaxTicks
  /\ LET new == {j \in DueJobs : j.key \notin used} IN
       /\ jobs' = jobs \cup new /\ used' = used \cup {j.key : j \in new}
       /\ did' = Cardinality(new)
  /\ taken' = 0 /\ pc' = "working"
  /\ UNCHANGED <<owner, tasks, kept, decisions, trays, ticks, turn, asking, history>>

\* Mutant: the run is over as soon as nothing waits in the queue.
QuietSoon == jobs = {}

\* Nothing was queued, nothing ran, and nothing is waiting.
Quiet == did = 0 /\ jobs = {}

\* What a run stopped before, as far as the task says it is waiting.
HeldBy(id, item) ==
  IF item # Absent /\ item.work.status = "blocked" THEN kept[id].pending ELSE {}

HeldCalls == UNION {{<<id, call>> : call \in HeldBy(id, tasks[id])} : id \in Ids}

EndTick ==
  /\ pc = "working" /\ turn = NoTurn /\ (jobs = {} \/ taken = BatchSize)
  /\ ticks' = ticks + 1
  /\ IF ~Quiet THEN pc' = "ticking" /\ UNCHANGED asking
     ELSE IF ~desk THEN pc' = "ended" /\ UNCHANGED asking
     ELSE pc' = "calls" /\ seen' = tasks /\ left' = HeldCalls /\ answered' = FALSE
  /\ UNCHANGED <<owner, tasks, kept, decisions, trays, queue, did, taken, turn, history>>

\* An office that never settles must not spin forever.
Capped ==
  /\ pc = "ticking" /\ ticks = MaxTicks /\ pc' = "ended"
  /\ UNCHANGED <<owner, tasks, kept, decisions, trays, queue, loop, turn, asking, history>>

-------------------------------------------------------------------------------
(* A turn.                                                                 *)

Starting(id) == IF tasks[id].work.status = "assigned" THEN <<"start">> ELSE << >>

\* An author's verdict of any kind is work to submit.
Report(kind, id, answer) ==
  IF kind = REVIEW
    THEN (IF answer = "nothing" THEN << >> ELSE <<answer>>)
    ELSE Starting(id) \o (IF answer = "nothing" THEN << >> ELSE <<"submit">>)

Reporting(id, who, events) == [id |-> id, key |-> Key(id), actor |-> who, events |-> events]

Ended(answer, state) == [NoRun EXCEPT !.state = state, !.answer = answer]

\* The calls of one answer, the n-th a run is held before.
AnswerCalls(n) == {{<<n, 1>>}, {<<n, 1>>, <<n, 2>>}}

\* Mutant: what was decided about one call of the task is decided about all.
AnswerForAll(decision, id, call) == \E d \in decisions[id] : d[2] = decision

\* What the owner said of this one call.
Answer(decision, id, call) == <<call, decision>> \in decisions[id]

\* The calls of an answer nobody has decided about yet.
Undecided(id, calls) ==
  {x \in calls : ~Answer("approved", id, x) /\ ~Answer("declined", id, x)}

\* How a conversation goes on: with an answer, with none, or to a call that a
\* person has to decide about first.  A reviewer has no tools.
Concludes(kind, id, who) ==
  \E answer \in IF kind = REVIEW THEN {"approve", "request_changes", "nothing"}
                                 ELSE {"submit", "nothing"} :
  \E state \in IF answer = "nothing" THEN {"finished", "underway"} ELSE {"finished"} :
    /\ kept' = [kept EXCEPT ![id] = Ended(answer, state)]
    /\ turn' = Reporting(id, who, Report(kind, id, answer))
    /\ UNCHANGED stops

Holds(id, who) ==
  /\ stops < MaxStops /\ stops' = stops + 1
  /\ \E calls \in AnswerCalls(stops + 1) :
       kept' = [kept EXCEPT ![id] =
                  [NoRun EXCEPT !.state = "held", !.batch = calls, !.pending = calls]]
  /\ turn' = Reporting(id, who, Starting(id) \o <<"await_decision">>)

Files(kind, id) ==
  \/ UNCHANGED <<trays, papers>>
  \/ /\ kind = RUN /\ papers < MaxPapers
     /\ papers' = papers + 1
     /\ trays' = [trays EXCEPT ![id].out = @ \cup {papers + 1}]

GoesOn(kind, id, who) ==
  Files(kind, id) /\ (Concludes(kind, id, who) \/ (kind = RUN /\ Holds(id, who)))

\* The task is read when its turn comes.  A run that finished is answered from what
\* was kept; one that is held stays so until everything it waits for is decided.
Work ==
  /\ pc = "working" /\ turn = NoTurn /\ jobs # {} /\ taken < BatchSize
  /\ \E job \in jobs :
       LET kind == job.key[1]
           id == job.key[2]
           run == kept[id]
           still == Undecided(id, run.batch)
       IN /\ jobs' = jobs \ {job}
          /\ CASE run.state = "finished" ->
                    /\ turn' = Reporting(id, job.who, Report(kind, id, run.answer))
                    /\ UNCHANGED <<kept, trays, stops, papers, made>>
               [] run.state = "held" /\ still # {} ->
                    /\ kept' = [kept EXCEPT ![id].pending = still]
                    /\ turn' = Reporting(id, job.who, Starting(id) \o <<"await_decision">>)
                    /\ UNCHANGED <<trays, stops, papers, made>>
               [] OTHER ->
                    /\ GoesOn(kind, id, job.who)
                    /\ made' = made \cup {x \in run.batch : Answer("approved", id, x)}
  /\ did' = did + 1 /\ taken' = taken + 1
  /\ UNCHANGED <<owner, tasks, decisions, used, pc, ticks, asking, decided, fruitless>>

-------------------------------------------------------------------------------
(* What an event does to a task.                                           *)

ATTEMPT_STATUSES == {"in_progress", "blocked"}

\* Mutant: the decisions outlive the attempt they were made in.
SpentNever(u) == FALSE

Spent(u) == u.status \notin ATTEMPT_STATUSES

Moved(item, u) ==
  [item EXCEPT !.work = u,
               !.revision = @ + (IF u = [item.work EXCEPT !.approvals = u.approvals]
                                 THEN 0 ELSE 1)]

\* Mutant: what the work was handed travels, and not what it made.
TravellingIn == trays[1].handed

\* What travels with finished work: what it produced.
Travelling == trays[1].out

Recipients ==
  LET there == {e \in Active : DepartmentOf[e] = Onward}
  IN  IF there = {} THEN {Nobody} ELSE there

\* The task is put back; once the attempt is over what it wrote down is spent; and
\* finished work is handed on with copies of what it made.
Dispatch(id, item, u) ==
  /\ IF Spent(u)
       THEN kept' = [kept EXCEPT ![id] = NoRun] /\ decisions' = [decisions EXCEPT ![id] = {}]
       ELSE UNCHANGED <<kept, decisions>>
  /\ IF id = 1 /\ u.status = "done"
       THEN /\ \E who \in Recipients :
                 tasks' = [tasks EXCEPT ![1] = Moved(item, u), ![2] = Item(NewTask(who))]
            /\ trays' = [trays EXCEPT ![2].handed = Travelling]
       ELSE tasks' = [tasks EXCEPT ![id] = Moved(item, u)] /\ UNCHANGED trays

\* What the engine makes of an employee's event.
Outcome(id, event, actor) ==
  LET t == tasks[id].work
      c == ContextFor(id)
  IN CASE event = "start"           -> Start(t)
       [] event = "await_decision"  -> AwaitDecision(t)
       [] event = "submit"          -> IF id = 1 THEN Submit(t, c, {}) ELSE Across!Submit(t, c, {})
       [] event = "approve"         -> Approve(t, c, actor, {})
       [] event = "request_changes" -> RequestChanges(t, c, actor)

\* Each event is applied to where the last one left the task; a refused one leaves
\* it as it is, and the next is judged against that.
Report1 ==
  /\ pc = "working" /\ turn.events # << >>
  /\ LET id == turn.id
         us == Outcome(id, Head(turn.events), turn.actor)
     IN IF us = {} THEN UNCHANGED <<tasks, kept, decisions, trays>>
                   ELSE \E u \in us : Dispatch(id, tasks[id], u)
  /\ turn' = [turn EXCEPT !.events = Tail(@)]
  /\ UNCHANGED <<owner, queue, pc, loop, asking, history>>

Reported ==
  /\ pc = "working" /\ turn # NoTurn /\ turn.events = << >>
  /\ fruitless' = IF Key(turn.id) = turn.key THEN fruitless \cup {turn.key} ELSE fruitless
  /\ turn' = NoTurn
  /\ UNCHANGED <<owner, tasks, kept, decisions, trays, queue, pc, loop, asking, stops, papers,
                 made, decided>>

-------------------------------------------------------------------------------
(* Whoever is at the desk.                                                 *)

First(S) == CHOOSE x \in S : \A y \in S : \/ x[1] < y[1]
                                          \/ x[1] = y[1] /\ x[2][2] <= y[2][2]

\* Mutant: the record says what was decided last, and nothing before.
NotedAfresh(item, call) == [item EXCEPT !.said = {call}]

\* The decision goes into the history of the task.
Noted(item, call) == [item EXCEPT !.said = @ \cup {call}]

\* The decision made last about this call, beside those about the others.
DecidedToo(id, call, d) == {x \in decisions[id] : x[1] # call} \cup {<<call, d>>}

\* Calls are put one at a time.  The task a decision is applied to is the one that
\* was read before the first of them was asked about.
AnswerCall ==
  /\ pc = "calls" /\ left # {}
  /\ LET id == First(left)[1]
         call == First(left)[2]
     IN /\ left' = left \ {<<id, call>>}
        /\ \/ UNCHANGED <<tasks, decisions, answered, decided>>
           \/ \E d \in {"approved", "declined"}, u \in CallDecided(seen[id].work) :
                /\ decisions' = [decisions EXCEPT ![id] = DecidedToo(id, call, d)]
                /\ tasks' = [tasks EXCEPT ![id] =
                               Moved(Noted(seen[id], call), u)]
                /\ answered' = TRUE
                /\ decided' = decided \cup {<<id, call, d>>}
  /\ UNCHANGED <<owner, kept, trays, queue, pc, loop, turn, seen, stops, papers, made, fruitless>>

\* The gates a department holds this work at.
WaitingOn(id, item) ==
  IF item = Absent \/ item.work.status # "in_review" \/ PolicyAt(id).kind # "gate" THEN {}
  ELSE TaskGates \cap PolicyAt(id).gates

ThenGates ==
  /\ pc = "calls" /\ left = {}
  /\ pc' = "gates" /\ seen' = tasks
  /\ left' = {<<id, <<0, 0>>>> : id \in {i \in Ids : WaitingOn(i, tasks[i]) # {}}}
  /\ UNCHANGED <<owner, tasks, kept, decisions, trays, queue, loop, turn, answered, history>>

AnswerGate ==
  /\ pc = "gates" /\ left # {}
  /\ LET id == First(left)[1] IN
       /\ left' = left \ {First(left)}
       /\ \/ UNCHANGED <<tasks, kept, decisions, trays, answered>>
          \/ \E d \in {"approved", "rejected"} :
               /\ \E u \in GateDecided(seen[id].work, ContextFor(id), d) : Dispatch(id, seen[id], u)
               /\ answered' = TRUE
  /\ UNCHANGED <<owner, queue, pc, loop, turn, seen, history>>

\* An unanswered gate ends the run rather than spins.
EndAsking ==
  /\ pc = "gates" /\ left = {}
  /\ pc' = IF answered THEN "ticking" ELSE "ended"
  /\ UNCHANGED <<owner, tasks, kept, decisions, trays, queue, loop, turn, asking, history>>

Next ==
  \/ Tick \/ Work \/ Report1 \/ Reported \/ EndTick \/ Capped
  \/ AnswerCall \/ ThenGates \/ AnswerGate \/ EndAsking

Spec == Init /\ [][Next]_vars

-------------------------------------------------------------------------------
(* The inbox of the office, as awaiting.ts answers it.                     *)

\* Mutant: only what somebody has to decide about is shown.
WhatIsWaitingToDecide ==
  UNION {{<<"call", id, x>> : x \in HeldBy(id, tasks[id])} : id \in Present}
    \cup {<<"review", id>> : id \in {i \in Present : WaitingOn(i, tasks[i]) # {}}}

\* Finished work a department holds, calls a run may not make, and work that has
\* stopped for some other reason.
WhatIsWaiting ==
  UNION {{<<"call", id, x>> : x \in HeldBy(id, tasks[id])} : id \in Present}
    \cup {<<"review", id>> : id \in {i \in Present : WaitingOn(i, tasks[i]) # {}}}
    \cup {<<"stopped", id>> :
            id \in {i \in Present : \/ tasks[i].work.status = "escalated"
                                    \/ /\ tasks[i].work.status = "blocked"
                                       /\ HeldBy(i, tasks[i]) = {}}}

Over == pc = "ended" /\ ticks < MaxTicks

TypeOK ==
  /\ pc \in {"ticking", "working", "calls", "gates", "ended"}
  /\ ticks \in 0 .. MaxTicks /\ taken \in 0 .. BatchSize
  /\ \A id \in Present : tasks[id].work.status \in RestingStatuses
  /\ \A id \in Ids : kept[id].pending \subseteq kept[id].batch

\* A run that goes quiet leaves no work lying about: it is finished, or the inbox
\* shows it, or the people whose move it is are not at work, or the office is
\* closed, or they had their turn at it as it stands and it came to nothing.
QuietForAReason ==
  Over => \A id \in Present :
    \/ tasks[id].work.status \in TerminalStatuses
    \/ \E x \in WhatIsWaiting : x[2] = id
    \/ ~open
    \/ /\ tasks[id].work.status \in {"assigned", "in_progress", "in_review"}
       /\ Movers(tasks[id]) \cap Active = {}
    \/ tasks[id].work.assignee = Nobody
    \/ Key(id) \in fruitless

\* A call is made when it was approved, and when the run is over every call that
\* was approved has been made, unless its run is held at another.
ApprovedIsMade ==
  /\ \A x \in made : \E id \in Ids : <<id, x, "approved">> \in decided
  /\ Over => \A x \in decided :
       x[3] = "approved" => x[2] \in made \/ tasks[x[1]].work.status = "blocked"

\* What was decided about a call is on its task's record, unless another call of
\* the same answer was decided too: only the last of those is.
DecisionsOnRecord ==
  \A x \in decided :
    \/ x[2] \in tasks[x[1]].said
    \/ \E y \in decided : y[2] # x[2] /\ y[2][1] = x[2][1] /\ y[2] \in tasks[x[1]].said

\* No decision outlives the attempt it was made in.
NoOldDecisions ==
  turn = NoTurn =>
    \A id \in Present :
      tasks[id].work.status \notin {"in_progress", "blocked"} => decisions[id] = {}

\* Work that was handed on has everything the work before it made.
TravelsWithIt == tasks[2] # Absent => trays[2].handed = trays[1].out
===============================================================================
