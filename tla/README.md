# A verification of VirtualOffice

VirtualOffice runs an office of language-model employees: departments do work,
colleagues and other departments review it, a scheduler says whose move it is, a
worker takes the turns, and people decide what needs a person. This directory
holds TLA+ models of the parts that carry that logic, the TLC runs that check
them on small offices, and theorems that TLAPS checks for every office.

    tlc -workers 4 -config QueueSafety.cfg MCJobQueue     # any run of PROJECT.json
    tlapm WorkflowProofs.tla                               # any module with theorems

`PROJECT.json` lists components, runs, mutants, hazards and theorems, and maps
every definition to the lines it models. Paths below are relative to `src/`;
`orchestrator/` stands for `packages/orchestrator/src/`, `storage/` for
`packages/storage/src/`.

## 1. Inventory

Two processes and a browser, and a command that is all of them at once. The
**server** (`apps/server`) keeps the office: it answers HTTP requests, and each
request that moves a task runs the **workflow engine** on what it reads from the
**stores** and puts the result back. The **worker** (`apps/worker`) ticks: one of
several is elected to schedule; it takes a snapshot of the office, the
**scheduler** turns it into jobs on the worker's own **queue**, and it claims jobs
and gives each to the **turn handler**, which runs the **model loop**, calls
**models** and **tools**, and reports events to the server. A run's progress is
kept at the server as a **checkpoint**; a consequential call waits there for a
person's **decision**. The **canvas** (`apps/web`) shows the office and follows its
**events**. `vo run` (`apps/cli`) runs an office file to its end without a server.

| Component | State | Operations | Made correct by |
|---|---|---|---|
| Task lifecycle (`packages/core/src/task/task.ts`) | status, assignee, reviewers, approvals, stage, signatures, history | the transition table | every move is in the table, finished is final |
| Workflow engine, seven review policies (`orchestrator/workflow`) | none: functions of task, event, context | start, submit, approve, request changes, block, reassign, await/decide a call, cancel, checks, gates | no half-made move; nobody reviews their own work; approvals belong to this submission; quorum, stages, criteria and checkers all hold at done; rounds are capped; a review can be answered |
| Job queue (`orchestrator/queue`) | pending, leases, dead letters, keys | enqueue, claim, complete, fail, recover | one place per job, one job per key, limits, nothing lost, a lease taken back is powerless, every job ends |
| Scheduler and tick (`orchestrator/schedule`, `worker`) | the tick in hand | campaign, snapshot, spend, enqueue, record | one leader; due work queued once, for whom it may be |
| Clocks (`schedule/cron.ts`, `packages/core/src/schedule`) | none | next firing, window open | the named minute, once |
| Turn handler (`orchestrator/worker`, `apps/worker`) | the job in hand | read, run, report, complete/fail | work and reviews move on across crashes and lost messages |
| Run loop, gate, compaction, run budget (`orchestrator/run`) | the conversation, its checkpoint, decisions | ask, hold, call, save, compact, resume, end | an answer belongs to its author and attempt; no call without approval; a recorded call is not repeated |
| Rooms: hand-on, watchers, benches, contests (`orchestrator/workflow`, `packages/core/src`) | tasks, their routes, verdicts | finish, create work, place, judge | handed-on work arrives once; cycles end; one verdict |
| Escalation (`orchestrator/escalation`) | none | resolve a target | the nearest who can act |
| Event stream and canvas (`apps/server/src/events.ts`, `apps/web/src`) | bounded log; sockets, what is shown, saves under way | publish, reconnect, fetch, save, roll back | nothing missed in silence; what is shown is what is held |
| Stores (`storage`) | rows, transactions, snapshots, migrations, documents, feeds | | a version is one version; a list is paged once; a body and its row stay together; a follower hears each event |
| People, services, keys, organisation (`apps/server`, `packages/core`) | records | the routes that change them | a decision stays decided; a key a service has opens; an exported office reads back |
| Tools (`packages/connectors`, `apps/worker/src/office-tools.ts`) | servers, sessions, listings | connect, list, call, retry, close | a call goes to the named server, at most twice |
| Models (`packages/llm`) | breakers, chains, streams | call, retry, fall back | one attempt's events; a cooled-down provider is tried again |
| Metering (`packages/llm`, `apps/worker/src/usage-sink.ts`) | price list, events | price, file, report | measured once, nothing looks free that is not |
| `vo run` (`apps/cli/src/run`) | an office in memory | the loop to quiescence | ends with nothing lying about that could have moved |

What is hard here:

- *several people, one after the other*: a review is a protocol among an author,
  reviewers, checking departments and an owner, while the policy, the roster and
  the list of criteria are edited around it;
- *time and crashes*: leases lapse, holders answer late, a process ends between a
  tool call and its record, and redelivery meets a task that moved on;
- *two keepers of one fact*: the task at the server and the run at the worker, the
  record and the canvas's copy of it, the body and its row, the key and the service
  that names it, the occurrence queued and the occurrence recorded;
- *read, await, write*: a tick, a route and a save all act on what they read before;
- *endless and stuck*: a run that never answers, a reviewer who is never asked, a
  cycle of departments, a breaker that lets nobody try.

`PROJECT.json` "hazards" gives each at the line where it bites, with the property
that would catch it or the reason none does.

## 2. The modules

Most modules are one component with its own state; composition is named.

| Module | Models | State and actions against the code |
|---|---|---|
| `TaskStates` | the transition table | `TaskTransitions` is `TASK_TRANSITIONS` |
| `WorkflowEngine` | every handler of the engine and of the seven policies | an operator per handler from a task to the SET of tasks it may leave. `{}` is an error Result; several elements are the choice among eligible colleagues whose ranking rests on data left out |
| `Workflow` | one task in an office that changes | `task`, the department's `policy`, who is `active`; one action per event, plus policy edits, pauses and task updates. `endorsed vouched claimed cleared` are history, read by no guard |
| `Delivery` | what the queue promises (abstract) | jobs accepted, delivered, returned, ended |
| `JobQueue` | `in-process-queue.ts` and workers that hold leases | `Enqueue Claim Finish Fail RecoverExpired` are the methods, whole. `hands` is what each worker believes it holds, which the queue may have taken back. Instants are ticks left, which is all the code compares |
| `Turns` | turn handler, checkpoint, gate and the server's clearing, on top of `WorkflowEngine` | see below |
| `Conversation` | the run loop on its own | asking, holding, performing, compacting, saving, resuming, each between two awaits; several calls in one answer |
| `Leaders` | `leader.ts` against the store's lock | a campaign in three steps: the clock read, the store asked, the answer learnt |
| `Ticks` | the worker's tick and the scheduler, on top of `Leaders` | begin, campaign, read the office, read the spend, enqueue one by one, record; the office switches levels, people file work, calls are paid for |
| `Clocks` | cron and windows | the code's search for the next firing, beside a definition by what the expression says |
| `Rooms` | hand-on, watchers, placement, contests | tasks with their routes; the task is written, then the work it hands on is created, with a stop in between |
| `Ladder` | `escalation.ts` | the climb, beside a definition by nearest |
| `OfficeEvents` | the server's bounded log | append, and what a reader from an offset is given |
| `Canvas` | the browser: stream, follower, saves; on top of `OfficeEvents` | sockets carry what the log sent; a fetch reads at the office, then lands at the canvas; a save is shown, goes to the office, is answered |
| `Documents` `Tables` `Paging` `Migrations` `Feed` | `storage/` | each request step by step, as two keep their writes apart |
| `People` `Credentials` `Organisation` | the routes of `server.ts` that change records | a request holds the copy it read across its awaits |
| `ToolServers` `Calls` | connectors; model routing | sessions and processes; chains, breakers and streams |
| `Metering` | usage and cost | a call, its measurement, its price, its filing, the report |
| `HeadlessRun` | `vo run`, on top of `WorkflowEngine` | the loop, its worker and the person at the desk |
| `MC*` | the instances | offices, courses and bounds. `MCParts`, `MCRecords`, `MCWork`, `MCOutside` hold several components: `part` names the one at work in a behaviour, and the others stay where they began |
| `*Proofs` | theorems | section 5 |

`Turns` composes the two sides. The office's side is `task`, `revision` (the
length of the history, part of the job's key), `saved` (the checkpoint) and
`decided`; `Apply` is the tail of `POST /tasks/:id/events`, with the clearing of
the checkpoint in its place after the put. The worker's side is `jobs` and `turn`:

    Schedule -> Take -> ReadDecisions -> Begin | Resume | Replay
      -> (Hold | Call | GoWithout -> SaveStep)* -> End -> Post* -> Done

each step being what happens between two awaits that something else can
interleave with: a person's move, a restart, a lost request. `Unread`, `Lost`,
`Refused`, `ProviderFails` and `Restart` are the error paths of `job-handler.ts`
and `agent-turn.ts`. A conversation is reduced to what a checkpoint tells of it
(whose it is, how it stands, what it answered); the conversation itself is
`Conversation`. `attempt performed approved unsaved` are history. The queue in it is
the part of `JobQueue` a single in-process worker can see: a state per key and the
attempts.

`Canvas` and `Ticks` take their behaviours from *courses*: a constant set of plans
saying what may happen in one behaviour (how many writes, sockets, saves, which
faults; which work is about). A course is chosen in `Init` and only guards the
environment, so that one run covers many kinds of trouble without their product;
the theorems hold for any set of courses of any size.

## 3. The runs

| Run (distinct states) | The instance | Properties |
|---|---|---|
| `WorkflowChecked` (127 000) | direct, manager and peer review, two checking departments, an editable criterion, a checker who is paused and returns | `EndsFairly` `ChecksHold` `ReviewEnds` |
| `WorkflowEdits` (1.4 million) | every policy replaced by any other in the middle of a review | `Resting` `NoSelfReview` `ApprovalsAreCurrent` `FinishedIsFinal` |
| `QueueSafety` (174 000) | two workers, three jobs, two of one employee and one sharing a key, a crash, outlived leases | `InOrder` `EndsOnce` `Delivers` (refinement) `EveryJobSettles` |
| `TurnsOwner` (247 000) | a review by the owner, cancelling, decisions, restarts, provider failures, unsaved checkpoints | `TurnsSound` `WorkMovesOn` `ApprovedCallsAreMade` |
| `TurnsGated` (3.9 million) | held calls under every fault but the provider's, with hand-over and unblocking during a turn | `CallsAreSound` |
| `TurnsPeers` (431 000) | a colleague's review under a restart, a lost event, an unsaved or unread checkpoint, an office that stops half-way | `ReviewMovesOn` |
| `Ticks` (638 000) | two workers that stall, step down or die anywhere in a tick; six courses: recurring work, look-backs, reviews, turns and verdicts, calls paid for | `OneLeader` `QueuedAsDue` `OverIsSaid` `EveryOccurrenceFires` |
| `CanvasStream` (442 000) | one canvas, two records, a history of one event; five courses: a stream that fails, twice, a restarted server, unread and unanswered requests, two saves at once | `ShowsTheOffice` `SavesKnewOfIt` `EventuallyTold` |
| `Work` (318 000) | three rooms with a hand-on cycle, a bench and a contest, in six courses; quorum, gate and pipeline reviews; a feed with two handlers, its events written in any order | `WorkArrives` `OneVerdict` `CountedReviewsMove` `FeedTells` |
| `Parts` (1.7 million) | documents, pages, migrations; `vo run`; clocks; escalation; the meter | `ListsHold` `StorageHolds` `CommandHolds` `DueAndUp` `MetersHold` |
| `Records` (2.1 million) | the configuration under transactions and snapshots, beside requests that put a record or the office's own row in none; employees and proposals; services, keys and the vault; rooms, arrows and connectors: two requests at once | `StoresHold` `WordIsKept` `KeysFit` `OfficeStands` |
| `Outside` (387 000) | two model calls over two breakers; a run with a gate, a budget and a small checkpoint; a turn's tools behind an edited connector | `CallsHold` `RunsHold` `ToolsHold` `NothingHangs` |

Every property has at least one mutant in `PROJECT.json`: a plausible bug in one
mapped definition under which that run fails. Properties that are conjunctions
have one for each of their parts that matters.

**Bounds, and why they suffice.**

- `Workflow`: two colleagues, a supervisor, and one person in each checking room
  are enough for one reviewer too few, one too many and one who is the author.
  Two checking departments make the order of their signatures matter. Caps of 1
  and 2 make both sides of every cap reachable; the rounds of capped policies are
  bounded by the code itself, and `MaxRounds` bounds only the owner's declines,
  which no policy caps. One criterion is enough for "missing" and "met".
- `JobQueue`: `MaxJobs` 3 with a shared key; a lease of 2 ticks can be renewed by
  nothing, so one tick is "held" and two is "lapsed"; `MaxAttempts` 2 has a retry
  and a burial; `MaxFaults` counts crashes and leases outlived by their holder.
  In this run an office's limit equals the queue's; at its own boundary it is
  covered by the theorem `LimitsHold`.
- `Turns`: `MaxRevisions` stops people from acting once the history is that long
  (the engine's own events go on), `MaxCalls` bounds consequential calls, and
  `MaxFaults` counts faults. Two are enough for "lost, then lost again on the
  retry". The liveness runs have `MaxFaults < MaxAttempts`: beyond it a job is
  buried, its key stays taken, and the work does stop. That is what the code does
  (a hazard in the list), not what these runs are about.
- `Ticks`: six hours, days of three; a lease of 2 renewed after 1, so that a stall
  of one hour keeps it and of two loses it; the queue remembers for longer than the
  run (`DedupeFor` 9 > `MaxClock` 6). That no key is forgotten is a limit of the run;
  `WorkIsQueuedAsDue` in section 5 is about memories of any length. The deployed worker
  (`createOfficeWorker`, `apps/worker/src/office-worker.ts:67`) is given no election and
  no recurring definitions: what is said of those is said of the library's worker.
- `Canvas`: `HistoryLimit` 1 is the shortest log the code allows: two events in a
  gap are one too many. One record is read as one, one as a list, the two ways the
  canvas fetches.
- `Work`: work from a bench is at most five tasks, so that each of two people has
  had two; `astray` counts the readings of a turn that were not of the newest task
  (at most two in a course), and the share of a bench is even but for those. A feed's
  four events have two instants and are written in any order. Reviews have a quorum
  of two and stages that count one approval and two.
- `Turns` and `Conversation` take a call's id to be its own. A service that sends
  none has its calls known by the tool's name (`packages/llm/src/openai/openai-compatible.ts:220`),
  and there one yes covers every later call of that tool. The wire formats are not modelled.
- `ToolServers`: an HTTP server that exits does not come back at its URL, and a
  listing takes no time.
- the parts: three documents and two trays with pages of one; the configuration of
  an office of two records, there or not, in four versions (two changes, a restore,
  one more), and one request in no transaction, which puts
  a record, or the office's row as it read it; four rows of a paged list; three migrations and two processes that
  know three and two of them; small calendars in which every boundary of a real one
  occurs (`Clocks` is parameterised by the lengths); all lines among four people;
  requests on one record two at a time, since a third adds only another copy as old.

Deadlock checking is off throughout: a finished task, an empty queue, a quiet
canvas and a worker with nothing due are states in which this program rightly waits.

## 4. Fairness

- `Workflow!FairSpec`: whoever was asked answers in the end, affirmatively and
  about the whole list: the named reviewers who have not yet approved, else the
  owner, a check, a gate. `ReviewEnds` is thus the statement that *answering is
  enough*: no state of a review exists which the right answers do not finish.
  Nothing else is fair: people may dally, edit and send work back. That is more than
  the office does by itself, so `Work` assumes less:
- `Work`: of several reviewers one who is there is asked and answers (`AsksOnce`), since
  the scheduler queues the first open one, under a key that an approval does not change
  (`scheduler.ts:283-317`); owner, checks and gates answer as above. `CountedReviewsMove` says
  what that is enough for: every review ends, or it counts several approvals, has one and
  waits for a reviewer nobody asks (Committee, section 6), or all its reviewers are
  away. `FeedTells` has a poller's timer.
- `JobQueue!FairSpec`: each worker that has nothing keeps asking, and ends what
  it took, well or badly; lapsed leases are taken back; time passes. This is the
  loop of `orchestrator/worker/worker.ts`, which recovers, then claims, then
  completes or fails each job.
- `Turns!FairSpec`: the worker's own steps, scheduling, and forgetting finished
  keys (`dedupeMs`). `apps/worker/src/main.ts` ticks for as long as it runs, and
  the run loop's bound on steps ends every turn. No fairness is put on people or
  on faults, so a held call nobody decides simply waits.
- `Ticks!FairSpec`: workers take their steps and time passes; crashes are not fair
  and bounded by the course.
- `Canvas!FairSpec`: the browser's timer reconnects, what a socket carries is
  handed over, requests are answered; failures are bounded by the course.
- `Outside`: a provider answers or fails, a server answers or exits, a run is taken
  up. Without that a call over stdio does hang: it has no timeout (section 6).

## 5. What is proved

TLAPS checks the following for every value of the constants, under the named
assumptions of the modules (`EngineConstants`, `WorkflowConstants`,
`QueueConstants`, `PolicyConstants`, `TurnConstants`, `LeaderConstants`,
`TickConstants`, `CanvasConstants`, `TableConstants`, `PeopleConstants`,
`OrganisationConstants`, `CredentialConstants`, `ConversationConstants`,
`ToolConstants`, `CallConstants`, `DocumentConstants`), which say what parsers and
defaults guarantee and which TLC evaluates in the runs. Further hypotheses are named
with the theorem.

**Workflow** (`WorkflowProofs`; the lemmas about handlers are in `EngineProofs`).
`TypeCorrect`, `RestsBetweenEvents` (`Resting`), `NobodyReviewsTheirOwn`
(`NoSelfReview`), `CountsOnlyThisSubmission` (`ApprovalsAreCurrent`),
`FinishedStaysFinished` (`FinishedIsFinal`), `NoCheckIsForgedOrLeftOut`
(`ChecksHold`), `WorkEndsFairly` (`EndsFairly`).

None is inductive alone. That a submission asks nobody to review their own work
needs the assignee to be somebody, which needs the task to be between events:
approved or transferred work may be on its way to other hands. That approvals are
current needs to know that work enters review only through a handler that resets
them, although an escalation leaves them on the task. The invariant `IInv` is
`TypeOK`, `Sound(task)` (a resting status, an assignee wherever one is needed, no
reviewer who holds the work) and `ApprovalsAreCurrent`. The proof goes operator by
operator: for each handler a lemma says that its outcome from a sound task is
`Lawful` (the task was not finished, the outcome is sound, and a review it leaves
counts no approvals but those it had and the actor's), and a step of `Next` only
cites it. Three of the theorems have a hypothesis, and each is needed:

- `NobodyReviewsTheirOwn`: `PipelinesNameWorkers`, every stage names its worker.
  The code does not require it; without it the property is false (OpenStage, below).
- `NoCheckIsForgedOrLeftOut`: no gate or pipeline policy is in force, since those
  finish work without asking the checking departments (GateChecker, below).
- `WorkEndsFairly`: the policy is not exchanged under a review. A cap lowered
  afterwards is exceeded by the rounds already made, rightly.

**Job queue** (`JobQueueProofs`). `TypeCorrect`, `JobsAreInOnePlace`,
`KeysAreUnique`, `NothingIsLost`, `SettledForGood`, `LimitsHold`; from them
`QueueInOrder` (`InOrder`) and `JobsEndOnce` (`EndsOnce`), from `QueueConstants`
alone. `IInv` is `TypeOK /\ OnePlace /\ KeysHeld`. `OnePlace` holds a lease to the
number of claims its job has had: since `claim` raises it, a worker whose lease was
taken back holds a number nobody will compare equal again, and that is why its late
answer is powerless. `KeysHeld`, a key stays with its job and is not to be forgotten
while the job is outstanding or buried, is what makes `OneJobPerKey` inductive:
enqueue drops a request because of the key table, not because it looks at jobs.

**Refinement** (`JobQueueProofs`). `QueueDelivers`: `Spec => D!Spec`, the queue
implements `Delivery` with `asked` as the job specs and `phase` derived from where
a job is. Initial states map to initial states and every step to one of
`Accept Deliver Return End` or to a stutter: `Claim` needs that an employee's
running jobs are no more than the leases held for them, `Enqueue` needs `KeysHeld`.

**Turns** (`TurnsProofs`, on `EngineProofs`). `TypeCorrect` and
`CallsAreOnApprovalAndOnce` (`CallsAreSound`): no consequential call is made that
nobody approved, and none twice whose result was written down, whatever the policy,
whatever people may do and whichever faults occur. The invariant ties three copies
of one run together: the conversation in the worker's hands, the checkpoint at the
office and the decisions. A decision a job read when it started may be older than
the conversation it meets, so the invariant speaks of what *was* approved; a
checkpoint may lag behind the calls made, so it says which calls are not in it
(`unsaved`), and that a resumed run knows every call its checkpoint knows.

**Election and ticks** (`TickProofs`). `AtMostOneLeads`
(`OneLeader`): although a worker learns the store's answer an arbitrary time after
it asked, since it dates its term from the clock it read before asking.
`TicksElect`: the ticks implement the election, so `OneLeadsTheTicks`.
`TicksTypeCorrect` and `NoOccurrenceIsPassedOver` (no occurrence is recorded as
past that was never queued) need nothing further: a tick that died after queueing
leaves the record behind, never ahead. `QueuesInGoodFaith` and `WorkIsQueuedAsDue`
(`QueuedAsDue`) have hypotheses that are needed:

- `DayBudgets`: every budget is for the day, since the tick judges a month's budget
  by the day's spend (MonthBudget, below). Both need it.
- `Prompt(stall)`, throughout, for a `stall` of which the queue's memory is more than
  twice as long (the code remembers a key for an hour, `in-process-queue.ts:151`): a worker
  that is still queueing began its tick no longer than `stall` ago, and an occurrence
  whose job is over is recorded no longer than `stall` after. Keys may be forgotten in
  such a behaviour, any number of times. Without the first half a tick that stalled for
  an hour queues again what was done meanwhile, and without the second a crash between
  queueing and recording fires an occurrence twice (ForgottenFiring, below).

That a job is queued once is a fact about a table that forgets, so the invariant
(`OnceInv`) says why nothing forgotten is due: a task's revision only grows, so a key of
an earlier one is never made again (`Numbered`); a turn's or a judge's key whose job is over is of a revision
left behind or a contest decided (`Settled`), and an occurrence's is recorded or about to
be (`Prompt`); and
what a tick holds to be due was so when it read the office, hardly before the queue
forgot anything that was finished since (`MayBeDue`, `Lately`): twice `stall`, once for the
tick and once for the record.

**Canvas** (`CanvasProofs`). `TypeCorrect`, `OfficeIsShown` (`ShowsTheOffice`) and
`SavesKnew` (`SavesKnewOfIt`), from `CanvasConstants` alone: any records, any number
of writes, sockets and saves, any history limit. The invariant has four parts:
types; `OneLine`, at most one socket is live; `Numbered`, saves have numbers of
their own; and, while the server lives, `Followed`: the log is the end of what
happened, the live socket together with what it will be sent carries everything not
yet noticed, what fetches and saves hold are versions that existed, and every
record whose event was noticed is shown as held, or is being fetched, or was
overtaken in a way the properties admit. The last is why neither property is
inductive: what is shown at rest is right because of where the fetches, the saves
and the socket stood all along the way.

**Stores** (`RecordsProofs`). `SnapshotsApart` (a version of the configuration is one
configuration), `WholeOrNothing` (what is there for good changes by one write made
outside, or by one change or restore in full) and together `StoresKeepTheirWord`
(`StoresHold`), for every set of records, whatever they may say, in memory and in
SQLite, wherever a transaction fails and whoever writes beside it: a record, or the
office's own row, which the routes that rename, start or stop an office read and put back
whole in no transaction. Once such a put wrote another version than the row had
(`setBack`) two configurations may get one version (SetBack, section 6); until
then, and whoever else put it, they do not, and that a change is written whole or
not at all holds even after. `TableConstants`
only says that the marks "not read" and "no transaction" are not values. Neither is
inductive: the invariant says of an open transaction how the tables it works on
differ from those there for good, step by step (in nothing; in the version; in the
version and one snapshot), and, unless somebody wrote outside since it began, in
which records. "There for good" is the tables themselves in memory and what there
was at BEGIN in SQLite, so one argument serves both.

**People** (`RecordsProofs`). `AcceptedIsWritten` and `WordsAreKept` (`WordIsKept`), for
any number of requests at once, any words and any number of proposals, wherever the
server stops. Every route works on copies it read before it waited, so what a step
writes is judged by what its copy still tells. The invariant is about the copies: what
a route makes of an employee leaves whoever was let go so, and gives a voice only
where the request says so; an answer that is to be put was written onto the person
first, unless it declines; a proposal that one request alone decides stands as that
request read it, and of two requests that decide one proposal at least one came while
the other was there to be seen (`contested`). The properties' exceptions (a copy
that is stale, two people who answer at once) are what the routes really do, section 6.

**Organisation** (`RecordsProofs`). `OfficeKeepsStanding` (`OfficeStands`), for any number
of rooms, people, connectors and requests at once: unless requests crossed or something
named was removed, an exported office reads back; unless requests crossed, escalation has
no circle; and a bench names only people of its room even when they do. `OfficeInvariance`
is about the writes that were allowed and not yet made. A request that nobody crossed
writes nothing another was checked against, so each such write still passes its checks
when it is made: the file is read with the very checks the routes make. Its arrows are
read in the order they were drawn, each against those before it, so the invariant says
(`Numbered`) that every arrow has the number of the request that drew it. That
escalation stays without a circle is a fact about paths, and paths are stated by the
sets of rooms one cannot leave: if the end of a new arrow does not lead to its start, two
such sets make one that no circle through the new arrow could stay in. Benches need no
such exception: nobody moves to another room once hired, only people of the room come on
its bench, and letting go keeps the record.

**Keys** (`RecordsProofs`). `KeysAreInOrder` (`KeysFit`), for any number of services,
requests and stops of the server: a key that a service says it has opens, the vault keeps
none that nobody names, and a worker calls every service with what the office has for it.
A service is left out (`mixed`) once two requests worked on it at once, two were at the
vault's file at once, or the server stopped in the middle of one; a worker
may be behind on a key that was replaced since or that it failed to fetch (`missed`). The
file, the vault's memory and the service's record are written one after the other, so none
of this is inductive: `KeysInvariance` follows the one request for a service from write to
write (`Halfway`: how far it has got says which key of the service the file has, and which
the vault answers from), and says of every other request with a file to write that what
it has of the service is what the vault answers (`Tracked`). On the worker's side, what it
gathered fits what it was told (`Gathered`), and a request writes back a reference the
worker was told of only while the service still has it (`Told`).

**Documents** (`RecordsProofs`). `TraysKeepTheirDocuments` (`ListsHold`), for any number
of documents, trays and requests, any size of a page, any instants of arrival (as many
as there are ids) and any number of stops. A body is removed in four awaited steps, a tray
is listed in as many as it has pages, and a copy is written one step after its source was
read, so nothing a request remembers need still be so when it is used. The invariant
(`DocumentsInvariance`) says what may be relied on all the same: an id is given out once,
and once nobody is filing it any more it is known (`Known`), its row stays as it is or
goes, and no other row takes its place. Each request remembers only known documents:

- whoever is about to delete a body (`Recalled`) leaves only rows that are `late`: a
  copy of a document that is there needs a row that names the body, and there is none;
- what is on a list (`Listed`) is on it once and not behind the cursor, and what lay in
  the tray all along is on it or behind the cursor. `PagesInOrder` gives the step: a page
  has each row once, and behind its last row is what it left.

The page is stated by what it is (the first rows in order, `FirstPage`), not by how it is
sorted. One part of `BrokenOnlyInFlight` cannot be dropped: a copy written after its
source was taken away is broken (section 6).

**A run** (`ConversationProofs`). `TypeCorrect`, `AsksAreWhole`, `MadeOnTheirWord`,
`CostsItsBudget`, `EndsOnce`, `AllowedIsNotLost` and together `RunsAreSound` (`RunsHold`),
for any catalogue of tools, any sizes, limits and number of faults. The invariant has a
part for each:

- `Chat`: the conversation in hand and the one written down are whole, that is, results
  follow their calls. Compaction and trimming take a suffix, and a suffix is kept only
  when it begins with no orphan. This is induction along the conversation, done by least
  counterexample.
- `Word`: what was made or is being made was allowed, and decisions are never both ways.
- `Paid`: what was paid for is what the run in hand counts, and what is written down,
  but for one answer for each crash or checkpoint that was not kept: a run is written
  down after every answer it acts on.
- `Once`: while every end was written down, the outcomes told are the one written.
- `Leftover`: the calls that were allowed and neither made nor forgotten are at the end of
  the conversation in hand, or being performed, and at the end of the one written down,
  which fits. So a conversation with nothing left to call has made them all.

`AllowedIsMade` is stated of a run that has nothing more to call, not of one whose
outcome was once told as completed: with two faults that is false (section 6).

**Tools** (`ConversationProofs`). `ToolsTypeCorrect`, `AskedOnceIntroduced`
(`IntroducedFirst`), `CallsAsTheOfficeSaid` (`AsTheOfficeStands`), `CallsReachAtMostTwice`
(`ReachedTwice`), `NoServerIsLeft` (`NoneLeftBehind`) and together `ToolsAreSound`
(`ToolsHold`, with the action property `CallsWhatWasOffered`), for any tools, transports and
grants, any number of edits, changes, mishaps and turns, any time a list is kept, pages and
attempts. What a session says, what a server was asked and what lies unread in its pipe are
three accounts of one exchange, and none of the properties is inductive without the others:

- `SessionsFit`: an open session has a server of its own broker, not told to go, in the
  configuration the broker was made for, and says `agreed` only of one that was introduced.
- `AskedOnce`: only the server the turn waits for was asked anything or has an answer in
  its pipe, never both, and one answer at most. It was asked to introduce itself exactly
  while the session has not agreed. Notices may lie around the answer in any number; this is
  why an answer that is heard leaves nothing anybody could be told twice.
- `CallsCounted`: a call has reached a server at most once more than it was attempted
  before, and no more often than that while it is not yet written to an introduced server.
- `ListedWasOffered`: what is listed was offered when it was listed or since; the pages of
  a listing under way are of this instant (`TimePasses` is bounded so).
- `TurnFits`: the turn goes by the connector it was last told of, and asks for a tool of
  its catalogue.

**Calls to models** (`ConversationProofs`). `CallsTypeCorrect`, `OneAttemptIsStreamed`
(`OneAttemptStreamed`), `ChainsAreTriedInFull` (`TriedInFull`), `RefusedWhileTried`
(`TriedWhileRefused`) and together `CallsAreRouted` (`CallsHold`, with the action property
`OpensForCause`), for any chains (a provider may be in one twice), attempts, thresholds,
cooldowns, windows that are not empty, and calls in any number at once. The invariant:

- `EntryFits`: an entry that counts a trial has been opened and has cooled down. So an
  entry nobody may try after a failure counts none, and a failure leaves none counted.
- `EntryRecalls`: while it is closed, an entry remembers the last of what failed since the
  provider last answered. When as many are recent as open it, they are all the history
  keeps, and all within the window.
- `TrialsGoOn`: a trial that is counted is a call underway, but for a provider one of whose
  trials ended in an error that is not recorded. An answer or a recorded failure
  of any call of that provider, its trial or not, counts anew.
- `RouteFits`: a call has noted one outcome for each model before its own, and nothing has
  reached whoever asked from an attempt that may be repeated.

The breaker's filter is modelled by what it keeps of times in order (`Recent`): those too
old come first.

**Model-checked only.**

- Liveness (`ReviewEnds`, `EveryJobSettles`, `WorkMovesOn`, `ReviewMovesOn`,
  `ApprovedCallsAreMade`, `EventuallyTold`, `EveryOccurrenceFires`,
  `CountedReviewsMove`, `NothingHangs`, and parts of `FeedTells` and others): the
  prover has no support for fairness and ENABLED.
- `OverIsSaid` adds up spend with a fold over a set of calls, `OneVerdict` and
  `WorkArrives` weigh votes and walk routes with folds over sequences, and
  `StorageHolds` selects what is still to run (`SelectSeq`) and walks a list page by
  page: the prover knows no facts about folds and selections. `DueAndUp` compares searches and climbs with their
  definitions over whole calendars. (Induction along a sequence is within reach, by least
  counterexample, as in `ConversationProofs`.)
- `TurnsSound`: its part about whose answer is posted (`AnswersAreTheirOwn`) holds in
  `TurnsOwner`'s instance and not for every value of the constants: the cases where
  it fails are Replay, HandedOver and Redelivered below.
- `CommandHolds`, `MetersHold` and `FeedTells`: not attempted.

## 6. Where the code parts from what one would state of it

Met while modelling. None is kept as a run: the instances above are chosen so that
the properties speak about the rest, and each case here is a change to one of them.
`W/` is `orchestrator/workflow/`.

*Reviews.*
- DeadEnd: in a department with a quorum the checking department's single approval
  is counted against the quorum again; with two required the work never leaves
  review (`W/quorum-policy.ts:73`), which `W/workflow-engine.ts:62-65` says must not be.
- GateChecker: a gate's answer, a gate that does not apply, and the last stage of a
  pipeline finish the work without asking a checking department
  (`W/gate-policy.ts:109`, `:66`, `W/pipeline-policy.ts:117`); `W/checker.ts:9-11` says
  that even a department that reviews nothing gets the checker.
- ShortQuorum: an approval before the last counts whatever it leaves on the list
  (`W/quorum-policy.ts:73` against `W/review-common.ts:160`).
- OpenStage: a stage without a worker keeps whoever holds the work, and its
  reviewers may include them (`W/pipeline-policy.ts:77`).
- ShortCheck: under the direct policy a checker's approval that leaves a criterion
  outstanding asks for changes with no cap declared and is refused
  (`W/review-common.ts:165`).
- Committee: the first open reviewer is queued under a key that an approval does not
  change, so the second member is never asked (`orchestrator/schedule/scheduler.ts:316`
  against `:196`; the same in `vo run`). `CountedReviewsMove` excepts exactly this wait.
- VerdictTwice: a request for changes whose answer was lost is told twice and, with a
  cap of 1, escalates (`W/review-common.ts:235`).
- Backlog: the canvas offers to hand on work in the backlog (`TaskDetail.tsx:335`),
  which the table does not allow (`task.ts:38`).

*Turns and runs.*
- Replay: a reviewer's run is kept under the task's name and survives a request for
  changes; the author's next turn hands it back as work (`apps/server/src/server.ts:1937`
  against `:1934`; `agent-turn.ts:377`, `agent-run-loop.ts:316`; in `vo run` too).
- HandedOver, OfficeStops, Redelivered: a run in flight saves after the work was
  handed over and cleared (`server.ts:1771`); the task is written and the checkpoint
  not yet deleted (`:1932`); an event is told again on a task that moved on
  (`job-handler.ts:318`).
- Attempts: a lapsed lease is a retry that nobody counts against `maxAttempts`
  (`in-process-queue.ts:187` against `queue/types.ts:82`). A dead letter keeps its key.
- StepLimit: a run out of steps is settled and replayed without an answer for ever
  (`agent-run-loop.ts:129`). Loop counts and `maxSteps` start again with every resume.
- NotKept: a call is decided on a blocked task whose held run could not be written down,
  since the key is compared with a checkpoint only where one holds something
  (`server.ts:1896-1900`): the approval is taken, the work starts over and nothing resumes
  that call. `ApprovedCallsAreMade` says of the calls the office holds that they are made.
- A held call whose checkpoint was trimmed to the brief, or not kept, is forgotten
  though approved; an exhausted budget ends the run before approved calls resume
  (`agent-run-loop.ts:343` before `:346`); loaded tools are lost on a resume.
- A run whose end could not be written down, and whose job is handed out again, has been
  told as completed and may then be held for a person at a call it never made before
  (`agent-run-loop.ts:310-326`).
- A call that is decided puts the whole task it read before its awaits: with a store
  that yields, a cancel in between is overwritten (`server.ts:1824`, `:1897`).

*Scheduling.*
- MonthBudget: a month's budget is judged on the day's spend, since the worker asks
  for `"day"` whatever the period (office-source against `office-snapshot.ts:22`); two usage
  reports that cross warn of the same threshold twice (`server.ts:1473-1485`); a budget
  lowered below the spend never warns; a spend that cannot be read counts as unspent.
- ForgottenFiring: a worker queues an occurrence and stops before recording it; the job
  is done, and the next tick comes after the queue forgot its key, as when the office's
  level was closed for more than an hour. The occurrence fires again (`worker.ts:79`,
  `in-process-queue.ts:155-161`).
- A retrospective is one a day (`scheduler.ts:441-443`) by a key remembered for an hour.
- A definition that never ran looks back only 60 seconds (`scheduler.ts:472-474`).
- A zone change of half an hour passes over a named minute (`cron.ts:257-270`); a field
  of two stars goes by the last.
- `store.list` gives a page of 50 and no route asks for the next: budgets, workers'
  task lists, benches and contests see the first page (`server.ts:1367-1382`, `:1626`, `:1709`).

*Rooms.*
- Watchers: two departments that watch each other report each report back without
  end; only hand-offs count visits (`W/watch.ts:83` against `:102-103`, `W/handoff.ts:77`).
- Work handed on is created after the put and lost if the office stops in between
  (`server.ts:1950`). A bench's turn is read off the newest task's present assignee;
  an entry of a contest may be reassigned to its judge.
- Turn: two tasks of one event share their millisecond and are put in order by ids that are
  random (`packages/core/src/department/bench.ts:101-107`, `server.ts:459`), and a request lists
  the tasks before it puts its own: in both cases somebody is given two turns running.

*Event stream and canvas.*
- The log starts again at 1 with the server while the canvas keeps a larger offset
  (`events.ts:71`): events are missed until the numbers catch up. A fetch that failed is
  not "repaired by the next reconnect" (`follow.ts:166-168`): the offset moved past it.
- After a reload over a gap the offset is not advanced and saves are refused; a
  rollback puts back what was there before over a newer version. Additions and removals of
  departments on the canvas stay local (`office-store.ts:780-853`, `:1337`).

*Stores.*
- A copy that crosses a removal leaves a row without its body (`documents.ts:157-175`
  against `:8-10`).
- SetBack: renaming, starting or stopping an office reads its row and puts the whole of it
  back, `configVersion` included, in no transaction (`server.ts:660-674`, `:690-699`). A change of
  the configuration in between has its version undone, and the next is given the same: two
  snapshots with one version.
- Behind: an event is appended with whatever instant its writer stamped
  (`storage/stores/in-memory.ts:140`, `adapters/sqlite/sqlite-events.ts:73`); one written after a later one was heard
  of lies behind the poller and is never delivered.
- A feed that polls stands still when one instant has a full page; a handler
  that throws makes those after it miss the event; an unsubscription during a poll leaves
  a poller behind; an interrupted migration leaves a file that does not open
  (`runner.ts:75-86`); descending lists with nulls page differently in SQLite
  (`sqlite-store.ts:286-292`); writes beside a transaction are lost with a commit in
  memory and undone with a rollback in SQLite (documented there).

*Records.*
- Long routes that await a model or a connector write back the copy they read: a
  study brings back a withdrawn voice (`employee.ts:517`), a PATCH under way un-terminates
  (`server.ts:1261`), a deleted service is resurrected (`:2503-2550`). `updateEmployee` checks
  a budget and drops it (`employee.ts:559`, `:626-643`).
- Two keys pasted at once lose one and leave a dangling reference; a key replaced in
  place is never fetched again by a worker, one that failed once is remembered as
  missing; a vault that failed to open once stays failed.
- Deletions leave dangling references that make an exported file unreadable;
  supervision can go round; name and cycle checks race with the writes.

*Outside.*
- The breaker's trial is leaked by an error that is not retried, or a stream that is
  left: the provider is refused for good (`router.ts:146`, `:204` against `circuit-breaker.ts:2-6`).
- A tool's call made by a server that dies before its answer is heard is made again
  (`mcp-connector.ts:295`, "Once, and only once"); a stdio server may be started again
  after close; a stale list of tools is written back when the notice comes in the same
  chunk; stdio has no timeout; the brokers of the catalogue are never closed
  (`job-handler.ts:62-72` against `office-tools.ts:15-20`).
- A stream that failed is filed as free although tokens were used; a report adds what
  has no price as 0 in `vo run` (`run-command.ts:90` against `usage.ts:55-58`); an answer lost after
  filing is both filed and said to be lost.
- `vo run`: a second held call is answered against a stale task object and the first
  decision's history entry is lost (`office-run.ts:499-525`).

## 7. What is not modelled

In the modelled parts: titles, texts, the wording of histories, estimates and
priorities; the ranking of eligible colleagues; effects that only notify; two
requests interleaved inside one endpoint of a task (each is one step but for its
clearing and what it hands on, since neither store gives another request its turn);
the batch of a worker's tick in `Turns`, which is one job there; two workers on one
office's queue, which the in-process queue does not support; schemas, prompts and
what models and tools answer, which are choices; texts of expressions and zones,
which are parsed parts.

Not at all, with the reason in `PROJECT.json`: the canvas's screens and local edits,
notifications, skills and memory, the API client's and the CLI's transport, build and
deployment, the vault's ciphers and rotation, the providers' wire formats. Parts that
exist only in their tests (`checkNoProgress`, `staleTasks`, `meterToolCall`,
`LazyToolset.touch`) are left out, and said so in the component's note.

## 8. What is left

1. `AnswersAreTheirOwn` under the conditions `TurnsOwner` has, stated as hypotheses.
2. `Workflow`: quorum and stages (`CountedReviewsMove`'s safety part).
3. An abstract specification of a run (an approved call is made at most once and its
   result stays) implemented by both `Turns` and `Conversation`.
4. The calls that cross inside one endpoint of a task (POST events and PATCH), which
   need a store that yields between a task's read and its write.
