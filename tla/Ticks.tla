--------------------------------- MODULE Ticks ---------------------------------
(* What is due, decided by whichever worker leads (worker/worker.ts,             *)
(* schedule/scheduler.ts, office-snapshot.ts, apps/worker's loop and source):    *)
(* a tick reads the clock, campaigns, reads the office and then what it spent,   *)
(* queues what is due one job at a time and records the occurrences that fired.  *)
(* The office, its workers and the clock move between any two of these steps.    *)
(*                                                                               *)
(* Hours are sets of hours of a day, cron expressions sets of instants: module   *)
(* Clocks has how they are computed.  Leases, retries and the order of jobs are  *)
(* module JobQueue's; here a job is waiting, taken or done.                      *)
EXTENDS Leaders, Sequences, FiniteSetsExt

CONSTANTS
  Office, Depts, People,
  DeptOf,        \* [People -> Depts]
  Hours,         \* [levels -> hours of the day at which the level is open]
  Budgets,       \* [levels -> Budget or NoBudget]
  NoBudget,
  Tasks,         \* [dept, who, reviewers] of each task
  Judges,        \* [contests with every answer in -> the person who judges]
  Recurring,     \* [dept, who, at, last] of each recurring definition
  Day,           \* hours in a day
  DedupeFor,     \* how long the queue remembers a finished job's key
  MaxClock,
  Courses

Levels == {Office} \cup Depts \cup People
Budget == [limit : Nat, warn : Nat, period : {"day", "month"}]

\* Recurring work: whose, when, and when it ran before the office opened.
Never == -1

Definition == [dept : Depts \cup {Nobody}, who : People \cup {Nobody}, at : SUBSET Nat, last : {Never, 0}]

\* A course: the workers, tasks, contests, definitions and switched-on people
\* there are, and what else may happen.  Its bounds: how often which levels are
\* switched, how many calls who pays for, how often a task moves, and until when.
Course ==
  [ workers : SUBSET Workers, tasks : SUBSET DOMAIN Tasks, recurring : SUBSET DOMAIN Recurring,
    contests : SUBSET DOMAIN Judges, improving : SUBSET People, may : SUBSET {"die", "stop", "unreadable"},
    switched : SUBSET Levels, switches : Nat, payers : SUBSET People, calls : Nat,
    moves : Nat, until : 0 .. MaxClock ]

ASSUME TickConstants ==
  /\ DeptOf \in [People -> Depts] /\ Hours \in [Levels -> SUBSET (0 .. Day - 1)]
  /\ Budgets \in [Levels -> Budget \cup {NoBudget}]
  /\ Tasks \in [DOMAIN Tasks -> [dept : Depts, who : People \cup {Nobody}, reviewers : Seq(People)]]
  /\ Judges \in [DOMAIN Judges -> People]
  /\ Recurring \in [DOMAIN Recurring -> Definition]
  /\ MaxClock \in Nat
  /\ Courses \subseteq Course

VARIABLES
  course,
  running,    \* levels nobody stopped; for a person, that they are active
  tasks,      \* [status, revision] of each task
  ready,      \* contests nobody decided
  lastRun,    \* when each definition is recorded to have fired last
  rows,       \* usage: [n, who, at, usd]
  worker,     \* what each worker is doing in its tick
  queue,      \* every job there ever was, by its key
  calls,      \* paid calls being filed
  switches,   \* how often a level was switched
  \* history
  queued,     \* how often each key was queued
  barred,     \* the levels stopped, and those overspent, ever since a worker's tick began
  said,       \* budget warnings given: <<level, standing, day>>
  straddled   \* days that turned while a call was being filed

officeVars == <<running, switches, tasks, ready, lastRun, rows, calls, said, straddled>>
vars == <<clock, lock, election, course, running, switches, tasks, ready, lastRun, rows, worker, queue,
          calls, queued, barred, said, straddled>>

-------------------------------------------------------------------------------
(* Budgets.                                                                *)

DayOf(at) == at \div Day

PeriodStart(period, at) == IF period = "day" THEN DayOf(at) * Day ELSE 0

BelongsTo(l, p) == l \in {Office, DeptOf[p], p}

Usd(rs) == MapThenSumSet(LAMBDA r : r.usd, rs)

Spent(l, period, rs) ==
  Usd({r \in rs : r.at >= PeriodStart(period, clock) /\ BelongsTo(l, r.who)})

Over(l, spent) == Budgets[l] # NoBudget /\ spent >= Budgets[l].limit

BudgetStanding(l, spent) ==
  CASE Budgets[l] = NoBudget -> "ok"
    [] Over(l, spent) -> "over"
    [] spent >= Budgets[l].warn -> "warn"
    [] OTHER -> "ok"

\* Where the levels a call is attributed to stand; only those with a budget.
Standings(p, rs) ==
  [l \in {k \in {Office, DeptOf[p], p} : Budgets[k] # NoBudget} |->
     BudgetStanding(l, Spent(l, Budgets[l].period, rs))]

\* Levels nothing may be queued for, as things stand.
Overspent(l) == Budgets[l] # NoBudget /\ Over(l, Spent(l, Budgets[l].period, rows))

Barred == [stopped |-> Levels \ running, overspent |-> {l \in Levels : Overspent(l)}]

\* What is still stopped, and what still overspent.
EverSince ==
  barred' = [w \in Workers |-> [stopped |-> barred[w].stopped \ running',
                                overspent |-> {l \in barred[w].overspent : Overspent(l)'}]]

-------------------------------------------------------------------------------
(* What is due, of an office as it was read at a moment.                   *)

\* Mutant: nobody asks what a level has spent.
ShutBySwitchOrClock(snapshot, now, l) ==
  CASE l \notin snapshot.running -> "paused"
    [] now % Day \notin Hours[l] -> "closed"
    [] OTHER -> "open"

\* Why each level is shut: a stopped one first, then an overspent one, then the clock.
Shut(snapshot, now, l) ==
  CASE l \notin snapshot.running -> "paused"
    [] Over(l, snapshot.spent[l]) -> "over_budget"
    [] now % Day \notin Hours[l] -> "closed"
    [] OTHER -> "open"

\* The levels closedBecause asks about: the office, the department and the person,
\* where the work names one.
Asked(d, p) == {Office, d, p} \ {Nobody}

Open(snapshot, now, d, p) == \A l \in Asked(d, p) : Shut(snapshot, now, l) = "open"

Job(kind, of, number, d, p) ==
  [key |-> <<kind, of, number>>, who |-> p, about |-> <<of, number>>, levels |-> Asked(d, p)]

\* The first reviewer who is there takes the turn.
ReviewJobs(snapshot, now, t) ==
  LET reviewers == Tasks[t].reviewers
      there == {i \in DOMAIN reviewers : Open(snapshot, now, DeptOf[reviewers[i]], reviewers[i])}
  IN  {Job("agent_review", t, snapshot.tasks[t].revision, DeptOf[reviewers[i]], reviewers[i]) :
         i \in {i \in there : \A j \in there : i <= j}}

RunJobs(snapshot, now, t) ==
  {Job("agent_run", t, snapshot.tasks[t].revision, Tasks[t].dept, p) :
     p \in {p \in {Tasks[t].who} \ {Nobody} : Open(snapshot, now, Tasks[t].dept, p)}}

\* Mutant: a review is keyed by who reviews.
TaskJobsByReviewer(snapshot, now, t) ==
  CASE snapshot.tasks[t].status = "in_review" ->
         {[job EXCEPT !.key = <<"agent_review", job.who, @[3]>>] : job \in ReviewJobs(snapshot, now, t)}
    [] snapshot.tasks[t].status = "in_progress" -> RunJobs(snapshot, now, t)
    [] OTHER -> {}

TaskJobs(snapshot, now, t) ==
  CASE snapshot.tasks[t].status = "in_review" -> ReviewJobs(snapshot, now, t)
    [] snapshot.tasks[t].status = "in_progress" -> RunJobs(snapshot, now, t)
    [] OTHER -> {}

JudgeJobs(snapshot, now, c) ==
  {Job("agent_judge", c, 0, DeptOf[p], p) :
     p \in {p \in {Judges[c]} : c \in snapshot.ready /\ Open(snapshot, now, DeptOf[p], p)}}

LookBackJobs(snapshot, now) ==
  {Job("agent_retrospective", p, DayOf(now), DeptOf[p], p) :
     p \in {p \in course.improving : Open(snapshot, now, DeptOf[p], p)}}

\* Mutant: every definition looks back no further than the minute before.
SinceLately(snapshot, now, d) == now - 1

\* A definition that never ran looks back no further than the minute before.
Since(snapshot, now, d) == IF snapshot.lastRun[d] = Never THEN now - 1 ELSE snapshot.lastRun[d]

\* Mutant: the next occurrence fires, due or not.
DueAhead(snapshot, now, d) ==
  LET ahead == {o \in Recurring[d].at : o > Since(snapshot, now, d)}
  IN  {o \in ahead : \A other \in ahead : o <= other}

\* The first occurrence after that, if there is one and it is due.
DueAt(snapshot, now, d) ==
  LET ahead == {o \in Recurring[d].at : o > Since(snapshot, now, d)}
  IN  {o \in ahead : o <= now /\ \A other \in ahead : o <= other}

\* What fires: passed over while a level is shut, and still due then.
Firing(snapshot, now, d) ==
  {o \in DueAt(snapshot, now, d) : Open(snapshot, now, Recurring[d].dept, Recurring[d].who)}

RecurringJobs(snapshot, now, d) ==
  {Job("recurring", d, o, Recurring[d].dept, Recurring[d].who) : o \in Firing(snapshot, now, d)}

\* Which of them goes first is left open.
ComputeDueWork(snapshot, now) ==
  [ jobs |-> LookBackJobs(snapshot, now)
             \cup (UNION {TaskJobs(snapshot, now, t) : t \in course.tasks})
             \cup (UNION {JudgeJobs(snapshot, now, c) : c \in course.contests})
             \cup (UNION {RecurringJobs(snapshot, now, d) : d \in course.recurring}),
    fired |-> {f \in course.recurring \X (0 .. MaxClock) : f[2] \in Firing(snapshot, now, f[1])} ]

-------------------------------------------------------------------------------
(* A tick.                                                                 *)

NoRead == [running |-> {}, tasks |-> << >>, ready |-> {}, lastRun |-> << >>]

Idle == [phase |-> "idle", now |-> 0, read |-> NoRead, due |-> {}, fired |-> {}, job |-> << >>]

Phases == {"idle", "campaigning", "reading", "pricing", "queueing", "recording", "working",
           "handling", "gone"}

Init ==
  /\ LeadersInit
  /\ course \in Courses
  /\ running = Levels
  /\ tasks = [t \in course.tasks |->
                [status |-> IF Tasks[t].reviewers = << >> THEN "in_progress" ELSE "in_review",
                 revision |-> 1]]
  /\ ready = course.contests
  /\ lastRun = [d \in course.recurring |-> Recurring[d].last]
  /\ rows = {} /\ switches = 0 /\ queue = [k \in {} |-> 0] /\ calls = {}
  /\ worker = [w \in Workers |->
                 [Idle EXCEPT !.phase = IF w \in course.workers THEN "idle" ELSE "gone"]]
  /\ queued = [k \in {} |-> 0] /\ barred = [w \in Workers |-> [stopped |-> {}, overspent |-> {}]] /\ said = {} /\ straddled = {}

Goes(w, phase) == worker' = [worker EXCEPT ![w] = [@ EXCEPT !.phase = phase]]

\* recoverExpired: jobs whose worker went away wait again, sooner or later.
Orphans == {k \in DOMAIN queue : queue[k].state = "taken" /\ worker[queue[k].by].phase = "gone"}

Begin(w) ==
  /\ worker[w].phase = "idle"
  /\ \E back \in SUBSET Orphans :
       queue' = [k \in DOMAIN queue |->
                   IF k \in back THEN [queue[k] EXCEPT !.state = "waiting"] ELSE queue[k]]
  /\ worker' = [worker EXCEPT ![w] = [Idle EXCEPT !.phase = "campaigning", !.now = clock]]
  /\ barred' = [barred EXCEPT ![w] = Barred]
  /\ UNCHANGED <<leaderVars, course, officeVars, queued>>

Campaign(w) ==
  /\ worker[w].phase = "campaigning"
  /\ \/ NeedNotAsk(w) /\ election[w].answer = "silent" /\ UNCHANGED leaderVars /\ Goes(w, "reading")
     \/ (Ask(w) \/ AcquireLock(w)) /\ UNCHANGED worker
     \/ Learn(w) /\ Goes(w, IF election[w].answer = "taken" THEN "reading" ELSE "working")
  /\ UNCHANGED <<course, officeVars, queue, queued, barred>>

\* The office as the worker reads it.  What it cannot read schedules nothing.
ReadOffice(w) ==
  /\ worker[w].phase = "reading"
  /\ \/ LET read == [running |-> running, tasks |-> tasks, ready |-> ready, lastRun |-> lastRun]
        IN  worker' = [worker EXCEPT ![w] = [@ EXCEPT !.phase = "pricing", !.read = read]]
     \/ "unreadable" \in course.may /\ Goes(w, "working")
  /\ UNCHANGED <<leaderVars, course, officeVars, queue, queued, barred>>

\* Whatever period a budget has, the figures asked for are the day's.
SpentToday == [l \in Levels |-> Spent(l, "day", rows)]

\* Figures that cannot be read count as nothing spent; the levels judged by
\* them are no longer barred as far as this tick can know.
ReadSpend(w) ==
  /\ worker[w].phase = "pricing"
  /\ \E priced \in {TRUE} \cup {b \in {FALSE} : "unreadable" \in course.may} :
       LET spent == IF priced THEN SpentToday ELSE [l \in Levels |-> 0]
           read == worker[w].read
           due == ComputeDueWork([running |-> read.running, tasks |-> read.tasks,
                                  ready |-> read.ready, lastRun |-> read.lastRun,
                                  spent |-> spent], worker[w].now)
       IN  /\ worker' = [worker EXCEPT ![w] =
                           [Idle EXCEPT !.phase = "queueing", !.now = worker[w].now,
                                        !.due = due.jobs, !.fired = due.fired]]
           /\ barred' = [barred EXCEPT ![w] =
                           IF priced THEN @ ELSE [@ EXCEPT !.overspent = {}]]
  /\ UNCHANGED <<leaderVars, course, officeVars, queue, queued>>

\* A key is known while its job waits or is taken, and for a while after.
Known(key) ==
  key \in DOMAIN queue /\ (queue[key].state # "done" \/ clock < queue[key].at + DedupeFor)

Put(f, k, v) == [x \in DOMAIN f \cup {k} |-> IF x = k THEN v ELSE f[x]]

Times(key) == IF key \in DOMAIN queued THEN queued[key] ELSE 0

Enqueue(w) ==
  /\ worker[w].phase = "queueing"
  /\ \E job \in worker[w].due :
       /\ IF Known(job.key) THEN UNCHANGED <<queue, queued>>
          ELSE /\ queue' = Put(queue, job.key,
                              [who |-> job.who, about |-> job.about, state |-> "waiting",
                               at |-> clock, by |-> Nobody])
               /\ queued' = Put(queued, job.key, Times(job.key) + 1)
       /\ worker' = [worker EXCEPT ![w] = [@ EXCEPT !.due = worker[w].due \ {job}]]
  /\ UNCHANGED <<leaderVars, course, officeVars, barred>>

\* Mutant: the office records that the definition ran now.
RecordNow(w) ==
  /\ worker[w].phase = "queueing" /\ worker[w].due = {}
  /\ lastRun' = [d \in DOMAIN lastRun |->
                   IF \E o \in 0 .. MaxClock : <<d, o>> \in worker[w].fired THEN clock
                   ELSE lastRun[d]]
  /\ worker' = [worker EXCEPT ![w] = [@ EXCEPT !.phase = "working", !.fired = {}]]
  /\ UNCHANGED <<leaderVars, course, running, switches, tasks, ready, rows, calls, said, straddled, queue,
                 queued, barred>>

\* Once all is queued the occurrences that fired are recorded, and not before.
Record(w) ==
  /\ worker[w].phase = "queueing" /\ worker[w].due = {}
  /\ lastRun' = [d \in DOMAIN lastRun |->
                   LET fired == {o \in 0 .. MaxClock : <<d, o>> \in worker[w].fired}
                   IN  IF fired = {} THEN lastRun[d] ELSE Max(fired)]
  /\ worker' = [worker EXCEPT ![w] = [@ EXCEPT !.phase = "working", !.fired = {}]]
  /\ UNCHANGED <<leaderVars, course, running, switches, tasks, ready, rows, calls, said, straddled, queue,
                 queued, barred>>

Claim(w) ==
  /\ worker[w].phase = "working"
  /\ LET waiting == {k \in DOMAIN queue : queue[k].state = "waiting"}
     IN  \/ /\ waiting = {} /\ Goes(w, "idle") /\ UNCHANGED queue
         \/ \E k \in waiting :
              /\ queue' = [queue EXCEPT ![k] = [@ EXCEPT !.state = "taken", !.by = w]]
              /\ worker' = [worker EXCEPT ![w] = [@ EXCEPT !.phase = "handling", !.job = k]]
  /\ UNCHANGED <<leaderVars, course, officeVars, queued, barred>>

\* A turn taken moves its task on: to a review, to the next turn, or to rest.
Moved(t) ==
  /\ \E s \in {"done"} \cup {a \in {"in_progress", "in_review"} : tasks[t].revision < course.moves} :
       tasks' = [tasks EXCEPT ![t] = [status |-> s, revision |-> @.revision + 1]]
  /\ UNCHANGED ready

Handled(kind, of) ==
  CASE kind \in {"agent_run", "agent_review"} -> Moved(of)
    [] kind = "agent_judge" -> ready' = ready \ {of} /\ UNCHANGED tasks
    [] OTHER -> UNCHANGED <<tasks, ready>>

\* The batch may end after any job.
Finish(w) ==
  /\ worker[w].phase = "handling"
  /\ LET k == worker[w].job  about == queue[worker[w].job].about
     IN  /\ IF k[1] \in {"agent_run", "agent_review"} /\ tasks[about[1]].revision # about[2]
            THEN UNCHANGED <<tasks, ready>> ELSE Handled(k[1], about[1])
         /\ queue' = [queue EXCEPT ![k] =
                         [@ EXCEPT !.state = "done", !.at = clock, !.by = Nobody]]
  /\ \E phase \in {"working", "idle"} :
       worker' = [worker EXCEPT ![w] = [@ EXCEPT !.phase = phase, !.job = << >>]]
  /\ UNCHANGED <<leaderVars, course, running, switches, lastRun, rows, calls, said, straddled, queued, barred>>

Alive == {w \in Workers : worker[w].phase # "gone"}

\* The loop is told to stop: it resigns between two ticks.  One worker stays.
Stop(w) ==
  /\ "stop" \in course.may /\ worker[w].phase = "idle" /\ Alive # {w}
  /\ Resign(w)
  /\ Goes(w, "gone")
  /\ UNCHANGED <<course, officeVars, queue, queued, barred>>

\* A worker dies in the middle of anything; early enough for its lease to lapse
\* the course's end.
Crash(w) ==
  /\ "die" \in course.may /\ w \in Alive /\ Alive # {w} /\ clock + Lease <= course.until
  /\ Die(w)
  /\ worker' = [worker EXCEPT ![w] = [Idle EXCEPT !.phase = "gone"]]
  /\ UNCHANGED <<course, officeVars, queue, queued, barred>>

-------------------------------------------------------------------------------
(* The office meanwhile.                                                   *)

\* Somebody stops a level or puts it back to work.
Switch(l) ==
  /\ l \in course.switched /\ switches < course.switches
  /\ switches' = switches + 1
  /\ running' = IF l \in running THEN running \ {l} ELSE running \cup {l}
  /\ UNCHANGED <<leaderVars, course, tasks, ready, lastRun, rows, calls, said, straddled, worker,
                 queue, queued>>
  /\ EverSince

Filed == Cardinality(rows) + Cardinality(calls)

\* A paid call is filed in three awaits: where the levels stand, the row, where
\* they stand then.  Its moment is the call's own, which may be earlier.
File(p) ==
  /\ p \in course.payers /\ Filed < course.calls /\ \A c \in calls : c.who # p
  /\ \E at \in {clock, clock - 1} \cap Nat, usd \in {1, 2} :
       calls' = calls \cup {[who |-> p, at |-> at, usd |-> usd, before |-> Standings(p, rows),
                            stored |-> FALSE]}
  /\ UNCHANGED <<leaderVars, course, running, switches, tasks, ready, lastRun, rows, said, straddled, worker,
                 queue, queued, barred>>

Store(c) ==
  /\ ~c.stored
  /\ rows' = rows \cup {[n |-> Cardinality(rows), who |-> c.who, at |-> c.at, usd |-> c.usd]}
  /\ calls' = (calls \ {c}) \cup {[c EXCEPT !.stored = TRUE]}
  /\ UNCHANGED <<leaderVars, course, running, switches, tasks, ready, lastRun, said, straddled, worker, queue,
                 queued>>
  /\ EverSince

\* Mutant: a warning is only given on the way from nothing spent to near it.
WarnNear(c) ==
  /\ c.stored
  /\ LET after == Standings(c.who, rows)
     IN  said' = said \cup {<<l, after[l], DayOf(clock)>> :
                            l \in {k \in DOMAIN after : after[k] # "ok" /\ c.before[k] = "ok"}}
  /\ calls' = calls \ {c}
  /\ UNCHANGED <<leaderVars, course, running, switches, tasks, ready, lastRun, rows, straddled, worker, queue,
                 queued, barred>>

\* The crossing, and only the crossing, is warned about.
Warn(c) ==
  /\ c.stored
  /\ LET after == Standings(c.who, rows)
     IN  said' = said \cup {<<l, after[l], DayOf(clock)>> :
                            l \in {k \in DOMAIN after : after[k] # "ok" /\ after[k] # c.before[k]}}
  /\ calls' = calls \ {c}
  /\ UNCHANGED <<leaderVars, course, running, switches, tasks, ready, lastRun, rows, straddled, worker, queue,
                 queued, barred>>

\* The clock: when the day turns, levels with a budget for the day may spend again.
Turn ==
  /\ clock < course.until
  /\ TimePasses
  /\ straddled' = IF calls # {} /\ DayOf(clock') # DayOf(clock) THEN straddled \cup {DayOf(clock')}
                  ELSE straddled
  /\ UNCHANGED <<course, running, switches, tasks, ready, lastRun, rows, calls, said, worker, queue, queued>>
  /\ EverSince

-------------------------------------------------------------------------------
Tick(w) ==
  \/ Begin(w) \/ Campaign(w) \/ ReadOffice(w) \/ ReadSpend(w) \/ Enqueue(w) \/ Record(w)
  \/ Claim(w) \/ Finish(w)

Next ==
  \/ Turn
  \/ \E w \in Workers : Tick(w) \/ Stop(w) \/ Crash(w)
  \/ \E l \in Levels : Switch(l)
  \/ \E p \in People : File(p)
  \/ \E c \in calls : Store(c) \/ Warn(c)

Spec == Init /\ [][Next]_vars

\* The loop goes round, what is awaited comes back, time passes.
FairSpec == Spec /\ WF_vars(Turn) /\ \A w \in Workers : WF_vars(Tick(w))

-------------------------------------------------------------------------------
TypeOK ==
  /\ LeadersTypeOK
  /\ course \in Courses /\ running \subseteq Levels /\ ready \subseteq course.contests
  /\ tasks \in [course.tasks -> [status : {"in_progress", "in_review", "done"}, revision : Nat]]
  /\ lastRun \in [course.recurring -> -1 .. clock]
  /\ \A w \in Workers : worker[w].phase \in Phases
  /\ barred \in [Workers -> [stopped : SUBSET Levels, overspent : SUBSET Levels]]
  /\ \A k \in DOMAIN queue : queue[k].who \in People \cup {Nobody}
                           /\ queue[k].state \in {"waiting", "taken", "done"}

\* An occurrence of recurring work is queued once, however many workers think
\* they lead, and whichever of them stalls between queueing it and recording
\* it, while the queue remembers for longer than they stall; no occurrence of
\* work that ran before is recorded as past and was never queued
\* (scheduler.ts:470-514, worker.ts:73-82).
OccurrencesOnce ==
  \A d \in course.recurring : \A o \in Recurring[d].at :
    /\ Times(<<"recurring", d, o>>) <= 1
    /\ Recurring[d].last # Never /\ o \in (Recurring[d].last + 1) .. lastRun[d] =>
         Times(<<"recurring", d, o>>) = 1

\* One reviewer is asked about a revision, although another may be the first
\* who is there at the next tick, one turn is queued for each revision and one
\* verdict for a contest (scheduler.ts:314, 357, 403), while the queue remembers
\* them.  A look back is left out: its day outlasts the hour a key is remembered.
OneTurnEach ==
  /\ \A k \in DOMAIN queued : k[1] # "agent_retrospective" => queued[k] <= 1
  /\ \A t \in course.tasks, n \in 1 .. course.moves :
       Cardinality({k \in DOMAIN queue : k[1] = "agent_review" /\ queue[k].about = <<t, n>>}) <= 1

\* Nothing is queued that belongs to a level which was stopped, or over its
\* budget, ever since the tick began (closedBecause, scheduler.ts:212-257):
\* however stale a tick, it is not staler than itself.
QueuedInGoodFaith ==
  [][\A w \in Workers : \A job \in worker[w].due \ worker'[w].due :
       worker[w].phase = "queueing" /\ queue' # queue =>
         job.levels \cap (barred[w].stopped \cup barred[w].overspent) = {}]_vars

\* What is due is queued once, and nothing else is.
QueuedAsDue == [](TypeOK /\ OccurrencesOnce /\ OneTurnEach) /\ QueuedInGoodFaith

\* Whenever a level is over its budget and no call is on its way, somebody was
\* told so that day: with calls crossing each other no crossing goes unsaid
\* (server.ts:1474-1487), unless the day turned under one of them.
OverIsSaid ==
  \A l \in Levels :
    Overspent(l) /\ calls = {} /\ DayOf(clock) \notin straddled =>
      <<l, "over", DayOf(clock)>> \in said

\* Every occurrence of work that ran before is queued in the end, whoever led
\* and died or stepped down meanwhile, once the hours are open (the course has
\* no stopped levels and the clock stops at an open hour).
EveryOccurrenceFires ==
  <>(course.switches = 0 /\ "unreadable" \notin course.may =>
       \A d \in course.recurring : \A o \in Recurring[d].at :
         Recurring[d].last # Never /\ o > Recurring[d].last =>
           <<"recurring", d, o>> \in DOMAIN queued)
===============================================================================
