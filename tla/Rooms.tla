--------------------------------- MODULE Rooms ---------------------------------
(***************************************************************************)
(* Work between departments: what finished work hands on, what watching    *)
(* departments raise (workflow/handoff.ts, watch.ts), who it reaches       *)
(* (perform-create-work.ts, core/department/bench.ts), and the contests a  *)
(* shootout bench makes of it (core/task/contest.ts), up to the verdict of *)
(* a judge or a person.                                                    *)
(*                                                                         *)
(* How a review decides is module Workflow's; here an event leaves a task  *)
(* in any status the state machine lets one event reach.  A task is named  *)
(* by its place in the order in which the store took it.  Two pieces of    *)
(* work may share a millisecond and ids are drawn at random, so the newest *)
(* by stamp and id need not be the last one taken; and a list may be read  *)
(* before the work of another request is written.                          *)
(***************************************************************************)
EXTENDS TaskStates, Naturals, FiniteSets, SequencesExt

CONSTANTS
  Depts,
  Staff,        \* [Depts -> SUBSET of people]
  Arrows,       \* handoff and watching arrows, in the order the office lists them
  Benches,      \* names of benches -> Bench
  Nobody,
  Visits,       \* MAX_VISITS_PER_DEPARTMENT
  PageSize,     \* how many tasks a list returns
  Courses       \* what may happen in one course of events, one of these

People == UNION {Staff[d] : d \in Depts}
BenchNames == DOMAIN Benches

Assign == [kind : {"anyone"}] \cup [kind : {"named"}, who : People]
            \cup [kind : {"bench"}, bench : BenchNames]

Moments == {"work_started", "work_finished", "work_went_wrong", "decision_wanted"}

Arrow == [kind : {"handoff", "watches"}, from : Depts, to : Depts, enabled : BOOLEAN,
          assign : Assign, moments : SUBSET Moments]

Bench == [room : Depts, members : Seq(People), strategy : {"round_robin", "shootout"},
          judge : People \cup {Nobody}]

\* The bounds are those of a course: the work people ask for, each piece once
\* a department and a way of assigning it, what else may happen (somebody is
\* paused, the office stops once), whom work is reassigned to, the statuses work takes,
\* how often a bench misreads its turn, and the tasks there are in the end.
Course ==
  [ asks : Seq(Depts \X Assign), may : SUBSET {"pause", "stop"}, to : SUBSET People,
    statuses : SUBSET RestingStatuses, astray : Nat, tasks : Nat ]

\* What the constants have to be.
RoomConstants ==
  /\ Courses \subseteq Course
  /\ Nobody \notin People
  /\ \A i \in DOMAIN Arrows : Arrows[i] \in Arrow
  /\ \A b \in BenchNames :
       /\ Benches[b] \in Bench
       /\ Benches[b].judge \notin ToSet(Benches[b].members)
       /\ IsInjective(Benches[b].members)
  /\ {Visits, PageSize} \subseteq Nat \ {0}

VARIABLES
  course,     \* the course of events, chosen once
  tasks,      \* every task of the office, in the order they were created
  active,     \* the people who are active
  handing,    \* tasks written whose effects are still to be carried out
  judging,    \* verdicts a judge came to and the office has not been told for sure
  contests,   \* contests begun
  stops,      \* how often the office stopped
  asked,      \* tasks asked for by people
  lost,       \* history: tasks whose effects went with the process
  handed,     \* history: [bench -> sequence of the people it placed work with]
  astray,     \* history: [bench -> how often its newest work did not look the newest]
  disturbed,  \* history: benches whose members or placements somebody changed
  told        \* history: [task, arrow] told to a person instead of handed on

vars == <<course, tasks, active, handing, judging, contests, stops, asked, lost, handed,
          astray, disturbed, told>>

NoBench == "no bench"
NoContest == 0

Task ==
  [ room : Depts, who : People \cup {Nobody}, status : RestingStatuses, route : Seq(Depts),
    bench : BenchNames \cup {NoBench},
    latest : BOOLEAN,              \* by stamp and id, behind all its bench had placed
    contest : Nat, won : BOOLEAN,
    cause : Nat, along : Nat ]     \* the task and the arrow it came of; 0 for none

Init ==
  /\ course \in Courses
  /\ tasks = << >> /\ active = People /\ handing = {} /\ judging = {} /\ contests = 0
  /\ stops = 0 /\ asked = 0 /\ lost = {} /\ handed = [b \in BenchNames |-> << >>]
  /\ astray = [b \in BenchNames |-> 0] /\ disturbed = {} /\ told = {}

-------------------------------------------------------------------------------
(* Who takes a piece of work.                                              *)

\* A list of the tasks of one room, which no caller asks for a second page of.
InRoom(ts, d) ==
  LET there == SetToSortSeq({i \in DOMAIN ts : ts[i].room = d}, <)
  IN  ToSet(SubSeq(there, 1, IF Len(there) < PageSize THEN Len(there) ELSE PageSize))

CanWork(bench, staff) == SelectSeq(bench.members, LAMBDA p : p \in staff /\ p \in Staff[bench.room])

\* Mutant: the turn is read off everything in the room.
NewestInRoom(ts, b) == InRoom(ts, Benches[b].room)

Placed(ts, b) == {i \in InRoom(ts, Benches[b].room) : ts[i].bench = b}

\* Whose turn it is, read off the newest work the bench placed, by stamp and id.
NextFromBench(ts, b, staff) ==
  LET turn == CanWork(Benches[b], staff)
      placed == Placed(ts, b)
      newest == Max({i \in placed : ts[i].latest})
      last == IF placed = {} \/ ts[newest].who \notin ToSet(turn) THEN 0
              ELSE CHOOSE i \in DOMAIN turn : turn[i] = ts[newest].who
  IN  IF turn = << >> THEN Nobody ELSE turn[(last % Len(turn)) + 1]

\* Everybody the work goes to: a sequence, empty when it is placed with nobody.
PlaceOnBench(ts, b, staff) ==
  IF Benches[b].strategy = "shootout" THEN CanWork(Benches[b], staff)
  ELSE SelectSeq(<<NextFromBench(ts, b, staff)>>, LAMBDA p : p # Nobody)

\* Somebody active in the room; which one rests on skills and open tasks, except
\* that a named person who is there takes it.
ChooseEveryone(ts, assign, d, staff) ==
  LET there == Staff[d] \cap staff
  IN  CASE assign.kind = "bench" ->
             {IF Benches[assign.bench].room # d THEN << >> ELSE PlaceOnBench(ts, assign.bench, staff)}
        [] assign.kind = "named" /\ assign.who \in there -> {<<assign.who>>}
        [] OTHER -> IF there = {} THEN {<< >>} ELSE {<<p>> : p \in there}

NewTask(d, who, route, bench, latest, contest, cause, along) ==
  [ room |-> d, who |-> who, status |-> IF who = Nobody THEN "backlog" ELSE "assigned",
    route |-> route, bench |-> bench, latest |-> latest, contest |-> contest, won |-> FALSE,
    cause |-> cause, along |-> along ]

\* Mutant: the bench is recorded although it placed the work with nobody.
CreateWorkOfBench(d, assign, chosen, latest, route, contest, cause, along) ==
  LET bench == IF assign.kind = "bench" THEN assign.bench ELSE NoBench
  IN  IF chosen = << >> THEN <<NewTask(d, Nobody, route, bench, TRUE, NoContest, cause, along)>>
      ELSE [i \in DOMAIN chosen |->
              NewTask(d, chosen[i], route, bench, latest,
                      IF bench # NoBench /\ Benches[bench].strategy = "shootout"
                      THEN contest ELSE NoContest, cause, along)]

\* The work this makes: one piece, or one per entrant of a contest.
CreateWork(d, assign, chosen, latest, route, contest, cause, along) ==
  LET bench == IF assign.kind = "bench" /\ chosen # << >> THEN assign.bench ELSE NoBench
      isContest == bench # NoBench /\ Benches[bench].strategy = "shootout"
  IN  IF chosen = << >> THEN <<NewTask(d, Nobody, route, bench, TRUE, NoContest, cause, along)>>
      ELSE [i \in DOMAIN chosen |->
              NewTask(d, chosen[i], route, bench, latest,
                      IF isContest THEN contest ELSE NoContest, cause, along)]

-------------------------------------------------------------------------------
(* What should happen elsewhere.                                           *)

VisitsOf(route, d) == Cardinality({i \in DOMAIN route : route[i] = d})

\* Mutant: one visit more.
HandoffEffectsOnceMore(i, t) ==
  LET route == Append(t.route, t.room)
  IN  IF t.contest # NoContest THEN {}
      ELSE {[arrow |-> a, route |-> route, ask |-> VisitsOf(route, Arrows[a].to) <= Visits] :
              a \in {x \in DOMAIN Arrows :
                       Arrows[x].kind = "handoff" /\ Arrows[x].enabled /\ Arrows[x].from = t.room}}

\* An entry of a contest travels nowhere; work that has been there twice asks a
\* person instead.
HandoffEffects(i, t) ==
  LET route == Append(t.route, t.room)
  IN  IF t.contest # NoContest THEN {}
      ELSE {[arrow |-> a, route |-> route, ask |-> VisitsOf(route, Arrows[a].to) < Visits] :
              a \in {x \in DOMAIN Arrows :
                       Arrows[x].kind = "handoff" /\ Arrows[x].enabled /\ Arrows[x].from = t.room}}

\* `holds`: the event asked a person for an approval.
MomentOf(before, after, holds) ==
  CASE holds -> "decision_wanted"
    [] ~holds /\ after = before -> "nothing"
    [] ~holds /\ after # before /\ after = "in_progress" -> "work_started"
    [] ~holds /\ after # before /\ after = "done" -> "work_finished"
    [] ~holds /\ after # before /\ after \in {"blocked", "escalated"} -> "work_went_wrong"
    [] OTHER -> "nothing"

WatchEffects(t, moment) ==
  {[arrow |-> a, route |-> Append(t.route, t.room), ask |-> TRUE] :
     a \in {x \in DOMAIN Arrows :
              /\ Arrows[x].kind = "watches" /\ Arrows[x].enabled /\ Arrows[x].to = t.room
              /\ moment \in Arrows[x].moments}}

\* Where the work goes: a handoff's far end, or whoever was watching.
Receives(a) == IF Arrows[a].kind = "handoff" THEN Arrows[a].to ELSE Arrows[a].from

\* In the order of the arrows, hand-offs before watchers.
InOrder(effects) ==
  LET place(e) == e.arrow + (IF Arrows[e.arrow].kind = "watches" THEN Len(Arrows) ELSE 0)
  IN  SetToSortSeq(effects, LAMBDA e, f : place(e) < place(f))

Office == [tasks |-> tasks, contests |-> contests, handed |-> handed, astray |-> astray,
           told |-> told]

Strays(r) == (IF r.old THEN 1 ELSE 0) + (IF r.latest THEN 0 ELSE 1)

\* The ways a turn can be read and taken: off a list from before another request's
\* work was written (`old`), and by work that shares the instant of the bench's newest
\* and draws the lower id (not `latest`).  `own`: this event has made work already,
\* and has read it.
Readings(o, assign, own) ==
  {r \in [old : BOOLEAN, latest : BOOLEAN] :
     Strays(r) > 0 =>
       /\ assign.kind = "bench" /\ Benches[assign.bench].strategy = "round_robin"
       /\ Placed(o.tasks, assign.bench) # {}
       /\ r.old => ~own /\ Last(o.tasks).bench = assign.bench
       /\ o.astray[assign.bench] + Strays(r) <= course.astray}

Listed(ts, r) == IF r.old THEN Front(ts) ELSE ts

\* The office with one more piece of work, or a contest of them, for `chosen`.
WithWork(o, d, assign, chosen, r, route, cause, along) ==
  LET byBench == assign.kind = "bench" /\ chosen # << >>
  IN  [o EXCEPT
         !.tasks = @ \o CreateWork(d, assign, chosen, r.latest, route, o.contests + 1, cause, along),
         !.contests = IF byBench /\ Benches[assign.bench].strategy = "shootout" THEN @ + 1 ELSE @,
         !.handed = IF byBench THEN [@ EXCEPT ![assign.bench] = @ \o chosen] ELSE @,
         !.astray = IF byBench THEN [@ EXCEPT ![assign.bench] = @ + Strays(r)] ELSE @]

\* One office for every way the ranking of the receiving room, and the turn of its
\* bench, can fall.
Carry(o, i, e, staff) ==
  LET d == Receives(e.arrow)
      assign == Arrows[e.arrow].assign
  IN  IF ~e.ask THEN {[o EXCEPT !.told = @ \cup {<<i, e.arrow>>}]}
      ELSE UNION {{WithWork(o, d, assign, chosen, r, e.route, i, e.arrow) :
                     chosen \in ChooseEveryone(Listed(o.tasks, r), assign, d, staff)} :
                    r \in Readings(o, assign, Len(o.tasks) > Len(tasks))}

CarriedOut(o, i, effects, staff) ==
  FoldLeft(LAMBDA offices, e : UNION {Carry(x, i, e, staff) : x \in offices},
           {o}, InOrder(effects))

Becomes(o) ==
  /\ Len(o.tasks) <= course.tasks
  /\ tasks' = o.tasks /\ contests' = o.contests /\ handed' = o.handed /\ astray' = o.astray
  /\ told' = o.told

-------------------------------------------------------------------------------
(* The office's routes.                                                    *)

\* Somebody asks for work: from a bench of the room, for a person whoever it is,
\* or for the backlog.
Asked(d, assign, r) ==
  CASE assign.kind = "bench"  -> PlaceOnBench(Listed(tasks, r), assign.bench, active)
    [] assign.kind = "named"  -> <<assign.who>>
    [] assign.kind = "anyone" -> << >>

AskForWork(d, assign) ==
  /\ asked < Len(course.asks) /\ asked' = asked + 1
  /\ course.asks[asked + 1] = <<d, assign>>
  /\ assign.kind = "bench" => Benches[assign.bench].room = d
  /\ \E r \in Readings(Office, assign, FALSE) :
       Becomes(WithWork(Office, d, assign, Asked(d, assign, r), r, << >>, 0, 0))
  /\ UNCHANGED <<course, active, handing, judging, stops, lost, disturbed>>

\* The statuses one event may leave behind.
Reached(s) ==
  {x \in course.statuses : \/ CanTransition(s, x) /\ x \notin {"assigned", "backlog"}
                    \/ \E v \in {"approved", "changes_requested"} :
                         CanTransition(s, v) /\ CanTransition(v, x)}

\* The statuses of a run in flight; for any other the office clears files, and
\* answers other requests, before it turns to the effects.
ATTEMPT_STATUSES == {"in_progress", "blocked"}

Effects(i, t, moment) ==
  (IF moment = "work_finished" THEN HandoffEffects(i, t) ELSE {}) \cup WatchEffects(t, moment)

\* An event about a task: it is written, and what should happen elsewhere is
\* carried out, at once or after the files are cleared.
Moved(i, t, moment) ==
  LET effects == Effects(i, t, moment)
      written == [Office EXCEPT !.tasks = [@ EXCEPT ![i] = t]]
  IN  /\ IF t.status \in ATTEMPT_STATUSES \/ effects = {}
         THEN /\ \E o \in CarriedOut(written, i, effects, active) : Becomes(o)
              /\ UNCHANGED handing
         ELSE /\ Becomes(written)
              /\ handing' = handing \cup {[task |-> i, effects |-> effects, staff |-> active]}
      /\ UNCHANGED <<course, active, judging, stops, asked, lost>>

HandleEvent(i, s, holds) ==
  /\ s \in Reached(tasks[i].status)
  /\ holds => s \in {"in_review", "blocked"}
  /\ Moved(i, [tasks[i] EXCEPT !.status = s], MomentOf(tasks[i].status, s, holds))
  /\ UNCHANGED disturbed

Reassign(i, p) ==
  /\ p \in course.to /\ p # tasks[i].who
  /\ CanTransition(tasks[i].status, "transferred")
  /\ Moved(i, [tasks[i] EXCEPT !.status = "assigned", !.who = p],
           MomentOf(tasks[i].status, "assigned", FALSE))
  /\ disturbed' = disturbed \cup ({tasks[i].bench} \ {NoBench})

\* Mutant: the effects are tried again after they were carried out.
CarryOutAgain(h) ==
  /\ \E o \in CarriedOut(Office, h.task, h.effects, h.staff) : Becomes(o)
  /\ UNCHANGED <<course, active, handing, judging, stops, asked, lost, disturbed>>

\* The files are cleared and the effects carried out, with the people as they
\* stood when the event arrived.
CarryOut(h) ==
  /\ handing' = handing \ {h}
  /\ \E o \in CarriedOut(Office, h.task, h.effects, h.staff) : Becomes(o)
  /\ UNCHANGED <<course, active, judging, stops, asked, lost, disturbed>>

\* Somebody is paused, or takes work again.
SetStatus(p) ==
  /\ "pause" \in course.may
  /\ active' = IF p \in active THEN active \ {p} ELSE active \cup {p}
  /\ disturbed' = disturbed \cup {b \in BenchNames : p \in ToSet(Benches[b].members)}
  /\ UNCHANGED <<course, tasks, handing, judging, contests, stops, asked, lost, handed, astray, told>>

\* Nothing goes back to an event whose effects were not carried out.
Stop ==
  /\ "stop" \in course.may /\ stops = 0 /\ stops' = stops + 1
  /\ lost' = lost \cup {h.task : h \in handing}
  /\ handing' = {}
  /\ UNCHANGED <<course, tasks, active, judging, contests, asked, handed, astray, disturbed, told>>

-------------------------------------------------------------------------------
(* Contests.                                                               *)

Entries(c) == {i \in DOMAIN tasks : tasks[i].contest = c}

Standing(c) ==
  CASE \E i \in Entries(c) : tasks[i].won -> "decided"
    [] ~(\E i \in Entries(c) : tasks[i].won) /\
       \E i \in Entries(c) : tasks[i].status \notin TerminalStatuses -> "running"
    [] ~(\E i \in Entries(c) : tasks[i].won) /\
       (\A i \in Entries(c) : tasks[i].status \in TerminalStatuses) /\
       \E i \in Entries(c) : tasks[i].status = "done" -> "ready"
    [] OTHER -> "running"

\* Mutant: a later verdict replaces the first.
MayWinAgain(i) == tasks[i].status = "done"

\* One verdict, on finished work; the contest is read out of the room it ran in.
MayWin(i) ==
  LET entries == Entries(tasks[i].contest) \cap InRoom(tasks, tasks[i].room)
  IN  /\ i \in entries /\ tasks[i].status = "done"
      /\ \A j \in entries : ~tasks[j].won

RecordContestWin(i) ==
  /\ tasks[i].contest # NoContest
  /\ tasks' = IF MayWin(i) THEN [tasks EXCEPT ![i].won = TRUE] ELSE tasks

\* A person decides, once an answer is in.
PersonDecides(i) ==
  /\ RecordContestWin(i) /\ MayWin(i)
  /\ UNCHANGED <<course, active, handing, judging, contests, stops, asked, lost, handed, astray, disturbed, told>>

\* The judge of the bench reads a contest that is ready, and chooses an answer.
JudgeChooses(i) ==
  LET t == tasks[i] IN
  /\ t.contest # NoContest /\ Standing(t.contest) = "ready" /\ t.status = "done"
  /\ Benches[t.bench].judge \in active
  /\ \A v \in judging : tasks[v].contest # t.contest
  /\ judging' = judging \cup {i}
  /\ UNCHANGED <<course, tasks, active, handing, contests, stops, asked, lost, handed, astray, disturbed, told>>

\* The office is told; when its answer is lost the job comes back and tells again.
JudgeTells(i, heard) ==
  /\ i \in judging
  /\ RecordContestWin(i)
  /\ judging' = IF heard THEN judging \ {i} ELSE judging
  /\ UNCHANGED <<course, active, handing, contests, stops, asked, lost, handed, astray, disturbed, told>>

Next ==
  \/ \E d \in Depts, assign \in Assign : AskForWork(d, assign)
  \/ \E i \in DOMAIN tasks :
       \/ \E s \in course.statuses, holds \in BOOLEAN : HandleEvent(i, s, holds)
       \/ \E p \in People : Reassign(i, p)
       \/ PersonDecides(i)
       \/ JudgeChooses(i)
       \/ \E heard \in BOOLEAN : JudgeTells(i, heard)
  \/ \E h \in handing : CarryOut(h)
  \/ \E p \in People : SetStatus(p)
  \/ Stop

Spec == Init /\ [][Next]_vars

-------------------------------------------------------------------------------
(* Properties.                                                             *)

\* Types, and that only work a bench placed is in a contest of one.
TypeOK ==
  /\ tasks \in Seq(Task) /\ Len(tasks) <= course.tasks
  /\ active \subseteq People /\ judging \subseteq DOMAIN tasks /\ lost \subseteq DOMAIN tasks
  /\ \A h \in handing : h.task \in DOMAIN tasks
  /\ \A i \in DOMAIN tasks :
       tasks[i].contest # NoContest <=>
         tasks[i].bench # NoBench /\ Benches[tasks[i].bench].strategy = "shootout"

Deliveries(i, a) == {j \in DOMAIN tasks : tasks[j].cause = i /\ tasks[j].along = a}

\* Finished work reaches every department it hands on to exactly once - as one
\* task, or as the entries of one contest - or a person is told that it goes in
\* circles; only an office that stopped in between loses it (server.ts, the
\* events route; perform-create-work.ts).
HandedOnOnce ==
  \A i \in DOMAIN tasks : \A a \in DOMAIN Arrows :
    Arrows[a].kind = "handoff" /\ Arrows[a].enabled /\ Arrows[a].from = tasks[i].room =>
      /\ \A j, k \in Deliveries(i, a) :
           j = k \/ (tasks[j].contest = tasks[k].contest /\ tasks[j].contest # NoContest)
      /\ tasks[i].status = "done" /\ tasks[i].contest = NoContest /\ i \notin lost
           /\ (\A h \in handing : h.task # i) =>
             Deliveries(i, a) # {} \/ <<i, a>> \in told

\* Whether a task came to be by hand-offs alone.
ByHand[i \in Nat] ==
  i = 0 \/ LET t == tasks[i] IN (t.along = 0 \/ Arrows[t.along].kind = "handoff") /\ ByHand[t.cause]

\* Work that is only handed on never comes to a department more often than
\* MAX_VISITS_PER_DEPARTMENT (handoff.ts).
NotRoundAgain ==
  \A i \in DOMAIN tasks : ByHand[i] =>
    \A d \in Depts : VisitsOf(Append(tasks[i].route, tasks[i].room), d) <= Visits

\* A contest has one verdict whoever comes first, a judge told twice or a person
\* (contest.ts, the win route), and it lies on an answer that is in.
OneVerdict ==
  /\ \A i, j \in DOMAIN tasks :
       tasks[i].won /\ tasks[j].won /\ tasks[i].contest = tasks[j].contest => i = j
  /\ \A i \in DOMAIN tasks : tasks[i].won => tasks[i].status = "done" /\ tasks[i].contest # NoContest

Given(b, p) == Cardinality({n \in DOMAIN handed[b] : handed[b][n] = p})

\* A round-robin bench shares its work evenly for as long as nobody on it is
\* paused and no work it placed is handed to somebody else, but for one piece each
\* time its newest work did not look the newest (bench.ts: the turn is read off the
\* work placed, whatever else goes on in the room).
SharedEvenly ==
  \A b \in BenchNames \ disturbed :
    Benches[b].strategy = "round_robin" =>
      \A p, q \in ToSet(Benches[b].members) : Given(b, p) <= Given(b, q) + 1 + astray[b]
===============================================================================
