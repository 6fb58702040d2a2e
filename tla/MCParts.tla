------------------------------- MODULE MCParts -------------------------------
(***************************************************************************)
(* The parts of the office that stand alone, model-checked in one run:     *)
(* the command that runs an office to its end, the clocks, the meter, the  *)
(* escalation ladder and the storage.  Each behaviour is one of them at    *)
(* work, `part`, and leaves the others where they began.                   *)
(***************************************************************************)
EXTENDS HeadlessRun, Documents, TLC

CONSTANTS
  ann, sue, bob, lee, desk1, law,            \* the office of the command
  Gone, Unpriced

VARIABLES
  part,
  question,
  tables, applied, migrating, migratingStops, broken, met,
  zone, cron, schedule, now, last, fired,
  office, active, from, target,
  services, staff, calls, spent, told, repricings, deaths, listed

Symmetry == Permutations(Handlers) \cup Permutations(Trays)

-------------------------------------------------------------------------------
(* The command: a room with two people, one of them supervised by the      *)
(* other, and the room its work goes on to.  Rosters leave out the         *)
(* supervisor, the colleague or the room next door.                        *)

MCDepartmentOf == [e \in Employees |-> IF e = lee THEN law ELSE desk1]
MCSupervisorOf == [e \in Employees |-> IF e = ann THEN sue ELSE Nobody]
NoCheckers == << >>
MCPolicies ==
  { Plain, [Plain EXCEPT !.kind = "manager", !.maxIterations = 1],
    [Plain EXCEPT !.kind = "peer", !.maxIterations = 1],
    [Plain EXCEPT !.kind = "gate", !.gates = {"spend"}] }
MCRosters == {<<ann, sue, lee>>, <<sue, lee>>, <<bob, sue>>, <<ann, lee>>}

ASSUME RunConstants

-------------------------------------------------------------------------------
(* Storage.                                                                *)

MCArrivals == <<1, 1, 2>>

ASSUME DocumentConstants

Q == INSTANCE Paging WITH Rows <- 1 .. 4, Values <- 1 .. 2, Sizes <- 1 .. 3
M == INSTANCE Migrations WITH
       Steps <- <<<<"a", "b", "c">>, <<"d">>, <<"e", "f">>>>, Processes <- {"p", "q"},
       Knows <- [x \in {"p", "q"} |-> IF x = "p" THEN 3 ELSE 2], MaxStops <- 2,
       doing <- migrating, stops <- migratingStops

-------------------------------------------------------------------------------
(* The clocks: hours of two minutes, days of three hours, weeks of three   *)
(* days and two months of four; clocks that go forward, back or nowhere by *)
(* an hour on the second or the third day.                                 *)

Star == [star |-> TRUE, from |-> 0, to |-> 0, stepped |-> FALSE, step |-> 1]
Upto(v, w) == [star |-> FALSE, from |-> v, to |-> w, stepped |-> FALSE, step |-> 1]
One(v) == Upto(v, v)
EverySecond(p) == [p EXCEPT !.stepped = TRUE, !.step = 2]

Cron(minute, hour, dom, month, dow) ==
  [f \in {"minute", "hour", "dayOfMonth", "month", "dayOfWeek"} |->
     CASE f = "minute" -> minute [] f = "hour" -> hour [] f = "dayOfMonth" -> dom
       [] f = "month" -> month [] OTHER -> dow]

\* The last of them names a minute no hour has.
Crons ==
  { Cron({One(0)}, {Star}, {Star}, {Star}, {Star}),
    Cron({Star}, {One(1)}, {Star}, {Star}, {Star}),
    Cron({One(1)}, {EverySecond(Star)}, {Star}, {Star}, {One(3)}),
    Cron({One(0)}, {Upto(1, 2)}, {One(2)}, {Star}, {One(1)}),
    Cron({Star}, {One(0)}, {EverySecond(One(2))}, {One(2)}, {Star}),
    Cron({One(0), One(1)}, {Upto(0, 1)}, {Star}, {Star}, {Upto(0, 3)}),
    Cron({One(5)}, {Star}, {Star}, {Star}, {Star}) }

Windows ==
  { {}, {[days |-> {1}, start |-> 4, end |-> 1]},
    {[days |-> {0, 2}, start |-> 1, end |-> 4], [days |-> {2}, start |-> 5, end |-> 2]} }

K == INSTANCE Clocks WITH
       HourLen <- 2, DayHours <- 3, WeekLen <- 3, MonthLen <- 4, Months <- 2,
       Zones <- {[before |-> 0, after |-> 0, at |-> 0]} \cup
                  [before : {0}, after : {2}, at : {8, 12}] \cup
                  [before : {2}, after : {0}, at : {8, 10, 14}],
       Crons <- Crons, Schedules <- Windows, MaxDaysAhead <- 9, Horizon <- 30

ASSUME K!ClockConstants

-------------------------------------------------------------------------------
(* The ladder: every line among four people, and arrows that end, fork, go *)
(* on for longer than the hops, and go round.                              *)

Ladders ==
  LET People == {ann, sue, bob, lee}
      lines == {f \in [People -> People \cup {Nobody, Gone}] :
                  f[lee] \in {ann, Nobody, Gone} /\ f[ann] # bob}
      arrows == { {<<1, 2>>}, {<<1, 1>>}, {<<1, 3>>, <<1, 2>>},
                  {<<1, 3>>, <<1, 2>>, <<3, 1>>}, {<<1, 2>>, <<2, 1>>},
                  {<<1, 2>>, <<2, 3>>}, {<<1, 2>>, <<2, 3>>, <<3, 4>>},
                  {<<1, 2>>, <<2, 3>>, <<3, 2>>}, {<<1, 2>>, <<2, 3>>, <<3, 4>>, <<4, 1>>} }
  IN  {[line |-> l, arrows |-> {}] : l \in lines} \cup
        {[line |-> [p \in People |-> Nobody], arrows |-> a] : a \in arrows}

L == INSTANCE Ladder WITH
       People <- {ann, sue, bob, lee}, Rooms <- 1 .. 4, Offices <- Ladders, MaxHops <- 2,
       Askers <- {ann, Nobody, Gone}

ASSUME L!LadderConstants

-------------------------------------------------------------------------------
(* The meter: a call of somebody's and one of the office's own, of a model *)
(* it was born with, one of its services' and one without a price.         *)

Offer(m, f, c) == [model |-> m, fresh |-> f, cached |-> c]

U == INSTANCE Metering WITH
       Calls <- {1, 2}, CallerOf <- (1 :> ann @@ 2 :> Nobody), RoomOf <- (ann :> desk1),
       Models <- {"known", "own", "new"}, BuiltIn <- ("known" :> [fresh |-> 3, cached |-> 1]),
       ServiceLists <- { << >>,
                         << Offer("own", 2, Unpriced), Offer("own", 5, 1), Offer("known", 9, 9),
                            Offer("new", Unpriced, Unpriced) >> },
       Usages <- {[fresh |-> 1, cached |-> 2]}, MaxRepricings <- 1, MaxDeaths <- 1,
       rows <- spent

ASSUME U!MeterConstants

-------------------------------------------------------------------------------

migrationVars == <<tables, applied, migrating, migratingStops, broken, met>>
clockVars == <<zone, cron, schedule, now, last, fired>>
ladderVars == <<office, active, from, target>>
meterVars == <<services, staff, calls, spent, told, repricings, deaths, listed>>

storage == <<documentVars, question, migrationVars>>
outOfStorage == <<vars, clockVars, ladderVars, meterVars>>
partVars == <<part, storage, outOfStorage>>

\* Where a part that is not at work begins is no matter.
Resting ==
  /\ \/ part = "command"
     \/ /\ part # "command"
        /\ open = TRUE /\ desk = TRUE /\ policy = Plain /\ roster = <<ann, lee>>
  /\ \/ part = "clock"
     \/ /\ part # "clock"
        /\ zone = [before |-> 0, after |-> 0, at |-> 0] /\ schedule = {}
        /\ cron = Cron({One(0)}, {Star}, {Star}, {Star}, {Star})
  /\ \/ part = "ladder" /\ from \in [who : {ann, Nobody, Gone}, room : {1}]
     \/ /\ part # "ladder"
        /\ office = [line |-> [p \in {ann, sue, bob, lee} |-> Nobody], arrows |-> {}]
        /\ active = {} /\ from = [who |-> ann, room |-> 1]
  /\ \/ part = "meter"
     \/ part # "meter" /\ services = << >>

PartInit ==
  /\ part \in {"command", "documents", "paging", "migrations", "clock", "ladder", "meter"}
  /\ Resting
  /\ Init /\ DocumentsInit /\ Q!Init /\ M!Init /\ K!Init /\ L!Init /\ U!Init

PartNext ==
  /\ UNCHANGED part
  /\ \/ part = "command" /\ Next /\ UNCHANGED <<storage, clockVars, ladderVars, meterVars>>
     \/ part = "clock" /\ K!Pass /\ UNCHANGED <<storage, vars, ladderVars, meterVars>>
     \/ part = "ladder" /\ L!escalateTask /\ UNCHANGED <<storage, vars, clockVars, meterVars>>
     \/ part = "meter" /\ U!Next /\ UNCHANGED <<storage, vars, clockVars, ladderVars>>
     \/ /\ UNCHANGED outOfStorage
        /\ \/ part = "documents" /\ DocumentsNext /\ UNCHANGED <<question, migrationVars>>
           \/ part = "paging" /\ Q!Next /\ UNCHANGED <<documentVars, migrationVars>>
           \/ part = "migrations" /\ M!Next /\ UNCHANGED <<documentVars, question>>

PartSpec == PartInit /\ [][PartNext]_partVars

-------------------------------------------------------------------------------

\* A migration marked as applied has its tables, and a process that refuses to open
\* the database has a reason to (runner.ts).  The two stores page through a list
\* alike (query-memory.ts).
StorageHolds ==
  /\ [](part = "migrations" => M!TypeOK /\ M!MarkedIsThere)
  /\ M!RefusedForAReason
  /\ [](part = "paging" => Q!TypeOK /\ Q!PagesAlike)

\* `vo run` ends with nothing lying about that it or somebody at the desk could have
\* moved, makes the calls that were approved and no other, keeps what was decided on
\* the record and with its attempt, and hands on all that was made (office-run.ts,
\* awaiting.ts).
CommandHolds ==
  part = "command" =>
    TypeOK /\ QuietForAReason /\ ApprovedIsMade /\ DecisionsOnRecord /\ NoOldDecisions /\ TravelsWithIt

\* Recurring work is due when its expression says, where the office is, and once a
\* minute; a room is open as its windows are written (cron.ts, schedule.ts).  Work
\* escalates to the nearest who can act, and else to where the arrows end
\* (escalation.ts).
DueAndUp ==
  /\ part = "clock" => K!TypeOK /\ K!DueWhenNamed /\ K!OnceAMinute /\ K!OpenAsWritten
  /\ part = "ladder" => L!NearestFirst /\ L!EndOfTheArrows

\* Every call is measured once and as it went, the measurement never decides what the
\* caller sees, and nothing in the report looks free that is not (usage.ts,
\* usage-sink.ts, usage-report.ts).
MetersHold == part = "meter" => U!MeasuredOnce /\ U!WorkGoesThrough /\ U!NothingLooksFree
===============================================================================
