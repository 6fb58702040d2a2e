-------------------------------- MODULE MCWork --------------------------------
(***************************************************************************)
(* Work on its way through the office, model-checked in one run: each      *)
(* behaviour is one of the components at work, `part`, and leaves the      *)
(* others where they began.                                                *)
(*                                                                         *)
(* The rooms: design and the studio hand work to and fro, the studio's     *)
(* share taken in turn by two people; law watches the studio and puts what *)
(* it notices to a contest that design's lead judges.  The reviews: those  *)
(* that count approvals or stages, where no other department checks.       *)
(***************************************************************************)
EXTENDS Naturals, Sequences

VARIABLES
  part,
  course, tasks, active, handing, judging, contests, stops, asked, lost, handed, astray,
  disturbed, told,
  task, policy, present, endorsed, vouched, claimed, cleared,
  time, said, pollers, current, subs, faults, delivered, owed

RoomStaff ==
  [d \in {"design", "studio", "law"} |->
     CASE d = "design" -> {"dee"} [] d = "studio" -> {"sam", "sue"} [] d = "law" -> {"lou", "liz"}]

RoomBenches ==
  [b \in {"turns", "rivals"} |->
     IF b = "turns"
     THEN [room |-> "studio", members |-> <<"sam", "sue">>, strategy |-> "round_robin", judge |-> "nobody"]
     ELSE [room |-> "law", members |-> <<"lou", "liz">>, strategy |-> "shootout", judge |-> "dee"]]

Arrow1(kind, from, to, assign, moments) ==
  [kind |-> kind, from |-> from, to |-> to, enabled |-> TRUE, assign |-> assign, moments |-> moments]

FromBench(b) == [kind |-> "bench", bench |-> b]

HandingOn ==
  << Arrow1("handoff", "design", "studio", FromBench("turns"), {}),
     Arrow1("handoff", "studio", "design", [kind |-> "named", who |-> "dee"], {}),
     Arrow1("watches", "law", "studio", FromBench("rivals"), {"work_went_wrong"}) >>

Named(p) == [kind |-> "named", who |-> p]

Busy == {"assigned", "in_progress", "done"}

OfferedTo(asks, may, to, statuses, nastray, ntasks) ==
  [asks |-> asks, may |-> may, to |-> to, statuses |-> statuses, astray |-> nastray,
   tasks |-> ntasks]

ForDesign == <<"design", Named("dee")>>
ForTurns  == <<"studio", FromBench("turns")>>

\* Work going round, twice over; work taken in turn while somebody is paused and
\* some of it is reassigned; turns misread; round and in turn at once; a contest and
\* idle work; work that goes wrong where somebody watches.
Round  == OfferedTo(<<ForDesign, ForDesign>>, {"stop"}, {}, Busy, 0, 6)
Taken  == OfferedTo(<<ForTurns, ForTurns, ForTurns, ForTurns>>, {"pause"}, {"sue"},
                    {"assigned", "cancelled"}, 0, 4)
Misread == OfferedTo(<<ForTurns, ForTurns, ForTurns, ForTurns, ForTurns>>, {"stop"}, {},
                     {"cancelled"}, 2, 5)
Mixed  == OfferedTo(<<ForTurns, ForDesign, <<"studio", Named("sue")>> >>, {"stop"}, {}, Busy, 1, 5)
Rivals == OfferedTo(<< <<"law", FromBench("rivals")>>, <<"law", [kind |-> "anyone"]>> >>, {"pause"}, {"dee"},
                    Busy \cup {"backlog", "cancelled"}, 0, 3)
Wrong  == OfferedTo(<< <<"studio", Named("sam")>> >>, {"stop"}, {},
                    Busy \cup {"blocked", "cancelled"}, 0, 5)

RoomCourses == {Round, Taken, Misread, Mixed, Rivals, Wrong}

R == INSTANCE Rooms WITH
       Depts <- {"design", "studio", "law"}, Staff <- RoomStaff, Arrows <- HandingOn,
       Benches <- RoomBenches, Nobody <- "nobody", Visits <- 2, PageSize <- 50,
       Courses <- RoomCourses

ASSUME R!RoomConstants

-------------------------------------------------------------------------------
Reviewers == {"ann", "bob", "sue", "quinn"}

Plain(kind, required, maxIterations) ==
  [kind |-> kind, required |-> required, maxIterations |-> maxIterations, gates |-> {},
   stages |-> << >>]

Draft   == [name |-> "draft",   worker |-> "ann", reviewers |-> {"bob", "sue"}, required |-> 2]
Check   == [name |-> "check",   worker |-> "bob", reviewers |-> {},             required |-> 1]
Publish == [name |-> "publish", worker |-> "sue", reviewers |-> {"quinn"},      required |-> 1]

CountedPolicies ==
  { Plain("quorum", 2, 1), Plain("automated", 0, 1),
    [Plain("gate", 0, 0) EXCEPT !.gates = {"spend"}],
    [Plain("pipeline", 0, 1) EXCEPT !.stages = <<Draft, Check, Publish>>] }

W == INSTANCE Workflow WITH
       Employees <- Reviewers, Nobody <- "nobody", NoStage <- "no stage",
       Departments <- {"eng", "qa"}, Home <- "eng",
       DepartmentOf <- [e \in Reviewers |-> IF e = "quinn" THEN "qa" ELSE "eng"],
       SupervisorOf <- [e \in Reviewers |-> IF e \in {"ann", "bob"} THEN "sue" ELSE "nobody"],
       Checkers <- << >>, Criteria <- {"c1"}, DefinitionOfDone <- {}, Gates <- {"spend"},
       TaskGates <- {"spend"}, StageNames <- {"draft", "check", "publish"},
       Policies <- CountedPolicies, PolicyEdits <- FALSE, Pausable <- {"sue"}, MaxRounds <- 1,
       active <- present

-------------------------------------------------------------------------------
F == INSTANCE Feed WITH
       Arrivals <- << [id |-> 2, at |-> 1], [id |-> 1, at |-> 1], [id |-> 3, at |-> 2],
                      [id |-> 4, at |-> 2] >>,
       Handlers <- {"h", "k"}, PageSize <- 3, MaxTime <- 2, MaxSubs <- 2, MaxFaults <- 1

-------------------------------------------------------------------------------
roomVars ==
  <<course, tasks, active, handing, judging, contests, stops, asked, lost, handed, astray,
    disturbed, told>>
reviewVars == <<task, policy, present, endorsed, vouched, claimed, cleared>>
feedVars == <<time, said, pollers, current, subs, faults, delivered, owed>>
workVars == <<part, roomVars, reviewVars, feedVars>>

Init ==
  /\ part \in {"rooms", "reviews", "feed"}
  /\ R!Init /\ W!Init /\ F!Init
  /\ part # "rooms" => course = Round
  /\ part # "reviews" => policy = Plain("quorum", 2, 1) /\ task.assignee = "ann"

Rooms   == part = "rooms"   /\ R!Next /\ UNCHANGED <<part, reviewVars, feedVars>>
Reviews == part = "reviews" /\ W!Next /\ UNCHANGED <<part, roomVars, feedVars>>
Feed    == part = "feed"    /\ F!Next /\ UNCHANGED <<part, roomVars, reviewVars>>

Next == Rooms \/ Reviews \/ Feed

\* The reviewer the office asks, a person or a check answers, once for a submission;
\* and a poller's timer runs out.
Answered == part = "reviews" /\ W!AsksOnce /\ task' # task
            /\ UNCHANGED <<part, roomVars, feedVars>>
Polled(p) == part = "feed" /\ F!Polls(p) /\ UNCHANGED <<part, roomVars, reviewVars>>

Spec == /\ Init /\ [][Next]_workVars
        /\ WF_workVars(Answered)
        /\ \A p \in 1 .. 2 : WF_workVars(Polled(p))

-------------------------------------------------------------------------------

\* Finished work arrives once at every room it is handed on to and does not go round
\* for ever, and a bench that takes work in turn shares it evenly (handoff.ts,
\* perform-create-work.ts, bench.ts, server.ts).
WorkArrives ==
  part = "rooms" => R!TypeOK /\ R!HandedOnOnce /\ R!NotRoundAgain /\ R!SharedEvenly

\* A contest has one verdict (contest.ts, server.ts).
OneVerdict == part = "rooms" => R!OneVerdict

\* A review that counts approvals or stages counts them in full, and the one answer
\* the office asks for ends every review it suffices for (quorum-policy.ts,
\* pipeline-policy.ts, scheduler.ts).
CountedReviewsMove == [](part = "reviews" => W!CountedInFull) /\ W!CountedReviewMoves

\* Whoever follows an office's events is told of each once, in order, and in the
\* end (change-feed.ts).
FeedTells == [](part = "feed" => F!TypeOK /\ F!ToldOnceInOrder) /\ F!EventuallyTold
===============================================================================
