-------------------------------- MODULE MCTicks --------------------------------
(* Days of three hours: one department works the first two of them, so work     *)
(* due in the third waits.  Ann and Bob work in it, Cy in the other, and reviews. *)
EXTENDS Ticks

CONSTANTS hq, dev, law, ann, bob, cy, w1, w2, essay, brief, digest, report, rivals

MCDeptOf == [p \in {ann, bob, cy} |-> IF p = cy THEN law ELSE dev]

MCHours == [l \in {hq, dev, law, ann, bob, cy} |-> IF l = dev THEN 0 .. 1 ELSE 0 .. 2]

Limit(limit, warn, period) == [limit |-> limit, warn |-> warn, period |-> period]

MCBudgets ==
  [l \in {hq, dev, law, ann, bob, cy} |->
     CASE l = dev -> Limit(3, 2, "day") [] l = ann -> Limit(2, 1, "day") [] OTHER -> NoBudget]

MCTasks ==
  [t \in {essay, brief} |->
     IF t = essay THEN [dept |-> dev, who |-> ann, reviewers |-> << >>]
     ELSE [dept |-> dev, who |-> ann, reviewers |-> <<bob, cy>>]]

MCJudges == [c \in {rivals} |-> cy]

\* The digest ran before; its second occurrence falls when dev is shut.
MCRecurring ==
  [d \in {digest, report} |->
     IF d = digest THEN [dept |-> dev, who |-> Nobody, at |-> {1, 2}, last |-> 0]
     ELSE [dept |-> Nobody, who |-> cy, at |-> {2, 3}, last |-> Never]]

Quiet(ws, until) ==
  [ workers |-> ws, tasks |-> {}, contests |-> {}, recurring |-> {}, improving |-> {},
    may |-> {}, switched |-> {}, switches |-> 0, payers |-> {}, calls |-> 0, moves |-> 2,
    until |-> until ]

Clockwork == [Quiet({w1, w2}, 3) EXCEPT !.recurring = {digest}, !.may = {"die", "stop"}]
Reports   == [Quiet({w1}, 4) EXCEPT !.recurring = {digest, report}, !.may = {"unreadable"}]
Reviews   == [Quiet({w1, w2}, 1) EXCEPT !.tasks = {brief}, !.switched = {bob}, !.switches = 2]
Turns     == [Quiet({w1}, 3) EXCEPT !.contests = {rivals}, !.improving = {cy},
                                   !.switched = {cy}, !.switches = 2]
Billing   == [Quiet({}, 3) EXCEPT !.payers = {ann, bob}, !.calls = 3]
Overdrawn == [Quiet({w1}, 3) EXCEPT !.tasks = {essay}, !.may = {"unreadable"}, !.payers = {ann},
                                   !.calls = 1, !.switched = {ann}, !.switches = 1]

MCCourses == {Clockwork, Reports, Reviews, Turns, Billing, Overdrawn}
===============================================================================
