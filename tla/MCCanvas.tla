------------------------------- MODULE MCCanvas -------------------------------
(* A department, shown as the office answers it, and an arrow, kept in a list.  *)
(* Courses: a busy office and a canvas that loses its stream; a stream that     *)
(* fails twice; two kinds of record and a save; a save through every failure;   *)
(* and two saves at once.                                                       *)
EXTENDS Canvas

CONSTANTS dept, arrow

Plan(records, mishaps, writes, nsockets, nsaves) ==
  [ records |-> records, mishaps |-> mishaps, writes |-> writes,
    sockets |-> nsockets, saves |-> nsaves ]

MCCourses ==
  { Plan({dept}, {"unread"}, 2, 2, 0), Plan({dept}, {}, 1, 3, 0),
    Plan({dept, arrow}, {}, 2, 1, 1),
    Plan({dept}, {"unanswered", "restart"}, 1, 2, 1),
    Plan({arrow}, {}, 1, 1, 2) }
===============================================================================
