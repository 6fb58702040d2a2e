------------------------------ MODULE MCJobQueue ------------------------------
(***************************************************************************)
(* A small queue: two workers, a loud and a quiet office, one of whose     *)
(* employees is asked for twice under one key.                             *)
(***************************************************************************)
EXTENDS JobQueue

CONSTANTS w1, w2, loud, quiet, eve, dan

Request(office, employee, key, priority, delay) ==
  [office |-> office, employee |-> employee, key |-> key, priority |-> priority,
   delay |-> delay]

MCRequests ==
  { Request(loud, eve, "turn", 0, 0), Request(loud, eve, NoKey, 1, 0),
    Request(quiet, Unassigned, NoKey, 0, 1) }

EqualPriority == [o \in Offices |-> 0]
===============================================================================
