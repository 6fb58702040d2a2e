------------------------------- MODULE Delivery -------------------------------
(***************************************************************************)
(* What the job queue promises whoever uses it: every job accepted is      *)
(* delivered until somebody settles it or it is buried, one at a time per  *)
(* employee, and two requests with the same key are the same job.  Leases, *)
(* clocks, priorities and workers are the queue's own business.            *)
(***************************************************************************)
EXTENDS Naturals, FiniteSets

CONSTANTS Requests, NoKey, Unassigned, MaxPerEmployee

VARIABLES
  asked,   \* [1 .. n -> Requests], the jobs accepted so far
  phase    \* [1 .. n -> Phases]

vars == <<asked, phase>>

Phases == {"waiting", "running", "buried", "settled"}

Accepted == DOMAIN asked

\* A job that still answers for its key.
Outstanding == {j \in Accepted : phase[j] # "settled"}

Init == asked = << >> /\ phase = << >>

Accept(r) ==
  LET n == Cardinality(Accepted) + 1 IN
  /\ r.key # NoKey => \A j \in Outstanding : asked[j].key # r.key
  /\ asked' = [j \in 1 .. n |-> IF j = n THEN r ELSE asked[j]]
  /\ phase' = [j \in 1 .. n |-> IF j = n THEN "waiting" ELSE phase[j]]

Colleagues(j) ==
  {k \in Accepted :
     /\ phase[k] = "running"
     /\ asked[k].employee # Unassigned
     /\ asked[k].employee = asked[j].employee /\ asked[k].office = asked[j].office}

Deliver(j) ==
  /\ phase[j] = "waiting"
  /\ Cardinality(Colleagues(j)) < MaxPerEmployee
  /\ phase' = [phase EXCEPT ![j] = "running"]
  /\ UNCHANGED asked

\* Given back by whoever had them, or taken back from them.
Return(J) ==
  /\ J # {} /\ \A j \in J : phase[j] = "running"
  /\ phase' = [j \in Accepted |-> IF j \in J THEN "waiting" ELSE phase[j]]
  /\ UNCHANGED asked

End(j, how) ==
  /\ phase[j] = "running"
  /\ phase' = [phase EXCEPT ![j] = how]
  /\ UNCHANGED asked

Next ==
  \/ \E r \in Requests : Accept(r)
  \/ \E j \in Accepted : Deliver(j)
  \/ \E J \in SUBSET Accepted : Return(J)
  \/ \E j \in Accepted, how \in {"settled", "buried"} : End(j, how)

Spec == Init /\ [][Next]_vars
===============================================================================
