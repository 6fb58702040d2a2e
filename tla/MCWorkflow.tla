------------------------------ MODULE MCWorkflow ------------------------------
(***************************************************************************)
(* A small office for Workflow: two people in the room that does the work, *)
(* their supervisor, and two rooms that may check it with one person each. *)
(***************************************************************************)
EXTENDS Workflow

CONSTANTS ann, bob, sue, quinn, lee, eng, qa, legal

MCEmployees == {ann, bob, sue, quinn, lee}
MCDepartments == {eng, qa, legal}
MCDepartmentOf ==
  [e \in MCEmployees |-> IF e = quinn THEN qa ELSE IF e = lee THEN legal ELSE eng]
MCSupervisorOf == [e \in MCEmployees |-> IF e \in {ann, bob} THEN sue ELSE Nobody]

OneChecker  == <<qa>>
TwoCheckers == <<qa, legal>>

Plain(kind, required, maxIterations) ==
  [kind |-> kind, required |-> required, maxIterations |-> maxIterations, gates |-> {},
   stages |-> << >>]

HumanPolicies == {Plain("direct", 0, 0), Plain("manager", 0, 1), Plain("peer", 0, 2)}

CountedPolicies == {Plain("quorum", 2, 1), Plain("automated", 0, 1)}

GatePolicies == {[Plain("gate", 0, 0) EXCEPT !.gates = {"spend"}]}

Draft   == [name |-> "draft",   worker |-> ann, reviewers |-> {bob, sue}, required |-> 2]
Check   == [name |-> "check",   worker |-> bob, reviewers |-> {},         required |-> 1]
Publish == [name |-> "publish", worker |-> sue, reviewers |-> {quinn},    required |-> 1]

PipelineOf(stages) == [Plain("pipeline", 0, 1) EXCEPT !.stages = stages]

PipelinePolicies == {PipelineOf(<<Draft, Check, Publish>>)}

EveryPolicy == HumanPolicies \cup CountedPolicies \cup GatePolicies \cup PipelinePolicies
===============================================================================
