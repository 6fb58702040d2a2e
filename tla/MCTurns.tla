-------------------------------- MODULE MCTurns --------------------------------
(* Small offices for Turns: an author, two colleagues and nobody above them.    *)
EXTENDS Turns

CONSTANTS ann, bob, sue, eng

MCDepartmentOf == [e \in Employees |-> eng]
MCSupervisorOf == [e \in Employees |-> Nobody]
MCRoster == SelectSeq(<<ann, bob, sue>>, LAMBDA e : e \in Employees)
NoCheckers == << >>

Reviewed(kind, required, cap) ==
  [kind |-> kind, required |-> required, maxIterations |-> cap, gates |-> {}, stages |-> << >>]

\* Nobody has a supervisor, so the manager's review is the owner's.
ByTheOwner == Reviewed("manager", 0, 2)
ByAPeer    == Reviewed("peer", 0, 2)
MCPolicies == {ByTheOwner, ByAPeer}
===============================================================================
