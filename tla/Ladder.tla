-------------------------------- MODULE Ladder --------------------------------
(***************************************************************************)
(* Whom work escalates to (orchestrator/escalation/escalation.ts): up the  *)
(* reporting line of whoever has it, then along the arrows between         *)
(* departments that say so, and to the owner when neither leads anywhere.  *)
(*                                                                         *)
(* Nothing keeps the owner from drawing either in a circle, and a deleted  *)
(* supervisor is still named by those who reported to them.                *)
(***************************************************************************)
EXTENDS Naturals, FiniteSets

CONSTANTS
  People,
  Rooms,        \* departments, by the order of their ids
  Offices,      \* who reports to whom, and which departments escalate to which
  Askers,       \* whose work escalates
  MaxHops,      \* MAX_ESCALATION_HOPS
  Nobody,
  Gone          \* somebody who is no longer in the office's records

LadderConstants ==
  /\ \A o \in Offices :
       /\ o.line \in [People -> People \cup {Nobody, Gone}]
       /\ o.arrows \subseteq Rooms \X Rooms
  /\ Rooms \subseteq Nat /\ Askers \subseteq People \cup {Nobody, Gone}
  /\ MaxHops \in Nat \ {0} /\ {Nobody, Gone} \cap People = {}

VARIABLES
  office, active,
  from,     \* whose work it is and in which department
  target    \* where it went

ladder == <<office, active, from, target>>

supervisorOf == office.line
arrows == office.arrows

Owner == [kind |-> "owner", to |-> Nobody, hops |-> 0]
Nowhere == [kind |-> "none", to |-> Nobody, hops |-> 0]

Employee(e, hops) == [kind |-> "employee", to |-> e, hops |-> hops]
Department(d, hops) == [kind |-> "department", to |-> d, hops |-> hops]

-------------------------------------------------------------------------------

\* Mutant: a supervisor who is away is asked all the same.
CanActAnyone(e) == TRUE

\* Somebody who can actually act.
CanAct(e) == e \in active

\* Up the line, rung by rung: where the climb is after n of them.  It stands still
\* at the top, at the first who can act, at somebody the office no longer knows,
\* and where it would meet anybody again.
Climb[n \in 0 .. MaxHops] ==
  IF n = 0 THEN [at |-> from.who, seen |-> {from.who}, hops |-> 0, found |-> FALSE]
  ELSE LET c == Climb[n - 1] IN
       IF c.at \notin People \/ c.found THEN c
       ELSE LET up == supervisorOf[c.at] IN
            IF up = Nobody \/ up \in c.seen THEN c
            ELSE [ at |-> up, seen |-> c.seen \cup {up}, hops |-> c.hops + 1,
                   found |-> up \in People /\ CanAct(up) ]

\* Mutant: of several arrows the last.
NextRoomsLast(d) ==
  LET out == {e[2] : e \in {a \in arrows : a[1] = d}}
  IN  {r \in out : \A s \in out : r >= s}

\* Of several arrows the one whose department comes first.
NextRooms(d) ==
  LET out == {e[2] : e \in {a \in arrows : a[1] = d}}
  IN  {r \in out : \A s \in out : r <= s}

\* Along the arrows: the departments seen, and whether the walk came round.
Walk[n \in 0 .. MaxHops] ==
  IF n = 0 THEN [at |-> from.room, seen |-> {from.room}, hops |-> 0, round |-> FALSE]
  ELSE LET w == Walk[n - 1] IN
       IF w.round \/ NextRooms(w.at) = {} THEN w
       ELSE LET next == CHOOSE r \in NextRooms(w.at) : TRUE IN
            IF next \in w.seen THEN [w EXCEPT !.round = TRUE]
            ELSE [at |-> next, seen |-> w.seen \cup {next}, hops |-> w.hops + 1, round |-> FALSE]

\* Mutant: arrows that go round end at the last department before they do.
resolveEscalationTargetRound ==
  LET c == Climb[MaxHops]
      w == Walk[MaxHops]
  IN  IF c.found THEN Employee(c.at, c.hops)
      ELSE IF w.hops = 0 THEN Owner ELSE Department(w.at, w.hops)

resolveEscalationTarget ==
  LET c == Climb[MaxHops]
      w == Walk[MaxHops]
  IN  IF c.found THEN Employee(c.at, c.hops)
      ELSE IF w.round \/ w.hops = 0 THEN Owner ELSE Department(w.at, w.hops)

-------------------------------------------------------------------------------

Init ==
  /\ office \in Offices /\ active \in SUBSET People
  /\ from \in [who : Askers, room : Rooms]
  /\ target = Nowhere

\* The work escalates to wherever the office, as it stands, says.
escalateTask ==
  /\ target = Nowhere /\ target' = resolveEscalationTarget
  /\ UNCHANGED <<office, active, from>>

-------------------------------------------------------------------------------

\* Whoever is so many rungs up, round and round if need be.
Superior[n \in 0 .. MaxHops] ==
  IF n = 0 THEN from.who
  ELSE IF Superior[n - 1] \in People THEN supervisorOf[Superior[n - 1]] ELSE Nobody

\* It goes to the nearest person up the line who is at work, if any is; never back
\* to whoever has it, nor to somebody who left.
NearestFirst ==
  target # Nowhere =>
    LET there == {n \in 1 .. MaxHops : Superior[n] \in active \ {from.who}} IN
    IF there = {} THEN target.kind # "employee"
    ELSE /\ target.kind = "employee" /\ target.hops \in there
         /\ target.to = Superior[target.hops] /\ \A n \in there : target.hops <= n

\* The ways along the arrows, by the first of them each time, to a department that
\* leads no further or at which the hops run out.
Ways(d, hops) ==
  {s \in [0 .. hops -> Rooms] :
     /\ s[0] = from.room /\ s[hops] = d
     /\ \A i, j \in 0 .. hops : s[i] = s[j] => i = j
     /\ \A i \in 1 .. hops :
          /\ <<s[i - 1], s[i]>> \in arrows
          /\ \A r \in Rooms : <<s[i - 1], r>> \in arrows => s[i] <= r
     /\ hops = MaxHops \/ \A r \in Rooms : <<d, r>> \notin arrows}

\* With nobody up the line it goes to where the arrows end, and to the owner when
\* there are none or they go round; in what order they were drawn is no matter.
EndOfTheArrows ==
  target.kind \notin {"none", "employee"} =>
    \/ target.kind = "department" /\ Ways(target.to, target.hops) # {}
    \/ target = Owner /\ \A d \in Rooms, hops \in 1 .. MaxHops : Ways(d, hops) = {}
===============================================================================
