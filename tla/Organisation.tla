----------------------------- MODULE Organisation -----------------------------
(***************************************************************************)
(* The records an office is drawn with: rooms, the people hired into them, *)
(* the arrows between rooms and the connectors whose tools are granted     *)
(* (department.ts, employee.ts, connection.ts, connector.ts, bench.ts).    *)
(* A route of server.ts checks what it is asked against what it reads and  *)
(* writes one record after that.  The whole is exported to a file and read *)
(* back through the same checks (office-file.ts).                          *)
(***************************************************************************)
EXTENDS Naturals

CONSTANTS
  Rooms, Staff, Connectors,  \* ids, as numbers; an id is used once
  Names,                     \* names of rooms
  Editors,                   \* the requests that can be under way at once
  MaxEdits                   \* bound: requests made in all

VARIABLES
  rooms, staff, connectors,  \* the tables
  arrows,                    \* the connections, each of the request that drew it
  edits,   \* [Editors -> the write it has been allowed]
  edited,  \* requests made so far
  raced,   \* history: a record another request had read for its check was being written
  loose    \* history: somebody was let go, or something removed, that others name

organisationVars == <<rooms, staff, connectors, arrows, edits, edited, raced, loose>>

None == 0
Kinds == {"escalates_to", "collaborates"}

RoomRecords ==
  [state : {"unmade", "there", "gone"}, name : Names, grant : Connectors \cup {None},
   bench : SUBSET Staff]
StaffRecords ==
  [state : {"unmade", "active", "terminated"}, room : Rooms, boss : Staff \cup {None},
   grant : Connectors \cup {None}]
ConnectorRecords == [state : {"unmade", "there", "gone"}, tool : BOOLEAN]
Arrows == [id : 0 .. MaxEdits, from : Rooms, to : Rooms, kind : Kinds]

There(table) == {id \in DOMAIN table : table[id].state = "there"}
Hired == {p \in Staff : staff[p].state # "unmade"}

Nothing == [table |-> "none"]

\* What the constants have to be: ids are numbers, the office that is begun with has
\* its ids and names, and the bound is a number.
OrganisationConstants ==
  /\ Rooms \subseteq Nat \ {0} /\ Staff \subseteq Nat \ {0} /\ Connectors \subseteq Nat \ {0}
  /\ {1, 2} \subseteq Rooms /\ 1 \in Staff
  /\ \E f \in [Rooms -> Names] : \A a, b \in Rooms : f[a] = f[b] => a = b
  /\ MaxEdits \in Nat

OfficeTypeOK ==
  /\ rooms \in [Rooms -> RoomRecords] /\ staff \in [Staff -> StaffRecords]
  /\ connectors \in [Connectors -> ConnectorRecords]
  /\ arrows \subseteq Arrows
  /\ \A r \in Editors :
       edits[r].table \in {"none", "rooms", "staff", "connectors", "arrows"}
  /\ edited \in 0 .. MaxEdits

First(ids) == CHOOSE id \in ids : \A other \in ids : id <= other

\* Two rooms, the first escalating to the second, somebody in the first, and a connector.
OfficeInit ==
  /\ LET named == CHOOSE f \in [Rooms -> Names] : \A a, b \in Rooms : f[a] = f[b] => a = b
     IN rooms = [r \in Rooms |-> [state |-> IF r <= 2 THEN "there" ELSE "unmade",
                                  name |-> named[r], grant |-> None, bench |-> {}]]
  /\ staff = [p \in Staff |-> [state |-> IF p = 1 THEN "active" ELSE "unmade",
                               room |-> First(Rooms), boss |-> None, grant |-> None]]
  /\ connectors = [c \in Connectors |-> [state |-> "there", tool |-> TRUE]]
  /\ arrows = {[id |-> 0, from |-> 1, to |-> 2, kind |-> "escalates_to"]}
  /\ edits = [r \in Editors |-> Nothing]
  /\ edited = 0 /\ raced = FALSE /\ loose = FALSE

-------------------------------------------------------------------------------
\* The checks.

NameIsFree(table, id, name) == \A other \in There(table) \ {id} : table[other].name # name

\* validateToolGrants: the connector is there and offers the tool.
Grantable(grant, table) == grant = None \/ (grant \in There(table) /\ table[grant].tool)

StaffOf(people, room) == {p \in Staff : people[p].state # "unmade" /\ people[p].room = room}

\* Mutant: anybody in the office may be put on a bench.
BenchFitsAnybody(bench, people, room) ==
  bench \subseteq {p \in Staff : people[p].state # "unmade"}

\* validateBenchMembers.
BenchFits(bench, people, room) == bench \subseteq StaffOf(people, room)

\* validateSupervisor.
MayBeBoss(boss, people, person) == boss # None => boss # person /\ people[boss].state = "active"

\* Mutant: whoever is named is put above somebody without being looked up.
MayAppointAnybody(boss, person) == boss # person

\* The person who is to supervise is looked up, with their status as it is now.
MayAppoint(boss, person) == MayBeBoss(boss, staff, person)

Edges(drawn, kind) == {a \in drawn : a.kind = kind}

\* hasPath: everything closed under the arrows that has `from` in it has `to`.
HasPath(edges, from, to) ==
  \A s \in SUBSET Rooms :
    from \in s /\ (\A a \in edges : a.from \in s => a.to \in s) => to \in s

SameEdge(a, b) ==
  /\ a.kind = b.kind
  /\ \/ a.from = b.from /\ a.to = b.to
     \/ a.kind = "collaborates" /\ a.from = b.to /\ a.to = b.from

\* Mutant: the path that is looked for leads the way the arrow does.
EdgeFitsForward(edge, there, before) ==
  /\ edge.from # edge.to /\ {edge.from, edge.to} \subseteq there
  /\ \A other \in before : ~SameEdge(other, edge)
  /\ edge.kind = "escalates_to" =>
       ~HasPath(Edges(before, "escalates_to"), edge.from, edge.to)

\* validateEdge.
EdgeFits(edge, there, before) ==
  /\ edge.from # edge.to /\ {edge.from, edge.to} \subseteq there
  /\ \A other \in before : ~SameEdge(other, edge)
  /\ edge.kind = "escalates_to" =>
       ~HasPath(Edges(before, "escalates_to"), edge.to, edge.from)

-------------------------------------------------------------------------------
\* The routes: `reads` are the tables a check was made against.

Busy(r) == edits[r].table # "none"

Conflict(v, w) == v.table \in w.reads \/ w.table \in v.reads

Ready(r) == ~Busy(r) /\ edited < MaxEdits

Allow(r, write) ==
  /\ edited' = edited + 1
  /\ edits' = [edits EXCEPT ![r] = write]
  /\ raced' = (raced \/ \E q \in Editors : Busy(q) /\ Conflict(edits[q], write))
  /\ UNCHANGED <<rooms, staff, connectors, arrows, loose>>

\* The id a record is made under, which no request has drawn before.
NewId(id, name, table) ==
  LET drawn == {edits[r].id : r \in {q \in Editors : edits[q].table = name}}
      free == {other \in DOMAIN table : table[other].state = "unmade"} \ drawn
  IN free # {} /\ id = First(free)

Put(table, id, value, reads) == [table |-> table, id |-> id, value |-> value, reads |-> reads]

PostRoom(r) ==
  \E id \in Rooms, name \in Names, grant \in Connectors \cup {None} :
    /\ NewId(id, "rooms", rooms) /\ NameIsFree(rooms, id, name) /\ Grantable(grant, connectors)
    /\ Allow(r, Put("rooms", id, [state |-> "there", name |-> name, grant |-> grant, bench |-> {}],
                    {"rooms", "connectors"}))

\* What is left out of a change is written back as it was read, the run state too.
PatchRoom(r) ==
  \E id \in There(rooms) :
    \/ \E name \in Names :
         /\ NameIsFree(rooms, id, name)
         /\ Allow(r, Put("rooms", id, [rooms[id] EXCEPT !.name = name], {"rooms"}))
    \/ \E grant \in Connectors \cup {None} :
         /\ Grantable(grant, connectors)
         /\ Allow(r, Put("rooms", id, [rooms[id] EXCEPT !.grant = grant],
                         {"rooms", "connectors"}))
    \/ \E bench \in SUBSET Staff :
         /\ BenchFits(bench, staff, id)
         /\ Allow(r, Put("rooms", id, [rooms[id] EXCEPT !.bench = bench], {"rooms", "staff"}))

DeleteRoom(r) ==
  \E id \in There(rooms) :
    Allow(r, Put("rooms", id, [rooms[id] EXCEPT !.state = "gone"], {"rooms"}))

Hire(r) ==
  \E id \in Staff, room \in There(rooms), boss \in Hired \cup {None} :
    /\ NewId(id, "staff", staff) /\ MayAppoint(boss, id)
    /\ Allow(r, Put("staff", id, [state |-> "active", room |-> room, boss |-> boss, grant |-> None],
                    {"rooms", "staff"}))

PatchStaff(r) ==
  \E id \in Hired :
    \/ \E boss \in Hired \cup {None} :
         /\ MayAppoint(boss, id)
         /\ Allow(r, Put("staff", id, [staff[id] EXCEPT !.boss = boss], {"staff"}))
    \/ \E grant \in Connectors \cup {None} :
         /\ Grantable(grant, connectors)
         /\ Allow(r, Put("staff", id, [staff[id] EXCEPT !.grant = grant],
                         {"staff", "connectors"}))

LetGo(r) ==
  \E id \in Hired :
    /\ staff[id].state = "active"
    /\ Allow(r, Put("staff", id, [staff[id] EXCEPT !.state = "terminated"], {"staff"}))

\* A connector is asked what it offers, and what it says is written onto it.
Discover(r) ==
  \E id \in There(connectors), tool \in BOOLEAN :
    Allow(r, Put("connectors", id, [connectors[id] EXCEPT !.tool = tool], {"connectors"}))

\* The grants that name it are left alone.
DeleteConnector(r) ==
  \E id \in There(connectors) :
    Allow(r, Put("connectors", id, [connectors[id] EXCEPT !.state = "gone"], {"connectors"}))

\* createConnection: the arrow, where it fits beside the others.
Drawn(from, to, kind) ==
  {edge \in {[id |-> edited + 1, from |-> from, to |-> to, kind |-> kind]} :
     EdgeFits(edge, There(rooms), arrows)}

Connect(r) ==
  \E from, to \in Rooms, kind \in Kinds : \E edge \in Drawn(from, to, kind) :
    Allow(r, Put("arrows", edge.id, edge, {"rooms", "arrows"}))

\* Its kind and its ends stay; what changes is whether it is on and its rules.
PatchConnection(r) ==
  \E edge \in arrows : Allow(r, Put("arrows", edge.id, edge, {"arrows"}))

Disconnect(r) ==
  \E edge \in arrows : Allow(r, Put("arrows", edge.id, Nothing, {"arrows"}))

\* Somebody else names what this write takes away.
TakesAway(w) ==
  CASE w.table = "rooms" -> /\ w.value.state = "gone"
                            /\ \/ StaffOf(staff, w.id) # {}
                               \/ \E a \in arrows : w.id \in {a.from, a.to}
    [] w.table = "staff" -> /\ w.value.state = "terminated"
                            /\ \E p \in Staff : staff[p].boss = w.id
    [] w.table = "connectors" -> /\ w.value.state = "gone" \/ ~w.value.tool
                                 /\ w.id \in {rooms[id].grant : id \in There(rooms)}
                                               \cup {staff[p].grant : p \in Hired}
    [] OTHER -> FALSE

Write(r) ==
  /\ Busy(r)
  /\ LET w == edits[r]
     IN /\ rooms' = IF w.table = "rooms" THEN [rooms EXCEPT ![w.id] = w.value] ELSE rooms
        /\ staff' = IF w.table = "staff" THEN [staff EXCEPT ![w.id] = w.value] ELSE staff
        /\ connectors' = IF w.table = "connectors" THEN [connectors EXCEPT ![w.id] = w.value]
                                                   ELSE connectors
        /\ arrows' = IF w.table # "arrows" THEN arrows
                     ELSE {a \in arrows : a.id # w.id}
                            \cup (IF w.value = Nothing THEN {} ELSE {w.value})
        /\ loose' = (loose \/ TakesAway(w))
  /\ edits' = [edits EXCEPT ![r] = Nothing]
  /\ UNCHANGED <<edited, raced>>

OfficeNext ==
  \E r \in Editors :
    \/ /\ Ready(r)
       /\ \/ PostRoom(r)
          \/ PatchRoom(r)
          \/ DeleteRoom(r)
          \/ Hire(r)
          \/ PatchStaff(r)
          \/ LetGo(r)
          \/ Discover(r)
          \/ DeleteConnector(r)
          \/ Connect(r)
          \/ PatchConnection(r)
          \/ Disconnect(r)
    \/ Write(r)

OfficeSpec == OfficeInit /\ [][OfficeNext]_organisationVars

-------------------------------------------------------------------------------
\* The office as a file.

\* exportOfficeYaml writes every record that is there; importOfficeYaml makes each
\* of them again, checking it against those read before it.
DepartmentsRead(kept) ==
  \A r \in kept : /\ \A other \in kept : rooms[r].name = rooms[other].name => r = other
                  /\ Grantable(rooms[r].grant, connectors)
                  /\ BenchFits(rooms[r].bench, staff, r)

EmployeesRead(kept) ==
  \A p \in Hired : /\ staff[p].room \in kept
                   /\ MayBeBoss(staff[p].boss, staff, p)
                   /\ Grantable(staff[p].grant, connectors)

ConnectionsRead(kept) ==
  \A a \in arrows : EdgeFits(a, kept, {b \in arrows : b.id < a.id})

Imports ==
  LET kept == There(rooms)
  IN DepartmentsRead(kept) /\ EmployeesRead(kept) /\ ConnectionsRead(kept)

-------------------------------------------------------------------------------

\* An office file reads back: the checks a record passes one at a time, in the
\* order people happen to make them, are the ones the whole file passes at once.
\* What others name may have been removed, and two requests may have crossed.
ReadsBack == Imports \/ loose \/ raced

\* Escalation never comes back to the room it left, whatever is removed or drawn
\* again, unless two requests crossed.
NoLoops ==
  \/ raced
  \/ \A a \in Edges(arrows, "escalates_to") :
       ~HasPath(Edges(arrows, "escalates_to"), a.to, a.from)

\* Whoever is on a bench works in its room, even when requests cross.
BenchesWorkHere == \A r \in There(rooms) : rooms[r].bench \subseteq StaffOf(staff, r)

\* An office whose records nobody edits at once reads back from its file, its
\* escalation never comes back to the room it left, and whoever is on a bench
\* works in its room (office-file.ts, connection.ts, bench.ts).
OfficeStands == OfficeTypeOK /\ ReadsBack /\ NoLoops /\ BenchesWorkHere
===============================================================================
