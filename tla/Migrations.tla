------------------------------ MODULE Migrations ------------------------------
(***************************************************************************)
(* Opening a database: the bookkeeping table, then the migrations it does  *)
(* not have yet (adapters/sql/runner.ts, SqliteRelationalStore.initialize),*)
(* and taking migrations back.  A migration creates its tables one by one  *)
(* and is marked as applied afterwards; no transaction holds the steps     *)
(* together, and several processes may open the one file.                  *)
(***************************************************************************)
EXTENDS Naturals, FiniteSets, SequencesExt

CONSTANTS
  Steps,     \* [migration -> the tables it creates, in order]; migrations are 1, 2, ...
  Processes,
  Knows,     \* [Processes -> how many of the migrations its build has]
  MaxStops   \* bound: processes that end in the middle

VARIABLES
  tables,   \* the tables of the database
  applied,  \* the migrations marked as applied
  doing,    \* [Processes -> what it is at]
  stops,
  broken,   \* history: migrations left in the middle, or taken back with others about
  met       \* history: processes that were not alone since they opened the file

vars == <<tables, applied, doing, stops, broken, met>>

Migs == DOMAIN Steps
TablesOf(m) == ToSet(Steps[m])

\* A process that has the database open; one that is to run the migrations in
\* `todo`, of which the first has `at` steps behind it; and one refused.
Closed == [step |-> "closed", todo |-> << >>, at |-> 0]
Open   == [step |-> "open",   todo |-> << >>, at |-> 0]
Failed == [step |-> "failed", todo |-> << >>, at |-> 0]

TypeOK ==
  /\ applied \subseteq Migs /\ broken \subseteq Migs
  /\ tables \subseteq UNION {TablesOf(m) : m \in Migs}
  /\ \A p \in Processes : /\ doing[p].step \in {"closed", "open", "failed", "up", "down"}
                          /\ doing[p].todo \in Seq(Migs)
  /\ stops \in 0 .. MaxStops

Init ==
  /\ tables = {} /\ applied = {} /\ broken = {} /\ met = {} /\ stops = 0
  /\ doing = [p \in Processes |-> Closed]

Goes(p, what) == doing' = [doing EXCEPT ![p] = what]
At(p, step) == doing[p].step = step /\ doing[p].todo # << >>
Current(p) == Head(doing[p].todo)

\* What a process leaves behind that stops, or fails, where it is.
Left(p) ==
  IF doing[p].todo # << >> /\ doing[p].at > 0 THEN broken \cup {Current(p)} ELSE broken

\* Mutant: every migration the build has.
PendingAll(p) == [i \in 1 .. Knows[p] |-> i]

\* Mutant: one more than the build has.
PendingOneMore(p) == SelectSeq([i \in 1 .. Knows[p] + 1 |-> i], LAMBDA m : m \notin applied)

\* What there is to do is read once: MigrationRunner.status.
Pending(p) == SelectSeq([i \in 1 .. Knows[p] |-> i], LAMBDA m : m \notin applied)
Done(p)    == SelectSeq([i \in 1 .. Knows[p] |-> i], LAMBDA m : m \in applied)
Unknown(p) == applied \ (1 .. Knows[p])

Work(step, todo) == IF todo = << >> THEN Open ELSE [step |-> step, todo |-> todo, at |-> 0]

OpenDatabase(p) ==
  /\ doing[p].step \in {"closed", "failed"}
  /\ Goes(p, IF Unknown(p) # {} THEN Failed ELSE Work("up", Pending(p)))
  /\ LET others == {q \in Processes \ {p} : doing[q].step \notin {"closed", "failed"}}
     IN met' = IF others = {} THEN met \ {p} ELSE met \cup others \cup {p}
  /\ UNCHANGED <<tables, applied, stops, broken>>

MigrateDown(p) ==
  /\ doing[p].step = "open"
  /\ Goes(p, IF Unknown(p) # {} THEN Failed ELSE Work("down", Reverse(Done(p))))
  /\ UNCHANGED <<tables, applied, stops, broken, met>>

NextStep(p) == [doing[p] EXCEPT !.at = @ + 1]
Fails(p) == Goes(p, Failed) /\ broken' = Left(p)

\* CREATE TABLE of one that is there fails, and so does the opening.
CreateTable(p) ==
  /\ At(p, "up") /\ doing[p].at < Len(Steps[Current(p)])
  /\ LET t == Steps[Current(p)][doing[p].at + 1]
     IN \/ t \in tables /\ Fails(p) /\ UNCHANGED tables
        \/ t \notin tables /\ tables' = tables \cup {t} /\ Goes(p, NextStep(p)) /\ UNCHANGED broken
  /\ UNCHANGED <<applied, stops, met>>

\* Mutant: one step too early.
MarkAppliedEarly(p) ==
  /\ At(p, "up") /\ doing[p].at = Len(Steps[Current(p)]) - 1
  /\ applied' = applied \cup {Current(p)}
  /\ Goes(p, Work("up", Tail(doing[p].todo)))
  /\ UNCHANGED <<tables, broken, stops, met>>

\* The bookkeeping is keyed by the migration: a second mark fails.
MarkApplied(p) ==
  /\ At(p, "up") /\ doing[p].at = Len(Steps[Current(p)])
  /\ \/ Current(p) \in applied /\ Fails(p) /\ UNCHANGED applied
     \/ /\ Current(p) \notin applied
        /\ applied' = applied \cup {Current(p)}
        /\ Goes(p, Work("up", Tail(doing[p].todo)))
        /\ UNCHANGED broken
  /\ UNCHANGED <<tables, stops, met>>

\* Tables go in the opposite order; DROP TABLE of one that is not there fails.
DropTable(p) ==
  /\ At(p, "down") /\ doing[p].at < Len(Steps[Current(p)])
  /\ LET t == Reverse(Steps[Current(p)])[doing[p].at + 1]
     IN \/ t \notin tables /\ Fails(p) /\ UNCHANGED tables
        \/ /\ t \in tables /\ tables' = tables \ {t}
           /\ Goes(p, NextStep(p))
           /\ broken' = IF p \in met THEN broken \cup {Current(p)} ELSE broken
  /\ UNCHANGED <<applied, stops, met>>

UnmarkApplied(p) ==
  /\ At(p, "down") /\ doing[p].at = Len(Steps[Current(p)])
  /\ applied' = applied \ {Current(p)}
  /\ Goes(p, Work("down", Tail(doing[p].todo)))
  /\ UNCHANGED <<tables, stops, broken, met>>

Stop(p) ==
  /\ stops < MaxStops /\ doing[p].step \in {"up", "down"}
  /\ stops' = stops + 1
  /\ Goes(p, Closed)
  /\ broken' = Left(p)
  /\ UNCHANGED <<tables, applied, met>>

Close(p) ==
  /\ doing[p].step = "open"
  /\ Goes(p, Closed)
  /\ UNCHANGED <<tables, applied, stops, broken, met>>

Next ==
  \E p \in Processes :
    \/ OpenDatabase(p)
    \/ MigrateDown(p)
    \/ CreateTable(p)
    \/ MarkApplied(p)
    \/ DropTable(p)
    \/ UnmarkApplied(p)
    \/ Stop(p)
    \/ Close(p)

Spec == Init /\ [][Next]_vars

-------------------------------------------------------------------------------

\* A migration that is marked as applied has all its tables, over processes that
\* open the file at once, end half way and take migrations back, unless one is
\* taking it back, left it in the middle or took it back while others had the file.
MarkedIsThere ==
  \A m \in applied \ broken :
    \/ TablesOf(m) \subseteq tables
    \/ \E p \in Processes : At(p, "down") /\ Current(p) = m

\* An opening is only refused by a database newer than the build, by a migration
\* that was left in the middle, or by another process at work on it meanwhile: one
\* that was opened and closed in peace opens again.
RefusedForAReason ==
  [][ \A p \in Processes :
        doing[p] # Failed /\ doing'[p] = Failed =>
          Unknown(p) # {} \/ broken # {} \/ p \in met ]_vars
===============================================================================
