-------------------------------- MODULE Leaders --------------------------------
(* Who may decide what is due: a lease on one lock (worker/leader.ts), kept in  *)
(* the coordination store (stores/in-memory.ts).  A campaign reads the clock,   *)
(* asks the store and learns the answer, in three steps: time passes and other  *)
(* workers ask in between.  The clock is one for the workers and the store.     *)
EXTENDS Integers, FiniteSets

CONSTANTS
  Workers,
  Nobody,
  Lease,         \* leaseMs
  RenewAfter     \* renewAfterMs

ASSUME LeaderConstants ==
  /\ Nobody \notin Workers
  /\ Lease \in Nat \ {0}
  /\ RenewAfter \in Nat /\ RenewAfter <= Lease

VARIABLES
  clock,
  lock,      \* the store's entry: its owner and when it expires
  election   \* what each worker's LeaderElection knows

leaderVars == <<clock, lock, election>>

Asking == {"silent", "asking", "taken", "refused"}

\* heldUntil is 0 where the code has null: no lease runs out at the first instant.
Election == [heldUntil : Nat, renewAt : Nat, asked : Nat, answer : Asking]

NoElection == [heldUntil |-> 0, renewAt |-> 0, asked |-> 0, answer |-> "silent"]

LeadersInit ==
  /\ clock = 0
  /\ lock = [owner |-> Nobody, until |-> 0]
  /\ election = [w \in Workers |-> NoElection]

\* The owner of an entry that has not expired.
Live == IF clock < lock.until THEN lock.owner ELSE Nobody

\* Whether this worker may schedule, on its own knowledge alone.
IsLeader(w) == clock < election[w].heldUntil

\* Inside the renewal time a worker answers without troubling the store.
NeedNotAsk(w) == election[w].heldUntil > 0 /\ clock < election[w].renewAt

Ask(w) ==
  /\ election[w].answer = "silent" /\ ~NeedNotAsk(w)
  /\ election' = [election EXCEPT ![w].asked = clock, ![w].answer = "asking"]
  /\ UNCHANGED <<clock, lock>>

\* Mutant: whoever asks is given the lock.
AcquireAnyway(w) ==
  /\ election[w].answer = "asking"
  /\ lock' = [owner |-> w, until |-> clock + Lease]
  /\ election' = [election EXCEPT ![w].answer = "taken"]
  /\ UNCHANGED clock

AcquireLock(w) ==
  /\ election[w].answer = "asking"
  /\ IF Live \in {Nobody, w}
     THEN /\ lock' = [owner |-> w, until |-> clock + Lease]
          /\ election' = [election EXCEPT ![w].answer = "taken"]
     ELSE /\ election' = [election EXCEPT ![w].answer = "refused"]
          /\ UNCHANGED lock
  /\ UNCHANGED clock

\* A lease counts from the moment the worker asked for it.
Learn(w) ==
  /\ \/ /\ election[w].answer = "taken"
        /\ election' = [election EXCEPT ![w].answer = "silent",
                                       ![w].heldUntil = election[w].asked + Lease,
                                       ![w].renewAt = election[w].asked + RenewAfter]
     \/ /\ election[w].answer = "refused"
        /\ election' = [election EXCEPT ![w].answer = "silent", ![w].heldUntil = 0]
  /\ UNCHANGED <<clock, lock>>

ReleaseLock(w) == lock' = IF Live = w THEN [owner |-> Nobody, until |-> 0] ELSE lock

\* Stepping down: what the worker knows, then the lock if it is its own.
Resign(w) ==
  /\ election[w].answer = "silent"
  /\ election' = [election EXCEPT ![w].heldUntil = 0]
  /\ ReleaseLock(w)
  /\ UNCHANGED clock

\* A worker that dies takes what it knew with it and leaves the lock.
Die(w) == election' = [election EXCEPT ![w] = NoElection] /\ UNCHANGED <<clock, lock>>

TimePasses == clock' = clock + 1 /\ UNCHANGED <<lock, election>>

LeadersNext ==
  \/ TimePasses
  \/ \E w \in Workers : Ask(w) \/ AcquireLock(w) \/ Learn(w) \/ Resign(w) \/ Die(w)

LeadersSpec == LeadersInit /\ [][LeadersNext]_leaderVars

-------------------------------------------------------------------------------
LeadersTypeOK ==
  /\ clock \in Nat
  /\ lock \in [owner : Workers \cup {Nobody}, until : Nat]
  /\ election \in [Workers -> Election]

\* Of all the workers at most one believes it leads, at any instant, whatever
\* answers are on their way and however long a process stalls.
OneLeader == \A v, w \in Workers : IsLeader(v) /\ IsLeader(w) => v = w

\* Why: a lease somebody believes in, or is about to believe in, is covered by
\* an entry of the store that is theirs and outlasts it.
CoveredFor(w) ==
  /\ clock < election[w].heldUntil => lock.owner = w /\ election[w].heldUntil <= lock.until
  /\ election[w].heldUntil <= clock + Lease
  /\ election[w].answer = "taken" /\ clock < election[w].asked + Lease =>
       lock.owner = w /\ election[w].asked + Lease <= lock.until
  /\ election[w].answer # "silent" => election[w].asked <= clock

Covered == \A w \in Workers : CoveredFor(w)
===============================================================================
