------------------------------- MODULE JobQueue -------------------------------
(***************************************************************************)
(* The job queue (packages/orchestrator/src/queue) and the workers that    *)
(* take from it: priorities, concurrency limits, leases that lapse,        *)
(* retries with a growing backoff, a dead letter, and idempotency keys     *)
(* that are remembered for a while after the work is finished.             *)
(*                                                                         *)
(* A job is named by its place in the order of enqueueing, which is what   *)
(* the code's `order` map records.  A lease is <<job, attempt>>: a claim   *)
(* raises the attempt, so no two leases are ever the same.  Instants are   *)
(* kept as the ticks left until them, which is all the code compares.      *)
(***************************************************************************)
EXTENDS Integers, FiniteSets

CONSTANTS
  Workers,
  Offices,
  Staff,            \* whoever a job may be for, besides nobody in particular
  Unassigned,       \* a job of no employee
  Keys,
  NoKey,            \* a job enqueued without an idempotency key
  Requests,         \* the job specs callers enqueue
  OfficePriority,   \* [Offices -> Nat]
  MaxInFlight, MaxPerOffice, MaxPerEmployee,
  MaxAttempts,
  LeaseTicks, BackoffTicks, DedupeTicks,
  Never,            \* a key that is not to be forgotten
  NoLease,          \* a worker between jobs
  MaxJobs,          \* bound: jobs ever enqueued
  MaxFaults         \* bound: crashes of a worker and leases outlived by one

JobSpec ==
  [ office : Offices, employee : Staff \cup {Unassigned}, key : Keys \cup {NoKey},
    priority : Nat, delay : Nat ]

ASSUME QueueConstants ==
  /\ IsFiniteSet(Workers)
  /\ Requests \subseteq JobSpec
  /\ Unassigned \notin Staff /\ NoKey \notin Keys
  /\ OfficePriority \in [Offices -> Nat]
  /\ {MaxInFlight, MaxPerOffice, MaxPerEmployee, MaxAttempts} \subseteq Nat \ {0}
  /\ {LeaseTicks, BackoffTicks, DedupeTicks} \subseteq Nat \ {0}
  /\ Never \notin Nat
  /\ MaxJobs \in Nat /\ MaxFaults \in Nat

Jobs   == 1 .. MaxJobs
Leases == Jobs \X (Nat \ {0})

ASSUME NoLeaseIsNone == NoLease \notin Leases

VARIABLES
  sequence,   \* how many jobs have been enqueued
  spec,       \* [1 .. sequence -> Requests]
  attempts,   \* [1 .. sequence -> Nat], claims so far
  wait,       \* [1 .. sequence -> Nat], ticks until the job may run
  pending,
  leases,     \* held lease -> ticks until it lapses
  dead,
  keys,       \* remembered key -> the job it stands for and when it is forgotten
  hands,      \* the lease each worker is working under
  faults

queue == <<sequence, spec, attempts, wait, pending, leases, dead, keys>>
vars  == <<sequence, spec, attempts, wait, pending, leases, dead, keys, hands, faults>>

InFlight == DOMAIN leases
Live     == pending \cup {l[1] : l \in InFlight}

Init ==
  /\ sequence = 0
  /\ spec = << >> /\ attempts = << >> /\ wait = << >>
  /\ pending = {} /\ dead = {}
  /\ leases = [l \in {} |-> 0]
  /\ keys = [k \in {} |-> 0]
  /\ hands = [w \in Workers |-> NoLease]
  /\ faults = 0

-------------------------------------------------------------------------------
(* The queue.                                                              *)

Extended(f, x, y) == [z \in DOMAIN f \cup {x} |-> IF z = x THEN y ELSE f[z]]
Without(f, X)     == [z \in DOMAIN f \ X |-> f[z]]

\* A key is remembered for `forget` ticks from now.
Remembering(job, forget) ==
  IF spec[job].key = NoKey THEN keys
  ELSE Extended(keys, spec[job].key, [job |-> job, forget |-> forget])

StaleKeys == {k \in DOMAIN keys : keys[k].forget = 0}

\* Mutant: a key that has been buried or is still live no longer counts.
DeduplicatedFinished(r) ==
  r.key # NoKey /\ r.key \in DOMAIN keys \ StaleKeys /\ keys[r.key].forget # Never

Deduplicated(r) == r.key # NoKey /\ r.key \in DOMAIN keys \ StaleKeys

Enqueue(r) ==
  LET known == Without(keys, StaleKeys)
      job   == sequence + 1
  IN  /\ sequence < MaxJobs
      /\ IF Deduplicated(r)
         THEN keys' = known /\ UNCHANGED <<sequence, spec, attempts, wait, pending>>
         ELSE /\ sequence' = job
              /\ spec' = Extended(spec, job, r)
              /\ attempts' = Extended(attempts, job, 0)
              /\ wait' = Extended(wait, job, r.delay)
              /\ pending' = pending \cup {job}
              /\ keys' = IF r.key = NoKey THEN known
                         ELSE Extended(known, r.key, [job |-> job, forget |-> Never])
      /\ UNCHANGED <<leases, dead, hands, faults>>

InFlightFor(office) == {l \in InFlight : spec[l[1]].office = office}

SameEmployee(r, s) ==
  r.employee # Unassigned /\ r.employee = s.employee /\ r.office = s.office

InFlightWith(r) == {l \in InFlight : SameEmployee(spec[l[1]], r)}

\* Mutant: the employee's own limit is not looked at.
EligibleWhoever ==
  {j \in pending :
     /\ wait[j] = 0
     /\ Cardinality(InFlightFor(spec[j].office)) < MaxPerOffice}

Eligible ==
  {j \in pending :
     /\ wait[j] = 0
     /\ Cardinality(InFlightFor(spec[j].office)) < MaxPerOffice
     /\ Cardinality(InFlightWith(spec[j])) < MaxPerEmployee}

EffectivePriority(j) == spec[j].priority + OfficePriority[spec[j].office]
Load(j) == Cardinality(InFlightFor(spec[j].office))

\* Highest effective priority, then the least busy office, then oldest first.
Before(j, k) ==
  \/ EffectivePriority(j) > EffectivePriority(k)
  \/ /\ EffectivePriority(j) = EffectivePriority(k)
     /\ Load(j) < Load(k) \/ (Load(j) = Load(k) /\ j < k)

Claim(w) ==
  /\ hands[w] = NoLease
  /\ Cardinality(InFlight) < MaxInFlight
  /\ \E j \in Eligible :
       LET lease == <<j, attempts[j] + 1>> IN
       /\ \A k \in Eligible \ {j} : Before(j, k)
       /\ pending' = pending \ {j}
       /\ attempts' = [attempts EXCEPT ![j] = @ + 1]
       /\ leases' = Extended(leases, lease, LeaseTicks)
       /\ keys' = Remembering(j, Never)
       /\ hands' = [hands EXCEPT ![w] = lease]
  /\ UNCHANGED <<sequence, spec, wait, dead, faults>>

\* Mutant: an acknowledgement finishes the job under whatever lease it is held.
FinishByJob(w) ==
  LET l == hands[w] IN
  /\ l # NoLease
  /\ hands' = [hands EXCEPT ![w] = NoLease]
  /\ IF \E k \in InFlight : k[1] = l[1]
     THEN /\ leases' = Without(leases, {k \in InFlight : k[1] = l[1]})
          /\ keys' = Remembering(l[1], DedupeTicks)
     ELSE UNCHANGED <<leases, keys>>
  /\ UNCHANGED <<sequence, spec, attempts, wait, pending, dead, faults>>

\* The worker is done; a lease that was taken back is acknowledged in vain.
Finish(w) ==
  LET l == hands[w] IN
  /\ l # NoLease
  /\ hands' = [hands EXCEPT ![w] = NoLease]
  /\ IF l \in InFlight
     THEN leases' = Without(leases, {l}) /\ keys' = Remembering(l[1], DedupeTicks)
     ELSE UNCHANGED <<leases, keys>>
  /\ UNCHANGED <<sequence, spec, attempts, wait, pending, dead, faults>>

Spent(l) == l[2] >= MaxAttempts

\* Mutant: a failure reported under a lease that was taken back is a retry too.
FailLate(w) ==
  LET l == hands[w] IN
  /\ l # NoLease
  /\ hands' = [hands EXCEPT ![w] = NoLease]
  /\ leases' = Without(leases, {l})
  /\ pending' = pending \cup {l[1]}
  /\ wait' = [wait EXCEPT ![l[1]] = BackoffTicks * 2 ^ (l[2] - 1)]
  /\ UNCHANGED <<sequence, spec, attempts, dead, keys, faults>>

Fail(w) ==
  LET l == hands[w]
      j == l[1]
  IN  /\ l # NoLease
      /\ hands' = [hands EXCEPT ![w] = NoLease]
      /\ \/ /\ l \notin InFlight
            /\ UNCHANGED <<leases, dead, keys, wait, pending>>
         \/ /\ l \in InFlight /\ Spent(l)
            /\ leases' = Without(leases, {l})
            /\ dead' = dead \cup {j}
            /\ keys' = Remembering(j, Never)
            /\ UNCHANGED <<wait, pending>>
         \/ /\ l \in InFlight /\ ~Spent(l)
            /\ leases' = Without(leases, {l})
            /\ pending' = pending \cup {j}
            /\ wait' = [wait EXCEPT ![j] = BackoffTicks * 2 ^ (l[2] - 1)]
            /\ UNCHANGED <<dead, keys>>
      /\ UNCHANGED <<sequence, spec, attempts, faults>>

\* Mutant: a lease is good for one tick after it ran out, when nothing counts it.
LapsedPast == {l \in InFlight : leases[l] + 1 = 0}

Lapsed == {l \in InFlight : leases[l] = 0}

\* Every worker's tick begins by taking back what lapsed; the attempt is kept.
RecoverExpired ==
  /\ Lapsed # {}
  /\ leases' = Without(leases, Lapsed)
  /\ pending' = pending \cup {l[1] : l \in Lapsed}
  /\ UNCHANGED <<sequence, spec, attempts, wait, dead, keys, hands, faults>>

-------------------------------------------------------------------------------
(* What happens to it.                                                     *)

\* Mutant: what is due already goes on counting down.
LessWithoutEnd(n) == n - 1

Less(n) == IF n = 0 THEN 0 ELSE n - 1

\* The leases their holders are about to outlive.
Outlived == {w \in Workers : hands[w] \in InFlight /\ leases[hands[w]] = 1}

Tick ==
  /\ \/ \E j \in pending : wait[j] > 0
     \/ \E l \in InFlight : leases[l] > 0
     \/ \E k \in DOMAIN keys : keys[k].forget \notin {0, Never}
  /\ faults' = faults + Cardinality(Outlived)
  /\ faults' <= MaxFaults
  /\ wait' = [j \in DOMAIN wait |-> Less(wait[j])]
  /\ leases' = [l \in InFlight |-> Less(leases[l])]
  /\ keys' = [k \in DOMAIN keys |->
                IF keys[k].forget = Never THEN keys[k]
                ELSE [keys[k] EXCEPT !.forget = Less(@)]]
  /\ UNCHANGED <<sequence, spec, attempts, pending, dead, hands>>

\* A worker goes away with a job in its hands.
Crash(w) ==
  /\ hands[w] # NoLease
  /\ faults < MaxFaults
  /\ faults' = faults + 1
  /\ hands' = [hands EXCEPT ![w] = NoLease]
  /\ UNCHANGED queue

Next ==
  \/ \E r \in Requests : Enqueue(r)
  \/ \E w \in Workers : Claim(w) \/ Finish(w) \/ Fail(w) \/ Crash(w)
  \/ RecoverExpired
  \/ Tick

Spec == Init /\ [][Next]_vars

\* Workers tick in a loop: each asks for work whenever it has none, ends what
\* it took one way or the other, and takes back what lapsed; time goes on.
FairSpec ==
  /\ Spec
  /\ \A w \in Workers : WF_vars(Claim(w)) /\ WF_vars(Finish(w) \/ Fail(w))
  /\ WF_vars(RecoverExpired)
  /\ WF_vars(Tick)

-------------------------------------------------------------------------------
(* Properties.                                                             *)

Enqueued == 1 .. sequence

TypeOK ==
  /\ sequence \in 0 .. MaxJobs
  /\ spec \in [Enqueued -> Requests]
  /\ attempts \in [Enqueued -> Nat]
  /\ wait \in [Enqueued -> Nat]
  /\ pending \subseteq Enqueued /\ dead \subseteq Enqueued
  /\ InFlight \subseteq Enqueued \X (Nat \ {0})
  /\ leases \in [InFlight -> Nat]
  /\ DOMAIN keys \subseteq Keys
  /\ keys \in [DOMAIN keys -> [job : Enqueued, forget : Nat \cup {Never}]]
  /\ hands \in [Workers -> (Enqueued \X (Nat \ {0})) \cup {NoLease}]
  /\ faults \in Nat

\* A job is in one place: waiting, under the one lease of its latest attempt, or
\* in the dead letter, whatever lapsed, failed late or was acknowledged in vain.
OnePlace ==
  /\ pending \cap dead = {}
  /\ \A l \in InFlight : l[1] \notin pending \cup dead /\ l[2] = attempts[l[1]]

\* Two enqueues with the same key are one job while that job is outstanding, and
\* a buried job's key stays taken.
OneJobPerKey ==
  \A i, j \in Live \cup dead :
    spec[i].key # NoKey /\ spec[i].key = spec[j].key => i = j

\* No employee, no office and no queue has more in flight than its limit.
WithinLimits ==
  /\ Cardinality(InFlight) <= MaxInFlight
  /\ \A l \in InFlight :
       /\ Cardinality(InFlightFor(spec[l[1]].office)) <= MaxPerOffice
       /\ spec[l[1]].employee # Unassigned =>
            Cardinality(InFlightWith(spec[l[1]])) <= MaxPerEmployee

\* The queue is in order: every job is in one place, no key stands for two jobs
\* and nobody has more on their hands than their limit.
InOrder == TypeOK /\ OnePlace /\ OneJobPerKey /\ WithinLimits

\* A job stops being outstanding only when the holder of its latest lease says
\* so, and it is buried only after all of its attempts.
NothingLost ==
  [][\A j \in Live : j \notin Live' =>
       /\ \E w \in Workers : hands[w] = <<j, attempts[j]>> /\ hands'[w] = NoLease
       /\ j \in dead' => attempts[j] >= MaxAttempts]_vars

\* A job that was finished or buried never comes back, even when a holder that
\* was given up on answers long afterwards.
SettledStaysSettled ==
  [][\A j \in Enqueued : j \notin Live => j \notin Live' /\ (j \in dead <=> j \in dead')]_vars

\* A job ends once: at the word of whoever holds it, and for good.
EndsOnce == NothingLost /\ SettledStaysSettled

\* Every job is finished or buried in the end, crashes and late answers included.
EveryJobSettles == \A j \in Jobs : j \in Live ~> j \notin Live

\* What a job's caller may rely on.
phase ==
  [j \in Enqueued |->
     IF j \in pending THEN "waiting"
     ELSE IF \E l \in InFlight : l[1] = j THEN "running"
     ELSE IF j \in dead THEN "buried" ELSE "settled"]

D == INSTANCE Delivery WITH asked <- spec

\* The queue delivers as it promises.
Delivers == D!Spec
===============================================================================
