---------------------------- MODULE JobQueueProofs ----------------------------
(***************************************************************************)
(* Theorems about the job queue, for every set of workers, offices, keys   *)
(* and requests, every limit and every duration.                           *)
(*                                                                         *)
(* The argument rests on two facts about the queue's own records.  A lease *)
(* that is held carries the number of claims its job has had, so a job has *)
(* one lease at most and a lease that was taken back is never mistaken for *)
(* the one that replaced it.  And a key is remembered without a time limit *)
(* for as long as its job is outstanding or buried, so no second job gets  *)
(* to share it.                                                            *)
(***************************************************************************)
EXTENDS JobQueue, FiniteSetTheorems, TLAPS

\* A job that still answers for its key holds it, for good.
Holds(j) ==
  spec[j].key # NoKey =>
    /\ spec[j].key \in DOMAIN keys
    /\ keys[spec[j].key] = [job |-> j, forget |-> Never]

KeysHeld == \A j \in Live \cup dead : Holds(j)

IInv == TypeOK /\ OnePlace /\ KeysHeld

-------------------------------------------------------------------------------
(* Operators.                                                              *)

\* The backoff doubles, and stays a natural number: 2 ^ n counts the subsets of
\* a set of n elements.
LEMMA Doubling == \A n \in Nat : 2 ^ n \in Nat
<1> SUFFICES ASSUME NEW n \in Nat PROVE 2 ^ n \in Nat
  OBVIOUS
<1>1. IsFiniteSet(1 .. n) /\ Cardinality(1 .. n) = n
  BY FS_Interval
<1>2. IsFiniteSet(SUBSET (1 .. n)) /\ Cardinality(SUBSET (1 .. n)) = 2 ^ n
  BY <1>1, FS_SUBSET
<1>3. QED
  BY <1>2, FS_CardinalityType

LEMMA BackoffIsNat == \A n \in Nat \ {0} : BackoffTicks * 2 ^ (n - 1) \in Nat
<1> SUFFICES ASSUME NEW n \in Nat \ {0} PROVE BackoffTicks * 2 ^ (n - 1) \in Nat
  OBVIOUS
<1>1. n - 1 \in Nat
  OBVIOUS
<1>2. 2 ^ (n - 1) \in Nat
  BY <1>1, Doubling
<1>3. BackoffTicks \in Nat
  BY QueueConstants
<1>4. ASSUME NEW a \in Nat, NEW b \in Nat PROVE a * b \in Nat
  OBVIOUS
<1>5. QED
  BY <1>2, <1>3, <1>4

\* What is remembered of a job's key, besides what was remembered already.
LEMMA RememberingFacts ==
  ASSUME TypeOK, NEW j \in Enqueued, NEW forget \in Nat \cup {Never}
  PROVE  /\ DOMAIN Remembering(j, forget) \subseteq Keys
         /\ DOMAIN keys \subseteq DOMAIN Remembering(j, forget)
         /\ Remembering(j, forget) \in
              [DOMAIN Remembering(j, forget) -> [job : Enqueued, forget : Nat \cup {Never}]]
         /\ \A k \in DOMAIN keys : k # spec[j].key => Remembering(j, forget)[k] = keys[k]
         /\ spec[j].key # NoKey =>
              /\ spec[j].key \in DOMAIN Remembering(j, forget)
              /\ Remembering(j, forget)[spec[j].key] = [job |-> j, forget |-> forget]
<1>1. spec[j].key \in Keys \cup {NoKey}
  BY QueueConstants DEF TypeOK, JobSpec
<1>2. [job |-> j, forget |-> forget] \in [job : Enqueued, forget : Nat \cup {Never}]
  OBVIOUS
<1>3. CASE spec[j].key = NoKey
  BY <1>3 DEF Remembering, TypeOK
<1>4. CASE spec[j].key # NoKey
  <2> DEFINE Entries == [job : Enqueued, forget : Nat \cup {Never}]
             entry   == [job |-> j, forget |-> forget]
  <2>1. Remembering(j, forget) = Extended(keys, spec[j].key, entry)
    BY <1>4 DEF Remembering
  <2>2. keys \in [DOMAIN keys -> Entries] /\ entry \in Entries /\ DOMAIN keys \subseteq Keys
    BY <1>2 DEF TypeOK
  <2> HIDE DEF Entries, entry
  <2>3. /\ Remembering(j, forget) \in [DOMAIN keys \cup {spec[j].key} -> Entries]
        /\ Remembering(j, forget)[spec[j].key] = entry
        /\ \A k \in DOMAIN keys \ {spec[j].key} : Remembering(j, forget)[k] = keys[k]
    BY <2>1, <2>2 DEF Extended
  <2>4. DOMAIN Remembering(j, forget) = DOMAIN keys \cup {spec[j].key}
    BY <2>3
  <2>5. DOMAIN Remembering(j, forget) \subseteq Keys
    BY <1>1, <1>4, <2>2, <2>4
  <2>6. Remembering(j, forget) \in [DOMAIN Remembering(j, forget) -> Entries]
    BY <2>3, <2>4
  <2>7. QED
    BY <2>3, <2>4, <2>5, <2>6 DEF Entries, entry
<1>5. QED
  BY <1>3, <1>4

-------------------------------------------------------------------------------
(* Type correctness.                                                       *)

LEMMA InitType == Init => TypeOK
<1> SUFFICES ASSUME Init PROVE TypeOK
  OBVIOUS
<1>1. Enqueued = {}
  BY DEF Init, Enqueued
<1>2. QED
  BY <1>1, QueueConstants DEF Init, TypeOK, InFlight

LEMMA EnqueueType ==
  ASSUME TypeOK, NEW r \in Requests, Enqueue(r)
  PROVE  TypeOK'
<1> DEFINE known == Without(keys, StaleKeys)
           job   == sequence + 1
           Entries(n) == [job : 1 .. n, forget : Nat \cup {Never}]
<1>1. /\ DOMAIN known \subseteq Keys
      /\ known \in [DOMAIN known -> Entries(sequence)]
  BY DEF TypeOK, Without, Enqueued
<1>2. UNCHANGED <<leases, dead, hands, faults>>
  BY DEF Enqueue
<1>3. CASE Deduplicated(r)
  <2>1. keys' = known /\ UNCHANGED <<sequence, spec, attempts, wait, pending>>
    BY <1>3 DEF Enqueue
  <2>2. QED
    BY <1>1, <1>2, <2>1 DEF TypeOK, Enqueued, InFlight
<1>4. CASE ~Deduplicated(r)
  <2>1. /\ sequence < MaxJobs
        /\ sequence' = job
        /\ spec' = Extended(spec, job, r)
        /\ attempts' = Extended(attempts, job, 0)
        /\ wait' = Extended(wait, job, r.delay)
        /\ pending' = pending \cup {job}
        /\ keys' = IF r.key = NoKey THEN known
                   ELSE Extended(known, r.key, [job |-> job, forget |-> Never])
    BY <1>4 DEF Enqueue
  <2>2. /\ sequence \in Nat /\ sequence' \in 0 .. MaxJobs
        /\ Enqueued' = Enqueued \cup {job} /\ job \notin Enqueued
    BY <2>1, QueueConstants DEF TypeOK, Enqueued
  <2>3. r.delay \in Nat /\ r.key \in Keys \cup {NoKey}
    BY QueueConstants DEF JobSpec
  <2>4. /\ spec' \in [Enqueued' -> Requests]
        /\ attempts' \in [Enqueued' -> Nat]
        /\ wait' \in [Enqueued' -> Nat]
    BY <2>1, <2>2, <2>3 DEF TypeOK, Extended
  <2>5. /\ DOMAIN keys' \subseteq Keys
        /\ keys' \in [DOMAIN keys' -> Entries(sequence')]
    <3>1. known \in [DOMAIN known -> Entries(sequence')]
      BY <1>1, <2>1, <2>2
    <3>2. [job |-> job, forget |-> Never] \in Entries(sequence')
      BY <2>1, <2>2
    <3>3. CASE r.key = NoKey
      BY <1>1, <2>1, <3>1, <3>3
    <3>4. CASE r.key # NoKey
      <4> DEFINE entry == [job |-> job, forget |-> Never]
                 E     == Entries(sequence')
      <4>1. keys' = Extended(known, r.key, entry) /\ r.key \in Keys
        BY <2>1, <2>3, <3>4
      <4>2. known \in [DOMAIN known -> E] /\ entry \in E
        BY <3>1, <3>2
      <4> HIDE DEF entry, E, known
      <4>3. keys' \in [DOMAIN known \cup {r.key} -> E]
        BY <4>1, <4>2 DEF Extended
      <4>4. DOMAIN keys' = DOMAIN known \cup {r.key}
        BY <4>3
      <4>5. DOMAIN keys' \subseteq Keys
        BY <1>1, <4>1, <4>4
      <4>6. keys' \in [DOMAIN keys' -> E]
        BY <4>3, <4>4
      <4>7. QED
        BY <4>5, <4>6 DEF E
    <3>5. QED
      BY <3>3, <3>4
  <2>6. /\ pending' \subseteq Enqueued' /\ dead' \subseteq Enqueued'
        /\ InFlight' = InFlight /\ leases' = leases
        /\ InFlight \subseteq Enqueued' \X (Nat \ {0})
        /\ hands' \in [Workers -> (Enqueued' \X (Nat \ {0})) \cup {NoLease}]
        /\ faults' \in Nat
    <3>1. Enqueued \subseteq Enqueued'
      BY <2>2
    <3>2. InFlight' = InFlight /\ leases' = leases /\ dead' = dead /\ faults' = faults /\ hands' = hands
      BY <1>2 DEF InFlight
    <3>3. Enqueued \X (Nat \ {0}) \subseteq Enqueued' \X (Nat \ {0})
      BY <3>1
    <3>4. QED
      BY <2>1, <2>2, <3>1, <3>2, <3>3 DEF TypeOK
  <2>7. QED
    BY <2>2, <2>4, <2>5, <2>6 DEF TypeOK, Enqueued
<1>5. QED
  BY <1>3, <1>4

LEMMA ClaimType ==
  ASSUME TypeOK, NEW w \in Workers, Claim(w)
  PROVE  TypeOK'
<1>1. PICK j \in Eligible :
        /\ pending' = pending \ {j}
        /\ attempts' = [attempts EXCEPT ![j] = @ + 1]
        /\ leases' = Extended(leases, <<j, attempts[j] + 1>>, LeaseTicks)
        /\ keys' = Remembering(j, Never)
        /\ hands' = [hands EXCEPT ![w] = <<j, attempts[j] + 1>>]
  BY DEF Claim
<1>2. UNCHANGED <<sequence, spec, wait, dead, faults>> /\ Enqueued' = Enqueued
  BY DEF Claim, Enqueued
<1>3. j \in pending /\ j \in Enqueued /\ attempts[j] + 1 \in Nat \ {0}
  BY DEF Eligible, TypeOK
<1> DEFINE lease == <<j, attempts[j] + 1>>
<1>4. lease \in Enqueued \X (Nat \ {0})
  BY <1>3
<1> HIDE DEF lease
<1>5. /\ leases' \in [InFlight \cup {lease} -> Nat]
      /\ InFlight' = InFlight \cup {lease}
  <2>1. LeaseTicks \in Nat /\ leases \in [InFlight -> Nat]
    BY QueueConstants DEF TypeOK
  <2>2. leases' = Extended(leases, lease, LeaseTicks)
    BY <1>1 DEF lease
  <2>3. QED
    BY <2>1, <2>2 DEF Extended, InFlight
<1>6. /\ DOMAIN keys' \subseteq Keys
      /\ keys' \in [DOMAIN keys' -> [job : Enqueued, forget : Nat \cup {Never}]]
  BY <1>1, <1>3, RememberingFacts
<1>7. hands' \in [Workers -> (Enqueued \X (Nat \ {0})) \cup {NoLease}]
  BY <1>1, <1>4 DEF TypeOK, lease
<1>8. attempts' \in [Enqueued -> Nat] /\ pending' \subseteq Enqueued
  BY <1>1, <1>3 DEF TypeOK
<1>9. QED
  BY <1>2, <1>4, <1>5, <1>6, <1>7, <1>8 DEF TypeOK

\* The lease in a worker's hands is one of a job that was enqueued.
LEMMA HandsFacts ==
  ASSUME TypeOK, NEW w \in Workers, hands[w] # NoLease
  PROVE  /\ hands[w] \in Enqueued \X (Nat \ {0})
         /\ hands[w][1] \in Enqueued /\ hands[w][2] \in Nat \ {0}
  BY DEF TypeOK

\* Leases that go leave the others as they are.
LEMMA LeasesGo ==
  ASSUME TypeOK, NEW X, leases' = Without(leases, X)
  PROVE  /\ InFlight' = InFlight \ X
         /\ leases' \in [InFlight' -> Nat]
  BY DEF Without, InFlight, TypeOK

LEMMA FinishType ==
  ASSUME TypeOK, NEW w \in Workers, Finish(w)
  PROVE  TypeOK'
<1> DEFINE l == hands[w]
<1>1. /\ l \in Enqueued \X (Nat \ {0}) /\ l[1] \in Enqueued
      /\ hands' = [hands EXCEPT ![w] = NoLease]
      /\ UNCHANGED <<sequence, spec, attempts, wait, pending, dead, faults>>
      /\ Enqueued' = Enqueued
  BY HandsFacts DEF Finish, Enqueued
<1>2. hands' \in [Workers -> (Enqueued \X (Nat \ {0})) \cup {NoLease}]
  BY <1>1 DEF TypeOK
<1>3. CASE l \in InFlight
  <2>1. leases' = Without(leases, {l}) /\ keys' = Remembering(l[1], DedupeTicks)
    BY <1>3 DEF Finish
  <2>2. InFlight' = InFlight \ {l} /\ leases' \in [InFlight' -> Nat]
    BY <2>1, LeasesGo
  <2>3. DedupeTicks \in Nat \cup {Never}
    BY QueueConstants
  <2>4. /\ DOMAIN keys' \subseteq Keys
        /\ keys' \in [DOMAIN keys' -> [job : Enqueued, forget : Nat \cup {Never}]]
    BY <1>1, <2>1, <2>3, RememberingFacts
  <2>5. QED
    BY <1>1, <1>2, <2>2, <2>4 DEF TypeOK
<1>4. CASE l \notin InFlight
  <2>1. UNCHANGED <<leases, keys>>
    BY <1>4 DEF Finish
  <2>2. QED
    BY <1>1, <1>2, <2>1 DEF TypeOK, InFlight
<1>5. QED
  BY <1>3, <1>4

LEMMA FailType ==
  ASSUME TypeOK, NEW w \in Workers, Fail(w)
  PROVE  TypeOK'
<1> DEFINE l == hands[w]
<1>1. /\ l \in Enqueued \X (Nat \ {0}) /\ l[1] \in Enqueued /\ l[2] \in Nat \ {0}
      /\ hands' = [hands EXCEPT ![w] = NoLease]
      /\ UNCHANGED <<sequence, spec, attempts, faults>>
      /\ Enqueued' = Enqueued
  BY HandsFacts DEF Fail, Enqueued
<1>2. hands' \in [Workers -> (Enqueued \X (Nat \ {0})) \cup {NoLease}]
  BY <1>1 DEF TypeOK
<1>3. CASE UNCHANGED <<leases, dead, keys, wait, pending>>
  BY <1>1, <1>2, <1>3 DEF TypeOK, InFlight
<1>4. CASE /\ leases' = Without(leases, {l})
           /\ dead' = dead \cup {l[1]}
           /\ keys' = Remembering(l[1], Never)
           /\ UNCHANGED <<wait, pending>>
  <2>1. InFlight' = InFlight \ {l} /\ leases' \in [InFlight' -> Nat]
    BY <1>4, LeasesGo
  <2>2. /\ DOMAIN keys' \subseteq Keys
        /\ keys' \in [DOMAIN keys' -> [job : Enqueued, forget : Nat \cup {Never}]]
    BY <1>1, <1>4, RememberingFacts
  <2>3. QED
    BY <1>1, <1>2, <1>4, <2>1, <2>2 DEF TypeOK
<1>5. CASE /\ leases' = Without(leases, {l})
           /\ pending' = pending \cup {l[1]}
           /\ wait' = [wait EXCEPT ![l[1]] = BackoffTicks * 2 ^ (l[2] - 1)]
           /\ UNCHANGED <<dead, keys>>
  <2>1. InFlight' = InFlight \ {l} /\ leases' \in [InFlight' -> Nat]
    BY <1>5, LeasesGo
  <2>2. BackoffTicks * 2 ^ (l[2] - 1) \in Nat
    BY <1>1, BackoffIsNat
  <2>3. wait' \in [Enqueued -> Nat]
    BY <1>1, <1>5, <2>2 DEF TypeOK
  <2>4. QED
    BY <1>1, <1>2, <1>5, <2>1, <2>3 DEF TypeOK
<1>6. QED
  BY <1>3, <1>4, <1>5 DEF Fail

LEMMA RecoverType ==
  ASSUME TypeOK, RecoverExpired
  PROVE  TypeOK'
<1>1. /\ leases' = Without(leases, Lapsed)
      /\ pending' = pending \cup {l[1] : l \in Lapsed}
      /\ UNCHANGED <<sequence, spec, attempts, wait, dead, keys, hands, faults>>
      /\ Enqueued' = Enqueued
  BY DEF RecoverExpired, Enqueued
<1>2. InFlight' = InFlight \ Lapsed /\ leases' \in [InFlight' -> Nat]
  BY <1>1, LeasesGo
<1>3. {l[1] : l \in Lapsed} \subseteq Enqueued
  BY DEF Lapsed, TypeOK
<1>4. QED
  BY <1>1, <1>2, <1>3 DEF TypeOK

LEMMA LessFacts == \A n \in Nat : Less(n) \in Nat
  BY DEF Less

LEMMA TickType ==
  ASSUME TypeOK, Tick
  PROVE  TypeOK'
<1>1. /\ UNCHANGED <<sequence, spec, attempts, pending, dead, hands>>
      /\ wait' = [j \in DOMAIN wait |-> Less(wait[j])]
      /\ leases' = [l \in InFlight |-> Less(leases[l])]
      /\ keys' = [k \in DOMAIN keys |->
                    IF keys[k].forget = Never THEN keys[k]
                    ELSE [keys[k] EXCEPT !.forget = Less(@)]]
      /\ faults' = faults + Cardinality(Outlived)
      /\ Enqueued' = Enqueued
  BY DEF Tick, Enqueued
<1>2. wait' \in [Enqueued -> Nat]
  BY <1>1, LessFacts DEF TypeOK
<1>3. InFlight' = InFlight /\ leases' \in [InFlight' -> Nat]
  BY <1>1, LessFacts DEF TypeOK, InFlight
<1>4. /\ DOMAIN keys' \subseteq Keys
      /\ keys' \in [DOMAIN keys' -> [job : Enqueued, forget : Nat \cup {Never}]]
  BY <1>1, LessFacts DEF TypeOK
<1>5. Cardinality(Outlived) \in Nat
  <2>1. IsFiniteSet(Outlived)
    BY QueueConstants, FS_Subset DEF Outlived
  <2>2. QED
    BY <2>1, FS_CardinalityType
<1>6. faults' \in Nat
  BY <1>1, <1>5 DEF TypeOK
<1>7. QED
  BY <1>1, <1>2, <1>3, <1>4, <1>6 DEF TypeOK

LEMMA CrashType ==
  ASSUME TypeOK, NEW w \in Workers, Crash(w)
  PROVE  TypeOK'
  BY DEF TypeOK, Crash, queue, Enqueued, InFlight

LEMMA NextType == TypeOK /\ [Next]_vars => TypeOK'
<1> SUFFICES ASSUME TypeOK, [Next]_vars PROVE TypeOK'
  OBVIOUS
<1>1. CASE UNCHANGED vars
  BY <1>1 DEF TypeOK, vars, Enqueued, InFlight
<1>2. CASE \E r \in Requests : Enqueue(r)
  BY <1>2, EnqueueType
<1>3. CASE \E w \in Workers : Claim(w) \/ Finish(w) \/ Fail(w) \/ Crash(w)
  BY <1>3, ClaimType, FinishType, FailType, CrashType
<1>4. CASE RecoverExpired \/ Tick
  BY <1>4, RecoverType, TickType
<1>5. QED
  BY <1>1, <1>2, <1>3, <1>4 DEF Next

-------------------------------------------------------------------------------
(* One place.                                                              *)

\* A job has one lease at most, so giving that one up leaves none.
LEMMA OneLease ==
  ASSUME TypeOK, OnePlace, NEW k \in InFlight, NEW l \in InFlight, k[1] = l[1]
  PROVE  k = l
  BY DEF TypeOK, OnePlace

LEMMA EnqueuePlace ==
  ASSUME TypeOK, OnePlace, NEW r \in Requests, Enqueue(r)
  PROVE  OnePlace'
<1>1. UNCHANGED <<leases, dead>> /\ InFlight' = InFlight
  BY DEF Enqueue, InFlight
<1>2. CASE UNCHANGED <<pending, attempts>>
  BY <1>1, <1>2 DEF OnePlace
<1>3. CASE /\ attempts' = Extended(attempts, sequence + 1, 0)
           /\ pending' = pending \cup {sequence + 1}
  <2>1. sequence + 1 \notin Enqueued
    BY DEF TypeOK, Enqueued
  <2>2. \A j \in Enqueued : attempts'[j] = attempts[j]
    BY <1>3, <2>1 DEF TypeOK, Extended
  <2>3. \A l \in InFlight : l[1] \in Enqueued
    BY DEF TypeOK
  <2>4. QED
    BY <1>1, <1>3, <2>1, <2>2, <2>3 DEF OnePlace, TypeOK
<1>4. QED
  BY <1>2, <1>3 DEF Enqueue

LEMMA ClaimPlace ==
  ASSUME TypeOK, OnePlace, NEW w \in Workers, Claim(w)
  PROVE  OnePlace'
<1>1. PICK j \in Eligible :
        /\ pending' = pending \ {j}
        /\ attempts' = [attempts EXCEPT ![j] = @ + 1]
        /\ leases' = Extended(leases, <<j, attempts[j] + 1>>, LeaseTicks)
  BY DEF Claim
<1>2. j \in pending /\ j \in Enqueued /\ UNCHANGED dead
  BY DEF Claim, Eligible, TypeOK
<1>3. InFlight' = InFlight \cup {<<j, attempts[j] + 1>>}
  BY <1>1 DEF Extended, InFlight
<1>4. \A l \in InFlight : l[1] # j /\ l[1] \in Enqueued
  BY <1>2 DEF OnePlace, TypeOK
<1>5. attempts'[j] = attempts[j] + 1 /\ \A i \in Enqueued \ {j} : attempts'[i] = attempts[i]
  BY <1>1, <1>2 DEF TypeOK
<1>6. QED
  BY <1>1, <1>2, <1>3, <1>4, <1>5 DEF OnePlace

LEMMA FinishPlace ==
  ASSUME TypeOK, OnePlace, NEW w \in Workers, Finish(w)
  PROVE  OnePlace'
<1>1. UNCHANGED <<attempts, pending, dead>> /\ InFlight' \subseteq InFlight
  BY LeasesGo DEF Finish, InFlight
<1>2. QED
  BY <1>1 DEF OnePlace

LEMMA FailPlace ==
  ASSUME TypeOK, OnePlace, NEW w \in Workers, Fail(w)
  PROVE  OnePlace'
<1> DEFINE l == hands[w]
<1>1. UNCHANGED attempts
  BY DEF Fail
<1>2. CASE UNCHANGED <<leases, dead, pending>>
  BY <1>1, <1>2 DEF OnePlace, InFlight
<1>3. CASE /\ l \in InFlight
           /\ leases' = Without(leases, {l})
           /\ \/ dead' = dead \cup {l[1]} /\ UNCHANGED pending
              \/ pending' = pending \cup {l[1]} /\ UNCHANGED dead
  <2>1. InFlight' = InFlight \ {l}
    BY <1>3, LeasesGo
  <2>2. \A k \in InFlight' : k[1] # l[1]
    BY <1>3, <2>1, OneLease
  <2>3. l[1] \notin pending \cup dead
    BY <1>3 DEF OnePlace
  <2>4. QED
    BY <1>1, <1>3, <2>1, <2>2, <2>3 DEF OnePlace
<1>4. QED
  BY <1>2, <1>3 DEF Fail

LEMMA RecoverPlace ==
  ASSUME TypeOK, OnePlace, RecoverExpired
  PROVE  OnePlace'
<1>1. /\ leases' = Without(leases, Lapsed)
      /\ pending' = pending \cup {l[1] : l \in Lapsed}
      /\ UNCHANGED <<attempts, dead>>
  BY DEF RecoverExpired
<1>2. InFlight' = InFlight \ Lapsed /\ Lapsed \subseteq InFlight
  BY <1>1, LeasesGo DEF Lapsed
<1>3. \A k \in InFlight', l \in Lapsed : k[1] # l[1]
  BY <1>2, OneLease
<1>4. \A l \in Lapsed : l[1] \notin dead
  BY <1>2 DEF OnePlace
<1>5. QED
  BY <1>1, <1>2, <1>3, <1>4 DEF OnePlace

LEMMA NextPlace == TypeOK /\ OnePlace /\ [Next]_vars => OnePlace'
<1> SUFFICES ASSUME TypeOK, OnePlace, [Next]_vars PROVE OnePlace'
  OBVIOUS
<1>1. CASE UNCHANGED vars
  BY <1>1 DEF OnePlace, vars, InFlight
<1>2. CASE \E r \in Requests : Enqueue(r)
  BY <1>2, EnqueuePlace
<1>3. CASE \E w \in Workers : Claim(w) \/ Finish(w) \/ Fail(w)
  BY <1>3, ClaimPlace, FinishPlace, FailPlace
<1>4. CASE RecoverExpired
  BY <1>4, RecoverPlace
<1>5. CASE Tick
  BY <1>5 DEF Tick, OnePlace, InFlight
<1>6. CASE \E w \in Workers : Crash(w)
  BY <1>6 DEF Crash, queue, OnePlace, InFlight
<1>7. QED
  BY <1>1, <1>2, <1>3, <1>4, <1>5, <1>6 DEF Next

-------------------------------------------------------------------------------
(* Keys.                                                                   *)

\* Jobs that hold one key are one job.
LEMMA HeldByOne ==
  ASSUME NEW i, NEW j, Holds(i), Holds(j), spec[i].key # NoKey, spec[i].key = spec[j].key
  PROVE  i = j
  BY DEF Holds

LEMMA OutstandingIsEnqueued == TypeOK => Live \cup dead \subseteq Enqueued
  BY DEF TypeOK, Live

LEMMA EnqueueKeys ==
  ASSUME IInv, NEW r \in Requests, Enqueue(r)
  PROVE  KeysHeld'
<1> DEFINE known == Without(keys, StaleKeys)
<1> USE DEF IInv
<1>1. UNCHANGED <<leases, dead>> /\ InFlight' = InFlight
  BY DEF Enqueue, InFlight
<1>2. \A j \in Live \cup dead : spec[j].key # NoKey =>
        /\ spec[j].key \in DOMAIN keys \ StaleKeys
        /\ spec[j].key \in DOMAIN known
        /\ known[spec[j].key] = [job |-> j, forget |-> Never]
  <2> SUFFICES ASSUME NEW j \in Live \cup dead, spec[j].key # NoKey
               PROVE  /\ spec[j].key \in DOMAIN keys \ StaleKeys
                      /\ spec[j].key \in DOMAIN known
                      /\ known[spec[j].key] = [job |-> j, forget |-> Never]
    OBVIOUS
  <2>1. spec[j].key \in DOMAIN keys /\ keys[spec[j].key] = [job |-> j, forget |-> Never]
    BY DEF KeysHeld, Holds
  <2>2. spec[j].key \notin StaleKeys
    BY <2>1, QueueConstants DEF StaleKeys
  <2>3. QED
    BY <2>1, <2>2 DEF Without
<1>3. CASE Deduplicated(r)
  <2>1. keys' = known /\ UNCHANGED <<spec, pending>> /\ Live' = Live
    BY <1>1, <1>3 DEF Enqueue, Live
  <2>2. QED
    BY <1>1, <1>2, <2>1 DEF KeysHeld, Holds
<1>4. CASE ~Deduplicated(r)
  <2>0. PICK job : job = sequence + 1
    OBVIOUS
  <2>1. /\ spec' = Extended(spec, job, r)
        /\ Live' = Live \cup {job}
        /\ keys' = IF r.key = NoKey THEN known
                   ELSE Extended(known, r.key, [job |-> job, forget |-> Never])
    BY <1>1, <1>4, <2>0 DEF Enqueue, Live
  <2>2. job \notin Enqueued /\ spec'[job] = r /\ \A j \in Enqueued : spec'[j] = spec[j]
    BY <2>0, <2>1 DEF TypeOK, Extended, Enqueued
  <2>3. \A j \in Live \cup dead : j \in Enqueued
    BY OutstandingIsEnqueued
  <2>4. r.key # NoKey => \A j \in Live \cup dead : spec[j].key # r.key
    BY <1>2, <1>4 DEF Deduplicated
  <2>5. \A j \in Live \cup dead : Holds(j)'
    <3> SUFFICES ASSUME NEW j \in Live \cup dead, spec[j].key # NoKey
                 PROVE  /\ spec[j].key \in DOMAIN keys'
                        /\ keys'[spec[j].key] = [job |-> j, forget |-> Never]
      BY <2>2, <2>3 DEF Holds
    <3>1. spec[j].key \in DOMAIN known /\ known[spec[j].key] = [job |-> j, forget |-> Never]
      BY <1>2
    <3>2. CASE r.key = NoKey
      BY <2>1, <3>1, <3>2
    <3>3. CASE r.key # NoKey
      <4>1. spec[j].key # r.key
        BY <2>4, <3>3
      <4>2. keys' = Extended(known, r.key, [job |-> job, forget |-> Never])
        BY <2>1, <3>3
      <4> HIDE DEF known
      <4>3. QED
        BY <3>1, <4>1, <4>2 DEF Extended
    <3>4. QED
      BY <3>2, <3>3
  <2>6. Holds(job)'
    <3> SUFFICES ASSUME r.key # NoKey
                 PROVE  /\ r.key \in DOMAIN keys'
                        /\ keys'[r.key] = [job |-> job, forget |-> Never]
      BY <2>2 DEF Holds
    <3>1. keys' = Extended(known, r.key, [job |-> job, forget |-> Never])
      BY <2>1
    <3> HIDE DEF known
    <3>2. QED
      BY <3>1 DEF Extended
  <2>7. QED
    BY <1>1, <2>1, <2>5, <2>6 DEF KeysHeld
<1>5. QED
  BY <1>3, <1>4

\* Remembering one job's key for good, or for a while when the job itself goes,
\* leaves every other job its own.
LEMMA OthersHold ==
  ASSUME IInv, NEW j \in Live \cup dead, NEW forget \in Nat \cup {Never},
         NEW i \in Live \cup dead, i # j,
         keys' = Remembering(j, forget), UNCHANGED spec
  PROVE  Holds(i)'
<1>1. Holds(i) /\ Holds(j) /\ j \in Enqueued
  BY OutstandingIsEnqueued DEF IInv, KeysHeld
<1>2. CASE spec[i].key = NoKey
  BY <1>2 DEF Holds
<1>3. CASE spec[i].key # NoKey
  <2>1. spec[i].key # spec[j].key
    BY <1>1, <1>3, HeldByOne
  <2>2. spec[i].key \in DOMAIN keys /\ keys[spec[i].key] = [job |-> i, forget |-> Never]
    BY <1>1, <1>3 DEF Holds
  <2>3. spec[i].key \in DOMAIN keys' /\ keys'[spec[i].key] = keys[spec[i].key]
    <3>1. /\ DOMAIN keys \subseteq DOMAIN keys'
          /\ \A k \in DOMAIN keys : k # spec[j].key => keys'[k] = keys[k]
      <4>1. TypeOK
        BY DEF IInv
      <4>2. /\ DOMAIN keys \subseteq DOMAIN Remembering(j, forget)
            /\ \A k \in DOMAIN keys : k # spec[j].key => Remembering(j, forget)[k] = keys[k]
        BY <1>1, <4>1, RememberingFacts, Zenon
      <4>3. QED
        BY <4>2
    <3>2. QED
      BY <2>1, <2>2, <3>1
  <2>4. QED
    BY <2>2, <2>3 DEF Holds
<1>4. QED
  BY <1>2, <1>3

LEMMA ItHolds ==
  ASSUME IInv, NEW j \in Live \cup dead, keys' = Remembering(j, Never), UNCHANGED spec
  PROVE  Holds(j)'
<1>1. j \in Enqueued
  BY OutstandingIsEnqueued DEF IInv
<1>2. QED
  BY <1>1, RememberingFacts DEF IInv, Holds

LEMMA ClaimKeys ==
  ASSUME IInv, NEW w \in Workers, Claim(w)
  PROVE  KeysHeld'
<1>1. PICK j \in Eligible :
        /\ pending' = pending \ {j}
        /\ leases' = Extended(leases, <<j, attempts[j] + 1>>, LeaseTicks)
        /\ keys' = Remembering(j, Never)
  BY DEF Claim
<1>2. j \in pending /\ UNCHANGED <<spec, dead>>
  BY DEF Claim, Eligible
<1>3. InFlight' = InFlight \cup {<<j, attempts[j] + 1>>}
  BY <1>1 DEF Extended, InFlight
<1>4. Live' \subseteq Live /\ j \in Live
  BY <1>1, <1>2, <1>3 DEF Live
<1>5. \A i \in Live \cup dead : Holds(i)'
  BY <1>1, <1>2, <1>4, OthersHold, ItHolds
<1>6. QED
  BY <1>2, <1>4, <1>5 DEF KeysHeld

LEMMA FinishKeys ==
  ASSUME IInv, NEW w \in Workers, Finish(w)
  PROVE  KeysHeld'
<1> DEFINE l == hands[w]
<1>1. UNCHANGED <<spec, pending, dead>>
  BY DEF Finish
<1>2. CASE UNCHANGED <<leases, keys>>
  BY <1>1, <1>2 DEF IInv, KeysHeld, Holds, Live, InFlight
<1>3. CASE /\ l \in InFlight
           /\ leases' = Without(leases, {l})
           /\ keys' = Remembering(l[1], DedupeTicks)
  <2>1. InFlight' = InFlight \ {l}
    BY <1>3, LeasesGo DEF IInv
  <2>2. /\ l[1] \in Live /\ l[1] \notin pending \cup dead
        /\ \A k \in InFlight' : k[1] # l[1]
    BY <1>3, <2>1, OneLease DEF IInv, OnePlace, Live
  <2>3. Live' \cup dead' \subseteq (Live \cup dead) \ {l[1]}
    BY <1>1, <2>1, <2>2 DEF Live
  <2>4. DedupeTicks \in Nat \cup {Never}
    BY QueueConstants
  <2>5. \A i \in Live' \cup dead' : Holds(i)'
    BY <1>1, <1>3, <2>2, <2>3, <2>4, OthersHold
  <2>6. QED
    BY <2>5 DEF KeysHeld
<1>4. QED
  BY <1>2, <1>3 DEF Finish

LEMMA FailKeys ==
  ASSUME IInv, NEW w \in Workers, Fail(w)
  PROVE  KeysHeld'
<1> DEFINE l == hands[w]
<1>1. UNCHANGED spec
  BY DEF Fail
<1>2. CASE UNCHANGED <<leases, dead, keys, pending>>
  BY <1>1, <1>2 DEF IInv, KeysHeld, Holds, Live, InFlight
<1>3. CASE /\ l \in InFlight
           /\ leases' = Without(leases, {l})
           /\ dead' = dead \cup {l[1]}
           /\ keys' = Remembering(l[1], Never)
           /\ UNCHANGED pending
  <2>1. InFlight' = InFlight \ {l} /\ l[1] \in Live
    BY <1>3, LeasesGo DEF IInv, Live
  <2>2. Live' \cup dead' \subseteq Live \cup dead
    BY <1>3, <2>1 DEF Live
  <2>3. \A i \in Live \cup dead : Holds(i)'
    BY <1>1, <1>3, <2>1, OthersHold, ItHolds
  <2>4. QED
    BY <2>2, <2>3 DEF KeysHeld
<1>4. CASE /\ l \in InFlight
           /\ leases' = Without(leases, {l})
           /\ pending' = pending \cup {l[1]}
           /\ UNCHANGED <<dead, keys>>
  <2>1. InFlight' = InFlight \ {l} /\ l[1] \in Live
    BY <1>4, LeasesGo DEF IInv, Live
  <2>2. Live' \cup dead' \subseteq Live \cup dead
    BY <1>4, <2>1 DEF Live
  <2>3. QED
    BY <1>1, <1>4, <2>2 DEF IInv, KeysHeld, Holds
<1>5. QED
  BY <1>2, <1>3, <1>4 DEF Fail

LEMMA RecoverKeys ==
  ASSUME IInv, RecoverExpired
  PROVE  KeysHeld'
<1>1. /\ InFlight' \subseteq InFlight
      /\ pending' = pending \cup {l[1] : l \in Lapsed}
      /\ UNCHANGED <<spec, dead, keys>>
  BY LeasesGo DEF RecoverExpired, IInv
<1>2. Live' \cup dead' \subseteq Live \cup dead
  BY <1>1 DEF Live, Lapsed
<1>3. QED
  BY <1>1, <1>2 DEF IInv, KeysHeld, Holds

LEMMA TickKeys ==
  ASSUME IInv, Tick
  PROVE  KeysHeld'
<1>1. /\ Live' = Live /\ UNCHANGED <<spec, dead>>
      /\ DOMAIN keys' = DOMAIN keys
      /\ \A k \in DOMAIN keys : keys[k].forget = Never => keys'[k] = keys[k]
  BY DEF Tick, Live, InFlight
<1>2. QED
  BY <1>1 DEF IInv, KeysHeld, Holds

LEMMA NextInv == IInv /\ [Next]_vars => IInv'
<1> SUFFICES ASSUME IInv, [Next]_vars PROVE IInv'
  OBVIOUS
<1>1. TypeOK' /\ OnePlace'
  BY NextType, NextPlace DEF IInv
<1>2. KeysHeld'
  <2>1. CASE UNCHANGED vars
    BY <2>1 DEF IInv, KeysHeld, Holds, Live, InFlight, vars
  <2>2. CASE \E r \in Requests : Enqueue(r)
    BY <2>2, EnqueueKeys
  <2>3. CASE \E w \in Workers : Claim(w) \/ Finish(w) \/ Fail(w)
    BY <2>3, ClaimKeys, FinishKeys, FailKeys
  <2>4. CASE \E w \in Workers : Crash(w)
    BY <2>4 DEF Crash, queue, IInv, KeysHeld, Holds, Live, InFlight
  <2>5. CASE RecoverExpired \/ Tick
    BY <2>5, RecoverKeys, TickKeys
  <2>6. QED
    BY <2>1, <2>2, <2>3, <2>4, <2>5 DEF Next
<1>3. QED
  BY <1>1, <1>2 DEF IInv

\* Every reachable state satisfies the inductive invariant.
THEOREM Invariance == Spec => []IInv
<1>1. Init => IInv
  BY InitType DEF Init, IInv, OnePlace, KeysHeld, Live, InFlight
<1>2. QED
  BY <1>1, NextInv, PTL DEF Spec

\* Type correctness of the queue, its leases, its keys and its workers.
THEOREM TypeCorrect == Spec => []TypeOK
<1>1. IInv => TypeOK
  BY DEF IInv
<1>2. QED
  BY <1>1, Invariance, PTL

\* A job is in one place, under its latest lease if any, however many leases
\* lapsed and whoever answers late (recoverExpired, complete, fail).
THEOREM JobsAreInOnePlace == Spec => []OnePlace
<1>1. IInv => OnePlace
  BY DEF IInv
<1>2. QED
  BY <1>1, Invariance, PTL

\* Two enqueues with one key are one job for as long as it is outstanding or
\* buried (enqueue, rememberKey, forgetStaleKeys).
THEOREM KeysAreUnique == Spec => []OneJobPerKey
<1>1. IInv => OneJobPerKey
  BY HeldByOne DEF IInv, KeysHeld, OneJobPerKey
<1>2. QED
  BY <1>1, Invariance, PTL

-------------------------------------------------------------------------------
(* Delivery.                                                               *)

\* What one step does to the jobs the queue answers for: none is dropped but by
\* the holder of its latest lease, and none comes back.
Step ==
  /\ \A j \in Live : j \notin Live' =>
       /\ \E w \in Workers : hands[w] = <<j, attempts[j]>> /\ hands'[w] = NoLease
       /\ j \in dead' => attempts[j] >= MaxAttempts
  /\ \A j \in Enqueued : j \notin Live => j \notin Live' /\ (j \in dead <=> j \in dead')

\* A step that settles nothing and only moves live jobs or adds new ones.
LEMMA QuietStep ==
  ASSUME UNCHANGED dead, Live \subseteq Live', \A j \in Live' : j \in Enqueued => j \in Live
  PROVE  Step
  BY DEF Step

LEMMA EnqueueStep == ASSUME IInv, NEW r \in Requests, Enqueue(r) PROVE Step
<1>1. UNCHANGED <<leases, dead>> /\ InFlight' = InFlight
  BY DEF Enqueue, InFlight
<1>2. pending' = pending \/ pending' = pending \cup {sequence + 1}
  BY DEF Enqueue
<1>3. sequence + 1 \notin Enqueued
  BY DEF IInv, TypeOK, Enqueued
<1>4. QED
  BY <1>1, <1>2, <1>3, QuietStep DEF Live

LEMMA ClaimStep == ASSUME IInv, NEW w \in Workers, Claim(w) PROVE Step
<1>1. PICK j \in Eligible :
        /\ pending' = pending \ {j}
        /\ leases' = Extended(leases, <<j, attempts[j] + 1>>, LeaseTicks)
  BY DEF Claim
<1>2. InFlight' = InFlight \cup {<<j, attempts[j] + 1>>} /\ j \in pending /\ UNCHANGED dead
  BY <1>1 DEF Claim, Extended, InFlight, Eligible
<1>3. Live' = Live
  BY <1>1, <1>2 DEF Live
<1>4. QED
  BY <1>2, <1>3, QuietStep

\* Giving up the lease in a worker's hands settles its job or returns it.
LEMMA GivenUp ==
  ASSUME IInv, NEW w \in Workers, hands[w] \in InFlight,
         leases' = Without(leases, {hands[w]})
  PROVE  /\ InFlight' = InFlight \ {hands[w]}
         /\ hands[w] = <<hands[w][1], attempts[hands[w][1]]>>
         /\ hands[w][1] \in Live
         /\ \A j \in Live : j # hands[w][1] => j \in pending \cup {l[1] : l \in InFlight'}
         /\ hands[w][1] \notin pending \cup {l[1] : l \in InFlight'}
<1>1. TypeOK /\ OnePlace
  BY DEF IInv
<1>2. InFlight' = InFlight \ {hands[w]}
  BY <1>1, LeasesGo
<1>3. hands[w] \in Enqueued \X (Nat \ {0}) /\ hands[w][2] = attempts[hands[w][1]]
  BY <1>1 DEF TypeOK, OnePlace
<1>4. \A k \in InFlight' : k[1] # hands[w][1]
  BY <1>1, <1>2, OneLease
<1>5. hands[w][1] \notin pending
  BY <1>1 DEF OnePlace
<1>6. QED
  BY <1>2, <1>3, <1>4, <1>5 DEF Live

LEMMA FinishStep == ASSUME IInv, NEW w \in Workers, Finish(w) PROVE Step
<1> DEFINE l == hands[w]
<1>1. /\ UNCHANGED <<pending, dead>>
      /\ hands'[w] = NoLease
  BY DEF Finish, IInv, TypeOK
<1>2. CASE UNCHANGED leases
  BY <1>1, <1>2, QuietStep DEF Live, InFlight
<1>3. CASE l \in InFlight /\ leases' = Without(leases, {l})
  <2>1. /\ InFlight' = InFlight \ {l}
        /\ l = <<l[1], attempts[l[1]]>> /\ l[1] \in Live
        /\ \A j \in Live : j # l[1] => j \in Live'
        /\ Live' \subseteq Live
    BY <1>1, <1>3, GivenUp DEF Live
  <2>2. l[1] \notin dead
    BY <1>3 DEF IInv, OnePlace
  <2>3. QED
    BY <1>1, <2>1, <2>2 DEF Step
<1>4. QED
  BY <1>2, <1>3 DEF Finish

LEMMA FailStep == ASSUME IInv, NEW w \in Workers, Fail(w) PROVE Step
<1> DEFINE l == hands[w]
<1>1. hands'[w] = NoLease
  BY DEF Fail, IInv, TypeOK
<1>2. CASE UNCHANGED <<leases, dead, pending>>
  BY <1>2, QuietStep DEF Live, InFlight
<1>3. CASE /\ l \in InFlight /\ Spent(l)
           /\ leases' = Without(leases, {l})
           /\ dead' = dead \cup {l[1]}
           /\ UNCHANGED pending
  <2>1. /\ InFlight' = InFlight \ {l}
        /\ l = <<l[1], attempts[l[1]]>> /\ l[1] \in Live
        /\ \A j \in Live : j # l[1] => j \in Live'
        /\ Live' \subseteq Live
    BY <1>3, GivenUp DEF Live
  <2>2. attempts[l[1]] >= MaxAttempts
    BY <1>3, <2>1 DEF Spent
  <2>3. QED
    BY <1>1, <1>3, <2>1, <2>2 DEF Step
<1>4. CASE /\ l \in InFlight
           /\ leases' = Without(leases, {l})
           /\ pending' = pending \cup {l[1]}
           /\ UNCHANGED dead
  <2>1. Live' = Live
    BY <1>4, GivenUp DEF Live
  <2>2. QED
    BY <1>4, <2>1, QuietStep
<1>5. QED
  BY <1>2, <1>3, <1>4 DEF Fail

LEMMA RecoverStep == ASSUME IInv, RecoverExpired PROVE Step
<1>1. /\ InFlight' = InFlight \ Lapsed
      /\ pending' = pending \cup {l[1] : l \in Lapsed}
      /\ UNCHANGED dead
  BY LeasesGo DEF RecoverExpired, IInv
<1>2. Live' = Live
  BY <1>1 DEF Live, Lapsed
<1>3. QED
  BY <1>1, <1>2, QuietStep

LEMMA NextStep == IInv /\ [Next]_vars => Step
<1> SUFFICES ASSUME IInv, [Next]_vars PROVE Step
  OBVIOUS
<1>1. CASE UNCHANGED vars
  BY <1>1, QuietStep DEF vars, Live, InFlight
<1>2. CASE \E r \in Requests : Enqueue(r)
  BY <1>2, EnqueueStep
<1>3. CASE \E w \in Workers : Claim(w) \/ Finish(w) \/ Fail(w)
  BY <1>3, ClaimStep, FinishStep, FailStep
<1>4. CASE RecoverExpired
  BY <1>4, RecoverStep
<1>5. CASE Tick \/ \E w \in Workers : Crash(w)
  BY <1>5, QuietStep DEF Tick, Crash, queue, Live, InFlight
<1>6. QED
  BY <1>1, <1>2, <1>3, <1>4, <1>5 DEF Next

\* No job is dropped: it stops being outstanding only at the word of the holder
\* of its latest lease, and is buried only after all its attempts.
THEOREM NothingIsLost == Spec => NothingLost
<1>1. IInv /\ [Next]_vars =>
        [\A j \in Live : j \notin Live' =>
           /\ \E w \in Workers : hands[w] = <<j, attempts[j]>> /\ hands'[w] = NoLease
           /\ j \in dead' => attempts[j] >= MaxAttempts]_vars
  BY NextStep DEF Step
<1>2. QED
  BY <1>1, Invariance, PTL DEF Spec, NothingLost

\* A settled job stays settled, whatever a holder that was given up on reports.
THEOREM SettledForGood == Spec => SettledStaysSettled
<1>1. IInv /\ [Next]_vars =>
        [\A j \in Enqueued : j \notin Live => j \notin Live' /\ (j \in dead <=> j \in dead')]_vars
  BY NextStep DEF Step
<1>2. QED
  BY <1>1, Invariance, PTL DEF Spec, SettledStaysSettled

-------------------------------------------------------------------------------
(* Limits.                                                                 *)

Limited == IInv /\ IsFiniteSet(InFlight) /\ WithinLimits

LEMMA NoMore ==
  ASSUME NEW S, NEW T, NEW n \in Nat, IsFiniteSet(S), T \subseteq S, Cardinality(S) <= n
  PROVE  Cardinality(T) <= n
<1>1. IsFiniteSet(T) /\ Cardinality(T) <= Cardinality(S)
  BY FS_Subset
<1>2. Cardinality(S) \in Nat /\ Cardinality(T) \in Nat
  BY <1>1, FS_CardinalityType
<1>3. QED
  BY <1>1, <1>2

LEMMA OneMore ==
  ASSUME NEW S, NEW T, NEW x, NEW n \in Nat,
         IsFiniteSet(S), T \subseteq S \cup {x}, Cardinality(S) < n
  PROVE  Cardinality(T) <= n
<1>1. /\ IsFiniteSet(S \cup {x})
      /\ Cardinality(S \cup {x}) = Cardinality(S) \/ Cardinality(S \cup {x}) = Cardinality(S) + 1
  BY FS_AddElement
<1>2. Cardinality(S) \in Nat
  BY FS_CardinalityType
<1>3. Cardinality(S \cup {x}) <= n
  BY <1>1, <1>2
<1>4. QED
  BY <1>1, <1>3, NoMore

\* Leases that go, while nothing is known anew about the jobs of the others, leave
\* every limit kept.
LEMMA FewerLeases ==
  ASSUME Limited, InFlight' \subseteq InFlight,
         \A j \in Enqueued : spec'[j] = spec[j]
  PROVE  IsFiniteSet(InFlight') /\ WithinLimits'
<1>1. /\ MaxInFlight \in Nat /\ MaxPerOffice \in Nat /\ MaxPerEmployee \in Nat
      /\ IsFiniteSet(InFlight)
      /\ \A l \in InFlight : l[1] \in Enqueued
  BY QueueConstants DEF Limited, IInv, TypeOK
<1>2. IsFiniteSet(InFlight') /\ Cardinality(InFlight') <= MaxInFlight
  BY <1>1, NoMore, FS_Subset DEF Limited, WithinLimits
<1>3. ASSUME NEW l \in InFlight'
      PROVE  (/\ Cardinality(InFlightFor(spec[l[1]].office)) <= MaxPerOffice
              /\ spec[l[1]].employee # Unassigned =>
                   Cardinality(InFlightWith(spec[l[1]])) <= MaxPerEmployee)'
  <2>1. l \in InFlight /\ spec'[l[1]] = spec[l[1]]
    BY <1>1
  <2>2. /\ InFlightFor(spec[l[1]].office) \subseteq InFlight
        /\ {k \in InFlight' : spec'[k[1]].office = spec[l[1]].office}
             \subseteq InFlightFor(spec[l[1]].office)
    BY <1>1 DEF InFlightFor
  <2>3. /\ InFlightWith(spec[l[1]]) \subseteq InFlight
        /\ {k \in InFlight' : SameEmployee(spec'[k[1]], spec[l[1]])}
             \subseteq InFlightWith(spec[l[1]])
    BY <1>1 DEF InFlightWith
  <2>4. /\ IsFiniteSet(InFlightFor(spec[l[1]].office)) /\ IsFiniteSet(InFlightWith(spec[l[1]]))
    BY <1>1, <2>2, <2>3, FS_Subset
  <2>5. /\ Cardinality(InFlightFor(spec[l[1]].office)) <= MaxPerOffice
        /\ spec[l[1]].employee # Unassigned =>
             Cardinality(InFlightWith(spec[l[1]])) <= MaxPerEmployee
    BY <2>1 DEF Limited, WithinLimits
  <2>6. Cardinality({k \in InFlight' : spec'[k[1]].office = spec[l[1]].office}) <= MaxPerOffice
    BY <1>1, <2>2, <2>4, <2>5, NoMore
  <2>7. spec[l[1]].employee # Unassigned =>
          Cardinality({k \in InFlight' : SameEmployee(spec'[k[1]], spec[l[1]])}) <= MaxPerEmployee
    BY <1>1, <2>3, <2>4, <2>5, NoMore
  <2>8. QED
    BY <2>1, <2>6, <2>7 DEF InFlightFor, InFlightWith
<1>4. QED
  BY <1>2, <1>3 DEF WithinLimits

\* Whoever is the same employee as one of two is the same as the other.
LEMMA SameEmployees ==
  ASSUME NEW r, NEW s, SameEmployee(r, s)
  PROVE  InFlightWith(r) = InFlightWith(s)
  BY DEF SameEmployee, InFlightWith

LEMMA ClaimLimits ==
  ASSUME Limited, NEW w \in Workers, Claim(w)
  PROVE  IsFiniteSet(InFlight') /\ WithinLimits'
<1>1. PICK j \in Eligible :
        leases' = Extended(leases, <<j, attempts[j] + 1>>, LeaseTicks)
  BY DEF Claim
<1> DEFINE lease == <<j, attempts[j] + 1>>
<1>2. /\ InFlight' = InFlight \cup {lease}
      /\ lease[1] = j
      /\ UNCHANGED spec
      /\ Cardinality(InFlight) < MaxInFlight
      /\ Cardinality(InFlightFor(spec[j].office)) < MaxPerOffice
      /\ Cardinality(InFlightWith(spec[j])) < MaxPerEmployee
  BY <1>1 DEF Claim, Extended, InFlight, Eligible
<1>3. /\ MaxInFlight \in Nat /\ MaxPerOffice \in Nat /\ MaxPerEmployee \in Nat
      /\ IsFiniteSet(InFlight)
  BY QueueConstants DEF Limited
<1> HIDE DEF lease
<1>4. IsFiniteSet(InFlight') /\ Cardinality(InFlight') <= MaxInFlight
  BY <1>2, <1>3, OneMore, FS_AddElement
<1>5. ASSUME NEW l \in InFlight'
      PROVE  (/\ Cardinality(InFlightFor(spec[l[1]].office)) <= MaxPerOffice
              /\ spec[l[1]].employee # Unassigned =>
                   Cardinality(InFlightWith(spec[l[1]])) <= MaxPerEmployee)'
  <2> DEFINE o      == spec[l[1]].office
             r      == spec[l[1]]
             there  == {k \in InFlight \cup {lease} : spec[k[1]].office = o}
             theirs == {k \in InFlight \cup {lease} : SameEmployee(spec[k[1]], r)}
  <2>1. /\ IsFiniteSet(InFlightFor(o)) /\ IsFiniteSet(InFlightWith(r))
        /\ there \subseteq InFlightFor(o) \cup {lease}
        /\ theirs \subseteq InFlightWith(r) \cup {lease}
    BY <1>3, FS_Subset DEF InFlightFor, InFlightWith
  <2>2. Cardinality(there) <= MaxPerOffice
    <3>1. CASE o = spec[j].office
      <4>1. Cardinality(InFlightFor(o)) < MaxPerOffice
        BY <1>2, <3>1
      <4> HIDE DEF there, o
      <4>2. QED
        BY <1>3, <2>1, <4>1, OneMore
    <3>2. CASE o # spec[j].office
      <4>1. l \in InFlight /\ there \subseteq InFlightFor(o)
        BY <1>2, <3>2 DEF InFlightFor
      <4>2. Cardinality(InFlightFor(o)) <= MaxPerOffice
        BY <4>1 DEF Limited, WithinLimits
      <4> HIDE DEF there, o
      <4>3. QED
        BY <1>3, <2>1, <4>1, <4>2, NoMore
    <3>3. QED
      BY <3>1, <3>2
  <2>3. r.employee # Unassigned => Cardinality(theirs) <= MaxPerEmployee
    <3> SUFFICES ASSUME r.employee # Unassigned PROVE Cardinality(theirs) <= MaxPerEmployee
      OBVIOUS
    <3>1. CASE SameEmployee(spec[j], r)
      <4>1. Cardinality(InFlightWith(r)) < MaxPerEmployee
        BY <1>2, <3>1, SameEmployees
      <4> HIDE DEF theirs, r
      <4>2. QED
        BY <1>3, <2>1, <4>1, OneMore
    <3>2. CASE ~SameEmployee(spec[j], r)
      <4>1. l \in InFlight
        BY <1>2, <3>2 DEF SameEmployee
      <4>2. theirs \subseteq InFlightWith(r)
        BY <1>2, <3>2 DEF InFlightWith
      <4>3. Cardinality(InFlightWith(r)) <= MaxPerEmployee
        BY <4>1 DEF Limited, WithinLimits
      <4> HIDE DEF theirs, r
      <4>4. QED
        BY <1>3, <2>1, <4>2, <4>3, NoMore
    <3>3. QED
      BY <3>1, <3>2
  <2>4. QED
    BY <1>2, <2>2, <2>3 DEF InFlightFor, InFlightWith
<1>6. QED
  BY <1>4, <1>5 DEF WithinLimits

LEMMA NextLimits == Limited /\ [Next]_vars => Limited'
<1> SUFFICES ASSUME Limited, [Next]_vars PROVE Limited'
  OBVIOUS
<1>1. IInv'
  BY NextInv DEF Limited
<1>2. IsFiniteSet(InFlight') /\ WithinLimits'
  <2>1. CASE UNCHANGED vars
    BY <2>1, FewerLeases DEF vars, InFlight
  <2>2. ASSUME NEW r \in Requests, Enqueue(r)
        PROVE  IsFiniteSet(InFlight') /\ WithinLimits'
    <3>1. InFlight' = InFlight
      BY <2>2 DEF Enqueue, InFlight
    <3>2. \A j \in Enqueued : spec'[j] = spec[j]
      BY <2>2 DEF Enqueue, Extended, Limited, IInv, TypeOK, Enqueued
    <3>3. QED
      BY <3>1, <3>2, FewerLeases
  <2>3. CASE \E w \in Workers : Claim(w)
    BY <2>3, ClaimLimits
  <2>4. ASSUME NEW w \in Workers, Finish(w) \/ Fail(w) \/ Crash(w)
        PROVE  IsFiniteSet(InFlight') /\ WithinLimits'
    <3>1. InFlight' \subseteq InFlight /\ UNCHANGED spec
      BY <2>4 DEF Finish, Fail, Crash, queue, Without, InFlight
    <3>2. QED
      BY <3>1, FewerLeases
  <2>5. CASE RecoverExpired \/ Tick
    <3>1. InFlight' \subseteq InFlight /\ UNCHANGED spec
      BY <2>5 DEF RecoverExpired, Tick, Without, InFlight
    <3>2. QED
      BY <3>1, FewerLeases
  <2>6. QED
    BY <2>1, <2>2, <2>3, <2>4, <2>5 DEF Next
<1>3. QED
  BY <1>1, <1>2 DEF Limited

LEMMA LimitedAlways == Spec => []Limited
<1>1. Init => Limited
  <2>1. Init => InFlight = {}
    BY DEF Init, InFlight
  <2>2. Init => IInv
    BY InitType DEF Init, IInv, OnePlace, KeysHeld, Live, InFlight
  <2>3. QED
    BY <2>1, <2>2, FS_EmptySet, QueueConstants DEF Limited, WithinLimits
<1>2. QED
  BY <1>1, NextLimits, PTL DEF Spec

\* The queue, each office and each employee never have more in flight than
\* their limits, whatever lapsed or was claimed again in between (claim).
THEOREM LimitsHold == Spec => []WithinLimits
<1>1. Limited => WithinLimits
  BY DEF Limited
<1>2. QED
  BY <1>1, LimitedAlways, PTL

\* The queue is in order in every reachable state: types, one place for every
\* job, one job for every key, and no limit passed (in-process-queue.ts).
THEOREM QueueInOrder == Spec => []InOrder
<1>1. TypeOK /\ OnePlace /\ OneJobPerKey /\ WithinLimits => InOrder
  BY DEF InOrder
<1> QED BY <1>1, TypeCorrect, JobsAreInOnePlace, KeysAreUnique, LimitsHold, PTL

\* A job ends once: nothing is lost and nothing settled comes back.
THEOREM JobsEndOnce == Spec => EndsOnce
BY NothingIsLost, SettledForGood DEF EndsOnce

-------------------------------------------------------------------------------
(* The job queue implements Delivery.  Each step of it is one of the promises' *)
(* steps or changes nothing they speak of.  Two facts are needed beyond the    *)
(* queue's invariant: a job that still answers for its key makes enqueue drop  *)
(* the next one, and the leases of one employee are as many as that employee's *)
(* running jobs.                                                               *)

Held == {l[1] : l \in InFlight}

PhaseOf(j, waiting, running, buried) ==
  IF j \in waiting THEN "waiting"
  ELSE IF j \in running THEN "running"
  ELSE IF j \in buried THEN "buried" ELSE "settled"

LEMMA PhaseIs ==
  /\ phase = [j \in Enqueued |-> PhaseOf(j, pending, Held, dead)]
  /\ phase' = [j \in Enqueued' |-> PhaseOf(j, pending', Held', dead')]
  BY DEF phase, PhaseOf, Held

\* Where a job is, told from its phase.
LEMMA PhaseFacts ==
  ASSUME IInv, NEW j \in Enqueued
  PROVE  /\ phase[j] = "waiting" <=> j \in pending
         /\ phase[j] = "running" <=> j \in Held
         /\ phase[j] # "settled" <=> j \in Live \cup dead
<1>1. j \in Held => j \notin pending \cup dead
  BY DEF IInv, OnePlace, Held
<1>2. Live = pending \cup Held
  BY DEF Live, Held
<1>3. QED
  BY <1>1, <1>2, PhaseIs DEF PhaseOf

\* Delivery counts as the queue does.
LEMMA SameCount == \A S : D!Cardinality(S) = Cardinality(S)
  BY DEF D!Cardinality, Cardinality

LEMMA Domains ==
  ASSUME IInv
  PROVE  D!Accepted = Enqueued /\ D!Cardinality(D!Accepted) + 1 = sequence + 1
<1>1. D!Accepted = Enqueued
  BY DEF IInv, TypeOK, D!Accepted
<1>2. Cardinality(1 .. sequence) = sequence
  <2>1. sequence \in Nat
    BY QueueConstants DEF IInv, TypeOK
  <2>2. Cardinality(1 .. sequence) = IF 1 > sequence THEN 0 ELSE sequence - 1 + 1
    BY <2>1, FS_Interval
  <2>3. QED
    BY <2>1, <2>2
<1>3. QED
  BY <1>1, <1>2, SameCount DEF Enqueued

\* A step after which every job is where it was.
LEMMA SameJobs ==
  ASSUME UNCHANGED <<sequence, spec, pending, dead>>, Held' = Held
  PROVE  UNCHANGED D!vars
<1>1. Enqueued' = Enqueued
  BY DEF Enqueued
<1>2. phase' = phase
  BY <1>1, PhaseIs
<1>3. QED
  BY <1>2 DEF D!vars

LEMMA InitDelivers == Init => D!Init
<1> SUFFICES ASSUME Init PROVE D!Init
  OBVIOUS
<1>1. Enqueued = {}
  BY DEF Init, Enqueued
<1>2. phase = << >>
  BY <1>1, PhaseIs
<1>3. QED
  BY <1>2 DEF Init, D!Init

LEMMA EnqueueDelivers ==
  ASSUME IInv, NEW r \in Requests, Enqueue(r)
  PROVE  D!Accept(r) \/ UNCHANGED D!vars
<1>1. UNCHANGED <<leases, dead>> /\ Held' = Held
  BY DEF Enqueue, Held, InFlight
<1>2. CASE Deduplicated(r)
  BY <1>1, <1>2, SameJobs DEF Enqueue
<1>3. CASE ~Deduplicated(r)
  <2>0. PICK n : n = sequence + 1
    OBVIOUS
  <2>1. /\ sequence' = n
        /\ spec' = Extended(spec, n, r)
        /\ pending' = pending \cup {n}
    BY <1>3, <2>0 DEF Enqueue
  <2>2. /\ Enqueued = DOMAIN spec /\ Enqueued' = Enqueued \cup {n} /\ n \notin Enqueued
        /\ Enqueued' = 1 .. n
    BY <2>0, <2>1, QueueConstants DEF Enqueued, IInv, TypeOK
  <2>3. spec' = [j \in 1 .. n |-> IF j = n THEN r ELSE spec[j]]
    BY <2>1, <2>2 DEF Extended
  <2>4. phase' = [j \in 1 .. n |-> IF j = n THEN "waiting" ELSE phase[j]]
    <3>1. \A j \in Enqueued : PhaseOf(j, pending', Held', dead') = phase[j]
      BY <1>1, <2>1, <2>2, PhaseIs DEF PhaseOf
    <3>2. PhaseOf(n, pending', Held', dead') = "waiting"
      BY <2>1 DEF PhaseOf
    <3>3. QED
      BY <2>2, <3>1, <3>2, PhaseIs
  <2>5. r.key # NoKey => \A j \in D!Outstanding : spec[j].key # r.key
    <3> SUFFICES ASSUME r.key # NoKey, NEW j \in D!Outstanding, spec[j].key = r.key
                 PROVE  FALSE
      OBVIOUS
    <3>1. j \in Live \cup dead
      BY Domains, PhaseFacts DEF D!Outstanding
    <3>2. r.key \in DOMAIN keys /\ keys[r.key] = [job |-> j, forget |-> Never]
      BY <3>1 DEF IInv, KeysHeld, Holds
    <3>3. r.key \notin StaleKeys
      BY <3>2, QueueConstants DEF StaleKeys
    <3>4. QED
      BY <1>3, <3>2, <3>3 DEF Deduplicated
  <2>6. D!Cardinality(D!Accepted) + 1 = n
    BY <2>0, Domains
  <2>7. QED
    BY <2>3, <2>4, <2>5, <2>6 DEF D!Accept
<1>4. QED
  BY <1>2, <1>3

\* An employee's running jobs are no more than the leases held for them.
LEMMA ColleaguesAreLeases ==
  ASSUME IInv, IsFiniteSet(InFlight), NEW j \in Enqueued
  PROVE  /\ Cardinality(D!Colleagues(j)) \in Nat
         /\ Cardinality(InFlightWith(spec[j])) \in Nat
         /\ Cardinality(D!Colleagues(j)) <= Cardinality(InFlightWith(spec[j]))
<1> DEFINE S == InFlightWith(spec[j])
           T == D!Colleagues(j)
           f == [l \in S |-> l[1]]
<1>1. IsFiniteSet(S)
  BY FS_Subset DEF InFlightWith
<1>2. T = {l[1] : l \in S}
  <2>1. T = {k \in Held : SameEmployee(spec[k], spec[j])}
    <3>1. Held \subseteq Enqueued
      BY DEF IInv, TypeOK, Held
    <3>2. QED
      BY <3>1, Domains, PhaseFacts DEF D!Colleagues, SameEmployee
  <2>2. QED
    BY <2>1 DEF Held, InFlightWith
<1>3. f \in Surjection(S, T)
  BY <1>2 DEF Surjection
<1> HIDE DEF S, T, f
<1>4. IsFiniteSet(T) /\ Cardinality(T) <= Cardinality(S)
  BY <1>1, <1>3, FS_Surjection
<1>5. Cardinality(S) \in Nat /\ Cardinality(T) \in Nat
  BY <1>1, <1>4, FS_CardinalityType
<1>6. QED
  BY <1>4, <1>5 DEF S, T

LEMMA ClaimDelivers ==
  ASSUME Limited, NEW w \in Workers, Claim(w)
  PROVE  \E j \in D!Accepted : D!Deliver(j)
<1>1. PICK j \in Eligible :
        /\ pending' = pending \ {j}
        /\ leases' = Extended(leases, <<j, attempts[j] + 1>>, LeaseTicks)
  BY DEF Claim
<1>2. /\ InFlight' = InFlight \cup {<<j, attempts[j] + 1>>}
      /\ j \in pending
      /\ UNCHANGED <<sequence, spec, dead>>
      /\ Cardinality(InFlightWith(spec[j])) < MaxPerEmployee
  BY <1>1 DEF Claim, Extended, InFlight, Eligible
<1>3. Held' = Held \cup {j} /\ Enqueued' = Enqueued
  <2>1. <<j, attempts[j] + 1>>[1] = j
    OBVIOUS
  <2>2. Held' = {l[1] : l \in InFlight \cup {<<j, attempts[j] + 1>>}}
    BY <1>2 DEF Held
  <2>3. Held' = Held \cup {j}
    BY <2>1, <2>2 DEF Held
  <2>4. QED
    BY <1>2, <2>3 DEF Enqueued
<1>4. IInv /\ IsFiniteSet(InFlight) /\ j \in Enqueued /\ MaxPerEmployee \in Nat
  BY <1>2, QueueConstants DEF Limited, IInv, TypeOK
<1>5. phase[j] = "waiting" /\ j \in D!Accepted
  BY <1>2, <1>4, PhaseFacts, Domains
<1>6. D!Cardinality(D!Colleagues(j)) < MaxPerEmployee
  BY <1>2, <1>4, ColleaguesAreLeases, SameCount
<1>7. phase' = [phase EXCEPT ![j] = "running"]
  <2>1. \A i \in Enqueued \ {j} : PhaseOf(i, pending', Held', dead') = phase[i]
    BY <1>1, <1>2, <1>3, PhaseIs DEF PhaseOf
  <2>2. PhaseOf(j, pending', Held', dead') = "running"
    BY <1>1, <1>3 DEF PhaseOf
  <2>3. QED
    BY <1>3, <2>1, <2>2, PhaseIs
<1>8. QED
  BY <1>2, <1>5, <1>6, <1>7 DEF D!Deliver

\* What a holder leaves behind by giving up its lease.
LEMMA GivenUpHeld ==
  ASSUME IInv, NEW w \in Workers, hands[w] \in InFlight,
         leases' = Without(leases, {hands[w]})
  PROVE  /\ Held' = Held \ {hands[w][1]}
         /\ hands[w][1] \in Enqueued /\ hands[w][1] \in D!Accepted
         /\ phase[hands[w][1]] = "running"
         /\ hands[w][1] \notin pending \cup dead
<1> DEFINE l == hands[w]
<1>1. InFlight' = InFlight \ {l}
  BY LeasesGo DEF IInv
<1>2. \A k \in InFlight' : k[1] # l[1]
  BY <1>1, OneLease DEF IInv
<1>3. Held' = Held \ {l[1]} /\ l[1] \in Held
  BY <1>1, <1>2 DEF Held
<1>4. l[1] \in Enqueued /\ l[1] \notin pending \cup dead
  BY DEF IInv, TypeOK, OnePlace
<1>5. QED
  BY <1>3, <1>4, PhaseFacts, Domains

LEMMA FinishDelivers ==
  ASSUME IInv, NEW w \in Workers, Finish(w)
  PROVE  (\E j \in D!Accepted : D!End(j, "settled")) \/ UNCHANGED D!vars
<1> DEFINE j == hands[w][1]
<1>1. UNCHANGED <<sequence, spec, pending, dead>> /\ Enqueued' = Enqueued
  BY DEF Finish, Enqueued
<1>2. CASE UNCHANGED leases
  BY <1>1, <1>2, SameJobs DEF Held, InFlight
<1>3. CASE hands[w] \in InFlight /\ leases' = Without(leases, {hands[w]})
  <2>1. /\ Held' = Held \ {j} /\ j \in Enqueued /\ j \in D!Accepted
        /\ phase[j] = "running" /\ j \notin pending \cup dead
    BY <1>3, GivenUpHeld
  <2>2. phase' = [phase EXCEPT ![j] = "settled"]
    <3>1. \A i \in Enqueued \ {j} : PhaseOf(i, pending', Held', dead') = phase[i]
      BY <1>1, <2>1, PhaseIs DEF PhaseOf
    <3>2. PhaseOf(j, pending', Held', dead') = "settled"
      BY <1>1, <2>1 DEF PhaseOf
    <3>3. QED
      BY <1>1, <3>1, <3>2, PhaseIs
  <2>3. QED
    BY <1>1, <2>1, <2>2 DEF D!End
<1>4. QED
  BY <1>2, <1>3 DEF Finish

LEMMA FailDelivers ==
  ASSUME IInv, NEW w \in Workers, Fail(w)
  PROVE  \/ \E j \in D!Accepted : D!End(j, "buried")
         \/ \E J \in SUBSET D!Accepted : D!Return(J)
         \/ UNCHANGED D!vars
<1> DEFINE j == hands[w][1]
<1>1. UNCHANGED <<sequence, spec>> /\ Enqueued' = Enqueued
  BY DEF Fail, Enqueued
<1>2. CASE UNCHANGED <<leases, dead, pending>>
  BY <1>1, <1>2, SameJobs DEF Held, InFlight
<1>3. CASE /\ hands[w] \in InFlight
           /\ leases' = Without(leases, {hands[w]})
           /\ dead' = dead \cup {j}
           /\ UNCHANGED pending
  <2>1. /\ Held' = Held \ {j} /\ j \in Enqueued /\ j \in D!Accepted
        /\ phase[j] = "running" /\ j \notin pending \cup dead
    BY <1>3, GivenUpHeld
  <2>2. phase' = [phase EXCEPT ![j] = "buried"]
    <3>1. \A i \in Enqueued \ {j} : PhaseOf(i, pending', Held', dead') = phase[i]
      BY <1>3, <2>1, PhaseIs DEF PhaseOf
    <3>2. PhaseOf(j, pending', Held', dead') = "buried"
      BY <1>3, <2>1 DEF PhaseOf
    <3>3. QED
      BY <1>1, <3>1, <3>2, PhaseIs
  <2>3. QED
    BY <1>1, <2>1, <2>2 DEF D!End
<1>4. CASE /\ hands[w] \in InFlight
           /\ leases' = Without(leases, {hands[w]})
           /\ pending' = pending \cup {j}
           /\ UNCHANGED dead
  <2>1. /\ Held' = Held \ {j} /\ j \in Enqueued /\ j \in D!Accepted
        /\ phase[j] = "running" /\ j \notin pending \cup dead
    BY <1>4, GivenUpHeld
  <2>2. phase' = [i \in D!Accepted |-> IF i \in {j} THEN "waiting" ELSE phase[i]]
    <3>1. \A i \in Enqueued \ {j} : PhaseOf(i, pending', Held', dead') = phase[i]
      BY <1>4, <2>1, PhaseIs DEF PhaseOf
    <3>2. PhaseOf(j, pending', Held', dead') = "waiting"
      BY <1>4 DEF PhaseOf
    <3>3. QED
      BY <1>1, <3>1, <3>2, PhaseIs, Domains
  <2>3. D!Return({j})
    BY <1>1, <2>1, <2>2 DEF D!Return
  <2>4. QED
    BY <2>1, <2>3
<1>5. QED
  BY <1>2, <1>3, <1>4 DEF Fail

LEMMA RecoverDelivers ==
  ASSUME IInv, RecoverExpired
  PROVE  \E J \in SUBSET D!Accepted : D!Return(J)
<1> DEFINE J == {l[1] : l \in Lapsed}
<1>1. /\ InFlight' = InFlight \ Lapsed /\ Lapsed \subseteq InFlight /\ Lapsed # {}
      /\ pending' = pending \cup J
      /\ UNCHANGED <<sequence, spec, dead>> /\ Enqueued' = Enqueued
  BY LeasesGo DEF RecoverExpired, IInv, Lapsed, Enqueued
<1>2. \A k \in InFlight', l \in Lapsed : k[1] # l[1]
  BY <1>1, OneLease DEF IInv
<1>3. Held' = Held \ J /\ J \subseteq Held /\ J # {}
  BY <1>1, <1>2 DEF Held
<1>4. Held \subseteq Enqueued
  BY DEF IInv, TypeOK, Held
<1> HIDE DEF J
<1>5. \A j \in J : phase[j] = "running"
  BY <1>3, <1>4, PhaseFacts
<1>6. phase' = [i \in D!Accepted |-> IF i \in J THEN "waiting" ELSE phase[i]]
  <2>1. \A i \in Enqueued \ J : PhaseOf(i, pending', Held', dead') = phase[i]
    BY <1>1, <1>3, PhaseIs DEF PhaseOf
  <2>2. \A i \in J : PhaseOf(i, pending', Held', dead') = "waiting"
    BY <1>1 DEF PhaseOf
  <2>3. QED
    BY <1>1, <1>4, <2>1, <2>2, PhaseIs, Domains
<1>7. QED
  BY <1>1, <1>3, <1>4, <1>5, <1>6, Domains DEF D!Return

\* Every step of the queue is a step of what it promises, or none of its concern.
LEMMA NextDelivers == Limited /\ [Next]_vars => [D!Next]_(D!vars)
<1> SUFFICES ASSUME Limited, [Next]_vars PROVE D!Next \/ UNCHANGED D!vars
  OBVIOUS
<1>1. IInv
  BY DEF Limited
<1>2. CASE \E r \in Requests : Enqueue(r)
  BY <1>1, <1>2, EnqueueDelivers DEF D!Next
<1>3. CASE \E w \in Workers : Claim(w)
  BY <1>3, ClaimDelivers DEF D!Next
<1>4. CASE \E w \in Workers : Finish(w)
  BY <1>1, <1>4, FinishDelivers DEF D!Next
<1>5. CASE \E w \in Workers : Fail(w)
  BY <1>1, <1>5, FailDelivers DEF D!Next
<1>6. CASE RecoverExpired
  BY <1>1, <1>6, RecoverDelivers DEF D!Next
<1>7. CASE Tick \/ (\E w \in Workers : Crash(w)) \/ UNCHANGED vars
  <2>1. UNCHANGED <<sequence, spec, pending, dead>> /\ InFlight' = InFlight
    BY <1>7 DEF Tick, Crash, queue, vars, InFlight
  <2>2. QED
    BY <2>1, SameJobs DEF Held
<1>8. QED
  BY <1>2, <1>3, <1>4, <1>5, <1>6, <1>7 DEF Next

\* The queue keeps its promises: leases, clocks, limits and holders that come and
\* go are invisible to whoever asked for the work, except that it may be delivered
\* again before it is settled.
THEOREM QueueDelivers == Spec => Delivers
<1>1. Spec => []Limited
  BY LimitedAlways
<1>2. QED
  BY <1>1, InitDelivers, NextDelivers, PTL DEF Spec, Delivers, D!Spec

===============================================================================
