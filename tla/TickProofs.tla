------------------------------- MODULE TickProofs -------------------------------
(* The ticks of module Ticks, whatever else they do, campaign as module Leaders  *)
(* says and in no other way, so what is proved of the election holds of them.    *)
(* And what they queue is due: no occurrence is passed over, nothing is queued    *)
(* for a level that could not work since the tick began, and no work is queued   *)
(* twice, though the queue forgets its keys.                                     *)
EXTENDS Ticks, FiniteSetTheorems, TLAPS

-------------------------------------------------------------------------------
(* The election: at most one worker believes it leads, for every number of    *)
(* workers and every lease, and however time passes between asking for the    *)
(* lease and learning the answer.                                             *)

LInv == LeadersTypeOK /\ Covered

\* The election starts with nobody leading and nobody asking.
LEMMA LeadersStart == LeadersInit => LInv
<1> SUFFICES ASSUME LeadersInit PROVE LInv
  OBVIOUS
<1> USE LeaderConstants DEF LeadersInit
<1>1. LeadersTypeOK
  BY DEF LeadersTypeOK, Election, NoElection, Asking
<1>2. ASSUME NEW w \in Workers
      PROVE election[w].heldUntil = 0 /\ election[w].answer = "silent"
  BY DEF NoElection
<1>3. Covered
  BY <1>2 DEF Covered, CoveredFor
<1> QED BY <1>1, <1>3 DEF LInv

\* What a step of a worker's election leaves alone, and the types of what it has.
LEMMA ElectionTypes ==
  ASSUME LeadersTypeOK, NEW w \in Workers
  PROVE  /\ election[w].heldUntil \in Nat /\ election[w].renewAt \in Nat
         /\ election[w].asked \in Nat /\ election[w].answer \in Asking
         /\ clock \in Nat /\ lock.until \in Nat /\ lock.owner \in Workers \cup {Nobody}
         /\ election[w] \in Election
BY DEF LeadersTypeOK, Election

\* An election whose records are election records after one worker's changes is
\* of the right type.
LEMMA ElectionChanged ==
  ASSUME LeadersTypeOK, NEW w \in Workers, NEW e \in Election,
         election' = [election EXCEPT ![w] = e]
  PROVE  /\ election' \in [Workers -> Election] /\ election'[w] = e
         /\ \A v \in Workers \ {w} : election'[v] = election[v]
BY DEF LeadersTypeOK

\* What each step makes of the election, one record replaced by another.
LEMMA ElectionSteps ==
  ASSUME LeadersTypeOK, NEW w \in Workers
  PROVE  /\ Ask(w) => election' = [election EXCEPT ![w] =
                        [heldUntil |-> election[w].heldUntil, renewAt |-> election[w].renewAt,
                         asked |-> clock, answer |-> "asking"]]
         /\ AcquireLock(w) => election' = [election EXCEPT ![w] =
                        [heldUntil |-> election[w].heldUntil, renewAt |-> election[w].renewAt,
                         asked |-> election[w].asked,
                         answer |-> IF Live \in {Nobody, w} THEN "taken" ELSE "refused"]]
         /\ Learn(w) => election' = [election EXCEPT ![w] =
                        [heldUntil |-> IF election[w].answer = "taken"
                                       THEN election[w].asked + Lease ELSE 0,
                         renewAt |-> IF election[w].answer = "taken"
                                     THEN election[w].asked + RenewAfter ELSE election[w].renewAt,
                         asked |-> election[w].asked, answer |-> "silent"]]
         /\ Resign(w) => election' = [election EXCEPT ![w] =
                        [heldUntil |-> 0, renewAt |-> election[w].renewAt,
                         asked |-> election[w].asked, answer |-> "silent"]]
<1> USE DEF LeadersTypeOK, Election
<1>1. Ask(w) => election' = [election EXCEPT ![w] =
                        [heldUntil |-> election[w].heldUntil, renewAt |-> election[w].renewAt,
                         asked |-> clock, answer |-> "asking"]]
  BY DEF Ask
<1>2. AcquireLock(w) => election' = [election EXCEPT ![w] =
                        [heldUntil |-> election[w].heldUntil, renewAt |-> election[w].renewAt,
                         asked |-> election[w].asked,
                         answer |-> IF Live \in {Nobody, w} THEN "taken" ELSE "refused"]]
  <2>1. CASE Live \in {Nobody, w}
    BY <2>1 DEF AcquireLock
  <2>2. CASE Live \notin {Nobody, w}
    BY <2>2 DEF AcquireLock
  <2> QED BY <2>1, <2>2
<1>3. Learn(w) => election' = [election EXCEPT ![w] =
                        [heldUntil |-> IF election[w].answer = "taken"
                                       THEN election[w].asked + Lease ELSE 0,
                         renewAt |-> IF election[w].answer = "taken"
                                     THEN election[w].asked + RenewAfter ELSE election[w].renewAt,
                         asked |-> election[w].asked, answer |-> "silent"]]
  <2>1. CASE election[w].answer = "taken"
    BY <2>1 DEF Learn
  <2>2. CASE election[w].answer # "taken"
    BY <2>2 DEF Learn
  <2> QED BY <2>1, <2>2
<1>4. Resign(w) => election' = [election EXCEPT ![w] =
                        [heldUntil |-> 0, renewAt |-> election[w].renewAt,
                         asked |-> election[w].asked, answer |-> "silent"]]
  <2> SUFFICES ASSUME Resign(w)
               PROVE  election' = [election EXCEPT ![w] =
                        [heldUntil |-> 0, renewAt |-> election[w].renewAt,
                         asked |-> election[w].asked, answer |-> "silent"]]
    OBVIOUS
  <2>1. PICK e \in Election : e = election[w]
    OBVIOUS
  <2>2. [e EXCEPT !.heldUntil = 0] =
          [heldUntil |-> 0, renewAt |-> e.renewAt, asked |-> e.asked, answer |-> e.answer]
    OBVIOUS
  <2>3. e.answer = "silent" /\ election' = [election EXCEPT ![w] = [e EXCEPT !.heldUntil = 0]]
    BY <2>1 DEF Resign
  <2> QED BY <2>1, <2>2, <2>3
<1> QED BY <1>1, <1>2, <1>3, <1>4

\* A worker whose election a step leaves alone stays covered if the entry does.
LEMMA StaysCovered ==
  ASSUME LInv, NEW v \in Workers, election'[v] = election[v], clock' = clock,
         lock' = lock \/ clock >= lock.until \/ lock.owner # v
  PROVE  CoveredFor(v)'
<1>1. CoveredFor(v)
  BY DEF LInv, Covered
<1>2. /\ election[v].heldUntil \in Nat /\ election[v].asked \in Nat
      /\ clock \in Nat /\ lock.until \in Nat /\ Lease \in Nat
  BY ElectionTypes, LeaderConstants DEF LInv
<1>3. /\ clock < election[v].heldUntil => lock'.owner = v /\ election[v].heldUntil <= lock'.until
      /\ election[v].answer = "taken" /\ clock < election[v].asked + Lease =>
           lock'.owner = v /\ election[v].asked + Lease <= lock'.until
  <2>1. CASE lock' = lock
    BY <1>1, <2>1 DEF CoveredFor
  <2>2. CASE clock >= lock.until \/ lock.owner # v
    BY <1>1, <1>2, <2>2 DEF CoveredFor
  <2> QED BY <2>1, <2>2
<1> QED BY <1>1, <1>3 DEF CoveredFor

\* Each step of the election keeps the invariant: another owner takes the lock
\* only once the entry that covers a lease has expired, and the lease with it.
LEMMA LeadersStep == LInv /\ [LeadersNext]_leaderVars => LInv'
<1> SUFFICES ASSUME LInv, [LeadersNext]_leaderVars PROVE LInv'
  OBVIOUS
<1> USE LeaderConstants DEF LInv
<1>0. /\ clock \in Nat /\ lock \in [owner : Workers \cup {Nobody}, until : Nat]
      /\ lock.until \in Nat
  BY DEF LeadersTypeOK
<1>1. CASE TimePasses
  <2>1. LeadersTypeOK'
    BY <1>1 DEF TimePasses, LeadersTypeOK
  <2>2. ASSUME NEW v \in Workers PROVE CoveredFor(v)'
    <3>1. CoveredFor(v) /\ election[v].heldUntil \in Nat /\ election[v].asked \in Nat
      BY ElectionTypes DEF Covered
    <3> QED BY <1>0, <1>1, <3>1 DEF TimePasses, CoveredFor
  <2> QED BY <2>1, <2>2 DEF Covered
<1>2. ASSUME NEW w \in Workers, Ask(w) PROVE LInv'
  <2> DEFINE e == [heldUntil |-> election[w].heldUntil, renewAt |-> election[w].renewAt,
                   asked |-> clock, answer |-> "asking"]
  <2>1. e \in Election
    BY <1>0, ElectionTypes DEF Election, Asking
  <2>2. /\ election' \in [Workers -> Election] /\ election'[w] = e
        /\ \A v \in Workers \ {w} : election'[v] = election[v]
    BY <1>2, <2>1, ElectionSteps, ElectionChanged
  <2>3. UNCHANGED <<clock, lock>>
    BY <1>2 DEF Ask
  <2>4. LeadersTypeOK'
    BY <2>2, <2>3 DEF LeadersTypeOK
  <2>5. CoveredFor(w)'
    <3>1. CoveredFor(w) /\ election[w].heldUntil \in Nat /\ election[w].asked \in Nat
      BY ElectionTypes DEF Covered
    <3> QED BY <1>0, <2>2, <2>3, <3>1 DEF CoveredFor
  <2> QED BY <2>2, <2>3, <2>4, <2>5, StaysCovered DEF Covered
<1>3. ASSUME NEW w \in Workers, AcquireLock(w) PROVE LInv'
  <2> DEFINE e == [heldUntil |-> election[w].heldUntil, renewAt |-> election[w].renewAt,
                   asked |-> election[w].asked,
                   answer |-> IF Live \in {Nobody, w} THEN "taken" ELSE "refused"]
  <2>1. e \in Election
    BY <1>0, ElectionTypes DEF Election, Asking
  <2>2. /\ election' \in [Workers -> Election] /\ election'[w] = e
        /\ \A v \in Workers \ {w} : election'[v] = election[v]
    BY <1>3, <2>1, ElectionSteps, ElectionChanged
  <2>3. clock' = clock /\ election[w].answer = "asking"
    BY <1>3 DEF AcquireLock
  <2>4. CASE Live \in {Nobody, w}
    <3>1. lock' = [owner |-> w, until |-> clock + Lease]
      BY <1>3, <2>4 DEF AcquireLock
    <3>2. clock >= lock.until \/ lock.owner = w \/ lock.owner = Nobody
      BY <1>0, <2>4 DEF Live
    <3>3. LeadersTypeOK'
      BY <1>0, <2>2, <2>3, <3>1 DEF LeadersTypeOK
    <3>4. CoveredFor(w)'
      <4>1. CoveredFor(w) /\ election[w].heldUntil \in Nat /\ election[w].asked \in Nat
        BY ElectionTypes DEF Covered
      <4> QED BY <1>0, <2>2, <2>3, <3>1, <4>1 DEF CoveredFor
    <3>5. ASSUME NEW v \in Workers \ {w} PROVE CoveredFor(v)'
      <4>1. election'[v] = election[v] /\ v \in Workers /\ v # Nobody
        BY <2>2, LeaderConstants
      <4> QED BY <2>3, <3>2, <4>1, StaysCovered
    <3> QED BY <3>3, <3>4, <3>5 DEF Covered
  <2>5. CASE Live \notin {Nobody, w}
    <3>1. lock' = lock
      BY <1>3, <2>5 DEF AcquireLock
    <3>2. e.answer = "refused"
      BY <2>5
    <3>3. LeadersTypeOK'
      BY <1>0, <2>2, <2>3, <3>1 DEF LeadersTypeOK
    <3>4. CoveredFor(w)'
      <4>1. CoveredFor(w) /\ election[w].heldUntil \in Nat /\ election[w].asked \in Nat
        BY ElectionTypes DEF Covered
      <4> QED BY <1>0, <2>2, <2>3, <3>1, <3>2, <4>1 DEF CoveredFor
    <3> QED BY <2>2, <2>3, <3>1, <3>3, <3>4, StaysCovered DEF Covered
  <2> QED BY <2>4, <2>5
<1>4. ASSUME NEW w \in Workers, Learn(w) PROVE LInv'
  <2> DEFINE e == [heldUntil |-> IF election[w].answer = "taken"
                                 THEN election[w].asked + Lease ELSE 0,
                   renewAt |-> IF election[w].answer = "taken"
                               THEN election[w].asked + RenewAfter ELSE election[w].renewAt,
                   asked |-> election[w].asked, answer |-> "silent"]
  <2>1. e \in Election
    BY <1>0, ElectionTypes DEF Election, Asking
  <2>2. /\ election' \in [Workers -> Election] /\ election'[w] = e
        /\ \A v \in Workers \ {w} : election'[v] = election[v]
    BY <1>4, <2>1, ElectionSteps, ElectionChanged
  <2>3. UNCHANGED <<clock, lock>> /\ election[w].answer # "silent"
    BY <1>4 DEF Learn
  <2>4. LeadersTypeOK'
    BY <2>2, <2>3 DEF LeadersTypeOK
  <2>5. CoveredFor(w)'
    <3>1. CoveredFor(w) /\ election[w].heldUntil \in Nat /\ election[w].asked \in Nat
      BY ElectionTypes DEF Covered
    <3> QED BY <1>0, <2>2, <2>3, <3>1 DEF CoveredFor
  <2> QED BY <2>2, <2>3, <2>4, <2>5, StaysCovered DEF Covered
<1>5. ASSUME NEW w \in Workers, Resign(w) PROVE LInv'
  <2> DEFINE e == [heldUntil |-> 0, renewAt |-> election[w].renewAt,
                   asked |-> election[w].asked, answer |-> "silent"]
  <2>1. e \in Election
    BY <1>0, ElectionTypes DEF Election, Asking
  <2>2. /\ election' \in [Workers -> Election] /\ election'[w] = e
        /\ \A v \in Workers \ {w} : election'[v] = election[v]
    BY <1>5, <2>1, ElectionSteps, ElectionChanged
  <2>3. clock' = clock /\ lock' = IF Live = w THEN [owner |-> Nobody, until |-> 0] ELSE lock
    BY <1>5 DEF Resign, ReleaseLock
  <2>4. LeadersTypeOK'
    BY <1>0, <2>2, <2>3 DEF LeadersTypeOK
  <2>5. Live = w => lock.owner = w
    BY DEF Live
  <2>6. CoveredFor(w)'
    <3>1. CoveredFor(w) /\ election[w].heldUntil \in Nat /\ election[w].asked \in Nat
      BY ElectionTypes DEF Covered
    <3> QED BY <1>0, <2>2, <2>3, <3>1 DEF CoveredFor
  <2> QED BY <2>2, <2>3, <2>4, <2>5, <2>6, StaysCovered, LeaderConstants DEF Covered
<1>6. ASSUME NEW w \in Workers, Die(w) PROVE LInv'
  <2>1. NoElection \in Election
    BY DEF NoElection, Election, Asking
  <2>2. /\ election' \in [Workers -> Election] /\ election'[w] = NoElection
        /\ \A v \in Workers \ {w} : election'[v] = election[v]
    BY <1>6, <2>1, ElectionChanged DEF Die
  <2>3. UNCHANGED <<clock, lock>>
    BY <1>6 DEF Die
  <2>4. LeadersTypeOK'
    BY <2>2, <2>3 DEF LeadersTypeOK
  <2>5. CoveredFor(w)'
    <3>1. CoveredFor(w) /\ election[w].heldUntil \in Nat /\ election[w].asked \in Nat
      BY ElectionTypes DEF Covered
    <3> QED BY <1>0, <2>2, <2>3, <3>1 DEF CoveredFor, NoElection
  <2> QED BY <2>2, <2>3, <2>4, <2>5, StaysCovered DEF Covered
<1>7. CASE UNCHANGED leaderVars
  BY <1>7 DEF leaderVars, LeadersTypeOK, Covered, CoveredFor
<1> QED BY <1>1, <1>2, <1>3, <1>4, <1>5, <1>6, <1>7 DEF LeadersNext

\* Two leaders would both own the entry.
LEMMA CoveredMeansOne == LInv => OneLeader
<1> SUFFICES ASSUME LInv, NEW v \in Workers, NEW w \in Workers, IsLeader(v), IsLeader(w)
             PROVE  v = w
  BY DEF OneLeader
<1>1. lock.owner = v /\ lock.owner = w
  BY DEF LInv, Covered, CoveredFor, IsLeader
<1> QED BY <1>1

\* At any instant at most one worker believes it leads (worker/leader.ts:13-16).
THEOREM AtMostOneLeads == LeadersSpec => []OneLeader
<1>1. LeadersSpec => []LInv
  BY LeadersStart, LeadersStep, PTL DEF LeadersSpec
<1> QED BY <1>1, CoveredMeansOne, PTL

-------------------------------------------------------------------------------
(* The ticks.                                                                 *)

\* Every step of a tick, of the office and of the clock is a step of the
\* election or leaves it alone.
LEMMA TicksCampaign == [Next]_vars => [LeadersNext]_leaderVars
<1> SUFFICES ASSUME [Next]_vars PROVE [LeadersNext]_leaderVars
  OBVIOUS
<1> USE DEF LeadersNext
<1>1. CASE Turn
  BY <1>1 DEF Turn
<1>2. ASSUME NEW w \in Workers, Tick(w) PROVE [LeadersNext]_leaderVars
  <2>1. CASE Campaign(w)
    BY <2>1 DEF Campaign
  <2>2. CASE Begin(w) \/ ReadOffice(w) \/ ReadSpend(w) \/ Enqueue(w) \/ Record(w) \/ Claim(w) \/ Finish(w)
    BY <2>2 DEF Begin, ReadOffice, ReadSpend, Enqueue, Record, Claim, Finish
  <2> QED BY <1>2, <2>1, <2>2 DEF Tick
<1>3. ASSUME NEW w \in Workers, Stop(w) PROVE [LeadersNext]_leaderVars
  BY <1>3 DEF Stop
<1>4. ASSUME NEW w \in Workers, Crash(w) PROVE [LeadersNext]_leaderVars
  BY <1>4 DEF Crash
<1>5. ASSUME NEW l \in Levels, Switch(l) PROVE [LeadersNext]_leaderVars
  BY <1>5 DEF Switch
<1>6. ASSUME NEW p \in People, File(p) PROVE [LeadersNext]_leaderVars
  BY <1>6 DEF File
<1>7. ASSUME NEW c \in calls, Store(c) \/ Warn(c) PROVE [LeadersNext]_leaderVars
  BY <1>7 DEF Store, Warn
<1>8. CASE UNCHANGED vars
  BY <1>8 DEF vars, leaderVars
<1> QED BY <1>1, <1>2, <1>3, <1>4, <1>5, <1>6, <1>7, <1>8 DEF Next

\* The detailed ticks implement the election on its own.
THEOREM TicksElect == Spec => LeadersSpec
<1>1. Init => LeadersInit
  BY DEF Init
<1> QED BY <1>1, TicksCampaign, PTL DEF Spec, LeadersSpec

\* Whatever workers do in their ticks, at most one of them believes it leads
\* (worker/leader.ts:13-16).
THEOREM OneLeadsTheTicks == Spec => []OneLeader
BY TicksElect, AtMostOneLeads, PTL

-------------------------------------------------------------------------------
(* What is supposed of budgets: they are for the day.  Spending is judged by the *)
(* day's figures whatever the period, so a budget for the month may be used up   *)
(* and work queued all the same.                                                 *)

DayBudgets == \A l \in Levels : Budgets[l] # NoBudget => Budgets[l].period = "day"

-------------------------------------------------------------------------------
(* The invariant.                                                                *)

Key(d, o) == <<"recurring", d, o>>

\* A worker's tick and a queued job have the parts that Idle and Enqueue give them.
TickOf(phase, now, read, due, fired, job) ==
  [phase : {phase}, now : {now}, read : {read}, due : {due}, fired : {fired}, job : {job}]

Whole(tick) == tick \in TickOf(tick.phase, tick.now, tick.read, tick.due, tick.fired, tick.job)

WorkerShape == worker = [w \in Workers |-> worker[w]] /\ \A w \in Workers : Whole(worker[w])

JobOfKey(k, job) ==
  job \in [who : People \cup {Nobody}, about : {<<k[2], k[3]>>}, state : {"waiting", "taken", "done"},
           at : Nat, by : {job.by}]

QueueFits ==
  /\ queue = [k \in DOMAIN queue |-> queue[k]]
  /\ \A k \in DOMAIN queue : k = <<k[1], k[2], k[3]>> /\ JobOfKey(k, queue[k])

OfficeFits ==
  /\ course \in Courses /\ clock <= MaxClock
  /\ running \subseteq Levels /\ ready \subseteq course.contests
  /\ tasks \in [course.tasks -> [status : {"in_progress", "in_review", "done"}, revision : Nat]]
  /\ lastRun \in [course.recurring -> -1 .. clock]

\* How often it was queued is known of every job there ever was.
Counted == DOMAIN queued = DOMAIN queue

\* Work that ran before and is said to have run up to n was queued up to n.
Recorded(d, n) ==
  Recurring[d].last # Never =>
    n # Never /\ \A o \in Recurring[d].at : Recurring[d].last < o /\ o <= n => Key(d, o) \in DOMAIN queue

\* What a tick read was so then, and what was stopped then is not read as running.
ReadFits(w) ==
  /\ worker[w].read.running \cap barred[w].stopped = {}
  /\ worker[w].read.lastRun \in [course.recurring -> -1 .. clock]
  /\ \A d \in course.recurring : Recorded(d, worker[w].read.lastRun[d])

JobFits(job) ==
  /\ job.key = <<job.key[1], job.about[1], job.about[2]>>
  /\ job.about = <<job.about[1], job.about[2]>>
  /\ job.who \in People \cup {Nobody}

InGoodFaith(w) ==
  \A job \in worker[w].due :
    /\ JobFits(job) /\ job.levels \cap barred[w].stopped = {}
    /\ DayBudgets => job.levels \cap barred[w].overspent = {}

\* An occurrence that fires is queued or about to be, is the only one of its
\* definition, and comes right after those that were queued.
FiredFit(w) ==
  \A f \in worker[w].fired :
    /\ f = <<f[1], f[2]>> /\ f[1] \in course.recurring /\ f[2] \in 0 .. clock
    /\ Recurring[f[1]].last # Never =>
         \A o \in Recurring[f[1]].at : Recurring[f[1]].last < o /\ o < f[2] => Key(f[1], o) \in DOMAIN queue
    /\ Key(f[1], f[2]) \in DOMAIN queue \/ \E job \in worker[w].due : job.key = Key(f[1], f[2])
    /\ \A g \in worker[w].fired : g[1] = f[1] => g[2] = f[2]

TickFits(w) ==
  /\ worker[w].phase \in Phases /\ worker[w].now \in Nat /\ worker[w].now <= clock
  /\ worker[w].phase = "pricing" => ReadFits(w)
  /\ worker[w].phase = "queueing" => InGoodFaith(w) /\ FiredFit(w)

BarredFits ==
  /\ barred \in [Workers -> [stopped : SUBSET Levels, overspent : SUBSET Levels]]
  /\ \A w \in Workers : barred[w].stopped \cap running = {}
  /\ \A w \in Workers : \A l \in barred[w].overspent : Overspent(l)

TickInv ==
  /\ LInv /\ WorkerShape /\ QueueFits /\ OfficeFits /\ Counted /\ BarredFits
  /\ \A d \in course.recurring : Recorded(d, lastRun[d])
  /\ \A w \in Workers : TickFits(w)

-------------------------------------------------------------------------------
(* What the invariant says of the types.                                         *)

LEMMA InvMeansTypes == TickInv => TypeOK
BY DEF TickInv, TypeOK, LInv, OfficeFits, TickFits, BarredFits, QueueFits, JobOfKey

-------------------------------------------------------------------------------
(* What a step leaves alone stays fit.                                           *)

LEMMA StillRecorded ==
  ASSUME NEW d, NEW n, Recorded(d, n), DOMAIN queue \subseteq DOMAIN queue'
  PROVE  Recorded(d, n)'
BY DEF Recorded

\* A worker that does nothing meanwhile: the queue grows, the clock goes on and
\* fewer levels are barred.
LEMMA StaysFit ==
  ASSUME NEW w \in Workers, TickFits(w), worker'[w] = worker[w], course' = course,
         clock \in Nat, clock' \in Nat, clock <= clock', DOMAIN queue \subseteq DOMAIN queue',
         barred'[w].stopped \subseteq barred[w].stopped,
         barred'[w].overspent \subseteq barred[w].overspent
  PROVE  TickFits(w)'
<1>1. worker[w].now \in Nat /\ worker[w].now <= clock'
  BY DEF TickFits
<1>2. ASSUME worker[w].phase = "pricing" PROVE ReadFits(w)'
  <2>1. ReadFits(w)
    BY <1>2 DEF TickFits
  <2>2. worker[w].read.lastRun \in [course.recurring -> -1 .. clock']
    BY <2>1 DEF ReadFits
  <2> QED BY <2>1, <2>2, StillRecorded DEF ReadFits
<1>3. ASSUME worker[w].phase = "queueing" PROVE InGoodFaith(w)' /\ FiredFit(w)'
  <2>1. InGoodFaith(w) /\ FiredFit(w)
    BY <1>3 DEF TickFits
  <2>2. InGoodFaith(w)'
    BY <2>1 DEF InGoodFaith, JobFits
  <2>3. 0 .. clock \subseteq 0 .. clock'
    OBVIOUS
  <2>4. FiredFit(w)'
    BY <2>1, <2>3 DEF FiredFit
  <2> QED BY <2>2, <2>4
<1> QED BY <1>1, <1>2, <1>3 DEF TickFits

\* A step of one worker's tick.
LEMMA WorkerGoesOn ==
  ASSUME WorkerShape, NEW w \in Workers, NEW tick, Whole(tick), worker' = [worker EXCEPT ![w] = tick]
  PROVE  WorkerShape' /\ worker'[w] = tick /\ \A v \in Workers \ {w} : worker'[v] = worker[v]
BY DEF WorkerShape

LEMMA GoesOn ==
  ASSUME WorkerShape, NEW w \in Workers, NEW phase, Goes(w, phase)
  PROVE  /\ WorkerShape' /\ \A v \in Workers \ {w} : worker'[v] = worker[v]
         /\ worker'[w] \in TickOf(phase, worker[w].now, worker[w].read, worker[w].due,
                                  worker[w].fired, worker[w].job)
<1> DEFINE tick == [worker[w] EXCEPT !.phase = phase]
<1>1. Whole(worker[w])
  BY DEF WorkerShape
<1>2. tick \in TickOf(phase, worker[w].now, worker[w].read, worker[w].due, worker[w].fired,
                     worker[w].job)
  BY <1>1 DEF Whole, TickOf
<1>3. worker' = [worker EXCEPT ![w] = tick]
  BY DEF Goes
<1> HIDE DEF tick
<1>4. Whole(tick)
  BY <1>2 DEF Whole, TickOf
<1> QED BY <1>2, <1>3, <1>4, WorkerGoesOn

LEMMA QueueKept ==
  ASSUME QueueFits, Counted, UNCHANGED <<queue, queued>>
  PROVE  QueueFits' /\ Counted'
BY DEF QueueFits, Counted

\* One job of the queue replaced by what is left of it.
LEMMA JobReplaced ==
  ASSUME QueueFits, Counted, NEW k, NEW new, k \in DOMAIN queue => JobOfKey(k, new),
         queue' = [queue EXCEPT ![k] = new], queued' = queued
  PROVE  QueueFits' /\ Counted' /\ DOMAIN queue' = DOMAIN queue
<1>1. DOMAIN queue' = DOMAIN queue /\ queue' = [x \in DOMAIN queue' |-> queue'[x]]
  OBVIOUS
<1>2. ASSUME NEW x \in DOMAIN queue PROVE x = <<x[1], x[2], x[3]>> /\ JobOfKey(x, queue'[x])
  <2>1. x = <<x[1], x[2], x[3]>> /\ JobOfKey(x, queue[x])
    BY DEF QueueFits
  <2>2. queue'[x] = IF x = k THEN new ELSE queue[x]
    OBVIOUS
  <2> QED BY <2>1, <2>2
<1>3. QueueFits'
  BY <1>1, <1>2 DEF QueueFits, JobOfKey
<1> QED BY <1>1, <1>3 DEF Counted

LEMMA OfficeKept ==
  ASSUME OfficeFits, UNCHANGED <<clock, course, running, ready, tasks, lastRun>>
  PROVE  OfficeFits'
BY DEF OfficeFits

LEMMA SpendingKept ==
  ASSUME UNCHANGED <<clock, rows>>, NEW l
  PROVE  Overspent(l)' = Overspent(l)
BY DEF Overspent, Over, Spent, PeriodStart, DayOf, BelongsTo

LEMMA BarredKept ==
  ASSUME BarredFits, UNCHANGED <<clock, rows, running, barred>>
  PROVE  BarredFits'
BY SpendingKept DEF BarredFits

\* A step of worker w that keeps the rest of the invariant.
LEMMA OneWorkerSteps ==
  ASSUME TickInv, LInv', NEW w \in Workers, UNCHANGED <<clock, course, rows, running>>,
         WorkerShape', \A v \in Workers \ {w} : worker'[v] = worker[v], TickFits(w)',
         QueueFits', Counted', DOMAIN queue \subseteq DOMAIN queue', OfficeFits', BarredFits',
         \A v \in Workers \ {w} : barred'[v] = barred[v],
         \A d \in course.recurring : Recorded(d, lastRun[d])'
  PROVE  TickInv'
<1>1. clock \in Nat
  BY DEF TickInv, LInv, LeadersTypeOK
<1>2. ASSUME NEW v \in Workers \ {w} PROVE TickFits(v)'
  BY <1>1, StaysFit DEF TickInv
<1> QED BY <1>2 DEF TickInv

\* One that only goes on to where nothing is asked of a tick.
LEMMA OneWorkerGoes ==
  ASSUME TickInv, LInv', NEW w \in Workers, NEW phase \in Phases \ {"pricing", "queueing"},
         Goes(w, phase), UNCHANGED <<clock, course, officeVars, queue, queued, barred>>
  PROVE  TickInv'
<1>1. /\ WorkerShape' /\ worker'[w].phase = phase /\ worker'[w].now = worker[w].now
      /\ \A v \in Workers \ {w} : worker'[v] = worker[v]
  BY GoesOn DEF TickInv, TickOf
<1>2. TickFits(w)'
  BY <1>1 DEF TickInv, TickFits
<1>3. QueueFits' /\ Counted'
  BY QueueKept DEF TickInv
<1>4. OfficeFits' /\ BarredFits'
  BY OfficeKept, BarredKept DEF TickInv, officeVars
<1>5. \A d \in course.recurring : Recorded(d, lastRun[d])'
  BY DEF TickInv, Recorded, officeVars
<1> QED BY <1>1, <1>2, <1>3, <1>4, <1>5, OneWorkerSteps DEF officeVars

-------------------------------------------------------------------------------
(* What is due.                                                                  *)

LEMMA CourseTypes ==
  ASSUME OfficeFits
  PROVE  /\ course.tasks \subseteq DOMAIN Tasks /\ course.contests \subseteq DOMAIN Judges
         /\ course.recurring \subseteq DOMAIN Recurring /\ course.improving \subseteq People
         /\ \A t \in course.tasks : Tasks[t].who \in People \cup {Nobody}
                                 /\ Tasks[t].reviewers \in Seq(People)
         /\ \A c \in course.contests : Judges[c] \in People
         /\ \A d \in course.recurring : Recurring[d] \in Definition
<1>1. course \in Course
  BY TickConstants DEF OfficeFits
<1>2. /\ course.tasks \subseteq DOMAIN Tasks /\ course.contests \subseteq DOMAIN Judges
      /\ course.recurring \subseteq DOMAIN Recurring /\ course.improving \subseteq People
  BY <1>1 DEF Course
<1>3. ASSUME NEW t \in course.tasks
      PROVE  Tasks[t].who \in People \cup {Nobody} /\ Tasks[t].reviewers \in Seq(People)
  <2>1. Tasks[t] \in [dept : Depts, who : People \cup {Nobody}, reviewers : Seq(People)]
    BY <1>2, TickConstants
  <2> QED BY <2>1
<1>4. \A c \in course.contests : Judges[c] \in People
  BY <1>2, TickConstants
<1>5. \A d \in course.recurring : Recurring[d] \in Definition
  BY <1>2, TickConstants
<1> QED BY <1>2, <1>3, <1>4, <1>5

LEMMA JobOf ==
  ASSUME NEW kind, NEW of, NEW number, NEW d, NEW p \in People \cup {Nobody}
  PROVE  /\ JobFits(Job(kind, of, number, d, p)) /\ Job(kind, of, number, d, p).levels = Asked(d, p)
         /\ Job(kind, of, number, d, p).key = <<kind, of, number>>
BY DEF Job, JobFits

\* Whatever is due belongs to levels that are open.
LEMMA DueJobsFit ==
  ASSUME OfficeFits, NEW s, NEW now, NEW job \in ComputeDueWork(s, now).jobs
  PROVE  JobFits(job) /\ \A l \in job.levels : Shut(s, now, l) = "open"
<1> SUFFICES \E kind, of, number, d : \E p \in People \cup {Nobody} :
               job = Job(kind, of, number, d, p) /\ Open(s, now, d, p)
  BY JobOf DEF Open
<1>1. ASSUME NEW t \in course.tasks, job \in TaskJobs(s, now, t)
      PROVE  \E kind, of, number, d : \E p \in People \cup {Nobody} :
               job = Job(kind, of, number, d, p) /\ Open(s, now, d, p)
  <2>1. CASE job \in ReviewJobs(s, now, t)
    <3>1. PICK i \in DOMAIN Tasks[t].reviewers :
            /\ Open(s, now, DeptOf[Tasks[t].reviewers[i]], Tasks[t].reviewers[i])
            /\ job = Job("agent_review", t, s.tasks[t].revision, DeptOf[Tasks[t].reviewers[i]],
                         Tasks[t].reviewers[i])
      BY <2>1 DEF ReviewJobs
    <3>2. Tasks[t].reviewers[i] \in People
      BY CourseTypes
    <3> QED BY <3>1, <3>2
  <2>2. CASE job \in RunJobs(s, now, t)
    <3>1. /\ Open(s, now, Tasks[t].dept, Tasks[t].who)
          /\ job = Job("agent_run", t, s.tasks[t].revision, Tasks[t].dept, Tasks[t].who)
      BY <2>2 DEF RunJobs
    <3>2. Tasks[t].who \in People \cup {Nobody}
      BY CourseTypes
    <3> QED BY <3>1, <3>2
  <2> QED BY <1>1, <2>1, <2>2 DEF TaskJobs
<1>2. ASSUME NEW c \in course.contests, job \in JudgeJobs(s, now, c)
      PROVE  \E kind, of, number, d : \E p \in People \cup {Nobody} :
               job = Job(kind, of, number, d, p) /\ Open(s, now, d, p)
  <2>1. /\ Open(s, now, DeptOf[Judges[c]], Judges[c])
        /\ job = Job("agent_judge", c, 0, DeptOf[Judges[c]], Judges[c])
    BY <1>2 DEF JudgeJobs
  <2>2. Judges[c] \in People
    BY CourseTypes
  <2> QED BY <2>1, <2>2
<1>3. ASSUME job \in LookBackJobs(s, now)
      PROVE  \E kind, of, number, d : \E p \in People \cup {Nobody} :
               job = Job(kind, of, number, d, p) /\ Open(s, now, d, p)
  <2>1. PICK p \in course.improving :
          /\ Open(s, now, DeptOf[p], p)
          /\ job = Job("agent_retrospective", p, DayOf(now), DeptOf[p], p)
    BY <1>3 DEF LookBackJobs
  <2>2. p \in People
    BY CourseTypes
  <2> QED BY <2>1, <2>2
<1>4. ASSUME NEW d \in course.recurring, job \in RecurringJobs(s, now, d)
      PROVE  \E kind, of, number, dept : \E p \in People \cup {Nobody} :
               job = Job(kind, of, number, dept, p) /\ Open(s, now, dept, p)
  <2>1. PICK o \in Firing(s, now, d) :
          job = Job("recurring", d, o, Recurring[d].dept, Recurring[d].who)
    BY <1>4 DEF RecurringJobs
  <2>2. Open(s, now, Recurring[d].dept, Recurring[d].who)
    BY <2>1 DEF Firing
  <2>3. Recurring[d].who \in People \cup {Nobody}
    BY CourseTypes DEF Definition
  <2> QED BY <2>1, <2>2, <2>3
<1> QED BY <1>1, <1>2, <1>3, <1>4 DEF ComputeDueWork

\* What fires is the first occurrence since the last that is recorded.
LEMMA FiredIsDue ==
  ASSUME OfficeFits, NEW s, NEW now \in Nat, NEW f \in ComputeDueWork(s, now).fired
  PROVE  /\ f = <<f[1], f[2]>> /\ f[1] \in course.recurring /\ f[2] \in Nat /\ f[2] <= now
         /\ f[2] \in DueAt(s, now, f[1])
         /\ \E job \in ComputeDueWork(s, now).jobs : job.key = Key(f[1], f[2])
<1>1. f \in course.recurring \X (0 .. MaxClock) /\ f[2] \in Firing(s, now, f[1])
  BY DEF ComputeDueWork
<1>2. f = <<f[1], f[2]>> /\ f[1] \in course.recurring /\ f[2] \in Nat
  BY <1>1
<1>3. f[2] \in DueAt(s, now, f[1])
  BY <1>1 DEF Firing
<1>4. f[2] <= now
  BY <1>3 DEF DueAt
<1> DEFINE job == Job("recurring", f[1], f[2], Recurring[f[1]].dept, Recurring[f[1]].who)
<1>5. job \in ComputeDueWork(s, now).jobs
  BY <1>1, <1>2 DEF ComputeDueWork, RecurringJobs
<1>6. job.key = Key(f[1], f[2])
  BY DEF Job, Key
<1> QED BY <1>2, <1>3, <1>4, <1>5, <1>6

-------------------------------------------------------------------------------
(* The steps of a tick.                                                          *)

LEMMA BeginKeeps ==
  ASSUME TickInv, LInv', NEW w \in Workers, Begin(w)
  PROVE  TickInv'
<1> DEFINE tick == [Idle EXCEPT !.phase = "campaigning", !.now = clock]
<1>1. /\ worker' = [worker EXCEPT ![w] = tick] /\ barred' = [barred EXCEPT ![w] = Barred]
      /\ UNCHANGED <<leaderVars, course, officeVars, queued>>
  BY DEF Begin
<1>2. PICK back \in SUBSET Orphans :
        queue' = [k \in DOMAIN queue |->
                    IF k \in back THEN [queue[k] EXCEPT !.state = "waiting"] ELSE queue[k]]
  BY DEF Begin
<1>3. clock \in Nat
  BY DEF TickInv, LInv, LeadersTypeOK
<1>4. Whole(tick) /\ tick.phase = "campaigning" /\ tick.now = clock
  BY DEF Idle, Whole, TickOf
<1> HIDE DEF tick
<1>5. WorkerShape' /\ worker'[w] = tick /\ \A v \in Workers \ {w} : worker'[v] = worker[v]
  BY <1>1, <1>4, WorkerGoesOn DEF TickInv
<1>6. TickFits(w)'
  BY <1>1, <1>3, <1>4, <1>5 DEF TickFits, Phases, leaderVars
<1>7. QueueFits'
  <2>1. DOMAIN queue' = DOMAIN queue /\ queue' = [k \in DOMAIN queue' |-> queue'[k]]
    BY <1>2
  <2>2. ASSUME NEW k \in DOMAIN queue PROVE k = <<k[1], k[2], k[3]>> /\ JobOfKey(k, queue'[k])
    <3>1. k = <<k[1], k[2], k[3]>> /\ JobOfKey(k, queue[k])
      BY DEF TickInv, QueueFits
    <3>2. queue'[k] = [queue[k] EXCEPT !.state = "waiting"] \/ queue'[k] = queue[k]
      BY <1>2
    <3> QED BY <3>1, <3>2 DEF JobOfKey
  <2> QED BY <2>1, <2>2 DEF QueueFits
<1>8. Counted' /\ DOMAIN queue' = DOMAIN queue
  BY <1>1, <1>2 DEF TickInv, Counted
<1>9. OfficeFits' /\ UNCHANGED <<clock, course, rows, running>>
  BY <1>1, OfficeKept DEF TickInv, officeVars, leaderVars
<1>10. BarredFits'
  <2>1. \A l : Overspent(l)' = Overspent(l)
    BY <1>9, SpendingKept
  <2>2. Barred \in [stopped : SUBSET Levels, overspent : SUBSET Levels]
    BY DEF Barred
  <2>3. Barred.stopped \cap running = {} /\ \A l \in Barred.overspent : Overspent(l)
    BY DEF Barred
  <2>4. /\ barred' \in [Workers -> [stopped : SUBSET Levels, overspent : SUBSET Levels]]
        /\ barred'[w] = Barred /\ \A v \in Workers \ {w} : barred'[v] = barred[v]
    BY <1>1, <2>2 DEF TickInv, BarredFits
  <2> QED BY <1>9, <2>1, <2>3, <2>4 DEF TickInv, BarredFits
<1>11. \A v \in Workers \ {w} : barred'[v] = barred[v]
  BY <1>1 DEF TickInv, BarredFits
<1>12. \A d \in course.recurring : Recorded(d, lastRun[d])'
  BY <1>1, <1>8 DEF TickInv, Recorded, officeVars
<1> QED BY <1>5, <1>6, <1>7, <1>8, <1>9, <1>10, <1>11, <1>12, OneWorkerSteps

LEMMA CampaignKeeps ==
  ASSUME TickInv, LInv', NEW w \in Workers, Campaign(w)
  PROVE  TickInv'
<1>1. UNCHANGED <<clock, course, officeVars, queue, queued, barred>>
  BY DEF Campaign, Ask, AcquireLock, Learn, leaderVars
<1>2. CASE UNCHANGED worker
  <2>1. QueueFits' /\ Counted' /\ OfficeFits' /\ BarredFits' /\ WorkerShape'
    BY <1>1, <1>2, QueueKept, OfficeKept, BarredKept DEF TickInv, officeVars, WorkerShape
  <2>2. \A d \in course.recurring : Recorded(d, lastRun[d])'
    BY <1>1 DEF TickInv, Recorded, officeVars
  <2>3. TickFits(w)'
    BY <1>1, <1>2, StaysFit DEF TickInv, LInv, LeadersTypeOK
  <2> QED BY <1>1, <1>2, <2>1, <2>2, <2>3, OneWorkerSteps DEF officeVars
<1>3. CASE \E phase \in {"reading", "working"} : Goes(w, phase)
  BY <1>1, <1>3, OneWorkerGoes DEF Phases
<1> QED BY <1>2, <1>3 DEF Campaign

LEMMA ReadOfficeKeeps ==
  ASSUME TickInv, LInv', NEW w \in Workers, ReadOffice(w)
  PROVE  TickInv'
<1>1. UNCHANGED <<clock, course, officeVars, queue, queued, barred>>
  BY DEF ReadOffice, leaderVars
<1>2. CASE Goes(w, "working")
  BY <1>1, <1>2, OneWorkerGoes DEF Phases
<1>3. CASE ~Goes(w, "working")
  <2> DEFINE read == [running |-> running, tasks |-> tasks, ready |-> ready, lastRun |-> lastRun]
             tick == [worker[w] EXCEPT !.phase = "pricing", !.read = read]
  <2>1. worker' = [worker EXCEPT ![w] = tick]
    BY <1>3 DEF ReadOffice
  <2>2. read.running = running /\ read.lastRun = lastRun
    OBVIOUS
  <2> HIDE DEF read
  <2>3. Whole(worker[w])
    BY DEF TickInv, WorkerShape
  <2>4. /\ Whole(tick) /\ tick.phase = "pricing" /\ tick.read = read
        /\ tick.now = worker[w].now
    BY <2>3 DEF Whole, TickOf
  <2> HIDE DEF tick
  <2>5. WorkerShape' /\ worker'[w] = tick /\ \A v \in Workers \ {w} : worker'[v] = worker[v]
    BY <2>1, <2>4, WorkerGoesOn DEF TickInv
  <2>6. QueueFits' /\ Counted' /\ OfficeFits' /\ BarredFits'
    BY <1>1, QueueKept, OfficeKept, BarredKept DEF TickInv, officeVars
  <2>7. \A d \in course.recurring : Recorded(d, lastRun[d])'
    BY <1>1 DEF TickInv, Recorded, officeVars
  <2>8. ReadFits(w)'
    <3>1. worker'[w].read.running \cap barred'[w].stopped = {}
      BY <1>1, <2>2, <2>4, <2>5 DEF TickInv, BarredFits
    <3>2. worker'[w].read.lastRun = lastRun /\ lastRun' = lastRun
      BY <1>1, <2>2, <2>4, <2>5 DEF officeVars
    <3> QED BY <1>1, <2>7, <3>1, <3>2 DEF ReadFits, TickInv, OfficeFits, Recorded
  <2>9. TickFits(w)'
    BY <1>1, <2>4, <2>5, <2>8 DEF TickInv, TickFits, Phases
  <2> QED BY <1>1, <2>5, <2>6, <2>7, <2>9, OneWorkerSteps DEF officeVars
<1> QED BY <1>2, <1>3

\* What the tick is told to queue: levels that were stopped when it began are not
\* read as running, and those overspent since then are so by the day's figures.
LEMMA ReadSpendKeeps ==
  ASSUME TickInv, LInv', NEW w \in Workers, ReadSpend(w)
  PROVE  TickInv'
<1> DEFINE read == worker[w].read
           now == worker[w].now
<1>1. PICK priced \in BOOLEAN :
        LET spent == IF priced THEN SpentToday ELSE [l \in Levels |-> 0]
            due == ComputeDueWork([running |-> read.running, tasks |-> read.tasks,
                                   ready |-> read.ready, lastRun |-> read.lastRun,
                                   spent |-> spent], now)
        IN  /\ worker' = [worker EXCEPT ![w] =
                            [Idle EXCEPT !.phase = "queueing", !.now = now,
                                         !.due = due.jobs, !.fired = due.fired]]
            /\ barred' = [barred EXCEPT ![w] =
                            IF priced THEN @ ELSE [@ EXCEPT !.overspent = {}]]
  BY DEF ReadSpend
<1> DEFINE spent == IF priced THEN SpentToday ELSE [l \in Levels |-> 0]
           s == [running |-> read.running, tasks |-> read.tasks, ready |-> read.ready,
                 lastRun |-> read.lastRun, spent |-> spent]
           due == ComputeDueWork(s, now)
           jobs == due.jobs
           fired == due.fired
           tick == [Idle EXCEPT !.phase = "queueing", !.now = now, !.due = jobs, !.fired = fired]
<1>2. /\ worker' = [worker EXCEPT ![w] = tick]
      /\ barred' = [barred EXCEPT ![w] = IF priced THEN barred[w]
                                        ELSE [barred[w] EXCEPT !.overspent = {}]]
  BY <1>1
<1>3. /\ worker[w].phase = "pricing"
      /\ UNCHANGED <<clock, course, officeVars, queue, queued>>
  BY DEF ReadSpend, leaderVars
<1>4. ReadFits(w) /\ now \in Nat /\ now <= clock /\ clock \in Nat /\ OfficeFits
  BY <1>3 DEF TickInv, TickFits, LInv, LeadersTypeOK
<1>5. s.running = read.running /\ s.lastRun = read.lastRun /\ s.spent = spent
  OBVIOUS
<1>6. spent = SpentToday \/ ~priced
  OBVIOUS
<1> HIDE DEF s, spent
<1>7. \A job \in jobs : JobFits(job) /\ \A l \in job.levels : Shut(s, now, l) = "open"
  BY <1>4, DueJobsFit
<1>8. \A f \in fired :
        /\ f = <<f[1], f[2]>> /\ f[1] \in course.recurring /\ f[2] \in Nat /\ f[2] <= now
        /\ f[2] \in DueAt(s, now, f[1])
        /\ \E job \in jobs : job.key = Key(f[1], f[2])
  BY <1>4, FiredIsDue
<1> HIDE DEF jobs, fired
<1>9. Whole(tick) /\ tick.phase = "queueing" /\ tick.now = now /\ tick.due = jobs /\ tick.fired = fired
  <2> DEFINE one == [Idle EXCEPT !.phase = "queueing", !.now = now]
             two == [one EXCEPT !.due = jobs]
  <2>1. one \in TickOf("queueing", now, NoRead, {}, {}, << >>)
    BY DEF Idle, TickOf
  <2>2. two \in TickOf("queueing", now, NoRead, jobs, {}, << >>)
    <3> HIDE DEF one
    <3> QED BY <2>1 DEF TickOf
  <2>3. tick = [two EXCEPT !.fired = fired]
    OBVIOUS
  <2> HIDE DEF one, two, tick
  <2>4. tick \in TickOf("queueing", now, NoRead, jobs, fired, << >>)
    BY <2>2, <2>3 DEF TickOf
  <2> QED BY <2>4 DEF Whole, TickOf
<1> HIDE DEF tick
<1>10. WorkerShape' /\ worker'[w] = tick /\ \A v \in Workers \ {w} : worker'[v] = worker[v]
  BY <1>2, <1>9, WorkerGoesOn DEF TickInv
<1>11. /\ barred' \in [Workers -> [stopped : SUBSET Levels, overspent : SUBSET Levels]]
       /\ barred'[w].stopped = barred[w].stopped
       /\ barred'[w].overspent \subseteq barred[w].overspent
       /\ barred'[w].overspent # {} => priced
       /\ \A v \in Workers \ {w} : barred'[v] = barred[v]
  <2>1. /\ DOMAIN barred = Workers
        /\ \A v \in Workers : barred[v] \in [stopped : SUBSET Levels, overspent : SUBSET Levels]
    BY DEF TickInv, BarredFits
  <2>2. CASE priced
    <3>1. barred' = [barred EXCEPT ![w] = barred[w]]
      BY <1>2, <2>2
    <3> QED BY <2>1, <2>2, <3>1 DEF TickInv, BarredFits
  <2>3. CASE ~priced
    <3> DEFINE new == [barred[w] EXCEPT !.overspent = {}]
    <3>1. /\ new \in [stopped : SUBSET Levels, overspent : SUBSET Levels]
          /\ new.stopped = barred[w].stopped /\ new.overspent = {}
      BY <2>1
    <3>2. barred' = [barred EXCEPT ![w] = new]
      BY <1>2, <2>3
    <3> HIDE DEF new
    <3> QED BY <2>1, <3>1, <3>2 DEF TickInv, BarredFits
  <2> QED BY <2>2, <2>3
<1>12. BarredFits'
  <2>1. \A l : Overspent(l)' = Overspent(l)
    BY <1>3, SpendingKept DEF officeVars
  <2> QED BY <1>3, <1>11, <2>1 DEF TickInv, BarredFits, officeVars
<1>13. InGoodFaith(w)'
  <2> SUFFICES ASSUME NEW job \in jobs, NEW l \in job.levels
               PROVE  l \notin barred'[w].stopped /\ (DayBudgets => l \notin barred'[w].overspent)
    BY <1>7, <1>9, <1>10 DEF InGoodFaith, JobFits
  <2>1. l \in read.running /\ ~Over(l, spent[l])
    BY <1>5, <1>7 DEF Shut
  <2>2. l \notin barred'[w].stopped
    BY <1>4, <1>11, <2>1 DEF ReadFits
  <2>3. ASSUME DayBudgets, l \in barred'[w].overspent PROVE FALSE
    <3>1. l \in Levels /\ Overspent(l) /\ spent = SpentToday
      BY <1>6, <1>11, <2>3 DEF TickInv, BarredFits
    <3>2. spent[l] = Spent(l, "day", rows)
      BY <3>1 DEF SpentToday
    <3>3. Over(l, Spent(l, "day", rows))
      BY <2>3, <3>1 DEF Overspent, DayBudgets
    <3> QED BY <2>1, <3>2, <3>3
  <2> QED BY <2>2, <2>3
<1>14. FiredFit(w)'
  <2> SUFFICES ASSUME NEW f \in fired
               PROVE  /\ f = <<f[1], f[2]>> /\ f[1] \in course.recurring /\ f[2] \in 0 .. clock
                      /\ Recurring[f[1]].last # Never =>
                           \A o \in Recurring[f[1]].at :
                             Recurring[f[1]].last < o /\ o < f[2] => Key(f[1], o) \in DOMAIN queue
                      /\ \E job \in jobs : job.key = Key(f[1], f[2])
                      /\ \A g \in fired : g[1] = f[1] => g[2] = f[2]
    BY <1>3, <1>9, <1>10 DEF FiredFit
  <2> DEFINE d == f[1]
             ahead == {o \in Recurring[d].at : o > Since(s, now, d)}
  <2>1. /\ f = <<f[1], f[2]>> /\ d \in course.recurring /\ f[2] \in 0 .. clock
        /\ \E job \in jobs : job.key = Key(d, f[2])
    BY <1>4, <1>8
  <2>2. f[2] \in ahead /\ \A o \in ahead : f[2] <= o
    BY <1>8 DEF DueAt
  <2>3. Recurring[d].at \subseteq Nat
    BY <1>4, <2>1, CourseTypes DEF Definition
  <2>4. ASSUME Recurring[d].last # Never, NEW o \in Recurring[d].at, Recurring[d].last < o, o < f[2]
        PROVE  Key(d, o) \in DOMAIN queue
    <3>1. /\ Recorded(d, read.lastRun[d]) /\ read.lastRun[d] \in Int
      BY <1>4, <2>1 DEF ReadFits
    <3>2. read.lastRun[d] # Never
      BY <2>4, <3>1 DEF Recorded
    <3>3. Since(s, now, d) = read.lastRun[d]
      BY <1>5, <3>2 DEF Since
    <3>4. o \notin ahead
      BY <2>2, <2>3, <2>4
    <3>5. o <= read.lastRun[d]
      BY <2>3, <3>1, <3>3, <3>4
    <3> QED BY <2>4, <3>1, <3>5 DEF Recorded
  <2>5. ASSUME NEW g \in fired, g[1] = f[1] PROVE g[2] = f[2]
    <3>1. g[2] \in ahead /\ \A o \in ahead : g[2] <= o
      BY <1>8, <2>5 DEF DueAt
    <3> QED BY <2>2, <2>3, <3>1
  <2> QED BY <2>1, <2>4, <2>5
<1>15. TickFits(w)'
  BY <1>3, <1>4, <1>9, <1>10, <1>13, <1>14 DEF TickFits, Phases
<1>16. QueueFits' /\ Counted' /\ OfficeFits'
  BY <1>3, QueueKept, OfficeKept DEF TickInv, officeVars
<1>17. \A d \in course.recurring : Recorded(d, lastRun[d])'
  BY <1>3 DEF TickInv, Recorded, officeVars
<1> QED BY <1>3, <1>10, <1>11, <1>12, <1>15, <1>16, <1>17, OneWorkerSteps DEF officeVars

\* What is due is put into the queue unless its key is known.
LEMMA EnqueueKeeps ==
  ASSUME TickInv, LInv', NEW w \in Workers, Enqueue(w)
  PROVE  TickInv'
<1>1. /\ worker[w].phase = "queueing"
      /\ UNCHANGED <<clock, course, officeVars, barred>>
  BY DEF Enqueue, leaderVars
<1>2. PICK job \in worker[w].due :
        /\ IF Known(job.key) THEN UNCHANGED <<queue, queued>>
           ELSE /\ queue' = Put(queue, job.key,
                               [who |-> job.who, about |-> job.about, state |-> "waiting",
                                at |-> clock, by |-> Nobody])
                /\ queued' = Put(queued, job.key, Times(job.key) + 1)
        /\ worker' = [worker EXCEPT ![w] = [@ EXCEPT !.due = worker[w].due \ {job}]]
  BY DEF Enqueue
<1> DEFINE rest == worker[w].due \ {job}
           tick == [worker[w] EXCEPT !.due = rest]
           new == [who |-> job.who, about |-> job.about, state |-> "waiting",
                   at |-> clock, by |-> Nobody]
<1>3. InGoodFaith(w) /\ FiredFit(w) /\ JobFits(job) /\ clock \in Nat
  BY <1>1, <1>2 DEF TickInv, TickFits, InGoodFaith, LInv, LeadersTypeOK
<1>4. /\ Whole(tick) /\ tick.phase = "queueing" /\ tick.now = worker[w].now
      /\ tick.due = rest /\ tick.fired = worker[w].fired
  BY <1>1 DEF TickInv, WorkerShape, Whole, TickOf
<1>5. worker' = [worker EXCEPT ![w] = tick]
  BY <1>2
<1> HIDE DEF tick
<1>6. WorkerShape' /\ worker'[w] = tick /\ \A v \in Workers \ {w} : worker'[v] = worker[v]
  BY <1>4, <1>5, WorkerGoesOn DEF TickInv
<1>7. /\ QueueFits' /\ Counted' /\ DOMAIN queue' = DOMAIN queue \cup {job.key}
  <2>1. CASE Known(job.key)
    <3>1. UNCHANGED <<queue, queued>> /\ job.key \in DOMAIN queue
      BY <1>2, <2>1 DEF Known
    <3> QED BY <3>1, QueueKept DEF TickInv
  <2>2. CASE ~Known(job.key)
    <3>1. queue' = Put(queue, job.key, new) /\ queued' = Put(queued, job.key, Times(job.key) + 1)
      BY <1>2, <2>2
    <3>2. job.key = <<job.key[1], job.key[2], job.key[3]>> /\ job.about = <<job.key[2], job.key[3]>>
      BY <1>3 DEF JobFits
    <3>3. JobOfKey(job.key, new)
      BY <1>3, <3>2 DEF JobFits, JobOfKey
    <3> HIDE DEF new
    <3>5. /\ queue' = [k \in DOMAIN queue \cup {job.key} |-> IF k = job.key THEN new ELSE queue[k]]
          /\ queued' = [k \in DOMAIN queued \cup {job.key} |->
                         IF k = job.key THEN Times(job.key) + 1 ELSE queued[k]]
      BY <3>1 DEF Put
    <3>6. QueueFits'
      <4>1. queue' = [k \in DOMAIN queue' |-> queue'[k]]
        BY <3>5
      <4>2. ASSUME NEW k \in DOMAIN queue' PROVE k = <<k[1], k[2], k[3]>> /\ JobOfKey(k, queue'[k])
        <5>1. CASE k = job.key
          <6>1. queue'[k] = new
            BY <3>5, <5>1
          <6> QED BY <3>2, <3>3, <5>1, <6>1
        <5>2. CASE k # job.key
          <6>1. k \in DOMAIN queue /\ queue'[k] = queue[k]
            BY <3>5, <5>2
          <6> QED BY <6>1 DEF TickInv, QueueFits
        <5> QED BY <5>1, <5>2
      <4> QED BY <4>1, <4>2 DEF QueueFits, JobOfKey
    <3> QED BY <3>5, <3>6 DEF TickInv, Counted
  <2> QED BY <2>1, <2>2
<1>8. OfficeFits' /\ BarredFits'
  BY <1>1, OfficeKept, BarredKept DEF TickInv, officeVars
<1>9. \A d \in course.recurring : Recorded(d, lastRun[d])'
  BY <1>1, <1>7 DEF TickInv, Recorded, officeVars
<1>10. InGoodFaith(w)'
  BY <1>1, <1>3, <1>4, <1>6 DEF InGoodFaith, JobFits
<1>11. FiredFit(w)'
  <2> SUFFICES ASSUME NEW f \in worker[w].fired
               PROVE  /\ f = <<f[1], f[2]>> /\ f[1] \in course.recurring /\ f[2] \in 0 .. clock
                      /\ Recurring[f[1]].last # Never =>
                           \A o \in Recurring[f[1]].at :
                             Recurring[f[1]].last < o /\ o < f[2] => Key(f[1], o) \in DOMAIN queue'
                      /\ Key(f[1], f[2]) \in DOMAIN queue' \/ \E j \in rest : j.key = Key(f[1], f[2])
                      /\ \A g \in worker[w].fired : g[1] = f[1] => g[2] = f[2]
    BY <1>1, <1>4, <1>6 DEF FiredFit
  <2> QED BY <1>3, <1>7 DEF FiredFit
<1>12. TickFits(w)'
  BY <1>1, <1>4, <1>6, <1>10, <1>11 DEF TickInv, TickFits
<1> QED BY <1>1, <1>6, <1>7, <1>8, <1>9, <1>12, OneWorkerSteps DEF officeVars

\* The one occurrence of a definition that fired is recorded: all of them up to
\* it have been queued by then.
LEMMA RecordKeeps ==
  ASSUME TickInv, LInv', NEW w \in Workers, Record(w)
  PROVE  TickInv'
<1>1. /\ worker[w].phase = "queueing" /\ worker[w].due = {}
      /\ UNCHANGED <<clock, course, running, tasks, ready, rows, queue, queued, barred>>
  BY DEF Record, leaderVars
<1>2. FiredFit(w) /\ clock \in Nat /\ clock <= MaxClock /\ MaxClock \in Nat
  BY <1>1, TickConstants DEF TickInv, TickFits, OfficeFits, LInv, LeadersTypeOK
<1> DEFINE fired(d) == {o \in 0 .. MaxClock : <<d, o>> \in worker[w].fired}
<1>3. lastRun' = [d \in course.recurring |-> IF fired(d) = {} THEN lastRun[d] ELSE Max(fired(d))]
  BY DEF Record, TickInv, OfficeFits
<1>4. ASSUME NEW d \in course.recurring
      PROVE  /\ lastRun'[d] \in -1 .. clock
             /\ Recorded(d, lastRun'[d])
  <2>1. lastRun[d] \in -1 .. clock /\ Recorded(d, lastRun[d])
    BY DEF TickInv, OfficeFits
  <2>2. CASE fired(d) = {}
    BY <1>3, <2>1, <2>2
  <2>3. CASE fired(d) # {}
    <3>1. PICK o : o \in fired(d)
      BY <2>3
    <3>2. o \in 0 .. MaxClock /\ <<d, o>> \in worker[w].fired
      BY <3>1
    <3>3. fired(d) = {o}
      <4> SUFFICES ASSUME NEW g \in fired(d) PROVE g = o
        BY <3>1
      <4>1. <<d, g>> \in worker[w].fired
        OBVIOUS
      <4> QED BY <1>2, <3>2, <4>1 DEF FiredFit
    <3>4. Max(fired(d)) = o
      <4>1. Max({o}) = o
        BY <3>2 DEF Max
      <4> QED BY <3>3, <4>1
    <3>5. /\ o \in 0 .. clock /\ Key(d, o) \in DOMAIN queue
          /\ Recurring[d].last # Never =>
               \A x \in Recurring[d].at : Recurring[d].last < x /\ x < o => Key(d, x) \in DOMAIN queue
      BY <1>1, <1>2, <3>2 DEF FiredFit
    <3>6. Recurring[d].at \subseteq Nat
      BY CourseTypes DEF TickInv, Definition
    <3>7. Recorded(d, o)
      BY <3>5, <3>6 DEF Recorded, Never
    <3>8. lastRun'[d] = o
      BY <1>3, <2>3, <3>4
    <3> QED BY <1>2, <3>5, <3>7, <3>8
  <2> QED BY <2>2, <2>3
<1>5. lastRun' \in [course.recurring -> -1 .. clock]
  <2> HIDE DEF fired
  <2> QED BY <1>3, <1>4
<1>6. \A d \in course.recurring : Recorded(d, lastRun[d])'
  BY <1>1, <1>4 DEF Recorded
<1>7. OfficeFits'
  BY <1>1, <1>5 DEF TickInv, OfficeFits
<1>8. QueueFits' /\ Counted' /\ BarredFits'
  BY <1>1, QueueKept, BarredKept DEF TickInv
<1> DEFINE one == [worker[w] EXCEPT !.phase = "working"]
           tick == [one EXCEPT !.fired = {}]
<1>9. Whole(tick) /\ tick.phase = "working" /\ tick.now = worker[w].now
  <2>1. one \in TickOf("working", worker[w].now, worker[w].read, worker[w].due, worker[w].fired,
                       worker[w].job)
    BY DEF TickInv, WorkerShape, Whole, TickOf
  <2> HIDE DEF one
  <2>2. tick \in TickOf("working", worker[w].now, worker[w].read, worker[w].due, {}, worker[w].job)
    BY <2>1 DEF TickOf
  <2> QED BY <2>2 DEF Whole, TickOf
<1>10. worker' = [worker EXCEPT ![w] = tick]
  BY DEF Record
<1> HIDE DEF tick
<1>11. WorkerShape' /\ worker'[w] = tick /\ \A v \in Workers \ {w} : worker'[v] = worker[v]
  BY <1>9, <1>10, WorkerGoesOn DEF TickInv
<1>12. TickFits(w)'
  BY <1>1, <1>9, <1>11 DEF TickInv, TickFits, Phases
<1> QED BY <1>1, <1>6, <1>7, <1>8, <1>11, <1>12, OneWorkerSteps

LEMMA ClaimKeeps ==
  ASSUME TickInv, LInv', NEW w \in Workers, Claim(w)
  PROVE  TickInv'
<1>1. worker[w].phase = "working" /\ UNCHANGED <<clock, course, officeVars, queued, barred>>
  BY DEF Claim, leaderVars
<1>2. CASE Goes(w, "idle") /\ UNCHANGED queue
  BY <1>1, <1>2, OneWorkerGoes DEF Phases
<1>3. CASE ~(Goes(w, "idle") /\ UNCHANGED queue)
  <2>1. PICK k \in DOMAIN queue :
          /\ queue' = [queue EXCEPT ![k] = [@ EXCEPT !.state = "taken", !.by = w]]
          /\ worker' = [worker EXCEPT ![w] = [@ EXCEPT !.phase = "handling", !.job = k]]
    BY <1>3 DEF Claim
  <2> DEFINE half == [worker[w] EXCEPT !.phase = "handling"]
             tick == [half EXCEPT !.job = k]
             took == [queue[k] EXCEPT !.state = "taken"]
             new == [took EXCEPT !.by = w]
  <2>2. Whole(tick) /\ tick.phase = "handling" /\ tick.now = worker[w].now
    <3>1. half \in TickOf("handling", worker[w].now, worker[w].read, worker[w].due, worker[w].fired,
                          worker[w].job)
      BY DEF TickInv, WorkerShape, Whole, TickOf
    <3> HIDE DEF half
    <3>2. tick \in TickOf("handling", worker[w].now, worker[w].read, worker[w].due, worker[w].fired, k)
      BY <3>1 DEF TickOf
    <3> QED BY <3>2 DEF Whole, TickOf
  <2>3. JobOfKey(k, new)
    <3>1. JobOfKey(k, took)
      BY DEF TickInv, QueueFits, JobOfKey
    <3> HIDE DEF took
    <3> QED BY <3>1 DEF JobOfKey
  <2>4. worker' = [worker EXCEPT ![w] = tick] /\ queue' = [queue EXCEPT ![k] = new]
    BY <2>1
  <2> HIDE DEF tick, new
  <2>5. WorkerShape' /\ worker'[w] = tick /\ \A v \in Workers \ {w} : worker'[v] = worker[v]
    BY <2>2, <2>4, WorkerGoesOn DEF TickInv
  <2>6. QueueFits' /\ Counted' /\ DOMAIN queue' = DOMAIN queue
    BY <1>1, <2>3, <2>4, JobReplaced DEF TickInv
  <2>7. TickFits(w)'
    BY <1>1, <2>2, <2>5 DEF TickInv, TickFits, Phases
  <2>8. OfficeFits' /\ BarredFits'
    BY <1>1, OfficeKept, BarredKept DEF TickInv, officeVars
  <2>9. \A d \in course.recurring : Recorded(d, lastRun[d])'
    BY <1>1, <2>6 DEF TickInv, Recorded, officeVars
  <2> QED BY <1>1, <2>5, <2>6, <2>7, <2>8, <2>9, OneWorkerSteps DEF officeVars
<1> QED BY <1>2, <1>3

\* A turn taken moves its task, or decides its contest, or neither.
LEMMA HandledTypes ==
  ASSUME OfficeFits, NEW kind, NEW of, Handled(kind, of) \/ UNCHANGED <<tasks, ready>>
  PROVE  /\ tasks' \in [course.tasks -> [status : {"in_progress", "in_review", "done"}, revision : Nat]]
         /\ ready' \subseteq course.contests
<1>1. CASE UNCHANGED <<tasks, ready>>
  BY <1>1 DEF OfficeFits
<1>2. CASE Moved(of)
  <2>1. PICK s \in {"done", "in_progress", "in_review"} :
          /\ tasks' = [tasks EXCEPT ![of] = [status |-> s, revision |-> tasks[of].revision + 1]]
          /\ ready' = ready
    BY <1>2 DEF Moved
  <2>2. CASE of \in course.tasks
    BY <2>1, <2>2 DEF OfficeFits
  <2>3. CASE of \notin course.tasks
    BY <2>1, <2>3 DEF OfficeFits
  <2> QED BY <2>2, <2>3
<1>3. CASE ready' = ready \ {of} /\ UNCHANGED tasks
  BY <1>3 DEF OfficeFits
<1> QED BY <1>1, <1>2, <1>3 DEF Handled

LEMMA FinishKeeps ==
  ASSUME TickInv, LInv', NEW w \in Workers, Finish(w)
  PROVE  TickInv'
<1> DEFINE k == worker[w].job
           about == queue[k].about
           kept == [queue[k] EXCEPT !.state = "done"]
           timed == [kept EXCEPT !.at = clock]
           new == [timed EXCEPT !.by = Nobody]
<1>1. /\ worker[w].phase = "handling"
      /\ UNCHANGED <<clock, course, running, rows, lastRun, queued, barred>>
  BY DEF Finish, leaderVars
<1>2. clock \in Nat
  BY DEF TickInv, LInv, LeadersTypeOK
<1>3. /\ Handled(k[1], about[1]) \/ UNCHANGED <<tasks, ready>>
      /\ queue' = [queue EXCEPT ![k] = new]
  BY DEF Finish
<1>4. PICK phase \in {"working", "idle"} :
        worker' = [worker EXCEPT ![w] = [@ EXCEPT !.phase = phase, !.job = << >>]]
  BY DEF Finish
<1>5. OfficeFits'
  BY <1>1, <1>3, HandledTypes DEF TickInv, OfficeFits
<1>6. k \in DOMAIN queue => JobOfKey(k, new)
  <2> SUFFICES ASSUME k \in DOMAIN queue PROVE JobOfKey(k, new)
    OBVIOUS
  <2>1. JobOfKey(k, kept)
    BY DEF TickInv, QueueFits, JobOfKey
  <2> HIDE DEF kept
  <2>2. JobOfKey(k, timed)
    BY <1>2, <2>1 DEF JobOfKey
  <2> HIDE DEF timed
  <2> QED BY <2>2 DEF JobOfKey
<1> HIDE DEF new
<1>7. QueueFits' /\ Counted' /\ DOMAIN queue' = DOMAIN queue
  BY <1>1, <1>3, <1>6, JobReplaced DEF TickInv
<1> DEFINE half == [worker[w] EXCEPT !.phase = phase]
           tick == [half EXCEPT !.job = << >>]
<1>8. Whole(tick) /\ tick.phase = phase /\ tick.now = worker[w].now
  <2>1. half \in TickOf(phase, worker[w].now, worker[w].read, worker[w].due, worker[w].fired,
                        worker[w].job)
    BY DEF TickInv, WorkerShape, Whole, TickOf
  <2> HIDE DEF half
  <2>2. tick \in TickOf(phase, worker[w].now, worker[w].read, worker[w].due, worker[w].fired, << >>)
    BY <2>1 DEF TickOf
  <2> QED BY <2>2 DEF Whole, TickOf
<1>9. worker' = [worker EXCEPT ![w] = tick]
  BY <1>4
<1> HIDE DEF tick
<1>10. WorkerShape' /\ worker'[w] = tick /\ \A v \in Workers \ {w} : worker'[v] = worker[v]
  BY <1>8, <1>9, WorkerGoesOn DEF TickInv
<1>11. TickFits(w)'
  BY <1>1, <1>8, <1>10 DEF TickInv, TickFits, Phases
<1>12. BarredFits'
  BY <1>1, BarredKept DEF TickInv
<1>13. \A d \in course.recurring : Recorded(d, lastRun[d])'
  BY <1>1, <1>7 DEF TickInv, Recorded
<1> QED BY <1>1, <1>5, <1>7, <1>10, <1>11, <1>12, <1>13, OneWorkerSteps

LEMMA CrashKeeps ==
  ASSUME TickInv, LInv', NEW w \in Workers, Crash(w)
  PROVE  TickInv'
<1> DEFINE tick == [Idle EXCEPT !.phase = "gone"]
<1>1. /\ worker' = [worker EXCEPT ![w] = tick]
      /\ UNCHANGED <<clock, course, officeVars, queue, queued, barred>>
  BY DEF Crash, Die
<1>2. Whole(tick) /\ tick.phase = "gone" /\ tick.now = 0
  BY DEF Idle, Whole, TickOf
<1> HIDE DEF tick
<1>3. WorkerShape' /\ worker'[w] = tick /\ \A v \in Workers \ {w} : worker'[v] = worker[v]
  BY <1>1, <1>2, WorkerGoesOn DEF TickInv
<1>4. TickFits(w)'
  BY <1>1, <1>2, <1>3 DEF TickInv, TickFits, Phases, LInv, LeadersTypeOK
<1>5. QueueFits' /\ Counted' /\ OfficeFits' /\ BarredFits'
  BY <1>1, QueueKept, OfficeKept, BarredKept DEF TickInv, officeVars
<1>6. \A d \in course.recurring : Recorded(d, lastRun[d])'
  BY <1>1 DEF TickInv, Recorded, officeVars
<1> QED BY <1>1, <1>3, <1>4, <1>5, <1>6, OneWorkerSteps DEF officeVars

-------------------------------------------------------------------------------
(* The office's steps.                                                           *)

\* Whatever the office does meanwhile, the levels barred since a tick began are
\* those that still are.
LEMMA OfficeMoves ==
  ASSUME TickInv, LInv', clock' >= clock, clock' <= MaxClock, running' \subseteq Levels, EverSince,
         UNCHANGED <<course, tasks, ready, lastRun, worker, queue, queued>>
  PROVE  TickInv'
<1>1. clock \in Nat /\ clock' \in Nat
  BY DEF TickInv, LInv, LeadersTypeOK
<1>2. \A w \in Workers :
        /\ barred[w].stopped \subseteq Levels /\ barred[w].overspent \subseteq Levels
        /\ barred'[w] = [stopped |-> barred[w].stopped \ running',
                         overspent |-> {l \in barred[w].overspent : Overspent(l)'}]
  BY DEF TickInv, BarredFits, EverSince
<1>3. \A w \in Workers : /\ barred'[w].stopped = barred[w].stopped \ running'
                         /\ barred'[w].overspent = {l \in barred[w].overspent : Overspent(l)'}
                         /\ barred'[w] \in [stopped : SUBSET Levels, overspent : SUBSET Levels]
  <2> SUFFICES ASSUME NEW w \in Workers
               PROVE  /\ barred'[w].stopped = barred[w].stopped \ running'
                      /\ barred'[w].overspent = {l \in barred[w].overspent : Overspent(l)'}
                      /\ barred'[w] \in [stopped : SUBSET Levels, overspent : SUBSET Levels]
    OBVIOUS
  <2> DEFINE over == {l \in barred[w].overspent : Overspent(l)'}
  <2>1. over \subseteq Levels /\ barred[w].stopped \subseteq Levels
        /\ barred'[w] = [stopped |-> barred[w].stopped \ running', overspent |-> over]
    BY <1>2
  <2> HIDE DEF over
  <2>2. /\ barred'[w].stopped = barred[w].stopped \ running' /\ barred'[w].overspent = over
        /\ barred'[w] \in [stopped : SUBSET Levels, overspent : SUBSET Levels]
    BY <2>1
  <2> QED BY <2>2 DEF over
<1>4. BarredFits'
  <2>1. barred' \in [Workers -> [stopped : SUBSET Levels, overspent : SUBSET Levels]]
    BY <1>3 DEF EverSince
  <2>2. \A w \in Workers : \A l \in barred'[w].overspent : Overspent(l)'
    BY <1>3
  <2>3. \A w \in Workers : barred'[w].stopped \cap running' = {}
    BY <1>3
  <2> QED BY <2>1, <2>2, <2>3 DEF BarredFits
<1>5. ASSUME NEW w \in Workers PROVE TickFits(w)'
  BY <1>1, <1>3, StaysFit DEF TickInv
<1>6. QueueFits' /\ Counted' /\ WorkerShape'
  BY QueueKept DEF TickInv, WorkerShape
<1>7. OfficeFits'
  <2>1. lastRun \in [course.recurring -> -1 .. clock']
    BY <1>1 DEF TickInv, OfficeFits
  <2> QED BY <2>1 DEF TickInv, OfficeFits
<1>8. \A d \in course.recurring : Recorded(d, lastRun[d])'
  BY DEF TickInv, Recorded
<1> QED BY <1>4, <1>5, <1>6, <1>7, <1>8 DEF TickInv

\* Filing a call and warning about it are nothing to a tick.
LEMMA OthersMove ==
  ASSUME TickInv, LInv',
         UNCHANGED <<clock, course, running, rows, tasks, ready, lastRun, worker, queue, queued, barred>>
  PROVE  TickInv'
<1>1. QueueFits' /\ Counted' /\ OfficeFits' /\ BarredFits' /\ WorkerShape'
  BY QueueKept, OfficeKept, BarredKept DEF TickInv, WorkerShape
<1>2. \A d \in course.recurring : Recorded(d, lastRun[d])'
  BY DEF TickInv, Recorded
<1>3. ASSUME NEW w \in Workers PROVE TickFits(w)'
  BY StaysFit DEF TickInv, LInv, LeadersTypeOK
<1> QED BY <1>1, <1>2, <1>3 DEF TickInv

-------------------------------------------------------------------------------
(* All of them.                                                                  *)

LEMMA TicksStart == Init => TickInv
<1> SUFFICES ASSUME Init PROVE TickInv
  OBVIOUS
<1>1. LInv /\ clock = 0
  BY LeadersStart DEF Init, LeadersInit
<1>2. ASSUME NEW w \in Workers
      PROVE  worker[w].phase \in {"idle", "gone"} /\ worker[w].now = 0 /\ Whole(worker[w])
  BY <1>2 DEF Init, Idle, Whole, TickOf
<1>3. WorkerShape
  BY <1>2 DEF WorkerShape, Init
<1>4. \A w \in Workers : TickFits(w)
  BY <1>1, <1>2 DEF TickFits, Phases
<1>5. QueueFits /\ Counted
  BY DEF Init, QueueFits, Counted
<1>6. BarredFits
  BY DEF Init, BarredFits
<1>7. OfficeFits
  <2>1. course \in Courses /\ running \subseteq Levels /\ ready \subseteq course.contests
    BY DEF Init
  <2>2. tasks \in [course.tasks -> [status : {"in_progress", "in_review", "done"}, revision : Nat]]
    BY DEF Init
  <2>3. course \in Course
    BY <2>1, TickConstants
  <2>4. \A d \in course.recurring : Recurring[d] \in Definition
    BY <2>3, TickConstants DEF Course
  <2>5. lastRun \in [course.recurring -> -1 .. clock]
    BY <1>1, <2>4 DEF Init, Definition, Never
  <2> QED BY <1>1, <2>1, <2>2, <2>5, TickConstants DEF OfficeFits
<1>8. \A d \in course.recurring : Recorded(d, lastRun[d])
  <2> SUFFICES ASSUME NEW d \in course.recurring PROVE Recorded(d, lastRun[d])
    OBVIOUS
  <2>1. Recurring[d].at \subseteq Nat /\ Recurring[d].last \in {Never, 0}
    BY <1>7, CourseTypes DEF Definition
  <2>2. lastRun[d] = Recurring[d].last
    BY DEF Init
  <2> QED BY <2>1, <2>2 DEF Recorded, Never
<1> QED BY <1>1, <1>3, <1>4, <1>5, <1>6, <1>7, <1>8 DEF TickInv

LEMMA TicksStep ==
  ASSUME TickInv, [Next]_vars
  PROVE  TickInv'
<1>1. LInv'
  BY TicksCampaign, LeadersStep DEF TickInv
<1>2. ASSUME NEW w \in Workers, Tick(w) PROVE TickInv'
  BY <1>1, <1>2, BeginKeeps, CampaignKeeps, ReadOfficeKeeps, ReadSpendKeeps, EnqueueKeeps, RecordKeeps,
     ClaimKeeps, FinishKeeps DEF Tick
<1>3. ASSUME NEW w \in Workers, Stop(w) PROVE TickInv'
  <2>1. Goes(w, "gone") /\ UNCHANGED <<clock, course, officeVars, queue, queued, barred>>
    BY <1>3 DEF Stop, Resign
  <2> QED BY <1>1, <2>1, OneWorkerGoes DEF Phases
<1>4. ASSUME NEW w \in Workers, Crash(w) PROVE TickInv'
  BY <1>1, <1>4, CrashKeeps
<1>5. clock \in Nat /\ clock <= MaxClock /\ running \subseteq Levels /\ MaxClock \in Nat
  BY TickConstants DEF TickInv, LInv, LeadersTypeOK, OfficeFits
<1>6. CASE Turn
  <2>1. course.until \in 0 .. MaxClock
    BY TickConstants DEF TickInv, OfficeFits, Course
  <2>2. clock' = clock + 1 /\ clock < course.until /\ EverSince
        /\ UNCHANGED <<course, running, tasks, ready, lastRun, worker, queue, queued>>
    BY <1>6 DEF Turn, TimePasses
  <2> QED BY <1>1, <1>5, <2>1, <2>2, OfficeMoves
<1>7. ASSUME NEW l \in Levels, Switch(l) PROVE TickInv'
  <2>1. /\ clock' = clock /\ EverSince /\ running' \subseteq Levels
        /\ UNCHANGED <<course, tasks, ready, lastRun, worker, queue, queued>>
    BY <1>5, <1>7 DEF Switch, leaderVars
  <2> QED BY <1>1, <1>5, <2>1, OfficeMoves
<1>8. ASSUME NEW c \in calls, Store(c) PROVE TickInv'
  <2>1. /\ clock' = clock /\ EverSince /\ running' = running
        /\ UNCHANGED <<course, tasks, ready, lastRun, worker, queue, queued>>
    BY <1>8 DEF Store, leaderVars
  <2> QED BY <1>1, <1>5, <2>1, OfficeMoves
<1>9. ASSUME NEW c \in calls, Warn(c) PROVE TickInv'
  BY <1>1, <1>9, OthersMove DEF Warn, leaderVars
<1>10. ASSUME NEW p \in People, File(p) PROVE TickInv'
  BY <1>1, <1>10, OthersMove DEF File, leaderVars
<1>11. CASE UNCHANGED vars
  BY <1>1, <1>11, OthersMove DEF vars
<1> QED BY <1>2, <1>3, <1>4, <1>6, <1>7, <1>8, <1>9, <1>10, <1>11 DEF Next

\* The parts of a worker's tick, of the office and of the queue are what they
\* should be, whatever happens between them.
THEOREM TicksTypeCorrect == Spec => []TypeOK
BY TicksStart, TicksStep, InvMeansTypes, PTL DEF Spec

\* Nothing recorded as past was never queued: whoever leads, stalls or dies, no
\* occurrence of work that ran before is passed over (worker.ts:73-82,
\* scheduler.ts:470-514).
NonePassedOver == \A d \in course.recurring : Recorded(d, lastRun[d])

THEOREM NoOccurrenceIsPassedOver == Spec => []NonePassedOver
<1>1. TickInv => NonePassedOver
  BY DEF TickInv, NonePassedOver
<1> QED BY <1>1, TicksStart, TicksStep, PTL DEF Spec

\* Nothing is queued that belongs to a level which was stopped, or over its
\* budget for the day, ever since the tick began (scheduler.ts:212-257).
THEOREM QueuesInGoodFaith == ASSUME DayBudgets PROVE Spec => QueuedInGoodFaith
<1> DEFINE Faith == \A w \in Workers : \A job \in worker[w].due \ worker'[w].due :
                      worker[w].phase = "queueing" /\ queue' # queue =>
                        job.levels \cap (barred[w].stopped \cup barred[w].overspent) = {}
<1>1. TickInv => Faith
  BY DEF TickInv, TickFits, InGoodFaith
<1>2. TickInv /\ [Next]_vars => [Faith]_vars
  BY <1>1
<1>3. QueuedInGoodFaith <=> [][Faith]_vars
  BY DEF QueuedInGoodFaith
<1> QED BY <1>2, <1>3, TicksStart, TicksStep, PTL DEF Spec

-------------------------------------------------------------------------------
(* Once each: a key may be forgotten, but not while a tick remembers that its    *)
(* job was due.  What that takes is that nobody stalls for long: a worker still  *)
(* queueing began its tick not long ago, and an occurrence whose job is over is  *)
(* recorded not long after.                                                      *)

Prompt(stall) ==
  /\ \A w \in Workers : worker[w].phase = "queueing" => clock <= worker[w].now + stall
  /\ \A d \in course.recurring : \A o \in Recurring[d].at :
       /\ Key(d, o) \in DOMAIN queue /\ queue[Key(d, o)].state = "done"
       /\ lastRun[d] # Never /\ lastRun[d] < o
       => clock <= queue[Key(d, o)].at + stall

TurnKinds == {"agent_run", "agent_review"}

\* A key is of a revision its task has had, or of an occurrence that has come.
Numbered(key, at) ==
  /\ key[1] \in TurnKinds =>
       key[2] \in course.tasks /\ key[3] \in Nat /\ key[3] <= tasks[key[2]].revision
  /\ key[1] = "recurring" => key[3] \in Nat /\ key[3] <= at

\* What a finished job was about is no longer so.
Settled(key) ==
  /\ key[1] \in TurnKinds => key[3] < tasks[key[2]].revision
  /\ key[1] = "agent_judge" => key[2] \notin ready

KeysFit ==
  \A k \in DOMAIN queue :
    /\ Numbered(k, queue[k].at) /\ queue[k].at <= clock
    /\ queue[k].state = "done" => Settled(k)
    /\ k[1] # "agent_retrospective" => queued[k] = 1

\* By what a tick has read the key's job may be due.
MayBeDue(read, now, key) ==
  \/ key[1] \in TurnKinds /\ key[2] \in course.tasks /\ key[3] = read.tasks[key[2]].revision
  \/ key[1] = "agent_judge" /\ key[2] \in read.ready
  \/ /\ key[1] = "recurring" /\ key[2] \in course.recurring /\ key[3] \in Recurring[key[2]].at
     /\ key[3] > Since(read, now, key[2])

\* A job that is over ended hardly before the tick began, if at all.
Lately(stall, w, key) ==
  key \in DOMAIN queue /\ queue[key].state = "done" => worker[w].now <= queue[key].at + stall

ReadOnce(stall, w) ==
  /\ \A t \in course.tasks : /\ worker[w].read.tasks[t].revision \in Nat
                             /\ worker[w].read.tasks[t].revision <= tasks[t].revision
  /\ \A k \in DOMAIN queue : MayBeDue(worker[w].read, worker[w].now, k) => Lately(stall, w, k)

DueOnce(stall, w) ==
  \A job \in worker[w].due :
    /\ Numbered(job.key, worker[w].now)
    /\ job.key[1] # "agent_retrospective" => Lately(stall, w, job.key)

TickOnce(stall, w) ==
  /\ worker[w].phase = "pricing" => ReadOnce(stall, w)
  /\ worker[w].phase = "queueing" => DueOnce(stall, w)

OnceInv(stall) == KeysFit /\ \A w \in Workers : TickOnce(stall, w)

-------------------------------------------------------------------------------
(* What it says of the properties.                                               *)

LEMMA ReviewsOfOneRevision ==
  ASSUME QueueFits, NEW t, NEW n
  PROVE  Cardinality({k \in DOMAIN queue : k[1] = "agent_review" /\ queue[k].about = <<t, n>>}) <= 1
<1> DEFINE S == {k \in DOMAIN queue : k[1] = "agent_review" /\ queue[k].about = <<t, n>>}
           one == {<<"agent_review", t, n>>}
<1>1. S \subseteq one
  <2> SUFFICES ASSUME NEW k \in S PROVE k = <<"agent_review", t, n>>
    OBVIOUS
  <2>1. k = <<k[1], k[2], k[3]>> /\ k[1] = "agent_review" /\ queue[k].about = <<k[2], k[3]>>
    BY DEF QueueFits, JobOfKey
  <2>2. k[2] = t /\ k[3] = n
    BY <2>1
  <2> QED BY <2>1, <2>2
<1>2. IsFiniteSet(one) /\ Cardinality(one) = 1
  BY FS_Singleton
<1>3. Cardinality(S) <= Cardinality(one) /\ Cardinality(S) \in Nat
  BY <1>1, <1>2, FS_Subset, FS_CardinalityType
<1> QED BY <1>2, <1>3

LEMMA OnceMeansOnce ==
  ASSUME TickInv, NEW stall, OnceInv(stall)
  PROVE  OccurrencesOnce /\ OneTurnEach
<1>1. QueueFits /\ DOMAIN queued = DOMAIN queue
  BY DEF TickInv, Counted
<1>2. \A k \in DOMAIN queue : k[1] # "agent_retrospective" => queued[k] = 1
  BY DEF OnceInv, KeysFit
<1>3. OccurrencesOnce
  <2> SUFFICES ASSUME NEW d \in course.recurring, NEW o \in Recurring[d].at
               PROVE  /\ Times(<<"recurring", d, o>>) <= 1
                      /\ Recurring[d].last # Never /\ o \in (Recurring[d].last + 1) .. lastRun[d] =>
                           Times(<<"recurring", d, o>>) = 1
    BY Zenon DEF OccurrencesOnce
  <2>1. Key(d, o)[1] # "agent_retrospective"
    BY DEF Key
  <2>2. Times(Key(d, o)) \in {0, 1} /\ (Key(d, o) \in DOMAIN queue => Times(Key(d, o)) = 1)
    BY <1>1, <1>2, <2>1 DEF Times
  <2>3. ASSUME Recurring[d].last # Never, o \in (Recurring[d].last + 1) .. lastRun[d]
        PROVE  Times(Key(d, o)) = 1
    <3>1. Recurring[d].last \in Int /\ lastRun[d] \in Int
      BY TickConstants DEF TickInv, OfficeFits, Course, Definition, Never
    <3>2. Key(d, o) \in DOMAIN queue
      BY <2>3, <3>1 DEF TickInv, Recorded
    <3> QED BY <2>2, <3>2
  <2> QED BY <2>2, <2>3 DEF Key
<1>4. OneTurnEach
  <2>1. \A k \in DOMAIN queued : k[1] # "agent_retrospective" => queued[k] <= 1
    BY <1>1, <1>2
  <2>2. \A t, n : Cardinality({k \in DOMAIN queue : k[1] = "agent_review" /\ queue[k].about = <<t, n>>}) <= 1
    BY <1>1, ReviewsOfOneRevision
  <2> QED BY <1>1, <2>1, <2>2 DEF OneTurnEach
<1> QED BY <1>3, <1>4

-------------------------------------------------------------------------------
(* What every step does: no task goes back to an earlier revision, no contest is *)
(* opened again, and a job that is over ended now or was over before.            *)

OfficeGoesOn ==
  (\A t \in course.tasks : tasks[t].revision <= tasks'[t].revision) /\ ready' \subseteq ready

QueueGoesOn ==
  \A k \in DOMAIN queue' : queue'[k].state = "done" =>
    \/ queue'[k].at = clock
    \/ k \in DOMAIN queue /\ queue[k].state = "done" /\ queue'[k].at = queue[k].at

LEMMA OfficeNumbers ==
  ASSUME TickInv
  PROVE  /\ clock \in Nat /\ \A t \in course.tasks : tasks[t].revision \in Nat
         /\ \A k \in DOMAIN queue : queue[k].at \in Nat
         /\ \A w \in Workers : worker[w].now \in Nat /\ worker[w].now <= clock
BY DEF TickInv, LInv, LeadersTypeOK, OfficeFits, QueueFits, JobOfKey, TickFits

LEMMA LatelyStill ==
  ASSUME TickInv, NEW stall \in Nat, NEW w \in Workers, NEW key, Lately(stall, w, key),
         worker'[w].now = worker[w].now, QueueGoesOn
  PROVE  Lately(stall, w, key)'
BY OfficeNumbers DEF Lately, QueueGoesOn

LEMMA NumberedStill ==
  ASSUME TickInv, TickInv', NEW key, NEW at, Numbered(key, at), course' = course, OfficeGoesOn
  PROVE  Numbered(key, at)'
BY OfficeNumbers DEF Numbered, OfficeGoesOn, TickInv, OfficeFits

\* A worker that does nothing meanwhile.
LEMMA StaysOnce ==
  ASSUME TickInv, TickInv', NEW stall \in Nat, NEW w \in Workers, TickOnce(stall, w),
         worker'[w] = worker[w], course' = course, OfficeGoesOn, QueueGoesOn
  PROVE  TickOnce(stall, w)'
<1>1. ASSUME worker[w].phase = "pricing" PROVE ReadOnce(stall, w)'
  <2>1. ReadOnce(stall, w)
    BY <1>1 DEF TickOnce
  <2>2. ASSUME NEW t \in course.tasks
        PROVE  /\ worker[w].read.tasks[t].revision \in Nat
               /\ worker[w].read.tasks[t].revision <= tasks'[t].revision
    <3>1. tasks[t].revision \in Nat /\ tasks'[t].revision \in Nat
      BY OfficeNumbers DEF TickInv, OfficeFits
    <3>2. tasks[t].revision <= tasks'[t].revision
      BY DEF OfficeGoesOn
    <3> QED BY <2>1, <3>1, <3>2 DEF ReadOnce
  <2>3. ASSUME NEW k \in DOMAIN queue', MayBeDue(worker[w].read, worker[w].now, k)'
        PROVE  Lately(stall, w, k)'
    <3>1. MayBeDue(worker[w].read, worker[w].now, k)
      BY <2>3 DEF MayBeDue, Since
    <3>2. Lately(stall, w, k)
      BY <2>1, <3>1 DEF ReadOnce, Lately
    <3> QED BY <3>2, LatelyStill
  <2> QED BY <2>2, <2>3 DEF ReadOnce
<1>2. ASSUME worker[w].phase = "queueing" PROVE DueOnce(stall, w)'
  <2> SUFFICES ASSUME NEW job \in worker[w].due
               PROVE  /\ Numbered(job.key, worker[w].now)'
                      /\ job.key[1] # "agent_retrospective" => Lately(stall, w, job.key)'
    BY DEF DueOnce
  <2>1. /\ Numbered(job.key, worker[w].now)
        /\ job.key[1] # "agent_retrospective" => Lately(stall, w, job.key)
    BY <1>2 DEF TickOnce, DueOnce
  <2>2. Numbered(job.key, worker[w].now)'
    BY <2>1, OfficeNumbers DEF Numbered, OfficeGoesOn, TickInv, OfficeFits
  <2> QED BY <2>1, <2>2, LatelyStill
<1> QED BY <1>1, <1>2 DEF TickOnce

\* The keys of a queue that no job was added to.
LEMMA KeysStay ==
  ASSUME TickInv, TickInv', KeysFit, course' = course, clock <= clock', OfficeGoesOn, queued' = queued,
         DOMAIN queue' = DOMAIN queue,
         \A k \in DOMAIN queue : /\ queue'[k].at \in {queue[k].at, clock}
                                 /\ queue'[k].state = "done" => queue[k].state = "done" \/ Settled(k)'
  PROVE  KeysFit'
<1> SUFFICES ASSUME NEW k \in DOMAIN queue
             PROVE  /\ Numbered(k, queue[k].at)' /\ queue'[k].at <= clock'
                    /\ queue'[k].state = "done" => Settled(k)'
                    /\ k[1] # "agent_retrospective" => queued'[k] = 1
  BY DEF KeysFit
<1>1. /\ Numbered(k, queue[k].at) /\ queue[k].at <= clock
      /\ queue[k].state = "done" => Settled(k)
      /\ k[1] # "agent_retrospective" => queued'[k] = 1
  BY DEF KeysFit
<1>2. /\ clock \in Nat /\ clock' \in Nat /\ queue[k].at \in Nat
      /\ queue'[k].at = queue[k].at \/ queue'[k].at = clock
  BY OfficeNumbers DEF TickInv, LInv, LeadersTypeOK
<1>3. \A t \in course.tasks : /\ tasks[t].revision \in Nat /\ tasks'[t].revision \in Nat
                              /\ tasks[t].revision <= tasks'[t].revision
  BY OfficeNumbers DEF TickInv, OfficeFits, OfficeGoesOn
<1>4. Numbered(k, queue[k].at)' /\ queue'[k].at <= clock'
  BY <1>1, <1>2, <1>3 DEF Numbered
<1>5. queue[k].state = "done" => Settled(k)'
  BY <1>1, <1>3 DEF Numbered, Settled, OfficeGoesOn
<1> QED BY <1>1, <1>4, <1>5

\* A step whose worker, if it has one, has read or is to queue what is due once.
LEMMA OnceStays ==
  ASSUME TickInv, TickInv', NEW stall \in Nat, OnceInv(stall), KeysFit', course' = course,
         OfficeGoesOn, QueueGoesOn,
         \A w \in Workers : worker'[w] = worker[w] \/ TickOnce(stall, w)'
  PROVE  OnceInv(stall)'
BY StaysOnce DEF OnceInv

\* One that leaves the office's work and the queue alone, and goes on to where
\* nothing has been read or nothing is left to queue.
LEMMA OnceGoesOn ==
  ASSUME TickInv, TickInv', NEW stall \in Nat, OnceInv(stall), clock <= clock',
         UNCHANGED <<course, tasks, ready, queue, queued>>,
         \A w \in Workers : worker'[w] = worker[w] \/ TickOnce(stall, w)'
  PROVE  OnceInv(stall)'
<1>1. OfficeGoesOn /\ QueueGoesOn
  BY OfficeNumbers DEF OfficeGoesOn, QueueGoesOn
<1>2. KeysFit'
  BY <1>1, KeysStay DEF OnceInv
<1> QED BY <1>1, <1>2, OnceStays

\* Worker w goes on to such a place.
LEMMA PhaseSet ==
  ASSUME WorkerShape, NEW stall, NEW w \in Workers, NEW tick,
         worker' = [worker EXCEPT ![w] = tick], tick.phase \notin {"pricing", "queueing"}
  PROVE  \A v \in Workers : worker'[v] = worker[v] \/ TickOnce(stall, v)'
BY DEF WorkerShape, TickOnce

GoesOnTo(w, phase) ==
  \/ Goes(w, phase)
  \/ \E job : worker' = [worker EXCEPT ![w] = [@ EXCEPT !.phase = phase, !.job = job]]
  \/ worker' = [worker EXCEPT ![w] = [@ EXCEPT !.phase = phase, !.fired = {}]]
  \/ worker' = [worker EXCEPT ![w] = [Idle EXCEPT !.phase = phase]]
  \/ worker' = [worker EXCEPT ![w] = [Idle EXCEPT !.phase = phase, !.now = clock]]

LEMMA NothingToQueue ==
  ASSUME TickInv, NEW stall, NEW w \in Workers,
         NEW phase \in {"campaigning", "reading", "working", "handling", "idle", "gone"},
         GoesOnTo(w, phase)
  PROVE  \A v \in Workers : worker'[v] = worker[v] \/ TickOnce(stall, v)'
<1>0. WorkerShape /\ Whole(worker[w])
  BY DEF TickInv, WorkerShape
<1>1. CASE Goes(w, phase)
  <2>1. [worker[w] EXCEPT !.phase = phase].phase = phase
    BY <1>0 DEF Whole, TickOf
  <2> QED BY <1>0, <1>1, <2>1, PhaseSet DEF Goes
<1>2. ASSUME NEW job, worker' = [worker EXCEPT ![w] = [@ EXCEPT !.phase = phase, !.job = job]]
      PROVE  \A v \in Workers : worker'[v] = worker[v] \/ TickOnce(stall, v)'
  <2> DEFINE tick == [worker[w] EXCEPT !.phase = phase, !.job = job]
  <2>1. tick.phase = phase /\ worker' = [worker EXCEPT ![w] = tick]
    BY <1>0, <1>2 DEF Whole, TickOf
  <2> HIDE DEF tick
  <2> QED BY <1>0, <2>1, PhaseSet
<1>3. CASE worker' = [worker EXCEPT ![w] = [@ EXCEPT !.phase = phase, !.fired = {}]]
  <2> DEFINE tick == [worker[w] EXCEPT !.phase = phase, !.fired = {}]
  <2>1. tick.phase = phase /\ worker' = [worker EXCEPT ![w] = tick]
    BY <1>0, <1>3 DEF Whole, TickOf
  <2> HIDE DEF tick
  <2> QED BY <1>0, <2>1, PhaseSet
<1>4. CASE worker' = [worker EXCEPT ![w] = [Idle EXCEPT !.phase = phase]]
  <2>1. [Idle EXCEPT !.phase = phase].phase = phase
    BY DEF Idle
  <2> QED BY <1>0, <1>4, <2>1, PhaseSet
<1>5. CASE worker' = [worker EXCEPT ![w] = [Idle EXCEPT !.phase = phase, !.now = clock]]
  <2> DEFINE tick == [Idle EXCEPT !.phase = phase, !.now = clock]
  <2>1. tick.phase = phase /\ worker' = [worker EXCEPT ![w] = tick]
    BY <1>5 DEF Idle
  <2> HIDE DEF tick
  <2> QED BY <1>0, <2>1, PhaseSet
<1> QED BY Zenon, <1>1, <1>2, <1>3, <1>4, <1>5 DEF GoesOnTo

-------------------------------------------------------------------------------
(* The steps.                                                                    *)

LEMMA BeginOnce ==
  ASSUME TickInv, TickInv', NEW stall \in Nat, OnceInv(stall), NEW w \in Workers, Begin(w)
  PROVE  OnceInv(stall)'
<1>1. /\ worker' = [worker EXCEPT ![w] = [Idle EXCEPT !.phase = "campaigning", !.now = clock]]
      /\ UNCHANGED <<clock, course, tasks, ready, queued>>
  BY DEF Begin, leaderVars, officeVars
<1>2. PICK back \in SUBSET Orphans :
        queue' = [k \in DOMAIN queue |->
                    IF k \in back THEN [queue[k] EXCEPT !.state = "waiting"] ELSE queue[k]]
  BY DEF Begin
<1>3. DOMAIN queue' = DOMAIN queue
  BY <1>2
<1>4. \A k \in DOMAIN queue : /\ queue'[k].at = queue[k].at
                              /\ queue'[k].state = "done" => queue[k].state = "done"
  BY <1>2 DEF TickInv, QueueFits, JobOfKey
<1>5. OfficeGoesOn /\ QueueGoesOn /\ clock <= clock'
  BY <1>1, <1>3, <1>4, OfficeNumbers DEF OfficeGoesOn, QueueGoesOn
<1>6. KeysFit'
  BY <1>1, <1>3, <1>4, <1>5, KeysStay DEF OnceInv
<1>7. \A v \in Workers : worker'[v] = worker[v] \/ TickOnce(stall, v)'
  <2>1. GoesOnTo(w, "campaigning")
    BY Zenon, <1>1 DEF GoesOnTo
  <2> QED BY <2>1, NothingToQueue
<1> QED BY <1>1, <1>5, <1>6, <1>7, OnceStays

\* What has been read of the office is what it is: a job that is over is not due,
\* unless its occurrence is still to be recorded, and then it ended not long ago.
LEMMA ReadOfficeOnce ==
  ASSUME TickInv, TickInv', NEW stall \in Nat, OnceInv(stall), Prompt(stall), NEW w \in Workers,
         ReadOffice(w)
  PROVE  OnceInv(stall)'
<1>1. UNCHANGED <<clock, course, tasks, ready, lastRun, queue, queued>>
  BY DEF ReadOffice, leaderVars, officeVars
<1>2. clock <= clock'
  BY <1>1, OfficeNumbers
<1>3. CASE Goes(w, "working")
  <2>1. \A v \in Workers : worker'[v] = worker[v] \/ TickOnce(stall, v)'
    <3>1. GoesOnTo(w, "working")
      BY Zenon, <1>3 DEF GoesOnTo
    <3> QED BY <3>1, NothingToQueue
  <2> QED BY <1>1, <1>2, <2>1, OnceGoesOn
<1>4. CASE ~Goes(w, "working")
  <2> DEFINE read == [running |-> running, tasks |-> tasks, ready |-> ready, lastRun |-> lastRun]
             tick == [worker[w] EXCEPT !.phase = "pricing", !.read = read]
  <2>1. worker' = [worker EXCEPT ![w] = tick]
    BY <1>4 DEF ReadOffice
  <2>2. tick.phase = "pricing" /\ tick.read = read /\ tick.now = worker[w].now
    BY DEF TickInv, WorkerShape, Whole, TickOf
  <2>3. read.tasks = tasks /\ read.ready = ready /\ read.lastRun = lastRun
    OBVIOUS
  <2> HIDE DEF tick, read
  <2>4. worker'[w] = tick /\ \A v \in Workers \ {w} : worker'[v] = worker[v]
    BY <2>1 DEF TickInv, WorkerShape
  <2>5. ASSUME NEW k \in DOMAIN queue, MayBeDue(read, worker[w].now, k), queue[k].state = "done"
        PROVE  worker[w].now <= queue[k].at + stall
    <3>1. /\ Numbered(k, queue[k].at) /\ Settled(k) /\ k = <<k[1], k[2], k[3]>>
      BY <2>5 DEF OnceInv, KeysFit, TickInv, QueueFits
    <3>2. queue[k].at \in Nat /\ worker[w].now \in Nat /\ worker[w].now <= clock /\ clock \in Nat
      BY OfficeNumbers
    <3>3. CASE k[1] \in TurnKinds /\ k[2] \in course.tasks /\ k[3] = tasks[k[2]].revision
      BY <3>1, <3>3, OfficeNumbers DEF Settled
    <3>4. CASE k[1] = "agent_judge" /\ k[2] \in ready
      BY <3>1, <3>4 DEF Settled
    <3>5. CASE /\ k[1] = "recurring" /\ k[2] \in course.recurring /\ k[3] \in Recurring[k[2]].at
               /\ k[3] > Since(read, worker[w].now, k[2])
      <4>1. k[3] \in Nat /\ k[3] <= queue[k].at
        BY <3>1, <3>5 DEF Numbered
      <4>2. CASE lastRun[k[2]] = Never
        <5>1. k[3] > worker[w].now - 1
          BY <2>3, <3>5, <4>2 DEF Since
        <5> QED BY <3>2, <4>1, <5>1
      <4>3. CASE lastRun[k[2]] # Never
        <5>1. lastRun[k[2]] < k[3]
          <6>1. k[3] > lastRun[k[2]] /\ lastRun[k[2]] \in Int
            BY <2>3, <3>5, <4>3 DEF Since, TickInv, OfficeFits
          <6> QED BY <4>1, <6>1
        <5>2. k = Key(k[2], k[3])
          BY <3>1, <3>5 DEF Key
        <5>3. clock <= queue[k].at + stall
          BY <2>5, <3>5, <4>3, <5>1, <5>2 DEF Prompt
        <5> QED BY <3>2, <5>3
      <4> QED BY <4>2, <4>3
    <3> QED BY <2>3, <2>5, <3>3, <3>4, <3>5 DEF MayBeDue
  <2>6. ReadOnce(stall, w)'
    <3>1. worker'[w].read = read /\ worker'[w].now = worker[w].now
      BY <2>2, <2>4
    <3>2. ASSUME NEW t \in course.tasks
          PROVE  /\ worker'[w].read.tasks[t].revision \in Nat
                 /\ worker'[w].read.tasks[t].revision <= tasks'[t].revision
      BY <1>1, <2>3, <3>1, OfficeNumbers
    <3>3. ASSUME NEW k \in DOMAIN queue, MayBeDue(worker[w].read, worker[w].now, k)'
          PROVE  Lately(stall, w, k)'
      <4>1. MayBeDue(read, worker[w].now, k)
        BY <1>1, <3>1, <3>3 DEF MayBeDue, Since
      <4> QED BY <1>1, <2>5, <3>1, <4>1 DEF Lately
    <3> QED BY <1>1, <3>2, <3>3 DEF ReadOnce
  <2>7. TickOnce(stall, w)'
    BY <2>2, <2>4, <2>6 DEF TickOnce
  <2> QED BY <1>1, <1>2, <2>4, <2>7, OnceGoesOn
<1> QED BY <1>3, <1>4

\* A look back apart, what is due is what may be by what was read.
LEMMA DueMayBe ==
  ASSUME OfficeFits, NEW s, NEW now \in Nat, NEW job \in ComputeDueWork(s, now).jobs
  PROVE  \/ job.key[1] = "agent_retrospective"
         \/ /\ MayBeDue(s, now, job.key)
            /\ job.key[1] = "recurring" => job.key[3] \in Nat /\ job.key[3] <= now
<1>1. ASSUME NEW t \in course.tasks, job \in TaskJobs(s, now, t)
      PROVE  job.key[1] \in TurnKinds /\ job.key[2] = t /\ job.key[3] = s.tasks[t].revision
  BY <1>1 DEF TaskJobs, ReviewJobs, RunJobs, Job, TurnKinds
<1>2. ASSUME NEW c \in course.contests, job \in JudgeJobs(s, now, c)
      PROVE  job.key[1] = "agent_judge" /\ job.key[2] = c /\ c \in s.ready
  BY <1>2 DEF JudgeJobs, Job
<1>3. ASSUME job \in LookBackJobs(s, now) PROVE job.key[1] = "agent_retrospective"
  BY <1>3 DEF LookBackJobs, Job
<1>4. ASSUME NEW d \in course.recurring, job \in RecurringJobs(s, now, d)
      PROVE  /\ job.key[1] = "recurring" /\ job.key[2] = d /\ job.key[3] \in Recurring[d].at
             /\ job.key[3] > Since(s, now, d) /\ job.key[3] <= now /\ job.key[3] \in Nat
  <2>1. PICK o \in Firing(s, now, d) :
          job = Job("recurring", d, o, Recurring[d].dept, Recurring[d].who)
    BY <1>4 DEF RecurringJobs
  <2>2. o \in Recurring[d].at /\ o > Since(s, now, d) /\ o <= now
    BY <2>1 DEF Firing, DueAt
  <2>3. Recurring[d].at \subseteq Nat
    BY CourseTypes DEF Definition
  <2> QED BY <2>1, <2>2, <2>3 DEF Job
<1>5. CASE \E t \in course.tasks : job \in TaskJobs(s, now, t)
  BY <1>1, <1>5 DEF MayBeDue, TurnKinds
<1>6. CASE \E c \in course.contests : job \in JudgeJobs(s, now, c)
  BY <1>2, <1>6 DEF MayBeDue
<1>7. CASE \E d \in course.recurring : job \in RecurringJobs(s, now, d)
  BY <1>4, <1>7 DEF MayBeDue
<1> QED BY <1>3, <1>5, <1>6, <1>7 DEF ComputeDueWork

LEMMA ReadSpendOnce ==
  ASSUME TickInv, TickInv', NEW stall \in Nat, OnceInv(stall), NEW w \in Workers, ReadSpend(w)
  PROVE  OnceInv(stall)'
<1> DEFINE read == worker[w].read
           now == worker[w].now
<1>1. PICK priced \in BOOLEAN :
        LET spent == IF priced THEN SpentToday ELSE [l \in Levels |-> 0]
            due == ComputeDueWork([running |-> read.running, tasks |-> read.tasks,
                                   ready |-> read.ready, lastRun |-> read.lastRun,
                                   spent |-> spent], now)
        IN  /\ worker' = [worker EXCEPT ![w] =
                            [Idle EXCEPT !.phase = "queueing", !.now = now,
                                         !.due = due.jobs, !.fired = due.fired]]
            /\ barred' = [barred EXCEPT ![w] =
                            IF priced THEN @ ELSE [@ EXCEPT !.overspent = {}]]
  BY Zenon DEF ReadSpend
<1> DEFINE spent == IF priced THEN SpentToday ELSE [l \in Levels |-> 0]
           s == [running |-> read.running, tasks |-> read.tasks, ready |-> read.ready,
                 lastRun |-> read.lastRun, spent |-> spent]
           jobs == ComputeDueWork(s, now).jobs
           fired == ComputeDueWork(s, now).fired
           tick == [Idle EXCEPT !.phase = "queueing", !.now = now, !.due = jobs, !.fired = fired]
<1>2. worker' = [worker EXCEPT ![w] = tick]
  BY <1>1
<1>3. worker[w].phase = "pricing" /\ UNCHANGED <<clock, course, tasks, ready, queue, queued>>
  BY DEF ReadSpend, leaderVars, officeVars
<1>4. ReadOnce(stall, w) /\ now \in Nat /\ OfficeFits /\ clock <= clock'
  BY <1>3, OfficeNumbers DEF OnceInv, TickOnce, TickInv
<1>5. s.tasks = read.tasks /\ s.ready = read.ready /\ s.lastRun = read.lastRun
  OBVIOUS
<1> HIDE DEF s, spent
<1>6. ASSUME NEW job \in jobs
      PROVE  \/ job.key[1] = "agent_retrospective"
             \/ /\ MayBeDue(s, now, job.key)
                /\ job.key[1] = "recurring" => job.key[3] \in Nat /\ job.key[3] <= now
  BY <1>4, DueMayBe
<1> HIDE DEF jobs, fired
<1>7. tick.phase = "queueing" /\ tick.now = now /\ tick.due = jobs
  BY DEF Idle
<1> HIDE DEF tick
<1>8. worker'[w] = tick /\ \A v \in Workers \ {w} : worker'[v] = worker[v]
  BY <1>2 DEF TickInv, WorkerShape
<1>9. ASSUME NEW job \in jobs
      PROVE  /\ Numbered(job.key, now)
             /\ job.key[1] # "agent_retrospective" => Lately(stall, w, job.key)
  <2>1. CASE job.key[1] = "agent_retrospective"
    BY <2>1 DEF Numbered, TurnKinds
  <2>2. CASE job.key[1] # "agent_retrospective"
    <3>1. /\ MayBeDue(read, now, job.key)
          /\ job.key[1] = "recurring" => job.key[3] \in Nat /\ job.key[3] <= now
      BY <1>5, <1>6, <2>2 DEF MayBeDue, Since
    <3>2. Lately(stall, w, job.key)
      BY <1>4, <3>1 DEF ReadOnce, Lately
    <3>3. Numbered(job.key, now)
      BY <1>4, <3>1 DEF ReadOnce, MayBeDue, Numbered, TurnKinds
    <3> QED BY <3>2, <3>3
  <2> QED BY <2>1, <2>2
<1>10. DueOnce(stall, w)'
  <2> SUFFICES ASSUME NEW job \in jobs
               PROVE  /\ Numbered(job.key, now)'
                      /\ job.key[1] # "agent_retrospective" => Lately(stall, w, job.key)'
    BY <1>7, <1>8 DEF DueOnce, Numbered
  <2>1. Numbered(job.key, now)'
    BY <1>3, <1>7, <1>8, <1>9 DEF Numbered
  <2>2. job.key[1] # "agent_retrospective" => Lately(stall, w, job.key)'
    BY <1>3, <1>7, <1>8, <1>9 DEF Lately
  <2> QED BY <2>1, <2>2
<1>11. TickOnce(stall, w)'
  BY <1>7, <1>8, <1>10 DEF TickOnce
<1> QED BY <1>3, <1>4, <1>8, <1>11, OnceGoesOn

\* A key whose job is over is forgotten long after, but what is due ended only
\* just before the tick began, and the tick began not long ago.
LEMMA EnqueueOnce ==
  ASSUME TickInv, TickInv', NEW stall \in Nat, 2 * stall < DedupeFor, DedupeFor \in Nat,
         OnceInv(stall), Prompt(stall), NEW w \in Workers, Enqueue(w)
  PROVE  OnceInv(stall)'
<1>1. /\ worker[w].phase = "queueing"
      /\ UNCHANGED <<clock, course, tasks, ready>>
  BY DEF Enqueue, leaderVars, officeVars
<1>2. PICK job \in worker[w].due :
        /\ IF Known(job.key) THEN UNCHANGED <<queue, queued>>
           ELSE /\ queue' = Put(queue, job.key,
                               [who |-> job.who, about |-> job.about, state |-> "waiting",
                                at |-> clock, by |-> Nobody])
                /\ queued' = Put(queued, job.key, Times(job.key) + 1)
        /\ worker' = [worker EXCEPT ![w] = [@ EXCEPT !.due = worker[w].due \ {job}]]
  BY DEF Enqueue
<1> DEFINE rest == worker[w].due \ {job}
           tick == [worker[w] EXCEPT !.due = rest]
           new == [who |-> job.who, about |-> job.about, state |-> "waiting",
                   at |-> clock, by |-> Nobody]
<1>3. tick.phase = "queueing" /\ tick.now = worker[w].now /\ tick.due = rest
  BY <1>1 DEF TickInv, WorkerShape, Whole, TickOf
<1>4. worker' = [worker EXCEPT ![w] = tick]
  BY <1>2
<1> HIDE DEF tick
<1>5. worker'[w] = tick /\ \A v \in Workers \ {w} : worker'[v] = worker[v]
  BY <1>4 DEF TickInv, WorkerShape
<1>6. /\ DueOnce(stall, w) /\ clock <= worker[w].now + stall /\ clock \in Nat
      /\ worker[w].now \in Nat /\ worker[w].now <= clock
  BY <1>1, OfficeNumbers DEF OnceInv, TickOnce, Prompt
<1>7. OfficeGoesOn
  BY <1>1, OfficeNumbers DEF OfficeGoesOn
<1>8. KeysFit' /\ QueueGoesOn
  <2>1. CASE Known(job.key)
    <3>1. UNCHANGED <<queue, queued>> /\ clock <= clock'
      BY <1>1, <1>2, <1>6, <2>1
    <3>2. KeysFit'
      BY <1>1, <1>7, <3>1, KeysStay DEF OnceInv
    <3> QED BY <3>1, <3>2 DEF QueueGoesOn
  <2>2. CASE ~Known(job.key)
    <3>1. queue' = Put(queue, job.key, new) /\ queued' = Put(queued, job.key, Times(job.key) + 1)
      BY <1>2, <2>2
    <3>2. ASSUME job.key[1] # "agent_retrospective", job.key \in DOMAIN queue PROVE FALSE
      <4>1. queue[job.key].at \in Nat /\ Lately(stall, w, job.key)
        BY <1>2, <1>6, <3>2, OfficeNumbers DEF DueOnce
      <4>2. queue[job.key].state = "done" /\ ~(clock < queue[job.key].at + DedupeFor)
        BY <2>2, <3>2 DEF Known
      <4>3. worker[w].now <= queue[job.key].at + stall
        BY <3>2, <4>1, <4>2 DEF Lately
      <4> QED BY <1>6, <4>1, <4>2, <4>3
    <3>3. job.key[1] # "agent_retrospective" => Times(job.key) = 0
      BY <3>2 DEF TickInv, Counted, Times
    <3>4. Numbered(job.key, clock)
      BY <1>2, <1>6 DEF DueOnce, Numbered
    <3>5. new.at = clock /\ new.state = "waiting"
      OBVIOUS
    <3> HIDE DEF new
    <3>6. /\ DOMAIN queue' = DOMAIN queue \cup {job.key} /\ queue'[job.key] = new
          /\ \A k \in DOMAIN queue \ {job.key} : queue'[k] = queue[k] /\ queued'[k] = queued[k]
          /\ queued'[job.key] = Times(job.key) + 1
      BY <3>1 DEF Put, TickInv, Counted
    <3>7. ASSUME NEW k \in DOMAIN queue'
          PROVE  /\ Numbered(k, queue[k].at)' /\ queue'[k].at <= clock'
                 /\ queue'[k].state = "done" => Settled(k)'
                 /\ k[1] # "agent_retrospective" => queued'[k] = 1
      <4>1. CASE k = job.key
        BY <1>1, <1>6, <3>3, <3>4, <3>5, <3>6, <4>1 DEF Numbered
      <4>2. CASE k # job.key
        <5>1. k \in DOMAIN queue /\ queue'[k] = queue[k] /\ queued'[k] = queued[k]
          BY <3>6, <4>2
        <5>2. /\ Numbered(k, queue[k].at) /\ queue[k].at <= clock
              /\ queue[k].state = "done" => Settled(k)
              /\ k[1] # "agent_retrospective" => queued[k] = 1
          BY <5>1 DEF OnceInv, KeysFit
        <5> QED BY <1>1, <5>1, <5>2 DEF Numbered, Settled
      <4> QED BY <4>1, <4>2
    <3>8. KeysFit'
      BY <3>7 DEF KeysFit
    <3>9. QueueGoesOn
      BY <3>5, <3>6 DEF QueueGoesOn
    <3> QED BY <3>8, <3>9
  <2> QED BY <2>1, <2>2
<1>9. DueOnce(stall, w)'
  <2> SUFFICES ASSUME NEW j \in rest
               PROVE  /\ Numbered(j.key, worker[w].now)'
                      /\ j.key[1] # "agent_retrospective" => Lately(stall, w, j.key)'
    BY <1>3, <1>5 DEF DueOnce, Numbered
  <2>1. /\ Numbered(j.key, worker[w].now)
        /\ j.key[1] # "agent_retrospective" => Lately(stall, w, j.key)
    BY <1>6 DEF DueOnce
  <2>2. Numbered(j.key, worker[w].now)'
    BY <1>1, <1>3, <1>5, <2>1 DEF Numbered
  <2>3. j.key[1] # "agent_retrospective" => Lately(stall, w, j.key)'
    BY <1>3, <1>5, <1>8, <2>1, LatelyStill
  <2> QED BY <2>2, <2>3
<1>10. TickOnce(stall, w)'
  BY <1>3, <1>5, <1>9 DEF TickOnce
<1> QED BY <1>1, <1>5, <1>7, <1>8, <1>10, OnceStays

LEMMA ClaimOnce ==
  ASSUME TickInv, TickInv', NEW stall \in Nat, OnceInv(stall), NEW w \in Workers, Claim(w)
  PROVE  OnceInv(stall)'
<1>1. UNCHANGED <<clock, course, tasks, ready, queued>>
  <2>1. worker[w].phase = "working" /\ UNCHANGED <<clock, course, officeVars, queued, barred>>
    BY Zenon DEF Claim, leaderVars
  <2> QED BY <2>1 DEF officeVars
<1> clock <= clock'
  BY <1>1, OfficeNumbers
<1>2. CASE Goes(w, "idle") /\ UNCHANGED queue
  <2>1. \A v \in Workers : worker'[v] = worker[v] \/ TickOnce(stall, v)'
    <3>1. GoesOnTo(w, "idle")
      BY Zenon, <1>2 DEF GoesOnTo
    <3> QED BY <3>1, NothingToQueue
  <2> QED BY <1>1, <1>2, <2>1, OnceGoesOn
<1>3. CASE ~(Goes(w, "idle") /\ UNCHANGED queue)
  <2>1. PICK k \in DOMAIN queue :
          /\ queue' = [queue EXCEPT ![k] = [@ EXCEPT !.state = "taken", !.by = w]]
          /\ worker' = [worker EXCEPT ![w] = [@ EXCEPT !.phase = "handling", !.job = k]]
    BY <1>3 DEF Claim
  <2>2. \A v \in Workers : worker'[v] = worker[v] \/ TickOnce(stall, v)'
    <3>1. GoesOnTo(w, "handling")
      BY Zenon, <2>1 DEF GoesOnTo
    <3> QED BY <3>1, NothingToQueue
  <2>3. DOMAIN queue' = DOMAIN queue /\ \A x \in DOMAIN queue \ {k} : queue'[x] = queue[x]
    BY <2>1
  <2>4. queue'[k].at = queue[k].at /\ queue'[k].state = "taken"
    <3> DEFINE new == [queue[k] EXCEPT !.state = "taken", !.by = w]
    <3>1. JobOfKey(k, queue[k])
      BY DEF TickInv, QueueFits
    <3>2. new.at = queue[k].at /\ new.state = "taken"
      BY <3>1 DEF JobOfKey
    <3>3. queue'[k] = new
      BY <2>1
    <3> HIDE DEF new
    <3> QED BY <3>2, <3>3
  <2>5. OfficeGoesOn /\ QueueGoesOn
    BY <1>1, <2>3, <2>4, OfficeNumbers DEF OfficeGoesOn, QueueGoesOn
  <2>6. KeysFit'
    BY <1>1, <2>3, <2>4, <2>5, KeysStay DEF OnceInv
  <2> QED BY <1>1, <2>2, <2>5, <2>6, OnceStays
<1> QED BY <1>2, <1>3

\* A turn taken moves its task on, if it was still at the revision the turn was of.
LEMMA FinishOnce ==
  ASSUME TickInv, TickInv', NEW stall \in Nat, OnceInv(stall), NEW w \in Workers, Finish(w)
  PROVE  OnceInv(stall)'
<1>0. PICK k : k = worker[w].job
  OBVIOUS
<1> DEFINE about == queue[k].about
<1>1. UNCHANGED <<clock, course, queued>>
  BY DEF Finish, leaderVars
<1> clock \in Nat /\ clock <= clock'
  BY <1>1, OfficeNumbers
<1>2. /\ IF k[1] \in TurnKinds /\ tasks[about[1]].revision # about[2]
         THEN UNCHANGED <<tasks, ready>> ELSE Handled(k[1], about[1])
      /\ queue' = [queue EXCEPT ![k] = [queue[k] EXCEPT !.state = "done", !.at = clock, !.by = Nobody]]
  BY <1>0 DEF Finish, TurnKinds
<1>3. PICK phase \in {"working", "idle"} :
        worker' = [worker EXCEPT ![w] = [@ EXCEPT !.phase = phase, !.job = << >>]]
  BY DEF Finish
<1>4. \A v \in Workers : worker'[v] = worker[v] \/ TickOnce(stall, v)'
  <2>1. GoesOnTo(w, phase)
    BY Zenon, <1>3 DEF GoesOnTo
  <2> QED BY <2>1, NothingToQueue
<1>5. DOMAIN queue' = DOMAIN queue /\ \A x \in DOMAIN queue \ {k} : queue'[x] = queue[x]
  BY <1>2
<1>6. k \in DOMAIN queue => queue'[k].at = clock
  <2> SUFFICES ASSUME k \in DOMAIN queue PROVE queue'[k].at = clock
    OBVIOUS
  <2> DEFINE new == [queue[k] EXCEPT !.state = "done", !.at = clock, !.by = Nobody]
  <2>1. JobOfKey(k, queue[k])
    BY DEF TickInv, QueueFits
  <2>2. new.at = clock
    BY <2>1 DEF JobOfKey
  <2>3. queue'[k] = new
    BY <1>2
  <2> HIDE DEF new
  <2> QED BY <2>2, <2>3
<1>7. /\ tasks \in [course.tasks -> [status : {"in_progress", "in_review", "done"}, revision : Nat]]
      /\ \A t \in course.tasks : tasks[t].revision \in Nat
  BY OfficeNumbers DEF TickInv, OfficeFits
<1>8. ASSUME Moved(about[1])
      PROVE  /\ \A t \in course.tasks : tasks[t].revision <= tasks'[t].revision
             /\ about[1] \in course.tasks => tasks'[about[1]].revision = tasks[about[1]].revision + 1
             /\ ready' = ready
  <2>1. PICK s \in {"done", "in_progress", "in_review"} :
                 /\ tasks' = [tasks EXCEPT ![about[1]] =
                                [status |-> s, revision |-> tasks[about[1]].revision + 1]]
                 /\ ready' = ready
    BY <1>8 DEF Moved
  <2> QED BY <1>7, <2>1
<1>9. OfficeGoesOn
  BY <1>2, <1>7, <1>8 DEF OfficeGoesOn, Handled
<1>10. QueueGoesOn
  BY <1>5, <1>6 DEF QueueGoesOn
<1>11. ASSUME k \in DOMAIN queue PROVE Settled(k)'
  <2>1. /\ about[1] = k[2] /\ about[2] = k[3] /\ Numbered(k, queue[k].at)
    BY <1>11 DEF TickInv, QueueFits, JobOfKey, OnceInv, KeysFit
  <2>2. ASSUME k[1] \in TurnKinds PROVE k[3] < tasks'[k[2]].revision
    <3>1. k[2] \in course.tasks /\ k[3] \in Nat /\ k[3] <= tasks[k[2]].revision
      BY <2>1, <2>2 DEF Numbered
    <3>2. CASE tasks[k[2]].revision # k[3]
      <4>1. tasks' = tasks
        BY <1>2, <2>1, <2>2, <3>2
      <4> QED BY <1>7, <3>1, <3>2, <4>1
    <3>3. CASE tasks[k[2]].revision = k[3]
      <4>1. Handled(k[1], about[1])
        BY <1>2, <2>1, <3>3
      <4>2. Moved(about[1])
        BY <2>2, <4>1 DEF Handled, TurnKinds
      <4> QED BY <1>7, <1>8, <2>1, <3>1, <3>3, <4>2
    <3> QED BY <3>2, <3>3
  <2>3. ASSUME k[1] = "agent_judge" PROVE k[2] \notin ready'
    <3>1. k[1] \notin TurnKinds
      BY <2>3 DEF TurnKinds
    <3>2. ready' = ready \ {about[1]}
      BY <1>2, <2>3, <3>1 DEF Handled
    <3> QED BY <2>1, <3>2
  <2> QED BY <2>2, <2>3 DEF Settled
<1>12. KeysFit'
  <2> QED BY <1>1, <1>5, <1>6, <1>9, <1>11, KeysStay DEF OnceInv
<1> QED BY <1>1, <1>4, <1>9, <1>10, <1>12, OnceStays

\* All of them.
LEMMA OnceStarts ==
  ASSUME TickInv, Init, NEW stall
  PROVE  OnceInv(stall)
<1>1. DOMAIN queue = {}
  BY DEF Init
<1>2. \A w \in Workers : worker[w].phase \in {"idle", "gone"}
  BY DEF Init, Idle
<1> QED BY <1>1, <1>2 DEF OnceInv, KeysFit, TickOnce

LEMMA OnceStep ==
  ASSUME TickInv, TickInv', NEW stall \in Nat, 2 * stall < DedupeFor, DedupeFor \in Nat,
         OnceInv(stall), Prompt(stall), [Next]_vars
  PROVE  OnceInv(stall)'
<1>1. ASSUME clock <= clock', UNCHANGED <<course, tasks, ready, worker, queue, queued>>
      PROVE  OnceInv(stall)'
  BY <1>1, OnceGoesOn
<1>2. clock \in Nat
  BY OfficeNumbers
<1>3. ASSUME NEW w \in Workers, Campaign(w) PROVE OnceInv(stall)'
  <2>1. UNCHANGED <<clock, course, tasks, ready, queue, queued>> /\ clock <= clock'
    BY <1>2, <1>3 DEF Campaign, Ask, AcquireLock, Learn, leaderVars, officeVars
  <2>2. CASE UNCHANGED worker
    BY <1>1, <2>1, <2>2
  <2>3. ASSUME NEW phase \in {"reading", "working"}, Goes(w, phase) PROVE OnceInv(stall)'
    <3>1. \A v \in Workers : worker'[v] = worker[v] \/ TickOnce(stall, v)'
      <4>1. GoesOnTo(w, phase)
        BY Zenon, <2>3 DEF GoesOnTo
      <4> QED BY <4>1, NothingToQueue
    <3> QED BY <2>1, <3>1, OnceGoesOn
  <2> QED BY <1>3, <2>2, <2>3 DEF Campaign
<1>4. ASSUME NEW w \in Workers, Record(w) PROVE OnceInv(stall)'
  <2>1. /\ UNCHANGED <<clock, course, tasks, ready, queue, queued>> /\ clock <= clock'
        /\ worker' = [worker EXCEPT ![w] = [@ EXCEPT !.phase = "working", !.fired = {}]]
    BY <1>2, <1>4 DEF Record, leaderVars
  <2>2. \A v \in Workers : worker'[v] = worker[v] \/ TickOnce(stall, v)'
    <3>1. GoesOnTo(w, "working")
      BY Zenon, <2>1 DEF GoesOnTo
    <3> QED BY <3>1, NothingToQueue
  <2> QED BY <2>1, <2>2, OnceGoesOn
<1>5. ASSUME NEW w \in Workers, Tick(w) PROVE OnceInv(stall)'
  BY <1>3, <1>4, <1>5, BeginOnce, ReadOfficeOnce, ReadSpendOnce, EnqueueOnce, ClaimOnce, FinishOnce
     DEF Tick
<1>6. ASSUME NEW w \in Workers, Stop(w) \/ Crash(w) PROVE OnceInv(stall)'
  <2>1. UNCHANGED <<clock, course, tasks, ready, queue, queued>> /\ clock <= clock'
    BY <1>2, <1>6 DEF Stop, Crash, Resign, Die, officeVars
  <2>2. \A v \in Workers : worker'[v] = worker[v] \/ TickOnce(stall, v)'
    <3>1. GoesOnTo(w, "gone")
      BY Zenon, <1>6 DEF GoesOnTo, Stop, Crash
    <3> QED BY <3>1, NothingToQueue
  <2> QED BY <2>1, <2>2, OnceGoesOn
<1>7. ASSUME NEW l \in Levels, Switch(l) PROVE OnceInv(stall)'
  BY <1>1, <1>2, <1>7 DEF Switch, leaderVars
<1>8. ASSUME NEW p \in People, File(p) PROVE OnceInv(stall)'
  BY <1>1, <1>2, <1>8 DEF File, leaderVars
<1>9. ASSUME NEW c \in calls, Store(c) \/ Warn(c) PROVE OnceInv(stall)'
  BY <1>1, <1>2, <1>9 DEF Store, Warn, leaderVars
<1>10. CASE Turn
  <2>1. clock' = clock + 1 /\ UNCHANGED <<course, tasks, ready, worker, queue, queued>>
    BY <1>10 DEF Turn, TimePasses
  <2> QED BY <1>1, <1>2, <2>1
<1>11. CASE UNCHANGED vars
  BY <1>1, <1>2, <1>11 DEF vars
<1> QED BY <1>5, <1>6, <1>7, <1>8, <1>9, <1>10, <1>11 DEF Next

\* What is due is queued once and nothing else is, however often the queue forgets
\* a key, as long as nobody stalls for half as long as it remembers one
\* (scheduler.ts:314, 403, 470-514, in-process-queue.ts:155-161).
THEOREM WorkIsQueuedAsDue ==
  ASSUME NEW stall \in Nat, DedupeFor \in Nat, 2 * stall < DedupeFor, DayBudgets
  PROVE  Spec /\ []Prompt(stall) => QueuedAsDue
<1>1. Spec => []TickInv
  BY TicksStart, TicksStep, PTL DEF Spec
<1>2. TickInv /\ Init => OnceInv(stall)
  BY OnceStarts
<1>3. TickInv /\ TickInv' /\ OnceInv(stall) /\ Prompt(stall) /\ [Next]_vars => OnceInv(stall)'
  BY OnceStep
<1>4. TickInv /\ OnceInv(stall) => TypeOK /\ OccurrencesOnce /\ OneTurnEach
  BY OnceMeansOnce, InvMeansTypes
<1>5. Spec => QueuedInGoodFaith
  BY QueuesInGoodFaith
<1> QED BY <1>1, <1>2, <1>3, <1>4, <1>5, PTL DEF Spec, QueuedAsDue
===============================================================================
