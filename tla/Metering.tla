------------------------------- MODULE Metering -------------------------------
(***************************************************************************)
(* What the office's calls cost: the meter around a provider               *)
(* (telemetry/usage.ts), the price list (llm/model-registry.ts and         *)
(* service-providers.ts), the sink that posts each event to the office     *)
(* (worker/usage-sink.ts) and the report read off the rows the office      *)
(* holds (web/usage-report.ts).                                            *)
(*                                                                         *)
(* Calls go on side by side, the owner changes the prices while they do,   *)
(* people leave, the office cannot always be reached, and the process that *)
(* makes the calls may end.                                                *)
(***************************************************************************)
EXTENDS Integers, FiniteSetsExt

CONSTANTS
  Calls,
  CallerOf,     \* who makes a call, Nobody for the office's own
  RoomOf,       \* where somebody works
  Models,       \* models, each of one provider
  BuiltIn,      \* the prices the office was born knowing
  ServiceLists, \* the office's services, each a sequence of models offered
  Usages,       \* what a call may use: [fresh, cached]
  MaxRepricings, MaxDeaths,   \* bounds
  Nobody, Unpriced

MeterConstants ==
  /\ DOMAIN CallerOf = Calls /\ \A c \in Calls : CallerOf[c] \in DOMAIN RoomOf \cup {Nobody}
  /\ DOMAIN BuiltIn \subseteq Models
  /\ \A l \in ServiceLists : \A i \in DOMAIN l :
       l[i].model \in Models /\ (l[i].fresh = Unpriced => l[i].cached = Unpriced)
  /\ \A u \in Usages : u.fresh \in Nat /\ u.cached \in Nat /\ u.fresh + u.cached > 0

VARIABLES
  services,   \* what the office's services offer now
  staff,      \* the people in the office's records
  calls,      \* each call: what was asked, how far it is
  rows,       \* the usage rows of the office
  told,       \* calls whose event was said to be lost
  repricings, deaths,
  listed      \* history: the price list each event was priced with

meter == <<services, staff, calls, rows, told, repricings, deaths, listed>>

NO_USAGE == [fresh |-> 0, cached |-> 0]

\* `did` is what the provider did in the end and `outcome` what the caller saw of it.
Idle == [ how |-> "none", model |-> "none", phase |-> "idle", done |-> FALSE, usage |-> NO_USAGE,
          did |-> "nothing", outcome |-> "none" ]

Recorded == {r.call : r \in rows}

-------------------------------------------------------------------------------
(* The price list.                                                         *)

\* An offer without a price makes no entry; a cached read costs what a fresh one
\* does unless something cheaper was said.
specOf(offer) ==
  [ fresh |-> offer.fresh,
    cached |-> IF offer.cached = Unpriced THEN offer.fresh ELSE offer.cached ]

\* Mutant: a service's own price overwrites the one the office has already.
PricesNewest(list) ==
  LET Offered(m) == {i \in DOMAIN list : list[i].model = m /\ list[i].fresh # Unpriced}
  IN  [ m \in DOMAIN BuiltIn \cup {x \in Models : Offered(x) # {}} |->
          IF Offered(m) # {} THEN specOf(list[Max(Offered(m))]) ELSE BuiltIn[m] ]

\* The built-in tables and then the services; what has a price keeps it.
registryFor(list) ==
  LET Offered(m) == {i \in DOMAIN list : list[i].model = m /\ list[i].fresh # Unpriced}
  IN  [ m \in DOMAIN BuiltIn \cup {x \in Models : Offered(x) # {}} |->
          IF m \in DOMAIN BuiltIn THEN BuiltIn[m] ELSE specOf(list[Min(Offered(m))]) ]

estimateCost(usage, pricing) == usage.fresh * pricing.fresh + usage.cached * pricing.cached

\* Mutant: a model nobody has heard of costs nothing.
priceOfFree(model, usage) ==
  LET prices == registryFor(services)
  IN  IF model \in DOMAIN prices THEN estimateCost(usage, prices[model]) ELSE 0

\* The list is asked for when the event is priced; it refuses to guess.
priceOf(model, usage) ==
  LET prices == registryFor(services)
  IN  IF model \in DOMAIN prices THEN estimateCost(usage, prices[model]) ELSE Unpriced

-------------------------------------------------------------------------------
(* A call.                                                                 *)

Ask(c) ==
  /\ calls[c].phase = "idle"
  /\ \E how \in {"complete", "stream"}, m \in Models :
       calls' = [calls EXCEPT ![c] = [Idle EXCEPT !.how = how, !.model = m, !.phase = "asked"]]
  /\ UNCHANGED <<services, staff, rows, told, repricings, deaths, listed>>

\* A whole answer, or none.
Complete(c) ==
  /\ calls[c].phase = "asked" /\ calls[c].how = "complete"
  /\ \/ \E u \in Usages :
          calls' = [calls EXCEPT ![c].phase = "recording", ![c].done = TRUE, ![c].usage = u,
                                 ![c].did = "answered"]
     \/ calls' = [calls EXCEPT ![c].phase = "recording", ![c].did = "failed"]
  /\ UNCHANGED <<services, staff, rows, told, repricings, deaths, listed>>

\* An event of a stream goes to the reader, and the last of them says what was used.
Yield(c) ==
  /\ calls[c].phase = "asked" /\ calls[c].how = "stream"
  /\ \/ calls' = [calls EXCEPT ![c].phase = "read"]
     \/ \E u \in Usages :
          calls' = [calls EXCEPT ![c].phase = "read", ![c].done = TRUE, ![c].usage = u]
  /\ UNCHANGED <<services, staff, rows, told, repricings, deaths, listed>>

\* Mutant: a reader that breaks off leaves nothing to be recorded.
ReadOnUnmetered(c) ==
  /\ calls[c].phase = "read"
  /\ \/ calls' = [calls EXCEPT ![c].phase = "asked"]
     \/ calls' = [calls EXCEPT ![c].phase = "over", ![c].did = "left", ![c].outcome = "left"]
  /\ UNCHANGED <<services, staff, rows, told, repricings, deaths, listed>>

\* The reader asks for more, or breaks off.
ReadOn(c) ==
  /\ calls[c].phase = "read"
  /\ \/ calls' = [calls EXCEPT ![c].phase = "asked"]
     \/ calls' = [calls EXCEPT ![c].phase = "recording", ![c].did = "left"]
  /\ UNCHANGED <<services, staff, rows, told, repricings, deaths, listed>>

EndOfStream(c) ==
  /\ calls[c].phase = "asked" /\ calls[c].how = "stream"
  /\ \E did \in {"answered", "failed"} :
       calls' = [calls EXCEPT ![c].phase = "recording", ![c].did = did]
  /\ UNCHANGED <<services, staff, rows, told, repricings, deaths, listed>>

-------------------------------------------------------------------------------
(* The event.                                                              *)

\* Mutant: a stream that said what it used counts as answered, however it ended.
WholeIfDone(call) == call.done

\* Whether the call is down as one that worked.
Whole(call) == call.done /\ call.did # "failed"

Event(c) ==
  [ call |-> c, model |-> calls[c].model, who |-> CallerOf[c], ok |-> Whole(calls[c]),
    usage |-> calls[c].usage, cost |-> priceOf(calls[c].model, calls[c].usage) ]

Outcome(call) ==
  CASE call.did = "answered" -> "returned"
    [] call.did = "failed" -> "thrown"
    [] call.did = "left" -> "left"

\* Mutant: a loss of the measurement is the loss of the call.
SeenIfHeard(call, heard) == IF heard THEN Outcome(call) ELSE "thrown"

\* The caller gets what the provider did, whatever became of the event.
Seen(call, heard) == Outcome(call)

\* The event is priced and posted, and is filed or not; unless the office is heard to
\* have it, it is said to be lost.
Post(c) ==
  /\ calls[c].phase = "recording"
  /\ \E filed \in BOOLEAN, heard \in BOOLEAN :
       /\ heard => filed
       /\ rows' = IF filed THEN rows \cup {Event(c)} ELSE rows
       /\ told' = IF heard THEN told ELSE told \cup {c}
       /\ calls' = [calls EXCEPT ![c].phase = "over", ![c].outcome = Seen(calls[c], heard)]
  /\ listed' = [listed EXCEPT ![c] = services]
  /\ UNCHANGED <<services, staff, repricings, deaths>>

-------------------------------------------------------------------------------
(* What goes on around the calls.                                          *)

Reprice ==
  /\ repricings < MaxRepricings /\ repricings' = repricings + 1
  /\ services' \in ServiceLists \ {services}
  /\ UNCHANGED <<staff, calls, rows, told, deaths, listed>>

Leave ==
  /\ \E e \in staff : staff' = staff \ {e}
  /\ UNCHANGED <<services, calls, rows, told, repricings, deaths, listed>>

\* The process ends: its calls in flight are nobody's any more.
Die ==
  /\ deaths < MaxDeaths /\ deaths' = deaths + 1
  /\ calls' = [c \in Calls |-> IF calls[c].phase \in {"idle", "over"} THEN calls[c]
                               ELSE [calls[c] EXCEPT !.phase = "lost"]]
  /\ UNCHANGED <<services, staff, rows, told, repricings, listed>>

Init ==
  /\ services \in ServiceLists /\ staff = DOMAIN RoomOf
  /\ calls = [c \in Calls |-> Idle] /\ rows = {} /\ told = {}
  /\ repricings = 0 /\ deaths = 0 /\ listed = [c \in Calls |-> << >>]

Next ==
  \/ \E c \in Calls : Ask(c) \/ Complete(c) \/ Yield(c) \/ ReadOn(c) \/ EndOfStream(c) \/ Post(c)
  \/ Reprice \/ Leave \/ Die

Spec == Init /\ [][Next]_meter

-------------------------------------------------------------------------------
(* The report.                                                             *)

\* Mutant: a call without a price is one that cost nothing.
addAsZero(S) ==
  [ usd |-> MapThenSumSet(LAMBDA r : IF r.cost = Unpriced THEN 0 ELSE r.cost, S),
    calls |-> Cardinality(S), unpricedCalls |-> 0 ]

\* A line of the report: an unpriced call is counted and never added as zero.
add(S) ==
  [ usd |-> MapThenSumSet(LAMBDA r : IF r.cost = Unpriced THEN 0 ELSE r.cost, S),
    calls |-> Cardinality(S),
    unpricedCalls |-> Cardinality({r \in S : r.cost = Unpriced}) ]

\* A row says who and not where, so where is where they are now.
usageReport ==
  [ total |-> add(rows),
    byEmployee |-> [e \in {r.who : r \in rows} \ {Nobody} |-> add({r \in rows : r.who = e})],
    byDepartment |-> [d \in {RoomOf[e] : e \in {r.who : r \in rows} \cap staff} |->
                        add({r \in rows : r.who \in staff /\ RoomOf[r.who] = d})],
    byModel |-> [m \in {r.model : r \in rows} |-> add({r \in rows : r.model = m})] ]

-------------------------------------------------------------------------------

\* What a call used costs what the list in force said, and is unpriced if it said
\* nothing.
TrueCost(c, m, usage) ==
  LET said == {i \in DOMAIN listed[c] : listed[c][i].model = m /\ listed[c][i].fresh # Unpriced}
  IN  IF m \in DOMAIN BuiltIn
        THEN usage.fresh * BuiltIn[m].fresh + usage.cached * BuiltIn[m].cached
      ELSE IF said = {} THEN Unpriced
      ELSE LET o == listed[c][Min(said)]
           IN  usage.fresh * o.fresh
                 + usage.cached * (IF o.cached = Unpriced THEN o.fresh ELSE o.cached)

\* Every call is measured exactly once, by a row or by word that its event was lost,
\* before the caller goes on, unless the process ended under it; and it is down as it
\* went (usage.ts: "Wraps a provider so every call it makes is measured exactly once").
MeasuredOnce ==
  /\ \A r, s \in rows : r.call = s.call => r = s
  /\ \A c \in Calls : calls[c].phase = "over" => c \in Recorded \cup told
  /\ \A c \in Recorded : calls[c].phase = "over"
  /\ \A r \in rows :
       /\ r.ok <=> r.usage \in Usages /\ calls[r.call].did \in {"answered", "left"}
       /\ r.cost = TrueCost(r.call, r.model, r.usage)

\* Metering never fails the work it measures, nor saves it.
WorkGoesThrough ==
  \A c \in Calls : calls[c].phase = "over" =>
    /\ calls[c].outcome = "returned" <=> calls[c].did = "answered"
    /\ calls[c].outcome = "thrown" <=> calls[c].did = "failed"

SumOf(lines, f) == MapThenSumSet(LAMBDA k : lines[k][f], DOMAIN lines)

\* Nothing looks free that is not: however the report is cut, what it does not know the
\* price of is counted apart, and a cut leaves out nothing but what is nobody's.
NothingLooksFree ==
  LET report == usageReport
      dear == {r \in rows : r.cost = Unpriced \/ r.cost > 0}
  IN  /\ \A r \in dear :
           /\ LET line == report.byModel[r.model] IN line.usd > 0 \/ line.unpricedCalls > 0
           /\ r.who # Nobody =>
                LET line == report.byEmployee[r.who] IN line.usd > 0 \/ line.unpricedCalls > 0
           /\ r.who \in staff =>
                LET line == report.byDepartment[RoomOf[r.who]]
                IN  line.usd > 0 \/ line.unpricedCalls > 0
      /\ \A f \in {"usd", "calls", "unpricedCalls"} :
           /\ SumOf(report.byModel, f) = report.total[f]
           /\ SumOf(report.byEmployee, f) + add({r \in rows : r.who = Nobody})[f] = report.total[f]
===============================================================================
