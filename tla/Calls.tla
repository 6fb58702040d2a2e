--------------------------------- MODULE Calls ---------------------------------
(***************************************************************************)
(* Calls to a model on their way through the router                        *)
(* (llm/src/routing/router.ts) and the circuit breaker it shares between   *)
(* them (routing/circuit-breaker.ts): a call tries the models of its chain *)
(* in order, each as often as the retry policy says, and passes over those *)
(* whose provider is open.                                                 *)
(*                                                                         *)
(* A provider is external: a call to it answers, fails in a way worth      *)
(* retrying or not, or, streaming, delivers an event first.  How long a    *)
(* router sleeps between two attempts is left out, the time that passes    *)
(* meanwhile is not.                                                       *)
(***************************************************************************)
EXTENDS Naturals, FiniteSets, SequencesExt

CONSTANTS
  Providers,
  Settings,     \* a person's settings: [provider, fallbacks]
  Calls,
  MaxTries, Threshold, Window, Cooldown, TrialCalls,
  MaxInstant    \* bound: instants

CallConstants ==
  /\ \A c \in Settings : c.provider \in Providers /\ c.fallbacks \in Seq(Providers)
  /\ {MaxTries, Threshold, TrialCalls} \subseteq Nat \ {0}
  /\ {Window, MaxInstant} \subseteq Nat \ {0} /\ Cooldown \in Nat

VARIABLES
  time,
  breaker,    \* [Providers -> its entry]
  routes,     \* [Calls -> where each of them is]
  failed,     \* history: [Providers -> the latest failures since it last answered]
  streamed,   \* history: [Calls -> the attempts its events came from]
  tried,      \* history: [Calls -> what came of each candidate]
  leaked      \* history: providers whose trial ended without being recorded

callVars == <<time, breaker, routes, failed, streamed, tried, leaked>>

Never == 0

Entry == [failures |-> << >>, openedAt |-> Never, trials |-> 0]

State(entry) ==
  IF entry.openedAt = Never THEN "closed"
  ELSE IF time - entry.openedAt >= Cooldown THEN "half_open" ELSE "open"

PolicyFromLlmConfig(config) == <<config.provider>> \o config.fallbacks

Over == {"answered", "thrown", "exhausted", "abandoned"}
InFlight(c) == routes[c].stage = "calling"
ProviderOf(c) == routes[c].chain[routes[c].candidate]

CallsTypeOK ==
  /\ time \in 1 .. MaxInstant
  /\ \A p \in Providers :
       /\ breaker[p].failures \in Seq(1 .. MaxInstant) /\ Len(breaker[p].failures) < Threshold
       /\ breaker[p].openedAt \in 0 .. MaxInstant
       /\ breaker[p].trials \in 0 .. TrialCalls
  /\ \A c \in Calls :
       /\ routes[c].stage \in {"idle", "calling", "sleeping"} \cup Over
       /\ routes[c].attempt \in 0 .. MaxTries
       /\ routes[c].candidate \in 0 .. Len(routes[c].chain)

NotBegun == [stage |-> "idle", kind |-> "complete", chain |-> << >>, candidate |-> 0,
             attempt |-> 0, yielded |-> FALSE, trial |-> FALSE]

CallsInit ==
  /\ time = 1
  /\ breaker = [p \in Providers |-> Entry]
  /\ routes = [c \in Calls |-> NotBegun]
  /\ failed = [p \in Providers |-> << >>]
  /\ streamed = [c \in Calls |-> {}]
  /\ tried = [c \in Calls |-> << >>]
  /\ leaked = {}

\* Mutant: a provider that has cooled down lets everybody in.
CanRequestAll(entry) == State(entry) # "open"

CanRequest(entry) ==
  State(entry) = "closed" \/ (State(entry) = "half_open" /\ entry.trials < TrialCalls)

\* Mutant: an answer closes the breaker without clearing what failed before.
RecordSuccessKept(entry) == [entry EXCEPT !.openedAt = Never, !.trials = 0]

RecordSuccess(entry) == Entry

\* Mutant: failures are counted however long ago they were.
RecordFailureEver(entry) ==
  CASE State(entry) = "half_open" -> [entry EXCEPT !.openedAt = time, !.trials = 0]
    [] State(entry) = "open" -> entry
    [] OTHER ->
         LET recent == Append(entry.failures, time)
         IN IF Len(recent) >= Threshold
              THEN [failures |-> << >>, openedAt |-> time, trials |-> 0]
              ELSE [entry EXCEPT !.failures = recent]

\* What has failed within the window.  Failures are in the order of time, so those
\* that are too old are the first of them.
Recent(failures) ==
  LET old == {i \in DOMAIN failures : time - failures[i] >= Window}
  IN SubSeq(failures, Cardinality(old) + 1, Len(failures))

RecordFailure(entry) ==
  CASE State(entry) = "half_open" -> [entry EXCEPT !.openedAt = time, !.trials = 0]
    [] State(entry) = "open" -> entry
    [] OTHER ->
         LET recent == Append(Recent(entry.failures), time)
         IN IF Len(recent) >= Threshold
              THEN [failures |-> << >>, openedAt |-> time, trials |-> 0]
              ELSE [entry EXCEPT !.failures = recent]

Ended(call, stage) ==
  [call EXCEPT !.stage = stage, !.attempt = 0, !.yielded = FALSE, !.trial = FALSE]

\* A call goes on with its chain from candidate `from`, after what `came` of those
\* before: `to` is the first whose provider lets it in, where the breaker now is
\* `br`, or none is.
GoOn(c, call, from, br, came) ==
  LET LetIn(i) == i <= Len(call.chain) /\ CanRequest(br[call.chain[i]])
  IN \E to \in from .. Len(call.chain) + 1 :
       /\ \A i \in from .. to - 1 : ~LetIn(i)
       /\ tried' = [tried EXCEPT ![c] = came \o [i \in 1 .. to - from |-> "skipped"]]
       /\ \/ /\ to > Len(call.chain)
             /\ routes' = [routes EXCEPT ![c] = Ended(call, "exhausted")] /\ breaker' = br
          \/ /\ LetIn(to)
             /\ LET p == call.chain[to]
                    trial == State(br[p]) = "half_open"
                IN /\ routes' = [routes EXCEPT ![c] =
                        [call EXCEPT !.stage = "calling", !.candidate = to, !.attempt = 1,
                                     !.yielded = FALSE, !.trial = trial]]
                   /\ breaker' = IF trial THEN [br EXCEPT ![p].trials = @ + 1] ELSE br

\* A request comes to the router, to complete or to stream.
Begin(c) ==
  /\ routes[c].stage \in Over \cup {"idle"}
  /\ streamed' = [streamed EXCEPT ![c] = {}]
  /\ \E kind \in {"complete", "stream"}, config \in Settings :
       GoOn(c, [NotBegun EXCEPT !.kind = kind, !.chain = PolicyFromLlmConfig(config)], 1, breaker,
            << >>)
  /\ UNCHANGED <<time, failed, leaked>>

\* The first event of an attempt reaches whoever asked for the stream.
Yields(c) ==
  /\ InFlight(c) /\ routes[c].kind = "stream" /\ ~routes[c].yielded
  /\ routes' = [routes EXCEPT ![c].yielded = TRUE]
  /\ streamed' = [streamed EXCEPT ![c] = @ \cup {<<routes[c].candidate, routes[c].attempt>>}]
  /\ UNCHANGED <<time, breaker, failed, tried, leaked>>

Succeeds(c) ==
  /\ InFlight(c)
  /\ LET p == ProviderOf(c)
     IN /\ breaker' = [breaker EXCEPT ![p] = RecordSuccess(@)]
        /\ failed' = [failed EXCEPT ![p] = << >>]
        /\ leaked' = leaked \ {p}
  /\ routes' = [routes EXCEPT ![c] = Ended(@, "answered")]
  /\ tried' = [tried EXCEPT ![c] = Append(@, "success")]
  /\ UNCHANGED <<time, streamed>>

\* Mutant: an error that comes in the middle of a stream is retried too.
HandsOnAlways(c) == FALSE

\* An error the caller is handed as it is, however often the policy would retry.
HandsOn(c) == routes[c].yielded

\* The call ends without the breaker hearing of it.
EndsUnrecorded(c, stage) ==
  /\ routes' = [routes EXCEPT ![c] = Ended(@, stage)]
  /\ leaked' = IF routes[c].trial THEN leaked \cup {ProviderOf(c)} ELSE leaked
  /\ UNCHANGED <<time, breaker, failed, streamed, tried>>

\* An error not worth retrying, or one in the middle of a stream.
Throws(c) == InFlight(c) /\ EndsUnrecorded(c, "thrown")

\* Whoever asked for the stream turns away from it.
Abandons(c) == InFlight(c) /\ routes[c].yielded /\ EndsUnrecorded(c, "abandoned")

HasRetry(call) == call.attempt + 1 <= MaxTries

Fails(c) ==
  /\ InFlight(c) /\ ~HandsOn(c)
  /\ LET p == ProviderOf(c)
         halfOpen == State(breaker[p]) = "half_open"
         after == [breaker EXCEPT ![p] = RecordFailure(@)]
     IN /\ failed' = [failed EXCEPT ![p] =
             Append(IF Len(@) = Threshold THEN Tail(@) ELSE @, time)]
        /\ leaked' = IF halfOpen THEN leaked \ {p} ELSE leaked
        /\ IF HasRetry(routes[c])
             THEN /\ routes' = [routes EXCEPT ![c] = [@ EXCEPT !.stage = "sleeping", !.trial = FALSE]]
                  /\ breaker' = after /\ UNCHANGED tried
             ELSE GoOn(c, routes[c], routes[c].candidate + 1, after, Append(tried[c], "fallback"))
  /\ UNCHANGED <<time, streamed>>

\* Mutant: the attempt after a sleep is not counted.
RetriedUncounted(call) == [call EXCEPT !.stage = "calling", !.yielded = FALSE]

Retried(call) == [call EXCEPT !.stage = "calling", !.attempt = @ + 1, !.yielded = FALSE]

\* The delay is over: another attempt at the same model, whatever has become of
\* its provider meanwhile.
Wakes(c) ==
  /\ routes[c].stage = "sleeping"
  /\ routes' = [routes EXCEPT ![c] = Retried(@)]
  /\ UNCHANGED <<time, breaker, failed, streamed, tried, leaked>>

InstantPasses ==
  /\ time < MaxInstant /\ time' = time + 1
  /\ UNCHANGED <<breaker, routes, failed, streamed, tried, leaked>>

CallsNext ==
  \/ InstantPasses
  \/ \E c \in Calls :
       \/ Begin(c)
       \/ Yields(c)
       \/ Succeeds(c)
       \/ Throws(c)
       \/ Abandons(c)
       \/ Fails(c)
       \/ Wakes(c)

\* A provider answers or fails, sooner or later, and a delay ends.
CallGoesOn(c) == Succeeds(c) \/ Throws(c) \/ Fails(c) \/ Wakes(c)

CallsSpec == CallsInit /\ [][CallsNext]_callVars
FairCalls == CallsSpec /\ \A c \in Calls : WF_callVars(CallGoesOn(c))

-------------------------------------------------------------------------------

\* Whoever asked for a stream is given the events of one attempt, never the
\* beginning of one and then another from the start.
OneAttemptStreamed == \A c \in Calls : Cardinality(streamed[c]) <= 1

\* A call gives up on its chain only when each model of it was tried or passed
\* over, none of them answering, and answers from the one it has come to.
TriedInFull ==
  \A c \in Calls :
    /\ routes[c].stage = "exhausted" =>
         Len(tried[c]) = Len(routes[c].chain) /\ "success" \notin ToSet(tried[c])
    /\ routes[c].stage = "answered" => Len(tried[c]) = routes[c].candidate

\* A provider nobody is let in to, though it has cooled down, is being tried by
\* as many calls as may try it; the exception is one whose trial ended in an error
\* that is not recorded, or was abandoned.
TriedWhileRefused ==
  \A p \in Providers \ leaked :
    State(breaker[p]) = "half_open" /\ ~CanRequest(breaker[p]) =>
      \E c \in Calls : InFlight(c) /\ routes[c].trial /\ ProviderOf(c) = p

\* A provider is opened only by failures that came close together, with no answer
\* between them, or by one more when it has been open before.
OpensForCause ==
  \A p \in Providers :
    breaker[p].openedAt = Never /\ breaker'[p].openedAt # Never =>
      Cardinality({i \in DOMAIN failed'[p] : time - failed'[p][i] < Window}) >= Threshold

\* Whatever the providers do: a caller is given one attempt's events, or the answer
\* of a model it has come to; a provider that has cooled down and lets nobody in is
\* being tried, and one is given up on for cause (router.ts, circuit-breaker.ts).
CallsHold ==
  /\ [](CallsTypeOK /\ OneAttemptStreamed /\ TriedInFull /\ TriedWhileRefused)
  /\ [][OpensForCause]_callVars

\* A call that has not ended, whatever fails.
CallUnderway(c) == routes[c].stage \in {"calling", "sleeping"}
===============================================================================
