----------------------------- MODULE Conversation -----------------------------
(***************************************************************************)
(* One run of an agent, turn by turn (orchestrator/src/run/                *)
(* agent-run-loop.ts): the model is asked, the calls it makes are held for *)
(* a person or performed, and the conversation with their results is       *)
(* written down (run/checkpoint.ts) so that another worker can go on.      *)
(* Around it: the budget (run/token-budget.ts), the compaction of a        *)
(* conversation that grows too long (run/compaction.ts), the gate          *)
(* (run/approval-gate.ts) and the tools that are loaded when looked for    *)
(* (tools/lazy-toolset.ts).                                                *)
(*                                                                         *)
(* The model, the tools and the person are external.  A call is the answer *)
(* it came with and the tool it names; a tool stands for its input too.    *)
(* What a message takes up is the number of its calls, or results.  Calls  *)
(* are performed one by one; their order within an answer is left open.    *)
(***************************************************************************)
EXTENDS Naturals, FiniteSets, SequencesExt

CONSTANTS
  Catalog,         \* what this employee may call
  Gated,           \* those of them a person decides about
  ResultSize,      \* what a result takes up; a call takes up 1
  MaxBytes,        \* of a checkpoint
  TriggerTokens, KeepRecent,
  BudgetLimit, SpendThreshold, AnswerCost,
  MaxSteps, LoopThreshold, MaxLoaded,
  MaxAsks,         \* bound: answers of the model
  MaxFaults        \* bound: crashes, checkpoints that cannot be kept, answers not given

FIND == "find_tool"

ConversationConstants ==
  /\ IsFiniteSet(Catalog) /\ Gated \subseteq Catalog /\ FIND \notin Catalog
  /\ {ResultSize, MaxBytes, TriggerTokens, KeepRecent, AnswerCost, MaxSteps, MaxLoaded}
       \subseteq Nat \ {0}
  /\ {BudgetLimit, SpendThreshold, MaxAsks, MaxFaults} \subseteq Nat
  /\ LoopThreshold \in Nat \ {0, 1}

VARIABLES
  phase,      \* what the worker is doing
  messages, step, spent, spendApproved,
  counts,     \* how often each call was made, in this worker's life
  active,     \* the tools loaded, the least recently used first
  todo,       \* the calls of the step not performed yet
  results,    \* those that are
  known,      \* the decisions this turn was given
  saved,      \* the checkpoint
  decisions,  \* what a person decided
  asks, faults,
  paid,       \* history: what the provider was paid
  slips,      \* history: crashes and checkpoints not kept
  made,       \* history: calls performed
  outcomes,   \* history: how the run ended, each time it did
  forgotten   \* history: calls held whose checkpoint was not kept, or not whole

vars == <<phase, messages, step, spent, spendApproved, counts, active, todo, results, known,
          saved, decisions, asks, faults, paid, slips, made, outcomes, forgotten>>

loop == <<messages, step, spent, spendApproved, counts, active, todo, results, known>>

\* What a decision about the spending of a run is kept under, like one about a call.
SPEND == <<0, "spend">>
None == [finished |-> "none", messages |-> << >>, spent |-> 0, spendApproved |-> FALSE]

SETTLED_REASONS ==
  {"completed", "step_limit", "loop_detected", "budget_exhausted", "spend_declined"}

Brief == [role |-> "brief", ids |-> {}]
Said(calls) == [role |-> "assistant", ids |-> calls]
Answered(calls) == [role |-> "results", ids |-> calls]
Summary == [role |-> "summary", ids |-> {}]

Call == (1 .. MaxAsks) \X (Catalog \cup {FIND})
Message == [role : {"brief", "assistant", "results", "summary"}, ids : SUBSET Call]

TypeOK ==
  /\ phase \in {"idle", "driving", "performing", "waiting", "over"}
  /\ messages \in Seq(Message)
  /\ step \in 0 .. MaxSteps
  /\ todo \subseteq Call /\ results \subseteq Call
  /\ \A t \in Catalog \cup {FIND} : counts[t] \in 0 .. LoopThreshold
  /\ active \in Seq(Catalog) /\ IsInjective(active) /\ Len(active) <= MaxLoaded
  /\ saved.finished \in SETTLED_REASONS \cup {"none", "no"}
  /\ outcomes \subseteq SETTLED_REASONS

Init ==
  /\ phase = "idle" /\ messages = <<Brief>> /\ step = 0 /\ spent = 0 /\ spendApproved = FALSE
  /\ counts = [t \in Catalog \cup {FIND} |-> 0] /\ active = << >>
  /\ todo = {} /\ results = {} /\ known = {} /\ saved = None /\ decisions = {}
  /\ asks = 0 /\ faults = 0 /\ paid = 0 /\ slips = 0 /\ made = {} /\ outcomes = {}
  /\ forgotten = {}

Fault == faults < MaxFaults /\ faults' = faults + 1

-------------------------------------------------------------------------------
(* Conversations.                                                          *)

Size(m) ==
  CASE m.role = "assistant" -> Cardinality(m.ids)
    [] m.role = "results" -> ResultSize * Cardinality(m.ids)
    [] OTHER -> 1

ConversationTokens(msgs) ==
  LET upTo[n \in 0 .. Len(msgs)] == IF n = 0 THEN 0 ELSE upTo[n - 1] + Size(msgs[n])
  IN upTo[Len(msgs)]

ToolUseIds(msgs) == UNION {m.ids : m \in {x \in ToSet(msgs) : x.role = "assistant"}}
Results(msgs) == UNION {m.ids : m \in {x \in ToSet(msgs) : x.role = "results"}}

\* Mutant: a call is taken for answered wherever its result is.
HasOrphanNever(tail) == FALSE

HasOrphanToolResult(tail) == ~(Results(tail) \subseteq ToolUseIds(tail))

\* The last n messages.
Last_n(msgs, n) == SubSeq(msgs, Len(msgs) - n + 1, Len(msgs))

\* Tool calls at the end of the conversation with no results yet.
TrailingToolCalls(msgs) == IF Last(msgs).role = "assistant" THEN Last(msgs).ids ELSE {}

\* Mutant: the messages to keep are counted off whatever they refer to.
KeptBlindly(msgs) == IF KeepRecent < Len(msgs) - 1 THEN KeepRecent ELSE Len(msgs) - 1

\* How many of the latest messages survive a compaction: the fewest that are
\* enough and refer to no call before them.
Kept(msgs) ==
  LET enough == IF KeepRecent < Len(msgs) - 1 THEN KeepRecent ELSE Len(msgs) - 1
      whole == {n \in enough .. Len(msgs) - 1 : ~HasOrphanToolResult(Last_n(msgs, n))}
  IN IF whole = {} THEN Len(msgs) - 1 ELSE CHOOSE n \in whole : \A k \in whole : n <= k

\* What may become of a conversation before the model is asked.  The summariser
\* is external: it may fail, and what it writes may be too long.
Compact(msgs) ==
  LET shorter == <<msgs[1], Summary>> \o Last_n(msgs, Kept(msgs))
  IN IF /\ ConversationTokens(msgs) >= TriggerTokens
        /\ Kept(msgs) < Len(msgs) - 1
        /\ ConversationTokens(shorter) < ConversationTokens(msgs)
       THEN {msgs, shorter} ELSE {msgs}

CheckpointBytes(cp, pending) == ConversationTokens(cp.messages) + Cardinality(pending)

\* Mutant: the tail that fits is kept, whatever it refers to.
BoundBlindly(cp, pending) ==
  LET rest == Tail(cp.messages)
      Trimmed(n) == [cp EXCEPT !.messages = <<cp.messages[1]>> \o Last_n(rest, n)]
      fit == {n \in 0 .. Len(rest) - 1 : CheckpointBytes(Trimmed(n), pending) <= MaxBytes}
  IN IF CheckpointBytes(cp, pending) <= MaxBytes THEN cp
     ELSE Trimmed(IF fit = {} THEN 0 ELSE CHOOSE n \in fit : \A k \in fit : k <= n)

\* A checkpoint that is too large keeps the brief and as long a tail as fits and
\* refers to nothing before it.
BoundCheckpoint(cp, pending) ==
  LET rest == Tail(cp.messages)
      Trimmed(n) == [cp EXCEPT !.messages = <<cp.messages[1]>> \o Last_n(rest, n)]
      fit == {n \in 0 .. Len(rest) - 1 :
                /\ ~HasOrphanToolResult(Last_n(rest, n))
                /\ CheckpointBytes(Trimmed(n), pending) <= MaxBytes}
  IN IF CheckpointBytes(cp, pending) <= MaxBytes THEN cp
     ELSE Trimmed(IF fit = {} THEN 0 ELSE CHOOSE n \in fit : \A k \in fit : k <= n)

-------------------------------------------------------------------------------
(* The worker.                                                             *)

\* Progress is written down; an office that does not keep it is lived with.
SaveCheckpoint(msgs, cost, ok, finished, pending) ==
  \E cp \in {BoundCheckpoint([finished |-> finished, messages |-> msgs, spent |-> cost,
                             spendApproved |-> ok], pending)} :
     \/ /\ saved' = cp
        /\ forgotten' = forgotten \cup (pending \ (ToolUseIds(cp.messages) \cup {SPEND}))
        /\ UNCHANGED <<faults, slips>>
     \/ /\ Fault /\ slips' = slips + 1
        /\ UNCHANGED saved
        /\ forgotten' = forgotten \cup (pending \ {SPEND})

\* Mutant: only what was answered in full is taken for the end of a run.
SettledWhen(reason) == IF reason = "completed" THEN reason ELSE "no"

Settled(reason) == IF reason \in SETTLED_REASONS THEN reason ELSE "no"

\* The run ends, or stops: it is written down once more.
Finish(reason, msgs, cost, ok, pending) ==
  /\ phase' = CASE reason = "awaiting_approval" -> "waiting"
                [] reason = "provider_error" -> "idle"
                [] OTHER -> "over"
  /\ messages' = msgs /\ spent' = cost /\ spendApproved' = ok
  /\ outcomes' = outcomes \cup ({reason} \cap SETTLED_REASONS)
  /\ SaveCheckpoint(msgs, cost, ok, Settled(reason), pending)
  /\ todo' = {} /\ results' = {}

Fresh == [t \in Catalog \cup {FIND} |-> 0]

\* Mutant: a run that is taken up again starts its spending over.
AdoptNothing(cp) == 0

Adopt(cp) == cp.spent

\* A turn begins: an outcome that was written down is handed back, a run that was
\* goes on, and anything else starts.  A job may be handed out again.
Start ==
  /\ phase = "idle" \/ (phase = "over" /\ Fault) \/ (phase = "waiting" /\ decisions # known)
  /\ phase # "over" => UNCHANGED faults
  /\ known' = decisions /\ todo' = {} /\ results' = {}
  /\ step' = 0 /\ counts' = Fresh /\ active' = << >>
  /\ IF saved = None
       THEN messages' = <<Brief>> /\ spent' = 0 /\ spendApproved' = FALSE
       ELSE messages' = saved.messages /\ spent' = Adopt(saved)
            /\ spendApproved' = saved.spendApproved
  /\ phase' = IF saved.finished \in SETTLED_REASONS THEN "over" ELSE "driving"
  /\ outcomes' = outcomes \cup ({saved.finished} \cap SETTLED_REASONS)
  /\ UNCHANGED <<saved, decisions, asks, paid, slips, made, forgotten>>

Decided(id, decision) == <<id, decision>> \in known
DecidedAtAll(id) == Decided(id, "approved") \/ Decided(id, "declined")

\* Mutant: somebody has decided about a call once anything was decided.
PendingFirst(calls, cost, ok) ==
  IF known # {} THEN {} ELSE {c \in calls : c[2] \in Gated}

\* What a person has yet to decide before these calls are performed.
PendingApprovalFor(calls, cost, ok) ==
  {c \in calls : c[2] \in Gated /\ ~DecidedAtAll(c)}
    \cup {x \in {SPEND} : ~ok /\ cost >= SpendThreshold /\ ~DecidedAtAll(SPEND)}

Looped(now) == \E t \in DOMAIN now : now[t] >= LoopThreshold

\* The calls of an answer, new or left over from before a person decided.
Take(calls, msgs, cost) ==
  LET now == [t \in DOMAIN counts |-> counts[t] + Cardinality({c \in calls : c[2] = t})]
      pending == PendingApprovalFor(calls, cost, spendApproved)
  IN /\ counts' = now
     /\ CASE Looped(now) -> Finish("loop_detected", msgs, cost, spendApproved, {})
          [] ~Looped(now) /\ pending # {} ->
               Finish("awaiting_approval", msgs, cost, spendApproved, pending)
          [] ~Looped(now) /\ pending = {} /\ Decided(SPEND, "declined") ->
               Finish("spend_declined", msgs, cost, spendApproved, {})
          [] OTHER ->
               /\ phase' = "performing" /\ todo' = calls /\ results' = {}
               /\ messages' = msgs /\ spent' = cost
               /\ spendApproved' = (spendApproved \/ Decided(SPEND, "approved"))
               /\ UNCHANGED <<saved, outcomes, faults, slips, forgotten>>

\* Mutant: the budget is looked at one answer late.
ExhaustedLate == spent > BudgetLimit

Exhausted == spent >= BudgetLimit

Driving == phase = "driving"

StepLimit ==
  /\ Driving /\ step >= MaxSteps
  /\ Finish("step_limit", messages, spent, spendApproved, {})
  /\ UNCHANGED <<step, counts, active, known, decisions, asks, paid, made>>

BudgetExhausted ==
  /\ Driving /\ step < MaxSteps /\ Exhausted
  /\ Finish("budget_exhausted", messages, spent, spendApproved, {})
  /\ UNCHANGED <<step, counts, active, known, decisions, asks, paid, made>>

MayGoOn == Driving /\ step < MaxSteps /\ ~Exhausted

\* A conversation that ends on calls with no results goes on with those.
ResumeCalls ==
  /\ MayGoOn /\ TrailingToolCalls(messages) # {}
  /\ Take(TrailingToolCalls(messages), messages, spent)
  /\ UNCHANGED <<step, active, known, decisions, asks, paid, made>>

MayAsk == MayGoOn /\ TrailingToolCalls(messages) = {}

AskModel ==
  /\ MayAsk /\ asks < MaxAsks
  /\ asks' = asks + 1 /\ paid' = paid + AnswerCost
  /\ \E msgs \in Compact(messages), tools \in SUBSET (Catalog \cup {FIND}) :
       \E calls \in {{asks + 1} \X tools} : \E heard \in {Append(msgs, Said(calls))} :
          IF calls = {}
            THEN Finish("completed", heard, spent + AnswerCost, spendApproved, {}) /\ UNCHANGED counts
            ELSE Take(calls, heard, spent + AnswerCost)
  /\ UNCHANGED <<step, active, known, decisions, made>>

ProviderFails ==
  /\ MayAsk /\ faults < MaxFaults
  /\ \E msgs \in Compact(messages) :
       /\ messages' = msgs
       /\ saved' = BoundCheckpoint([finished |-> "no", messages |-> msgs, spent |-> spent,
                                    spendApproved |-> spendApproved], {})
  /\ Fault
  /\ phase' = "idle"
  /\ UNCHANGED <<step, spent, spendApproved, counts, active, todo, results, known, decisions,
                 asks, paid, slips, made, outcomes, forgotten>>

\* A tool is loaded, and the least recently found make room for it.
Activate(tool) ==
  LET at == {i \in DOMAIN active : active[i] = tool}
      others == IF at = {} THEN active ELSE RemoveAt(active, CHOOSE i \in at : TRUE)
      now == Append(others, tool)
  IN IF Len(now) > MaxLoaded THEN Tail(now) ELSE now

\* Mutant: a call that was declined is performed when its run goes on.
PerformsAnyway(call) == TRUE

Performs(call) == ~Decided(call, "declined")

Perform ==
  /\ phase = "performing" /\ todo # {}
  /\ \E call \in todo :
       /\ todo' = todo \ {call} /\ results' = results \cup {call}
       /\ IF call[2] = FIND
            THEN (\E tool \in Catalog : active' = Activate(tool)) /\ UNCHANGED made
            ELSE /\ made' = IF Performs(call) THEN made \cup {call} ELSE made
                 /\ UNCHANGED active
  /\ UNCHANGED <<phase, messages, step, spent, spendApproved, counts, known, saved, decisions,
                 asks, faults, paid, slips, outcomes, forgotten>>

\* Every result of a step goes back in one message.
SaveStep ==
  /\ phase = "performing" /\ todo = {}
  /\ \E msgs \in {Append(messages, Answered(results))} :
       messages' = msgs /\ SaveCheckpoint(msgs, spent, spendApproved, "no", {})
  /\ phase' = "driving" /\ step' = step + 1 /\ results' = {}
  /\ UNCHANGED <<spent, spendApproved, counts, active, todo, known, decisions, asks, paid, made,
                 outcomes>>

\* The worker's process ends; the job is handed out again.
Crash ==
  /\ phase \in {"driving", "performing"} /\ Fault /\ slips' = slips + 1
  /\ phase' = "idle" /\ messages' = <<Brief>> /\ step' = 0 /\ spent' = 0
  /\ spendApproved' = FALSE /\ counts' = Fresh /\ active' = << >> /\ todo' = {} /\ results' = {}
  /\ known' = {}
  /\ UNCHANGED <<saved, decisions, asks, paid, made, outcomes, forgotten>>

\* A person decides about something the run is held at.
Decide ==
  /\ phase = "waiting"
  /\ \E x \in TrailingToolCalls(messages) \cup {SPEND}, d \in {"approved", "declined"} :
       /\ x = SPEND \/ x[2] \in Gated
       /\ ~\E e \in {"approved", "declined"} : <<x, e>> \in decisions
       /\ decisions' = decisions \cup {<<x, d>>}
  /\ UNCHANGED <<phase, loop, saved, asks, faults, paid, slips, made, outcomes, forgotten>>

Next ==
  \/ Start \/ StepLimit \/ BudgetExhausted \/ ResumeCalls \/ AskModel \/ ProviderFails
  \/ Perform \/ SaveStep \/ Crash \/ Decide

Works == (Start /\ phase = "idle") \/ StepLimit \/ BudgetExhausted \/ ResumeCalls \/ Perform
         \/ SaveStep \/ AskModel

Spec == Init /\ [][Next]_vars
FairSpec == Spec /\ WF_vars(Works)

-------------------------------------------------------------------------------

\* The model is asked about a whole conversation: it begins with the brief, every
\* result in it comes after its call, and every call before the last word has its
\* result, however often it was compacted, trimmed and taken up again.
AskedWhole ==
  MayAsk =>
    /\ messages[1] = Brief
    /\ \A i \in DOMAIN messages :
         /\ messages[i].role = "results" =>
              i > 1 /\ messages[i - 1] = Said(messages[i].ids)
         /\ messages[i].role = "assistant" =>
              i < Len(messages) /\ messages[i + 1] = Answered(messages[i].ids)

\* A call that needs a person is performed on that person's word, and a call that
\* was declined is not.
DecidedFirst ==
  \A c \in made : /\ c[2] \in Gated => <<c, "approved">> \in decisions
                  /\ <<c, "declined">> \notin decisions

\* What a run is paid for beyond its budget is one answer, and one more for every
\* crash or checkpoint that was not kept.
PaidWithinBudget ==
  paid = 0 \/ paid < BudgetLimit + AnswerCost * (1 + slips)

\* However often a run is handed out, it has one outcome, unless its end could not
\* be written down.
OneOutcome == slips = 0 => Cardinality(outcomes) <= 1

\* The model has nothing more to call, as the worker has it or as it is written down.
Completed == saved.finished = "completed" \/ (phase = "over" /\ Last(messages) = Said({}))

\* A run that ends by itself has made every call it was allowed to, but for those
\* held in a checkpoint that was not kept or not whole.
AllowedIsMade ==
  Completed =>
    \A d \in decisions : d[1] # SPEND /\ d[2] = "approved" => d[1] \in made \cup forgotten

\* A run asks about a whole conversation, makes the calls it was allowed to and no
\* other, stays within its budget and has one outcome (agent-run-loop.ts,
\* checkpoint.ts, compaction.ts, token-budget.ts, approval-gate.ts).
RunsHold ==
  /\ TypeOK
  /\ AskedWhole /\ DecidedFirst /\ PaidWithinBudget /\ OneOutcome /\ AllowedIsMade

\* A run that neither ended nor waits for a person, within the answers of the model.
Underway == phase \notin {"waiting", "over"} /\ asks < MaxAsks
===============================================================================
