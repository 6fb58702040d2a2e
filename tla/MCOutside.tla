------------------------------- MODULE MCOutside -------------------------------
(***************************************************************************)
(* What the office has to do with the world outside, model-checked in one  *)
(* run: each behaviour is one of the components at work, `part`, and       *)
(* leaves the others where they began.                                     *)
(*                                                                         *)
(* The calls: two, each down a chain of a model and its fallback, whose    *)
(* providers' breakers they share.  The run: one agent with a tool that    *)
(* needs a person and one that does not, a checkpoint too small for the    *)
(* whole conversation and a budget of three answers.  The tools: a turn of *)
(* two calls while the connector moves from a pipe to HTTP or back.        *)
(***************************************************************************)
EXTENDS Conversation, ToolServers, Calls

VARIABLE part

ASSUME CallConstants

ASSUME ConversationConstants

ASSUME ToolConstants

WithAFallback == {[provider |-> "p", fallbacks |-> <<"q">>]}

Kinds == [c \in {"pipe", "web"} |-> IF c = "pipe" THEN "stdio" ELSE "http"]

OverAPipe == {[connector |-> [enabled |-> TRUE, config |-> "pipe"],
               offers |-> [c \in {"pipe", "web"} |-> {"read"}]]}

-------------------------------------------------------------------------------
outsideVars == <<part, callVars, vars, toolVars>>

OutsideInit == part \in {"calls", "run", "tools"} /\ CallsInit /\ Init /\ ToolsInit

Routing == part = "calls" /\ CallsNext /\ UNCHANGED <<part, vars, toolVars>>
Running == part = "run" /\ Next /\ UNCHANGED <<part, callVars, toolVars>>
Reaching == part = "tools" /\ ToolsNext /\ UNCHANGED <<part, callVars, vars>>

OutsideNext == Routing \/ Running \/ Reaching

\* A provider answers or fails, a run is taken up and goes on, a server answers or
\* exits and the worker that waits for it goes on.  The two calls are alike: it is
\* the first that is followed, whatever the second does.
Working ==
  \/ part = "calls" /\ CallGoesOn("c1") /\ UNCHANGED <<part, vars, toolVars>>
  \/ part = "run" /\ Works /\ UNCHANGED <<part, callVars, toolVars>>
  \/ part = "tools" /\ Goes /\ UNCHANGED <<part, callVars, vars>>

OutsideSpec == OutsideInit /\ [][OutsideNext]_outsideVars /\ WF_outsideVars(Working)

-------------------------------------------------------------------------------

\* A call to a model ends, a run ends or waits for a person, and a tool's call ends
\* if its server answers or exits (router.ts, agent-run-loop.ts, mcp-connector.ts).
Unsettled ==
  CASE part = "calls" -> CallUnderway("c1") [] part = "run" -> Underway [] OTHER -> ToolUnderway
NothingHangs == Unsettled ~> ~Unsettled
===============================================================================
