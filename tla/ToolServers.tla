------------------------------ MODULE ToolServers ------------------------------
(***************************************************************************)
(* The tools a turn calls, and the servers behind them: the office's       *)
(* connector as the worker asks for it (apps/worker/src/office-tools.ts),  *)
(* the broker it holds for it (connectors/src/office-broker.ts and         *)
(* mcp/mcp-connector.ts), the session that broker opens (mcp/session.ts)   *)
(* and the server it speaks to, over a pipe (mcp/stdio.ts) or over HTTP    *)
(* (mcp/http.ts).  A turn also describes its tools once, by a broker of    *)
(* its own that nobody closes (apps/worker/src/job-handler.ts).            *)
(*                                                                         *)
(* One connector is modelled, and one turn at a time: a worker runs its    *)
(* jobs and a turn its calls one after the other.  What runs beside them   *)
(* are the servers, which change what they offer and exit as they like,    *)
(* and the people who edit the connector.  Gates, inputs and what a tool   *)
(* answers are left out; Conversation.tla has the gates.                   *)
(***************************************************************************)
EXTENDS Naturals, SequencesExt

CONSTANTS
  Tools,
  Configs,
  Kind,         \* [Configs -> the transport it asks for]
  Grants,       \* the grants a turn may come with
  TTL, MaxPages, MaxAttempts,
  Starts,       \* how the office and its servers may stand: [connector, offers]
  MaxTime, MaxEdits, MaxChanges, MaxMishaps, MaxTurns, MaxCalls  \* bounds

ToolConstants ==
  /\ Kind \in [Configs -> {"stdio", "http", "none"}]
  /\ Grants \subseteq SUBSET Tools
  /\ \A s \in Starts : /\ s.connector \in [enabled : BOOLEAN, config : Configs]
                       /\ s.offers \in [Configs -> SUBSET Tools]
  /\ {TTL, MaxPages, MaxAttempts, MaxTime} \subseteq Nat \ {0}
  /\ {MaxEdits, MaxChanges, MaxMishaps, MaxTurns, MaxCalls} \subseteq Nat

VARIABLES
  clock,
  connector,    \* the office's: [enabled, config]
  offers,       \* [Configs -> the tools its server offers]
  offeredAt,    \* history: [Configs -> [Tools -> when it last did]]
  servers,      \* the servers started so far, in order
  held,         \* the broker officeTools holds: [of, tools, listedAt]
  sessions,     \* [the brokers -> the session each has open]
  turn,
  used          \* bounds: [edits, changes, faults, turns]

toolVars == <<clock, connector, offers, offeredAt, servers, held, sessions, turn, used>>

Unconnected == [enabled |-> FALSE, config |-> "unconnected"]
Connectors == [enabled : BOOLEAN, config : Configs]
Unlisted == [known |-> FALSE, tools |-> {}, at |-> 0]

McpSession == [open |-> FALSE, child |-> 0, agreed |-> FALSE, closed |-> FALSE]

NoTurn == [at |-> "idle", side |-> "held", method |-> "list", tool |-> "nothing", attempt |-> 0,
           page |-> 0, got |-> {}, seen |-> Unconnected, granted |-> {}, catalogue |-> {},
           calls |-> 0, reached |-> 0, going |-> 0]

Busy == {"office", "closing", "consulting", "asking", "waiting"}

ToolsTypeOK ==
  /\ clock \in 1 .. MaxTime /\ connector \in Connectors
  /\ offers \in [Configs -> SUBSET Tools]
  /\ \A p \in DOMAIN servers :
       /\ servers[p].by \in {"own", "held"} /\ servers[p].config \in Configs
       /\ servers[p].asked \in {"nothing", "initialize", "list", "call"}
  /\ \A b \in {"own", "held"} : sessions[b].child \in 0 .. Len(servers)
  /\ turn.at \in {"idle", "deciding"} \cup Busy
  /\ turn.catalogue \subseteq Tools /\ turn.attempt \in 0 .. MaxAttempts - 1

ToolsInit ==
  /\ clock = 1
  /\ \E start \in Starts : connector = start.connector /\ offers = start.offers
  /\ offeredAt = [c \in Configs |-> [t \in Tools |-> IF t \in offers[c] THEN 1 ELSE 0]]
  /\ servers = << >>
  /\ held = [has |-> FALSE, of |-> Unconnected, list |-> Unlisted]
  /\ sessions = [b \in {"own", "held"} |-> McpSession]
  /\ turn = NoTurn
  /\ used = [edits |-> 0, changes |-> 0, faults |-> 0, turns |-> 0]

-------------------------------------------------------------------------------
\* Closing a transport ends a pipe, or the HTTP session it was given.

\* Mutant: a session is let go of without closing its transport.
CloseNothing(ss, session) == ss

Close(ss, session) ==
  IF session.child # 0
       /\ (Kind[ss[session.child].config] = "stdio" \/ session.agreed)
    THEN [ss EXCEPT ![session.child].closing = TRUE, ![session.child].pipe = << >>]
    ELSE ss

Forget(list, side) == IF side = "held" THEN [list EXCEPT !.list = Unlisted] ELSE list

Concluded(t) ==
  [NoTurn EXCEPT !.at = "deciding", !.granted = t.granted, !.catalogue = t.catalogue,
                 !.calls = t.calls]

\* Mutant: a call is made again for as long as it fails.
RetriesAlways(t) == t.method = "call"

\* A call that could not be made is made once more, a listing is not.
Retries(t) == t.method = "call" /\ t.attempt + 1 < MaxAttempts

\* What follows a session that failed: it is dropped, whatever it was asked for.
Fail(ss) ==
  LET session == sessions[turn.side]
  IN /\ servers' = Close(ss, session)
     /\ sessions' = [sessions EXCEPT ![turn.side] = McpSession]
     /\ held' = Forget(held, turn.side)
     /\ turn' = CASE turn.side = "own" -> [Concluded(turn) EXCEPT !.catalogue = {}]
                  [] Retries(turn) -> [turn EXCEPT !.at = "asking", !.attempt = @ + 1]
                  [] OTHER -> Concluded(turn)

\* The connector the requests of the turn go to.
Target == IF turn.side = "own" THEN turn.seen ELSE held.of

Server(method) ==
  [config |-> Target.config, by |-> turn.side, up |-> TRUE, closing |-> FALSE,
   greeted |-> FALSE, served |-> FALSE, asked |-> method, pipe |-> << >>]

\* A request of the turn is written: the session is opened, its server started and
\* introduced, as far as they are not.
Ask ==
  LET session == sessions[turn.side]
      method == IF session.agreed THEN turn.method ELSE "initialize"
      p == session.child
  IN /\ turn.at = "asking"
     /\ \/ /\ Kind[Target.config] = "none" \/ session.closed \/ (p # 0 /\ ~servers[p].up)
           /\ Fail(servers)
        \/ /\ Kind[Target.config] # "none" /\ ~session.closed /\ p # 0 /\ servers[p].up
           /\ servers' = [servers EXCEPT ![p].asked = method,
                                         ![p].served = @ \/ method # "initialize"]
           /\ turn' = [turn EXCEPT !.at = "waiting"]
           /\ UNCHANGED <<sessions, held>>
        \/ /\ Kind[Target.config] # "none" /\ ~session.closed /\ p = 0
           /\ servers' = Append(servers, [Server(method) EXCEPT !.served = method # "initialize"])
           /\ sessions' = [sessions EXCEPT ![turn.side].open = TRUE,
                                           ![turn.side].child = Len(servers) + 1]
           /\ turn' = [turn EXCEPT !.at = "waiting"]
           /\ UNCHANGED held
     /\ UNCHANGED <<clock, connector, offers, offeredAt, used>>

-------------------------------------------------------------------------------
\* What servers do: they answer, change what they offer, and exit.

Line(kind, tools, more) == [kind |-> kind, tools |-> tools, more |-> more]

Answers(server) ==
  CASE server.asked = "initialize" ->
         {Line("agreed", {}, FALSE)}
    [] server.asked = "list" ->
         {Line("page", offers[server.config], FALSE)}
           \cup {Line("page", {t}, TRUE) : t \in offers[server.config]}
    [] OTHER -> {Line("done", {}, FALSE)}

Serve(p) ==
  /\ servers[p].up /\ ~servers[p].closing /\ servers[p].asked # "nothing"
  /\ \E answer \in Answers(servers[p])
       \cup (IF used.faults < MaxMishaps THEN {Line("refused", {}, FALSE)} ELSE {}) :
       /\ servers' = [servers EXCEPT ![p].asked = "nothing", ![p].pipe = Append(@, answer),
                                     ![p].greeted = @ \/ answer.kind = "agreed"]
       /\ used' = [used EXCEPT !.faults = @ + IF answer.kind = "refused" THEN 1 ELSE 0]
       /\ turn' = [turn EXCEPT !.reached = @ + IF servers[p].asked = "call" THEN 1 ELSE 0]
  /\ UNCHANGED <<clock, connector, offers, offeredAt, held, sessions>>

\* Only a pipe carries what nobody asked for, and only the broker held listens.
ServerOffers(c, tools) ==
  /\ used.changes < MaxChanges /\ tools # offers[c]
  /\ offers' = [offers EXCEPT ![c] = tools]
  /\ offeredAt' = [offeredAt EXCEPT ![c] = [t \in Tools |-> IF t \in tools \cup offers[c]
                                                              THEN clock ELSE @[t]]]
  /\ servers' = [p \in DOMAIN servers |->
       IF servers[p].config = c /\ Kind[c] = "stdio" /\ sessions["held"].child = p
            /\ servers[p].greeted
         THEN [servers[p] EXCEPT !.pipe = Append(@, Line("changed", {}, FALSE))]
         ELSE servers[p]]
  /\ used' = [used EXCEPT !.changes = @ + 1]
  /\ UNCHANGED <<clock, connector, held, sessions, turn>>

\* Mutant: a transport whose server is gone may start another.
ShutStays(session) == [session EXCEPT !.child = 0]

Shut(session) == [session EXCEPT !.child = 0, !.closed = TRUE]

\* A server exits: a pipe's end is heard at once, an HTTP server is missed by a
\* request, and one that only described a turn's tools is missed no more after that.
Exits(p) ==
  LET piped == Kind[servers[p].config] = "stdio"
      gone == [servers EXCEPT ![p].up = FALSE, ![p].asked = "nothing", ![p].pipe = << >>]
      awaited == turn.at = "waiting" /\ turn.side = servers[p].by
      lost == sessions[servers[p].by].child = p /\ (piped \/ awaited)
  IN /\ servers[p].up
     /\ servers[p].closing \/ used.faults < MaxMishaps
     /\ servers[p].by = "own" => turn.at = "waiting" /\ turn.side = "own"
     /\ used' = [used EXCEPT !.faults = @ + IF servers[p].closing THEN 0 ELSE 1]
     /\ \/ /\ lost /\ awaited
           /\ Fail(gone)
        \/ /\ lost /\ ~awaited
           /\ servers' = gone
           /\ sessions' = [sessions EXCEPT ![servers[p].by] = Shut(@)]
           /\ UNCHANGED <<held, turn>>
        \/ /\ ~lost
           /\ servers' = gone
           /\ turn' = IF turn.at = "closing" /\ turn.going = p
                        THEN [turn EXCEPT !.at = "consulting", !.going = 0] ELSE turn
           /\ UNCHANGED <<held, sessions>>
     /\ UNCHANGED <<clock, connector, offers, offeredAt>>

\* A request over HTTP that takes too long, or is answered with an error.
TimesOut ==
  /\ turn.at = "waiting" /\ Kind[Target.config] = "http" /\ used.faults < MaxMishaps
  /\ used' = [used EXCEPT !.faults = @ + 1]
  /\ Fail([servers EXCEPT ![sessions[turn.side].child].asked = "nothing",
                          ![sessions[turn.side].child].pipe = << >>])
  /\ UNCHANGED <<clock, connector, offers, offeredAt>>

-------------------------------------------------------------------------------
\* What the worker does.

CatalogFor(granted, described) == granted \cap described

\* A turn begins by describing its tools, asking a broker made for the purpose.
BeginTurn(granted) ==
  /\ turn.at = "idle" /\ used.turns < MaxTurns
  /\ used' = [used EXCEPT !.turns = @ + 1]
  /\ turn' = [NoTurn EXCEPT !.at = IF connector.enabled THEN "asking" ELSE "deciding",
                            !.side = "own", !.seen = connector, !.granted = granted]
  /\ sessions' = [sessions EXCEPT !["own"] = McpSession]
  /\ UNCHANGED <<clock, connector, offers, offeredAt, servers, held>>

EndTurn ==
  /\ turn.at = "deciding"
  /\ turn' = NoTurn
  /\ UNCHANGED <<clock, connector, offers, offeredAt, servers, held, sessions, used>>

\* Mutant: any tool the model names is called.
CallableAny(tool) == TRUE

Callable(tool) == tool \in turn.catalogue

CallTool(tool) ==
  /\ turn.at = "deciding" /\ turn.calls < MaxCalls
  /\ turn' = [turn EXCEPT !.at = IF Callable(tool) THEN "office" ELSE "deciding",
                          !.side = "held", !.method = "list", !.tool = tool, !.calls = @ + 1]
  /\ UNCHANGED <<clock, connector, offers, offeredAt, servers, held, sessions, used>>

\* Mutant: a broker is good for as long as the connector is on.
SignatureOfSwitch(c) == c.enabled

SignatureOf(c) == c

\* The office says which connectors it has, or cannot be reached and is taken to
\* have none; a broker that is good no longer is replaced, and closed.
OfficeSays(now) ==
  /\ turn.at = "office"
  /\ now = Unconnected => used.faults < MaxMishaps
  /\ used' = [used EXCEPT !.faults = @ + IF now = Unconnected THEN 1 ELSE 0]
  /\ \/ /\ held.has /\ SignatureOf(held.of) = SignatureOf(now)
        /\ turn' = [turn EXCEPT !.at = "consulting", !.seen = now]
        /\ UNCHANGED <<held, sessions, servers>>
     \/ /\ ~(held.has /\ SignatureOf(held.of) = SignatureOf(now))
        /\ held' = [has |-> TRUE, of |-> now, list |-> Unlisted]
        /\ servers' = Close(servers, sessions["held"])
        /\ sessions' = [sessions EXCEPT !["held"] = McpSession]
        /\ LET going == {p \in DOMAIN servers : servers[p].up /\ p = sessions["held"].child
                                                  /\ servers'[p].closing}
           IN turn' = [turn EXCEPT !.at = IF going = {} THEN "consulting" ELSE "closing",
                                   !.going = IF going = {} THEN 0 ELSE sessions["held"].child,
                                   !.seen = now]
  /\ UNCHANGED <<clock, connector, offers, offeredAt>>

\* Mutant: a list is good until the server says it has changed.
FreshUntilTold(list) == list.known

FreshList(list) == list.known /\ clock - list.at < TTL

\* The turn that goes on once the tools are known: the call is made, or refused.
Knowing(t, tools) ==
  IF t.tool \in tools
    THEN [t EXCEPT !.at = "asking", !.method = "call", !.attempt = 0, !.page = 0, !.got = {}]
    ELSE Concluded(t)

Consult ==
  /\ turn.at = "consulting"
  /\ turn' = CASE ~held.of.enabled -> Concluded(turn)
               [] held.of.enabled /\ FreshList(held.list) -> Knowing(turn, held.list.tools)
               [] OTHER -> [turn EXCEPT !.at = "asking"]
  /\ UNCHANGED <<clock, connector, offers, offeredAt, servers, held, sessions, used>>

\* A page of tools has come: the next is asked for, or the list is complete.
Page(answer) ==
  LET got == turn.got \cup answer.tools
      ended == ~answer.more \/ turn.page + 1 = MaxPages
  IN CASE ~ended -> [turn EXCEPT !.at = "asking", !.page = @ + 1, !.got = got]
       [] ended /\ turn.side = "own" ->
            [Concluded(turn) EXCEPT !.catalogue = CatalogFor(turn.granted, got)]
       [] OTHER -> Knowing(turn, got)

Complete(answer) == turn.side = "held" /\ (~answer.more \/ turn.page + 1 = MaxPages)

\* What a pipe carried, n lines at a time: the notices in it are heard first, then
\* goes on who waited for the answer in it, and a list they outdate is kept.
Hear(p, n) ==
  LET lines == SubSeq(servers[p].pipe, 1, n)
      told == [held EXCEPT !.list = IF \E i \in 1 .. n : lines[i].kind = "changed"
                                         /\ servers[p].by = "held"
                                      THEN Unlisted ELSE @]
      answers == {lines[i] : i \in {j \in 1 .. n : lines[j].kind # "changed"}}
      rest == [servers EXCEPT ![p].pipe = SubSeq(@, n + 1, Len(@))]
  IN /\ n <= Len(servers[p].pipe) /\ ~servers[p].closing
     /\ sessions[servers[p].by].child = p
     /\ answers # {} => turn.at = "waiting" /\ turn.side = servers[p].by
     /\ \/ /\ answers = {}
           /\ servers' = rest /\ held' = told
           /\ UNCHANGED <<sessions, turn>>
        \/ \E answer \in answers :
             \/ /\ answer.kind = "refused"
                /\ Fail(rest)
             \/ /\ answer.kind = "agreed"
                /\ servers' = rest /\ held' = told
                /\ sessions' = [sessions EXCEPT ![turn.side].agreed = TRUE]
                /\ turn' = [turn EXCEPT !.at = "asking"]
             \/ /\ answer.kind = "page"
                /\ servers' = rest
                /\ turn' = Page(answer)
                /\ held' = IF Complete(answer)
                             THEN [told EXCEPT !.list = [known |-> TRUE, at |-> clock,
                                     tools |-> turn.got \cup answer.tools]]
                             ELSE told
                /\ UNCHANGED sessions
             \/ /\ answer.kind = "done"
                /\ servers' = rest /\ held' = told
                /\ turn' = Concluded(turn)
                /\ UNCHANGED sessions
     /\ UNCHANGED <<clock, connector, offers, offeredAt, used>>

-------------------------------------------------------------------------------
OfficeEdits(c) ==
  /\ used.edits < MaxEdits /\ c # connector
  /\ connector' = c
  /\ used' = [used EXCEPT !.edits = @ + 1]
  /\ UNCHANGED <<clock, offers, offeredAt, servers, held, sessions, turn>>

\* A listing is over within the instant it was begun in: a bound.
TimePasses ==
  /\ clock < MaxTime
  /\ ~(turn.at \in {"asking", "waiting"} /\ turn.method = "list")
  /\ clock' = clock + 1
  /\ offeredAt' = [c \in Configs |-> [t \in Tools |->
                     IF t \in offers[c] THEN clock' ELSE offeredAt[c][t]]]
  /\ UNCHANGED <<connector, offers, servers, held, sessions, turn, used>>

\* What the worker and the servers it waits for do, unless they stop.
Goes ==
  \/ OfficeSays(connector)
  \/ Consult
  \/ Ask
  \/ \E p \in DOMAIN servers : Serve(p)
  \/ \E p \in DOMAIN servers, n \in 1 .. 2 : Hear(p, n)
  \/ \E p \in DOMAIN servers : servers[p].closing /\ Exits(p)

ToolsNext ==
  \/ Goes
  \/ OfficeSays(Unconnected)
  \/ \E granted \in Grants : BeginTurn(granted)
  \/ \E tool \in Tools : CallTool(tool)
  \/ EndTurn
  \/ \E c \in Configs, tools \in SUBSET Tools : ServerOffers(c, tools)
  \/ \E p \in DOMAIN servers : Exits(p)
  \/ TimesOut
  \/ \E c \in Connectors : OfficeEdits(c)
  \/ TimePasses

ToolsSpec == ToolsInit /\ [][ToolsNext]_toolVars
FairTools == ToolsSpec /\ WF_toolVars(Goes)

-------------------------------------------------------------------------------
(* What the tools of a turn promise.                                         *)

\* No server is asked for its tools or for a call before it has been introduced,
\* whichever servers exit and whichever sessions are opened in their place.
IntroducedFirst == \A p \in DOMAIN servers : servers[p].served => servers[p].greeted

Calling == turn.at = "waiting" /\ turn.method = "call" /\ sessions["held"].child # 0

\* A call goes to the connector as the office had it when the call was asked for,
\* switched on and in that very configuration, and is one the turn was granted.
AsTheOfficeStands ==
  Calling => /\ turn.seen.enabled
             /\ servers[sessions["held"].child].config = turn.seen.config
             /\ turn.tool \in turn.granted

\* A call reaches a server twice at the most: again when it failed, or when what came
\* of it was lost with the server, and not a third time.
ReachedTwice == turn.reached <= MaxAttempts

\* Of the servers started for calls, those that run and were not told to go are
\* the one of the session held: none is left behind by an edit or a failure.
NoneLeftBehind ==
  \A p \in DOMAIN servers :
    servers[p].by = "held" /\ servers[p].up /\ ~servers[p].closing
      /\ Kind[servers[p].config] = "stdio"
      => sessions["held"].child = p

\* A tool is called that its server has offered within the time a list is kept,
\* though a notice that the list changed may be heard before the list itself.
CallsWhatWasOffered ==
  turn.method = "list" /\ turn'.at = "asking" /\ turn'.method = "call"
    => clock - offeredAt[held.of.config][turn.tool] < TTL

\* A turn's calls go, at most twice, to a server that was introduced, is the one the
\* office named and offered the tool of late; the others are told to go
\* (office-tools.ts, mcp-connector.ts, session.ts, stdio.ts).
ToolsHold ==
  /\ [](ToolsTypeOK /\ IntroducedFirst /\ AsTheOfficeStands /\ ReachedTwice /\ NoneLeftBehind)
  /\ [][CallsWhatWasOffered]_toolVars

\* A call, or the description of the tools, that has not ended; it does if the servers
\* answer or exit: a pipe has no time limit of its own.
ToolUnderway == turn.at \in Busy
===============================================================================
