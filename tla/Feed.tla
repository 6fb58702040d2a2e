--------------------------------- MODULE Feed ---------------------------------
(***************************************************************************)
(* The change feed of an office (storage/src/stores/change-feed.ts) over   *)
(* the event stores (stores/in-memory.ts, adapters/sqlite/sqlite-events.ts)*)
(* whose pages it polls: a poller for as long as somebody is subscribed,   *)
(* which asks for what happened from the last instant it has seen and      *)
(* passes over what it saw of that instant.                                *)
(*                                                                         *)
(* An event carries the time its author stamped on it and an id drawn at   *)
(* random.  The stores append it whatever the stamp, so it may be written  *)
(* after later ones, or carry an instant that is still to come.  How long  *)
(* a poller waits between two polls is left out.                           *)
(***************************************************************************)
EXTENDS Naturals, FiniteSets, SequencesExt

CONSTANTS
  Arrivals,    \* the events of the office, each [id, at]; the first is there, the
               \* others are appended in any order
  Handlers,
  PageSize,
  MaxTime,     \* bound: instants
  MaxSubs,     \* bound: subscriptions
  MaxFaults    \* bound: queries that fail, handlers that throw

VARIABLES
  time,
  said,       \* the events appended
  pollers,    \* every poller started; a new subscription may start another
  current,    \* the one in the feed's map, or 0
  subs, faults,
  delivered,  \* history: [Handlers -> the events of its subscription]
  owed        \* history: [handler, event] appended while it was subscribed and not passed

vars == <<time, said, pollers, current, subs, faults, delivered, owed>>

Events == Range(Arrivals)
EventIds == {e.id : e \in Events}
Poller == [since : 1 .. MaxTime, seen : SUBSET EventIds, handlers : SUBSET Handlers,
           state : {"waiting", "asking", "over"}, page : Seq(Events)]

TypeOK ==
  /\ time \in 1 .. MaxTime
  /\ said \subseteq Events
  /\ pollers \in Seq(Poller) /\ Len(pollers) <= MaxSubs
  /\ current \in 0 .. Len(pollers)
  /\ owed \subseteq Handlers \X EventIds

Init ==
  /\ time = 1 /\ said = {Arrivals[1]} /\ pollers = << >> /\ current = 0 /\ subs = 0 /\ faults = 0
  /\ delivered = [h \in Handlers |-> << >>] /\ owed = {}

Subscribed == IF current = 0 THEN {} ELSE pollers[current].handlers
Precedes(e, f) == e.at < f.at \/ (e.at = f.at /\ e.id < f.id)

Sorted == SortSeq(Arrivals, Precedes)

\* The first page of what happened at `since` or later.
Query(since) ==
  LET all == SelectSeq(Sorted, LAMBDA e : e \in said /\ e.at >= since)
  IN SubSeq(all, 1, IF Len(all) < PageSize THEN Len(all) ELSE PageSize)

\* An instant that fills a page hides everything behind it.
Crowded == \E at \in 1 .. MaxTime : Cardinality({e \in said : e.at = at}) >= PageSize

\* The event lies behind something its poller has heard of, and no later poll asks
\* for it.
Passed(e) ==
  \/ e.at < pollers[current].since
  \/ \E n \in DOMAIN pollers[current].page : e.at < pollers[current].page[n].at

\* The store takes an event whatever its stamp.
AppendEvent ==
  /\ \E e \in Events \ said :
       /\ said' = said \cup {e}
       /\ owed' = owed \cup {<<h, e.id>> : h \in {x \in Subscribed : ~Passed(e)}}
  /\ UNCHANGED <<time, pollers, current, subs, faults, delivered>>

TimePasses == time < MaxTime /\ time' = time + 1
              /\ UNCHANGED <<said, pollers, current, subs, faults, delivered, owed>>

Subscribe(h) ==
  /\ h \notin Subscribed /\ subs < MaxSubs /\ subs' = subs + 1
  /\ IF current # 0
       THEN pollers' = [pollers EXCEPT ![current].handlers = @ \cup {h}] /\ UNCHANGED current
       ELSE /\ pollers' = Append(pollers, [since |-> time, seen |-> {}, handlers |-> {h},
                                           state |-> "waiting", page |-> << >>])
            /\ current' = Len(pollers) + 1
  /\ UNCHANGED <<time, said, faults, delivered, owed>>

Unsubscribe(h) ==
  /\ h \in Subscribed
  /\ LET p == [pollers[current] EXCEPT !.handlers = @ \ {h}]
     IN IF p.handlers # {}
          THEN pollers' = [pollers EXCEPT ![current] = p] /\ UNCHANGED current
          ELSE /\ pollers' = [pollers EXCEPT ![current] =
                    IF p.state = "waiting" THEN [p EXCEPT !.state = "over"] ELSE p]
               /\ current' = 0
  /\ owed' = {o \in owed : o[1] # h}
  /\ delivered' = [delivered EXCEPT ![h] = << >>]
  /\ UNCHANGED <<time, said, subs, faults>>

\* Mutant: asks for what happened after the last instant it has seen.
AskStoreAfter(p) ==
  /\ pollers[p].state = "waiting"
  /\ pollers' = [pollers EXCEPT ![p] =
       IF current = 0 THEN [@ EXCEPT !.state = "over"]
       ELSE [@ EXCEPT !.state = "asking", !.page = Query(pollers[p].since + 1)]]
  /\ UNCHANGED <<time, said, current, subs, faults, delivered, owed>>

\* The timer of a poller runs out.  One left over from before everybody had
\* unsubscribed goes on while there is any poller for the office.
AskStore(p) ==
  /\ pollers[p].state = "waiting"
  /\ pollers' = [pollers EXCEPT ![p] =
       IF current = 0 THEN [@ EXCEPT !.state = "over"]
       ELSE [@ EXCEPT !.state = "asking", !.page = Query(pollers[p].since)]]
  /\ UNCHANGED <<time, said, current, subs, faults, delivered, owed>>

\* Mutant: what was seen of an instant is forgotten with every poll.
HeardInAgain(p, page) ==
  [since |-> IF page = << >> THEN pollers[p].since ELSE Last(page).at, seen |-> {},
   fresh |-> page]

\* What a poller makes of a page: `fresh` are the events it has not seen.
HeardIn(p, page) ==
  LET seen == pollers[p].seen
      fresh == SelectSeq(page, LAMBDA e : e.at > pollers[p].since \/ e.id \notin seen)
      since == IF fresh = << >> THEN pollers[p].since ELSE Last(fresh).at
  IN [since |-> since, fresh |-> fresh,
      seen |-> {e.id : e \in {f \in ToSet(fresh) : f.at = since}}
                 \cup IF since = pollers[p].since THEN seen ELSE {}]

Settle(p, heard) ==
  pollers' = [pollers EXCEPT ![p] = [@ EXCEPT !.since = heard.since, !.seen = heard.seen,
                !.page = << >>, !.state = IF current = 0 THEN "over" ELSE "waiting"]]

Told(hs, fresh) == [h \in Handlers |-> IF h \in hs THEN delivered[h] \o fresh ELSE delivered[h]]

Deliver(p) ==
  /\ pollers[p].state = "asking"
  /\ LET heard == HeardIn(p, pollers[p].page)
         hs == pollers[p].handlers
     IN /\ Settle(p, heard)
        /\ delivered' = Told(hs, heard.fresh)
        /\ owed' = owed \ (hs \X {e.id : e \in ToSet(heard.fresh)})
  /\ UNCHANGED <<time, said, current, subs, faults>>

\* A handler throws: those after it are not told of that event, now or later, and
\* the rest of the page waits for the next poll.
DeliverPart(p) ==
  /\ pollers[p].state = "asking" /\ faults < MaxFaults
  /\ \E n \in DOMAIN pollers[p].page :
       LET heard == HeardIn(p, SubSeq(pollers[p].page, 1, n))
           before == HeardIn(p, SubSeq(pollers[p].page, 1, n - 1))
           hs == pollers[p].handlers
       IN /\ heard.fresh # before.fresh
          /\ Settle(p, heard)
          /\ \E told \in SUBSET hs \ {{}} :
               delivered' = [h \in Handlers |-> IF h \in told THEN Told(hs, heard.fresh)[h]
                                                ELSE Told(hs, before.fresh)[h]]
          /\ owed' = owed \ (hs \X {e.id : e \in ToSet(heard.fresh)})
  /\ faults' = faults + 1
  /\ UNCHANGED <<time, said, current, subs>>

QueryFails(p) ==
  /\ pollers[p].state = "asking" /\ faults < MaxFaults
  /\ Settle(p, HeardIn(p, << >>))
  /\ faults' = faults + 1
  /\ UNCHANGED <<time, said, current, subs, delivered, owed>>

Next ==
  \/ TimePasses
  \/ AppendEvent
  \/ \E h \in Handlers : Subscribe(h) \/ Unsubscribe(h)
  \/ \E p \in DOMAIN pollers :
       \/ AskStore(p)
       \/ Deliver(p)
       \/ DeliverPart(p)
       \/ QueryFails(p)

Polls(p) == p \in DOMAIN pollers /\ (AskStore(p) \/ Deliver(p))

Spec == Init /\ [][Next]_vars
FairSpec == Spec /\ \A p \in 1 .. MaxSubs : WF_vars(Polls(p))

-------------------------------------------------------------------------------

\* No handler is told of an event twice or out of the order of the instants, over
\* polls that fail, pages cut short by a throwing handler and subscriptions that
\* come and go while a poll is under way.
ToldOnceInOrder ==
  \A h \in Handlers :
    /\ IsInjective(delivered[h])
    /\ \A i, j \in DOMAIN delivered[h] : i < j => delivered[h][i].at <= delivered[h][j].at

\* A handler that stays subscribed is told of everything appended since, unless the
\* event was written behind something later that its poller had already heard of, a
\* single instant fills a page, or a handler before it threw.
EventuallyTold == (owed # {} /\ ~Crowded) ~> (owed = {} \/ Crowded)
===============================================================================
