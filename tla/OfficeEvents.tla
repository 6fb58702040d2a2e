----------------------------- MODULE OfficeEvents -----------------------------
(***************************************************************************)
(* The log of what happened in one office (apps/server/src/events.ts).     *)
(* Offsets count from 1 and are never reused; only the last `limit` events *)
(* are kept.  The log lives in the server's memory.                        *)
(***************************************************************************)
EXTENDS Integers, Sequences

Later(a, b) == IF a > b THEN a ELSE b

FreshLog == [events |-> << >>, next |-> 1]

\* Mutant: one too many is kept.
TrimmedLate(s, limit) == IF Len(s) > limit + 1 THEN Tail(s) ELSE s

Trimmed(s, limit) == IF Len(s) > limit THEN SubSeq(s, Len(s) - limit + 1, Len(s)) ELSE s

Event(log, data) == [offset |-> log.next, data |-> data]

Published(log, limit, data) ==
  [ events |-> Trimmed(Append(log.events, Event(log, data)), limit),
    next   |-> log.next + 1 ]

\* The oldest offset that is kept.
Oldest(log) == log.next - Len(log.events)

\* Mutant: the first event after the offset is left out.
SincePast(log, offset) ==
  SubSeq(log.events, Later(1, offset - Oldest(log) + 3), Len(log.events))

\* The events after an offset: offsets run on, so these are the end of the log.
Since(log, offset) == SubSeq(log.events, Later(1, offset - Oldest(log) + 2), Len(log.events))

\* Mutant: off by one.
CanReplayFromBefore(log, offset) ==
  log.events = << >> \/ offset >= Head(log.events).offset - 2

CanReplayFrom(log, offset) == log.events = << >> \/ offset >= Head(log.events).offset - 1

\* Mutant: what the history no longer holds is taken for nothing.
ChangedSinceKnown(log, id, offset) ==
  \E i \in DOMAIN Since(log, offset) : Since(log, offset)[i].data.id = id

\* Nobody can prove a client up to date whom the history no longer reaches.
ChangedSince(log, id, offset) ==
  \/ ~CanReplayFrom(log, offset)
  \/ \E i \in DOMAIN Since(log, offset) : Since(log, offset)[i].data.id = id
===============================================================================
