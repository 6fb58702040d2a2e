-------------------------------- MODULE Canvas --------------------------------
(***************************************************************************)
(* One browser and its office: the office's records and event log, the     *)
(* event stream and how it comes back (web/src/api/stream.ts), the         *)
(* follower that fetches what an event names (web/src/office/follow.ts),   *)
(* and the store whose saves are shown before the office has answered      *)
(* (web/src/office/office-store.ts, api-client, the routes of server.ts).  *)
(*                                                                         *)
(* Records stand for the kinds of thing an office holds, one of each kind. *)
(* A store call resolves without giving another request its turn (memory   *)
(* and node:sqlite), so a route is one step except where it asks a model,  *)
(* a connector or a service.  `ver` counts the writes of a record.         *)
(***************************************************************************)
EXTENDS OfficeEvents, FiniteSets

CONSTANTS
  Records,
  Listed,        \* kinds fetched as a list, so that an absence is read too
  Restored,      \* kinds whose refused save shows what the office answered with
  HistoryLimit,
  Courses        \* what may happen in one course of events, one of these

\* The bounds are those of a course: writes by others, sockets opened and saves
\* begun by the canvas, the records touched, and what may go wrong.
Course ==
  [ records : SUBSET Records, mishaps : SUBSET {"unread", "unanswered", "restart"},
    writes : Nat, sockets : Nat \ {0}, saves : Nat ]

ASSUME CanvasConstants ==
  /\ Listed \subseteq Records /\ Restored \subseteq Records
  /\ HistoryLimit \in Nat \ {0}
  /\ Courses \subseteq Course

VARIABLES
  course,    \* the course of events, chosen once
  \* the office
  held,      \* [Records -> Version], what the store holds
  log,       \* its event log
  others,    \* writes by others so far
  lives,     \* how often the server was started
  \* the canvas
  shown,     \* [Records -> Version and whether it is the canvas's own preview]
  seen,      \* seenOffset
  sockets,   \* every socket opened so far, in order
  timer,     \* a reconnect is due
  reads,     \* fetches and reloads under way
  saves,     \* saves under way, those the canvas gave up on included
  begun,     \* saves so far
  \* what was said, for the properties
  history,   \* the record each event was about
  told,      \* offsets handed to the follower
  covered,   \* the offset up to which a reload was asked for
  best       \* the latest version the canvas had, or was told it could not have

office == <<course, held, log, others, lives, history>>
canvas == <<shown, seen, sockets, timer, reads, saves, begun>>
vars   == <<office, canvas, told, covered, best>>

\* `keeps`: the saves this value still contains.
Version == [ver : Nat, there : BOOLEAN, keeps : SUBSET Nat]
Unloaded == [ver |-> 0, there |-> FALSE, keeps |-> {}]

Entry == [is : Version, mine : BOOLEAN]

LogEntry == [offset : Nat \ {0}, data : [id : Records, gone : BOOLEAN, ver : Nat]]

\* What a socket carries: an event of the log, or that there was a gap.
Gap == [offset |-> 0, data |-> [id |-> "gap", gone |-> FALSE, ver |-> 0]]
Notice == LogEntry \cup {Gap}

SocketType == [state : {"open", "cut", "failed", "closed"}, retried : BOOLEAN, queue : Seq(Notice)]

Fetched(got) == DOMAIN got \subseteq Records /\ \A r \in DOMAIN got : got[r] \in Version

\* How far a save is: the value is what the route read, or what it answered with.
Stages == {"sent", "asking", "ok", "failed", "conflict", "lost"}
At(stage, value) == [stage |-> stage, value |-> value]

Save ==
  [ record : Records, what : {"patch", "switch", "ask", "remove", "add"}, number : Nat, since : Nat,
    before : Entry, at : [stage : Stages, value : Version], waited : BOOLEAN ]

TypeOK ==
  /\ course \in Courses
  /\ held \in [Records -> Version]
  /\ log \in [events : Seq(LogEntry), next : Nat \ {0}] /\ Len(log.events) <= HistoryLimit
  /\ others \in 0 .. course.writes /\ lives \in 1 .. 2
  /\ shown \in [Records -> Entry] /\ best \in [Records -> Nat]
  /\ seen \in Nat /\ timer \in BOOLEAN
  /\ sockets \in Seq(SocketType) /\ Len(sockets) <= course.sockets
  /\ \A q \in reads : /\ q.for \in {"event", "reload"} /\ q.offset \in Nat
                      /\ q.left \subseteq Records /\ Fetched(q.got)
  /\ saves \subseteq Save
  /\ begun \in 0 .. course.saves
  /\ history \in Seq(Records) /\ told \subseteq Nat /\ covered \in Nat

Init ==
  /\ course \in Courses
  /\ held = [r \in Records |-> [ver |-> 1, there |-> TRUE, keeps |-> {}]]
  /\ log = FreshLog /\ others = 0 /\ lives = 1
  /\ shown = [r \in Records |-> [is |-> Unloaded, mine |-> FALSE]]
  /\ seen = 0 /\ sockets = << >> /\ timer = FALSE
  /\ reads = {} /\ saves = {} /\ begun = 0
  /\ history = << >> /\ told = {} /\ covered = 0
  /\ best = [r \in Records |-> 0]

-------------------------------------------------------------------------------
(* The office.  A put and its event are one step, and every open socket is    *)
(* sent the event.                                                            *)

\* A socket: how it is, whether its failure was retried, and what it was sent.
Line(state, retried, queue) == [state |-> state, retried |-> retried, queue |-> queue]

Told(all, data) ==
  [ i \in DOMAIN all |->
      IF all[i].state = "open"
        THEN Line("open", all[i].retried, Append(all[i].queue, Event(log, data)))
        ELSE all[i] ]

Put(r, there, keeps) ==
  LET data == [id |-> r, gone |-> ~there, ver |-> held[r].ver + 1] IN
  /\ held' = [held EXCEPT ![r] = [ver |-> held[r].ver + 1, there |-> there, keeps |-> keeps]]
  /\ log' = Published(log, HistoryLimit, data)
  /\ sockets' = Told(sockets, data)
  /\ history' = Append(history, r)

\* Somebody else, or a worker, changes, makes or deletes something.
OthersWrite(r) ==
  /\ others < course.writes
  /\ others' = others + 1
  /\ \/ Put(r, TRUE, held[r].keeps)
     \/ held[r].there /\ Put(r, FALSE, {})
  /\ UNCHANGED <<course, lives, shown, seen, timer, reads, saves, begun, told, covered, best>>

\* The server is started again: the records survive, the log does not.
Restart ==
  /\ "restart" \in course.mishaps /\ lives = 1
  /\ lives' = 2
  /\ log' = FreshLog /\ history' = << >>
  /\ sockets' = [i \in DOMAIN sockets |->
                   IF sockets[i].state = "open"
                     THEN Line("cut", sockets[i].retried, sockets[i].queue) ELSE sockets[i]]
  /\ saves' = {IF q.at.stage = "asking" THEN [q EXCEPT !.at = At("lost", Unloaded)] ELSE q :
               q \in saves}
  /\ UNCHANGED <<course, held, others, shown, seen, timer, reads, begun, told, covered, best>>

-------------------------------------------------------------------------------
(* The stream.                                                                *)

\* The office answers a connection with what was missed, or with a gap.
Socket(since) ==
  Line("open", FALSE, IF CanReplayFrom(log, since) THEN Since(log, since) ELSE <<Gap>>)

\* What an event is about; an offset of 0 is no event.
Went(m) == [ver |-> m.data.ver, there |-> FALSE, keeps |-> {}]
Dropped(m) == m.data.gone /\ m.data.id \notin Listed
Fetch(m) == [for |-> "event", offset |-> m.offset, left |-> {m.data.id}, got |-> << >>]
Reload == [for |-> "reload", offset |-> 0, left |-> course.records, got |-> << >>]

Opened == sockets # << >>

Open ==
  /\ ~Opened
  /\ reads' = {Reload} /\ covered' = log.next - 1
  /\ sockets' = <<Socket(seen)>>
  /\ UNCHANGED <<office, shown, seen, timer, saves, begun, told, best>>

Reconnect ==
  /\ timer /\ Len(sockets) < course.sockets
  /\ timer' = FALSE
  /\ sockets' = Append(sockets, Socket(seen))
  /\ UNCHANGED <<office, shown, seen, reads, saves, begun, told, covered, best>>

\* Mutant: every notice of a failure is retried.
RetryAnyway(i, state) ==
  /\ sockets' = [sockets EXCEPT ![i] = Line(state, TRUE, << >>)]
  /\ timer' = TRUE

\* Mutant: only the first socket is.
RetryOnce(i, state) ==
  /\ sockets' = [sockets EXCEPT ![i] = Line(state, TRUE, << >>)]
  /\ timer' = (timer \/ i = 1)

\* At most one retry for each socket, however often the browser says it is gone.
Retry(i, state) ==
  /\ sockets' = [sockets EXCEPT ![i] = Line(state, TRUE, << >>)]
  /\ timer' = (timer \/ ~sockets[i].retried)

\* A failed connection fires onerror and then onclose; one that ends, onclose.
Errored(i) ==
  /\ sockets[i].state = "open" /\ Len(sockets) < course.sockets
  /\ Retry(i, "failed")
  /\ UNCHANGED <<office, shown, seen, reads, saves, begun, told, covered, best>>

Gone(i) == sockets[i].state \in {"failed", "cut"}

Closed(i) ==
  /\ \/ sockets[i].state = "open" /\ Len(sockets) < course.sockets
     \/ Gone(i)
  /\ Retry(i, "closed")
  /\ UNCHANGED <<office, shown, seen, reads, saves, begun, told, covered, best>>

-------------------------------------------------------------------------------
(* The follower.  Events are handed over as they come, not one after another. *)

\* What the canvas shows, and the latest it ever had of each record.
Show(f) ==
  /\ shown' = f
  /\ best' = [r \in Records |-> Later(best[r], f[r].is.ver)]

Heard(i) ==
  LET m == Head(sockets[i].queue) IN
  /\ sockets[i].state \in {"open", "cut"} /\ sockets[i].queue # << >>
  /\ sockets' = [sockets EXCEPT ![i] =
                   Line(sockets[i].state, sockets[i].retried, Tail(sockets[i].queue))]
  /\ \/ /\ m = Gap
        /\ reads' = reads \cup {Reload} /\ covered' = log.next - 1
        /\ UNCHANGED <<shown, best, seen, told>>
     \/ /\ m # Gap /\ Dropped(m)   \* a deletion that names what went needs no fetch
        /\ Show([shown EXCEPT ![m.data.id] = [is |-> Went(m), mine |-> FALSE]])
        /\ seen' = Later(seen, m.offset) /\ told' = told \cup {m.offset}
        /\ UNCHANGED <<reads, covered>>
     \/ /\ m # Gap /\ ~Dropped(m)
        /\ reads' = reads \cup {Fetch(m)} /\ told' = told \cup {m.offset}
        /\ UNCHANGED <<shown, best, seen, covered>>
  /\ UNCHANGED <<office, timer, saves, begun>>

Read(q, r) ==
  /\ r \in q.left
  /\ reads' = (reads \ {q}) \cup
       {[for |-> q.for, offset |-> q.offset, left |-> q.left \ {r},
         got |-> [s \in DOMAIN q.got \cup {r} |-> IF s = r THEN held[r] ELSE q.got[s]]]}
  /\ UNCHANGED <<office, shown, seen, sockets, timer, saves, begun, told, covered, best>>

\* A record fetched by its own id is not dropped for a 404.
Applies(q, r) == r \in DOMAIN q.got /\ (q.for = "reload" \/ r \in Listed \/ q.got[r].there)

Applied(q) ==
  /\ q.left = {}
  /\ reads' = reads \ {q}
  /\ Show([r \in Records |->
             IF Applies(q, r) THEN [is |-> q.got[r], mine |-> FALSE] ELSE shown[r]])
  /\ seen' = Later(seen, q.offset)
  /\ UNCHANGED <<office, sockets, timer, saves, begun, told, covered>>

\* The offset moves on either way; a reload that fails says so.
Unread(q) ==
  /\ "unread" \in course.mishaps
  /\ reads' = reads \ {q}
  /\ seen' = Later(seen, q.offset)
  /\ best' = [r \in Records |->
                IF q.for = "reload" \/ r \in q.left \cup DOMAIN q.got
                  THEN Later(best[r], held[r].ver) ELSE best[r]]
  /\ UNCHANGED <<office, shown, sockets, timer, saves, begun, told, covered>>

-------------------------------------------------------------------------------
(* The store.  A patch, a switch and a removal are shown at once; the answer  *)
(* decides whether they stay.                                                 *)

Sent(r, what, preview) ==
  LET q == [ record |-> r, what |-> what, number |-> begun + 1, since |-> seen,
             before |-> shown[r], at |-> At("sent", Unloaded), waited |-> TRUE ] IN
  /\ Opened /\ begun < course.saves
  /\ begun' = begun + 1
  /\ saves' = saves \cup {q}
  /\ shown' = [shown EXCEPT ![r] = preview]
  /\ UNCHANGED <<office, seen, sockets, timer, reads, told, covered, best>>

Edited(r) == [shown[r] EXCEPT !.mine = TRUE]

\* An edit, sent with the offset the canvas has seen.
Patch(r) == shown[r].is.there /\ Sent(r, "patch", Edited(r))

\* A switch - running, paused, away - which claims no offset.
Switch(r) == shown[r].is.there /\ Sent(r, "switch", Edited(r))

Remove(r) ==
  /\ r \in Listed /\ shown[r].is.there
  /\ Sent(r, "remove", [is |-> [shown[r].is EXCEPT !.there = FALSE], mine |-> TRUE])

\* Discovering, studying, a key for the vault: nothing is shown before the answer.
Ask(r) == shown[r].is.there /\ Sent(r, "ask", shown[r])

Add(r) == r \in Listed /\ ~shown[r].is.there /\ Sent(r, "add", shown[r])

-------------------------------------------------------------------------------
(* The routes.                                                                *)

Becomes(q, stage, value) ==
  saves' = (saves \ {q}) \cup {[q EXCEPT !.at = At(stage, value)]}

Unwritten == UNCHANGED <<held, log, history, sockets>>

\* Not found, not valid, refused by what it asked.
Refused(q) == Becomes(q, "failed", Unloaded) /\ Unwritten

\* What the office holds once it accepted is also its answer.
Accepted(q, there, keeps) == Put(q.record, there, keeps) /\ Becomes(q, "ok", held'[q.record])

PatchServed(q) ==
  LET r == q.record IN
  /\ q.what = "patch" /\ held[r].there
  /\ \/ /\ ChangedSince(log, r, q.since)
        /\ Becomes(q, "conflict", held[r]) /\ Unwritten
     \/ /\ ~ChangedSince(log, r, q.since)
        /\ Refused(q) \/ Accepted(q, TRUE, held[r].keeps \cup {q.number})

SwitchServed(q) ==
  /\ q.what = "switch" /\ held[q.record].there
  /\ Refused(q) \/ Accepted(q, TRUE, held[q.record].keeps \cup {q.number})

RemoveServed(q) == q.what = "remove" /\ held[q.record].there /\ Accepted(q, FALSE, {})

AddServed(q) ==
  /\ q.what = "add" /\ ~held[q.record].there
  /\ Refused(q) \/ Accepted(q, TRUE, {q.number})

\* The record is read, and somebody else is asked.
AskServed(q) ==
  /\ q.what = "ask" /\ held[q.record].there
  /\ \/ Refused(q)
     \/ Becomes(q, "asking", held[q.record]) /\ Unwritten

NotFound(q) == held[q.record].there = (q.what = "add") /\ Refused(q)

Served(q) ==
  /\ q.at.stage = "sent"
  /\ \/ NotFound(q) \/ PatchServed(q) \/ SwitchServed(q)
     \/ RemoveServed(q) \/ AddServed(q) \/ AskServed(q)
  /\ UNCHANGED <<course, others, lives, shown, seen, timer, reads, begun, told, covered, best>>

\* The model, connector or service answered: what was read is written back.
Written(q) ==
  /\ q.at.stage = "asking"
  /\ Refused(q) \/ Accepted(q, TRUE, q.at.value.keeps \cup {q.number})
  /\ UNCHANGED <<course, others, lives, shown, seen, timer, reads, begun, told, covered, best>>

-------------------------------------------------------------------------------
(* The answer.                                                                *)

\* Departments and people are replaced where they stand; a list takes it in again.
Placed(r, entry) ==
  IF r \in Listed \/ shown[r].is.there THEN [shown EXCEPT ![r] = entry] ELSE shown

PutBack(q) ==
  IF q.what \in {"patch", "switch", "remove"} THEN Placed(q.record, q.before) ELSE shown

Settled(q) ==
  /\ q.at.stage \in {"ok", "failed", "conflict"} /\ q.waited
  /\ saves' = saves \ {q}
  /\ LET answer == Placed(q.record, [is |-> q.at.value, mine |-> FALSE]) IN
     Show(CASE q.at.stage = "ok" /\ q.what = "remove" -> shown
            [] q.at.stage = "ok" -> answer
            [] q.at.stage = "conflict" /\ q.record \in Restored -> answer
            [] OTHER -> PutBack(q))
  /\ UNCHANGED <<office, seen, sockets, timer, reads, begun, told, covered>>

\* The office could not be reached, or took too long; it may act all the same.
GivenUp(q) ==
  /\ q.waited /\ ("unanswered" \in course.mishaps \/ q.at.stage = "lost")
  /\ saves' = (saves \ {q}) \cup (IF q.at.stage \in {"sent", "asking"}
                                    THEN {[q EXCEPT !.waited = FALSE]} ELSE {})
  /\ Show(PutBack(q))
  /\ UNCHANGED <<office, seen, sockets, timer, reads, begun, told, covered>>

\* A request nobody waits for is done with, or never arrived.
Forgotten(q) ==
  /\ ~q.waited /\ q.at.stage # "asking"
  /\ saves' = saves \ {q}
  /\ UNCHANGED <<office, shown, seen, sockets, timer, reads, begun, told, covered, best>>

-------------------------------------------------------------------------------
Next ==
  \/ Open \/ Reconnect \/ Restart
  \/ \E r \in course.records :
       OthersWrite(r) \/ Patch(r) \/ Switch(r) \/ Ask(r) \/ Remove(r) \/ Add(r)
  \/ \E i \in DOMAIN sockets : Errored(i) \/ Closed(i) \/ Heard(i)
  \/ \E q \in reads : Applied(q) \/ Unread(q) \/ \E r \in q.left : Read(q, r)
  \/ \E q \in saves : Served(q) \/ Written(q) \/ Settled(q) \/ GivenUp(q) \/ Forgotten(q)

Spec == Init /\ [][Next]_vars

Stream(i) == i \in DOMAIN sockets /\ (Heard(i) \/ (Gone(i) /\ Closed(i)))

\* A browser reconnects when its timer fires, hears what is sent and is answered.
FairSpec ==
  /\ Spec
  /\ WF_vars(Reconnect)
  /\ \A i \in 1 .. 3 : WF_vars(Stream(i))

-------------------------------------------------------------------------------
(* Properties.                                                                *)

\* The event was handed to the follower, or a reload was asked for since.
Noted(o) == o \in told \/ o <= covered

\* The canvas is never moved past an event it was neither handed nor reloaded
\* for: history trimmed, sockets lost and events replayed included.
NothingMissedInSilence ==
  lives = 1 => \A o \in 1 .. seen : Noted(o)

\* At most one socket is live, and none while a reconnect is due: onerror and
\* onclose of one failure do not double the sockets.
OneSocket ==
  /\ \A i, j \in DOMAIN sockets :
       sockets[i].state = "open" /\ sockets[j].state = "open" => i = j
  /\ timer => \A i \in DOMAIN sockets : sockets[i].state # "open"

Quiet ==
  /\ Opened /\ reads = {} /\ saves = {} /\ ~timer
  /\ LET s == sockets[Len(sockets)] IN s.state = "open" /\ s.queue = << >>

\* Once nothing is under way the canvas shows what the office holds, unless a
\* later version overtook what it shows, a fetch of it failed, or a preview
\* was put back under a second save.
WrongOnlyIfOvertaken ==
  Quiet /\ lives = 1 =>
    \A r \in course.records :
      \/ shown[r].mine
      \/ shown[r].is.ver < best[r]
      \/ shown[r].is.ver = held[r].ver /\ shown[r].is.there = held[r].there

\* The canvas shows the office: no event passes it unnoticed, on one socket, and
\* what it shows at rest is what is there.
ShowsTheOffice == TypeOK /\ OneSocket /\ NothingMissedInSilence /\ WrongOnlyIfOvertaken

\* The office takes in an edit.
TakesIn(q) == q.what = "patch" /\ q.at.stage = "sent" /\ q.number \in held'[q.record].keeps

TakenInKnowing ==
  lives = 1 =>
    \A q \in saves : TakesIn(q) =>
      \A o \in DOMAIN history : history[o] = q.record => Noted(o)

\* An edit the office accepts from the canvas was made by somebody to whom every
\* earlier change of that record had been handed, or who had reloaded since.
SavesKnewOfIt == [][TakenInKnowing]_vars

\* Every event is handed to the canvas or made up for by a reload, in the end.
EventuallyTold ==
  \A o \in 1 .. 4 :
    (Opened /\ o < log.next) ~> (Noted(o) \/ lives > 1)

===============================================================================
