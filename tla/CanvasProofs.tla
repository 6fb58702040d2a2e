----------------------------- MODULE CanvasProofs -----------------------------
(***************************************************************************)
(* What holds of one browser and its office, for any records, any history  *)
(* limit and any course of events.                                         *)
(*                                                                         *)
(* The invariant has four parts: the types; that one socket at most is     *)
(* live; that saves have numbers of their own; and, while the server       *)
(* lives, that everything under way - the log, what the sockets carry, the *)
(* fetches, the saves and what is shown - fits what the office held, and   *)
(* that of every record the canvas had what is held, will be brought it,   *)
(* or has yet to hear of it.                                               *)
(***************************************************************************)
EXTENDS Canvas, SequenceTheorems, TLAPS

-------------------------------------------------------------------------------
(* Types.                                                                     *)

LEMMA CoursesAreCourses == course \in Courses =>
  /\ course \in Course /\ course.records \subseteq Records
  /\ course.writes \in Nat /\ course.sockets \in Nat \ {0} /\ course.saves \in Nat
BY CanvasConstants DEF Course

LEMMA StartsTyped == Init => TypeOK
<1> SUFFICES ASSUME Init PROVE TypeOK
  OBVIOUS
<1> USE DEF Init
<1>1. Unloaded \in Version /\ [is |-> Unloaded, mine |-> FALSE] \in Entry
  BY DEF Unloaded, Version, Entry
<1>2. [ver |-> 1, there |-> TRUE, keeps |-> {}] \in Version
  BY DEF Version
<1>3. log \in [events : Seq(LogEntry), next : Nat \ {0}] /\ Len(log.events) <= HistoryLimit
  BY CanvasConstants DEF FreshLog
<1>4. sockets \in Seq(SocketType) /\ Len(sockets) <= course.sockets
  BY CoursesAreCourses
<1>5. held \in [Records -> Version] /\ shown \in [Records -> Entry] /\ best \in [Records -> Nat]
  BY <1>1, <1>2
<1>6. others \in 0 .. course.writes /\ lives \in 1 .. 2 /\ begun \in 0 .. course.saves
  BY CoursesAreCourses
<1>7. history \in Seq(Records) /\ saves \subseteq Save /\ reads = {}
  OBVIOUS
<1> QED
  BY <1>3, <1>4, <1>5, <1>6, <1>7 DEF TypeOK

\* What is kept of a log that has grown by an event: its end.
LEMMA TrimmedKeepsTheEnd ==
  ASSUME NEW S, NEW s \in Seq(S), NEW limit \in Nat \ {0}
  PROVE  LET t == Trimmed(s, limit) IN
         /\ t \in Seq(S) /\ Len(t) <= limit /\ Len(t) <= Len(s)
         /\ s # << >> => t # << >>
         /\ \A i \in DOMAIN t : t[i] = s[Len(s) - Len(t) + i]
<1>1. CASE Len(s) > limit
  <2>1. Trimmed(s, limit) = SubSeq(s, Len(s) - limit + 1, Len(s))
    BY <1>1 DEF Trimmed
  <2> DEFINE m == Len(s) - limit + 1
  <2>2. Len(s) \in Nat /\ m \in 1 .. Len(s) /\ Len(s) \in Int /\ m \in Int
    BY <1>1
  <2>3. \A i \in m .. Len(s) : s[i] \in S
    BY <2>2
  <2>4. /\ SubSeq(s, m, Len(s)) \in Seq(S)
        /\ Len(SubSeq(s, m, Len(s))) = limit
        /\ \A i \in 1 .. limit : SubSeq(s, m, Len(s))[i] = s[m + i - 1]
    <3> HIDE DEF m
    <3>1. /\ SubSeq(s, m, Len(s)) \in Seq(S)
          /\ Len(SubSeq(s, m, Len(s))) = (IF m <= Len(s) THEN Len(s) - m + 1 ELSE 0)
          /\ \A i \in 1 .. Len(s) - m + 1 : SubSeq(s, m, Len(s))[i] = s[m + i - 1]
      BY <2>2, <2>3, SubSeqProperties
    <3>2. Len(s) - m + 1 = limit /\ m <= Len(s)
      BY <2>2 DEF m
    <3> QED
      BY <3>1, <3>2
  <2> DEFINE t == Trimmed(s, limit)
  <2>5. t \in Seq(S) /\ Len(t) = limit /\ \A i \in 1 .. limit : t[i] = s[Len(s) - limit + i]
    <3>1. \A i \in 1 .. limit : m + i - 1 = Len(s) - limit + i
      BY <2>2
    <3> HIDE DEF m
    <3> QED
      BY <2>1, <2>4, <3>1 DEF m
  <2> HIDE DEF t
  <2>6. DOMAIN t = 1 .. limit /\ t # << >>
    BY <2>5
  <2>7. Len(t) <= Len(s)
    BY <1>1, <2>5
  <2> QED
    BY <2>5, <2>6, <2>7 DEF t
<1>2. CASE ~(Len(s) > limit)
  BY <1>2 DEF Trimmed
<1> QED
  BY <1>1, <1>2

LEMMA PutTypes ==
  ASSUME TypeOK, NEW r \in Records, NEW there \in BOOLEAN, NEW keeps \in SUBSET Nat,
         Put(r, there, keeps)
  PROVE  /\ held' \in [Records -> Version]
         /\ log' \in [events : Seq(LogEntry), next : Nat \ {0}] /\ Len(log'.events) <= HistoryLimit
         /\ sockets' \in Seq(SocketType) /\ Len(sockets') = Len(sockets)
         /\ history' \in Seq(Records)
<1> DEFINE data == [id |-> r, gone |-> ~there, ver |-> held[r].ver + 1]
<1> USE DEF TypeOK
<1>1. held[r].ver \in Nat
  BY DEF Version
<1>2. data \in [id : Records, gone : BOOLEAN, ver : Nat]
  BY <1>1
<1>3. Event(log, data) \in LogEntry /\ Event(log, data) \in Notice
  BY <1>2 DEF Event, LogEntry, Notice
<1>4. [ver |-> held[r].ver + 1, there |-> there, keeps |-> keeps] \in Version
  BY <1>1 DEF Version
<1>5. held' \in [Records -> Version]
  BY <1>4 DEF Put
<1>6. log' = Published(log, HistoryLimit, data) /\ sockets' = Told(sockets, data)
      /\ history' = Append(history, r)
  BY DEF Put
<1> HIDE DEF data
<1>7. Append(log.events, Event(log, data)) \in Seq(LogEntry)
  BY <1>3
<1>8. log' \in [events : Seq(LogEntry), next : Nat \ {0}] /\ Len(log'.events) <= HistoryLimit
  <2>1. Trimmed(Append(log.events, Event(log, data)), HistoryLimit) \in Seq(LogEntry)
        /\ Len(Trimmed(Append(log.events, Event(log, data)), HistoryLimit)) <= HistoryLimit
    BY <1>7, TrimmedKeepsTheEnd, CanvasConstants
  <2> QED
    BY <1>6, <2>1 DEF Published
<1>9. ASSUME NEW i \in DOMAIN sockets PROVE Told(sockets, data)[i] \in SocketType
  <2>1. sockets[i] \in SocketType
    OBVIOUS
  <2> QED
    BY <1>3, <2>1 DEF Told, Line, SocketType
<1>10. sockets' \in Seq(SocketType) /\ Len(sockets') = Len(sockets)
  <2>1. DOMAIN sockets = 1 .. Len(sockets) /\ Len(sockets) \in Nat
    OBVIOUS
  <2> QED
    BY <1>6, <1>9, <2>1 DEF Told
<1> QED
  BY <1>5, <1>6, <1>8, <1>10

LEMMA VersionFields ==
  ASSUME TypeOK, NEW r \in Records
  PROVE  /\ held[r] \in Version /\ held[r].ver \in Nat /\ held[r].there \in BOOLEAN
         /\ held[r].keeps \in SUBSET Nat
         /\ shown[r] \in Entry /\ shown[r].is \in Version /\ shown[r].mine \in BOOLEAN
BY DEF TypeOK, Version, Entry

LEMMA SaveFields ==
  ASSUME TypeOK, NEW q \in saves
  PROVE  /\ q \in Save /\ q.record \in Records /\ q.number \in Nat /\ q.since \in Nat
         /\ q.what \in {"patch", "switch", "ask", "remove", "add"} /\ q.waited \in BOOLEAN
         /\ q.before \in Entry /\ q.at.stage \in Stages /\ q.at.value \in Version
BY DEF TypeOK, Save

LEMMA SocketFields ==
  ASSUME TypeOK, NEW i \in DOMAIN sockets
  PROVE  /\ sockets[i] \in SocketType /\ sockets[i].queue \in Seq(Notice)
         /\ sockets[i].state \in {"open", "cut", "failed", "closed"}
         /\ sockets[i].retried \in BOOLEAN
<1>1. sockets \in Seq(SocketType)
  BY DEF TypeOK
<1>2. sockets[i] \in SocketType
  BY <1>1
<1> QED
  BY <1>2 DEF SocketType

\* A save goes on: nothing of it changes but how far it is.
LEMMA GoesOn ==
  ASSUME NEW q \in Save, NEW stage \in Stages, NEW value \in Version,
         NEW p, p = [q EXCEPT !.at = At(stage, value)]
  PROVE  /\ p \in Save /\ p.at.stage = stage /\ p.at.value = value
         /\ p.record = q.record /\ p.what = q.what /\ p.number = q.number /\ p.since = q.since
         /\ p.before = q.before /\ p.waited = q.waited
BY DEF Save, At

LEMMA BecomesTyped ==
  ASSUME TypeOK, NEW q \in saves, NEW stage \in Stages, NEW value \in Version,
         Becomes(q, stage, value)
  PROVE  saves' \subseteq Save
BY SaveFields, GoesOn DEF Becomes, TypeOK

LEMMA UnloadedIsVersion == Unloaded \in Version
BY DEF Unloaded, Version

LEMMA ShowTyped ==
  ASSUME TypeOK, NEW f \in [Records -> Entry], Show(f)
  PROVE  shown' \in [Records -> Entry] /\ best' \in [Records -> Nat]
<1>1. ASSUME NEW r \in Records PROVE Later(best[r], f[r].is.ver) \in Nat
  BY DEF TypeOK, Entry, Version, Later
<1> QED
  BY <1>1 DEF Show

\* Each step keeps the types: the office's, the stream's, the follower's, the
\* store's and the routes'.
LEMMA OfficeTyped ==
  ASSUME TypeOK, NEW r \in course.records, OthersWrite(r)
  PROVE  TypeOK'
<1>1. r \in Records
  BY CoursesAreCourses DEF TypeOK
<1>2. /\ held' \in [Records -> Version]
      /\ log' \in [events : Seq(LogEntry), next : Nat \ {0}] /\ Len(log'.events) <= HistoryLimit
      /\ sockets' \in Seq(SocketType) /\ Len(sockets') = Len(sockets)
      /\ history' \in Seq(Records)
  <2>1. CASE Put(r, TRUE, held[r].keeps)
    BY <1>1, <2>1, PutTypes, VersionFields
  <2>2. CASE Put(r, FALSE, {})
    BY <1>1, <2>2, PutTypes
  <2> QED
    BY <2>1, <2>2 DEF OthersWrite
<1>3. others' \in 0 .. course'.writes
  BY CoursesAreCourses DEF OthersWrite, TypeOK
<1> QED
  BY <1>2, <1>3 DEF OthersWrite, TypeOK

LEMMA RestartTyped ==
  ASSUME TypeOK, Restart
  PROVE  TypeOK'
<1> USE DEF Restart
<1>1. log' \in [events : Seq(LogEntry), next : Nat \ {0}] /\ Len(log'.events) <= HistoryLimit
  BY CanvasConstants DEF FreshLog
<1>2. sockets' \in Seq(SocketType) /\ Len(sockets') = Len(sockets)
  <2>1. DOMAIN sockets = 1 .. Len(sockets) /\ Len(sockets) \in Nat
    BY DEF TypeOK
  <2>2. ASSUME NEW i \in DOMAIN sockets
        PROVE  sockets[i] \in SocketType
               /\ Line("cut", sockets[i].retried, sockets[i].queue) \in SocketType
    BY SocketFields DEF SocketType, Line
  <2> QED
    BY <2>1, <2>2
<1>3. saves' \subseteq Save
  BY SaveFields, GoesOn, UnloadedIsVersion DEF Stages
<1>4. history' \in Seq(Records)
  OBVIOUS
<1> QED
  BY <1>1, <1>2, <1>3, <1>4 DEF TypeOK

LEMMA SinceTyped ==
  ASSUME NEW S, NEW l \in [events : Seq(S), next : Nat \ {0}], NEW o \in Nat
  PROVE  LET m == Later(1, o - Oldest(l) + 2) IN
         /\ m \in Nat \ {0} /\ Since(l, o) \in Seq(S)
         /\ Len(Since(l, o)) = (IF m <= Len(l.events) THEN Len(l.events) - m + 1 ELSE 0)
         /\ \A k \in 1 .. Len(Since(l, o)) : Since(l, o)[k] = l.events[m + k - 1]
<1> DEFINE s == l.events
           m == Later(1, o - Oldest(l) + 2)
<1>1. s \in Seq(S) /\ Len(s) \in Nat /\ m \in Nat \ {0} /\ m \in Int /\ Len(s) \in Int
  BY DEF Later, Oldest
<1>2. \A i \in m .. Len(s) : s[i] \in S
  BY <1>1
<1>3. Since(l, o) = SubSeq(s, m, Len(s))
  BY DEF Since
<1> HIDE DEF s, m
<1>4. /\ SubSeq(s, m, Len(s)) \in Seq(S)
      /\ Len(SubSeq(s, m, Len(s))) = (IF m <= Len(s) THEN Len(s) - m + 1 ELSE 0)
      /\ \A i \in 1 .. Len(s) - m + 1 : SubSeq(s, m, Len(s))[i] = s[m + i - 1]
  BY <1>1, <1>2, SubSeqProperties
<1>5. 1 .. Len(Since(l, o)) \subseteq 1 .. Len(s) - m + 1
  BY <1>1, <1>3, <1>4
<1> QED
  BY <1>1, <1>3, <1>4, <1>5 DEF s, m

LEMMA SocketTyped ==
  ASSUME TypeOK
  PROVE  Socket(seen) \in SocketType
<1>1. Gap \in Notice
  BY DEF Gap, Notice
<1>2. Since(log, seen) \in Seq(Notice)
  BY SinceTyped DEF TypeOK, Notice
<1>3. <<Gap>> \in Seq(Notice)
  BY <1>1
<1> QED
  BY <1>2, <1>3 DEF Socket, Line, SocketType

LEMMA ReloadTyped ==
  ASSUME TypeOK
  PROVE  Reload.left \subseteq Records /\ Fetched(Reload.got) /\ Reload.offset \in Nat
         /\ Reload.for \in {"event", "reload"}
BY CoursesAreCourses DEF Reload, Fetched, TypeOK

LEMMA OpenTyped ==
  ASSUME TypeOK, Open
  PROVE  TypeOK'
<1>1. sockets' \in Seq(SocketType) /\ Len(sockets') = 1
  BY SocketTyped DEF Open
<1>2. 1 <= course.sockets
  BY CoursesAreCourses DEF TypeOK
<1>3. covered' \in Nat /\ reads' = {Reload}
  BY DEF Open, TypeOK
<1> QED
  BY <1>1, <1>2, <1>3, ReloadTyped DEF Open, office, TypeOK

LEMMA ReconnectTyped ==
  ASSUME TypeOK, Reconnect
  PROVE  TypeOK'
<1>1. sockets' \in Seq(SocketType) /\ Len(sockets') = Len(sockets) + 1
  BY SocketTyped DEF Reconnect, TypeOK
<1>2. Len(sockets') <= course.sockets
  <2>1. Len(sockets) \in Nat /\ course.sockets \in Nat /\ Len(sockets) < course.sockets
    BY CoursesAreCourses DEF TypeOK, Reconnect
  <2> QED
    BY <1>1, <2>1
<1> QED
  BY <1>1, <1>2 DEF Reconnect, office, TypeOK

LEMMA RetryTyped ==
  ASSUME TypeOK, NEW i \in DOMAIN sockets, NEW state \in {"failed", "closed"}, Retry(i, state)
  PROVE  sockets' \in Seq(SocketType) /\ Len(sockets') = Len(sockets) /\ timer' \in BOOLEAN
<1>1. Line(state, TRUE, << >>) \in SocketType
  BY DEF Line, SocketType
<1>2. sockets[i].retried \in BOOLEAN
  BY SocketFields
<1>3. sockets \in Seq(SocketType) /\ timer \in BOOLEAN
  BY DEF TypeOK
<1>4. timer' \in BOOLEAN
  BY <1>3 DEF Retry
<1>5. sockets' = [sockets EXCEPT ![i] = Line(state, TRUE, << >>)]
  BY DEF Retry
<1> DEFINE line == Line(state, TRUE, << >>)
<1>6. line \in SocketType /\ sockets' = [sockets EXCEPT ![i] = line]
  BY <1>1, <1>5
<1> HIDE DEF line
<1>7. sockets' \in Seq(SocketType) /\ Len(sockets') = Len(sockets)
  BY <1>3, <1>6
<1> QED
  BY <1>4, <1>7

LEMMA GoneTyped ==
  ASSUME TypeOK, NEW i \in DOMAIN sockets, Errored(i) \/ Closed(i)
  PROVE  TypeOK'
<1>1. Retry(i, "failed") \/ Retry(i, "closed")
  BY DEF Errored, Closed
<1>2. sockets' \in Seq(SocketType) /\ Len(sockets') = Len(sockets) /\ timer' \in BOOLEAN
  BY <1>1, RetryTyped
<1> QED
  BY <1>2 DEF Errored, Closed, office, TypeOK

LEMMA HeardTyped ==
  ASSUME TypeOK, NEW i \in DOMAIN sockets, Heard(i)
  PROVE  TypeOK'
<1> DEFINE m == Head(sockets[i].queue)
<1>1. sockets[i].queue \in Seq(Notice) /\ sockets[i].queue # << >> /\ sockets \in Seq(SocketType)
  BY SocketFields DEF Heard, TypeOK
<1>2. m \in Notice /\ Tail(sockets[i].queue) \in Seq(Notice)
  BY <1>1
<1>3. sockets' \in Seq(SocketType) /\ Len(sockets') = Len(sockets)
  <2>1. Line(sockets[i].state, sockets[i].retried, Tail(sockets[i].queue)) \in SocketType
    BY <1>2, SocketFields DEF Line, SocketType
  <2> QED
    BY <1>1, <2>1 DEF Heard
<1>4. m.offset \in Nat /\ m.data.ver \in Nat /\ (m # Gap => m.data.id \in Records)
  <2>1. CASE m \in LogEntry
    BY <2>1 DEF LogEntry
  <2>2. CASE m = Gap
    BY <2>2 DEF Gap
  <2> QED
    BY <1>2, <2>1, <2>2 DEF Notice
<1> HIDE DEF m
<1>5. CASE /\ m = Gap
           /\ reads' = reads \cup {Reload} /\ covered' = log.next - 1
           /\ UNCHANGED <<shown, best, seen, told>>
  <2>1. covered' \in Nat
    BY <1>5 DEF TypeOK
  <2> QED
    BY <1>3, <1>5, <2>1, ReloadTyped DEF Heard, office, TypeOK
<1>6. CASE /\ m # Gap /\ Dropped(m)
           /\ Show([shown EXCEPT ![m.data.id] = [is |-> Went(m), mine |-> FALSE]])
           /\ seen' = Later(seen, m.offset) /\ told' = told \cup {m.offset}
           /\ UNCHANGED <<reads, covered>>
  <2>1. [is |-> Went(m), mine |-> FALSE] \in Entry
    BY <1>4, <1>6 DEF Went, Entry, Version
  <2>2. [shown EXCEPT ![m.data.id] = [is |-> Went(m), mine |-> FALSE]] \in [Records -> Entry]
    BY <2>1 DEF TypeOK
  <2>3. shown' \in [Records -> Entry] /\ best' \in [Records -> Nat]
    BY <1>6, <2>2, ShowTyped
  <2>4. seen' \in Nat /\ told' \subseteq Nat
    BY <1>4, <1>6 DEF Later, TypeOK
  <2> QED
    BY <1>3, <1>6, <2>3, <2>4 DEF Heard, office, TypeOK
<1>7. CASE /\ m # Gap /\ ~Dropped(m)
           /\ reads' = reads \cup {Fetch(m)} /\ told' = told \cup {m.offset}
           /\ UNCHANGED <<shown, best, seen, covered>>
  <2>1. /\ Fetch(m).for \in {"event", "reload"} /\ Fetch(m).offset \in Nat
        /\ Fetch(m).left \subseteq Records /\ Fetched(Fetch(m).got)
    BY <1>4, <1>7 DEF Fetch, Fetched
  <2>2. told' \subseteq Nat
    BY <1>4, <1>7 DEF TypeOK
  <2> QED
    BY <1>3, <1>7, <2>1, <2>2 DEF Heard, office, TypeOK
<1> QED
  BY <1>5, <1>6, <1>7 DEF Heard, m

LEMMA ReadFields ==
  ASSUME TypeOK, NEW q \in reads
  PROVE  /\ q.for \in {"event", "reload"} /\ q.offset \in Nat /\ q.left \subseteq Records
         /\ DOMAIN q.got \subseteq Records /\ \A r \in DOMAIN q.got : q.got[r] \in Version
BY DEF TypeOK, Fetched

LEMMA ReadTyped ==
  ASSUME TypeOK, NEW q \in reads, NEW r \in q.left, Read(q, r)
  PROVE  TypeOK'
<1> DEFINE got == [s \in DOMAIN q.got \cup {r} |-> IF s = r THEN held[r] ELSE q.got[s]]
           p == [for |-> q.for, offset |-> q.offset, left |-> q.left \ {r}, got |-> got]
<1>1. DOMAIN got = DOMAIN q.got \cup {r}
      /\ \A s \in DOMAIN got : got[s] = IF s = r THEN held[r] ELSE q.got[s]
  OBVIOUS
<1>2. reads' = (reads \ {q}) \cup {p}
  BY DEF Read
<1>3. p.for = q.for /\ p.offset = q.offset /\ p.left = q.left \ {r} /\ p.got = got
  OBVIOUS
<1> HIDE DEF got, p
<1>4. Fetched(got)
  BY <1>1, ReadFields, VersionFields DEF Fetched
<1>5. p.for \in {"event", "reload"} /\ p.offset \in Nat /\ p.left \subseteq Records /\ Fetched(p.got)
  BY <1>3, <1>4, ReadFields
<1>6. \A x \in reads' : /\ x.for \in {"event", "reload"} /\ x.offset \in Nat
                        /\ x.left \subseteq Records /\ Fetched(x.got)
  BY <1>2, <1>5 DEF TypeOK
<1> QED
  BY <1>6 DEF Read, office, TypeOK

LEMMA AppliedTyped ==
  ASSUME TypeOK, NEW q \in reads, Applied(q)
  PROVE  TypeOK'
<1> DEFINE f == [r \in Records |->
                   IF Applies(q, r) THEN [is |-> q.got[r], mine |-> FALSE] ELSE shown[r]]
<1>1. ASSUME NEW r \in Records
      PROVE  (IF Applies(q, r) THEN [is |-> q.got[r], mine |-> FALSE] ELSE shown[r]) \in Entry
  BY ReadFields, VersionFields DEF Applies, Entry
<1>2. f \in [Records -> Entry]
  BY <1>1
<1>3. Show(f) /\ reads' = reads \ {q} /\ seen' = Later(seen, q.offset)
  BY DEF Applied
<1> HIDE DEF f
<1>4. shown' \in [Records -> Entry] /\ best' \in [Records -> Nat]
  BY <1>2, <1>3, ShowTyped
<1>5. seen' \in Nat
  BY <1>3, ReadFields DEF Later, TypeOK
<1> QED
  BY <1>3, <1>4, <1>5 DEF Applied, office, TypeOK

LEMMA UnreadTyped ==
  ASSUME TypeOK, NEW q \in reads, Unread(q)
  PROVE  TypeOK'
<1>1. best' \in [Records -> Nat]
  <2>1. ASSUME NEW r \in Records PROVE Later(best[r], held[r].ver) \in Nat /\ best[r] \in Nat
    BY VersionFields DEF TypeOK, Later
  <2> QED
    BY <2>1 DEF Unread
<1>2. seen' \in Nat
  BY ReadFields DEF Unread, Later, TypeOK
<1> QED
  BY <1>1, <1>2 DEF Unread, office, TypeOK

LEMMA SentTyped ==
  ASSUME TypeOK, NEW r \in Records, NEW what \in {"patch", "switch", "ask", "remove", "add"},
         NEW preview \in Entry, Sent(r, what, preview)
  PROVE  TypeOK'
<1> DEFINE q == [ record |-> r, what |-> what, number |-> begun + 1, since |-> seen,
                  before |-> shown[r], at |-> At("sent", Unloaded), waited |-> TRUE ]
<1>1. begun \in Nat /\ begun + 1 \in 0 .. course.saves
  BY CoursesAreCourses DEF Sent, TypeOK
<1>2. q \in Save
  BY <1>1, VersionFields, UnloadedIsVersion DEF Save, At, Stages, TypeOK
<1>3. saves' = saves \cup {q}
  BY DEF Sent
<1> HIDE DEF q
<1>4. saves' \subseteq Save
  BY <1>2, <1>3 DEF TypeOK
<1>5. shown' \in [Records -> Entry]
  BY DEF Sent, TypeOK
<1> QED
  BY <1>1, <1>4, <1>5 DEF Sent, office, TypeOK

\* What is shown before the office has answered.
LEMMA PreviewTyped ==
  ASSUME TypeOK, NEW r \in Records
  PROVE  /\ Edited(r) \in Entry
         /\ [is |-> [shown[r].is EXCEPT !.there = FALSE], mine |-> TRUE] \in Entry
<1>1. shown[r] \in Entry /\ [shown[r].is EXCEPT !.there = FALSE] \in Version
  BY VersionFields DEF Version
<1> QED
  BY <1>1 DEF Edited, Entry

LEMMA BegunTyped ==
  ASSUME TypeOK, NEW r \in course.records, Patch(r) \/ Switch(r) \/ Ask(r) \/ Remove(r) \/ Add(r)
  PROVE  TypeOK'
<1>1. r \in Records
  BY CoursesAreCourses DEF TypeOK
<1> QED
  BY <1>1, SentTyped, PreviewTyped, VersionFields DEF Patch, Switch, Ask, Remove, Add

LEMMA AcceptedTyped ==
  ASSUME TypeOK, NEW q \in saves, NEW there \in BOOLEAN, NEW keeps \in SUBSET Nat,
         Accepted(q, there, keeps)
  PROVE  /\ held' \in [Records -> Version]
         /\ log' \in [events : Seq(LogEntry), next : Nat \ {0}] /\ Len(log'.events) <= HistoryLimit
         /\ sockets' \in Seq(SocketType) /\ Len(sockets') = Len(sockets)
         /\ history' \in Seq(Records) /\ saves' \subseteq Save
<1>1. /\ held' \in [Records -> Version]
      /\ log' \in [events : Seq(LogEntry), next : Nat \ {0}] /\ Len(log'.events) <= HistoryLimit
      /\ sockets' \in Seq(SocketType) /\ Len(sockets') = Len(sockets)
      /\ history' \in Seq(Records)
  BY SaveFields, PutTypes DEF Accepted
<1>2. Becomes(q, "ok", held'[q.record]) /\ held'[q.record] \in Version
  BY <1>1, SaveFields DEF Accepted
<1>3. saves' \subseteq Save
  BY <1>2, BecomesTyped DEF Stages
<1> QED
  BY <1>1, <1>3

LEMMA UnwrittenTyped ==
  ASSUME TypeOK, NEW q \in saves, NEW stage \in Stages, NEW value \in Version,
         Becomes(q, stage, value), Unwritten
  PROVE  /\ held' \in [Records -> Version]
         /\ log' \in [events : Seq(LogEntry), next : Nat \ {0}] /\ Len(log'.events) <= HistoryLimit
         /\ sockets' \in Seq(SocketType) /\ Len(sockets') = Len(sockets)
         /\ history' \in Seq(Records) /\ saves' \subseteq Save
BY BecomesTyped DEF Unwritten, TypeOK

\* What a route does with a save, whichever it is: it leaves the office alone and
\* says so, or writes the record.
Writes(q) ==
  \/ Accepted(q, TRUE, held[q.record].keeps \cup {q.number})
  \/ Accepted(q, FALSE, {})
  \/ Accepted(q, TRUE, {q.number})
  \/ q.at.stage = "asking" /\ Accepted(q, TRUE, q.at.value.keeps \cup {q.number})

Answers(q) ==
  \/ Becomes(q, "failed", Unloaded)
  \/ Becomes(q, "asking", held[q.record])
  \/ Becomes(q, "conflict", held[q.record])

LEMMA ServedAnswersOrWrites ==
  ASSUME NEW q, Served(q) \/ Written(q)
  PROVE  \/ Answers(q) /\ Unwritten
         \/ Writes(q)
BY DEF Served, Written, NotFound, PatchServed, SwitchServed, RemoveServed, AddServed, AskServed,
       Refused, Answers, Writes

LEMMA RouteTyped ==
  ASSUME TypeOK, NEW q \in saves, Served(q) \/ Written(q)
  PROVE  TypeOK'
<1> DEFINE Goal == /\ held' \in [Records -> Version]
                   /\ log' \in [events : Seq(LogEntry), next : Nat \ {0}]
                   /\ Len(log'.events) <= HistoryLimit
                   /\ sockets' \in Seq(SocketType) /\ Len(sockets') = Len(sockets)
                   /\ history' \in Seq(Records) /\ saves' \subseteq Save
<1>1. CASE Answers(q) /\ Unwritten
  <2>1. held[q.record] \in Version
    BY SaveFields, VersionFields
  <2>2. Goal
    BY <1>1, <2>1, UnwrittenTyped, UnloadedIsVersion DEF Answers, Stages
  <2> QED
    BY <2>2 DEF Served, Written, TypeOK
<1>2. CASE Writes(q)
  <2>1. /\ held[q.record].keeps \cup {q.number} \in SUBSET Nat
        /\ {q.number} \in SUBSET Nat
        /\ q.at.value.keeps \cup {q.number} \in SUBSET Nat
    BY SaveFields, VersionFields DEF Version
  <2>2. Goal
    BY <1>2, <2>1, AcceptedTyped DEF Writes
  <2> QED
    BY <2>2 DEF Served, Written, TypeOK
<1> QED
  BY <1>1, <1>2, ServedAnswersOrWrites

LEMMA PlacedTyped ==
  ASSUME TypeOK, NEW r \in Records, NEW entry \in Entry
  PROVE  Placed(r, entry) \in [Records -> Entry]
BY DEF Placed, TypeOK

LEMMA SettledTyped ==
  ASSUME TypeOK, NEW q \in saves, Settled(q)
  PROVE  TypeOK'
<1>1. [is |-> q.at.value, mine |-> FALSE] \in Entry
  BY SaveFields DEF Entry
<1>2. Placed(q.record, [is |-> q.at.value, mine |-> FALSE]) \in [Records -> Entry]
      /\ PutBack(q) \in [Records -> Entry] /\ shown \in [Records -> Entry]
  BY <1>1, SaveFields, PlacedTyped DEF PutBack, TypeOK
<1>3. \E f \in [Records -> Entry] : Show(f)
  BY <1>2 DEF Settled
<1>4. shown' \in [Records -> Entry] /\ best' \in [Records -> Nat]
  BY <1>3, ShowTyped
<1>5. saves' \subseteq Save
  BY DEF Settled, TypeOK
<1> QED
  BY <1>4, <1>5 DEF Settled, office, TypeOK

LEMMA GivenUpTyped ==
  ASSUME TypeOK, NEW q \in saves, GivenUp(q)
  PROVE  TypeOK'
<1>1. PutBack(q) \in [Records -> Entry]
  BY SaveFields, PlacedTyped DEF PutBack, TypeOK
<1>2. shown' \in [Records -> Entry] /\ best' \in [Records -> Nat]
  BY <1>1, ShowTyped DEF GivenUp
<1>3. [q EXCEPT !.waited = FALSE] \in Save
  BY SaveFields DEF Save
<1>4. saves' \subseteq Save
  BY <1>3 DEF GivenUp, TypeOK
<1> QED
  BY <1>2, <1>4 DEF GivenUp, office, TypeOK

LEMMA ForgottenTyped ==
  ASSUME TypeOK, NEW q \in saves, Forgotten(q)
  PROVE  TypeOK'
BY DEF Forgotten, office, TypeOK

LEMMA StaysTyped == TypeOK /\ [Next]_vars => TypeOK'
<1> SUFFICES ASSUME TypeOK, [Next]_vars PROVE TypeOK'
  OBVIOUS
<1>1. CASE UNCHANGED vars
  BY <1>1 DEF vars, office, canvas, TypeOK
<1>2. CASE Next
  BY <1>2, OpenTyped, ReconnectTyped, RestartTyped, OfficeTyped, BegunTyped, GoneTyped,
     HeardTyped, ReadTyped, AppliedTyped, UnreadTyped, RouteTyped, SettledTyped, GivenUpTyped,
     ForgottenTyped
     DEF Next
<1> QED
  BY <1>1, <1>2

-------------------------------------------------------------------------------
(* One socket.                                                                *)

\* A socket whose end the canvas was not told of.
Live(i) == sockets[i].state \in {"open", "cut"}

\* At most one socket is live, a socket that no longer is was retried, and none
\* is live while a reconnect is due.
OneLine ==
  /\ \A i, j \in DOMAIN sockets : Live(i) /\ Live(j) => i = j
  /\ \A i \in DOMAIN sockets : sockets[i].retried = ~Live(i)
  /\ timer => Opened /\ \A i \in DOMAIN sockets : ~Live(i)

LEMMA LinesKept ==
  ASSUME TypeOK, TypeOK', OneLine, timer' = timer, DOMAIN sockets' = DOMAIN sockets,
         \A i \in DOMAIN sockets : sockets'[i].retried = sockets[i].retried /\ Live(i)' = Live(i)
  PROVE  OneLine'
<1>1. Opened' = Opened
  BY DEF Opened, TypeOK
<1> QED
  BY <1>1 DEF OneLine

\* An event is sent down the open sockets.
LEMMA ToldLines ==
  ASSUME NEW data, sockets' = Told(sockets, data)
  PROVE  /\ DOMAIN sockets' = DOMAIN sockets
         /\ \A i \in DOMAIN sockets :
              /\ sockets'[i].state = sockets[i].state /\ sockets'[i].retried = sockets[i].retried
              /\ sockets[i].state # "open" => sockets'[i] = sockets[i]
              /\ sockets[i].state = "open" =>
                   sockets'[i].queue = Append(sockets[i].queue, Event(log, data))
BY DEF Told, Line

LEMMA PutLines ==
  ASSUME TypeOK, TypeOK', OneLine, NEW r, NEW there, NEW keeps, Put(r, there, keeps),
         timer' = timer
  PROVE  OneLine'
<1>1. \E data : sockets' = Told(sockets, data)
  BY DEF Put
<1> QED
  BY <1>1, ToldLines, LinesKept DEF Live

LEMMA SocketIsLive == Socket(seen).state = "open" /\ Socket(seen).retried = FALSE
BY DEF Socket, Line

LEMMA OpenLines ==
  ASSUME OneLine, Open
  PROVE  OneLine'
<1>1. sockets' = <<Socket(seen)>> /\ ~timer'
  BY DEF Open, OneLine
<1>2. DOMAIN sockets' = {1} /\ sockets'[1] = Socket(seen)
  BY <1>1
<1> QED
  BY <1>1, <1>2, SocketIsLive DEF OneLine, Live

LEMMA ReconnectLines ==
  ASSUME TypeOK, OneLine, Reconnect
  PROVE  OneLine'
<1>1. timer /\ ~timer' /\ sockets' = Append(sockets, Socket(seen)) /\ sockets \in Seq(SocketType)
  BY DEF Reconnect, TypeOK
<1> DEFINE n == Len(sockets) + 1
<1>2. /\ DOMAIN sockets' = DOMAIN sockets \cup {n} /\ n \notin DOMAIN sockets
      /\ sockets'[n] = Socket(seen) /\ \A i \in DOMAIN sockets : sockets'[i] = sockets[i]
  BY <1>1
<1> HIDE DEF n
<1>3. (sockets'[n].state \in {"open", "cut"}) /\ sockets'[n].retried = FALSE
  BY <1>2, SocketIsLive
<1>4. \A i \in DOMAIN sockets : Live(i)' = Live(i) /\ ~Live(i) /\ sockets'[i].retried = ~Live(i)
  BY <1>1, <1>2 DEF OneLine, Live
<1> QED
  BY <1>1, <1>2, <1>3, <1>4 DEF OneLine, Live

\* A socket that fails or ends leaves none, and a reconnect is due.
LEMMA GoneLines ==
  ASSUME TypeOK, OneLine, NEW i \in DOMAIN sockets, Errored(i) \/ Closed(i)
  PROVE  OneLine'
<1>1. PICK state \in {"failed", "closed"} : Retry(i, state)
  BY DEF Errored, Closed
<1>2. /\ DOMAIN sockets' = DOMAIN sockets /\ sockets'[i].state = state /\ sockets'[i].retried = TRUE
      /\ \A j \in DOMAIN sockets \ {i} : sockets'[j] = sockets[j]
      /\ timer' = (timer \/ ~sockets[i].retried)
  BY <1>1 DEF Retry, Line
<1>3. ~Live(i)' /\ \A j \in DOMAIN sockets \ {i} : Live(j)' = Live(j)
  BY <1>1, <1>2 DEF Live
<1>4. timer' => \A j \in DOMAIN sockets \ {i} : ~Live(j)
  BY <1>2 DEF OneLine
<1>5. Opened'
  BY <1>2 DEF Opened
<1> QED
  BY <1>2, <1>3, <1>4, <1>5 DEF OneLine

LEMMA HeardLines ==
  ASSUME TypeOK, TypeOK', OneLine, NEW i \in DOMAIN sockets, Heard(i)
  PROVE  OneLine'
<1>1. /\ DOMAIN sockets' = DOMAIN sockets /\ timer' = timer
      /\ \A j \in DOMAIN sockets :
           sockets'[j].state = sockets[j].state /\ sockets'[j].retried = sockets[j].retried
  BY DEF Heard, Line
<1> QED
  BY <1>1, LinesKept DEF Live

LEMMA RestartLines ==
  ASSUME TypeOK, TypeOK', OneLine, Restart
  PROVE  OneLine'
<1>1. /\ DOMAIN sockets' = DOMAIN sockets /\ timer' = timer
      /\ \A j \in DOMAIN sockets :
           /\ sockets'[j].retried = sockets[j].retried
           /\ sockets'[j].state = IF sockets[j].state = "open" THEN "cut" ELSE sockets[j].state
  BY DEF Restart, Line
<1> QED
  BY <1>1, LinesKept DEF Live

LEMMA StaysOneLine == TypeOK /\ TypeOK' /\ OneLine /\ [Next]_vars => OneLine'
<1> SUFFICES ASSUME TypeOK, TypeOK', OneLine, [Next]_vars PROVE OneLine'
  OBVIOUS
<1>1. ASSUME UNCHANGED <<sockets, timer>> PROVE OneLine'
  BY <1>1, LinesKept DEF Live
<1>2. ASSUME NEW q \in saves, Served(q) \/ Written(q) PROVE OneLine'
  <2>1. timer' = timer
    BY <1>2 DEF Served, Written
  <2>2. CASE Unwritten
    BY <1>1, <2>1, <2>2 DEF Unwritten
  <2>3. CASE \E r, there, keeps : Put(r, there, keeps)
    BY <2>1, <2>3, PutLines
  <2> QED
    BY <1>2, <2>2, <2>3, ServedAnswersOrWrites DEF Writes, Accepted
<1>3. ASSUME NEW r \in course.records, OthersWrite(r) PROVE OneLine'
  BY <1>3, PutLines DEF OthersWrite
<1>4. ASSUME NEW r \in course.records, Patch(r) \/ Switch(r) \/ Ask(r) \/ Remove(r) \/ Add(r)
      PROVE  OneLine'
  BY <1>1, <1>4 DEF Patch, Switch, Ask, Remove, Add, Sent
<1>5. ASSUME NEW q \in reads, Applied(q) \/ Unread(q) \/ \E r \in q.left : Read(q, r)
      PROVE  OneLine'
  BY <1>1, <1>5 DEF Applied, Unread, Read
<1>6. ASSUME NEW q \in saves, Settled(q) \/ GivenUp(q) \/ Forgotten(q) PROVE OneLine'
  BY <1>1, <1>6 DEF Settled, GivenUp, Forgotten
<1>7. CASE UNCHANGED vars
  BY <1>1, <1>7 DEF vars, canvas
<1>8. CASE Next
  BY <1>2, <1>3, <1>4, <1>5, <1>6, <1>8, OpenLines, ReconnectLines, RestartLines, GoneLines,
     HeardLines DEF Next
<1> QED
  BY <1>7, <1>8

-------------------------------------------------------------------------------
(* Saves have numbers of their own, and what waits to be sent is in nobody's  *)
(* keeping yet.                                                               *)

Unkept(q) ==
  /\ \A r \in Records : q.number \notin held[r].keeps
  /\ \A p \in saves : q.number \notin p.at.value.keeps

Numbered ==
  /\ \A p, q \in saves : p.number = q.number => p = q
  /\ \A q \in saves : q.number \in 1 .. begun /\ q.at.value.keeps \subseteq 1 .. begun
  /\ \A q \in saves : q.at.stage = "sent" => Unkept(q)
  /\ \A r \in Records : held[r].keeps \subseteq 1 .. begun

\* The numbers of saves other than those that still wait beside q.
Free(q) == {n \in 1 .. begun : \A s \in saves \ {q} : s.at.stage = "sent" => s.number # n}

LEMMA KeptIsServed ==
  ASSUME Numbered, NEW q \in saves
  PROVE  /\ \A r \in Records : held[r].keeps \subseteq Free(q)
         /\ \A p \in saves : p.at.value.keeps \subseteq Free(q)
         /\ q.number \in Free(q) /\ {} \subseteq Free(q)
<1>1. \A r \in Records : held[r].keeps \subseteq Free(q)
  BY DEF Numbered, Unkept, Free
<1>2. \A p \in saves : p.at.value.keeps \subseteq Free(q)
  BY DEF Numbered, Unkept, Free
<1>3. q.number \in Free(q)
  BY DEF Numbered, Free
<1> QED
  BY <1>1, <1>2, <1>3

\* A save that goes on, or is gone.
LEMMA SaveMoves ==
  ASSUME Numbered, NEW q \in saves, NEW p, begun' = begun,
         saves' \subseteq (saves \ {q}) \cup {p},
         p.number = q.number, p.at.value.keeps \subseteq Free(q),
         \A r \in Records : held'[r].keeps \subseteq Free(q),
         p.at.stage = "sent" => /\ p.at = q.at
                                /\ \A r \in Records : held'[r].keeps = held[r].keeps
  PROVE  Numbered'
<1>1. \A x, y \in saves' : x.number = y.number => x = y
  BY DEF Numbered
<1>2. \A x \in saves' : x.number \in 1 .. begun' /\ x.at.value.keeps \subseteq 1 .. begun'
  BY DEF Numbered, Free
<1>3. \A r \in Records : held'[r].keeps \subseteq 1 .. begun'
  BY DEF Free
<1>4. ASSUME NEW x \in saves', x.at.stage = "sent" PROVE Unkept(x)'
  <2>1. CASE x \in saves \ {q}
    <3>1. \A n \in Free(q) : x.number # n
      BY <1>4, <2>1 DEF Free
    <3>2. \A y \in saves' : x.number \notin y.at.value.keeps
      BY <1>4, <2>1, <3>1 DEF Numbered, Unkept
    <3> QED
      BY <3>1, <3>2 DEF Unkept
  <2>2. CASE x = p
    <3>1. q.at.stage = "sent" /\ Unkept(q) /\ p.at = q.at
      BY <1>4, <2>2 DEF Numbered
    <3>2. \A y \in saves' : x.number \notin y.at.value.keeps
      BY <2>2, <3>1 DEF Unkept
    <3>3. \A r \in Records : x.number \notin held'[r].keeps
      BY <1>4, <2>2, <3>1 DEF Unkept
    <3> QED
      BY <3>2, <3>3 DEF Unkept
  <2> QED
    BY <2>1, <2>2
<1> QED
  BY <1>1, <1>2, <1>3, <1>4 DEF Numbered

LEMMA PutHeld ==
  ASSUME TypeOK, NEW r \in Records, NEW there \in BOOLEAN, NEW keeps \in SUBSET Nat,
         Put(r, there, keeps)
  PROVE  /\ held'[r].ver = held[r].ver + 1 /\ held'[r].there = there /\ held'[r].keeps = keeps
         /\ \A s \in Records \ {r} : held'[s] = held[s]
BY DEF Put, TypeOK

LEMMA RouteNumbered ==
  ASSUME TypeOK, Numbered, NEW q \in saves, Served(q) \/ Written(q)
  PROVE  Numbered'
<1>1. begun' = begun /\ q.record \in Records /\ q \in Save
  BY SaveFields DEF Served, Written
<1>2. CASE Answers(q) /\ Unwritten
  <2>1. PICK stage \in Stages \ {"sent"}, value \in {Unloaded, held[q.record]} :
          Becomes(q, stage, value)
    BY <1>2 DEF Answers, Stages
  <2> PICK p : p = [q EXCEPT !.at = At(stage, value)]
    OBVIOUS
  <2>2. value \in Version /\ value.keeps \subseteq Free(q)
    <3>1. CASE value = Unloaded
      BY <3>1, UnloadedIsVersion, KeptIsServed DEF Unloaded
    <3>2. CASE value = held[q.record]
      BY <1>1, <3>2, VersionFields, KeptIsServed
    <3> QED
      BY <3>1, <3>2
  <2>3. p.number = q.number /\ p.at.stage = stage /\ p.at.value = value
    <3>1. q \in Save /\ stage \in Stages /\ value \in Version
      BY <1>1, <2>1, <2>2
    <3> QED
      BY <3>1 DEF Save, At
  <2>4. saves' = (saves \ {q}) \cup {p} /\ held' = held
    BY <1>2, <2>1 DEF Becomes, Unwritten
  <2> QED
    BY <1>1, <2>2, <2>3, <2>4, KeptIsServed, SaveMoves
<1>3. CASE Writes(q)
  <2>1. PICK there \in BOOLEAN, keeps \in SUBSET Nat :
          Accepted(q, there, keeps) /\ keeps \subseteq Free(q)
    <3>1. /\ held[q.record].keeps \cup {q.number} \in SUBSET Nat
          /\ {q.number} \in SUBSET Nat
          /\ q.at.value.keeps \cup {q.number} \in SUBSET Nat
      BY SaveFields, VersionFields DEF Version
    <3>2. /\ held[q.record].keeps \cup {q.number} \subseteq Free(q)
          /\ {q.number} \subseteq Free(q) /\ {} \subseteq Free(q)
          /\ q.at.value.keeps \cup {q.number} \subseteq Free(q)
      BY <1>1, KeptIsServed
    <3>3. CASE Accepted(q, TRUE, held[q.record].keeps \cup {q.number})
      BY <3>1, <3>2, <3>3
    <3>4. CASE Accepted(q, FALSE, {})
      <4>1. {} \in SUBSET Nat /\ FALSE \in BOOLEAN
        OBVIOUS
      <4> QED
        BY <3>2, <3>4, <4>1, Zenon
    <3>5. CASE Accepted(q, TRUE, {q.number})
      BY <3>1, <3>2, <3>5
    <3>6. CASE Accepted(q, TRUE, q.at.value.keeps \cup {q.number})
      BY <3>1, <3>2, <3>6
    <3> QED
      BY <1>3, <3>3, <3>4, <3>5, <3>6 DEF Writes
  <2> PICK p : p = [q EXCEPT !.at = At("ok", held'[q.record])]
    OBVIOUS
  <2>2. held'[q.record] \in Version
    BY <1>1, <2>1, AcceptedTyped
  <2>3. p.number = q.number /\ p.at.stage = "ok" /\ p.at.value = held'[q.record]
    BY <1>1, <2>2, GoesOn DEF Stages
  <2>4. saves' = (saves \ {q}) \cup {p}
    BY <2>1 DEF Accepted, Becomes
  <2>5. held'[q.record].keeps = keeps /\ \A s \in Records \ {q.record} : held'[s] = held[s]
    BY <1>1, <2>1, PutHeld DEF Accepted
  <2>6. \A s \in Records : held'[s].keeps \subseteq Free(q)
    BY <2>1, <2>5, KeptIsServed
  <2> QED
    BY <1>1, <2>3, <2>4, <2>6, SaveMoves
<1> QED
  BY <1>2, <1>3, ServedAnswersOrWrites

LEMMA SentNumbered ==
  ASSUME TypeOK, Numbered, NEW r, NEW what, NEW preview, Sent(r, what, preview)
  PROVE  Numbered'
<1> DEFINE q == [ record |-> r, what |-> what, number |-> begun + 1, since |-> seen,
                  before |-> shown[r], at |-> At("sent", Unloaded), waited |-> TRUE ]
<1>1. saves' = saves \cup {q} /\ begun' = begun + 1 /\ held' = held /\ begun \in Nat
  BY CoursesAreCourses DEF Sent, office, TypeOK
<1>2. q.number = begun + 1 /\ q.at.value.keeps = {}
  BY DEF At, Unloaded
<1> HIDE DEF q
<1>3. /\ \A p \in saves : p.number \in 1 .. begun /\ begun + 1 \notin p.at.value.keeps
      /\ \A s \in Records : begun + 1 \notin held[s].keeps
  BY <1>1 DEF Numbered
<1>4. \A x, y \in saves' : x.number = y.number => x = y
  BY <1>1, <1>2, <1>3 DEF Numbered
<1>5. \A x \in saves' : x.number \in 1 .. begun' /\ x.at.value.keeps \subseteq 1 .. begun'
  BY <1>1, <1>2 DEF Numbered
<1>6. \A x \in saves' : x.at.stage = "sent" => Unkept(x)'
  BY <1>1, <1>2, <1>3 DEF Numbered, Unkept
<1>7. \A s \in Records : held'[s].keeps \subseteq 1 .. begun'
  BY <1>1 DEF Numbered
<1> QED
  BY <1>4, <1>5, <1>6, <1>7 DEF Numbered

\* Others put none of the canvas's saves into a record.
LEMMA OthersKeep ==
  ASSUME TypeOK, NEW r \in course.records, OthersWrite(r)
  PROVE  \A s \in Records : held'[s].keeps \subseteq held[s].keeps
<1>1. r \in Records
  BY CoursesAreCourses DEF TypeOK
<1>2. PICK there \in BOOLEAN, keeps \in SUBSET Nat :
        Put(r, there, keeps) /\ keeps \subseteq held[r].keeps
  <2>1. held[r].keeps \in SUBSET Nat /\ {} \in SUBSET Nat
    BY <1>1, VersionFields
  <2> QED
    BY <2>1 DEF OthersWrite
<1>4. Put(r, there, keeps)
  BY <1>2
<1>5. held'[r].keeps = keeps /\ \A s \in Records \ {r} : held'[s] = held[s]
  BY <1>1, <1>4, PutHeld
<1>6. keeps \subseteq held[r].keeps
  BY <1>2
<1>7. ASSUME NEW s \in Records PROVE held'[s].keeps \subseteq held[s].keeps
  <2>1. CASE s = r
    BY <1>5, <1>6, <2>1
  <2>2. CASE s # r
    BY <1>5, <2>2
  <2> QED
    BY <2>1, <2>2
<1> QED
  BY <1>7

LEMMA OthersNumbered ==
  ASSUME TypeOK, Numbered, NEW r \in course.records, OthersWrite(r)
  PROVE  Numbered'
<1>1. saves' = saves /\ begun' = begun
  BY DEF OthersWrite
<1>2. \A s \in Records : held'[s].keeps \subseteq held[s].keeps
  BY OthersKeep
<1> QED
  BY <1>1, <1>2 DEF Numbered, Unkept

LEMMA RestartNumbered ==
  ASSUME TypeOK, Numbered, Restart
  PROVE  Numbered'
<1> DEFINE after(q) == IF q.at.stage = "asking" THEN [q EXCEPT !.at = At("lost", Unloaded)] ELSE q
<1>1. saves' = {after(q) : q \in saves} /\ held' = held /\ begun' = begun
  BY DEF Restart
<1>2. ASSUME NEW q \in saves
      PROVE  /\ after(q).number = q.number /\ after(q).at.value.keeps \subseteq q.at.value.keeps
             /\ after(q).at.stage = "sent" => q.at.stage = "sent"
  <2>1. CASE q.at.stage = "asking"
    <3> PICK p : p = [q EXCEPT !.at = At("lost", Unloaded)]
      OBVIOUS
    <3>1. p.number = q.number /\ p.at.stage = "lost" /\ p.at.value = Unloaded
      BY SaveFields, GoesOn, UnloadedIsVersion DEF Stages
    <3>2. after(q) = p
      BY <2>1
    <3> HIDE DEF after
    <3> QED
      BY <3>1, <3>2 DEF Unloaded
  <2>2. CASE q.at.stage # "asking"
    BY <2>2
  <2> QED
    BY <2>1, <2>2
<1> HIDE DEF after
<1>3. \A x, y \in saves' : x.number = y.number => x = y
  BY <1>1, <1>2 DEF Numbered
<1>4. \A x \in saves' : x.number \in 1 .. begun' /\ x.at.value.keeps \subseteq 1 .. begun'
  BY <1>1, <1>2 DEF Numbered
<1>5. \A x \in saves' : x.at.stage = "sent" => Unkept(x)'
  BY <1>1, <1>2 DEF Numbered, Unkept
<1> QED
  BY <1>1, <1>3, <1>4, <1>5 DEF Numbered

LEMMA AnsweredNumbered ==
  ASSUME TypeOK, Numbered, NEW q \in saves, Settled(q) \/ GivenUp(q) \/ Forgotten(q)
  PROVE  Numbered'
<1> DEFINE p == [q EXCEPT !.waited = FALSE]
<1>1. saves' \subseteq (saves \ {q}) \cup {p} /\ begun' = begun /\ held' = held
  BY DEF Settled, GivenUp, Forgotten, office
<1>2. p.number = q.number /\ p.at = q.at
  BY SaveFields DEF Save
<1> HIDE DEF p
<1> QED
  BY <1>1, <1>2, KeptIsServed, SaveMoves

LEMMA StaysNumbered == TypeOK /\ Numbered /\ [Next]_vars => Numbered'
<1> SUFFICES ASSUME TypeOK, Numbered, [Next]_vars PROVE Numbered'
  OBVIOUS
<1>1. ASSUME UNCHANGED <<held, saves, begun>> PROVE Numbered'
  BY <1>1 DEF Numbered, Unkept
<1>2. CASE Open \/ Reconnect
  BY <1>1, <1>2 DEF Open, Reconnect, office
<1>3. ASSUME NEW r \in course.records, Patch(r) \/ Switch(r) \/ Ask(r) \/ Remove(r) \/ Add(r)
      PROVE  Numbered'
  BY <1>3, SentNumbered DEF Patch, Switch, Ask, Remove, Add
<1>4. ASSUME NEW i \in DOMAIN sockets, Errored(i) \/ Closed(i) \/ Heard(i) PROVE Numbered'
  BY <1>1, <1>4 DEF Errored, Closed, Heard, office
<1>5. ASSUME NEW q \in reads, Applied(q) \/ Unread(q) \/ \E r \in q.left : Read(q, r)
      PROVE  Numbered'
  BY <1>1, <1>5 DEF Applied, Unread, Read, office
<1>6. CASE UNCHANGED vars
  BY <1>1, <1>6 DEF vars, canvas, office
<1>7. CASE Next
  BY <1>2, <1>3, <1>4, <1>5, <1>7, RestartNumbered, OthersNumbered, RouteNumbered, AnsweredNumbered
     DEF Next
<1> QED
  BY <1>6, <1>7

-------------------------------------------------------------------------------
(* What the canvas knows, while the server lives.                             *)

\* The last event about a record.
LastOf(r, o) ==
  o \in DOMAIN history /\ history[o] = r /\ \A p \in DOMAIN history : p > o => history[p] # r

\* A value the office has held: not newer than what it holds now, and the same
\* if it is as new.
Real(r, x) == x.ver <= held[r].ver /\ (x.ver = held[r].ver => x.there = held[r].there)

\* An event says what became of a record, and the last about it says how it is.
Fits(m) ==
  /\ m \in LogEntry /\ m.offset < log.next /\ history[m.offset] = m.data.id
  /\ m.data.ver <= held[m.data.id].ver
  /\ m.data.ver = held[m.data.id].ver => m.data.gone = ~held[m.data.id].there
  /\ LastOf(m.data.id, m.offset) => m.data.ver = held[m.data.id].ver

\* The log is the end of what happened.
LogIsHistory ==
  /\ Len(history) = log.next - 1 /\ Len(log.events) < log.next
  /\ log.events = << >> => log.next = 1
  /\ \A i \in DOMAIN log.events : log.events[i].offset = Oldest(log) + i - 1 /\ Fits(log.events[i])

\* Among the first n things a socket carries: the event, or a gap.
Met(queue, o, n) == \E j \in 1 .. n : queue[j].offset \in {0, o}

\* What a socket carries are events in their order, and all there are, counted
\* from those the canvas has noted, unless it is told of a gap first.
Carries(queue) ==
  /\ queue \in Seq(Notice)
  /\ \A k \in DOMAIN queue : queue[k] = Gap \/ Fits(queue[k])
  /\ \A k \in DOMAIN queue : \A o \in 1 .. queue[k].offset - 1 : Noted(o) \/ Met(queue, o, k - 1)
  /\ \A o \in 1 .. log.next - 1 : Noted(o) \/ Met(queue, o, Len(queue))

\* An open socket carries what the canvas has not noted yet.
Streams ==
  \A i \in DOMAIN sockets :
    sockets[i].state # "cut" /\ (sockets[i].state = "open" => Carries(sockets[i].queue))

\* What the canvas has seen it has noted, and nothing that has not happened.
Offsets ==
  covered < log.next /\ told \subseteq 1 .. log.next - 1 /\ \A o \in 1 .. seen : Noted(o)

\* A fetch is about events that were noted, and read what the office held.
ReadsFit ==
  \A q \in reads :
    (\A o \in 1 .. q.offset : Noted(o)) /\ \A r \in DOMAIN q.got : Real(r, q.got[r])

\* A save claims what was noted, and would put back or show what the office held.
SaveFits(q) ==
  /\ \A o \in 1 .. q.since : Noted(o)
  /\ q.before.mine \/ Real(q.record, q.before.is)
  /\ q.at.stage \in {"ok", "conflict"} => Real(q.record, q.at.value)

SavesFit == \A q \in saves : SaveFits(q)

\* What is shown is the canvas's own preview or what the office held.
ShownFit == \A r \in Records : held[r].ver > 0 /\ (shown[r].mine \/ Real(r, shown[r].is))

\* A fetch will bring the record as the office holds it.
Brings(q, r) ==
  \/ r \in q.left /\ (q.for = "reload" \/ r \in Listed \/ held[r].there)
  \/ r \in DOMAIN q.got /\ q.got[r].ver = held[r].ver /\ Applies(q, r)

\* The canvas had what is held, or a fetch will bring it, or it has yet to hear of it.
Reaches(r) ==
  \/ best[r] >= held[r].ver
  \/ \E q \in reads : Brings(q, r)
  \/ \E o \in DOMAIN history : LastOf(r, o) /\ ~Noted(o)

AllReached == Opened => \A r \in course.records : Reaches(r)

\* All of it, while the server lives: a restart starts the log again.
Followed ==
  LogIsHistory /\ Streams /\ Offsets /\ ReadsFit /\ SavesFit /\ ShownFit /\ AllReached

-------------------------------------------------------------------------------
(* The office writes a record.                                                *)

LEMMA RealStays ==
  ASSUME TypeOK, NEW r \in Records, NEW there \in BOOLEAN, NEW keeps \in SUBSET Nat,
         Put(r, there, keeps)
  PROVE  /\ \A s \in Records : \A x \in Version : Real(s, x) => Real(s, x)'
         /\ \A x : x = held'[r] => Real(r, x)'
<1>1. /\ held'[r].ver = held[r].ver + 1 /\ held'[r].there = there
      /\ \A s \in Records \ {r} : held'[s] = held[s]
  BY PutHeld
<1>2. \A s \in Records : held[s].ver \in Nat
  BY VersionFields
<1>3. ASSUME NEW s \in Records, NEW x \in Version, Real(s, x) PROVE Real(s, x)'
  <2>1. x.ver \in Nat
    BY DEF Version
  <2> QED
    BY <1>1, <1>2, <1>3, <2>1 DEF Real
<1>4. ASSUME NEW x, x = held'[r] PROVE Real(r, x)'
  BY <1>1, <1>2, <1>4 DEF Real
<1> QED
  BY <1>3, <1>4

LEMMA HistoryGrows ==
  ASSUME TypeOK, LogIsHistory, NEW r \in Records, NEW there, NEW keeps, Put(r, there, keeps)
  PROVE  /\ log.next \in Nat \ {0} /\ log'.next = log.next + 1
         /\ DOMAIN history = 1 .. log.next - 1 /\ DOMAIN history' = 1 .. log.next
         /\ Len(history') = log.next
         /\ history'[log.next] = r /\ \A o \in 1 .. log.next - 1 : history'[o] = history[o]
         /\ \A n : n = log.next => LastOf(r, n)'
         /\ \A s \in Records \ {r}, o \in 1 .. log.next - 1 : LastOf(s, o)' <=> LastOf(s, o)
         /\ \A o \in 1 .. log.next - 1 : ~LastOf(r, o)'
<1>1. /\ log.next \in Nat \ {0} /\ history \in Seq(Records) /\ Len(history) = log.next - 1
      /\ history' = Append(history, r)
  BY DEF TypeOK, LogIsHistory, Put
<1>2. log'.next = log.next + 1
  BY DEF Put, Published
<1>3. /\ DOMAIN history = 1 .. log.next - 1 /\ DOMAIN history' = 1 .. log.next
      /\ Len(history') = log.next
      /\ history'[log.next] = r /\ \A o \in 1 .. log.next - 1 : history'[o] = history[o]
  BY <1>1
<1>4. /\ \A n : n = log.next => LastOf(r, n)'
      /\ \A o \in 1 .. log.next - 1 : ~LastOf(r, o)'
  BY <1>1, <1>3 DEF LastOf
<1>5. \A s \in Records \ {r}, o \in 1 .. log.next - 1 : LastOf(s, o)' <=> LastOf(s, o)
  BY <1>1, <1>3 DEF LastOf
<1> QED
  BY <1>1, <1>2, <1>3, <1>4, <1>5

LEMMA FitsStays ==
  ASSUME TypeOK, LogIsHistory, NEW r \in Records, NEW there \in BOOLEAN,
         NEW keeps \in SUBSET Nat, Put(r, there, keeps), NEW m, Fits(m)
  PROVE  Fits(m)'
<1>1. /\ held'[r].ver = held[r].ver + 1 /\ held'[r].there = there /\ held[r].ver \in Nat
      /\ \A s \in Records \ {r} : held'[s] = held[s]
  BY PutHeld, VersionFields
<1>2. /\ m.offset \in Nat \ {0} /\ m.data.id \in Records /\ m.data.ver \in Nat
      /\ m \in LogEntry /\ m.offset < log.next /\ history[m.offset] = m.data.id
      /\ m.data.ver <= held[m.data.id].ver
      /\ m.data.ver = held[m.data.id].ver => m.data.gone = ~held[m.data.id].there
      /\ LastOf(m.data.id, m.offset) => m.data.ver = held[m.data.id].ver
  BY DEF Fits, LogEntry
<1>3. m.offset \in 1 .. log.next - 1 /\ m.offset < log'.next /\ history'[m.offset] = m.data.id
  BY <1>2, HistoryGrows
<1>4. CASE m.data.id = r
  <2>1. ~LastOf(r, m.offset)'
    BY <1>3, HistoryGrows
  <2> QED
    BY <1>1, <1>2, <1>3, <1>4, <2>1 DEF Fits
<1>5. CASE m.data.id # r
  <2>1. LastOf(m.data.id, m.offset)' => LastOf(m.data.id, m.offset)
    BY <1>2, <1>3, <1>5, HistoryGrows
  <2>2. held'[m.data.id] = held[m.data.id]
    BY <1>1, <1>2, <1>5
  <2> QED
    BY <1>2, <1>3, <2>1, <2>2 DEF Fits
<1> QED
  BY <1>4, <1>5

\* The event a write publishes.
Said(r, there) == Event(log, [id |-> r, gone |-> ~there, ver |-> held[r].ver + 1])

LEMMA SaidFits ==
  ASSUME TypeOK, LogIsHistory, NEW r \in Records, NEW there \in BOOLEAN,
         NEW keeps \in SUBSET Nat, Put(r, there, keeps)
  PROVE  \A m : m = Said(r, there) => Fits(m)' /\ m \in LogEntry /\ m.offset = log.next
<1> TAKE m
<1> HAVE m = Said(r, there)
<1>1. held'[r].ver = held[r].ver + 1 /\ held'[r].there = there /\ held[r].ver \in Nat
  BY PutHeld, VersionFields
<1>2. /\ log.next \in Nat \ {0} /\ log'.next = log.next + 1
      /\ history'[log.next] = r
  BY HistoryGrows
<1>3. /\ m.offset = log.next /\ m.data.id = r /\ m.data.ver = held[r].ver + 1
      /\ m.data.gone = ~there /\ m \in LogEntry
  BY <1>1, <1>2 DEF Said, Event, LogEntry
<1> QED
  BY <1>1, <1>2, <1>3 DEF Fits

LEMMA LogGrows ==
  ASSUME TypeOK, LogIsHistory, NEW r \in Records, NEW there \in BOOLEAN,
         NEW keeps \in SUBSET Nat, Put(r, there, keeps)
  PROVE  LogIsHistory'
<1>e. PICK e : e = Said(r, there)
  OBVIOUS
<1>n. PICK n : n = Len(log.events)
  OBVIOUS
<1>a. PICK long : long = Append(log.events, e)
  OBVIOUS
<1>k. PICK kept : kept = Trimmed(long, HistoryLimit)
  OBVIOUS
<1>1. log'.events = kept /\ log'.next = log.next + 1
  BY <1>e, <1>a, <1>k DEF Put, Published, Said
<1>2. /\ log.events \in Seq(LogEntry) /\ log.next \in Nat \ {0} /\ n \in Nat /\ n < log.next
      /\ DOMAIN log.events = 1 .. n
      /\ \A i \in 1 .. n : log.events[i].offset = log.next - n + i - 1 /\ Fits(log.events[i])
  <2>1. /\ log.events \in Seq(LogEntry) /\ log.next \in Nat \ {0} /\ n \in Nat
        /\ DOMAIN log.events = 1 .. n
    BY <1>n DEF TypeOK
  <2>2. n < log.next /\ Oldest(log) = log.next - n
    BY <1>n DEF LogIsHistory, Oldest
  <2>3. \A i \in 1 .. n : log.events[i].offset = Oldest(log) + i - 1 /\ Fits(log.events[i])
    BY <2>1 DEF LogIsHistory
  <2> QED
    BY <2>1, <2>2, <2>3
<1>3. e \in LogEntry /\ e.offset = log.next /\ Fits(e)'
  BY <1>e, SaidFits
<1>4. /\ long \in Seq(LogEntry) /\ Len(long) = n + 1 /\ long # << >>
      /\ \A i \in 1 .. n : long[i] = log.events[i]
      /\ long[n + 1] = e
  <2>1. log.events \in Seq(LogEntry) /\ Len(log.events) = n /\ n \in Nat /\ e \in LogEntry
    BY <1>n, <1>2, <1>3
  <2>2. /\ long \in Seq(LogEntry) /\ Len(long) = n + 1
        /\ \A i \in 1 .. n : long[i] = log.events[i]
        /\ long[n + 1] = e
    BY <1>a, <2>1
  <2> QED
    BY <2>1, <2>2
<1>5. ASSUME NEW i \in 1 .. n + 1
      PROVE  long[i].offset = log.next - n + i - 1 /\ Fits(long[i])'
  <2>1. CASE i \in 1 .. n
    <3>1. PICK m : m = log.events[i]
      OBVIOUS
    <3>2. Fits(m) /\ m.offset = log.next - n + i - 1 /\ long[i] = m
      BY <1>2, <1>4, <2>1, <3>1
    <3>3. Fits(m)'
      BY <3>2, FitsStays
    <3> QED
      BY <3>2, <3>3
  <2>2. CASE i = n + 1
    BY <1>2, <1>3, <1>4, <2>2
  <2> QED
    BY <1>2, <2>1, <2>2
<1>6. /\ kept \in Seq(LogEntry) /\ Len(kept) <= Len(long) /\ kept # << >>
      /\ \A i \in DOMAIN kept : kept[i] = long[Len(long) - Len(kept) + i]
  <2>1. HistoryLimit \in Nat \ {0} /\ long \in Seq(LogEntry) /\ long # << >>
    BY <1>4, CanvasConstants
  <2> QED
    BY <1>k, <2>1, TrimmedKeepsTheEnd
<1>l. PICK l : l = Len(kept)
  OBVIOUS
<1>7. l \in Nat /\ l <= n + 1 /\ DOMAIN kept = 1 .. l
  <2>1. kept \in Seq(LogEntry) /\ Len(kept) <= n + 1
    BY <1>4, <1>6
  <2> QED
    BY <1>l, <2>1
<1>8. ASSUME NEW i \in 1 .. l
      PROVE  kept[i].offset = log.next - l + i /\ Fits(kept[i])'
  <2>1. n + 1 - l + i \in 1 .. n + 1 /\ kept[i] = long[n + 1 - l + i]
    <3>1. n \in Nat /\ l \in Nat /\ l <= n + 1
      BY <1>2, <1>7
    <3>2. n + 1 - l + i \in 1 .. n + 1
      BY <3>1
    <3>3. kept[i] = long[n + 1 - l + i]
      <4>1. i \in DOMAIN kept
        BY <1>7
      <4>2. kept[i] = long[Len(long) - Len(kept) + i]
        BY <1>6, <4>1
      <4>3. Len(long) = n + 1 /\ Len(kept) = l /\ n \in Nat /\ l \in Nat
        BY <1>l, <1>2, <1>4, <1>7
      <4> QED
        BY <4>2, <4>3
    <3> QED
      BY <3>2, <3>3
  <2>2. long[n + 1 - l + i].offset = log.next - n + (n + 1 - l + i) - 1
    BY <1>5, <2>1
  <2>3. log.next - n + (n + 1 - l + i) - 1 = log.next - l + i
    <3>1. n \in Nat /\ l \in Nat /\ log.next \in Nat
      BY <1>2, <1>7
    <3> QED
      BY <3>1
  <2> QED
    BY <1>5, <2>1, <2>2, <2>3
<1>9. Len(history') = log'.next - 1 /\ l < log'.next
  BY <1>1, <1>2, <1>7, HistoryGrows
<1>10. Oldest(log)' = log.next + 1 - l /\ Len(log'.events) = l /\ log'.events # << >>
  <2>1. log'.events = kept /\ log'.next = log.next + 1 /\ kept # << >>
    BY <1>1, <1>6
  <2> QED
    <3>1. Oldest(log)' = log'.next - Len(log'.events)
      BY DEF Oldest
    <3>2. Len(log'.events) = l
      BY <1>l, <2>1
    <3>3. l \in Nat /\ log.next \in Nat
      BY <1>2, <1>7
    <3>4. Oldest(log)' = log.next + 1 - l
      BY <2>1, <3>1, <3>2, <3>3
    <3> QED
      BY <2>1, <3>2, <3>4
<1>11. \A i \in 1 .. l : kept[i].offset = Oldest(log)' + i - 1 /\ Fits(kept[i])'
  <2>1. l \in Nat /\ log.next \in Nat
    BY <1>2, <1>7
  <2> TAKE i \in 1 .. l
  <2>2. kept[i].offset = log.next - l + i /\ Fits(kept[i])'
    BY <1>8
  <2>3. log.next + 1 - l + i - 1 = log.next - l + i
    BY <2>1
  <2> QED
    BY <1>10, <2>2, <2>3
<1> QED
  BY <1>1, <1>7, <1>9, <1>10, <1>11 DEF LogIsHistory

LEMMA StreamsGrow ==
  ASSUME TypeOK, LogIsHistory, Streams, NEW r \in Records, NEW there \in BOOLEAN,
         NEW keeps \in SUBSET Nat, Put(r, there, keeps), UNCHANGED <<told, covered>>
  PROVE  Streams'
<1> PICK e : e = Said(r, there)
  OBVIOUS
<1>1. \A i \in DOMAIN sockets :
        /\ sockets'[i].state = sockets[i].state
        /\ sockets[i].state = "open" => sockets'[i].queue = Append(sockets[i].queue, e)
  <2>1. PICK data : sockets' = Told(sockets, data) /\ Event(log, data) = e
    BY DEF Put, Said
  <2> QED
    BY <2>1, ToldLines
<1>2. DOMAIN sockets' = DOMAIN sockets
  BY ToldLines DEF Put
<1>3. e \in LogEntry /\ e.offset = log.next /\ Fits(e)' /\ e \in Notice
  BY SaidFits DEF Notice
<1>4. log'.next = log.next + 1 /\ log.next \in Nat
  BY HistoryGrows
<1>5. \A o : Noted(o)' <=> Noted(o)
  BY DEF Noted
<1>6. ASSUME NEW queue, Carries(queue) PROVE Carries(Append(queue, e))'
  <2>1. queue \in Seq(Notice) /\ Len(queue) \in Nat /\ DOMAIN queue = 1 .. Len(queue)
    BY <1>6 DEF Carries
  <2> PICK n : n = Len(queue)
    OBVIOUS
  <2> PICK long : long = Append(queue, e)
    OBVIOUS
  <2>2. /\ long \in Seq(Notice) /\ Len(long) = n + 1 /\ DOMAIN long = 1 .. n + 1
        /\ \A k \in 1 .. n : long[k] = queue[k]
        /\ long[n + 1] = e
    BY <1>3, <2>1
  <2>3. ASSUME NEW k \in 1 .. n + 1 PROVE long[k] = Gap \/ Fits(long[k])'
    <3>1. CASE k \in 1 .. n
      <4>1. queue[k] = Gap \/ Fits(queue[k])
        BY <1>6, <2>1, <3>1 DEF Carries
      <4> QED
        BY <2>2, <3>1, <4>1, FitsStays
    <3>2. CASE k = n + 1
      BY <1>3, <2>2, <3>2
    <3> QED
      BY <2>1, <3>1, <3>2
  <2>4. ASSUME NEW o, NEW k \in 0 .. n, Met(queue, o, k) PROVE Met(long, o, k)
    BY <2>1, <2>2, <2>4 DEF Met
  <2>5. ASSUME NEW o \in 1 .. log.next - 1 PROVE Noted(o)' \/ Met(long, o, n)
    <3>1. Noted(o) \/ Met(queue, o, n)
      BY <1>6 DEF Carries
    <3> QED
      BY <1>5, <2>1, <2>4, <3>1
  <2>6. ASSUME NEW k \in 1 .. n + 1, NEW o \in 1 .. long[k].offset - 1
        PROVE  Noted(o)' \/ Met(long, o, k - 1)
    <3>1. CASE k \in 1 .. n
      <4>1. Noted(o) \/ Met(queue, o, k - 1)
        BY <1>6, <2>1, <2>2, <3>1 DEF Carries
      <4> QED
        BY <1>5, <2>1, <2>4, <3>1, <4>1
    <3>2. CASE k = n + 1
      BY <1>3, <2>1, <2>2, <2>5, <3>2
    <3> QED
      BY <2>1, <3>1, <3>2
  <2>7. ASSUME NEW o \in 1 .. log'.next - 1 PROVE Noted(o)' \/ Met(long, o, n + 1)
    <3>1. CASE o \in 1 .. log.next - 1
      BY <2>1, <2>5, <3>1 DEF Met
    <3>2. CASE o = log.next
      BY <1>3, <2>1, <2>2, <3>2 DEF Met
    <3> QED
      BY <1>4, <3>1, <3>2
  <2> QED
    BY <2>2, <2>3, <2>6, <2>7 DEF Carries
<1> QED
  BY <1>1, <1>2, <1>6 DEF Streams

LEMMA OpenedBefore ==
  ASSUME TypeOK, NEW r \in Records, NEW there \in BOOLEAN, NEW keeps \in SUBSET Nat,
         Put(r, there, keeps), Opened'
  PROVE  Opened
<1>1. Len(sockets') = Len(sockets) /\ sockets' \in Seq(SocketType) /\ sockets \in Seq(SocketType)
  BY PutTypes DEF TypeOK
<1> QED
  BY <1>1 DEF Opened

\* A write by the office: whatever fitted still does, and of the record it is
\* about the canvas has yet to hear.
LEMMA PutFollowed ==
  ASSUME TypeOK, Followed, NEW r \in Records, NEW there \in BOOLEAN, NEW keeps \in SUBSET Nat,
         Put(r, there, keeps), UNCHANGED <<course, shown, seen, reads, told, covered, best>>
  PROVE  /\ LogIsHistory' /\ Streams' /\ Offsets' /\ ReadsFit' /\ ShownFit' /\ AllReached'
         /\ \A q \in saves : SaveFits(q)'
<1> USE DEF Followed
<1>1. \A o : Noted(o)' <=> Noted(o)
  BY DEF Noted
<1>2. LogIsHistory' /\ Streams'
  BY LogGrows, StreamsGrow
<1>3. log.next \in Nat \ {0} /\ log'.next = log.next + 1
  BY HistoryGrows
<1>4. Offsets'
  <2>1. covered \in Nat /\ covered < log'.next /\ told \subseteq 1 .. log'.next - 1
    BY <1>3 DEF Offsets, TypeOK
  <2> QED
    BY <1>1, <2>1 DEF Offsets
<1>5. \A s \in Records : \A x \in Version : Real(s, x) => Real(s, x)'
  BY RealStays
<1>6. ReadsFit'
  <2>1. ASSUME NEW q \in reads, NEW s \in DOMAIN q.got PROVE Real(s, q.got[s])'
    <3>1. Real(s, q.got[s]) /\ s \in Records /\ q.got[s] \in Version
      BY ReadFields DEF ReadsFit
    <3> QED
      BY <1>5, <3>1
  <2> QED
    BY <1>1, <2>1 DEF ReadsFit
<1>7. ShownFit'
  <2>1. ASSUME NEW s \in Records PROVE held'[s].ver > 0
    <3>1. held[s].ver \in Nat /\ held[s].ver > 0 /\ held'[r].ver = held[r].ver + 1
          /\ (s # r => held'[s] = held[s])
      BY PutHeld, VersionFields DEF ShownFit
    <3> QED
      BY <3>1
  <2>2. ASSUME NEW s \in Records PROVE (shown[s].mine \/ Real(s, shown[s].is))'
    <3>1. PICK x : x = shown[s].is
      OBVIOUS
    <3>2. x \in Version /\ (shown[s].mine \/ Real(s, x))
      BY <3>1, VersionFields DEF ShownFit
    <3>3. shown[s].mine \/ Real(s, x)'
      BY <1>5, <3>2
    <3> QED
      BY <3>1, <3>3 DEF Real
  <2> QED
    BY <2>1, <2>2 DEF ShownFit
<1>8. AllReached'
  <2> SUFFICES ASSUME Opened', NEW s \in course.records PROVE Reaches(s)'
    BY DEF AllReached
  <2>1. s \in Records /\ Opened
    BY CoursesAreCourses, OpenedBefore DEF TypeOK
  <2>2. CASE s = r
    <3>1. PICK n : n = log.next
      OBVIOUS
    <3>2. n \in DOMAIN history' /\ LastOf(s, n)'
      BY <1>3, <2>2, <3>1, HistoryGrows
    <3>3. ~Noted(n)
      <4>1. n \notin told /\ ~(n <= covered)
        BY <1>3, <3>1 DEF Offsets, TypeOK
      <4> QED
        BY <4>1 DEF Noted
    <3> QED
      BY <1>1, <3>2, <3>3 DEF Reaches
  <2>3. CASE s # r
    <3>1. held'[s] = held[s] /\ Reaches(s)
      BY <2>1, <2>3, PutHeld DEF AllReached
    <3>2. \A q \in reads : Brings(q, s) => Brings(q, s)'
      BY <3>1 DEF Brings, Applies
    <3>3. ASSUME NEW o \in DOMAIN history, LastOf(s, o) PROVE o \in DOMAIN history' /\ LastOf(s, o)'
      BY <1>3, <2>1, <2>3, <3>3, HistoryGrows
    <3> QED
      BY <1>1, <3>1, <3>2, <3>3 DEF Reaches
  <2> QED
    BY <2>2, <2>3
<1>9. ASSUME NEW q \in saves PROVE SaveFits(q)'
  <2>1. q.record \in Records /\ q.before.is \in Version /\ q.at.value \in Version /\ SaveFits(q)
    BY SaveFields DEF SavesFit, Entry
  <2> QED
    BY <1>1, <1>5, <2>1 DEF SaveFits
<1> QED
  BY <1>2, <1>4, <1>6, <1>7, <1>8, <1>9

LEMMA OthersFollowed ==
  ASSUME TypeOK, Followed, NEW r \in course.records, OthersWrite(r)
  PROVE  Followed'
<1>1. r \in Records
  BY CoursesAreCourses DEF TypeOK
<1>2. PICK there \in BOOLEAN, keeps \in SUBSET Nat : Put(r, there, keeps)
  <2>1. held[r].keeps \in SUBSET Nat
    BY <1>1, VersionFields
  <2> QED
    BY <2>1 DEF OthersWrite
<1>3. UNCHANGED <<course, shown, seen, reads, told, covered, best, saves>>
  BY DEF OthersWrite
<1>4. /\ LogIsHistory' /\ Streams' /\ Offsets' /\ ReadsFit' /\ ShownFit' /\ AllReached'
      /\ \A q \in saves : SaveFits(q)'
  BY <1>1, <1>2, <1>3, PutFollowed
<1> QED
  BY <1>3, <1>4 DEF Followed, SavesFit

\* Nothing is written: what fits is what fitted, while more may be noted.
LEMMA Unmoved ==
  ASSUME UNCHANGED <<held, log, history>>, \A o \in Nat : Noted(o) => Noted(o)'
  PROVE  /\ \A r, x : Real(r, x)' <=> Real(r, x)
         /\ \A m : Fits(m)' <=> Fits(m)
         /\ \A queue : Carries(queue) => Carries(queue)'
         /\ \A q : SaveFits(q) => SaveFits(q)'
         /\ \A r, o : LastOf(r, o)' <=> LastOf(r, o)
         /\ \A q, r : Brings(q, r)' <=> Brings(q, r)
         /\ LogIsHistory => LogIsHistory'
<1>1. /\ \A r, x : Real(r, x)' <=> Real(r, x)
      /\ \A r, o : LastOf(r, o)' <=> LastOf(r, o)
      /\ \A q, r : Brings(q, r)' <=> Brings(q, r)
  BY DEF Real, LastOf, Brings, Applies
<1>2. \A m : Fits(m)' <=> Fits(m)
  BY <1>1 DEF Fits
<1>3. \A queue : Carries(queue) => Carries(queue)'
  BY <1>2 DEF Carries
<1>4. \A q : SaveFits(q) => SaveFits(q)'
  BY <1>1 DEF SaveFits
<1>5. LogIsHistory => LogIsHistory'
  BY <1>2 DEF LogIsHistory
<1> QED
  BY <1>1, <1>2, <1>3, <1>4, <1>5

LEMMA RouteFollowed ==
  ASSUME TypeOK, Followed, NEW q \in saves, Served(q) \/ Written(q)
  PROVE  Followed'
<1>1. /\ q.record \in Records /\ q \in Save /\ SaveFits(q)
      /\ UNCHANGED <<course, shown, seen, reads, told, covered, best>>
  BY SaveFields DEF Served, Written, Followed, SavesFit
<1>2. \A o : Noted(o)' <=> Noted(o)
  BY <1>1 DEF Noted
<1>3. CASE Answers(q) /\ Unwritten
  <2>1. UNCHANGED <<held, log, history, sockets>>
    BY <1>3 DEF Unwritten
  <2>2. /\ \A r, x : Real(r, x)' <=> Real(r, x)
        /\ \A s : SaveFits(s) => SaveFits(s)'
        /\ \A queue : Carries(queue) => Carries(queue)'
        /\ \A s, r : Brings(s, r)' <=> Brings(s, r)
        /\ \A r, o : LastOf(r, o)' <=> LastOf(r, o)
        /\ LogIsHistory'
    BY <1>2, <2>1, Unmoved DEF Followed
  <2>3. PICK stage \in {"failed", "asking", "conflict"}, value \in Version :
          Becomes(q, stage, value) /\ (stage = "conflict" => value = held[q.record])
    BY <1>1, <1>3, VersionFields, UnloadedIsVersion DEF Answers
  <2> PICK p : p = [q EXCEPT !.at = At(stage, value)]
    OBVIOUS
  <2>4. /\ p.since = q.since /\ p.before = q.before /\ p.record = q.record
        /\ p.at.stage = stage /\ p.at.value = value
    BY <1>1 DEF Save, At
  <2>5. SaveFits(p)'
    <3>1. stage = "conflict" => Real(q.record, value)'
      BY <1>1, <2>2, <2>3, VersionFields DEF Real
    <3>2. stage # "ok"
      BY <2>3
    <3> QED
      BY <1>1, <1>2, <2>2, <2>4, <3>1, <3>2 DEF SaveFits
  <2>6. saves' = (saves \ {q}) \cup {p}
    BY <2>3 DEF Becomes
  <2>7. SavesFit'
    BY <2>2, <2>5, <2>6 DEF Followed, SavesFit
  <2>8. Streams' /\ Offsets' /\ ReadsFit' /\ ShownFit'
    BY <1>1, <1>2, <2>1, <2>2 DEF Followed, Streams, Offsets, ReadsFit, ShownFit
  <2>9. AllReached'
    BY <1>1, <1>2, <2>1, <2>2 DEF Followed, AllReached, Reaches, Opened
  <2> QED
    BY <2>2, <2>7, <2>8, <2>9 DEF Followed
<1>4. CASE Writes(q)
  <2>1. PICK there \in BOOLEAN, keeps \in SUBSET Nat : Accepted(q, there, keeps)
    <3>1. /\ held[q.record].keeps \cup {q.number} \in SUBSET Nat
          /\ {q.number} \in SUBSET Nat
          /\ q.at.value.keeps \cup {q.number} \in SUBSET Nat
      BY SaveFields, VersionFields DEF Version
    <3> QED
      BY <1>4, <3>1 DEF Writes
  <2>2. Put(q.record, there, keeps)
    BY <2>1 DEF Accepted
  <2>3. /\ LogIsHistory' /\ Streams' /\ Offsets' /\ ReadsFit' /\ ShownFit' /\ AllReached'
        /\ \A s \in saves : SaveFits(s)'
    BY <1>1, <2>2, PutFollowed
  <2>4. PICK value : value = held'[q.record]
    OBVIOUS
  <2>5. value \in Version /\ Real(q.record, value)'
    BY <1>1, <2>1, <2>2, <2>4, AcceptedTyped, RealStays
  <2> PICK p : p = [q EXCEPT !.at = At("ok", value)]
    OBVIOUS
  <2>6. /\ p.since = q.since /\ p.before = q.before /\ p.record = q.record
        /\ p.at.stage = "ok" /\ p.at.value = value
    BY <1>1 DEF Save, At
  <2>7. SaveFits(p)'
    BY <2>3, <2>5, <2>6 DEF SaveFits
  <2>8. saves' = (saves \ {q}) \cup {p}
    BY <2>1, <2>4 DEF Accepted, Becomes
  <2>9. SavesFit'
    BY <2>3, <2>7, <2>8 DEF SavesFit
  <2> QED
    BY <2>3, <2>9 DEF Followed
<1> QED
  BY <1>3, <1>4, ServedAnswersOrWrites

-------------------------------------------------------------------------------
(* The stream.                                                                *)

\* A connection answers with what was missed, or with a gap.
LEMMA SocketCarries ==
  ASSUME TypeOK, LogIsHistory, Offsets
  PROVE  Carries(Socket(seen).queue)
<1>1. /\ log \in [events : Seq(LogEntry), next : Nat \ {0}] /\ seen \in Nat
      /\ log.events \in Seq(LogEntry) /\ log.next \in Nat \ {0}
  BY DEF TypeOK
<1>n. PICK n : n = Len(log.events)
  OBVIOUS
<1>2. n \in Nat /\ n < log.next /\ DOMAIN log.events = 1 .. n
  BY <1>1, <1>n DEF LogIsHistory
<1>b. PICK b : b = Oldest(log)
  OBVIOUS
<1>3. b = log.next - n /\ b \in Nat \ {0}
  BY <1>1, <1>2, <1>n, <1>b DEF Oldest
<1>4. \A i \in 1 .. n : log.events[i].offset = b + i - 1 /\ Fits(log.events[i])
  BY <1>2, <1>b DEF LogIsHistory
<1>5. \A o \in 1 .. seen : Noted(o)
  BY DEF Offsets
<1>6. CASE ~CanReplayFrom(log, seen)
  <2>1. Socket(seen).queue = <<Gap>> /\ Gap \in Notice /\ Gap.offset = 0
    BY <1>6 DEF Socket, Line, Notice, Gap
  <2>q. PICK q : q = <<Gap>>
    OBVIOUS
  <2>2. q \in Seq(Notice) /\ DOMAIN q = 1 .. 1 /\ Len(q) = 1 /\ q[1] = Gap
    BY <2>1, <2>q
  <2>3. \A k \in DOMAIN q : q[k] = Gap
    BY <2>2
  <2>4. \A k \in DOMAIN q : \A o \in 1 .. q[k].offset - 1 : Noted(o) \/ Met(q, o, k - 1)
    BY <2>1, <2>3
  <2>5. \A o : Met(q, o, Len(q))
    BY <2>1, <2>2 DEF Met
  <2>6. Carries(q)
    BY <2>2, <2>3, <2>4, <2>5 DEF Carries
  <2> QED
    BY <2>1, <2>q, <2>6
<1>7. CASE CanReplayFrom(log, seen)
  <2>q. PICK q : q = Since(log, seen)
    OBVIOUS
  <2>m. PICK m : m = Later(1, seen - Oldest(log) + 2)
    OBVIOUS
  <2>1. Socket(seen).queue = q
    BY <1>7, <2>q DEF Socket, Line
  <2>2. /\ m \in Nat \ {0} /\ q \in Seq(LogEntry)
        /\ Len(q) = (IF m <= n THEN n - m + 1 ELSE 0)
        /\ \A k \in 1 .. Len(q) : q[k] = log.events[m + k - 1]
    BY <1>1, <1>n, <2>q, <2>m, SinceTyped
  <2>3. q \in Seq(Notice) /\ DOMAIN q = 1 .. Len(q) /\ Len(q) \in Nat
    BY <2>2 DEF Notice
  <2>4. m = seen - b + 2 \/ n = 0
    <3>1. CASE log.events = << >>
      BY <1>n, <3>1
    <3>2. CASE log.events # << >>
      <4>1. Head(log.events).offset = b
        <5>1. 1 \in 1 .. n /\ Head(log.events) = log.events[1]
          BY <1>1, <1>n, <1>2, <3>2
        <5> QED
          BY <1>3, <1>4, <5>1
      <4>2. seen >= b - 1
        BY <1>7, <3>2, <4>1 DEF CanReplayFrom
      <4> QED
        BY <1>1, <1>3, <1>b, <2>m, <4>2 DEF Later
    <3> QED
      BY <3>1, <3>2
  <2>5. ASSUME NEW k \in 1 .. Len(q)
        PROVE  q[k].offset = seen + k /\ Fits(q[k])
    <3>1. m <= n /\ m + k - 1 \in 1 .. n /\ m = seen - b + 2
      BY <1>2, <2>2, <2>3, <2>4
    <3>2. q[k] = log.events[m + k - 1]
      BY <2>2
    <3>3. log.events[m + k - 1].offset = b + (m + k - 1) - 1 /\ Fits(log.events[m + k - 1])
      BY <1>4, <3>1
    <3>4. b + (m + k - 1) - 1 = seen + k
      <4>1. b \in Int /\ seen \in Int /\ k \in Int /\ m = seen - b + 2
        BY <1>1, <1>3, <2>3, <3>1
      <4> QED
        BY <4>1
    <3> QED
      BY <3>2, <3>3, <3>4
  <2>6. ASSUME NEW k \in 0 .. Len(q), NEW o \in 1 .. seen + k
        PROVE  Noted(o) \/ Met(q, o, k)
    <3>1. CASE o <= seen
      BY <1>1, <1>5, <3>1
    <3>2. CASE o > seen
      <4>1. o - seen \in 1 .. k /\ o - seen \in 1 .. Len(q) /\ seen + (o - seen) = o
        BY <1>1, <2>3, <3>2
      <4>2. q[o - seen].offset = o
        BY <2>5, <4>1
      <4> QED
        BY <4>1, <4>2 DEF Met
    <3> QED
      BY <1>1, <3>1, <3>2
  <2>7. \A k \in DOMAIN q : \A o \in 1 .. q[k].offset - 1 : Noted(o) \/ Met(q, o, k - 1)
    <3> SUFFICES ASSUME NEW k \in 1 .. Len(q), NEW o \in 1 .. q[k].offset - 1
                 PROVE  Noted(o) \/ Met(q, o, k - 1)
      BY <2>3
    <3>1. k - 1 \in 0 .. Len(q) /\ o \in 1 .. seen + (k - 1)
      BY <1>1, <2>3, <2>5
    <3> QED
      BY <2>6, <3>1
  <2>8. ASSUME NEW o \in 1 .. log.next - 1 PROVE Noted(o) \/ Met(q, o, Len(q))
    <3>1. o \in 1 .. seen + Len(q)
      <4>1. CASE m <= n
        <5>1. PICK next, len : next = log.next /\ len = Len(q)
          OBVIOUS
        <5>2. /\ next \in Int /\ n \in Int /\ m \in Int /\ b \in Int /\ seen \in Int
              /\ b = next - n /\ len = n - m + 1 /\ m = seen - b + 2
          BY <1>1, <1>2, <1>3, <2>2, <2>4, <4>1, <5>1
        <5>3. seen + len = next - 1
          BY <5>2
        <5> QED
          BY <5>1, <5>3
      <4>2. CASE ~(m <= n) /\ n # 0
        BY <1>1, <1>2, <1>3, <2>2, <2>4, <4>2
      <4>3. CASE n = 0
        <5>1. log.events = << >>
          BY <1>1, <1>n, <4>3, EmptySeq
        <5> QED
          BY <1>1, <5>1 DEF LogIsHistory
      <4> QED
        BY <4>1, <4>2, <4>3
    <3> QED
      BY <2>3, <2>6, <3>1
  <2>9. Carries(q)
    BY <2>3, <2>5, <2>7, <2>8 DEF Carries
  <2> QED
    BY <2>1, <2>9
<1> QED
  BY <1>6, <1>7

\* A record of which the canvas has what is held, or will, or has yet to hear.
LEMMA ReachesOn ==
  ASSUME UNCHANGED <<course, held, log, history>>, \A o \in Nat : Noted(o) => Noted(o)',
         NEW r, Reaches(r),
         best[r] >= held[r].ver => best'[r] >= held[r].ver,
         \A q \in reads : Brings(q, r) =>
           best'[r] >= held[r].ver \/ \E p \in reads' : Brings(p, r),
         \A o : LastOf(r, o) /\ Noted(o)' =>
           Noted(o) \/ best'[r] >= held[r].ver \/ \E p \in reads' : Brings(p, r)
  PROVE  Reaches(r)'
<1>1. /\ \A q : Brings(q, r)' <=> Brings(q, r)
      /\ \A o : LastOf(r, o)' <=> LastOf(r, o)
  BY Unmoved
<1> QED
  BY <1>1 DEF Reaches

LEMMA AllNoted ==
  ASSUME TypeOK, covered' = log.next - 1, UNCHANGED <<log, told>>, Offsets
  PROVE  /\ \A o \in Nat : Noted(o) => Noted(o)'
         /\ \A o \in 1 .. log.next - 1 : Noted(o)'
         /\ covered' < log.next /\ told' \subseteq 1 .. log.next - 1
<1>1. log.next \in Nat /\ covered \in Nat /\ covered <= covered'
  BY DEF TypeOK, Offsets
<1>2. ASSUME NEW o \in Nat, Noted(o) PROVE Noted(o)'
  <2>1. CASE o \in told
    BY <2>1 DEF Noted
  <2>2. CASE o \notin told
    <3>1. o <= covered
      BY <1>2, <2>2 DEF Noted
    <3> QED
      BY <1>1, <3>1 DEF Noted
  <2> QED
    BY <2>1, <2>2
<1> QED
  BY <1>1, <1>2 DEF Noted, Offsets

LEMMA OpenFollowed ==
  ASSUME TypeOK, Followed, Open
  PROVE  Followed'
<1>1. /\ UNCHANGED <<course, held, log, history, shown, seen, saves, best, told>>
      /\ covered' = log.next - 1 /\ reads' = {Reload} /\ sockets' = <<Socket(seen)>>
  BY DEF Open, office
<1>2. /\ \A o \in Nat : Noted(o) => Noted(o)'
      /\ \A o \in 1 .. log.next - 1 : Noted(o)'
      /\ covered' < log.next /\ told' \subseteq 1 .. log.next - 1
  BY <1>1, AllNoted DEF Followed
<1>3. /\ \A r, x : Real(r, x)' <=> Real(r, x)
      /\ \A queue : Carries(queue) => Carries(queue)'
      /\ \A q : SaveFits(q) => SaveFits(q)'
      /\ \A q, r : Brings(q, r)' <=> Brings(q, r)
      /\ LogIsHistory'
  BY <1>1, <1>2, Unmoved DEF Followed
<1>4. Streams'
  <2>1. PICK queue : queue = Socket(seen).queue
    OBVIOUS
  <2>2. Carries(queue)'
    BY <1>3, <2>1, SocketCarries DEF Followed
  <2>3. DOMAIN sockets' = {1} /\ sockets'[1].state = "open" /\ sockets'[1].queue = queue
    BY <1>1, <2>1, SocketIsLive
  <2> QED
    BY <2>2, <2>3 DEF Streams
<1>5. Offsets'
  BY <1>1, <1>2 DEF Offsets, Followed, TypeOK
<1>6. ReadsFit'
  BY <1>1 DEF ReadsFit, Reload
<1>7. SavesFit' /\ ShownFit'
  BY <1>1, <1>3 DEF Followed, SavesFit, ShownFit
<1>8. AllReached'
  <2>1. \A r \in course.records : Brings(Reload, r)
    BY DEF Brings, Reload
  <2> PICK q : q = Reload
    OBVIOUS
  <2>2. \A r \in course.records : Brings(q, r)' /\ q \in reads'
    BY <1>1, <1>3, <2>1
  <2> QED
    BY <1>1, <2>2 DEF AllReached, Reaches
<1> QED
  BY <1>3, <1>4, <1>5, <1>6, <1>7, <1>8 DEF Followed

LEMMA ReconnectFollowed ==
  ASSUME TypeOK, Followed, OneLine, Reconnect
  PROVE  Followed'
<1>1. /\ UNCHANGED <<course, held, log, history, shown, seen, saves, best, told, covered, reads>>
      /\ sockets' = Append(sockets, Socket(seen)) /\ sockets \in Seq(SocketType) /\ Opened
  BY DEF Reconnect, office, TypeOK, OneLine
<1>2. \A o : Noted(o)' <=> Noted(o)
  BY <1>1 DEF Noted
<1>3. /\ \A r, x : Real(r, x)' <=> Real(r, x)
      /\ \A queue : Carries(queue) => Carries(queue)'
      /\ \A q : SaveFits(q) => SaveFits(q)'
      /\ \A q, r : Brings(q, r)' <=> Brings(q, r)
      /\ \A r, o : LastOf(r, o)' <=> LastOf(r, o)
      /\ LogIsHistory'
  BY <1>1, <1>2, Unmoved DEF Followed
<1>4. Streams'
  <2>1. PICK queue : queue = Socket(seen).queue
    OBVIOUS
  <2>2. Carries(queue)'
    BY <1>3, <2>1, SocketCarries DEF Followed
  <2>n. PICK n : n = Len(sockets) + 1
    OBVIOUS
  <2>3. /\ DOMAIN sockets' = DOMAIN sockets \cup {n} /\ sockets'[n] = Socket(seen)
        /\ \A i \in DOMAIN sockets : sockets'[i] = sockets[i]
    BY <1>1, <2>n
  <2>4. sockets'[n].state = "open" /\ sockets'[n].queue = queue
    BY <2>1, <2>3, SocketIsLive
  <2>5. ASSUME NEW i \in DOMAIN sockets
        PROVE  sockets'[i].state # "cut" /\ (sockets'[i].state = "open" => Carries(sockets[i].queue)')
    <3>1. PICK old : old = sockets[i].queue
      OBVIOUS
    <3>2. /\ sockets[i].state # "cut" /\ (sockets[i].state = "open" => Carries(old))
          /\ sockets'[i] = sockets[i] /\ sockets'[i].queue = old
      BY <2>3, <3>1 DEF Followed, Streams
    <3> QED
      BY <1>3, <3>2
  <2> QED
    BY <2>2, <2>3, <2>4, <2>5 DEF Streams
<1>5. Offsets' /\ ReadsFit' /\ SavesFit' /\ ShownFit'
  BY <1>1, <1>2, <1>3 DEF Followed, Offsets, ReadsFit, SavesFit, ShownFit
<1>6. AllReached'
  BY <1>1, <1>2, <1>3 DEF Followed, AllReached, Reaches
<1> QED
  BY <1>3, <1>4, <1>5, <1>6 DEF Followed

LEMMA GoneFollowed ==
  ASSUME TypeOK, Followed, NEW i \in DOMAIN sockets, Errored(i) \/ Closed(i)
  PROVE  Followed'
<1>1. UNCHANGED <<course, held, log, history, shown, seen, saves, best, told, covered, reads>>
  BY DEF Errored, Closed, office
<1>2. \A o : Noted(o)' <=> Noted(o)
  BY <1>1 DEF Noted
<1>3. /\ \A r, x : Real(r, x)' <=> Real(r, x)
      /\ \A queue : Carries(queue) => Carries(queue)'
      /\ \A q : SaveFits(q) => SaveFits(q)'
      /\ \A q, r : Brings(q, r)' <=> Brings(q, r)
      /\ \A r, o : LastOf(r, o)' <=> LastOf(r, o)
      /\ LogIsHistory'
  BY <1>1, <1>2, Unmoved DEF Followed
<1>4. Streams'
  <2>1. PICK state \in {"failed", "closed"} : Retry(i, state)
    BY DEF Errored, Closed
  <2>2. /\ DOMAIN sockets' = DOMAIN sockets /\ sockets'[i].state = state
        /\ \A j \in DOMAIN sockets \ {i} : sockets'[j] = sockets[j]
    BY <2>1 DEF Retry, Line
  <2> SUFFICES ASSUME NEW j \in DOMAIN sockets'
               PROVE  sockets'[j].state # "cut"
                      /\ (sockets'[j].state = "open" => Carries(sockets[j].queue)')
    BY DEF Streams
  <2>3. CASE j = i
    BY <2>1, <2>2, <2>3
  <2>4. CASE j # i
    <3>1. PICK old : old = sockets[j].queue
      OBVIOUS
    <3>2. /\ sockets[j].state # "cut" /\ (sockets[j].state = "open" => Carries(old))
          /\ sockets'[j] = sockets[j] /\ sockets'[j].queue = old
      BY <2>2, <2>4, <3>1 DEF Followed, Streams
    <3> QED
      BY <1>3, <3>2
  <2> QED
    BY <2>3, <2>4
<1>5. Offsets' /\ ReadsFit' /\ SavesFit' /\ ShownFit'
  BY <1>1, <1>2, <1>3 DEF Followed, Offsets, ReadsFit, SavesFit, ShownFit
<1>6. AllReached'
  <2>1. Opened
    BY DEF Opened, TypeOK
  <2> QED
    BY <1>1, <1>2, <1>3, <2>1 DEF Followed, AllReached, Reaches
<1> QED
  BY <1>3, <1>4, <1>5, <1>6 DEF Followed

\* What is left to hear once the first thing was heard.
LEMMA TailCarries ==
  ASSUME UNCHANGED <<held, log, history>>, log.next \in Nat, \A o \in Nat : Noted(o) => Noted(o)',
         NEW queue, Carries(queue), queue # << >>,
         Head(queue) = Gap => \A o \in 1 .. log.next - 1 : Noted(o)',
         NEW first, first = Head(queue).offset, Head(queue) # Gap => Noted(first)'
  PROVE  \A t : t = Tail(queue) => Carries(t)'
<1> TAKE t
<1> HAVE t = Tail(queue)
<1>1. /\ \A m : Fits(m)' <=> Fits(m)
      /\ log'.next = log.next
  BY Unmoved
<1>n. PICK n : n = Len(queue)
  OBVIOUS
<1>2. /\ queue \in Seq(Notice) /\ n \in Nat \ {0} /\ DOMAIN queue = 1 .. n
      /\ Head(queue) = queue[1] /\ t \in Seq(Notice) /\ DOMAIN t = 1 .. n - 1 /\ Len(t) = n - 1
      /\ \A k \in 1 .. n - 1 : t[k] = queue[k + 1]
  BY <1>n DEF Carries
<1>3. /\ \A k \in 1 .. n : queue[k] = Gap \/ Fits(queue[k])
      /\ \A k \in 1 .. n : \A o \in 1 .. queue[k].offset - 1 : Noted(o) \/ Met(queue, o, k - 1)
      /\ \A o \in 1 .. log.next - 1 : Noted(o) \/ Met(queue, o, n)
  BY <1>n, <1>2 DEF Carries
<1>4. \A k \in 1 .. n : queue[k] # Gap => queue[k].offset \in 1 .. log.next - 1
  BY <1>3 DEF Fits, LogEntry
<1>g. \A k \in 1 .. n : queue[k].offset \in 0 .. log.next
  <2>1. Gap.offset = 0 /\ 0 \in 0 .. log.next
    BY DEF Gap
  <2> QED
    BY <1>4, <2>1
<1>5. ASSUME NEW o \in 1 .. log.next - 1, NEW k \in 1 .. n, Noted(o) \/ Met(queue, o, k)
      PROVE  Noted(o)' \/ Met(t, o, k - 1)
  <2>1. CASE Noted(o)
    BY <2>1
  <2>2. CASE Met(queue, o, k)
    <3>1. PICK j \in 1 .. k : queue[j].offset \in {0, o}
      BY <2>2 DEF Met
    <3>2. CASE j = 1
      <4>1. CASE Head(queue) = Gap
        BY <4>1
      <4>2. CASE Head(queue) # Gap
        <5>1. first = o
          BY <1>2, <1>4, <3>1, <3>2, <4>2
        <5> QED
          BY <4>2, <5>1
      <4> QED
        BY <4>1, <4>2
    <3>3. CASE j # 1
      <4>1. j - 1 \in 1 .. k - 1 /\ j - 1 \in 1 .. n - 1 /\ (j - 1) + 1 = j
        BY <1>2, <3>1, <3>3
      <4>2. t[j - 1] = queue[j]
        BY <1>2, <4>1
      <4> QED
        BY <3>1, <4>1, <4>2 DEF Met
    <3> QED
      BY <3>2, <3>3
  <2> QED
    BY <1>5, <2>1, <2>2
<1>6. ASSUME NEW k \in 1 .. n - 1
      PROVE  /\ t[k] = Gap \/ Fits(t[k])'
             /\ \A o \in 1 .. t[k].offset - 1 : Noted(o)' \/ Met(t, o, k - 1)
  <2>1. k + 1 \in 1 .. n /\ k \in 1 .. n /\ (k + 1) - 1 = k
    BY <1>2
  <2>2. t[k] = queue[k + 1]
    BY <1>2
  <2>3. t[k] = Gap \/ Fits(t[k])'
    BY <1>1, <1>3, <2>1, <2>2
  <2>4. ASSUME NEW o \in 1 .. t[k].offset - 1 PROVE Noted(o)' \/ Met(t, o, k - 1)
    <3>1. Noted(o) \/ Met(queue, o, k)
      BY <1>3, <2>1, <2>2
    <3>2. t[k].offset \in 0 .. log.next
      BY <1>g, <2>1, <2>2
    <3>p. PICK p : p = t[k].offset
      OBVIOUS
    <3>3. p \in 0 .. log.next /\ o \in 1 .. p - 1
      BY <3>2, <3>p
    <3>4. o \in 1 .. log.next - 1
      BY <3>3
    <3> QED
      BY <1>5, <2>1, <3>1, <3>4
  <2> QED
    BY <2>3, <2>4
<1>7. ASSUME NEW o \in 1 .. log'.next - 1 PROVE Noted(o)' \/ Met(t, o, n - 1)
  BY <1>1, <1>2, <1>3, <1>5
<1> QED
  BY <1>2, <1>6, <1>7 DEF Carries

\* A thing was heard on a socket: the others are as they were.
LEMMA HeardStreams ==
  ASSUME TypeOK, Followed, NEW i \in DOMAIN sockets, Heard(i),
         \A o \in Nat : Noted(o) => Noted(o)',
         Head(sockets[i].queue) = Gap => \A o \in 1 .. log.next - 1 : Noted(o)',
         NEW first, first = Head(sockets[i].queue).offset,
         Head(sockets[i].queue) # Gap => Noted(first)'
  PROVE  Streams'
<1>1. /\ UNCHANGED <<held, log, history>> /\ log.next \in Nat
      /\ sockets[i].queue # << >> /\ sockets[i].state \in {"open", "cut"}
      /\ sockets' = [sockets EXCEPT ![i] =
                       Line(sockets[i].state, sockets[i].retried, Tail(sockets[i].queue))]
  BY DEF Heard, office, TypeOK
<1>2. sockets[i].state = "open" /\ Carries(sockets[i].queue)
  BY <1>1 DEF Followed, Streams
<1>3. PICK t : t = Tail(sockets[i].queue)
  OBVIOUS
<1>4. PICK queue : queue = sockets[i].queue
  OBVIOUS
<1>5. Carries(t)'
  BY <1>1, <1>2, <1>3, <1>4, TailCarries
<1>6. /\ DOMAIN sockets' = DOMAIN sockets /\ sockets'[i].state = "open" /\ sockets'[i].queue = t
      /\ \A j \in DOMAIN sockets \ {i} : sockets'[j] = sockets[j]
  BY <1>1, <1>2, <1>3 DEF Line
<1>7. \A q : Carries(q) => Carries(q)'
  BY <1>1, Unmoved
<1>8. ASSUME NEW j \in DOMAIN sockets \ {i}
      PROVE  sockets'[j].state # "cut" /\ (sockets'[j].state = "open" => Carries(sockets[j].queue)')
  <2>1. PICK old : old = sockets[j].queue
    OBVIOUS
  <2>2. /\ sockets[j].state # "cut" /\ (sockets[j].state = "open" => Carries(old))
        /\ sockets'[j] = sockets[j] /\ sockets'[j].queue = old
    BY <1>6, <2>1 DEF Followed, Streams
  <2> QED
    BY <1>7, <2>2
<1> QED
  BY <1>5, <1>6, <1>8 DEF Streams

-------------------------------------------------------------------------------
(* The canvas: what it hears, reads, shows and saves.                         *)

\* A step of the canvas, by what has to be seen to.
LEMMA CanvasStep ==
  ASSUME TypeOK, Followed, UNCHANGED <<course, held, log, history>>,
         \A o \in Nat : Noted(o) => Noted(o)',
         Streams', Opened' => Opened, covered' < log.next, told' \subseteq 1 .. log.next - 1,
         \A o \in 1 .. seen' : Noted(o)',
         \A q \in reads' \ reads :
           (\A o \in 1 .. q.offset : Noted(o)') /\ \A r \in DOMAIN q.got : Real(r, q.got[r]),
         \A q \in saves' \ saves : SaveFits(q),
         \A r \in Records : shown'[r].mine \/ Real(r, shown'[r].is),
         \A r \in course.records : Opened /\ Reaches(r) => Reaches(r)'
  PROVE  Followed'
<1>1. /\ \A r, x : Real(r, x)' <=> Real(r, x)
      /\ \A q : SaveFits(q) => SaveFits(q)'
      /\ LogIsHistory'
  BY Unmoved DEF Followed
<1>2. Offsets'
  BY DEF Offsets
<1>3. ReadsFit'
  <2> SUFFICES ASSUME NEW q \in reads'
               PROVE  (\A o \in 1 .. q.offset : Noted(o)')
                      /\ \A r \in DOMAIN q.got : Real(r, q.got[r])'
    BY DEF ReadsFit
  <2>1. CASE q \in reads
    <3>1. (\A o \in 1 .. q.offset : Noted(o)) /\ \A r \in DOMAIN q.got : Real(r, q.got[r])
      BY <2>1 DEF Followed, ReadsFit
    <3>2. q.offset \in Nat /\ \A o \in 1 .. q.offset : o \in Nat
      BY <2>1, ReadFields
    <3> QED
      BY <1>1, <3>1, <3>2
  <2>2. CASE q \notin reads
    BY <1>1, <2>2
  <2> QED
    BY <2>1, <2>2
<1>4. SavesFit'
  BY <1>1 DEF Followed, SavesFit
<1>5. ShownFit'
  <2> SUFFICES ASSUME NEW r \in Records
               PROVE  held'[r].ver > 0 /\ (shown'[r].mine \/ (Real(r, shown[r].is))')
    BY DEF ShownFit
  <2>1. PICK x : x = shown'[r].is
    OBVIOUS
  <2> QED
    BY <1>1, <2>1 DEF Followed, ShownFit
<1>6. AllReached'
  BY DEF Followed, AllReached
<1> QED
  BY <1>1, <1>2, <1>3, <1>4, <1>5, <1>6 DEF Followed

\* A step of the store or of a read: nothing is heard.
LEMMA StoreStep ==
  ASSUME TypeOK, Followed, UNCHANGED <<course, held, log, history, told, covered, sockets>>,
         \A o \in 1 .. seen' : Noted(o),
         \A q \in reads' \ reads :
           (\A o \in 1 .. q.offset : Noted(o)) /\ \A r \in DOMAIN q.got : Real(r, q.got[r]),
         \A q \in saves' \ saves : SaveFits(q),
         \A r \in Records : shown'[r].mine \/ Real(r, shown'[r].is),
         \A r \in course.records : best[r] >= held[r].ver => best'[r] >= held[r].ver,
         \A r \in course.records : \A q \in reads :
           Brings(q, r) => best'[r] >= held[r].ver \/ \E p \in reads' : Brings(p, r)
  PROVE  Followed'
<1>1. \A o : Noted(o)' <=> Noted(o)
  BY DEF Noted
<1>2. \A queue : Carries(queue) => Carries(queue)'
  BY <1>1, Unmoved
<1>3. Streams'
  <2> SUFFICES ASSUME NEW i \in DOMAIN sockets
               PROVE  sockets[i].state # "cut"
                      /\ (sockets[i].state = "open" => Carries(sockets[i].queue)')
    BY DEF Streams
  <2>1. PICK old : old = sockets[i].queue
    OBVIOUS
  <2> QED
    BY <1>2, <2>1 DEF Followed, Streams
<1>4. Opened' = Opened /\ covered' < log.next /\ told' \subseteq 1 .. log.next - 1
  BY DEF Opened, Followed, Offsets
<1>5. \A r \in course.records : Reaches(r) => Reaches(r)'
  BY <1>1, ReachesOn
<1> QED
  BY <1>1, <1>3, <1>4, <1>5, CanvasStep

\* What a show does to the latest version the canvas had.
LEMMA ShowGrows ==
  ASSUME TypeOK, NEW f \in [Records -> Entry], Show(f), NEW r \in Records
  PROVE  best[r] \in Nat /\ best'[r] \in Nat /\ best'[r] >= best[r] /\ best'[r] >= f[r].is.ver
<1>1. f[r].is.ver \in Nat /\ best[r] \in Nat
  BY DEF TypeOK, Entry, Version
<1>2. best'[r] = Later(best[r], f[r].is.ver)
  BY DEF Show
<1> QED
  BY <1>1, <1>2 DEF Later

\* The head of what an open socket carries.
LEMMA HeadFits ==
  ASSUME TypeOK, Followed, NEW i \in DOMAIN sockets, Heard(i),
         NEW m, m = Head(sockets[i].queue)
  PROVE  /\ m = Gap \/ Fits(m)
         /\ m # Gap => m.offset \in 1 .. log.next - 1 /\ \A o \in 1 .. m.offset - 1 : Noted(o)
<1>1. PICK queue : queue = sockets[i].queue
  OBVIOUS
<1>2. Carries(queue) /\ queue # << >>
  BY <1>1 DEF Heard, Followed, Streams
<1>3. queue \in Seq(Notice) /\ 1 \in DOMAIN queue /\ m = queue[1]
  BY <1>1, <1>2 DEF Carries
<1>4. /\ queue[1] = Gap \/ Fits(queue[1])
      /\ \A o \in 1 .. queue[1].offset - 1 : Noted(o) \/ Met(queue, o, 0)
  BY <1>2, <1>3 DEF Carries
<1>5. \A o : ~Met(queue, o, 0)
  BY DEF Met
<1>6. Fits(m) => m.offset \in 1 .. log.next - 1
  BY DEF Fits, LogEntry, TypeOK
<1> QED
  BY <1>3, <1>4, <1>5, <1>6

\* A gap: everything is loaded again.
LEMMA GapFollowed ==
  ASSUME TypeOK, Followed, NEW i \in DOMAIN sockets, Heard(i), Head(sockets[i].queue) = Gap,
         reads' = reads \cup {Reload}, covered' = log.next - 1,
         UNCHANGED <<shown, best, seen, told>>
  PROVE  Followed'
<1>1. UNCHANGED <<course, held, log, history, saves>>
  BY DEF Heard, office
<1>2. /\ \A o \in Nat : Noted(o) => Noted(o)'
      /\ \A o \in 1 .. log.next - 1 : Noted(o)'
      /\ covered' < log.next /\ told' \subseteq 1 .. log.next - 1
  BY <1>1, AllNoted DEF Followed
<1>3. Streams'
  BY <1>2, HeardStreams
<1>4. /\ \A o \in 1 .. seen' : Noted(o)'
      /\ \A r \in Records : shown'[r].mine \/ Real(r, shown'[r].is)
  BY <1>2 DEF Followed, Offsets, ShownFit, TypeOK
<1>5. Reload.offset = 0 /\ DOMAIN Reload.got = {}
  BY DEF Reload
<1>6. ASSUME NEW r \in course.records, Reaches(r) PROVE Reaches(r)'
  <2>1. Brings(Reload, r)
    BY DEF Brings, Reload
  <2> QED
    BY <1>1, <1>2, <1>6, <2>1, ReachesOn
<1>7. Opened
  BY DEF Opened, TypeOK
<1> QED
  BY <1>1, <1>2, <1>3, <1>4, <1>5, <1>6, <1>7, CanvasStep

\* An event: its record goes, or a fetch will bring it.
LEMMA EventFollowed ==
  ASSUME TypeOK, Followed, NEW i \in DOMAIN sockets, Heard(i),
         NEW m, m = Head(sockets[i].queue), m # Gap,
         told' = told \cup {m.offset}, UNCHANGED covered,
         \/ /\ Dropped(m) /\ UNCHANGED reads
            /\ Show([shown EXCEPT ![m.data.id] = [is |-> Went(m), mine |-> FALSE]])
            /\ seen' = Later(seen, m.offset)
         \/ /\ ~Dropped(m) /\ reads' = reads \cup {Fetch(m)}
            /\ UNCHANGED <<shown, best, seen>>
  PROVE  Followed'
<1>1. UNCHANGED <<course, held, log, history, saves>>
  BY DEF Heard, office
<1>2. /\ Fits(m) /\ m.offset \in 1 .. log.next - 1
      /\ \A o \in 1 .. m.offset - 1 : Noted(o)
  BY HeadFits
<1>3. /\ m \in LogEntry /\ m.data.id \in Records /\ m.data.ver \in Nat /\ m.data.gone \in BOOLEAN
      /\ history[m.offset] = m.data.id
      /\ m.data.ver <= held[m.data.id].ver
      /\ m.data.ver = held[m.data.id].ver => m.data.gone = ~held[m.data.id].there
      /\ LastOf(m.data.id, m.offset) => m.data.ver = held[m.data.id].ver
  BY <1>2 DEF Fits, LogEntry
<1>4. \A o : Noted(o)' <=> Noted(o) \/ o = m.offset
  BY DEF Noted
<1>5. Streams'
  <2> PICK first : first = m.offset
    OBVIOUS
  <2> QED
    BY <1>4, HeardStreams
<1>6. covered' < log.next /\ told' \subseteq 1 .. log.next - 1
  BY <1>2 DEF Followed, Offsets
<1>7. \A o \in 1 .. m.offset : Noted(o)'
  BY <1>2, <1>4
<1>8. \A o \in 1 .. seen : Noted(o)'
  BY <1>4 DEF Followed, Offsets
<1>9. Opened
  BY DEF Opened, TypeOK
<1>10. CASE /\ Dropped(m) /\ UNCHANGED reads
            /\ Show([shown EXCEPT ![m.data.id] = [is |-> Went(m), mine |-> FALSE]])
            /\ seen' = Later(seen, m.offset)
  <2> PICK f : f = [shown EXCEPT ![m.data.id] = [is |-> Went(m), mine |-> FALSE]]
    OBVIOUS
  <2>1. /\ f \in [Records -> Entry] /\ Show(f)
        /\ f[m.data.id].is.ver = m.data.ver /\ f[m.data.id].is.there = FALSE
        /\ \A r \in Records \ {m.data.id} : f[r] = shown[r]
    BY <1>3, <1>10 DEF Went, Entry, Version, TypeOK
  <2>2. \A o \in 1 .. seen' : Noted(o)'
    <3>1. seen \in Nat /\ m.offset \in Nat
      BY <1>2 DEF TypeOK
    <3> QED
      BY <1>7, <1>8, <1>10, <3>1 DEF Later
  <2>3. ASSUME NEW r \in Records PROVE shown'[r].mine \/ Real(r, shown'[r].is)
    <3>1. shown'[r] = f[r]
      BY <2>1 DEF Show
    <3>2. CASE r = m.data.id
      <4>1. m.data.ver = held[r].ver => held[r].there = FALSE
        BY <1>3, <1>10, <3>2, VersionFields DEF Dropped
      <4>2. shown'[r].is.ver = m.data.ver /\ shown'[r].is.there = FALSE
        BY <2>1, <3>1, <3>2
      <4> QED
        BY <1>3, <3>2, <4>1, <4>2 DEF Real
    <3>3. CASE r # m.data.id
      BY <2>1, <3>1, <3>3 DEF Followed, ShownFit
    <3> QED
      BY <3>2, <3>3
  <2>4. ASSUME NEW r \in course.records, Reaches(r) PROVE Reaches(r)'
    <3>1. r \in Records
      BY CoursesAreCourses DEF TypeOK
    <3>2. /\ best[r] \in Nat /\ best'[r] \in Nat /\ held[r].ver \in Nat
          /\ best'[r] >= best[r] /\ best'[r] >= f[r].is.ver
      BY <2>1, <3>1, ShowGrows, VersionFields
    <3>3. best[r] >= held[r].ver => best'[r] >= held[r].ver
      BY <3>2
    <3>4. ASSUME NEW o, LastOf(r, o), Noted(o)' PROVE Noted(o) \/ best'[r] >= held[r].ver
      <4>1. CASE o = m.offset
        <5>1. r = m.data.id
          BY <1>3, <3>4, <4>1 DEF LastOf
        <5>2. m.data.ver = held[r].ver /\ f[r].is.ver = m.data.ver
          BY <1>3, <2>1, <3>4, <4>1, <5>1
        <5> QED
          BY <3>2, <5>2
      <4>2. CASE o # m.offset
        BY <1>4, <3>4, <4>2
      <4> QED
        BY <4>1, <4>2
    <3> QED
      BY <1>1, <1>4, <1>10, <2>4, <3>3, <3>4, ReachesOn
  <2> QED
    BY <1>1, <1>4, <1>5, <1>6, <1>9, <1>10, <2>2, <2>3, <2>4, CanvasStep
<1>11. CASE /\ ~Dropped(m) /\ reads' = reads \cup {Fetch(m)} /\ UNCHANGED <<shown, best, seen>>
  <2> PICK q : q = Fetch(m)
    OBVIOUS
  <2>1. q.for = "event" /\ q.offset = m.offset /\ q.left = {m.data.id} /\ DOMAIN q.got = {}
    BY DEF Fetch
  <2>2. \A r \in Records : shown'[r].mine \/ Real(r, shown'[r].is)
    <3>1. \A r \in Records : shown[r].mine \/ Real(r, shown[r].is)
      BY DEF Followed, ShownFit
    <3>2. shown' = shown
      BY <1>11
    <3> QED
      BY <3>1, <3>2
  <2>3. ASSUME NEW r \in course.records, Reaches(r) PROVE Reaches(r)'
    <3>1. ASSUME NEW o, LastOf(r, o), Noted(o)' PROVE Noted(o) \/ Brings(q, r)
      <4>1. CASE o = m.offset
        <5>1. r = m.data.id
          BY <1>3, <3>1, <4>1 DEF LastOf
        <5>2. m.data.gone = ~held[r].there
          BY <1>3, <3>1, <4>1, <5>1
        <5>3. r \in Listed \/ held[r].there
          BY <1>3, <1>11, <5>1, <5>2 DEF Dropped
        <5> QED
          BY <2>1, <5>1, <5>3 DEF Brings
      <4>2. CASE o # m.offset
        BY <1>4, <3>1, <4>2
      <4> QED
        BY <4>1, <4>2
    <3> QED
      BY <1>1, <1>4, <1>11, <2>3, <3>1, ReachesOn
  <2>4. \A o \in 1 .. seen' : Noted(o)'
    BY <1>8, <1>11
  <2>5. \A p \in reads' \ reads :
          (\A o \in 1 .. p.offset : Noted(o)') /\ \A r \in DOMAIN p.got : Real(r, p.got[r])
    BY <1>7, <1>11, <2>1
  <2> QED
    BY <1>1, <1>4, <1>5, <1>6, <1>9, <2>2, <2>3, <2>4, <2>5, CanvasStep
<1> QED
  BY <1>10, <1>11

LEMMA HeardFollowed ==
  ASSUME TypeOK, Followed, NEW i \in DOMAIN sockets, Heard(i)
  PROVE  Followed'
<1> PICK m : m = Head(sockets[i].queue)
  OBVIOUS
<1>1. \/ /\ m = Gap
         /\ reads' = reads \cup {Reload} /\ covered' = log.next - 1
         /\ UNCHANGED <<shown, best, seen, told>>
      \/ /\ m # Gap /\ told' = told \cup {m.offset} /\ UNCHANGED covered
         /\ \/ /\ Dropped(m) /\ UNCHANGED reads
               /\ Show([shown EXCEPT ![m.data.id] = [is |-> Went(m), mine |-> FALSE]])
               /\ seen' = Later(seen, m.offset)
            \/ /\ ~Dropped(m) /\ reads' = reads \cup {Fetch(m)}
               /\ UNCHANGED <<shown, best, seen>>
  BY DEF Heard
<1> QED
  BY <1>1, GapFollowed, EventFollowed

LEMMA ReadFollowed ==
  ASSUME TypeOK, Followed, NEW q \in reads, NEW r \in q.left, Read(q, r)
  PROVE  Followed'
<1> DEFINE got == [s \in DOMAIN q.got \cup {r} |-> IF s = r THEN held[r] ELSE q.got[s]]
<1>1. PICK p : p = [for |-> q.for, offset |-> q.offset, left |-> q.left \ {r}, got |-> got]
  OBVIOUS
<1>2. /\ UNCHANGED <<course, held, log, history, told, covered, sockets, shown, best, seen, saves>>
      /\ reads' = (reads \ {q}) \cup {p}
  BY <1>1 DEF Read, office
<1>3. /\ p.for = q.for /\ p.offset = q.offset /\ p.left = q.left \ {r}
      /\ DOMAIN p.got = DOMAIN q.got \cup {r}
      /\ p.got[r] = held[r] /\ \A s \in DOMAIN q.got \ {r} : p.got[s] = q.got[s]
  BY <1>1
<1> HIDE DEF got
<1>4. /\ \A o \in 1 .. q.offset : Noted(o)
      /\ \A s \in DOMAIN q.got : Real(s, q.got[s])
  BY DEF Followed, ReadsFit
<1>5. \A s \in DOMAIN p.got : Real(s, p.got[s])
  <2>1. Real(r, held[r])
    BY ReadFields, VersionFields DEF Real
  <2> QED
    BY <1>3, <1>4, <2>1
<1>6. ASSUME NEW s, Brings(q, s) PROVE Brings(p, s)
  <2>1. CASE s # r
    BY <1>3, <1>6, <2>1 DEF Brings, Applies
  <2>2. CASE s = r
    <3>1. r \in DOMAIN p.got /\ p.got[r].ver = held[r].ver
      BY <1>3
    <3>2. q.for = "reload" \/ r \in Listed \/ held[r].there
      BY <1>4, <1>6, <2>2 DEF Brings, Applies, Real
    <3>3. Applies(p, r)
      BY <1>3, <3>2 DEF Applies
    <3> QED
      BY <2>2, <3>1, <3>3 DEF Brings
  <2> QED
    BY <2>1, <2>2
<1>7. \A o \in 1 .. seen' : Noted(o)
  BY <1>2 DEF Followed, Offsets
<1>8. \A s \in Records : shown'[s].mine \/ Real(s, shown'[s].is)
  <2>1. \A s \in Records : shown[s].mine \/ Real(s, shown[s].is)
    BY DEF Followed, ShownFit
  <2> QED
    BY <1>2, <2>1
<1>9. \A s \in course.records, x \in reads : Brings(x, s) => \E y \in reads' : Brings(y, s)
  BY <1>2, <1>6
<1>10. \A x \in reads' \ reads :
         (\A o \in 1 .. x.offset : Noted(o)) /\ \A s \in DOMAIN x.got : Real(s, x.got[s])
  BY <1>2, <1>3, <1>4, <1>5
<1> QED
  BY <1>2, <1>7, <1>8, <1>9, <1>10, StoreStep

\* The offset the canvas has seen moves on to one that is noted.
LEMMA SeenNoted ==
  ASSUME TypeOK, Followed, NEW q \in reads, seen' = Later(seen, q.offset)
  PROVE  \A o \in 1 .. seen' : Noted(o)
<1>1. /\ \A o \in 1 .. q.offset : Noted(o)
      /\ \A o \in 1 .. seen : Noted(o)
      /\ seen \in Nat /\ q.offset \in Nat
  BY ReadFields DEF Followed, ReadsFit, Offsets, TypeOK
<1> QED
  BY <1>1 DEF Later

LEMMA AppliedFollowed ==
  ASSUME TypeOK, Followed, NEW q \in reads, Applied(q)
  PROVE  Followed'
<1>f. PICK f : f = [r \in Records |->
                      IF Applies(q, r) THEN [is |-> q.got[r], mine |-> FALSE] ELSE shown[r]]
  OBVIOUS
<1>1. /\ UNCHANGED <<course, held, log, history, told, covered, sockets, saves>>
      /\ reads' = reads \ {q} /\ Show(f) /\ seen' = Later(seen, q.offset)
  BY <1>f DEF Applied, office
<1>2. /\ \A r \in Records : Applies(q, r) => f[r].is = q.got[r] /\ f[r].mine = FALSE
      /\ \A r \in Records : ~Applies(q, r) => f[r] = shown[r]
  BY <1>f
<1>3. f \in [Records -> Entry]
  <2>1. ASSUME NEW r \in Records
        PROVE  (IF Applies(q, r) THEN [is |-> q.got[r], mine |-> FALSE] ELSE shown[r]) \in Entry
    BY ReadFields, VersionFields DEF Applies, Entry
  <2> QED
    BY <1>f, <2>1
<1>4. \A o \in 1 .. seen' : Noted(o)
  BY <1>1, SeenNoted
<1>5. ASSUME NEW r \in Records PROVE shown'[r].mine \/ Real(r, shown'[r].is)
  <2>1. shown'[r] = f[r]
    BY <1>1 DEF Show
  <2>2. CASE Applies(q, r)
    <3>1. Real(r, q.got[r])
      BY <2>2 DEF Followed, ReadsFit, Applies
    <3> QED
      BY <1>2, <2>1, <2>2, <3>1
  <2>3. CASE ~Applies(q, r)
    <3>1. shown[r].mine \/ Real(r, shown[r].is)
      BY DEF Followed, ShownFit
    <3> QED
      BY <1>2, <2>1, <2>3, <3>1
  <2> QED
    BY <2>2, <2>3
<1>6. ASSUME NEW r \in course.records
      PROVE  /\ best[r] >= held[r].ver => best'[r] >= held[r].ver
             /\ Brings(q, r) => best'[r] >= held[r].ver
  <2>1. r \in Records
    BY CoursesAreCourses DEF TypeOK
  <2>2. /\ best[r] \in Nat /\ best'[r] \in Nat /\ held[r].ver \in Nat
        /\ best'[r] >= best[r] /\ best'[r] >= f[r].is.ver
    BY <1>1, <1>3, <2>1, ShowGrows, VersionFields
  <2>3. ASSUME Brings(q, r) PROVE f[r].is.ver = held[r].ver
    <3>1. q.left = {}
      BY DEF Applied
    <3> QED
      BY <1>2, <2>1, <2>3, <3>1 DEF Brings
  <2> QED
    BY <2>2, <2>3
<1>7. reads' \ reads = {} /\ saves' \ saves = {}
  BY <1>1
<1>8. \A r \in course.records, x \in reads :
        Brings(x, r) => best'[r] >= held[r].ver \/ \E p \in reads' : Brings(p, r)
  BY <1>1, <1>6
<1> QED
  BY <1>1, <1>4, <1>5, <1>6, <1>7, <1>8, StoreStep

LEMMA UnreadFollowed ==
  ASSUME TypeOK, Followed, NEW q \in reads, Unread(q)
  PROVE  Followed'
<1>1. /\ UNCHANGED <<course, held, log, history, told, covered, sockets, saves, shown>>
      /\ reads' = reads \ {q} /\ seen' = Later(seen, q.offset)
  BY DEF Unread, office
<1>2. \A o \in 1 .. seen' : Noted(o)
  BY <1>1, SeenNoted
<1>3. \A r \in Records : shown'[r].mine \/ Real(r, shown'[r].is)
  <2>1. \A r \in Records : shown[r].mine \/ Real(r, shown[r].is)
    BY DEF Followed, ShownFit
  <2> QED
    BY <1>1, <2>1
<1>4. ASSUME NEW r \in course.records
      PROVE  /\ best[r] >= held[r].ver => best'[r] >= held[r].ver
             /\ Brings(q, r) => best'[r] >= held[r].ver
  <2>1. r \in Records /\ best[r] \in Nat /\ held[r].ver \in Nat
    BY CoursesAreCourses, VersionFields DEF TypeOK
  <2>2. best'[r] = IF q.for = "reload" \/ r \in q.left \cup DOMAIN q.got
                     THEN Later(best[r], held[r].ver) ELSE best[r]
    BY <2>1 DEF Unread
  <2>3. Brings(q, r) => r \in q.left \cup DOMAIN q.got
    BY DEF Brings
  <2> QED
    BY <2>1, <2>2, <2>3 DEF Later
<1>5. reads' \ reads = {} /\ saves' \ saves = {}
  BY <1>1
<1>6. \A r \in course.records, x \in reads :
        Brings(x, r) => best'[r] >= held[r].ver \/ \E p \in reads' : Brings(p, r)
  BY <1>1, <1>4
<1> QED
  BY <1>1, <1>2, <1>3, <1>4, <1>5, <1>6, StoreStep

\* What a save shows is the canvas's own, or was there already.
LEMMA SentFollowed ==
  ASSUME TypeOK, Followed, NEW r \in course.records,
         Patch(r) \/ Switch(r) \/ Ask(r) \/ Remove(r) \/ Add(r)
  PROVE  Followed'
<1>1. PICK what, preview :
        Sent(r, what, preview) /\ (preview.mine \/ preview = shown[r])
  <2>1. Edited(r).mine
    BY CoursesAreCourses, VersionFields DEF TypeOK, Edited, Entry
  <2> QED
    BY <2>1 DEF Patch, Switch, Ask, Remove, Add
<1>2. PICK q : q = [ record |-> r, what |-> what, number |-> begun + 1, since |-> seen,
                     before |-> shown[r], at |-> At("sent", Unloaded), waited |-> TRUE ]
  OBVIOUS
<1>3. /\ UNCHANGED <<course, held, log, history, told, covered, sockets, best, seen, reads>>
      /\ saves' = saves \cup {q} /\ shown' = [shown EXCEPT ![r] = preview]
  BY <1>1, <1>2 DEF Sent, office
<1>4. r \in Records
  BY CoursesAreCourses DEF TypeOK
<1>5. /\ \A s \in Records : shown[s].mine \/ Real(s, shown[s].is)
      /\ \A o \in 1 .. seen : Noted(o)
  BY DEF Followed, ShownFit, Offsets
<1>6. SaveFits(q)
  <2>1. q.since = seen /\ q.before = shown[r] /\ q.record = r /\ q.at.stage = "sent"
    BY <1>2 DEF At
  <2> QED
    BY <1>4, <1>5, <2>1 DEF SaveFits
<1>7. ASSUME NEW s \in Records PROVE shown'[s].mine \/ Real(s, shown'[s].is)
  <2>1. shown'[s] = IF s = r THEN preview ELSE shown[s]
    BY <1>3, <1>4 DEF TypeOK
  <2> QED
    BY <1>1, <1>5, <2>1
<1>8. \A o \in 1 .. seen' : Noted(o)
  BY <1>3, <1>5
<1>9. reads' \ reads = {} /\ \A s \in saves' \ saves : SaveFits(s)
  BY <1>3, <1>6
<1>10. /\ \A s \in course.records : best[s] >= held[s].ver => best'[s] >= held[s].ver
       /\ \A s \in course.records, x \in reads :
            Brings(x, s) => best'[s] >= held[s].ver \/ \E p \in reads' : Brings(p, s)
  BY <1>3
<1> QED
  BY <1>3, <1>7, <1>8, <1>9, <1>10, StoreStep

\* A record is shown as it was answered, or as it was before the save.
LEMMA PlacedFits ==
  ASSUME TypeOK, Followed, NEW r \in Records, NEW entry \in Entry,
         entry.mine \/ Real(r, entry.is), NEW f, f = Placed(r, entry), NEW s \in Records
  PROVE  f[s].mine \/ Real(s, f[s].is)
<1>1. \A x \in Records : shown[x].mine \/ Real(x, shown[x].is)
  BY DEF Followed, ShownFit
<1>2. f[s] = shown[s] \/ (s = r /\ f[s] = entry)
  BY DEF Placed, TypeOK
<1> QED
  BY <1>1, <1>2

LEMMA PutBackFits ==
  ASSUME TypeOK, Followed, NEW q \in saves, NEW f, f = PutBack(q)
  PROVE  /\ f \in [Records -> Entry]
         /\ \A s \in Records : f[s].mine \/ Real(s, f[s].is)
<1>1. /\ q.record \in Records /\ q.before \in Entry
      /\ q.before.mine \/ Real(q.record, q.before.is)
  BY SaveFields DEF Followed, SavesFit, SaveFits
<1>2. CASE f = Placed(q.record, q.before)
  BY <1>1, <1>2, PlacedTyped, PlacedFits
<1>3. CASE f = shown
  BY <1>3 DEF Followed, ShownFit, TypeOK
<1> QED
  BY <1>2, <1>3 DEF PutBack

\* A save that ends or is waited for no longer, and what is shown then.
LEMMA AnswerFollowed ==
  ASSUME TypeOK, Followed,
         UNCHANGED <<course, held, log, history, told, covered, sockets, seen, reads>>,
         \A q \in saves' \ saves : SaveFits(q),
         NEW f \in [Records -> Entry], Show(f),
         \A s \in Records : f[s].mine \/ Real(s, f[s].is)
  PROVE  Followed'
<1>1. shown' = f
  BY DEF Show
<1>2. \A o \in 1 .. seen' : Noted(o)
  BY DEF Followed, Offsets
<1>3. ASSUME NEW r \in course.records, best[r] >= held[r].ver PROVE best'[r] >= held[r].ver
  <2>1. r \in Records
    BY CoursesAreCourses DEF TypeOK
  <2>2. best[r] \in Nat /\ best'[r] \in Nat /\ held[r].ver \in Nat /\ best'[r] >= best[r]
    BY <2>1, ShowGrows, VersionFields
  <2> QED
    BY <1>3, <2>2
<1>4. reads' \ reads = {}
  OBVIOUS
<1> QED
  BY <1>1, <1>2, <1>3, <1>4, StoreStep

LEMMA SettledFollowed ==
  ASSUME TypeOK, Followed, NEW q \in saves, Settled(q)
  PROVE  Followed'
<1>1. /\ UNCHANGED <<course, held, log, history, told, covered, sockets, seen, reads>>
      /\ saves' = saves \ {q} /\ q.record \in Records
  BY SaveFields DEF Settled, office
<1>2. PICK entry : entry = [is |-> q.at.value, mine |-> FALSE]
  OBVIOUS
<1>3. PICK f : /\ Show(f)
               /\ \/ f = shown
                  \/ q.at.stage \in {"ok", "conflict"} /\ f = Placed(q.record, entry)
                  \/ f = PutBack(q)
  BY <1>2 DEF Settled
<1>4. /\ f \in [Records -> Entry]
      /\ \A s \in Records : f[s].mine \/ Real(s, f[s].is)
  <2>1. CASE f = shown
    BY <2>1 DEF Followed, ShownFit, TypeOK
  <2>2. CASE q.at.stage \in {"ok", "conflict"} /\ f = Placed(q.record, entry)
    <3>1. entry \in Entry /\ entry.is = q.at.value
      BY <1>2, SaveFields DEF Entry
    <3>2. Real(q.record, entry.is)
      BY <2>2, <3>1 DEF Followed, SavesFit, SaveFits
    <3> QED
      BY <1>1, <2>2, <3>1, <3>2, PlacedTyped, PlacedFits
  <2>3. CASE f = PutBack(q)
    BY <2>3, PutBackFits
  <2> QED
    BY <1>3, <2>1, <2>2, <2>3
<1>5. saves' \ saves = {}
  BY <1>1
<1> QED
  BY <1>1, <1>3, <1>4, <1>5, AnswerFollowed

LEMMA GivenUpFollowed ==
  ASSUME TypeOK, Followed, NEW q \in saves, GivenUp(q)
  PROVE  Followed'
<1>1. UNCHANGED <<course, held, log, history, told, covered, sockets, seen, reads>>
  BY DEF GivenUp, office
<1>2. PICK f : f = PutBack(q)
  OBVIOUS
<1>3. /\ Show(f) /\ f \in [Records -> Entry]
      /\ \A s \in Records : f[s].mine \/ Real(s, f[s].is)
  BY <1>2, PutBackFits DEF GivenUp
<1>4. PICK p : p = [q EXCEPT !.waited = FALSE]
  OBVIOUS
<1>5. p.since = q.since /\ p.before = q.before /\ p.record = q.record /\ p.at = q.at
  BY <1>4, SaveFields DEF Save
<1>6. SaveFits(p)
  BY <1>5 DEF Followed, SavesFit, SaveFits
<1>7. \A s \in saves' \ saves : SaveFits(s)
  BY <1>4, <1>6 DEF GivenUp
<1> QED
  BY <1>1, <1>3, <1>7, AnswerFollowed

\* Nothing but that a save is done with.
LEMMA NothingElse ==
  ASSUME TypeOK, Followed, saves' \subseteq saves,
         UNCHANGED <<course, held, log, history, told, covered, sockets, seen, reads, shown, best>>
  PROVE  Followed'
<1>1. /\ \A r \in Records : shown[r].mine \/ Real(r, shown[r].is)
      /\ \A o \in 1 .. seen : Noted(o)
  BY DEF Followed, ShownFit, Offsets
<1>2. saves' \ saves = {} /\ reads' \ reads = {}
  OBVIOUS
<1>3. /\ \A r \in Records : shown'[r].mine \/ Real(r, shown'[r].is)
      /\ \A o \in 1 .. seen' : Noted(o)
  BY <1>1
<1>4. /\ \A s \in course.records : best[s] >= held[s].ver => best'[s] >= held[s].ver
      /\ \A s \in course.records, x \in reads :
           Brings(x, s) => best'[s] >= held[s].ver \/ \E p \in reads' : Brings(p, s)
  OBVIOUS
<1> QED
  BY <1>2, <1>3, <1>4, StoreStep

LEMMA ForgottenFollowed ==
  ASSUME TypeOK, Followed, NEW q \in saves, Forgotten(q)
  PROVE  Followed'
BY NothingElse DEF Forgotten, office

-------------------------------------------------------------------------------
(* The invariant.                                                             *)

LEMMA StartsFollowed == Init => Followed
<1> SUFFICES ASSUME Init PROVE Followed
  OBVIOUS
<1> USE DEF Init
<1>1. LogIsHistory
  <2>1. log.events = << >> /\ log.next = 1 /\ Len(log.events) = 0 /\ DOMAIN log.events = {}
    BY DEF FreshLog
  <2>2. Len(history) = 0
    OBVIOUS
  <2> QED
    BY <2>1, <2>2 DEF LogIsHistory
<1>2. Streams /\ ReadsFit /\ SavesFit
  BY DEF Streams, ReadsFit, SavesFit
<1>3. Offsets
  BY DEF Offsets, FreshLog
<1>4. ShownFit
  BY DEF ShownFit, Real, Unloaded
<1>5. AllReached
  BY DEF AllReached, Opened
<1> QED
  BY <1>1, <1>2, <1>3, <1>4, <1>5 DEF Followed

LEMMA StaysFollowed == TypeOK /\ OneLine /\ Followed /\ [Next]_vars => Followed' \/ lives' = 2
<1> SUFFICES ASSUME TypeOK, OneLine, Followed, [Next]_vars PROVE Followed' \/ lives' = 2
  OBVIOUS
<1>1. CASE Restart
  BY <1>1 DEF Restart
<1>2. CASE UNCHANGED vars
  BY <1>2, NothingElse DEF vars, canvas, office
<1>3. ASSUME NEW i \in DOMAIN sockets, Errored(i) \/ Closed(i) \/ Heard(i) PROVE Followed'
  BY <1>3, GoneFollowed, HeardFollowed
<1>4. ASSUME NEW q \in reads, Applied(q) \/ Unread(q) \/ \E r \in q.left : Read(q, r)
      PROVE  Followed'
  BY <1>4, AppliedFollowed, UnreadFollowed, ReadFollowed
<1>5. ASSUME NEW q \in saves, Served(q) \/ Written(q) \/ Settled(q) \/ GivenUp(q) \/ Forgotten(q)
      PROVE  Followed'
  BY <1>5, RouteFollowed, SettledFollowed, GivenUpFollowed, ForgottenFollowed
<1>6. ASSUME NEW r \in course.records,
             OthersWrite(r) \/ Patch(r) \/ Switch(r) \/ Ask(r) \/ Remove(r) \/ Add(r)
      PROVE  Followed'
  BY <1>6, OthersFollowed, SentFollowed
<1>7. CASE Next
  BY <1>1, <1>3, <1>4, <1>5, <1>6, <1>7, OpenFollowed, ReconnectFollowed DEF Next
<1> QED
  BY <1>2, <1>7

\* The inductive invariant.
IInv == TypeOK /\ OneLine /\ Numbered /\ (lives = 1 => Followed)

LEMMA LivesGrow == TypeOK /\ [Next]_vars => lives' = lives \/ lives' = 2
<1> SUFFICES ASSUME [Next]_vars, lives' # lives PROVE lives' = 2
  OBVIOUS
<1> QED
  BY DEF vars, canvas, office, Next, Open, Reconnect, Restart, OthersWrite, Patch, Switch, Ask,
         Remove, Add, Sent, Errored, Closed, Heard, Applied, Unread, Read, Served, Written,
         Settled, GivenUp, Forgotten

\* The invariant holds in every reachable state.
THEOREM Invariance == Spec => []IInv
<1>1. Init => IInv
  <2>1. Init => OneLine /\ Numbered
    BY DEF Init, OneLine, Numbered
  <2> QED
    BY <2>1, StartsTyped, StartsFollowed DEF IInv
<1>2. IInv /\ [Next]_vars => IInv'
  <2> SUFFICES ASSUME IInv, [Next]_vars PROVE IInv'
    OBVIOUS
  <2>1. TypeOK' /\ OneLine' /\ Numbered'
    BY StaysTyped, StaysOneLine, StaysNumbered DEF IInv
  <2>2. lives' = 1 => Followed'
    BY StaysFollowed, LivesGrow DEF IInv
  <2> QED
    BY <2>1, <2>2 DEF IInv
<1> QED
  BY <1>1, <1>2, PTL DEF Spec

\* The office's records and log and all the canvas keeps have the shapes the code gives
\* them, the log never more than it may keep (events.ts) and never more sockets than
\* were opened.
THEOREM TypeCorrect == Spec => []TypeOK
BY Invariance, PTL DEF IInv

\* At rest nothing is under way that could bring a newer version: what the canvas had
\* is what is held.
LEMMA AtRest ==
  ASSUME IInv
  PROVE  WrongOnlyIfOvertaken
<1> SUFFICES ASSUME Quiet, lives = 1, NEW r \in course.records
             PROVE  \/ shown[r].mine
                    \/ shown[r].is.ver < best[r]
                    \/ shown[r].is.ver = held[r].ver /\ shown[r].is.there = held[r].there
  BY DEF WrongOnlyIfOvertaken
<1>1. TypeOK /\ Followed /\ r \in Records
  BY CoursesAreCourses DEF IInv, TypeOK
<1>2. \A o \in DOMAIN history : Noted(o)
  <2>1. PICK n : n = Len(sockets)
    OBVIOUS
  <2>2. n \in DOMAIN sockets /\ sockets[n].state = "open" /\ sockets[n].queue = << >>
    BY <1>1, <2>1 DEF Quiet, Opened, TypeOK
  <2>3. Carries(<< >>)
    BY <1>1, <2>2 DEF Followed, Streams
  <2>4. \A o \in 1 .. log.next - 1 : Noted(o)
    BY <2>3 DEF Carries, Met
  <2>5. DOMAIN history = 1 .. log.next - 1
    BY <1>1 DEF Followed, LogIsHistory, TypeOK
  <2> QED
    BY <2>4, <2>5
<1>3. best[r] >= held[r].ver
  BY <1>1, <1>2 DEF Followed, AllReached, Reaches, Quiet
<1>4. shown[r].mine \/ Real(r, shown[r].is)
  BY <1>1 DEF Followed, ShownFit
<1>5. best[r] \in Nat /\ held[r].ver \in Nat /\ shown[r].is.ver \in Nat
  BY <1>1, VersionFields DEF TypeOK, Version
<1> QED
  BY <1>3, <1>4, <1>5 DEF Real

\* The canvas is on one socket, no event passes it unnoticed, and what it shows at rest
\* is what the office holds, unless a later version overtook it (stream.ts, follow.ts,
\* office-store.ts): however short the history kept and whatever is lost or refused.
THEOREM OfficeIsShown == Spec => []ShowsTheOffice
<1>1. IInv => ShowsTheOffice
  <2> SUFFICES ASSUME IInv PROVE ShowsTheOffice
    OBVIOUS
  <2>1. OneSocket
    BY DEF IInv, OneLine, OneSocket, Live
  <2>2. NothingMissedInSilence
    BY DEF IInv, Followed, Offsets, NothingMissedInSilence
  <2> QED
    BY <2>1, <2>2, AtRest DEF IInv, ShowsTheOffice
<1> QED
  BY <1>1, Invariance, PTL

-------------------------------------------------------------------------------
(* What the office takes in.                                                  *)

\* A record the log shows unchanged since an offset was changed no later.
LEMMA UnchangedSince ==
  ASSUME TypeOK, LogIsHistory, NEW r, NEW since \in Nat, ~ChangedSince(log, r, since),
         NEW o \in DOMAIN history, history[o] = r
  PROVE  o <= since
<1> SUFFICES ASSUME o > since PROVE FALSE
  BY DEF TypeOK
<1>1. /\ log \in [events : Seq(LogEntry), next : Nat \ {0}]
      /\ log.events \in Seq(LogEntry) /\ log.next \in Nat \ {0}
      /\ DOMAIN history = 1 .. log.next - 1
  BY DEF TypeOK, LogIsHistory
<1>n. PICK n : n = Len(log.events)
  OBVIOUS
<1>b. PICK b : b = Oldest(log)
  OBVIOUS
<1>2. /\ n \in Nat /\ n < log.next /\ DOMAIN log.events = 1 .. n
      /\ b = log.next - n /\ b \in Nat \ {0}
      /\ o \in 1 .. log.next - 1
  BY <1>1, <1>n, <1>b DEF LogIsHistory, Oldest
<1>3. \A i \in 1 .. n : log.events[i].offset = b + i - 1 /\ Fits(log.events[i])
  BY <1>2, <1>b DEF LogIsHistory
<1>4. CanReplayFrom(log, since) /\ log.events # << >>
  BY <1>1, <1>2 DEF ChangedSince, LogIsHistory
<1>5. since >= b - 1
  <2>1. 1 \in 1 .. n /\ Head(log.events) = log.events[1]
    BY <1>1, <1>2, <1>4
  <2>2. Head(log.events).offset = b
    BY <1>2, <1>3, <2>1
  <2> QED
    BY <1>4, <2>2 DEF CanReplayFrom
<1>i. PICK i : i = o - b + 1
  OBVIOUS
<1>m. PICK m : m = since - b + 2
  OBVIOUS
<1>6. /\ i \in 1 .. n /\ m \in Nat \ {0} /\ m <= i /\ i - m + 1 \in 1 .. n - m + 1
      /\ m + (i - m + 1) - 1 = i /\ b + i - 1 = o /\ m <= n
  <2> PICK next : next = log.next
    OBVIOUS
  <2>1. /\ n \in Nat /\ next \in Nat /\ b = next - n /\ b \in Nat /\ o \in 1 .. next - 1
        /\ since >= b - 1
    BY <1>1, <1>2, <1>5
  <2>2. n \in Int /\ next \in Int /\ b \in Int /\ o \in Int /\ since \in Int
    BY <2>1
  <2>3. i \in Int /\ m \in Int /\ i <= n /\ m >= 1 /\ m <= i
    BY <1>i, <1>m, <2>1, <2>2
  <2> QED
    BY <1>i, <2>1, <2>2, <2>3
<1>q. PICK q : q = Since(log, since)
  OBVIOUS
<1>k. PICK k : k = i - m + 1
  OBVIOUS
<1>7. m = Later(1, since - Oldest(log) + 2)
  <2>1. m = Later(1, m)
    BY <1>6 DEF Later
  <2> QED
    BY <1>b, <1>m, <2>1
<1>8. q \in Seq(LogEntry) /\ Len(q) = n - m + 1 /\ \A j \in 1 .. Len(q) : q[j] = log.events[m + j - 1]
  BY <1>1, <1>6, <1>7, <1>n, <1>q, SinceTyped
<1>9. k \in DOMAIN q /\ q[k] = log.events[i]
  BY <1>6, <1>8, <1>k
<1>10. log.events[i].data.id = r
  BY <1>3, <1>6 DEF Fits
<1> QED
  BY <1>9, <1>10, <1>q DEF ChangedSince

\* What is taken in is the save that a route accepted.
LEMMA TakenInIsServed ==
  ASSUME TypeOK, Numbered, [Next]_vars, NEW q \in saves, TakesIn(q)
  PROVE  ~ChangedSince(log, q.record, q.since)
<1>1. /\ q.record \in Records /\ q.number \notin held[q.record].keeps
      /\ \A p \in saves : q.number \notin p.at.value.keeps
      /\ q.what = "patch" /\ q.at.stage = "sent" /\ q.number \in held'[q.record].keeps
  BY SaveFields DEF TakesIn, Numbered, Unkept
<1>2. held' # held
  BY <1>1
<1>3. ASSUME NEW r \in course.records, OthersWrite(r) PROVE FALSE
  BY <1>1, <1>3, OthersKeep
<1>4. ASSUME NEW p \in saves, Served(p) \/ Written(p) PROVE p = q
  <2>1. Writes(p)
    BY <1>2, <1>4, ServedAnswersOrWrites DEF Unwritten
  <2>2. PICK there \in BOOLEAN, keeps \in SUBSET Nat :
          /\ Put(p.record, there, keeps)
          /\ keeps \subseteq held[p.record].keeps \cup p.at.value.keeps \cup {p.number}
    <3>1. PICK a, b, c : /\ a = held[p.record].keeps \cup {p.number} /\ b = {p.number}
                         /\ c = p.at.value.keeps \cup {p.number}
      OBVIOUS
    <3>2. a \in SUBSET Nat /\ b \in SUBSET Nat /\ c \in SUBSET Nat /\ {} \in SUBSET Nat
      BY <3>1, SaveFields, VersionFields DEF Version
    <3>3. /\ a \subseteq held[p.record].keeps \cup p.at.value.keeps \cup {p.number}
          /\ b \subseteq held[p.record].keeps \cup p.at.value.keeps \cup {p.number}
          /\ c \subseteq held[p.record].keeps \cup p.at.value.keeps \cup {p.number}
      BY <3>1
    <3>4. \/ Put(p.record, TRUE, a) \/ Put(p.record, FALSE, {})
          \/ Put(p.record, TRUE, b) \/ Put(p.record, TRUE, c)
      BY <2>1, <3>1 DEF Writes, Accepted
    <3> QED
      BY <3>2, <3>3, <3>4
  <2>3. p.record \in Records
    BY SaveFields
  <2>4. /\ held'[p.record].keeps = keeps
        /\ \A s \in Records \ {p.record} : held'[s] = held[s]
    <3>1. Put(p.record, there, keeps)
      BY <2>2
    <3> QED
      BY <2>3, <3>1, PutHeld
  <2>5. q.number = p.number
    BY <1>1, <2>2, <2>3, <2>4
  <2> QED
    BY <2>5 DEF Numbered
<1>5. \E p \in saves : Served(p) \/ Written(p)
  BY <1>2, <1>3 DEF vars, canvas, office, Next, Open, Reconnect, Restart, Patch, Switch, Ask,
         Remove, Add, Sent, Errored, Closed, Heard, Applied, Unread, Read,
         Settled, GivenUp, Forgotten
<1>6. Served(q)
  BY <1>1, <1>4, <1>5 DEF Written
<1> QED
  BY <1>1, <1>2, <1>6 DEF Served, NotFound, PatchServed, SwitchServed, RemoveServed, AddServed,
                          AskServed, Refused, Unwritten

\* An edit the office takes in (changedSince, server.ts) was made by somebody to whom every
\* earlier change of that record had been handed, or who had reloaded since.
THEOREM SavesKnew == Spec => SavesKnewOfIt
<1>1. IInv /\ [Next]_vars => TakenInKnowing
  <2> SUFFICES ASSUME IInv, [Next]_vars, lives = 1, NEW q \in saves, TakesIn(q),
                      NEW o \in DOMAIN history, history[o] = q.record
               PROVE  Noted(o)
    BY DEF TakenInKnowing
  <2>1. TypeOK /\ Numbered /\ Followed
    BY DEF IInv
  <2>2. ~ChangedSince(log, q.record, q.since) /\ q.since \in Nat
    BY <2>1, TakenInIsServed, SaveFields
  <2>3. o <= q.since
    BY <2>1, <2>2, UnchangedSince DEF Followed
  <2>4. o \in 1 .. q.since
    BY <2>1, <2>2, <2>3 DEF TypeOK
  <2> QED
    BY <2>1, <2>4 DEF Followed, SavesFit, SaveFits
<1> QED
  BY <1>1, Invariance, PTL DEF Spec, SavesKnewOfIt
===============================================================================
