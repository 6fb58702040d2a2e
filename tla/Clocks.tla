-------------------------------- MODULE Clocks --------------------------------
(***************************************************************************)
(* When recurring work is due and when a room is open: cron expressions    *)
(* (orchestrator/schedule/cron.ts) and working windows                     *)
(* (core/office/schedule.ts), both read on the local clock of a place      *)
(* whose clock changes once.                                               *)
(*                                                                         *)
(* Instants are minutes; the lengths of an hour, a day, a week and a month *)
(* are constants, so that a few days hold every case.  What Intl answers   *)
(* for an instant is the local minute, `Local`.                            *)
(***************************************************************************)
EXTENDS Integers, FiniteSets

CONSTANTS
  HourLen, DayHours, WeekLen, MonthLen, Months,
  Zones,          \* clocks: how far ahead of UTC, before and from an instant on
  Crons,          \* expressions: for each field, a set of parts
  Schedules,      \* sets of working windows, {} for always open
  MaxDaysAhead,   \* MAX_DAYS_AHEAD
  Horizon         \* bound: the last instant

DayLen == HourLen * DayHours

Fields == {"minute", "hour", "dayOfMonth", "month", "dayOfWeek"}

Lowest(f) == IF f \in {"dayOfMonth", "month"} THEN 1 ELSE 0

\* A week has one day more than it has: Sunday is both the first and the last.
Highest(f) ==
  CASE f = "minute" -> HourLen - 1 [] f = "hour" -> DayHours - 1 [] f = "dayOfMonth" -> MonthLen
    [] f = "month" -> Months [] f = "dayOfWeek" -> WeekLen

\* A star, a range, or a number, with a step or without: `to` is the number itself
\* for a plain one, and the highest there is for one with a step.
Part == [star : BOOLEAN, from : Nat, to : Nat, stepped : BOOLEAN, step : Nat \ {0}]

ClockConstants ==
  /\ \A n \in {HourLen, DayHours, WeekLen, MonthLen, Months} : n \in Nat \ {0}
  /\ \A z \in Zones : {z.before, z.after, z.at} \subseteq Int
  /\ \A c \in Crons : DOMAIN c = Fields
  /\ \A c \in Crons, f \in Fields :
       c[f] # {} /\ c[f] \subseteq Part /\ Cardinality({p \in c[f] : p.star}) <= 1
  /\ \A s \in Schedules : \A w \in s :
       /\ w.days # {} /\ w.days \subseteq 0 .. WeekLen - 1
       /\ {w.start, w.end} \subseteq 0 .. DayLen - 1 /\ w.start # w.end

VARIABLES
  zone, cron, schedule,
  now,
  last,    \* when the recurring work was last due
  fired    \* history: every instant it was due at

vars == <<zone, cron, schedule, now, last, fired>>

-------------------------------------------------------------------------------
(* The local clock.                                                        *)

Offset(t) == IF t < zone.at THEN zone.before ELSE zone.after
Local(t) == t + Offset(t)

MinuteOf(l) == l % HourLen
HourOf(l) == (l \div HourLen) % DayHours
DayOf(l) == l \div DayLen
WeekdayOf(day) == day % WeekLen
DateOf(day) == [month |-> 1 + ((day \div MonthLen) % Months), day |-> 1 + (day % MonthLen)]

\* Mutant: the offset is looked up once, at the wrong instant.
InstantForLocalOnce(day, hour, minute) ==
  LET naive == day * DayLen + hour * HourLen + minute IN naive - Offset(naive)

\* Corrected twice, because the offset itself depends on the instant.
InstantForLocal(day, hour, minute) ==
  LET naive == day * DayLen + hour * HourLen + minute
  IN  naive - Offset(naive - Offset(naive))

-------------------------------------------------------------------------------
(* Cron.                                                                   *)

\* The numbers of the range that are a whole number of steps from where it begins.
ValuesOf(part) == {v \in part.from .. part.to : (v - part.from) % part.step = 0}

\* What a part means in a field.
ReadPart(f, part) ==
  CASE part.star -> [part EXCEPT !.from = Lowest(f), !.to = Highest(f)]
    [] ~part.star /\ part.stepped /\ part.from = part.to -> [part EXCEPT !.to = Highest(f)]
    [] OTHER -> part

Readable(f, part) ==
  part.star \/ (Lowest(f) <= part.from /\ part.from <= part.to /\ part.to <= Highest(f))

ParseField(f, parts) ==
  [ values |-> UNION {ValuesOf(ReadPart(f, p)) : p \in parts},
    star |-> \E p \in parts : p.star /\ ~p.stepped ]

\* An expression with a part that cannot be read is refused, whatever the rest says.
Parses(c) == \A f \in Fields : \A p \in c[f] : Readable(f, p)

\* Mutant: the last day of the week stays one of its own.
WeekdaysAsWritten(values) == values

Weekdays(values) == {v % WeekLen : v \in values}

ParseCron(c) ==
  [ minute |-> ParseField("minute", c["minute"]).values,
    hour |-> ParseField("hour", c["hour"]).values,
    dayOfMonth |-> ParseField("dayOfMonth", c["dayOfMonth"]).values,
    month |-> ParseField("month", c["month"]).values,
    dayOfWeek |-> Weekdays(ParseField("dayOfWeek", c["dayOfWeek"]).values),
    dayOfMonthRestricted |-> ~ParseField("dayOfMonth", c["dayOfMonth"]).star,
    dayOfWeekRestricted |-> ~ParseField("dayOfWeek", c["dayOfWeek"]).star ]

\* When both days are restricted either will do.
MatchesDay(x, day) ==
  LET dom == DateOf(day).day \in x.dayOfMonth
      dow == WeekdayOf(day) \in x.dayOfWeek
  IN  /\ DateOf(day).month \in x.month
      /\ IF x.dayOfMonthRestricted /\ x.dayOfWeekRestricted THEN dom \/ dow
         ELSE (x.dayOfMonthRestricted => dom) /\ (x.dayOfWeekRestricted => dow)

Never == -1

\* The first of the named times, day by day and hour by hour as they are written,
\* whose instant is later.
NextCronRun(x, after) ==
  LET today == DayOf(Local(after))
      Times == {<<d, h, m>> \in (today .. today + MaxDaysAhead) \X x.hour \X x.minute :
                  MatchesDay(x, d) /\ InstantForLocal(d, h, m) > after}
      Written(a) == a[1] * DayLen + a[2] * HourLen + a[3]
      first == CHOOSE a \in Times : \A b \in Times : Written(a) <= Written(b)
  IN  IF Times = {} THEN Never ELSE InstantForLocal(first[1], first[2], first[3])

-------------------------------------------------------------------------------
(* Working windows.                                                        *)

\* Mutant: a window past midnight is asked about on the day it ends.
WindowIsOpenToday(w, weekday, minute) ==
  IF w.start < w.end THEN weekday \in w.days /\ w.start <= minute /\ minute < w.end
  ELSE weekday \in w.days /\ (minute >= w.start \/ minute < w.end)

\* The day a window starts on owns the whole of it.
WindowIsOpen(w, weekday, minute) ==
  IF w.start < w.end THEN weekday \in w.days /\ w.start <= minute /\ minute < w.end
  ELSE \/ minute >= w.start /\ weekday \in w.days
       \/ minute < w.end /\ (weekday + WeekLen - 1) % WeekLen \in w.days

IsOpen(t) ==
  schedule = {} \/ \E w \in schedule : WindowIsOpen(w, WeekdayOf(DayOf(Local(t))), Local(t) % DayLen)

-------------------------------------------------------------------------------

Init ==
  /\ zone \in Zones /\ cron \in {c \in Crons : Parses(c)} /\ schedule \in Schedules
  /\ now = 0 /\ last = 0 /\ fired = {}

\* A minute goes by, and what has come due since the last time is due now.
Pass ==
  /\ now < Horizon /\ now' = now + 1
  /\ \E next \in {NextCronRun(ParseCron(cron), last)} :
       IF next # Never /\ next <= now'
         THEN last' = next /\ fired' = fired \cup {next}
         ELSE UNCHANGED <<last, fired>>
  /\ UNCHANGED <<zone, cron, schedule>>

Spec == Init /\ [][Pass]_vars

-------------------------------------------------------------------------------

TypeOK == now \in 0 .. Horizon /\ last \in 0 .. now /\ fired \subseteq 1 .. now

\* What an expression says of a local minute, read off its parts.
Says(f, v) ==
  \E p \in cron[f] :
    LET from == IF p.star THEN Lowest(f) ELSE p.from
        to == IF p.star \/ (p.stepped /\ p.to = p.from) THEN Highest(f) ELSE p.to
    IN  from <= v /\ v <= to /\ (v - from) % p.step = 0

Anything(f) == \E p \in cron[f] : p.star /\ ~p.stepped

Named(l) ==
  LET day == DayOf(l)
      dom == Says("dayOfMonth", DateOf(day).day)
      dow == \/ Says("dayOfWeek", WeekdayOf(day))
             \/ WeekdayOf(day) = 0 /\ Says("dayOfWeek", WeekLen)
  IN  /\ Says("minute", MinuteOf(l)) /\ Says("hour", HourOf(l))
      /\ Says("month", DateOf(day).month)
      /\ IF Anything("dayOfMonth") \/ Anything("dayOfWeek") THEN dom /\ dow ELSE dom \/ dow

Instants == -DayLen .. Horizon + DayLen
Skipped(l) == \A t \in Instants : Local(t) # l
Twice(l) == \E t, u \in Instants : t # u /\ Local(t) = l /\ Local(u) = l

\* Recurring work is due when its expression says, where the office is: at every
\* minute it names but for one the clock shows twice, and at no other but for the
\* one a minute the clock left out falls on (cron.ts: "nine in the morning where
\* the office is, in summer and in winter alike").
DueWhenNamed ==
  /\ \A t \in 1 .. now : Named(Local(t)) /\ ~Twice(Local(t)) => t \in fired
  /\ \A t \in fired :
       Named(Local(t)) \/ \E l \in -DayLen .. Horizon + DayLen : Named(l) /\ Skipped(l)

\* A minute the clock shows twice is due once.
OnceAMinute == \A t, u \in fired : Local(t) = Local(u) => t = u

\* A room is open from when a window starts until it ends, the next day if it ends
\* earlier than it starts, on the days the window starts on.
OpenAsWritten ==
  IsOpen(now) <=>
    \/ schedule = {}
    \/ \E w \in schedule, d \in -1 .. DayOf(Local(now)) :
         /\ WeekdayOf(d + WeekLen) \in w.days
         /\ d * DayLen + w.start <= Local(now)
         /\ Local(now) < d * DayLen + w.end + (IF w.end < w.start THEN DayLen ELSE 0)
===============================================================================
