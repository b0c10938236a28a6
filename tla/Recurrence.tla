----------------------------- MODULE Recurrence -----------------------------
(***************************************************************************)
(* The instants an alarm fires at (src/api/src/recurrence/engine.ts), the  *)
(* check a schedule passes before it is saved (domain/validation.ts), and  *)
(* the two places where the schedules of a group are compared              *)
(* (domain/conflicts.ts).                                                  *)
(*                                                                         *)
(* The calendar is one of few and short months, weeks and days; a date is  *)
(* its number.  Candidate dates end with the calendar, as those of the     *)
(* code end with MAX_CANDIDATES.  A zone is [offset, at, shift]: its clock *)
(* is set once, when it shows at, by shift: forward over a gap, or back.   *)
(***************************************************************************)
EXTENDS Integers, SequencesExt

CONSTANTS
  MonthLengths,   \* the days in each month
  WeekLength,     \* the days in a week
  DayLength,      \* the seconds of a wall-clock day
  UnitSeconds,    \* the seconds in each repeat unit
  Zones,          \* the zones there are
  MaxPerDay,      \* MAX_PER_DAY
  Largest,        \* the largest number the schemas take in each field
  None,
  Blank           \* a text of nothing but spaces

ASSUME RecurrenceAssumption ==
  /\ MonthLengths \in Seq(Nat \ {0}) /\ MonthLengths # <<>>
  /\ {WeekLength, DayLength, MaxPerDay} \subseteq Nat \ {0}
  /\ \A m \in DOMAIN MonthLengths : MonthLengths[m] >= WeekLength
  /\ \A unit \in DOMAIN UnitSeconds : UnitSeconds[unit] \in Nat \ {0}
  /\ \A z \in Zones : z.offset \in Int /\ z.at \in Nat /\ z.shift \in Int
  /\ Largest \in [{"endAfterOccurrences", "repeatEvery", "dayOfMonth", "nth", "every"} -> Nat]
  /\ None \notin Int

\* The members of a set of numbers, in their order.
Ordered(set) ==
  [i \in 1..Cardinality(set) |-> CHOOSE n \in set : Cardinality({m \in set : m <= n}) = i]

-----------------------------------------------------------------------------
\* The calendar, and a clock that is set once.
Months == DOMAIN MonthLengths
FirstOf == [m \in 1..(Len(MonthLengths) + 1) |-> FoldLeft(+, 0, SubSeq(MonthLengths, 1, m - 1))]
Dates == 0..(FirstOf[Len(MonthLengths) + 1] - 1)
MonthOf == [date \in Dates |->
  CHOOSE m \in Months : FirstOf[m] <= date /\ date < FirstOf[m + 1]]
DayOf(date) == date - FirstOf[MonthOf[date]] + 1
Weekday(date) == (date % WeekLength) + 1

\* A local time in a gap is moved on by the gap, one that comes twice is the
\* first of the two.
Resolve(zone, local) ==
  LET gap == IF zone.shift > 0 THEN zone.shift ELSE 0
  IN (IF local < zone.at + gap THEN local ELSE local - zone.shift) - zone.offset

ResolveInstant(date, second, zone) == Resolve(zone, date * DayLength + second)
EndOfDay(date, zone) == ResolveInstant(date + 1, 0, zone) - 1

-----------------------------------------------------------------------------
\* What a request says, and what validateSchedule lets through.
StepSeconds(every, unit) == every * UnitSeconds[unit]

\* Each weekday once, in the order of the week.
NormaliseRule(rule) ==
  IF rule.type # "weekly" THEN rule
  ELSE [rule EXCEPT !.byWeekday = Ordered(Range(@) \cap 1..WeekLength)]

PerDay(input) ==
  (input.endTimeOfDay - input.timeOfDay) \div StepSeconds(input.repeatEvery, input.repeatUnit) + 1

WindowParts(input) == {p \in {"endTimeOfDay", "repeatEvery", "repeatUnit"} : input[p] # None}

HasText(input) == input.speechText \notin {None, Blank}

\* The field each complaint is attached to.
Complaints(input) ==
  {field \in DOMAIN input :
     \/ field = "timezone" /\ input.timezone \notin Zones
     \/ field = "startDate" /\ input.startDate \notin Dates
     \/ /\ field = "endDate" /\ input.endDate # None
        /\ \/ input.endDate \notin Dates
           \/ input.startDate \in Dates /\ input.endDate < input.startDate
     \/ field = "endTime" /\ input.endTime # None /\ input.endDate = None
     \/ field = "endAfterOccurrences" /\ input.endDate # None /\ input.endAfterOccurrences # None
     \/ field = "speechText" /\ input.speechVoice # None /\ ~HasText(input)
     \/ field = "speechText" /\ input.speechText = Blank
     \/ field = "speechFinalText" /\ input.speechFinalText # None /\ ~HasText(input)
     \/ field = "repeatEvery" /\ Cardinality(WindowParts(input)) \in 1..2
     \/ /\ field = "endTimeOfDay" /\ Cardinality(WindowParts(input)) = 3
        /\ \/ input.endTimeOfDay <= input.timeOfDay
           \/ PerDay(input) > MaxPerDay}

\* What the schemas of a rule and of a body let through: the fields in error.
RuleFits(rule) ==
  \/ rule.type \in {"once", "daily"}
  \/ rule.type = "weekly" /\ rule.byWeekday # <<>> /\ Range(rule.byWeekday) \subseteq 1..WeekLength
  \/ rule.type = "monthly_day" /\ rule.dayOfMonth \in 1..Largest.dayOfMonth
  \/ rule.type = "monthly_nth" /\ rule.weekday \in 1..WeekLength /\ rule.nth \in {-1} \cup 1..Largest.nth
  \/ rule.type = "interval" /\ rule.every \in 1..Largest.every /\ rule.unit \in {"days", "weeks", "months"}

SchemaErrors(input) ==
  {field \in DOMAIN input :
     \/ field \in {"name", "timeOfDay", "startDate"} /\ input[field] = None
     \/ /\ field \in {"endAfterOccurrences", "repeatEvery"}
        /\ input[field] \notin {None} \cup 1..Largest[field]
     \/ field = "rule" /\ ~RuleFits(input.rule)}

\* What a write is refused for: its handler sees only what fits the schema.
Refusals(input) == IF SchemaErrors(input) # {} THEN SchemaErrors(input) ELSE Complaints(input)

\* What is known of a schedule that was saved.
IsSchedule(spec) ==
  /\ RuleFits(spec.rule)
  /\ spec.timezone \in Zones /\ spec.startDate \in Dates
  /\ spec.timeOfDay \in 0..(DayLength - 1)
  /\ spec.endDate \in Dates \cup {None}
  /\ spec.endTime \in (0..(DayLength - 1)) \cup {None}
  /\ spec.endTime # None => spec.endDate # None
  /\ spec.endAfterOccurrences \in (Nat \ {0}) \cup {None}
  /\ \/ WindowParts(spec) = {}
     \/ /\ WindowParts(spec) = {"endTimeOfDay", "repeatEvery", "repeatUnit"}
        /\ spec.endTimeOfDay \in spec.timeOfDay..(DayLength - 1)
        /\ spec.repeatEvery \in Nat \ {0} /\ spec.repeatUnit \in DOMAIN UnitSeconds
        /\ PerDay(spec) <= MaxPerDay

-----------------------------------------------------------------------------
\* The dates the rule selects from startDate on.
FromStart(spec) == {d \in Dates : d >= spec.startDate}
Every(spec, days) == {d \in FromStart(spec) : (d - spec.startDate) % days = 0}

\* R-04: a month shorter than the day is skipped.
DayOfMonth(month, day) == IF day > MonthLengths[month] THEN None ELSE FirstOf[month] + day - 1

\* R-05: the nth weekday of a month, or None; -1 is the last.
NthWeekdayOfMonth(month, weekday, nth) ==
  LET first == FirstOf[month]
      last  == first + MonthLengths[month] - 1
      date  == first + ((weekday - Weekday(first) + WeekLength) % WeekLength)
                     + (nth - 1) * WeekLength
  IN IF nth = -1 THEN last - ((Weekday(last) - weekday + WeekLength) % WeekLength)
     ELSE IF date <= last THEN date ELSE None

CandidateDates(spec) ==
  LET rule   == spec.rule
      first  == MonthOf[spec.startDate]
      months == first..Len(MonthLengths)
      every  == {m \in months : (m - first) % rule.every = 0}
  IN CASE rule.type = "once"        -> {spec.startDate}
       [] rule.type = "daily"       -> FromStart(spec)
       [] rule.type = "weekly"      -> {d \in FromStart(spec) : Weekday(d) \in Range(rule.byWeekday)}
       [] rule.type = "monthly_day" -> {DayOfMonth(m, rule.dayOfMonth) : m \in months} \cap FromStart(spec)
       [] rule.type = "monthly_nth" ->
            {NthWeekdayOfMonth(m, rule.weekday, rule.nth) : m \in months} \cap FromStart(spec)
       [] rule.type = "interval" /\ rule.unit = "months" ->
            {DayOfMonth(m, DayOf(spec.startDate)) : m \in every} \ {None}
       [] rule.type = "interval" /\ rule.unit = "weeks" -> Every(spec, rule.every * WeekLength)
       [] rule.type = "interval" /\ rule.unit = "days"  -> Every(spec, rule.every)

\* The wall-clock times of any day it falls on, both ends of the window counted.
SecondsWithinDay(spec) ==
  IF WindowParts(spec) # {"endTimeOfDay", "repeatEvery", "repeatUnit"}
     \/ spec.endTimeOfDay < spec.timeOfDay
    THEN {spec.timeOfDay}
    ELSE {at \in {spec.timeOfDay + i * StepSeconds(spec.repeatEvery, spec.repeatUnit) :
                    i \in 0..(MaxPerDay - 1)} : at <= spec.endTimeOfDay}

\* Broken: a gap leaves its duplicates in, in wall-clock order.
DayInstantsAsResolved(spec, date) ==
  LET seconds == Ordered(SecondsWithinDay(spec))
  IN [i \in DOMAIN seconds |-> ResolveInstant(date, seconds[i], spec.timezone)]

\* A day's instants, each once and in order: a gap folds several wall-clock
\* times into one instant, and not next to each other.
DayInstants(spec, date) ==
  Ordered({ResolveInstant(date, second, spec.timezone) : second \in SecondsWithinDay(spec)})

-----------------------------------------------------------------------------
\* placedOccurrencesFor: days and their instants one after the other, until
\* the series or the window is over or the limit is reached.  An occurrence
\* counts towards the end of the series whether or not the window shows it.
EndInstant(spec) ==
  IF spec.endTime # None THEN ResolveInstant(spec.endDate, spec.endTime, spec.timezone)
  ELSE EndOfDay(spec.endDate, spec.timezone)

Counted(spec, produced) == spec.endAfterOccurrences # None /\ produced >= spec.endAfterOccurrences

\* One instant: [done, produced, found].  done ends the search.
VisitInstant(spec, window, limit, state, at, place, total) ==
  LET counted == [state EXCEPT !.produced = @ + 1]
  IN IF state.done \/ Counted(spec, state.produced) THEN state
     ELSE IF spec.endDate # None /\ at > EndInstant(spec) THEN [state EXCEPT !.done = TRUE]
     ELSE IF at > window.to THEN [counted EXCEPT !.done = TRUE]
     ELSE IF at < window.from THEN counted
     ELSE [done     |-> Len(state.found) + 1 >= limit,
           produced |-> counted.produced,
           found    |-> Append(state.found, [at |-> at, index |-> place, count |-> total])]

VisitDate(spec, window, limit, state, date) ==
  LET instants == DayInstants(spec, date)
  IN IF \/ state.done
        \/ spec.endDate # None /\ date > spec.endDate
        \/ Counted(spec, state.produced)
       THEN [state EXCEPT !.done = TRUE]
       ELSE FoldLeftDomain(LAMBDA s, i : VisitInstant(spec, window, limit, s, instants[i],
                                                      i, Len(instants)),
                           state, instants)

PlacedOccurrences(spec, window, limit) ==
  FoldLeft(LAMBDA s, date : VisitDate(spec, window, limit, s, date),
           [done |-> FALSE, produced |-> 0, found |-> <<>>], Ordered(CandidateDates(spec))).found

Forever == (Cardinality(Dates) + 2) * DayLength

NextOccurrence(spec, from) == PlacedOccurrences(spec, [from |-> from, to |-> Forever], 1)

-----------------------------------------------------------------------------
\* Comparing schedules.  A group is a function from alarms, which are
\* numbers, to their schedules.

\* Broken: a limit that was ample when an alarm fired once a day.
ComparisonLimitOnceADay == Cardinality(Dates) \div 2

ComparisonLimit == MaxPerDay * (Cardinality(Dates) + 1)

\* R-08: the instants two schedules share in a window, in the order of the second.
CollidingInstants(a, b, window) ==
  LET Instants(found) == [i \in DOMAIN found |-> found[i].at]
      first  == Instants(PlacedOccurrences(a, window, ComparisonLimit))
      second == Instants(PlacedOccurrences(b, window, ComparisonLimit))
      places == Ordered({i \in DOMAIN second : second[i] \in Range(first)})
  IN [k \in DOMAIN places |-> second[places[k]]]

\* Broken: the last sibling that collides is reported, not the earliest.
EarlierLast(a, b) == a.id > b.id

Earlier(a, b) == a.at < b.at \/ (a.at = b.at /\ a.id < b.id)

EarliestOf(found) == {c \in found : \A d \in found \ {c} : Earlier(c, d)}

\* findCollision: what refuses a write names the earliest instant shared with
\* a sibling, and of the siblings that share it the lower id.
FindCollision(candidate, siblings, window) ==
  LET shared == [id \in DOMAIN siblings |-> CollidingInstants(candidate, siblings[id], window)]
  IN EarliestOf({[id |-> id, at |-> shared[id][1]] :
                   id \in {s \in DOMAIN siblings : shared[s] # <<>>}})

EntriesOf(shared) ==
  {[a |-> p[1], b |-> p[2], first |-> shared[p][1], count |-> Len(shared[p])] :
     p \in {q \in DOMAIN shared : shared[q] # <<>>}}

\* conflictsInFolder: one entry for every pair that collides.
ConflictsInFolder(alarms, window) ==
  EntriesOf([p \in {q \in (DOMAIN alarms) \X (DOMAIN alarms) : q[1] < q[2]} |->
               CollidingInstants(alarms[p[1]], alarms[p[2]], window)])

SoonestOf(instants) == IF instants = {} THEN None ELSE Min(instants)

\* Broken: the last instant of the week is left to the week after it.
WeekWithoutItsEnd(now) == [from |-> now, to |-> now + WeekLength * DayLength - 1]

WeekAhead(now) == [from |-> now, to |-> now + WeekLength * DayLength]

\* /folders/:id/summary: the occurrences of the week ahead, both ends counted,
\* and the next of all.
FolderSummary(alarms, now) ==
  LET Week(spec) == PlacedOccurrences(spec, WeekAhead(now), Forever)
  IN [inWeek |-> Cardinality(UNION {{id} \X (DOMAIN Week(alarms[id])) : id \in DOMAIN alarms}),
      next   |-> SoonestOf(UNION {{o.at : o \in Range(NextOccurrence(alarms[id], now))} :
                                    id \in DOMAIN alarms})]
=============================================================================
