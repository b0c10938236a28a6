---------------------------- MODULE MCSchedules -----------------------------
(***************************************************************************)
(* A saved schedule is asked for its occurrences in one window after       *)
(* another, or is compared with two others of its group; or a new alarm is *)
(* filled in, back and forth over the steps of the wizard.  Thirteen days  *)
(* in months of five, three and five, weeks of three days, days of five    *)
(* seconds.                                                                *)
(***************************************************************************)
EXTENDS AlarmForm

CONSTANTS StartDates, Ends, Froms, Tos, Limits,
  Nows,        \* when a group is compared, for each companion that leads it
  MaxTouched   \* how many fields of a new alarm are changed at a time

VARIABLES
  spec,      \* a schedule that was saved, or None in the wizard
  window,    \* the window last asked about
  limit,     \* and how many occurrences were asked for
  answer,    \* what came back
  group      \* spec, and the schedules it was last compared with

asked == <<spec, window, limit, answer, group>>
vars == <<form, step, asked>>

MCMonthLengths == <<5, 3, 5>>
MCFormNths == {1, -1}
MCNows == <<{6}, {6}, {17, 66}>>
MCLargest == [endAfterOccurrences |-> 3, repeatEvery |-> 2, dayOfMonth |-> 5, nth |-> 2, every |-> 3]
MCUnitSeconds == [seconds |-> 1, minutes |-> 2]

\* A clock that is never set, one that is set on over a gap at 21 and 22, and
\* one further east that is set back when it shows 28.
Still   == [offset |-> 0, at |-> 0, shift |-> 0]
Spring  == [offset |-> 0, at |-> 21, shift |-> 2]
Autumn  == [offset |-> 1, at |-> 28, shift |-> -2]
MCZones == {Still, Spring, Autumn}

\* A zone can be typed that there is not.
MCFormZones == {Still, [offset |-> 9, at |-> 0, shift |-> 0]}

Rules ==
  {[type |-> "once"], [type |-> "daily"]}
  \cup {[type |-> "weekly", byWeekday |-> w] : w \in {<<2>>, <<3, 1, 3>>}}
  \cup [type : {"monthly_day"}, dayOfMonth : {1, 4}]
  \cup [type : {"monthly_nth"}, weekday : {2}, nth : {1, 2, -1}]
  \cup [type : {"interval"}, unit : {"days", "months"}, every : {2}]
  \cup [type : {"interval"}, unit : {"weeks", "months"}, every : {1}]

\* [end date, end time, number of occurrences] and [end of the window, every, unit].
MCEnds == {<<None, None, None>>, <<5, None, None>>, <<4, 1, None>>, <<0, None, None>>,
           <<None, None, 3>>, <<5, None, 3>>, <<None, 1, None>>}
DayWindows == {<<None, None, None>>, <<3, 1, "seconds">>, <<4, 1, "minutes">>,
               <<3, None, None>>, <<0, 1, "seconds">>}

Inputs ==
  {[name |-> "a", speechText |-> None, speechFinalText |-> None, speechVoice |-> None,
    rule |-> r, timeOfDay |-> t, timezone |-> z, startDate |-> d,
    endDate |-> e[1], endTime |-> e[2], endAfterOccurrences |-> e[3],
    endTimeOfDay |-> w[1], repeatEvery |-> w[2], repeatUnit |-> w[3]] :
     r \in Rules, t \in {0, 1}, z \in MCZones, d \in StartDates, e \in Ends, w \in DayWindows}

Saved == {Stored(i) : i \in {j \in Inputs : Refusals(j) = {}}}

Plain == [name |-> "b", speechText |-> None, speechFinalText |-> None, speechVoice |-> None,
          endDate |-> None, endTime |-> None, endAfterOccurrences |-> None]
Companion(rule, time, zone, day) ==
  [rule |-> rule, timeOfDay |-> time, timezone |-> zone, startDate |-> 0,
   endTimeOfDay |-> day[1], repeatEvery |-> day[2], repeatUnit |-> day[3]] @@ Plain
Companions ==
  <<Companion([type |-> "daily"], 1, Still, <<None, None, None>>),
    Companion([type |-> "daily"], 1, Spring, <<3, 1, "seconds">>),
    Companion([type |-> "monthly_nth", weekday |-> 2, nth |-> 1], 2, Autumn, <<None, None, None>>),
    [Companion([type |-> "once"], 0, Still, <<4, 1, "minutes">>) EXCEPT !.startDate = 12]>>

\* A zone is less than a day away, and a gap of its clock lies inside a day, with room behind
\* it for what the gap moves on.
SetInsideDay(zone) ==
  /\ {zone.offset, zone.shift} \subseteq (1 - DayLength)..(DayLength - 1)
  /\ (zone.at % DayLength) + 2 * zone.shift <= DayLength

ASSUME MCSchedulesAssumption ==
  /\ Blank # "a"   \* the name of what was saved
  /\ \A zone \in Zones : SetInsideDay(zone)
  /\ \A s \in Saved \cup Range(Companions) : IsSchedule(s)
  /\ Nows \in [1..3 -> SUBSET Nat]
  /\ Froms \cup Tos \subseteq Nat /\ Limits \subseteq Nat \ {0}

Idle == [from |-> 0, to |-> 0]

\* GET /alarms/:id/occurrences, /me/upcoming and a preview.
Ask ==
  /\ spec # None
  /\ window' \in {w \in [from : Froms, to : Tos] : w.from <= w.to}
  /\ limit' \in Limits
  /\ answer' = PlacedOccurrences(spec, window', limit')
  /\ group' = <<>>
  /\ UNCHANGED <<spec, form, step>>

\* A write that finds siblings, the panel of conflicts and the summary.
Compare ==
  /\ spec # None
  /\ \E i \in 1..3 : /\ group' = <<Companions[i], spec, Companions[i + 1]>>
                     /\ \E now \in Nows[i] : window' = [from |-> now, to |-> now + 34]
  /\ limit' = 0
  /\ answer' = <<>>
  /\ UNCHANGED <<spec, form, step>>

Init ==
  /\ \/ spec \in Saved /\ form = None
     \/ spec = None /\ form = EmptyForm
  /\ step = 1
  /\ window = Idle /\ limit = 0
  /\ answer = <<>> /\ group = <<>>

\* The wizard.
FillIn ==
  /\ FormNext
  /\ Cardinality({f \in DOMAIN form : form'[f] # EmptyForm[f]}) <= MaxTouched
  /\ UNCHANGED asked

Next == Ask \/ Compare \/ FillIn
Spec == Init /\ [][Next]_vars

-----------------------------------------------------------------------------
\* What the schedule means, day by day and instant by instant.
Selected(s, d) ==
  LET m == MonthOf[d]  start == s.startDate  rule == s.rule  day == DayOf(d) IN
  /\ d >= start
  /\ s.endDate = None \/ d <= s.endDate
  /\ CASE rule.type = "once"        -> d = start
       [] rule.type = "daily"       -> TRUE
       [] rule.type = "weekly"      -> \E i \in DOMAIN rule.byWeekday : rule.byWeekday[i] = Weekday(d)
       [] rule.type = "monthly_day" -> day = rule.dayOfMonth
       [] rule.type = "monthly_nth" ->
            /\ Weekday(d) = rule.weekday
            /\ IF rule.nth = -1 THEN day + WeekLength > MonthLengths[m]
               ELSE (day - 1) \div WeekLength = rule.nth - 1
       [] rule.type = "interval" ->
            CASE rule.unit = "days"   -> (d - start) % rule.every = 0
              [] rule.unit = "weeks"  -> (d - start) % (rule.every * WeekLength) = 0
              [] rule.unit = "months" -> /\ day = DayOf(start)
                                         /\ (m - MonthOf[start]) % rule.every = 0

Times(s) ==
  IF s.endTimeOfDay = None THEN {s.timeOfDay}
  ELSE {t \in s.timeOfDay..s.endTimeOfDay :
          (t - s.timeOfDay) % StepSeconds(s.repeatEvery, s.repeatUnit) = 0}

\* The instants of a day by what its clock shows: a time that is shown twice
\* is the first of the two, a time that is skipped is what the clock shows
\* that much after the jump.
Shows(z, instant) == LET local == instant + z.offset
                     IN IF local < z.at THEN local ELSE local + z.shift
InstantOf(z, local) ==
  LET instants == {local - z.offset, local - z.offset - z.shift}   \* before it is set, and after
      shown    == {i \in instants : Shows(z, i) = local}
  IN IF shown # {} THEN Min(shown)
     ELSE CHOOSE i \in instants : Shows(z, i) = local + z.shift
OfDay(s, d) == {InstantOf(s.timezone, d * DayLength + t) : t \in Times(s)}

UntilEndTime(s, all) ==
  IF s.endTime = None THEN all
  ELSE {i \in all : i <= InstantOf(s.timezone, s.endDate * DayLength + s.endTime)}
UntilCount(s, kept) ==
  IF s.endAfterOccurrences = None THEN kept
  ELSE {i \in kept : Cardinality({j \in kept : j < i}) < s.endAfterOccurrences}

Series(s) ==
  UntilCount(s, UntilEndTime(s, UNION {OfDay(s, d) : d \in {e \in Dates : Selected(s, e)}}))

PlaceIn(day, i) ==
  [at |-> i, index |-> Cardinality({j \in day : j <= i}), count |-> Cardinality(day)]
PlaceOf(s, i) == PlaceIn(OfDay(s, CHOOSE d \in Dates : Selected(s, d) /\ i \in OfDay(s, d)), i)

InWindow(s, w) == {i \in Series(s) : w.from <= i /\ i <= w.to}

\* An answer is the first of what the schedule means in its window, each
\* instant once and in order, as many as were asked for; and where in its day
\* an occurrence stands does not depend on what was asked.
AnswersTheSchedule ==
  limit > 0 =>
    LET due == Ordered(InWindow(spec, window))
    IN answer = [k \in 1..Min({limit, Len(due)}) |-> PlaceOf(spec, due[k])]

\* R-08 misses no instant that two schedules share, and finds the same ones
\* whichever of the two is the candidate.
CollisionsComplete ==
  \A a, b \in DOMAIN group : a # b =>
    LET shared == CollidingInstants(group[a], group[b], window) IN
    /\ Range(shared) = InWindow(group[a], window) \cap InWindow(group[b], window)
    /\ shared = CollidingInstants(group[b], group[a], window)

\* What a refusal says of an alarm that is in these pairs of a panel.
RefusalBy(id, pairs) ==
  LET firsts == {p \in pairs : \A q \in pairs : p.first <= q.first}
      rivals == (UNION {{p.a, p.b} : p \in firsts}) \ {id}
  IN IF pairs = {} THEN {}
     ELSE {[id |-> Min(rivals), at |-> (CHOOSE p \in firsts : TRUE).first]}

\* The panel of a group and the check that refuses a write agree: an alarm is
\* in the panel just when its own schedule would be refused, for the sibling
\* and the instant that come first there.
PanelAgreesWithRefusal ==
  \A id \in DOMAIN group :
    FindCollision(group[id], [s \in DOMAIN group \ {id} |-> group[s]], window) =
      RefusalBy(id, {p \in ConflictsInFolder(group, window) : id \in {p.a, p.b}})

\* A summary counts what every alarm of the group has in the week ahead, both its ends
\* included, and names the first that any of them has still to come, in that week or after it.
SummaryIsExact ==
  group # <<>> =>
    LET week  == [from |-> window.from, to |-> window.from + WeekLength * DayLength]
        due   == UNION {{id} \X InWindow(group[id], week) : id \in DOMAIN group}
        ahead == UNION {{i \in Series(group[id]) : window.from <= i} : id \in DOMAIN group}
    IN FolderSummary(group, window.from) = [inWeek |-> Cardinality(due), next |-> SoonestOf(ahead)]

\* What the wizard does not look at: a zone that is none, dates that are none or the end before
\* the start, numbers that are too large or nothing, each where its mode shows it.
Unlooked(f) ==
  {"timezone", "startDate", "rule"}
    \cup {field \in {"endDate"} : f.endMode = "date"}
    \cup {field \in {"endAfterOccurrences"} : f.endMode = "count"}
    \cup {field \in {"repeatEvery"} : f.repeatWithinDay}
    \cup {field \in {"endTimeOfDay"} : f.repeatWithinDay /\ ~(f.endTimeOfDay <= f.timeOfDay)}

\* A step that was passed has no problems, wherever the form was changed since, and what is
\* reviewed the server can refuse only for what the wizard does not look at: never for what
\* is missing, for what a mode hides, or for a window that ends before it starts.
ReviewedHasNoProblems ==
  form # None =>
    /\ \A passed \in 1..(step - 1) : ProblemsWithStep(form, passed) = {}
    /\ step = 4 => Refusals(ToPayload(form)) \subseteq Unlooked(form)

\* The review previews the schedule that a submit would save.
PreviewIsWhatIsSaved ==
  form # None =>
    LET preview == PreviewRequest(form)
    IN preview = [field \in DOMAIN preview |-> ToPayload(form)[field]]

\* Opening an alarm that was saved and saving it again changes nothing, for
\* every alarm that the wizard can have saved.
EditKeepsAlarm ==
  LET Kept(alarm) == Stored(ToPayload(FormFromAlarm(alarm))) = alarm IN
  /\ spec # None => Kept(spec)
  /\ form # None /\ step = 4 =>
       (Refusals(ToPayload(form)) = {} => Kept(Stored(ToPayload(form))))
=============================================================================
