----------------------------- MODULE AlarmForm ------------------------------
(***************************************************************************)
(* The four steps of the wizard (web/src/routes/WizardPage.tsx): basics,   *)
(* schedule, repetition, review.  A form holds what is on screen, also in  *)
(* the fields that its modes hide; None is an empty field.  Group, note    *)
(* and self-destruct pass straight through and are left out.               *)
(***************************************************************************)
EXTENDS Recurrence

CONSTANTS
  Names, Texts,                     \* what is typed in step 1
  FormZones, FormTimes, FormDates,  \* in step 2
  FormDays, FormNths,               \* in step 3
  FormNumbers                       \* and in every field of a number

\* An empty field holds none of the values that others are compared with.
ASSUME AlarmFormAssumption == None \notin {0, Blank, "male", "female"}

VARIABLES
  form,       \* what the wizard shows, or None before it is opened
  step        \* the step it is at

formVars == <<form, step>>

EmptyForm ==
  [name |-> None, speechText |-> None, speechFinalText |-> None, speechVoice |-> "female",
   timeOfDay |-> Min(FormTimes \ {None}), timezone |-> CHOOSE z \in Zones : TRUE,
   startDate |-> 0, endMode |-> "never", endDate |-> None, endTime |-> None,
   endAfterOccurrences |-> None, repeatWithinDay |-> FALSE, endTimeOfDay |-> DayLength - 1,
   repeatEvery |-> 1, repeatUnit |-> "minutes", rule |-> [type |-> "daily"]]

OrElse(value, default) == IF value = None THEN default ELSE value
Trimmed(text) == IF text = Blank THEN None ELSE text

\* A number, with the one that stands for nothing made None.
Number(field) == IF field = 0 THEN None ELSE field

\* Broken: an end date is taken for no end.
EndModeByCount(alarm) == IF Number(alarm.endAfterOccurrences) # None THEN "count" ELSE "never"

EndMode(alarm) == IF alarm.endDate # None THEN "date"
                  ELSE IF Number(alarm.endAfterOccurrences) # None THEN "count" ELSE "never"

FormFromAlarm(alarm) ==
  [name                |-> alarm.name,
   speechText          |-> alarm.speechText,
   speechFinalText     |-> alarm.speechFinalText,
   speechVoice         |-> OrElse(alarm.speechVoice, "female"),
   timeOfDay           |-> alarm.timeOfDay,
   timezone            |-> alarm.timezone,
   startDate           |-> alarm.startDate,
   endMode             |-> EndMode(alarm),
   endDate             |-> alarm.endDate,
   endTime             |-> alarm.endTime,
   endAfterOccurrences |-> alarm.endAfterOccurrences,
   repeatWithinDay     |-> WindowParts(alarm) = {"endTimeOfDay", "repeatEvery", "repeatUnit"},
   endTimeOfDay        |-> OrElse(alarm.endTimeOfDay, DayLength - 1),
   repeatEvery         |-> OrElse(alarm.repeatEvery, 1),
   repeatUnit          |-> OrElse(alarm.repeatUnit, "minutes"),
   rule                |-> alarm.rule]

\* Broken: an end time that the end mode hides is asked for.
EndTimeAsTyped(f) == f.endTime

EndTimeShown(f) == IF f.endMode = "date" /\ f.endDate # None THEN f.endTime ELSE None

\* The schedule the review asks a preview of.
PreviewRequest(f) ==
  [timeOfDay |-> f.timeOfDay, timezone |-> f.timezone, startDate |-> f.startDate, rule |-> f.rule,
   endDate |-> IF f.endMode = "date" THEN f.endDate ELSE None,
   endTime |-> EndTimeShown(f),
   endAfterOccurrences |-> IF f.endMode = "count" THEN f.endAfterOccurrences ELSE None,
   endTimeOfDay |-> IF f.repeatWithinDay THEN f.endTimeOfDay ELSE None,
   repeatEvery |-> IF f.repeatWithinDay THEN Number(f.repeatEvery) ELSE None,
   repeatUnit |-> IF f.repeatWithinDay THEN f.repeatUnit ELSE None]

\* What a submit sends: the end mode is collapsed into the exclusive fields,
\* the parts of the window travel together, and without a spoken message
\* neither a closing one nor a voice.
ToPayload(f) ==
  LET text == Trimmed(f.speechText)  byDate == f.endMode = "date" /\ f.endDate # None IN
  [name                |-> Trimmed(f.name),
   speechText          |-> text,
   speechFinalText     |-> IF text = None THEN None ELSE Trimmed(f.speechFinalText),
   speechVoice         |-> IF text = None THEN None ELSE f.speechVoice,
   timeOfDay           |-> f.timeOfDay,
   timezone            |-> f.timezone,
   startDate           |-> f.startDate,
   endDate             |-> IF byDate THEN f.endDate ELSE None,
   endTime             |-> IF byDate THEN f.endTime ELSE None,
   endAfterOccurrences |-> IF f.endMode = "count" THEN f.endAfterOccurrences ELSE None,
   endTimeOfDay        |-> IF f.repeatWithinDay THEN f.endTimeOfDay ELSE None,
   repeatEvery         |-> IF f.repeatWithinDay THEN Number(f.repeatEvery) ELSE None,
   repeatUnit          |-> IF f.repeatWithinDay THEN f.repeatUnit ELSE None,
   rule                |-> f.rule]

\* What the server makes of it, once it has accepted it.
Stored(payload) == [payload EXCEPT !.rule = NormaliseRule(@)]

-----------------------------------------------------------------------------
\* What step which needs before it can be left.
ProblemsWithStep(f, which) ==
  CASE which = 1 -> {p \in {"name"} : Trimmed(f.name) = None}
    [] which = 2 -> {p \in {"timeOfDay", "startDate"} : f[p] = None}
                      \cup {p \in {"endDate"} : f.endMode = "date" /\ f.endDate = None}
                      \cup {p \in {"endAfterOccurrences"} :
                              f.endMode = "count" /\ f.endAfterOccurrences = None}
    [] which = 3 -> {p \in {"byWeekday"} : f.rule.type = "weekly" /\ f.rule.byWeekday = <<>>}
                      \cup {p \in {"endTimeOfDay"} :
                              /\ f.repeatWithinDay
                              /\ f.endTimeOfDay # None =>
                                   f.timeOfDay # None /\ f.endTimeOfDay <= f.timeOfDay}
    [] OTHER -> {}

Update(field, values) ==
  \E v \in values : form' = [form EXCEPT ![field] = v] /\ UNCHANGED step

Basics ==
  /\ form # None /\ step = 1
  /\ \/ Update("name", Names)
     \/ Update("speechText", Texts)
     \/ Trimmed(form.speechText) # None /\ Update("speechFinalText", Texts)
     \/ Trimmed(form.speechText) # None /\ Update("speechVoice", {"male", "female"})

Schedule ==
  /\ form # None /\ step = 2
  /\ \/ Update("timezone", FormZones)
     \/ Update("timeOfDay", FormTimes)
     \/ Update("startDate", FormDates)
     \/ Update("endMode", {"never", "date", "count"})
     \/ form.endMode = "date" /\ (Update("endDate", FormDates) \/ Update("endTime", FormTimes))
     \/ form.endMode = "count" /\ Update("endAfterOccurrences", FormNumbers)

\* setType: a rule begins with the first of everything.
RuleOf(type) ==
  CASE type = "weekly"      -> [type |-> type, byWeekday |-> <<1>>]
    [] type = "monthly_day" -> [type |-> type, dayOfMonth |-> 1]
    [] type = "monthly_nth" -> [type |-> type, nth |-> 1, weekday |-> 1]
    [] type = "interval"    -> [type |-> type, every |-> 1, unit |-> "days"]
    [] OTHER                -> [type |-> type]

RuleTypes == {"once", "daily", "weekly", "monthly_day", "monthly_nth", "interval"}

\* Weekdays are added at the end, in the order they are ticked.
Tick(days, day) == IF day \in Range(days) THEN SelectSeq(days, LAMBDA d : d # day)
                   ELSE Append(days, day)

RulesFrom(rule) ==
  {RuleOf(type) : type \in RuleTypes} \cup
  CASE rule.type = "weekly"      -> {[rule EXCEPT !.byWeekday = Tick(@, d)] : d \in FormDays}
    [] rule.type = "monthly_day" -> {[rule EXCEPT !.dayOfMonth = OrElse(Number(n), 1)] : n \in FormNumbers}
    [] rule.type = "monthly_nth" -> {[rule EXCEPT !.nth = n] : n \in FormNths}
                                      \cup {[rule EXCEPT !.weekday = d] : d \in FormDays}
    [] rule.type = "interval"    -> {[rule EXCEPT !.every = OrElse(Number(n), 1)] : n \in FormNumbers}
                                      \cup {[rule EXCEPT !.unit = u] : u \in {"days", "weeks", "months"}}
    [] OTHER -> {}

RepetitionStep ==
  /\ form # None /\ step = 3
  /\ \/ Update("rule", RulesFrom(form.rule))
     \/ Update("repeatWithinDay", {FALSE})
     \/ /\ form' \in {[form EXCEPT !.repeatWithinDay = TRUE, !.repeatUnit = u] : u \in DOMAIN UnitSeconds}
        /\ UNCHANGED step
     \/ form.repeatWithinDay /\ Update("repeatEvery", FormNumbers)
     \/ form.repeatWithinDay /\ Update("endTimeOfDay", FormTimes)

\* Broken: the step that is entered is looked at, not the one that is left.
BlocksEntered(f, at, next) == next > at /\ ProblemsWithStep(f, next) # {}

\* Going back is always allowed, only going forward is gated.
Blocks(f, at, next) == next > at /\ ProblemsWithStep(f, at) # {}

GoTo(next) ==
  /\ form # None /\ next \in 1..4
  /\ ~Blocks(form, step, next)
  /\ step' = next /\ UNCHANGED form

FormNext ==
  \/ Basics \/ Schedule \/ RepetitionStep
  \/ GoTo(step - 1)
  \/ step < 4 /\ GoTo(step + 1)
=============================================================================
