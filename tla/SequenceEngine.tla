--------------------------- MODULE SequenceEngine ---------------------------
(***************************************************************************)
(* Expanding a run of a sequence into the instants its steps fire at       *)
(* (src/api/src/sequences/engine.ts).  Offsets are whole seconds after     *)
(* activation, and a window is given as offsets too: origin is subtracted  *)
(* from both its ends before anything is compared.                         *)
(*                                                                         *)
(* A spec is [rule, closing, steps]: closing says whether there is a       *)
(* closing text, steps is the chain as the rows came back, each step a     *)
(* [position, duration].  What a step says is left out.                    *)
(***************************************************************************)
EXTENDS SequenceSpec, SequencesExt

CONSTANT MaxStepOccurrences   \* MAX_STEP_OCCURRENCES: no answer is longer

ASSUME SequenceEngineAssumption == MaxStepOccurrences \in Nat \ {0}

\* The rows of a chain, in whatever order they come back: their positions are
\* dense from 1 and no two share one, and none takes no time.
IsChain(steps) ==
  /\ steps \in Seq([position : Nat \ {0}, duration : Nat \ {0}])
  /\ \A i \in DOMAIN steps : steps[i].position \in DOMAIN steps
  /\ \A i, j \in DOMAIN steps : steps[i].position = steps[j].position => i = j

IsSequence(spec) == spec.rule \in Rule /\ spec.closing \in BOOLEAN /\ IsChain(spec.steps)

Atmost(high, n) == IF n > high THEN high ELSE n

CycleSeconds(steps) == FoldLeft(LAMBDA total, step : total + step.duration, 0, steps)

\* Broken: the chain in whatever order the rows came back.
OrderedAsRead(steps) == steps

Ordered(steps) ==
  CHOOSE s \in [DOMAIN steps -> Range(steps)] :
    \A i, j \in DOMAIN s : i < j => s[i].position < s[j].position

LengthOf(spec) == RunLength(spec.rule, CycleSeconds(spec.steps))

\* For a duration, the cycle straddling the end is begun as well.
MaxCycles(rule, cycle) ==
  CASE rule.mode = "once"     -> 1
    [] rule.mode = "count"    -> AtLeast(1, rule.n)
    [] rule.mode = "duration" -> (AtLeast(0, rule.n) + cycle - 1) \div cycle

\* Broken: a step that would begin as the window closes is still announced.
OverrunsLate(rule, at, length) == rule.mode = "duration" /\ at > length

\* A step that would begin at or after the end of the window never begins.
Overruns(rule, at, length) == rule.mode = "duration" /\ at >= length

InWindow(at, window) == window.from <= at /\ at <= window.to

\* What the loops over cycles and steps go through, and what one round of the
\* inner loop does.  The offset is carried from step to step, the search ends
\* once the limit is reached, and the inner loop breaks at a step that
\* overruns - as must every later one.
Visits(spec) ==
  LET steps  == Ordered(spec.steps)
      cycles == MaxCycles(spec.rule, CycleSeconds(steps))
  IN [v \in 1..(cycles * Len(steps)) |->
        [cycle |-> (v - 1) \div Len(steps), step |-> steps[((v - 1) % Len(steps)) + 1]]]

Visit(spec, window, limit, state, visit) ==
  LET at == state.offset IN
  [offset |-> at + visit.step.duration,
   found  |-> IF \/ Len(state.found) >= limit
                 \/ Overruns(spec.rule, at, LengthOf(spec))
                 \/ ~InWindow(at, window)
                THEN state.found
                ELSE Append(state.found, [cycle |-> visit.cycle + 1,
                                          position |-> visit.step.position,
                                          at |-> at])]

StepsFound(spec, window, limit) ==
  FoldLeft(LAMBDA state, visit : Visit(spec, window, limit, state, visit),
           [offset |-> 0, found |-> <<>>], Visits(spec)).found

\* Broken: the closing line is spoken when the last step begins.
ClosingAtLastStep(spec) == LengthOf(spec) - Ordered(spec.steps)[Len(spec.steps)].duration

ClosingAt(spec) == LengthOf(spec)

\* stepOccurrencesFor: the steps, then the closing line if there is room for it.
StepOccurrences(spec, window, limit) ==
  LET cap   == Atmost(MaxStepOccurrences, limit)
      cycle == CycleSeconds(spec.steps)
      found == StepsFound(spec, window, cap)
  IN IF spec.steps = <<>> \/ cycle = 0 THEN <<>>
     ELSE IF spec.closing /\ InWindow(ClosingAt(spec), window) /\ Len(found) < cap
            THEN Append(found, [cycle |-> MaxCycles(spec.rule, cycle), position |-> 0,
                                at |-> ClosingAt(spec)])
            ELSE found

\* nextStep
NextStep(spec, from, forever) == StepOccurrences(spec, [from |-> from, to |-> forever], 1)
=============================================================================
