-------------------------- MODULE MCSequenceEngine --------------------------
(***************************************************************************)
(* A caller follows one run with one window after another, as the poll     *)
(* does.  Small chains, every rule, every window.                          *)
(***************************************************************************)
EXTENDS SequenceEngine, FiniteSets

CONSTANTS Durations, MaxSteps, MaxRepeat, MaxOffset, Limits

ASSUME EngineInputs ==
  /\ Durations \subseteq Nat \ {0} /\ Limits \subseteq Nat \ {0}
  /\ {MaxSteps, MaxRepeat, MaxOffset} \subseteq Nat

VARIABLES
  spec,      \* the sequence that runs
  window,    \* the window last asked about
  limit,     \* and how many occurrences it asked for
  answer     \* what came back

Rules == {[mode |-> "once", n |-> 0]}
           \cup [mode : {"duration", "count"}, n : 1..MaxRepeat]

\* Chains in the order of their positions, and the other way round.
Chains == UNION {[1..n -> Durations] : n \in 1..MaxSteps}
Rows(chain) == [i \in 1..Len(chain) |-> [position |-> i, duration |-> chain[i]]]
Specs == [rule : Rules, closing : BOOLEAN,
          steps : {Rows(c) : c \in Chains} \cup {Reverse(Rows(c)) : c \in Chains} \cup {<<>>}]

Windows == [from : 0..MaxOffset, to : 0..MaxOffset]

Enquire ==
  /\ window' \in {w \in Windows : w.from <= w.to}
  /\ limit' \in Limits
  /\ answer' = StepOccurrences(spec, window', limit')
  /\ UNCHANGED spec

EngineInit ==
  /\ spec \in Specs
  /\ window = [from |-> 0, to |-> 0]
  /\ limit = MaxStepOccurrences
  /\ answer = StepOccurrences(spec, window, limit)

EngineSpec == EngineInit /\ [][Enquire]_<<spec, window, limit, answer>>

-----------------------------------------------------------------------------
\* A second-by-second account of the run, which is what the chain means: at
\* each second either a step begins or the one in progress goes on.
Position(i) == CHOOSE k \in DOMAIN spec.steps : spec.steps[k].position = i
Following(now) ==
  IF now.left > 1 THEN [now EXCEPT !.left = @ - 1]
  ELSE LET last == now.position = Len(spec.steps)
           next == IF last THEN 1 ELSE now.position + 1
       IN [cycle |-> IF last THEN now.cycle + 1 ELSE now.cycle, position |-> next,
           left |-> spec.steps[Position(next)].duration, begins |-> TRUE]
Clock ==
  LET at[t \in 0..MaxOffset] ==
        IF t = 0 THEN [cycle |-> 1, position |-> 1, begins |-> TRUE,
                       left |-> spec.steps[Position(1)].duration]
        ELSE Following([at[t - 1] EXCEPT !.begins = FALSE])
  IN at
StepsDue == {t \in 0..MaxOffset : spec.steps # <<>> /\ t < LengthOf(spec) /\ Clock[t].begins}

\* Everything the run announces from lo to hi, by the clock.
Due(lo, hi) ==
  {[cycle |-> Clock[t].cycle, position |-> Clock[t].position, at |-> t] :
     t \in {u \in StepsDue : lo <= u /\ u <= hi}}
  \cup {[cycle |-> 1 + (t - 1) \div CycleSeconds(spec.steps), position |-> 0, at |-> t] :
     t \in {u \in lo..hi : spec.closing /\ spec.steps # <<>> /\ u = LengthOf(spec)}}

\* "A step is in or out; it is never moved": an answer names the first of what
\* the run announces in its window, nothing else, in order, as many as its
\* limit allows, whatever was asked before and however the rows arrived.
AnswersTheChain ==
  LET due == Due(window.from, window.to)
      at  == [i \in DOMAIN answer |-> answer[i].at]
  IN /\ Range(answer) \subseteq due
     /\ \A i, j \in DOMAIN answer : i < j => at[i] < at[j]
     /\ Len(answer) = Atmost(Atmost(MaxStepOccurrences, limit), Cardinality(due))
     /\ \A o \in due \ Range(answer), i \in DOMAIN answer : at[i] < o.at

\* Closing a run at hasFinished cuts no step short: once a run has finished,
\* the only thing it may still have to say is the closing line of that instant.
FinishedMeansNothingLeft ==
  \A now \in 0..MaxOffset :
    spec.steps # <<>> /\ HasFinished(spec.rule, CycleSeconds(spec.steps), 0, now)
      => \A o \in Range(StepOccurrences(spec, [from |-> now, to |-> MaxOffset],
                                        MaxStepOccurrences)) :
           o.position = 0 /\ o.at = now

\* And a run that has not finished still has something to say if it has a
\* closing line: a view of it that shows no next step shows a run that is over.
UnfinishedHasNext ==
  \A now \in 0..MaxOffset :
    spec.steps # <<>> /\ spec.closing
      /\ ~HasFinished(spec.rule, CycleSeconds(spec.steps), 0, now)
      => NextStep(spec, now, LengthOf(spec)) # <<>>
=============================================================================
