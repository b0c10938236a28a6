---------------------------- MODULE SequenceSpec ----------------------------
(***************************************************************************)
(* What a sequence says about time: how it repeats and so how long a run   *)
(* of it lasts.  This is the part of src/api/src/sequences/engine.ts that  *)
(* the routes use to decide whether a run is over; the expansion of a run  *)
(* into step instants is in SequenceEngine.                                *)
(*                                                                         *)
(* A rule is the triple repeat_mode, repeat_seconds, repeat_count of a     *)
(* sequences row.  The database lets each mode carry exactly the number it *)
(* needs, so one field n holds it; n = 0 stands for NULL.                  *)
(***************************************************************************)
EXTENDS Integers

\* The rows sequences_repeat_fields_match_mode and the range checks admit.
Rule == [mode : {"once"}, n : {0}]
          \cup [mode : {"duration"}, n : Nat \ {0}]
          \cup [mode : {"count"}, n : Nat \ {0}]

AtLeast(low, n) == IF n < low THEN low ELSE n

\* runLengthSeconds: when a run ends, as an offset from activation.  cycle is
\* the sum of the durations of the chain, 0 when there are no steps.
RunLength(rule, cycle) ==
  IF cycle = 0 THEN 0
  ELSE CASE rule.mode = "once"     -> cycle
         [] rule.mode = "count"    -> cycle * AtLeast(1, rule.n)
         [] rule.mode = "duration" -> AtLeast(0, rule.n)

\* runEndsAt
RunEndsAt(rule, cycle, started) == started + RunLength(rule, cycle)

\* Broken: finished one second early.
HasFinishedEarly(rule, cycle, started, now) == now + 1 >= RunEndsAt(rule, cycle, started)

\* hasFinished: the very instant of the end already counts as finished.
HasFinished(rule, cycle, started, now) == now >= RunEndsAt(rule, cycle, started)
=============================================================================
