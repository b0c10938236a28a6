---------------------------- MODULE RunLifecycle ----------------------------
(***************************************************************************)
(* What the sequence routes promise about runs, with no requests, no       *)
(* statements and no clock: a run is one press of Activate.  It belongs to *)
(* one sequence, runs once, ends once, and is forgotten with its sequence; *)
(* a sequence has one run going at a time.  SequenceRuns implements this.  *)
(***************************************************************************)
CONSTANTS Runs, Sequences, None

VARIABLES
  life,   \* run -> "unborn", "running", "ended" or "forgotten"
  on      \* run -> the sequence it is a run of, None unless it is running or ended

lifeVars == <<life, on>>

Init ==
  /\ life = [r \in Runs |-> "unborn"]
  /\ on = [r \in Runs |-> None]

Start(r, s) ==
  /\ life[r] = "unborn"
  /\ \A q \in Runs : life[q] = "running" => on[q] # s
  /\ life' = [life EXCEPT ![r] = "running"]
  /\ on' = [on EXCEPT ![r] = s]

End(r) ==
  /\ life[r] = "running"
  /\ life' = [life EXCEPT ![r] = "ended"]
  /\ UNCHANGED on

Forget(s) ==
  /\ life' = [r \in Runs |-> IF on[r] = s THEN "forgotten" ELSE life[r]]
  /\ on' = [r \in Runs |-> IF on[r] = s THEN None ELSE on[r]]

Next ==
  \/ \E r \in Runs, s \in Sequences : Start(r, s)
  \/ \E r \in Runs : End(r)
  \/ \E s \in Sequences : Forget(s)

Spec == Init /\ [][Next]_lifeVars
=============================================================================
