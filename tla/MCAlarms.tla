------------------------------ MODULE MCAlarms ------------------------------
(* Instances of Alarms for the model checker: allowances of one or two instead *)
(* of 2, 5, 10 and 50, so that a bucket fills up.                              *)
EXTENDS Alarms, TLC

SmallLimits ==
  [basic    |-> [folders |-> 1, alarms |-> 1, repeats |-> FALSE, every |-> 0],
   regular  |-> [folders |-> 1, alarms |-> 2, repeats |-> TRUE, every |-> 2],
   advanced |-> [folders |-> None, alarms |-> None, repeats |-> TRUE, every |-> 1]]

\* One that fires at once, and one that fires later and repeats within its day.
SomeSchedules == {[fires |-> {0}, every |-> 0], [fires |-> {1}, every |-> 2]}

Symmetry == UNION {Permutations(set) : set \in {Users, Alarms, Requests, Names}}
=============================================================================
