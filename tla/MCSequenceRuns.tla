--------------------------- MODULE MCSequenceRuns ---------------------------
(* Instances of SequenceRuns for the model checker. *)
EXTENDS SequenceRuns, TLC

OnceRule == {[mode |-> "once", n |-> 0]}
TwoRules == {[mode |-> "once", n |-> 0], [mode |-> "duration", n |-> 1]}
Symmetry == UNION {Permutations(set) : set \in {Requests, Runs, Sequences, Names}}
=============================================================================
