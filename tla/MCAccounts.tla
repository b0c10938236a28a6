----------------------------- MODULE MCAccounts -----------------------------
(* Instances of Accounts for the model checker: an administrator of the seed, *)
(* signed in on two devices, and an account that waits for its code.          *)
EXTENDS Accounts, TLC

CONSTANTS ada, bob, e1, e2, s1, s2

TwoAccounts ==
  ada :> [email |-> e1, verified |-> TRUE, password |-> 0, suspended |-> FALSE, role |-> "admin"]
  @@ bob :> [email |-> e2, verified |-> FALSE, password |-> 0, suspended |-> FALSE, role |-> "user"]

TwoDevices ==
  [s \in {s1, s2} |-> [user |-> ada, expires |-> SessionTtl, proof |-> 0, excused |-> FALSE]]

Symmetry == Permutations(Requests) \cup Permutations(Sessions \ {s1, s2})
=============================================================================
