--------------------------- MODULE MCNotifications ---------------------------
(* Instances of Notifications for the model checker. *)
EXTENDS Notifications

CONSTANTS a1, a2

\* One alarm that repeats within the day, and others that are only switched.
TwoInstants == [a \in Alarms |-> IF a = a1 THEN {4, 5} ELSE {}]
NoInstants == [a \in Alarms |-> {}]

\* Two steps and a closing line, over in three.
ShortChain == [rule |-> [mode |-> "once", n |-> 0], closing |-> TRUE,
               steps |-> <<[position |-> 1, duration |-> 1], [position |-> 2, duration |-> 2]>>]
=============================================================================
