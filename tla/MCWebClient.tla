----------------------------- MODULE MCWebClient ----------------------------
(***************************************************************************)
(* WebClient for TLC.  A session performs the operations that meet in it,  *)
(* and the sessions together perform them all.                             *)
(***************************************************************************)
EXTENDS WebClient

MCSessions == {
  [ops |-> {"toggle", "bulk", "delete", "lose"}, left |-> 6],
  [ops |-> {"create", "discard"}, left |-> 5],
  [ops |-> {"create", "lose"}, left |-> 5],
  [ops |-> {"create", "reload"}, left |-> 5],
  [ops |-> {"create", "edit"}, left |-> 6],
  [ops |-> {"edit", "toggle", "bulk"}, left |-> 6]}

CONSTANTS a1, x
OneAlarm == [a \in Alarms |-> IF a = a1 THEN [text |-> x, enabled |-> TRUE] ELSE None]
=============================================================================
