-------------------------- MODULE AccountLifecycle --------------------------
(***************************************************************************)
(* What the account routes promise of every account: an address is         *)
(* confirmed before anybody is signed in to it, confirmation is not taken  *)
(* back, and an account that has gone is gone for good, with everybody     *)
(* signed out of it.                                                       *)
(***************************************************************************)
CONSTANT Users

VARIABLES
  phase,      \* user -> how far the account has come
  signedIn    \* the accounts somebody is signed in to

life == <<phase, signedIn>>

LifeInit ==
  /\ phase \in [Users -> {"none", "registered", "confirmed"}]
  /\ signedIn \subseteq {u \in Users : phase[u] = "confirmed"}

Grow(u, from, to) ==
  /\ phase[u] = from
  /\ phase' = [phase EXCEPT ![u] = to]

Register(u) == Grow(u, "none", "registered") /\ UNCHANGED signedIn
Confirm(u) == Grow(u, "registered", "confirmed") /\ UNCHANGED signedIn
Remove(u) ==
  /\ phase[u] # "none"
  /\ Grow(u, phase[u], "gone")
  /\ signedIn' = signedIn \ {u}

SignIn(u) == phase[u] = "confirmed" /\ signedIn' = signedIn \cup {u} /\ UNCHANGED phase

\* Somebody signs out, or a password change or a suspension signs them out.
SignOut(u) == signedIn' = signedIn \ {u} /\ UNCHANGED phase

LifeNext ==
  \E u \in Users : Register(u) \/ Confirm(u) \/ Remove(u) \/ SignIn(u) \/ SignOut(u)

LifeSpec == LifeInit /\ [][LifeNext]_life
=============================================================================
