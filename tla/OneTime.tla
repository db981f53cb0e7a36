------------------------------ MODULE OneTime ------------------------------
(***************************************************************************)
(* What a single-use secret promises (an authorization code, a link sent   *)
(* by mail): it is offered once, and from then on it is open until it is   *)
(* used, once, or withdrawn.                                               *)
(***************************************************************************)
EXTENDS Naturals

CONSTANT Item

VARIABLES
  offered,  \* the items that have been given out
  open,     \* those that can still be used
  uses      \* how often each has been used

oneTimeVars == <<offered, open, uses>>

OneTimeInit ==
  /\ offered = {}
  /\ open = {}
  /\ uses = [i \in Item |-> 0]

Offer(i) ==
  /\ i \notin offered
  /\ offered' = offered \cup {i}
  /\ open' = open \cup {i}
  /\ UNCHANGED uses

Use(i) ==
  /\ i \in open
  /\ open' = open \ {i}
  /\ uses' = [uses EXCEPT ![i] = @ + 1]
  /\ UNCHANGED offered

Withdraw(S) ==
  /\ S \subseteq open
  /\ open' = open \ S
  /\ UNCHANGED <<offered, uses>>

OneTimeNext ==
  \/ \E i \in Item : Offer(i) \/ Use(i)
  \/ \E S \in SUBSET open : Withdraw(S)

OneTimeSpec == OneTimeInit /\ [][OneTimeNext]_oneTimeVars
=============================================================================
