----------------------------- MODULE Requests -----------------------------
(* What the modules on the single parts of the server share: the slots in  *)
(* which requests run concurrently, and the null of a column or variable.  *)
EXTENDS Naturals, FiniteSets

CONSTANTS
  Request,   \* slots in which requests run concurrently
  Null

ASSUME RequestAssumption ==
  IsFiniteSet(Request) /\ Request # {} /\ Null \notin Request
=============================================================================
