----------------------------- MODULE MCConsole ------------------------------
(* Small instances, side by side, of the administrators' console, of what   *)
(* its pages do between two requests, and of the connections the server     *)
(* needs for a request.  They share no state: a behaviour exercises one of  *)
(* them.  The forms of a page and its dialogs are taken apart.              *)
EXTENDS Console, ConnectionPool, Pagination, ConsoleForms, TLC

VARIABLE part

vars == <<consoleVars, poolVars, pageVars, formsVars, part>>

Init ==
  /\ part \in {"reauth", "pool", "pages", "form", "status"}
  /\ ConsoleInit /\ PoolInit /\ PageInit /\ FormsInit
  /\ part # "reauth" => authAt = Nothing
  /\ part # "pages" => newest = 0
  /\ part # "form" => fields = [f \in Field |-> CHOOSE v \in Value : TRUE]

Reauth ==
  /\ part = "reauth" /\ ConsoleNext
  /\ UNCHANGED <<poolVars, pageVars, formsVars, part>>

Pool ==
  /\ part = "pool" /\ PoolNext
  /\ UNCHANGED <<consoleVars, pageVars, formsVars, part>>

Pages ==
  /\ part = "pages" /\ PageNext
  /\ UNCHANGED <<consoleVars, poolVars, formsVars, part>>

Forms ==
  /\ part = "form" /\ FormsNext
  /\ UNCHANGED <<status, dialog, moved>>
  /\ UNCHANGED <<consoleVars, poolVars, pageVars, part>>

Dialogs ==
  /\ part = "status" /\ FormsNext
  /\ UNCHANGED <<fields, form, edited>>
  /\ UNCHANGED <<consoleVars, poolVars, pageVars, part>>

Next == Reauth \/ Pool \/ Pages \/ Forms \/ Dialogs

(* ConsoleFairness and PoolFairness, of the part that runs.                 *)
Fairness ==
  /\ \A t \in Tab :
       /\ \A m \in Click : WF_consoleVars(part = "reauth" /\ Answer(t, m))
       /\ WF_consoleVars(part = "reauth" /\ (SignInAgain(t) \/ CancelReauth(t)))
  /\ \A p \in Request :
       /\ WF_poolVars(part = "pool" /\ Acquire(p))
       /\ WF_poolVars(part = "pool" /\ Release(p))
  /\ WF_poolVars(part = "pool" /\ Serve)

Spec == Init /\ [][Next]_vars /\ Fairness
=============================================================================
