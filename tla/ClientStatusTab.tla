-------------------------- MODULE ClientStatusTab --------------------------
(***************************************************************************)
(* The status tab of a client's page.  Unlike the page of a user it does   *)
(* not keep what its dialog was opened for: the button that confirms       *)
(* applies the opposite of the status the page shows by then.              *)
(***************************************************************************)
CONSTANTS Page

VARIABLES
  clientStatus,   \* on the server
  shown,          \* as each page fetched it last
  confirming      \* the pages whose dialog is open

tabVars == <<clientStatus, shown, confirming>>

-----------------------------------------------------------------------------
Status == {"active", "disabled"}

Opposite(s) == IF s = "active" THEN "disabled" ELSE "active"

TabTypeOK ==
  /\ clientStatus \in Status
  /\ shown \in [Page -> Status]
  /\ confirming \subseteq Page

TabInit ==
  /\ clientStatus \in Status
  /\ shown = [p \in Page |-> clientStatus]
  /\ confirming = {}

(* A page is fetched anew after each of its own mutations, on reconnect    *)
(* and when it is opened again.                                            *)
FetchClient(p) ==
  /\ shown' = [shown EXCEPT ![p] = clientStatus]
  /\ UNCHANGED <<clientStatus, confirming>>

(* Only disabling asks for confirmation.                                   *)
PressButton(p) ==
  /\ p \notin confirming
  /\ IF shown[p] = "active"
     THEN confirming' = confirming \cup {p} /\ UNCHANGED clientStatus
     ELSE clientStatus' = Opposite(shown[p]) /\ UNCHANGED confirming
  /\ UNCHANGED shown

ConfirmDisable(p) ==
  /\ p \in confirming
  /\ clientStatus' = Opposite(shown[p])
  /\ confirming' = confirming \ {p}
  /\ UNCHANGED shown

CloseConfirm(p) ==
  /\ p \in confirming
  /\ confirming' = confirming \ {p}
  /\ UNCHANGED <<clientStatus, shown>>

TabNext ==
  \E p \in Page :
    FetchClient(p) \/ PressButton(p) \/ ConfirmDisable(p) \/ CloseConfirm(p)

TabSpec == TabInit /\ [][TabNext]_tabVars

-----------------------------------------------------------------------------
(* The dialog says "Disable this client? OIDC flows for this client stop   *)
(* immediately."  Confirming it would then never switch a client on.       *)
ConfirmNeverEnables ==
  [][\A p \in Page :
       p \in confirming /\ p \notin confirming' /\ clientStatus' # clientStatus
         => clientStatus' = "disabled"]_tabVars
=============================================================================
