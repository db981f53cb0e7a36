----------------------------- MODULE MCEndpoint -----------------------------
(* Small instances, side by side, of what callers who are not signed in     *)
(* reach and that shares no state: signing keys and rate limits, the        *)
(* wrapped refresh, the links of invites and password resets.  A behaviour  *)
(* exercises one of them, the others keep their initial state.             *)
EXTENDS SigningKeys, RateLimits, RefreshEndpoints, OneTimeLinks, TLC

VARIABLE part

vars == <<keyVars, limitVars, refreshVars, linkVars, part>>

Init ==
  /\ part \in {"keys", "limits", "refresh", "invites", "resets"}
  /\ KeyInit /\ LimitInit /\ RefreshInit /\ LinkInit
  /\ part # "refresh" => upstreamOf[0] = Null

Keys ==
  /\ part = "keys" /\ KeyNext
  /\ UNCHANGED <<limitVars, refreshVars, linkVars, part>>

Limits ==
  /\ part = "limits" /\ LimitNext
  /\ UNCHANGED <<keyVars, refreshVars, linkVars, part>>

Refreshes ==
  /\ part = "refresh" /\ RefreshNext
  /\ UNCHANGED <<keyVars, limitVars, linkVars, part>>

(* Invites and resets are taken apart: they revoke their own kind only, and *)
(* what an invite does to a user an administrator can do as well.  As many  *)
(* invites as requests overlap, and one reset more.                        *)
Links ==
  /\ part \in {"invites", "resets"} /\ LinkNext
  /\ \A p \in Request :
       linkJob'[p].op = "send" =>
         link'[linkJob'[p].link].kind = IF part = "invites" THEN "invite"
                                                            ELSE "reset"
  /\ part = "invites" => \A p \in Request : linkJob'[p].link \in Key \cup {Null}
  /\ UNCHANGED <<keyVars, limitVars, refreshVars, part>>

Next == Keys \/ Limits \/ Refreshes \/ Links

Spec == Init /\ [][Next]_vars

(* Identities are interchangeable; accounts, keys and two of the links are  *)
(* the same ones, as no part uses two of these.                            *)
Symmetry == Permutations(Request) \cup Permutations(Key)
=============================================================================
