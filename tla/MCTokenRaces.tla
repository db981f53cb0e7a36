---------------------------- MODULE MCTokenRaces ----------------------------
(* Two overlapping requests among the operations on tokens, in two          *)
(* scenarios: with the ones of clients and the clean-up while time moves,   *)
(* and with the ones of administrators at one point in time.                *)
EXTENDS MCRefreshTokens

VARIABLE scenario

Scenario ==
  [rotation |-> {"issueToken", "rotateTokenForClient", "resolveRefreshGrant",
                 "revokePresentedToken", "cleanupExpiredState"},
   bulk     |-> {"issueToken", "rotateToken", "revokePresentedToken",
                 "setUserStatus", "resetPassword"}]

RacesInit == Init /\ scenario \in DOMAIN Scenario

RacesNext ==
  /\ Next
  /\ \A p \in Request : job'[p].op \in Scenario[scenario] \cup {Null}
  /\ scenario = "rotation" => userActive' = userActive
  /\ scenario = "bulk" => clock' = clock
  /\ UNCHANGED scenario

RacesSpec == RacesInit /\ [][RacesNext]_<<vars, scenario>>

(* No step of a request leaves its scenario, so fairness asks for no step   *)
(* that RacesNext excludes.                                                *)
RacesFairSpec == RacesSpec /\ Fairness
=============================================================================
