-------------------------- MODULE RevocationWindow --------------------------
(***************************************************************************)
(* RefreshTokens with two history variables that say what the revocations  *)
(* of refresh-token.service.ts and admin-user.service.ts cannot see: the   *)
(* tokens inserted after the search of a revocation (find() of the family, *)
(* the snapshot of a bulk UPDATE) and before its commit.  No step depends  *)
(* on them.  The properties hold whatever requests overlap, and name that  *)
(* window as the only way past a revocation.                               *)
(***************************************************************************)
EXTENDS RefreshTokens

VARIABLES
  late,      \* what was inserted since the search of each revocation
  overtaken  \* what the revocations of its family committed without seeing

windowVars == <<vars, late, overtaken>>

Searched(p) == job[p].phase \in {"reload", "update"}

(* The family of the token that p revokes.                                 *)
Target(p) == Family(row[job[p].token].family)

WindowInit ==
  /\ Init
  /\ late = [p \in Request |-> {}]
  /\ overtaken = {}

Record ==
  /\ late' = [p \in Request |->
                IF Searched(p) /\ Searched(p)'
                  THEN late[p] \cup (Stored' \ Stored)
                  ELSE {}]
  /\ overtaken' = overtaken \cup
       {t \in Token : \E p \in Request :
          RevokesFamily(p) /\ t \in Target(p) \cap late[p]}

WindowNext == Next /\ Record

WindowSpec == WindowInit /\ [][WindowNext]_windowVars

-----------------------------------------------------------------------------
(* "Refresh token replay revokes the family": when the transaction of a    *)
(* detected replay, or of a revocation, commits, whatever overlaps it, no  *)
(* token of the family can still be exchanged but one that was inserted    *)
(* after find(): a stale save, another revocation or a lock it waited for  *)
(* lets no other escape.                                                   *)
FamilyRevokedButLate ==
  [][\A p \in Request : RevokesFamily(p) =>
       \A t \in Target(p) \ late[p] : row'[t].revokedAt # Null]_windowVars

(* A token that was exchanged and is presented again starts the revocation *)
(* of its family.  It is turned away as merely revoked (401) only where a  *)
(* revocation of its family has overtaken the insert of its successor and  *)
(* taken back its link.                                                    *)
ReplayMissedOnlyIfOvertaken ==
  [][\A p \in Request : RejectUnusable(p) =>
       \A s \in Stored : row[s].parent = job[p].token =>
         s \in overtaken]_windowVars

(* "User deactivation immediately revokes existing sessions and refresh    *)
(* tokens", and so does a password reset: when the UPDATE commits, no      *)
(* token of the user can still be exchanged but one that was inserted      *)
(* after its snapshot, though it waits for rows that others exchange.      *)
UserRevokedButLate ==
  [][\A p \in Request :
       job[p].op \in {"setUserStatus", "resetPassword"}
         /\ CommitRevocation(p) =>
         \A t \in Stored \ late[p] :
           row[t].user = job[p].user => row'[t].revokedAt # Null]_windowVars
=============================================================================
