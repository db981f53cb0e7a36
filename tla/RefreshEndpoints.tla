-------------------------- MODULE RefreshEndpoints --------------------------
(***************************************************************************)
(* A refresh as its client sees it, at both token endpoints.  The native   *)
(* one commits the rotation and only then looks for a signing key and      *)
(* answers.  The one that wraps Better Auth resolves the presented token,  *)
(* spends the upstream token behind it and then rotates: three steps, no   *)
(* lock over them.  A step may fail and an answer may get lost, and the    *)
(* client tries again with the token it has.                               *)
(*                                                                         *)
(* One family of tokens: the n-th is the successor of the one before.  The *)
(* rows behind them, their locks and expiry are in RefreshTokens.          *)
(***************************************************************************)
EXTENDS Requests

CONSTANT MaxRotations   \* bound on the length of the family

ASSUME RotationAssumption == MaxRotations \in Nat /\ Null \notin Nat

VARIABLES
  newest,     \* the number of the newest wrapper token
  upstreamOf, \* the upstream token each of them stands for, if any
  revoked,    \* whether the family is revoked
  spent,      \* the upstream tokens Better Auth has exchanged
  fresh,      \* the next upstream token Better Auth will issue
  holds,      \* the token the client presents
  gone,       \* history: rotations, upstream or here, that got no answer
  refresh     \* what each slot is doing

refreshVars == <<newest, upstreamOf, revoked, spent, fresh, holds, gone,
                 refresh>>

-----------------------------------------------------------------------------
Wrapper  == 0 .. MaxRotations
Upstream == Nat

Refresh == [phase  : {"idle", "upstream", "rotate", "key", "answer"},
            token  : Wrapper,
            behind : Upstream,
            next   : Wrapper]

NoRefresh == [phase |-> "idle", token |-> 0, behind |-> 0, next |-> 0]

RefreshTypeOK ==
  /\ newest \in Wrapper
  /\ upstreamOf \in [Wrapper -> Upstream \cup {Null}]
  /\ revoked \in BOOLEAN
  /\ spent \subseteq Upstream
  /\ fresh \in Nat
  /\ holds \in Wrapper
  /\ gone \in BOOLEAN
  /\ refresh \in [Request -> Refresh]

RefreshInit ==
  /\ newest = 0
  /\ \E u \in {0, Null} : upstreamOf = [n \in Wrapper |-> u]
  /\ revoked = FALSE
  /\ spent = {}
  /\ fresh = 1
  /\ holds = 0
  /\ gone = FALSE
  /\ refresh = [p \in Request |-> NoRefresh]

RefreshGoto(p, r) == refresh' = [refresh EXCEPT ![p] = r]

-----------------------------------------------------------------------------
(* Mutant: a token that has a successor can be exchanged once more.        *)
RotateOlder(p, n, up, next) ==
  IF revoked
  THEN RefreshGoto(p, NoRefresh) /\ UNCHANGED <<newest, upstreamOf, revoked>>
  ELSE /\ newest < MaxRotations
       /\ newest' = newest + 1
       /\ upstreamOf' = [upstreamOf EXCEPT ![newest + 1] = up]
       /\ RefreshGoto(p, [NoRefresh EXCEPT !.phase = next, !.token = n,
                                           !.next = newest + 1])
       /\ UNCHANGED revoked

(* rotateToken and rotateTokenForClient, each one transaction: the newest  *)
(* token gets a successor, an older one revokes the family.                *)
Rotate(p, n, up, next) ==
  IF revoked \/ n # newest
  THEN /\ revoked' = (revoked \/ n # newest)
       /\ RefreshGoto(p, NoRefresh)
       /\ UNCHANGED <<newest, upstreamOf>>
  ELSE /\ newest < MaxRotations
       /\ newest' = newest + 1
       /\ upstreamOf' = [upstreamOf EXCEPT ![newest + 1] = up]
       /\ RefreshGoto(p, [NoRefresh EXCEPT !.phase = next, !.token = n,
                                           !.next = newest + 1])
       /\ UNCHANGED revoked

RefreshNative(p) ==
  /\ refresh[p].phase = "idle"
  /\ Rotate(p, holds, upstreamOf[holds], "key")
  /\ UNCHANGED <<spent, fresh, holds, gone>>

(* getOrCreateActiveSigningKey, after the commit.                          *)
LookUpKey(p) ==
  /\ refresh[p].phase = "key"
  /\ RefreshGoto(p, [refresh[p] EXCEPT !.phase = "answer"])
  /\ UNCHANGED <<newest, upstreamOf, revoked, spent, fresh, holds, gone>>

ResolveWrapped(p) ==
  /\ refresh[p].phase = "idle"
  /\ IF revoked \/ holds # newest
     THEN revoked' = (revoked \/ holds # newest) /\ UNCHANGED refresh
     ELSE /\ upstreamOf[holds] # Null
          /\ RefreshGoto(p, [NoRefresh EXCEPT !.phase = "upstream",
                               !.token = holds, !.behind = upstreamOf[holds]])
          /\ UNCHANGED revoked
  /\ UNCHANGED <<newest, upstreamOf, spent, fresh, holds, gone>>

(* Better Auth exchanges a token once; a refusal, or an answer without a   *)
(* new token, is passed on as it is.                                       *)
DispatchUpstream(p) ==
  /\ refresh[p].phase = "upstream"
  /\ \/ /\ refresh[p].behind \notin spent
        /\ spent' = spent \cup {refresh[p].behind}
        /\ \/ /\ fresh' = fresh + 1
              /\ RefreshGoto(p, [refresh[p] EXCEPT !.phase = "rotate",
                                                   !.behind = fresh])
              /\ UNCHANGED gone
           \/ /\ gone' = TRUE
              /\ RefreshGoto(p, NoRefresh)
              /\ UNCHANGED fresh
     \/ RefreshGoto(p, NoRefresh) /\ UNCHANGED <<spent, fresh, gone>>
  /\ UNCHANGED <<newest, upstreamOf, revoked, holds>>

(* Mutant: the successor keeps the upstream token of its predecessor.      *)
RotateKeepingUpstream(p) ==
  /\ refresh[p].phase = "rotate"
  /\ Rotate(p, refresh[p].token, upstreamOf[refresh[p].token], "answer")
  /\ gone' = (gone \/ newest' = newest)
  /\ UNCHANGED <<spent, fresh, holds>>

RotateWrapped(p) ==
  /\ refresh[p].phase = "rotate"
  /\ Rotate(p, refresh[p].token, refresh[p].behind, "answer")
  /\ gone' = (gone \/ newest' = newest)
  /\ UNCHANGED <<spent, fresh, holds>>

(* The client keeps the token of the answer that arrives.                  *)
Deliver(p) ==
  /\ refresh[p].phase = "answer"
  /\ holds' = refresh[p].next
  /\ RefreshGoto(p, NoRefresh)
  /\ UNCHANGED <<newest, upstreamOf, revoked, spent, fresh, gone>>

(* A query or a call fails, the process dies, or the answer is lost.       *)
LoseRefresh(p) ==
  /\ refresh[p].phase # "idle"
  /\ gone' = (gone \/ refresh[p].phase \in {"rotate", "key", "answer"})
  /\ RefreshGoto(p, NoRefresh)
  /\ UNCHANGED <<newest, upstreamOf, revoked, spent, fresh, holds>>

RefreshNext == \E p \in Request :
  \/ RefreshNative(p) \/ LookUpKey(p) \/ ResolveWrapped(p)
  \/ DispatchUpstream(p) \/ RotateWrapped(p) \/ Deliver(p) \/ LoseRefresh(p)

RefreshSpec == RefreshInit /\ [][RefreshNext]_refreshVars

-----------------------------------------------------------------------------
(* The client falls behind the newest token of a family that is not revoked*)
(* only while the answer is on its way, or after one was lost.  As long as *)
(* nothing is lost, overlapping refreshes of one token leave the client    *)
(* with the newest one or with a family that is revoked, never with a      *)
(* token that will be taken for a replay later.                            *)
BehindOnlyByLoss ==
  revoked \/ gone \/ holds = newest \/
  \E p \in Request :
    refresh[p].phase \in {"key", "answer"} /\ refresh[p].next = newest

(* The newest wrapper token stands for an upstream token that can still be *)
(* spent, or a request that has spent it has yet to rotate, which renews it*)
(* or, where another request was faster, revokes the family; or one failed *)
(* between the two, and the client must log in again.                      *)
UpstreamUsable ==
  revoked \/ gone \/ upstreamOf[newest] \notin spent \/
  \E p \in Request :
    /\ refresh[p].phase = "rotate"
    /\ upstreamOf[refresh[p].token] = upstreamOf[newest]

(* Of the requests: the client has received the token that is exchanged and*)
(* not the one to be answered; the upstream token to be stored is unspent. *)
RefreshesOK ==
  \A p \in Request : LET r == refresh[p] IN
    /\ r.phase \in {"upstream", "rotate"} => r.token <= holds
    /\ r.phase = "upstream" => r.behind = upstreamOf[r.token]
    /\ r.phase = "rotate" => /\ r.behind \notin spent /\ r.behind < fresh
                             /\ \A n \in Wrapper : upstreamOf[n] # r.behind
    /\ r.phase \in {"key", "answer"} => holds < r.next /\ r.next <= newest

(* One answer at a time is on its way, and no two store one upstream token.*)
RefreshesApart ==
  \A p, q \in Request : p # q =>
    /\ ~ {refresh[p].phase, refresh[q].phase} \subseteq {"key", "answer"}
    /\ refresh[p].phase = "rotate" /\ refresh[q].phase = "rotate" =>
         refresh[p].behind # refresh[q].behind

(* The strengthened invariant.                                             *)
RefreshIndInv ==
  /\ RefreshTypeOK
  /\ holds <= newest
  /\ \A u \in spent : u < fresh
  /\ \A n \in Wrapper : upstreamOf[n] # Null => upstreamOf[n] < fresh
  /\ RefreshesOK
  /\ RefreshesApart
  /\ BehindOnlyByLoss
  /\ UpstreamUsable
=============================================================================
