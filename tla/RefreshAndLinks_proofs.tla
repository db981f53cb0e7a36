----------------------- MODULE RefreshAndLinks_proofs -----------------------
(***************************************************************************)
(* Proofs about the wrapped refresh and the links sent by mail, for any    *)
(* finite number of requests at a time, families of any length, and any    *)
(* numbers of links and users.                                             *)
(***************************************************************************)
EXTENDS RefreshEndpoints, OneTimeLinks, FiniteSetTheorems, TLAPS

USE RequestAssumption, RotationAssumption

-----------------------------------------------------------------------------
(* The invariant in parts.                                                 *)

Pending(r) == r.phase \in {"key", "answer"}

(* Of one request that is in state r.                                      *)
JobGood(r) ==
  /\ r \in Refresh
  /\ r.phase \in {"upstream", "rotate"} => r.token <= holds
  /\ r.phase = "upstream" => r.behind = upstreamOf[r.token]
  /\ r.phase = "rotate" => /\ r.behind \notin spent /\ r.behind < fresh
                           /\ \A n \in Wrapper : upstreamOf[n] # r.behind
  /\ Pending(r) => holds < r.next /\ r.next <= newest

(* Of two.                                                                 *)
Apart(r, s) ==
  /\ ~ (Pending(r) /\ Pending(s))
  /\ r.phase = "rotate" /\ s.phase = "rotate" => r.behind # s.behind

(* Of the family and of what Better Auth keeps.                            *)
FamilyGood ==
  /\ newest \in Wrapper /\ holds \in Wrapper /\ holds <= newest
  /\ upstreamOf \in [Wrapper -> Upstream \cup {Null}]
  /\ revoked \in BOOLEAN /\ gone \in BOOLEAN
  /\ spent \subseteq Upstream /\ fresh \in Nat
  /\ \A u \in spent : u < fresh
  /\ \A n \in Wrapper : upstreamOf[n] # Null => upstreamOf[n] < fresh

JobsGood ==
  /\ refresh \in [Request -> Refresh]
  /\ \A p \in Request : JobGood(refresh[p])
  /\ \A p, q \in Request : p # q => Apart(refresh[p], refresh[q])

(* The invariant is the family, the requests and the two promises.         *)
LEMMA ByParts ==
  RefreshIndInv <=> /\ FamilyGood /\ JobsGood
                    /\ BehindOnlyByLoss /\ UpstreamUsable
<1>1. RefreshIndInv => /\ FamilyGood /\ JobsGood
                       /\ BehindOnlyByLoss /\ UpstreamUsable
  BY DEF RefreshIndInv, RefreshTypeOK, RefreshesOK, RefreshesApart,
         FamilyGood, JobsGood, JobGood, Apart, Pending
<1>2. FamilyGood /\ JobsGood /\ BehindOnlyByLoss /\ UpstreamUsable =>
        RefreshIndInv
  BY DEF RefreshIndInv, RefreshTypeOK, RefreshesOK, RefreshesApart,
         FamilyGood, JobsGood, JobGood, Apart, Pending
<1> QED
  BY <1>1, <1>2

(* The same of the next state.                                             *)
LEMMA ByPartsNext ==
  ASSUME FamilyGood', JobsGood', BehindOnlyByLoss', UpstreamUsable'
  PROVE  RefreshIndInv'
BY DEF RefreshIndInv, RefreshTypeOK, RefreshesOK, RefreshesApart,
       FamilyGood, JobsGood, JobGood, Apart, Pending

(* A slot that does nothing.                                               *)
LEMMA IdleGood ==
  /\ NoRefresh \in Refresh /\ NoRefresh.phase = "idle" /\ ~ Pending(NoRefresh)
BY DEF NoRefresh, Refresh, Pending, Wrapper, Upstream

(* What a step that puts r in the slot of p does to the slots.             *)
LEMMA Slots ==
  ASSUME JobsGood, NEW p \in Request, NEW r \in Refresh, RefreshGoto(p, r)
  PROVE  /\ refresh' \in [Request -> Refresh]
         /\ refresh'[p] = r
         /\ \A q \in Request \ {p} : refresh'[q] = refresh[q]
BY DEF JobsGood, RefreshGoto

(* It is enough to look at p and each of the others.                       *)
LEMMA JobsNext ==
  ASSUME JobsGood, NEW p \in Request, NEW r \in Refresh, RefreshGoto(p, r),
         \A q \in Request : JobGood(refresh[q])',
         \A q \in Request \ {p} : Apart(r, refresh[q])
  PROVE  JobsGood'
<1>1. /\ refresh' \in [Request -> Refresh] /\ refresh'[p] = r
      /\ \A q \in Request \ {p} : refresh'[q] = refresh[q]
  BY Slots
<1>2. ASSUME NEW q \in Request, NEW s \in Request, q # s
      PROVE  Apart(refresh'[q], refresh'[s])
  BY <1>1, <1>2 DEF JobsGood, Apart
<1> QED
  BY <1>1, <1>2 DEF JobsGood, Apart, Pending

-----------------------------------------------------------------------------
(* Rotations.                                                              *)

(* A token is exchanged: it was the newest, so nothing is on its way, and   *)
(* its successor stands for upstream token up.                             *)
LEMMA Rotated ==
  ASSUME RefreshIndInv, NEW p \in Request, NEW n \in Wrapper,
         NEW up \in Upstream \cup {Null}, NEW next \in {"key", "answer"},
         ~ (revoked \/ n # newest), Rotate(p, n, up, next), n <= holds,
         UNCHANGED <<spent, fresh, holds>>, gone' \in BOOLEAN, gone => gone',
         \/ up = upstreamOf[n] /\ refresh[p].phase = "idle"
         \/ up = refresh[p].behind /\ refresh[p].phase = "rotate"
  PROVE  RefreshIndInv'
<1> DEFINE r == [NoRefresh EXCEPT !.phase = next, !.token = n,
                                  !.next = newest + 1]
<1>1. FamilyGood /\ JobsGood /\ BehindOnlyByLoss /\ UpstreamUsable
  BY ByParts
<1>2. /\ newest < MaxRotations /\ newest' = newest + 1
      /\ upstreamOf' = [upstreamOf EXCEPT ![newest + 1] = up]
      /\ RefreshGoto(p, r) /\ revoked' = revoked
  BY DEF Rotate
<1>3. n = newest /\ holds = newest /\ newest + 1 \in Wrapper
  BY <1>1, <1>2 DEF FamilyGood, Wrapper
<1>4. r \in Refresh /\ r.phase = next /\ r.next = newest + 1
  BY <1>3, IdleGood DEF Refresh, NoRefresh
<1> HIDE DEF r
<1>5. /\ refresh' \in [Request -> Refresh] /\ refresh'[p] = r
      /\ \A q \in Request \ {p} : refresh'[q] = refresh[q]
  BY <1>1, <1>2, <1>4, Slots
<1>6. /\ upstreamOf'[newest + 1] = up
      /\ \A m \in Wrapper \ {newest + 1} : upstreamOf'[m] = upstreamOf[m]
  BY <1>1, <1>2, <1>3 DEF FamilyGood
<1>7. up # Null => up < fresh
  BY <1>1 DEF FamilyGood, JobsGood, JobGood
<1>8. FamilyGood'
  <2>1. upstreamOf' \in [Wrapper -> Upstream \cup {Null}]
    BY <1>1, <1>2 DEF FamilyGood
  <2>2. \A m \in Wrapper : upstreamOf'[m] # Null => upstreamOf'[m] < fresh
    BY <1>1, <1>6, <1>7 DEF FamilyGood
  <2>3. newest' \in Wrapper /\ holds \in Wrapper /\ holds <= newest'
    BY <1>1, <1>2, <1>3 DEF FamilyGood, Wrapper
  <2> QED
    BY <1>1, <1>2, <2>1, <2>2, <2>3 DEF FamilyGood
<1>9. \A q \in Request \ {p} : ~ Pending(refresh[q])
  BY <1>1, <1>3 DEF JobsGood, JobGood, Refresh, Wrapper
<1>10. ASSUME NEW q \in Request \ {p}, refresh[q].phase = "rotate"
       PROVE  up # refresh[q].behind
  BY <1>1, <1>10 DEF JobsGood, JobGood, Apart
<1>11. ASSUME NEW q \in Request PROVE JobGood(refresh[q])'
  <2>1. CASE q = p
    BY <1>2, <1>3, <1>4, <1>5, <2>1 DEF JobGood, Pending, Wrapper
  <2>2. CASE q # p
    <3>1. refresh'[q] = refresh[q] /\ JobGood(refresh[q]) /\ ~ Pending(refresh[q])
      BY <1>1, <1>5, <1>9, <2>2 DEF JobsGood
    <3>2. refresh[q].phase \in {"upstream", "rotate"} =>
            /\ refresh[q].token \in Wrapper \ {newest + 1}
            /\ refresh[q].token <= holds
      BY <1>3, <3>1 DEF JobGood, Refresh, Wrapper
    <3>3. refresh[q].phase = "rotate" =>
            \A m \in Wrapper : upstreamOf'[m] # refresh[q].behind
      BY <1>6, <1>10, <2>2, <3>1 DEF JobGood
    <3> QED
      BY <1>6, <3>1, <3>2, <3>3 DEF JobGood, Pending
  <2> QED
    BY <2>1, <2>2
<1>12. \A q \in Request \ {p} : Apart(r, refresh[q])
  BY <1>4, <1>9 DEF Apart
<1>13. JobsGood'
  BY <1>1, <1>2, <1>4, <1>11, <1>12, JobsNext
<1>14. BehindOnlyByLoss'
  BY <1>2, <1>4, <1>5 DEF BehindOnlyByLoss
<1>15. UpstreamUsable'
  <2>1. CASE refresh[p].phase = "rotate" /\ up = refresh[p].behind
    BY <1>1, <1>2, <1>6, <2>1 DEF UpstreamUsable, JobsGood, JobGood
  <2>2. CASE up = upstreamOf[n] /\ refresh[p].phase = "idle"
    <3>1. CASE gone \/ upstreamOf[newest] \notin spent
      BY <1>2, <1>3, <1>6, <2>2, <3>1 DEF UpstreamUsable
    <3>2. CASE \E q \in Request : /\ refresh[q].phase = "rotate"
                                  /\ upstreamOf[refresh[q].token] = upstreamOf[newest]
      <4>1. PICK q \in Request : /\ refresh[q].phase = "rotate"
                                 /\ upstreamOf[refresh[q].token] = upstreamOf[newest]
        BY <3>2
      <4>2. q # p /\ refresh[q].token \in Wrapper \ {newest + 1}
        BY <1>1, <1>3, <2>2, <4>1 DEF JobsGood, JobGood, Refresh, Wrapper
      <4> QED
        BY <1>2, <1>3, <1>5, <1>6, <2>2, <4>1, <4>2 DEF UpstreamUsable
    <3> QED
      BY <1>1, <3>1, <3>2 DEF UpstreamUsable
  <2> QED
    BY <2>1, <2>2
<1> QED
  BY <1>8, <1>13, <1>14, <1>15, ByPartsNext

(* A slot is freed, or turns to the next phase, and the family may be       *)
(* revoked.                                                                *)
LEMMA FamilyStays ==
  ASSUME RefreshIndInv, NEW p \in Request, NEW r \in Refresh, RefreshGoto(p, r),
         UNCHANGED <<newest, upstreamOf, spent, fresh, holds>>,
         gone' \in BOOLEAN, gone => gone', revoked' \in BOOLEAN,
         revoked => revoked', JobGood(r), Pending(r) => Pending(refresh[p]),
         r.phase = "rotate" => refresh[p].phase = "rotate" /\ r = refresh[p],
         \/ revoked' \/ gone'
         \/ /\ refresh[p].phase \in {"key", "answer"} =>
                 Pending(r) /\ r.next = refresh[p].next
            /\ refresh[p].phase = "rotate" => r = refresh[p]
  PROVE  RefreshIndInv'
<1>1. FamilyGood /\ JobsGood /\ BehindOnlyByLoss /\ UpstreamUsable
  BY ByParts
<1>2. /\ refresh' \in [Request -> Refresh] /\ refresh'[p] = r
      /\ \A q \in Request \ {p} : refresh'[q] = refresh[q]
  BY <1>1, Slots
<1>3. FamilyGood'
  BY <1>1 DEF FamilyGood
<1>4. ASSUME NEW q \in Request PROVE JobGood(refresh[q])'
  <2>1. JobGood(refresh'[q])
    BY <1>1, <1>2 DEF JobsGood
  <2> QED
    BY <2>1 DEF JobGood
<1>5. \A q \in Request \ {p} : Apart(r, refresh[q])
  BY <1>1 DEF JobsGood, Apart
<1>6. JobsGood'
  BY <1>1, <1>4, <1>5, JobsNext
<1>7. BehindOnlyByLoss'
  BY <1>1, <1>2 DEF BehindOnlyByLoss, Pending
<1>8. UpstreamUsable'
  BY <1>1, <1>2 DEF UpstreamUsable
<1> QED
  BY <1>3, <1>6, <1>7, <1>8, ByPartsNext

(* A slot that does nothing is good whatever the family.                   *)
LEMMA IdleJobGood == JobGood(NoRefresh)
BY IdleGood DEF JobGood

(* The family is revoked: by a replay, or before.                           *)
LEMMA Refused ==
  ASSUME RefreshIndInv, NEW p \in Request, NEW n, NEW up, NEW next,
         revoked \/ n # newest, Rotate(p, n, up, next),
         UNCHANGED <<spent, fresh, holds>>, gone' \in BOOLEAN, gone => gone'
  PROVE  RefreshIndInv'
<1>1. /\ revoked' = TRUE /\ RefreshGoto(p, NoRefresh)
      /\ UNCHANGED <<newest, upstreamOf>>
  BY ByParts DEF Rotate, FamilyGood
<1> QED
  BY <1>1, IdleGood, IdleJobGood, FamilyStays

(* The native endpoint rotates the token the client has.                   *)
LEMMA NativeKeeps ==
  ASSUME RefreshIndInv, NEW p \in Request, RefreshNative(p)
  PROVE  RefreshIndInv'
<1>1. FamilyGood
  BY ByParts
<1>2. /\ holds \in Wrapper /\ holds <= holds /\ gone \in BOOLEAN
      /\ upstreamOf[holds] \in Upstream \cup {Null}
  BY <1>1 DEF FamilyGood, Wrapper
<1> QED
  BY <1>2, Rotated, Refused DEF RefreshNative

(* The wrapper rotates the token it resolved two steps ago.                *)
LEMMA RotateWrappedKeeps ==
  ASSUME RefreshIndInv, NEW p \in Request, RotateWrapped(p)
  PROVE  RefreshIndInv'
<1>1. FamilyGood /\ JobGood(refresh[p])
  BY ByParts DEF JobsGood
<1>2. /\ refresh[p].token \in Wrapper /\ refresh[p].behind \in Upstream
      /\ refresh[p].token <= holds
  BY <1>1 DEF JobGood, Refresh, RotateWrapped
<1>3. gone' \in BOOLEAN /\ (gone => gone')
  BY <1>1 DEF FamilyGood, RotateWrapped
<1> QED
  BY <1>2, <1>3, Rotated, Refused DEF RotateWrapped

-----------------------------------------------------------------------------
(* The other steps.                                                        *)

(* The answer is still on its way.                                         *)
LEMMA LookUpKeeps ==
  ASSUME RefreshIndInv, NEW p \in Request, LookUpKey(p)
  PROVE  RefreshIndInv'
<1> DEFINE r == [refresh[p] EXCEPT !.phase = "answer"]
<1>1. FamilyGood /\ JobGood(refresh[p])
  BY ByParts DEF JobsGood
<1>2. r \in Refresh /\ r.phase = "answer" /\ r.next = refresh[p].next
  BY <1>1 DEF JobGood, Refresh
<1>3. RefreshGoto(p, r) /\ refresh[p].phase = "key"
  BY DEF LookUpKey
<1> HIDE DEF r
<1>4. JobGood(r) /\ Pending(r)
  BY <1>1, <1>2, <1>3 DEF JobGood, Pending
<1> QED
  BY <1>1, <1>2, <1>3, <1>4, FamilyStays DEF LookUpKey, Pending, FamilyGood

(* The wrapper resolves the newest token, or revokes the family.           *)
LEMMA ResolveKeeps ==
  ASSUME RefreshIndInv, NEW p \in Request, ResolveWrapped(p)
  PROVE  RefreshIndInv'
<1>1. FamilyGood /\ JobsGood /\ refresh[p].phase = "idle"
  BY ByParts DEF ResolveWrapped
<1>2. CASE revoked \/ holds # newest
  <2>1. revoked' = TRUE /\ UNCHANGED refresh
    BY <1>1, <1>2 DEF ResolveWrapped, FamilyGood
  <2> QED
    BY <1>1, <2>1, ByPartsNext DEF ResolveWrapped, FamilyGood, JobsGood, JobGood,
       BehindOnlyByLoss, UpstreamUsable
<1>3. CASE ~ (revoked \/ holds # newest)
  <2> DEFINE r == [NoRefresh EXCEPT !.phase = "upstream",
                     !.token = holds, !.behind = upstreamOf[holds]]
  <2>1. /\ upstreamOf[holds] # Null /\ RefreshGoto(p, r) /\ revoked' = revoked
        /\ UNCHANGED <<newest, upstreamOf, spent, fresh, holds, gone>>
    BY <1>3 DEF ResolveWrapped
  <2>2. /\ r \in Refresh /\ r.phase = "upstream"
        /\ r.token = holds /\ r.behind = upstreamOf[holds]
    BY <1>1, <2>1, IdleGood DEF FamilyGood, Refresh, NoRefresh
  <2> HIDE DEF r
  <2>3. JobGood(r) /\ ~ Pending(r)
    BY <1>1, <2>2 DEF JobGood, Pending, FamilyGood, Wrapper
  <2> QED
    BY <1>1, <2>1, <2>2, <2>3, FamilyStays DEF FamilyGood
<1> QED
  BY <1>2, <1>3

(* Better Auth refuses, or says nothing of a new token.                     *)
LEMMA UpstreamSpentKeeps ==
  ASSUME RefreshIndInv, NEW p \in Request, NEW r \in Refresh, NEW d \in {0, 1},
         RefreshGoto(p, r), refresh[p].phase = "upstream",
         refresh[p].behind \notin spent,
         spent' = spent \cup {refresh[p].behind},
         UNCHANGED <<newest, upstreamOf, revoked, holds>>, fresh' = fresh + d,
         \/ d = 0 /\ r = NoRefresh /\ gone' = TRUE
         \/ /\ d = 1 /\ r.phase = "rotate" /\ r.behind = fresh /\ gone' = gone
            /\ r.token = refresh[p].token
  PROVE  RefreshIndInv'
<1>1. FamilyGood /\ JobsGood /\ BehindOnlyByLoss /\ UpstreamUsable
  BY ByParts
<1>2. /\ refresh' \in [Request -> Refresh] /\ refresh'[p] = r
      /\ \A q \in Request \ {p} : refresh'[q] = refresh[q]
  BY <1>1, Slots
<1>3. JobGood(refresh[p]) /\ refresh[p].behind = upstreamOf[refresh[p].token]
  BY <1>1 DEF JobsGood, JobGood
<1>4. /\ refresh[p].token \in Wrapper /\ refresh[p].token <= holds
      /\ refresh[p].behind \in Nat /\ refresh[p].behind < fresh
  BY <1>1, <1>3 DEF JobGood, FamilyGood, Refresh, Upstream
<1>5. FamilyGood'
  <2>0. gone' \in BOOLEAN
    BY <1>1 DEF FamilyGood
  <2>1. fresh' \in Nat /\ fresh <= fresh'
    <3>1. fresh \in Nat
      BY <1>1 DEF FamilyGood
    <3> QED
      BY <3>1
  <2>2. \A u \in Nat : u < fresh => u < fresh'
    BY <1>1, <2>1 DEF FamilyGood
  <2>3. spent' \subseteq Upstream
    BY <1>1, <1>4 DEF FamilyGood, Upstream
  <2>4. \A u \in spent' : u < fresh'
    BY <1>1, <1>4, <2>2 DEF FamilyGood, Upstream
  <2>5. \A m \in Wrapper : upstreamOf[m] # Null => upstreamOf[m] < fresh'
    BY <1>1, <2>2 DEF FamilyGood, Upstream
  <2>6. /\ newest' = newest /\ holds' = holds /\ upstreamOf' = upstreamOf
        /\ revoked' = revoked
    OBVIOUS
  <2> QED
    BY <1>1, <2>0, <2>1, <2>3, <2>4, <2>5, <2>6 DEF FamilyGood
<1>6. ~ Pending(r)
  BY IdleGood DEF Pending
<1>7. ASSUME NEW q \in Request PROVE JobGood(refresh[q])'
  <2>1. CASE q = p /\ r = NoRefresh
    BY <1>2, <2>1, IdleGood DEF JobGood
  <2>2. CASE q = p /\ r.phase = "rotate" /\ r.behind = fresh /\ fresh' = fresh + 1
              /\ r.token = refresh[p].token
    <3>1. fresh \notin spent' /\ fresh < fresh'
      BY <1>1, <1>4, <2>2 DEF FamilyGood, Upstream
    <3>2. \A m \in Wrapper : upstreamOf[m] # fresh
      BY <1>1 DEF FamilyGood, Upstream
    <3> QED
      BY <1>2, <1>4, <1>6, <2>2, <3>1, <3>2 DEF JobGood, Pending
  <2>3. CASE q # p
    <3>1. refresh'[q] = refresh[q] /\ JobGood(refresh[q])
      BY <1>1, <1>2, <2>3 DEF JobsGood
    <3>2. refresh[q].phase = "rotate" =>
            refresh[q].behind \notin spent' /\ refresh[q].behind < fresh'
      BY <1>1, <1>3, <1>4, <3>1 DEF JobGood, Refresh, Upstream, FamilyGood
    <3> QED
      BY <3>1, <3>2 DEF JobGood, Pending
  <2> QED
    BY <2>1, <2>2, <2>3
<1>8. ASSUME NEW q \in Request \ {p} PROVE Apart(r, refresh[q])
  BY <1>1, <1>6, IdleGood DEF JobsGood, JobGood, Apart, FamilyGood, Refresh,
     Upstream
<1>9. JobsGood'
  BY <1>1, <1>7, <1>8, JobsNext
<1>10. BehindOnlyByLoss'
  BY <1>1, <1>2 DEF BehindOnlyByLoss
<1>11. UpstreamUsable'
  <2>1. CASE gone'
    BY <2>1 DEF UpstreamUsable
  <2>2. CASE upstreamOf[newest] = refresh[p].behind /\ r.phase = "rotate"
              /\ r.token = refresh[p].token
    BY <1>2, <1>3, <2>2 DEF UpstreamUsable
  <2>3. CASE upstreamOf[newest] # refresh[p].behind /\ gone' = gone
    BY <1>1, <1>2, <2>3 DEF UpstreamUsable
  <2> QED
    BY <2>1, <2>2, <2>3
<1> QED
  BY <1>5, <1>9, <1>10, <1>11, ByPartsNext

(* Better Auth exchanges the upstream token, or does not.                  *)
LEMMA DispatchKeeps ==
  ASSUME RefreshIndInv, NEW p \in Request, DispatchUpstream(p)
  PROVE  RefreshIndInv'
<1> DEFINE r == [refresh[p] EXCEPT !.phase = "rotate", !.behind = fresh]
<1>1. FamilyGood /\ JobGood(refresh[p]) /\ refresh[p].phase = "upstream"
  BY ByParts DEF JobsGood, DispatchUpstream
<1>2. /\ r \in Refresh /\ r.phase = "rotate" /\ r.behind = fresh
      /\ r.token = refresh[p].token
  BY <1>1 DEF JobGood, FamilyGood, Refresh, Upstream
<1>3. \/ /\ refresh[p].behind \notin spent
         /\ spent' = spent \cup {refresh[p].behind}
         /\ \/ fresh' = fresh + 1 /\ RefreshGoto(p, r) /\ gone' = gone
            \/ fresh' = fresh /\ RefreshGoto(p, NoRefresh) /\ gone' = TRUE
      \/ RefreshGoto(p, NoRefresh) /\ UNCHANGED <<spent, fresh, gone>>
  BY DEF DispatchUpstream
<1> HIDE DEF r
<1>4. CASE RefreshGoto(p, NoRefresh) /\ UNCHANGED <<spent, fresh, gone>>
  BY <1>1, <1>4, IdleGood, IdleJobGood, FamilyStays
  DEF DispatchUpstream, FamilyGood
<1>5. CASE /\ refresh[p].behind \notin spent
           /\ spent' = spent \cup {refresh[p].behind}
           /\ fresh' = fresh + 1 /\ RefreshGoto(p, r) /\ gone' = gone
  BY <1>1, <1>2, <1>5, UpstreamSpentKeeps DEF DispatchUpstream
<1>6. CASE /\ refresh[p].behind \notin spent
           /\ spent' = spent \cup {refresh[p].behind}
           /\ fresh' = fresh /\ RefreshGoto(p, NoRefresh) /\ gone' = TRUE
  <2>1. fresh' = fresh + 0
    BY <1>1, <1>6 DEF FamilyGood
  <2> QED
    BY <1>1, <1>6, <2>1, IdleGood, UpstreamSpentKeeps DEF DispatchUpstream
<1> QED
  BY <1>3, <1>4, <1>5, <1>6

(* The answer on its way is the only one, and brings the newest token.      *)
LEMMA DeliverKeeps ==
  ASSUME RefreshIndInv, NEW p \in Request, Deliver(p)
  PROVE  RefreshIndInv'
<1>1. FamilyGood /\ JobsGood /\ BehindOnlyByLoss /\ UpstreamUsable
  BY ByParts
<1>2. /\ refresh[p].phase = "answer" /\ holds' = refresh[p].next
      /\ RefreshGoto(p, NoRefresh)
      /\ UNCHANGED <<newest, upstreamOf, revoked, spent, fresh, gone>>
  BY DEF Deliver
<1>3. /\ refresh' \in [Request -> Refresh] /\ refresh'[p] = NoRefresh
      /\ \A q \in Request \ {p} : refresh'[q] = refresh[q]
  BY <1>1, <1>2, IdleGood, Slots
<1>4. /\ refresh[p].next \in Wrapper /\ holds < refresh[p].next
      /\ refresh[p].next <= newest
  BY <1>1, <1>2 DEF JobsGood, JobGood, Refresh, Pending
<1>5. FamilyGood'
  BY <1>1, <1>2, <1>4 DEF FamilyGood
<1>6. \A q \in Request \ {p} : ~ Pending(refresh[q])
  BY <1>1, <1>2 DEF JobsGood, Apart, Pending
<1>7. ASSUME NEW q \in Request PROVE JobGood(refresh[q])'
  <2>1. CASE q = p
    BY <1>3, <2>1, IdleGood DEF JobGood
  <2>2. CASE q # p
    <3>1. refresh'[q] = refresh[q] /\ JobGood(refresh[q]) /\ ~ Pending(refresh[q])
      BY <1>1, <1>3, <1>6, <2>2 DEF JobsGood
    <3>2. refresh[q].phase \in {"upstream", "rotate"} =>
            refresh[q].token <= holds'
      BY <1>1, <1>2, <1>4, <3>1 DEF JobGood, Refresh, FamilyGood, Wrapper
    <3> QED
      BY <1>2, <3>1, <3>2 DEF JobGood, Pending
  <2> QED
    BY <2>1, <2>2
<1>8. \A q \in Request \ {p} : Apart(NoRefresh, refresh[q])
  BY IdleGood DEF Apart
<1>9. JobsGood'
  BY <1>1, <1>2, <1>7, <1>8, IdleGood, JobsNext
<1>10. BehindOnlyByLoss'
  <2>1. CASE revoked \/ gone
    BY <1>2, <2>1 DEF BehindOnlyByLoss
  <2>2. CASE holds = newest
    BY <1>1, <1>4, <2>2 DEF FamilyGood, Wrapper
  <2>3. CASE \E q \in Request : Pending(refresh[q]) /\ refresh[q].next = newest
    BY <1>2, <1>6, <2>3 DEF BehindOnlyByLoss
  <2> QED
    BY <1>1, <2>1, <2>2, <2>3 DEF BehindOnlyByLoss, Pending
<1>11. UpstreamUsable'
  BY <1>1, <1>2, <1>3 DEF UpstreamUsable
<1> QED
  BY <1>5, <1>9, <1>10, <1>11, ByPartsNext

(* A request is lost with whatever it had done.                            *)
LEMMA LoseKeeps ==
  ASSUME RefreshIndInv, NEW p \in Request, LoseRefresh(p)
  PROVE  RefreshIndInv'
<1>1. FamilyGood
  BY ByParts
<1>2. gone' \in BOOLEAN /\ (gone => gone') /\ revoked \in BOOLEAN
  BY <1>1 DEF FamilyGood, LoseRefresh
<1>3. gone' \/ refresh[p].phase \notin {"rotate", "key", "answer"}
  BY <1>1 DEF LoseRefresh, FamilyGood
<1> QED
  BY <1>2, <1>3, IdleGood, IdleJobGood, FamilyStays DEF LoseRefresh, Pending

-----------------------------------------------------------------------------
(* One token, that the client has, and nobody at work.                      *)
LEMMA InitHolds == RefreshInit => RefreshIndInv
<1> SUFFICES ASSUME RefreshInit PROVE RefreshIndInv
  OBVIOUS
<1>1. 0 \in Wrapper
  BY DEF Wrapper
<1>2. FamilyGood
  <2>1. PICK u \in {0, Null} : upstreamOf = [n \in Wrapper |-> u]
    BY DEF RefreshInit
  <2>2. /\ upstreamOf \in [Wrapper -> Upstream \cup {Null}]
        /\ \A n \in Wrapper : upstreamOf[n] # Null => upstreamOf[n] < 1
    BY <2>1 DEF Upstream
  <2>3. newest = 0 /\ holds = 0 /\ spent = {} /\ fresh = 1
    BY DEF RefreshInit
  <2>4. revoked \in BOOLEAN /\ gone \in BOOLEAN
    BY DEF RefreshInit
  <2> QED
    BY <1>1, <2>2, <2>3, <2>4 DEF FamilyGood
<1>3. JobsGood
  BY IdleGood, IdleJobGood DEF RefreshInit, JobsGood, Apart
<1>4. BehindOnlyByLoss /\ UpstreamUsable
  BY DEF RefreshInit, BehindOnlyByLoss, UpstreamUsable
<1> QED
  BY <1>2, <1>3, <1>4, ByParts

(* Every step keeps the invariant.                                         *)
LEMMA StepKeeps == RefreshIndInv /\ [RefreshNext]_refreshVars => RefreshIndInv'
<1> SUFFICES ASSUME RefreshIndInv, [RefreshNext]_refreshVars PROVE RefreshIndInv'
  OBVIOUS
<1>1. CASE UNCHANGED refreshVars
  <2>1. FamilyGood /\ JobsGood /\ BehindOnlyByLoss /\ UpstreamUsable
    BY ByParts
  <2> QED
    BY <1>1, <2>1, ByPartsNext DEF refreshVars, FamilyGood, JobsGood, JobGood,
       BehindOnlyByLoss, UpstreamUsable
<1>2. CASE RefreshNext
  BY <1>2, NativeKeeps, LookUpKeeps, ResolveKeeps, DispatchKeeps,
     RotateWrappedKeeps, DeliverKeeps, LoseKeeps DEF RefreshNext
<1> QED
  BY <1>1, <1>2

(* However many refreshes of one family overlap, at either endpoint, at     *)
(* most one answer is on its way, no two requests store one upstream token, *)
(* and the newest token stands for an upstream token that can be spent,     *)
(* unless the family is revoked or something was lost.                     *)
THEOREM Invariance == RefreshSpec => []RefreshIndInv
BY InitHolds, StepKeeps, PTL DEF RefreshSpec

(* A client that is behind the newest token of a live family has lost an    *)
(* answer or is about to get one: overlap alone does not leave it with a    *)
(* token that will be taken for a replay.                                  *)
THEOREM ClientKeepsUp == RefreshSpec => []BehindOnlyByLoss
<1>1. RefreshIndInv => BehindOnlyByLoss
  BY DEF RefreshIndInv
<1> QED
  BY <1>1, Invariance, PTL

-----------------------------------------------------------------------------
USE LinkAssumption

-----------------------------------------------------------------------------
(* The links of invites and resets.                                        *)
LinkPhase == {"idle", "mail", "revoke", "insert", "credential",
              "consume", "consuming", "user", "saving", "end"}
SendPhase == {"mail", "revoke", "insert", "end"}
UsePhase  == {"credential", "consume", "consuming", "user", "saving", "end"}

(* What is known of the job of a request that is not idle.                 *)
LEMMA JobKnown ==
  ASSUME LinkTypeOK, LinksInStep,
         NEW p \in Request, linkJob[p].phase # "idle"
  PROVE  LET j == linkJob[p] r == link[linkJob[p].link] IN
           /\ j \in LinkJob /\ r \in LinkRow
           /\ j.link \in Link /\ r.user \in User /\ r.kind \in Kind
           /\ r.state = LinkOf(j)
           /\ \/ j.op = "send" /\ j.phase \in SendPhase
              \/ j.op = "use" /\ j.phase \in UsePhase
<1> DEFINE j == linkJob[p]
<1>1. j \in LinkJob /\ j.link \in Link /\ j.op # Null
  BY DEF LinkTypeOK
<1>2. link[j.link] \in LinkRow /\ link[j.link].user \in User
  BY <1>1 DEF LinkTypeOK
<1>3. j.op \in {"send", "use"}
  BY <1>1 DEF LinkJob
<1>4. link[j.link].kind \in Kind
  BY <1>2 DEF LinkRow
<1> QED BY <1>1, <1>2, <1>3, <1>4 DEF LinksInStep, SendPhase, UsePhase

(* A phase that advances, or a job that ends.                              *)
LEMMA Advanced ==
  ASSUME linkJob \in [Request -> LinkJob], NEW p \in Request,
         NEW ph \in LinkPhase, LinkAdvance(p, ph)
  PROVE  /\ linkJob' \in [Request -> LinkJob]
         /\ \A q \in Request : q # p => linkJob'[q] = linkJob[q]
         /\ linkJob'[p].phase = ph
         /\ linkJob'[p].op = linkJob[p].op
         /\ linkJob'[p].link = linkJob[p].link
         /\ linkJob'[p].status = linkJob[p].status
BY DEF LinkAdvance, LinkGoto, LinkJob, LinkPhase

LEMMA Ended ==
  ASSUME linkJob \in [Request -> LinkJob],
         shutOut \in [User -> SUBSET Request],
         differs \in [Request -> SUBSET Column],
         NEW p \in Request, LinkEnd(p)
  PROVE  /\ linkJob' \in [Request -> LinkJob]
         /\ \A q \in Request : q # p => linkJob'[q] = linkJob[q]
         /\ linkJob'[p] = LinkIdle
         /\ shutOut' \in [User -> SUBSET Request]
         /\ differs' \in [Request -> SUBSET Column]
         /\ \A u \in User : \A q \in Request :
              q # p /\ q \in shutOut[u] => q \in shutOut'[u]
BY DEF LinkEnd, LinkGoto, LinkJob, LinkIdle, Status

(* Fewer unrevoked links and fewer about to be inserted: no more in all.   *)
LEMMA FewerLinks ==
  ASSUME FewLiveLinks,
         \A u \in User, k \in Kind :
           /\ Unrevoked(u, k)' \subseteq Unrevoked(u, k)
           /\ Inserting(u, k)' \subseteq Inserting(u, k)
  PROVE  FewLiveLinks'
<1> SUFFICES ASSUME NEW u \in User, NEW k \in Kind
             PROVE  Cardinality(Unrevoked(u, k)') + Cardinality(Inserting(u, k)')
                      <= Cardinality(Request)
  BY DEF FewLiveLinks
<1> DEFINE U == Unrevoked(u, k)  I == Inserting(u, k)
           U2 == Unrevoked(u, k)'  I2 == Inserting(u, k)'
<1>1. U \subseteq Link /\ I \subseteq Request
  BY DEF Unrevoked, Inserting
<1>2. U2 \subseteq U /\ I2 \subseteq I
  OBVIOUS
<1>3. Cardinality(U) + Cardinality(I) <= Cardinality(Request)
  BY DEF FewLiveLinks
<1> HIDE DEF U, I, U2, I2
<1>4. IsFiniteSet(U) /\ IsFiniteSet(I)
  BY <1>1, FS_Subset
<1>5. /\ Cardinality(U2) <= Cardinality(U) /\ Cardinality(I2) <= Cardinality(I)
      /\ IsFiniteSet(U2) /\ IsFiniteSet(I2)
  BY <1>2, <1>4, FS_Subset
<1>6. /\ Cardinality(U) \in Nat /\ Cardinality(I) \in Nat
      /\ Cardinality(U2) \in Nat /\ Cardinality(I2) \in Nat
      /\ Cardinality(Request) \in Nat
  BY <1>4, <1>5, FS_CardinalityType
<1>7. Cardinality(U2) + Cardinality(I2) <= Cardinality(Request)
  BY <1>3, <1>5, <1>6
<1> QED BY <1>7 DEF U2, I2

(* No link more, none revoked, and the inserts awaited still to come or    *)
(* noted as broken: there is still a link left.                            *)
StoredFor(l, u, k) ==
  link[l].state = "stored" /\ link[l].user = u /\ link[l].kind = k

LEMMA LinkStillLeft ==
  ASSUME SomeLinkLeft,
         \A l \in Link : \A u \in User : \A k \in Kind :
           StoredFor(l, u, k)' <=> StoredFor(l, u, k),
         \A l \in Link : ~ link[l].revoked => ~ link'[l].revoked,
         broken \subseteq broken',
         \A u \in User, k \in Kind :
           Inserting(u, k) # {} =>
             Inserting(u, k)' # {} \/ <<u, k>> \in broken'
  PROVE  SomeLinkLeft'
BY DEF SomeLinkLeft, StoredFor

(* The job of p advances, its link perhaps with it.                        *)
LEMMA AdvanceTypes ==
  ASSUME LinkTypeOK, LinksInStep,
         NEW p \in Request, linkJob[p].phase # "idle",
         NEW ph \in LinkPhase \ {"idle"}, LinkAdvance(p, ph),
         link' \in [Link -> LinkRow],
         \A l \in Link : link'[l].user = link[l].user,
         status' \in [User -> Status], verified' \subseteq User,
         broken' \subseteq User \X Kind, shutOut' \in [User -> SUBSET Request],
         differs' \in [Request -> SUBSET Column]
  PROVE  LinkTypeOK'
<1>1. linkJob \in [Request -> LinkJob]
  BY DEF LinkTypeOK
<1>2. /\ linkJob' \in [Request -> LinkJob]
      /\ \A q \in Request : q # p => linkJob'[q] = linkJob[q]
      /\ linkJob'[p].op = linkJob[p].op
      /\ linkJob'[p].link = linkJob[p].link
  BY <1>1, Advanced
<1>3. \A q \in Request :
        linkJob'[q].phase # "idle" =>
          /\ linkJob'[q].link \in Link /\ linkJob'[q].op # Null
          /\ link'[linkJob'[q].link].user \in User
  <2> TAKE q \in Request
  <2>1. linkJob'[q].phase # "idle" =>
          /\ linkJob[q].phase # "idle"
          /\ linkJob'[q].link = linkJob[q].link /\ linkJob'[q].op = linkJob[q].op
    BY <1>2
  <2> QED BY <2>1 DEF LinkTypeOK
<1> QED BY <1>2, <1>3 DEF LinkTypeOK

LEMMA AdvanceInStep ==
  ASSUME LinkTypeOK, LinksInStep,
         NEW p \in Request, linkJob[p].phase # "idle",
         NEW ph \in LinkPhase \ {"idle"}, LinkAdvance(p, ph),
         linkJob[p].op = "send" => ph \in SendPhase,
         linkJob[p].op = "use" => ph \in UsePhase,
         link'[linkJob[p].link].state = LinkOf([linkJob[p] EXCEPT !.phase = ph]),
         \/ link'[linkJob[p].link].state = link[linkJob[p].link].state
         \/ link[linkJob[p].link].state # "stored",
         \A l \in Link : l # linkJob[p].link => link'[l].state = link[l].state,
         \A l \in Link : link'[l].user = link[l].user,
         \A l \in Link :
           link'[l].state # "stored" =>
             ~ link'[l].revoked /\ ~ link'[l].consumed /\ ~ link'[l].expired
  PROVE  LinksInStep'
<1>1. linkJob \in [Request -> LinkJob]
  BY DEF LinkTypeOK
<1>2. /\ linkJob' \in [Request -> LinkJob]
      /\ \A q \in Request : q # p => linkJob'[q] = linkJob[q]
      /\ linkJob'[p].op = linkJob[p].op
      /\ linkJob'[p].link = linkJob[p].link
      /\ linkJob'[p].phase = ph
  BY <1>1, Advanced
<1>3. linkJob'[p] = [linkJob[p] EXCEPT !.phase = ph]
  BY <1>1 DEF LinkAdvance, LinkGoto
<1>4. linkJob[p].link \in Link
  BY DEF LinkTypeOK
<1>5. ASSUME NEW q \in Request
      PROVE  /\ linkJob'[q].op = "send" => linkJob'[q].phase \in SendPhase
             /\ linkJob'[q].op = "use" => linkJob'[q].phase \in UsePhase
             /\ linkJob'[q].phase # "idle" =>
                  link'[linkJob'[q].link].state = LinkOf(linkJob'[q])
  <2>1. CASE q = p
    BY <1>2, <1>3, <2>1
  <2>2. CASE q # p
    <3>1. linkJob'[q] = linkJob[q]
      BY <1>2, <2>2
    <3>2. ASSUME linkJob[q].phase # "idle"
          PROVE  link'[linkJob[q].link].state = LinkOf(linkJob[q])
      <4>1. link[linkJob[q].link].state = LinkOf(linkJob[q]) /\ linkJob[q].link \in Link
        BY <3>2 DEF LinksInStep, LinkTypeOK
      <4>2. CASE linkJob[q].link # linkJob[p].link
        BY <4>1, <4>2
      <4>3. CASE /\ linkJob[q].link = linkJob[p].link
                 /\ link'[linkJob[p].link].state # link[linkJob[p].link].state
        <5>1. link[linkJob[p].link].state # "stored"
          BY <4>3
        <5>2. linkJob[q].op = "send" /\ linkJob[p].op = "send"
          BY <5>1, <4>3, <3>2, JobKnown DEF SendPhase, UsePhase, LinkOf
        <5> QED BY <5>2, <4>3, <2>2 DEF LinksInStep
      <4> QED BY <4>1, <4>2, <4>3
    <3> QED BY <3>1, <3>2 DEF LinksInStep, SendPhase, UsePhase
  <2> QED BY <2>1, <2>2
<1>6. \A q, r \in Request :
        q # r /\ linkJob'[q].op = "send" /\ linkJob'[r].op = "send" =>
          linkJob'[q].link # linkJob'[r].link
  <2> TAKE q, r \in Request
  <2>1. /\ linkJob'[q].op = linkJob[q].op /\ linkJob'[q].link = linkJob[q].link
        /\ linkJob'[r].op = linkJob[r].op /\ linkJob'[r].link = linkJob[r].link
    BY <1>2
  <2> QED BY <2>1 DEF LinksInStep
<1>7. \A l \in Link : link'[l].state # "none" => link'[l].user \in User
  BY JobKnown DEF LinksInStep
<1> QED BY <1>5, <1>6, <1>7 DEF LinksInStep, SendPhase, UsePhase

LEMMA AdvanceBinds ==
  ASSUME LinkTypeOK, LinksInStep, CopiesBind,
         NEW p \in Request, linkJob[p].phase \notin {"idle", "end"},
         NEW ph \in LinkPhase \ {"idle"}, LinkAdvance(p, ph),
         \A l \in Link : link'[l].user = link[l].user,
         status' = status, shutOut' = shutOut
  PROVE  CopiesBind'
<1>1. linkJob \in [Request -> LinkJob]
  BY DEF LinkTypeOK
<1>2. ASSUME NEW q \in Request,
             linkJob'[q].op = "use", linkJob'[q].phase # "end",
             linkJob'[q].status # "deactivated",
             status'[link'[linkJob'[q].link].user] = "deactivated"
      PROVE  q \in shutOut'[link'[linkJob'[q].link].user]
  <2>1. /\ linkJob'[q].op = linkJob[q].op /\ linkJob'[q].link = linkJob[q].link
        /\ linkJob'[q].status = linkJob[q].status
        /\ linkJob'[q].phase # "end" => linkJob[q].phase # "end"
    BY <1>1, Advanced
  <2>2. linkJob[q].phase # "idle"
    BY <1>2, <2>1 DEF LinksInStep
  <2>3. linkJob[q].link \in Link
    BY <2>2 DEF LinkTypeOK
  <2> QED BY <1>2, <2>1, <2>3 DEF CopiesBind
<1> QED BY <1>2 DEF CopiesBind

(* Nobody but p begins or ends an insert.                                  *)
LEMMA AdvanceInserting ==
  ASSUME LinkTypeOK, LinksInStep,
         NEW p \in Request, linkJob[p].phase # "idle",
         NEW ph \in LinkPhase \ {"idle"}, LinkAdvance(p, ph),
         \A l \in Link : link'[l].user = link[l].user /\ link'[l].kind = link[l].kind
  PROVE  \A u, k : Inserting(u, k)' \ {p} = Inserting(u, k) \ {p}
<1>1. \A q \in Request :
        q # p => linkJob'[q] = linkJob[q]
  BY Advanced DEF LinkTypeOK
<1>2. \A q \in Request : linkJob[q].phase = "insert" => linkJob[q].link \in Link
  BY DEF LinkTypeOK
<1> QED BY <1>1, <1>2 DEF Inserting

-----------------------------------------------------------------------------
(* One lemma per action that changes links or jobs.                        *)

LEMMA SendMailKeeps ==
  ASSUME LinkIndInv, NEW p \in Request, SendMail(p)
  PROVE  LinkIndInv'
<1> DEFINE L == linkJob[p].link
<1>0. LinkTypeOK /\ FewLiveLinks /\ SomeLinkLeft /\ LinksInStep /\ CopiesBind
  BY DEF LinkIndInv
<1>1. /\ linkJob[p].phase = "mail" /\ LinkAdvance(p, "revoke")
      /\ link' = [link EXCEPT ![L].state = "mailed"]
      /\ status' = status /\ verified' = verified /\ broken' = broken
      /\ shutOut' = shutOut /\ differs' = differs
      /\ "revoke" \in LinkPhase \ {"idle"}
  BY DEF SendMail, UserColumns, LinkPhase
<1>2. /\ L \in Link /\ link[L].state = "none" /\ linkJob[p].op = "send"
      /\ link \in [Link -> LinkRow]
  BY <1>0, <1>1, JobKnown DEF SendPhase, UsePhase, LinkOf, LinkTypeOK
<1>3. /\ link' \in [Link -> LinkRow]
      /\ \A l \in Link : l # L => link'[l] = link[l]
      /\ link'[L].state = "mailed"
      /\ \A l \in Link : /\ link'[l].user = link[l].user
                         /\ link'[l].kind = link[l].kind
                         /\ link'[l].revoked = link[l].revoked
                         /\ link'[l].consumed = link[l].consumed
                         /\ link'[l].expired = link[l].expired
  BY <1>1, <1>2 DEF LinkRow
<1>4. LinkTypeOK'
  BY <1>0, <1>1, <1>3, AdvanceTypes DEF LinkTypeOK
<1>5. LinksInStep'
  <2>1. LinkOf([linkJob[p] EXCEPT !.phase = "revoke"]) = "mailed"
    BY <1>0 DEF LinkOf, LinkTypeOK, LinkJob
  <2>2. \A l \in Link :
          link'[l].state # "stored" =>
             ~ link'[l].revoked /\ ~ link'[l].consumed /\ ~ link'[l].expired
    BY <1>0, <1>2, <1>3 DEF LinksInStep
  <2> QED BY <1>0, <1>1, <1>2, <1>3, <2>1, <2>2, AdvanceInStep DEF SendPhase, UsePhase
<1>6. CopiesBind'
  BY <1>0, <1>1, <1>3, AdvanceBinds
<1>7. \A u, k : Inserting(u, k)' = Inserting(u, k)
  <2>1. \A u, k : Inserting(u, k)' \ {p} = Inserting(u, k) \ {p}
    BY <1>0, <1>1, <1>3, AdvanceInserting
  <2>2. linkJob'[p].phase = "revoke"
    BY <1>0, <1>1, Advanced DEF LinkTypeOK
  <2>3. \A u, k : p \notin Inserting(u, k) /\ p \notin Inserting(u, k)'
    BY <1>1, <2>2 DEF Inserting
  <2> QED BY <2>1, <2>3
<1>8. FewLiveLinks'
  <2>1. \A u, k : Unrevoked(u, k)' = Unrevoked(u, k)
    BY <1>2, <1>3 DEF Unrevoked
  <2> QED BY <1>0, <1>7, <2>1, FewerLinks
<1>9. SomeLinkLeft'
  <2>1. \A l \in Link : \A u \in User : \A k \in Kind :
           StoredFor(l, u, k)' <=> StoredFor(l, u, k)
    BY <1>2, <1>3 DEF StoredFor
  <2> QED BY <1>0, <1>1, <1>3, <1>7, <2>1, LinkStillLeft
<1> QED BY <1>4, <1>5, <1>6, <1>8, <1>9 DEF LinkIndInv

LEMMA RevokePriorKeeps ==
  ASSUME LinkIndInv, NEW p \in Request, RevokePrior(p)
  PROVE  LinkIndInv'
<1> DEFINE L == linkJob[p].link
           prior == Unrevoked(link[L].user, link[L].kind)
<1>0. LinkTypeOK /\ FewLiveLinks /\ SomeLinkLeft /\ LinksInStep /\ CopiesBind
  BY DEF LinkIndInv
<1>1. /\ linkJob[p].phase = "revoke" /\ LinkAdvance(p, "insert")
      /\ link' = [l \in Link |-> IF l \in prior THEN [link[l] EXCEPT !.revoked = TRUE]
                                 ELSE link[l]]
      /\ status' = status /\ verified' = verified /\ broken' = broken
      /\ shutOut' = shutOut /\ differs' = differs
      /\ "insert" \in LinkPhase \ {"idle"}
  BY DEF RevokePrior, UserColumns, LinkPhase
<1>2. /\ L \in Link /\ link[L].state = "mailed" /\ linkJob[p].op = "send"
      /\ link[L].user \in User /\ link[L].kind \in Kind
      /\ link \in [Link -> LinkRow]
  BY <1>0, <1>1, JobKnown DEF SendPhase, UsePhase, LinkOf, LinkTypeOK
<1>3. /\ link' \in [Link -> LinkRow]
      /\ \A l \in Link : /\ link'[l].user = link[l].user
                         /\ link'[l].kind = link[l].kind
                         /\ link'[l].state = link[l].state
                         /\ link'[l].consumed = link[l].consumed
                         /\ link'[l].expired = link[l].expired
                         /\ l \in prior => link'[l].revoked
                         /\ l \notin prior => link'[l] = link[l]
  <2>1. ASSUME NEW l \in Link
        PROVE  /\ link'[l].user = link[l].user
               /\ link'[l].kind = link[l].kind
               /\ link'[l].state = link[l].state
               /\ link'[l].consumed = link[l].consumed
               /\ link'[l].expired = link[l].expired
               /\ l \in prior => link'[l].revoked
               /\ l \notin prior => link'[l] = link[l]
               /\ link'[l] \in LinkRow
    <3>1. /\ link[l] \in LinkRow
          /\ link'[l] = IF l \in prior THEN [link[l] EXCEPT !.revoked = TRUE]
                        ELSE link[l]
      BY <1>1, <1>2
    <3> HIDE DEF prior
    <3> QED BY <3>1 DEF LinkRow
  <2> QED BY <1>1, <2>1
<1>4. \A l \in prior : link[l].state = "stored"
  BY DEF Unrevoked
<1>5. LinkTypeOK'
  BY <1>0, <1>1, <1>3, AdvanceTypes DEF LinkTypeOK
<1>6. LinksInStep'
  <2>1. LinkOf([linkJob[p] EXCEPT !.phase = "insert"]) = "mailed"
    BY <1>0 DEF LinkOf, LinkTypeOK, LinkJob
  <2>2. \A l \in Link :
          link'[l].state # "stored" =>
             ~ link'[l].revoked /\ ~ link'[l].consumed /\ ~ link'[l].expired
    BY <1>0, <1>3, <1>4 DEF LinksInStep
  <2> QED BY <1>0, <1>1, <1>2, <1>3, <2>1, <2>2, AdvanceInStep DEF SendPhase, UsePhase
<1>7. CopiesBind'
  BY <1>0, <1>1, <1>3, AdvanceBinds
<1>8. /\ linkJob'[p].phase = "insert" /\ linkJob'[p].link = L
      /\ linkJob' \in [Request -> LinkJob]
  BY <1>0, <1>1, Advanced DEF LinkTypeOK
<1>9. \A u, k : /\ Inserting(u, k)' \ {p} = Inserting(u, k) \ {p}
                /\ p \notin Inserting(u, k)
                /\ p \in Inserting(u, k)' <=> u = link[L].user /\ k = link[L].kind
  <2>1. \A u, k : Inserting(u, k)' \ {p} = Inserting(u, k) \ {p}
    BY <1>0, <1>1, <1>3, AdvanceInserting
  <2>2. \A u, k : p \notin Inserting(u, k)
    BY <1>1 DEF Inserting
  <2>3. \A u, k : p \in Inserting(u, k)' <=> u = link[L].user /\ k = link[L].kind
    BY <1>2, <1>3, <1>8 DEF Inserting
  <2> QED BY <2>1, <2>2, <2>3
<1>10. FewLiveLinks'
  <2> SUFFICES ASSUME NEW u \in User, NEW k \in Kind
               PROVE  Cardinality(Unrevoked(u, k)') + Cardinality(Inserting(u, k)')
                        <= Cardinality(Request)
    BY DEF FewLiveLinks
  <2>1. CASE u = link[L].user /\ k = link[L].kind
    <3>1. Unrevoked(u, k)' = {}
      BY <2>1, <1>3 DEF Unrevoked
    <3>2. Cardinality(Inserting(u, k)') <= Cardinality(Request)
      <4>1. Inserting(u, k)' \subseteq Request
        BY DEF Inserting
      <4> QED BY <4>1, FS_Subset
    <3>3. IsFiniteSet(Inserting(u, k)')
      BY FS_Subset DEF Inserting
    <3>4. Cardinality(Inserting(u, k)') \in Nat
      BY <3>3, FS_CardinalityType
    <3>5. Cardinality(Unrevoked(u, k)') = 0
      BY <3>1, FS_EmptySet
    <3> QED BY <3>2, <3>4, <3>5
  <2>2. CASE ~ (u = link[L].user /\ k = link[L].kind)
    <3>1. Inserting(u, k)' = Inserting(u, k)
      BY <2>2, <1>9
    <3>2. Unrevoked(u, k)' = Unrevoked(u, k)
      <4>1. \A l \in prior : ~ (link[l].user = u /\ link[l].kind = k)
        BY <2>2 DEF Unrevoked
      <4> QED BY <4>1, <1>3 DEF Unrevoked
    <3> QED BY <3>1, <3>2, <1>0 DEF FewLiveLinks
  <2> QED BY <2>1, <2>2
<1>11. SomeLinkLeft'
  <2> SUFFICES ASSUME NEW u \in User, NEW k \in Kind,
                      NEW l \in Link, StoredFor(l, u, k)'
               PROVE  \/ \E m \in Link : StoredFor(m, u, k)' /\ ~ link'[m].revoked
                      \/ Inserting(u, k)' # {}
                      \/ <<u, k>> \in broken'
    BY DEF SomeLinkLeft, StoredFor
  <2>1. CASE u = link[L].user /\ k = link[L].kind
    BY <2>1, <1>9
  <2>2. CASE ~ (u = link[L].user /\ k = link[L].kind)
    <3>1. \A m \in prior : ~ StoredFor(m, u, k)
      BY <2>2 DEF Unrevoked, StoredFor
    <3>2. StoredFor(l, u, k)
      BY <1>3 DEF StoredFor
    <3>3. \/ \E m \in Link : StoredFor(m, u, k) /\ ~ link[m].revoked
          \/ Inserting(u, k) # {}
          \/ <<u, k>> \in broken
      BY <1>0, <3>2 DEF SomeLinkLeft, StoredFor
    <3>4. Inserting(u, k)' = Inserting(u, k)
      BY <2>2, <1>9
    <3>5. ASSUME NEW m \in Link, StoredFor(m, u, k), ~ link[m].revoked
          PROVE  StoredFor(m, u, k)' /\ ~ link'[m].revoked
      BY <3>1, <3>5, <1>3 DEF StoredFor
    <3> QED BY <3>3, <3>4, <3>5, <1>1
  <2> QED BY <2>1, <2>2
<1> QED BY <1>5, <1>6, <1>7, <1>10, <1>11 DEF LinkIndInv

LEMMA InsertLinkKeeps ==
  ASSUME LinkIndInv, NEW p \in Request, InsertLink(p)
  PROVE  LinkIndInv'
<1> DEFINE L == linkJob[p].link
           us == link[L].user
           ki == link[L].kind
<1>0. LinkTypeOK /\ FewLiveLinks /\ SomeLinkLeft /\ LinksInStep /\ CopiesBind
  BY DEF LinkIndInv
<1>1. /\ linkJob[p].phase = "insert" /\ LinkAdvance(p, "end")
      /\ link' = [link EXCEPT ![L].state = "stored"]
      /\ status' = status /\ verified' = verified
      /\ broken' = broken \ {<<us, ki>>}
      /\ shutOut' = shutOut /\ differs' = differs
      /\ "end" \in LinkPhase \ {"idle"}
  BY DEF InsertLink, UserColumns, LinkPhase
<1>2. /\ L \in Link /\ link[L].state = "mailed" /\ linkJob[p].op = "send"
      /\ us \in User /\ ki \in Kind
      /\ link \in [Link -> LinkRow]
  BY <1>0, <1>1, JobKnown DEF SendPhase, UsePhase, LinkOf, LinkTypeOK
<1>3. /\ link' \in [Link -> LinkRow]
      /\ \A l \in Link : l # L => link'[l] = link[l]
      /\ link'[L].state = "stored" /\ ~ link'[L].revoked
      /\ \A l \in Link : /\ link'[l].user = link[l].user
                         /\ link'[l].kind = link[l].kind
                         /\ link'[l].revoked = link[l].revoked
                         /\ link'[l].consumed = link[l].consumed
                         /\ link'[l].expired = link[l].expired
  <2>1. ~ link[L].revoked
    BY <1>0, <1>2 DEF LinksInStep
  <2> QED BY <1>1, <1>2, <2>1 DEF LinkRow
<1>5. LinkTypeOK'
  <2>1. broken' \subseteq User \X Kind
    BY <1>0, <1>1 DEF LinkTypeOK
  <2> QED BY <1>0, <1>1, <1>3, <2>1, AdvanceTypes DEF LinkTypeOK
<1>6. LinksInStep'
  <2>1. LinkOf([linkJob[p] EXCEPT !.phase = "end"]) = "stored"
    BY <1>0 DEF LinkOf, LinkTypeOK, LinkJob
  <2>2. \A l \in Link :
          link'[l].state # "stored" =>
             ~ link'[l].revoked /\ ~ link'[l].consumed /\ ~ link'[l].expired
    BY <1>0, <1>3 DEF LinksInStep
  <2> QED BY <1>0, <1>1, <1>2, <1>3, <2>1, <2>2, AdvanceInStep DEF SendPhase, UsePhase
<1>7. CopiesBind'
  BY <1>0, <1>1, <1>3, AdvanceBinds
<1>8. linkJob'[p].phase = "end"
  BY <1>0, <1>1, Advanced DEF LinkTypeOK
<1>9. \A u, k : /\ Inserting(u, k)' = Inserting(u, k) \ {p}
                /\ p \in Inserting(u, k) <=> u = us /\ k = ki
  <2>1. \A u, k : Inserting(u, k)' \ {p} = Inserting(u, k) \ {p}
    BY <1>0, <1>1, <1>3, AdvanceInserting
  <2>2. \A u, k : p \notin Inserting(u, k)'
    BY <1>8 DEF Inserting
  <2>3. \A u, k : p \in Inserting(u, k) <=> u = us /\ k = ki
    BY <1>1 DEF Inserting
  <2> QED BY <2>1, <2>2, <2>3
<1>10. FewLiveLinks'
  <2> SUFFICES ASSUME NEW u \in User, NEW k \in Kind
               PROVE  Cardinality(Unrevoked(u, k)') + Cardinality(Inserting(u, k)')
                        <= Cardinality(Request)
    BY DEF FewLiveLinks
  <2> DEFINE U == Unrevoked(u, k)  I == Inserting(u, k)
  <2>0. /\ Cardinality(U) + Cardinality(I) <= Cardinality(Request)
        /\ IsFiniteSet(U) /\ IsFiniteSet(I)
        /\ Cardinality(Request) \in Nat
    BY <1>0, FS_Subset, FS_CardinalityType DEF FewLiveLinks, Unrevoked, Inserting
  <2>1. CASE u = us /\ k = ki
    <3>1. Unrevoked(u, k)' \subseteq U \cup {L}
      BY <1>3 DEF Unrevoked
    <3>2. /\ IsFiniteSet(U \cup {L})
          /\ Cardinality(U \cup {L}) <= Cardinality(U) + 1
          /\ Cardinality(U) \in Nat
      <4>1. Cardinality(U) \in Nat
        BY <2>0, FS_CardinalityType
      <4>2. IsFiniteSet(U \cup {L})
        BY <2>0, FS_AddElement
      <4>3. Cardinality(U \cup {L}) =
              IF L \in U THEN Cardinality(U) ELSE Cardinality(U) + 1
        BY <2>0, FS_AddElement
      <4> HIDE DEF U, L
      <4> QED BY <4>1, <4>2, <4>3
    <3>3. /\ IsFiniteSet(Unrevoked(u, k)')
          /\ Cardinality(Unrevoked(u, k)') <= Cardinality(U \cup {L})
      BY <3>1, <3>2, FS_Subset
    <3>4. Cardinality(Unrevoked(u, k)') \in Nat /\ Cardinality(U \cup {L}) \in Nat
      BY <3>2, <3>3, FS_CardinalityType
    <3>5. Cardinality(Inserting(u, k)') = Cardinality(I) - 1 /\ Cardinality(I) \in Nat
      <4>1. Inserting(u, k)' = I \ {p} /\ p \in I
        BY <1>9, <2>1
      <4> QED BY <4>1, <2>0, FS_RemoveElement, FS_CardinalityType
    <3> HIDE DEF U, I
    <3> QED BY <2>0, <3>2, <3>3, <3>4, <3>5
  <2>2. CASE ~ (u = us /\ k = ki)
    <3>1. Inserting(u, k)' = Inserting(u, k)
      BY <2>2, <1>9
    <3>2. Unrevoked(u, k)' = Unrevoked(u, k)
      BY <2>2, <1>2, <1>3 DEF Unrevoked
    <3> QED BY <3>1, <3>2, <1>0 DEF FewLiveLinks
  <2> QED BY <2>1, <2>2
<1>11. SomeLinkLeft'
  <2> SUFFICES ASSUME NEW u \in User, NEW k \in Kind,
                      NEW l \in Link, StoredFor(l, u, k)'
               PROVE  \/ \E m \in Link : StoredFor(m, u, k)' /\ ~ link'[m].revoked
                      \/ Inserting(u, k)' # {}
                      \/ <<u, k>> \in broken'
    BY DEF SomeLinkLeft, StoredFor
  <2>1. CASE u = us /\ k = ki
    BY <2>1, <1>2, <1>3 DEF StoredFor
  <2>2. CASE ~ (u = us /\ k = ki)
    <3>1. \A m \in Link : StoredFor(m, u, k)' <=> StoredFor(m, u, k)
      BY <2>2, <1>2, <1>3 DEF StoredFor
    <3>2. \/ \E m \in Link : StoredFor(m, u, k) /\ ~ link[m].revoked
          \/ Inserting(u, k) # {}
          \/ <<u, k>> \in broken
      BY <1>0, <3>1 DEF SomeLinkLeft, StoredFor
    <3>3. /\ Inserting(u, k)' = Inserting(u, k)
          /\ <<u, k>> \in broken => <<u, k>> \in broken'
      BY <2>2, <1>1, <1>9
    <3> QED BY <3>1, <3>2, <3>3, <1>3
  <2> QED BY <2>1, <2>2
<1> QED BY <1>5, <1>6, <1>7, <1>10, <1>11 DEF LinkIndInv

(* SetCredential, EndSessions and the SELECTs of the saves only advance the *)
(* job.                                                                     *)
LEMMA AdvanceKeeps ==
  ASSUME LinkIndInv, NEW p \in Request,
         \/ SetCredential(p) \/ EndSessions(p)
         \/ SelectLinkRow(p) \/ SelectUser(p)
  PROVE  LinkIndInv'
<1>0. LinkTypeOK /\ FewLiveLinks /\ SomeLinkLeft /\ LinksInStep /\ CopiesBind
  BY DEF LinkIndInv
<1>a. differs \in [Request -> SUBSET Column]
  BY <1>0 DEF LinkTypeOK
<1>1. PICK ph \in {"consume", "consuming", "saving", "end"} :
        /\ linkJob[p].phase \in {"credential", "consume", "user"}
        /\ LinkAdvance(p, ph)
        /\ link' = link /\ status' = status /\ verified' = verified
        /\ broken' = broken /\ shutOut' = shutOut
        /\ differs' \in [Request -> SUBSET Column]
        /\ ph \in LinkPhase \ {"idle"}
  <2>1. CASE SetCredential(p) \/ EndSessions(p)
    BY <2>1, <1>a DEF SetCredential, EndSessions, UserColumns, LinkPhase
  <2>2. CASE SelectLinkRow(p)
    BY <2>2, <1>a DEF SelectLinkRow, UserColumns, LinkPhase, Column
  <2>3. CASE SelectUser(p)
    BY <2>3, <1>a DEF SelectUser, UserColumns, LinkPhase, Column
  <2> QED BY <2>1, <2>2, <2>3
<1>2. /\ linkJob[p].op = "use" /\ link[linkJob[p].link].state = "stored"
      /\ linkJob[p].op # "send"
  BY <1>0, <1>1, JobKnown DEF SendPhase, UsePhase, LinkOf
<1>3. LinkTypeOK'
  BY <1>0, <1>1, AdvanceTypes DEF LinkTypeOK
<1>4. LinksInStep'
  <2>1. LinkOf([linkJob[p] EXCEPT !.phase = ph]) = "stored"
    BY <1>0, <1>1 DEF LinkOf, LinkTypeOK, LinkJob
  <2>2. /\ ph \in UsePhase
        /\ \A l \in Link :
             link'[l].state # "stored" =>
               ~ link'[l].revoked /\ ~ link'[l].consumed /\ ~ link'[l].expired
    BY <1>0, <1>1 DEF LinksInStep, UsePhase
  <2> QED BY <1>0, <1>1, <1>2, <2>1, <2>2, AdvanceInStep DEF SendPhase, UsePhase
<1>5. CopiesBind'
  BY <1>0, <1>1, AdvanceBinds
<1>6. \A u, k : Inserting(u, k)' = Inserting(u, k)
  <2>1. \A u, k : Inserting(u, k)' \ {p} = Inserting(u, k) \ {p}
    BY <1>0, <1>1, AdvanceInserting
  <2>2. linkJob'[p].phase # "insert"
    BY <1>0, <1>1, Advanced DEF LinkTypeOK
  <2>3. \A u, k : p \notin Inserting(u, k) /\ p \notin Inserting(u, k)'
    BY <1>1, <2>2 DEF Inserting
  <2> QED BY <2>1, <2>3
<1>7. FewLiveLinks'
  <2>1. \A u, k : Unrevoked(u, k)' = Unrevoked(u, k)
    BY <1>1 DEF Unrevoked
  <2> QED BY <1>0, <1>6, <2>1, FewerLinks
<1>8. SomeLinkLeft'
  BY <1>0, <1>1, <1>6, LinkStillLeft DEF StoredFor
<1> QED BY <1>3, <1>4, <1>5, <1>7, <1>8 DEF LinkIndInv

LEMMA SaveConsumedKeeps ==
  ASSUME LinkIndInv, NEW p \in Request, SaveConsumed(p)
  PROVE  LinkIndInv'
<1> DEFINE L == linkJob[p].link
<1>0. LinkTypeOK /\ FewLiveLinks /\ SomeLinkLeft /\ LinksInStep /\ CopiesBind
  BY DEF LinkIndInv
<1>1. /\ linkJob[p].phase = "consuming" /\ LinkAdvance(p, "user")
      /\ link' = [link EXCEPT ![L].consumed = TRUE,
                              ![L].revoked = @ /\ "revoked" \notin differs[p]]
      /\ status' = status /\ verified' = verified /\ broken' = broken
      /\ shutOut' = shutOut /\ differs' \in [Request -> SUBSET Column]
      /\ "user" \in LinkPhase \ {"idle"}
  BY <1>0 DEF SaveConsumed, UserColumns, LinkPhase, LinkTypeOK
<1>2. /\ L \in Link /\ link[L].state = "stored" /\ linkJob[p].op = "use"
      /\ linkJob[p].op # "send"
      /\ link \in [Link -> LinkRow]
  BY <1>0, <1>1, JobKnown DEF SendPhase, UsePhase, LinkOf, LinkTypeOK
<1>3. /\ link' \in [Link -> LinkRow]
      /\ \A l \in Link : l # L => link'[l] = link[l]
      /\ link'[L].consumed
      /\ ~ link[L].revoked => ~ link'[L].revoked
      /\ \A l \in Link : /\ link'[l].user = link[l].user
                         /\ link'[l].kind = link[l].kind
                         /\ link'[l].state = link[l].state
                         /\ link'[l].expired = link[l].expired
  <2>1. /\ link[L] \in LinkRow
        /\ \A l \in Link : l # L => link'[l] = link[l]
        /\ link'[L] = [link[L] EXCEPT !.consumed = TRUE,
                         !.revoked = link[L].revoked /\ "revoked" \notin differs[p]]
        /\ DOMAIN link' = Link
    BY <1>1, <1>2
  <2>2. /\ link'[L] \in LinkRow /\ link'[L].consumed
        /\ ~ link[L].revoked => ~ link'[L].revoked
        /\ link'[L].user = link[L].user /\ link'[L].kind = link[L].kind
        /\ link'[L].state = link[L].state /\ link'[L].expired = link[L].expired
    BY <2>1, Zenon DEF LinkRow
  <2>3. link' \in [Link -> LinkRow]
    BY <1>1, <1>2, <2>1, <2>2
  <2> QED BY <2>1, <2>2, <2>3
<1>4. LinkTypeOK'
  BY <1>0, <1>1, <1>3, AdvanceTypes DEF LinkTypeOK
<1>5. LinksInStep'
  <2>1. LinkOf([linkJob[p] EXCEPT !.phase = "user"]) = "stored"
    BY <1>0 DEF LinkOf, LinkTypeOK, LinkJob
  <2>2. \A l \in Link :
          link'[l].state # "stored" =>
             ~ link'[l].revoked /\ ~ link'[l].consumed /\ ~ link'[l].expired
    BY <1>0, <1>2, <1>3 DEF LinksInStep
  <2> QED BY <1>0, <1>1, <1>2, <1>3, <2>1, <2>2, AdvanceInStep DEF SendPhase, UsePhase
<1>6. CopiesBind'
  BY <1>0, <1>1, <1>3, AdvanceBinds
<1>7. \A u, k : Inserting(u, k)' = Inserting(u, k)
  <2>1. \A u, k : Inserting(u, k)' \ {p} = Inserting(u, k) \ {p}
    BY <1>0, <1>1, <1>3, AdvanceInserting
  <2>2. linkJob'[p].phase = "user"
    BY <1>0, <1>1, Advanced DEF LinkTypeOK
  <2>3. \A u, k : p \notin Inserting(u, k) /\ p \notin Inserting(u, k)'
    BY <1>1, <2>2 DEF Inserting
  <2> QED BY <2>1, <2>3
<1>8. FewLiveLinks'
  <2>1. \A u, k : Unrevoked(u, k)' \subseteq Unrevoked(u, k)
    BY <1>2, <1>3 DEF Unrevoked
  <2> QED BY <1>0, <1>7, <2>1, FewerLinks
<1>9. SomeLinkLeft'
  <2>1. \A l \in Link : \A u \in User : \A k \in Kind :
           StoredFor(l, u, k)' <=> StoredFor(l, u, k)
    BY <1>3 DEF StoredFor
  <2>2. \A l \in Link : ~ link[l].revoked => ~ link'[l].revoked
    BY <1>3
  <2> QED BY <1>0, <1>1, <1>7, <2>1, <2>2, LinkStillLeft
<1> QED BY <1>4, <1>5, <1>6, <1>8, <1>9 DEF LinkIndInv

(* Whoever is running when a user is deactivated is noted.                 *)
LEMMA Noted ==
  ASSUME status \in [User -> Status], shutOut \in [User -> SUBSET Request],
         NEW u \in User, NoteShutOut(u)
  PROVE  /\ shutOut' \in [User -> SUBSET Request]
         /\ \A v \in User : v # u => shutOut'[v] = shutOut[v]
         /\ status'[u] = "deactivated" =>
              shutOut'[u] = IF status[u] = "deactivated" THEN shutOut[u]
                            ELSE {p \in Request : linkJob[p].phase # "idle"}
BY DEF NoteShutOut

LEMMA SaveUserKeeps ==
  ASSUME LinkIndInv, NEW p \in Request, SaveUser(p)
  PROVE  LinkIndInv'
<1> DEFINE u == link[linkJob[p].link].user
<1>0. LinkTypeOK /\ FewLiveLinks /\ SomeLinkLeft /\ LinksInStep /\ CopiesBind
  BY DEF LinkIndInv
<1>1. /\ linkJob[p].phase = "saving" /\ LinkAdvance(p, "end")
      /\ link' = link /\ broken' = broken /\ differs' \in [Request -> SUBSET Column]
      /\ NoteShutOut(u)
      /\ "end" \in LinkPhase \ {"idle"}
  BY <1>0 DEF SaveUser, LinkPhase, LinkTypeOK
<1>2. /\ linkJob[p].op = "use" /\ link[linkJob[p].link].state = "stored"
      /\ linkJob[p].op # "send" /\ u \in User /\ linkJob[p].status \in Status
  BY <1>0, <1>1, JobKnown DEF SendPhase, UsePhase, LinkOf, LinkJob
<1>3. /\ status' \in [User -> Status] /\ verified' \subseteq User
      /\ \A v \in User : v # u => status'[v] = status[v]
  BY <1>0, <1>2 DEF SaveUser, LinkTypeOK, Status, AcceptedStatus
<1>4. /\ shutOut' \in [User -> SUBSET Request]
      /\ \A v \in User : v # u => shutOut'[v] = shutOut[v]
      /\ status'[u] = "deactivated" =>
           shutOut'[u] = IF status[u] = "deactivated" THEN shutOut[u]
                         ELSE {q \in Request : linkJob[q].phase # "idle"}
  BY <1>0, <1>1, <1>2, Noted DEF LinkTypeOK
<1>5. LinkTypeOK'
  BY <1>0, <1>1, <1>3, <1>4, AdvanceTypes DEF LinkTypeOK
<1>6. LinksInStep'
  <2>1. LinkOf([linkJob[p] EXCEPT !.phase = "end"]) = "stored"
    BY <1>0, <1>1 DEF LinkOf, LinkTypeOK, LinkJob
  <2>2. \A l \in Link :
             link'[l].state # "stored" =>
               ~ link'[l].revoked /\ ~ link'[l].consumed /\ ~ link'[l].expired
    BY <1>0, <1>1 DEF LinksInStep
  <2> QED BY <1>0, <1>1, <1>2, <2>1, <2>2, AdvanceInStep DEF SendPhase, UsePhase
<1>7. CopiesBind'
  <2> SUFFICES ASSUME NEW q \in Request,
             linkJob'[q].op = "use", linkJob'[q].phase # "end",
             linkJob'[q].status # "deactivated",
             status'[link'[linkJob'[q].link].user] = "deactivated"
      PROVE  q \in shutOut'[link'[linkJob'[q].link].user]
    BY DEF CopiesBind
  <2>1. q # p /\ linkJob'[q] = linkJob[q]
    BY <1>0, <1>1, Advanced DEF LinkTypeOK
  <2>2. linkJob[q].phase # "idle"
    BY <2>1, <1>0 DEF LinksInStep
  <2> DEFINE v == link[linkJob[q].link].user
  <2>3. v \in User
    BY <2>2, <1>0 DEF LinkTypeOK
  <2>4. status[v] = "deactivated" => q \in shutOut[v]
    BY <2>1, <1>0 DEF CopiesBind
  <2>5. CASE v # u
    BY <2>1, <2>3, <2>4, <2>5, <1>1, <1>3, <1>4
  <2>6. CASE v = u
    BY <2>1, <2>2, <2>4, <2>6, <1>1, <1>4
  <2> QED BY <2>5, <2>6
<1>8. \A w, k : Inserting(w, k)' = Inserting(w, k)
  <2>1. \A w, k : Inserting(w, k)' \ {p} = Inserting(w, k) \ {p}
    BY <1>0, <1>1, AdvanceInserting
  <2>2. linkJob'[p].phase = "end"
    BY <1>0, <1>1, Advanced DEF LinkTypeOK
  <2>3. \A w, k : p \notin Inserting(w, k) /\ p \notin Inserting(w, k)'
    BY <1>1, <2>2 DEF Inserting
  <2> QED BY <2>1, <2>3
<1>9. FewLiveLinks'
  <2>1. \A w, k : Unrevoked(w, k)' = Unrevoked(w, k)
    BY <1>1 DEF Unrevoked
  <2> QED BY <1>0, <1>8, <2>1, FewerLinks
<1>10. SomeLinkLeft'
  BY <1>0, <1>1, <1>8, LinkStillLeft DEF StoredFor
<1> QED BY <1>5, <1>6, <1>7, <1>9, <1>10 DEF LinkIndInv

(* A request that ends, or fails: a failed insert is noted as broken.      *)
LEMMA EndKeepsLinks ==
  ASSUME LinkIndInv, NEW p \in Request, AuditLink(p) \/ FailLink(p)
  PROVE  LinkIndInv'
<1> DEFINE r == link[linkJob[p].link]
<1>0. LinkTypeOK /\ FewLiveLinks /\ SomeLinkLeft /\ LinksInStep /\ CopiesBind
  BY DEF LinkIndInv
<1>1. /\ linkJob[p].phase # "idle" /\ LinkEnd(p)
      /\ link' = link /\ status' = status /\ verified' = verified
      /\ broken' = IF linkJob[p].phase = "insert"
                   THEN broken \cup {<<r.user, r.kind>>} ELSE broken
  BY DEF AuditLink, FailLink, UserColumns
<1>2. r.user \in User /\ r.kind \in Kind
  BY <1>0, <1>1, JobKnown
<1>3. /\ linkJob' \in [Request -> LinkJob]
      /\ \A q \in Request : q # p => linkJob'[q] = linkJob[q]
      /\ linkJob'[p] = LinkIdle
      /\ shutOut' \in [User -> SUBSET Request]
      /\ differs' \in [Request -> SUBSET Column]
      /\ \A u \in User : \A q \in Request :
           q # p /\ q \in shutOut[u] => q \in shutOut'[u]
  BY <1>0, <1>1, Ended DEF LinkTypeOK
<1>4. /\ LinkIdle.phase = "idle" /\ LinkIdle.op = Null
      /\ LinkIdle.op # "send" /\ LinkIdle.op # "use"
  BY DEF LinkIdle
<1>5. LinkTypeOK'
  <2>1. broken' \subseteq User \X Kind
    BY <1>0, <1>1, <1>2 DEF LinkTypeOK
  <2>2. \A q \in Request :
          linkJob'[q].phase # "idle" =>
            /\ linkJob'[q].link \in Link /\ linkJob'[q].op # Null
            /\ link'[linkJob'[q].link].user \in User
    BY <1>0, <1>1, <1>3, <1>4 DEF LinkTypeOK
  <2> QED BY <1>0, <1>1, <1>3, <2>1, <2>2 DEF LinkTypeOK
<1>6. LinksInStep'
  <2>1. \A q \in Request : linkJob'[q] = linkJob[q] \/ linkJob'[q] = LinkIdle
    BY <1>3
  <2> QED BY <1>0, <1>1, <1>4, <2>1 DEF LinksInStep
<1>7. CopiesBind'
  <2> SUFFICES ASSUME NEW q \in Request,
             linkJob'[q].op = "use", linkJob'[q].phase # "end",
             linkJob'[q].status # "deactivated",
             status'[link'[linkJob'[q].link].user] = "deactivated"
      PROVE  q \in shutOut'[link'[linkJob'[q].link].user]
    BY DEF CopiesBind
  <2>1. q # p /\ linkJob'[q] = linkJob[q]
    BY <1>3, <1>4
  <2>2. link[linkJob[q].link].user \in User
    BY <2>1, <1>0 DEF LinksInStep, LinkTypeOK
  <2> QED BY <2>1, <2>2, <1>0, <1>1, <1>3 DEF CopiesBind
<1>8. \A u, k : Inserting(u, k)' = Inserting(u, k) \ {p}
  BY <1>1, <1>3, <1>4 DEF Inserting
<1>9. FewLiveLinks'
  <2>1. \A u, k : Unrevoked(u, k)' = Unrevoked(u, k)
    BY <1>1 DEF Unrevoked
  <2> QED BY <1>0, <1>8, <2>1, FewerLinks
<1>10. SomeLinkLeft'
  <2>1. \A u \in User, k \in Kind :
           Inserting(u, k) # {} =>
             Inserting(u, k)' # {} \/ <<u, k>> \in broken'
    <3> SUFFICES ASSUME NEW u \in User, NEW k \in Kind,
                        Inserting(u, k) # {}, Inserting(u, k)' = {}
                 PROVE  <<u, k>> \in broken'
      OBVIOUS
    <3>1. p \in Inserting(u, k)
      BY <1>8
    <3> QED BY <3>1, <1>1 DEF Inserting
  <2> QED BY <1>0, <1>1, <2>1, LinkStillLeft DEF StoredFor
<1> QED BY <1>5, <1>6, <1>7, <1>9, <1>10 DEF LinkIndInv

LEMMA BeginSendKeeps ==
  ASSUME LinkIndInv, NEW p \in Request, BeginSend(p)
  PROVE  LinkIndInv'
<1>0. LinkTypeOK /\ FewLiveLinks /\ SomeLinkLeft /\ LinksInStep /\ CopiesBind
  BY DEF LinkIndInv
<1>1. PICK L \in Link, u \in User, k \in Kind :
        /\ linkJob[p].phase = "idle"
        /\ link[L].state = "none"
        /\ \A q \in Request : linkJob[q].link # L
        /\ link' = [link EXCEPT ![L].kind = k, ![L].user = u]
        /\ LinkGoto(p, [LinkIdle EXCEPT !.phase = "mail", !.op = "send",
                                        !.link = L])
        /\ status' = status /\ verified' = verified /\ broken' = broken
        /\ shutOut' = shutOut /\ differs' = differs
  BY DEF BeginSend, UserColumns
<1>2. /\ linkJob' \in [Request -> LinkJob]
      /\ \A q \in Request : q # p => linkJob'[q] = linkJob[q]
      /\ linkJob'[p].phase = "mail" /\ linkJob'[p].op = "send"
      /\ linkJob'[p].link = L
      /\ LinkOf(linkJob'[p]) = "none"
  <2> DEFINE j == [LinkIdle EXCEPT !.phase = "mail", !.op = "send", !.link = L]
  <2>1. /\ j \in LinkJob /\ j.phase = "mail" /\ j.op = "send" /\ j.link = L
    BY DEF LinkIdle, LinkJob, Status
  <2>2. linkJob' = [linkJob EXCEPT ![p] = j] /\ linkJob \in [Request -> LinkJob]
    BY <1>0, <1>1 DEF LinkGoto, LinkTypeOK
  <2> HIDE DEF j
  <2> QED BY <2>1, <2>2 DEF LinkOf
<1>3. /\ link' \in [Link -> LinkRow]
      /\ \A l \in Link : l # L => link'[l] = link[l]
      /\ link'[L].user = u
      /\ \A l \in Link : /\ link'[l].state = link[l].state
                         /\ link'[l].revoked = link[l].revoked
                         /\ link'[l].consumed = link[l].consumed
                         /\ link'[l].expired = link[l].expired
  <2>1. link' = [link EXCEPT ![L] = [link[L] EXCEPT !.kind = k, !.user = u]]
    BY <1>1
  <2>2. link \in [Link -> LinkRow] /\ \A l \in Link : link[l] \in LinkRow
    BY <1>0 DEF LinkTypeOK
  <2>3. PICK r : r = [link[L] EXCEPT !.kind = k, !.user = u]
    OBVIOUS
  <2>4. /\ r \in LinkRow /\ r.user = u
        /\ r.state = link[L].state /\ r.revoked = link[L].revoked
        /\ r.consumed = link[L].consumed /\ r.expired = link[L].expired
    BY <2>2, <2>3 DEF LinkRow
  <2>5. link' \in [Link -> LinkRow] /\ \A l \in Link : l # L => link'[l] = link[l]
    BY <2>1, <2>2, <2>3, <2>4
  <2>6. link'[L] = r
    BY <2>1, <2>2, <2>3
  <2> QED BY <2>4, <2>5, <2>6
<1>4. \A q \in Request : q # p /\ linkJob[q].phase # "idle" =>
        /\ linkJob[q].link \in Link /\ linkJob[q].link # L
        /\ link'[linkJob[q].link] = link[linkJob[q].link]
  BY <1>0, <1>1, <1>3 DEF LinkTypeOK
<1>5. LinkTypeOK'
  <2>1. \A q \in Request :
          linkJob'[q].phase # "idle" =>
            /\ linkJob'[q].link \in Link /\ linkJob'[q].op # Null
            /\ link'[linkJob'[q].link].user \in User
    BY <1>0, <1>2, <1>3, <1>4 DEF LinkTypeOK
  <2> QED BY <1>0, <1>1, <1>2, <1>3, <2>1 DEF LinkTypeOK
<1>6. LinksInStep'
  <2>1. \A q \in Request :
          /\ linkJob'[q].op = "send" => linkJob'[q].phase \in SendPhase
          /\ linkJob'[q].op = "use" => linkJob'[q].phase \in UsePhase
          /\ linkJob'[q].phase # "idle" =>
               link'[linkJob'[q].link].state = LinkOf(linkJob'[q])
    BY <1>0, <1>1, <1>2, <1>3, <1>4 DEF LinksInStep, SendPhase, UsePhase
  <2>2. \A q, t \in Request :
          q # t /\ linkJob'[q].op = "send" /\ linkJob'[t].op = "send" =>
            linkJob'[q].link # linkJob'[t].link
    BY <1>0, <1>1, <1>2 DEF LinksInStep
  <2>3. \A l \in Link :
          /\ link'[l].state # "none" => link'[l].user \in User
          /\ link'[l].state # "stored" =>
               ~ link'[l].revoked /\ ~ link'[l].consumed /\ ~ link'[l].expired
    BY <1>0, <1>3 DEF LinksInStep
  <2> QED BY <2>1, <2>2, <2>3 DEF LinksInStep, SendPhase, UsePhase
<1>7. CopiesBind'
  <2> SUFFICES ASSUME NEW q \in Request,
             linkJob'[q].op = "use", linkJob'[q].phase # "end",
             linkJob'[q].status # "deactivated",
             status'[link'[linkJob'[q].link].user] = "deactivated"
      PROVE  q \in shutOut'[link'[linkJob'[q].link].user]
    BY DEF CopiesBind
  <2>1. q # p /\ linkJob'[q] = linkJob[q]
    BY <1>2
  <2>2. linkJob[q].phase # "idle"
    BY <2>1, <1>0 DEF LinksInStep
  <2> QED BY <2>1, <2>2, <1>0, <1>1, <1>4 DEF CopiesBind
<1>8. \A w, h : Inserting(w, h)' = Inserting(w, h)
  <2>1. linkJob[p].phase # "insert" /\ linkJob'[p].phase # "insert"
    BY <1>1, <1>2
  <2>2. \A q \in Request : q # p =>
          /\ linkJob'[q] = linkJob[q]
          /\ linkJob[q].phase = "insert" =>
               link'[linkJob[q].link] = link[linkJob[q].link]
    BY <1>2, <1>4
  <2> QED BY <2>1, <2>2 DEF Inserting
<1>9. FewLiveLinks'
  <2>1. \A w, h : Unrevoked(w, h)' = Unrevoked(w, h)
    BY <1>1, <1>3 DEF Unrevoked
  <2> QED BY <1>0, <1>8, <2>1, FewerLinks
<1>10. SomeLinkLeft'
  <2>1. \A l \in Link : \A w \in User : \A h \in Kind :
           StoredFor(l, w, h)' <=> StoredFor(l, w, h)
    BY <1>1, <1>3 DEF StoredFor
  <2> QED BY <1>0, <1>1, <1>3, <1>8, <2>1, LinkStillLeft
<1> QED BY <1>5, <1>6, <1>7, <1>9, <1>10 DEF LinkIndInv

LEMMA ResolveLinkKeeps ==
  ASSUME LinkIndInv, NEW p \in Request, Resolve(p)
  PROVE  LinkIndInv'
<1>0. LinkTypeOK /\ FewLiveLinks /\ SomeLinkLeft /\ LinksInStep /\ CopiesBind
  BY DEF LinkIndInv
<1>1. PICK L \in Link :
        /\ linkJob[p].phase = "idle"
        /\ Live(link[L])
        /\ LinkGoto(p, [phase |-> "credential", op |-> "use", link |-> L,
                        status |-> status[link[L].user],
                        verified |-> link[L].user \in verified])
        /\ link' = link /\ status' = status /\ verified' = verified
        /\ broken' = broken /\ shutOut' = shutOut /\ differs' = differs
  BY DEF Resolve, UserColumns
<1>2. link[L].state = "stored" /\ link[L].user \in User
  BY <1>0, <1>1 DEF Live, LinksInStep
<1>3. /\ linkJob' \in [Request -> LinkJob]
      /\ \A q \in Request : q # p => linkJob'[q] = linkJob[q]
      /\ linkJob'[p].phase = "credential" /\ linkJob'[p].op = "use"
      /\ linkJob'[p].op # "send" /\ linkJob'[p].op # Null
      /\ linkJob'[p].link = L
      /\ linkJob'[p].status = status[link[L].user]
      /\ LinkOf(linkJob'[p]) = "stored"
  BY <1>0, <1>1, <1>2 DEF LinkGoto, LinkJob, LinkTypeOK, LinkOf
<1>4. LinkTypeOK'
  <2>1. \A q \in Request :
          linkJob'[q].phase # "idle" =>
            /\ linkJob'[q].link \in Link /\ linkJob'[q].op # Null
            /\ link'[linkJob'[q].link].user \in User
    BY <1>0, <1>1, <1>2, <1>3 DEF LinkTypeOK
  <2> QED BY <1>0, <1>1, <1>3, <2>1 DEF LinkTypeOK
<1>5. LinksInStep'
  BY <1>0, <1>1, <1>2, <1>3 DEF LinksInStep
<1>6. CopiesBind'
  <2> SUFFICES ASSUME NEW q \in Request,
             linkJob'[q].op = "use", linkJob'[q].phase # "end",
             linkJob'[q].status # "deactivated",
             status[link[linkJob'[q].link].user] = "deactivated"
      PROVE  q \in shutOut[link[linkJob'[q].link].user]
    BY <1>1 DEF CopiesBind
  <2>1. q # p /\ linkJob'[q] = linkJob[q]
    BY <1>3
  <2> QED BY <2>1, <1>0 DEF CopiesBind
<1>7. \A w, h : Inserting(w, h)' = Inserting(w, h)
  BY <1>1, <1>3 DEF Inserting
<1>8. FewLiveLinks'
  <2>1. \A w, h : Unrevoked(w, h)' = Unrevoked(w, h)
    BY <1>1 DEF Unrevoked
  <2> QED BY <1>0, <1>7, <2>1, FewerLinks
<1>9. SomeLinkLeft'
  BY <1>0, <1>1, <1>7, LinkStillLeft DEF StoredFor
<1> QED BY <1>4, <1>5, <1>6, <1>8, <1>9 DEF LinkIndInv

LEMMA SetStatusKeeps ==
  ASSUME LinkIndInv, NEW u \in User, SetStatus(u)
  PROVE  LinkIndInv'
<1>0. LinkTypeOK /\ FewLiveLinks /\ SomeLinkLeft /\ LinksInStep /\ CopiesBind
  BY DEF LinkIndInv
<1>1. /\ status' \in [User -> Status]
      /\ \A v \in User : v # u => status'[v] = status[v]
      /\ NoteShutOut(u)
      /\ link' = link /\ verified' = verified /\ broken' = broken
      /\ linkJob' = linkJob /\ differs' = differs
  BY <1>0 DEF SetStatus, LinkTypeOK
<1>2. /\ shutOut' \in [User -> SUBSET Request]
      /\ \A v \in User : v # u => shutOut'[v] = shutOut[v]
      /\ status'[u] = "deactivated" =>
           shutOut'[u] = IF status[u] = "deactivated" THEN shutOut[u]
                         ELSE {q \in Request : linkJob[q].phase # "idle"}
  BY <1>0, <1>1, Noted DEF LinkTypeOK
<1>3. LinkTypeOK' /\ LinksInStep'
  BY <1>0, <1>1, <1>2 DEF LinkTypeOK, LinksInStep
<1>4. CopiesBind'
  <2> SUFFICES ASSUME NEW q \in Request,
             linkJob[q].op = "use", linkJob[q].phase # "end",
             linkJob[q].status # "deactivated",
             status'[link[linkJob[q].link].user] = "deactivated"
      PROVE  q \in shutOut'[link[linkJob[q].link].user]
    BY <1>1 DEF CopiesBind
  <2>1. linkJob[q].phase # "idle"
    BY <1>0 DEF LinksInStep
  <2>2. link[linkJob[q].link].user \in User
    BY <2>1, <1>0 DEF LinkTypeOK
  <2>3. CASE link[linkJob[q].link].user # u
    BY <2>2, <2>3, <1>0, <1>1, <1>2 DEF CopiesBind
  <2>4. CASE link[linkJob[q].link].user = u
    BY <2>1, <2>4, <1>0, <1>2 DEF CopiesBind
  <2> QED BY <2>3, <2>4
<1>5. FewLiveLinks' /\ SomeLinkLeft'
  BY <1>0, <1>1 DEF FewLiveLinks, SomeLinkLeft, Unrevoked, Inserting
<1> QED BY <1>3, <1>4, <1>5 DEF LinkIndInv

LEMMA ExpireLinkKeeps ==
  ASSUME LinkIndInv, NEW L \in Link, ExpireLink(L)
  PROVE  LinkIndInv'
<1>0. LinkTypeOK /\ FewLiveLinks /\ SomeLinkLeft /\ LinksInStep /\ CopiesBind
  BY DEF LinkIndInv
<1>1. /\ link' = [link EXCEPT ![L].expired = TRUE] /\ link[L].state = "stored"
      /\ status' = status /\ verified' = verified /\ broken' = broken
      /\ shutOut' = shutOut /\ linkJob' = linkJob /\ differs' = differs
  BY DEF ExpireLink, UserColumns, Live
<1>2. /\ link' \in [Link -> LinkRow]
      /\ \A l \in Link : l # L => link'[l] = link[l]
      /\ \A l \in Link : /\ link'[l].state = link[l].state
                         /\ link'[l].user = link[l].user
                         /\ link'[l].kind = link[l].kind
                         /\ link'[l].revoked = link[l].revoked
                         /\ link'[l].consumed = link[l].consumed
  <2>1. /\ link \in [Link -> LinkRow] /\ link[L] \in LinkRow
        /\ link'[L] = [link[L] EXCEPT !.expired = TRUE]
        /\ \A l \in Link : l # L => link'[l] = link[l]
    BY <1>0, <1>1 DEF LinkTypeOK
  <2>2. /\ link'[L] \in LinkRow /\ link'[L].state = link[L].state
        /\ link'[L].user = link[L].user /\ link'[L].kind = link[L].kind
        /\ link'[L].revoked = link[L].revoked
        /\ link'[L].consumed = link[L].consumed
    BY <2>1 DEF LinkRow
  <2> QED BY <1>1, <2>1, <2>2
<1>3. \A q \in Request : linkJob[q].phase # "idle" => linkJob[q].link \in Link
  BY <1>0 DEF LinkTypeOK
<1>4. LinkTypeOK'
  BY <1>0, <1>1, <1>2, <1>3 DEF LinkTypeOK
<1>5. LinksInStep'
  <2>1. \A q \in Request : linkJob[q].phase # "idle" =>
          link'[linkJob[q].link].state = LinkOf(linkJob[q])
    BY <1>0, <1>2, <1>3 DEF LinksInStep
  <2>2. \A l \in Link :
          /\ link'[l].state # "none" => link'[l].user \in User
          /\ link'[l].state # "stored" =>
               ~ link'[l].revoked /\ ~ link'[l].consumed /\ ~ link'[l].expired
    BY <1>0, <1>1, <1>2 DEF LinksInStep
  <2> QED BY <1>0, <1>1, <2>1, <2>2 DEF LinksInStep
<1>6. CopiesBind'
  BY <1>0, <1>1, <1>2, <1>3 DEF CopiesBind, LinksInStep
<1>7. \A w, h : Inserting(w, h)' = Inserting(w, h)
  BY <1>1, <1>2, <1>3 DEF Inserting
<1>8. FewLiveLinks'
  <2>1. \A w, h : Unrevoked(w, h)' = Unrevoked(w, h)
    BY <1>2 DEF Unrevoked
  <2> QED BY <1>0, <1>7, <2>1, FewerLinks
<1>9. SomeLinkLeft'
  <2>1. \A l \in Link : \A w \in User : \A h \in Kind :
           StoredFor(l, w, h)' <=> StoredFor(l, w, h)
    BY <1>2 DEF StoredFor
  <2> QED BY <1>0, <1>1, <1>2, <1>7, <2>1, LinkStillLeft
<1> QED BY <1>4, <1>5, <1>6, <1>8, <1>9 DEF LinkIndInv

-----------------------------------------------------------------------------
LEMMA LinksStart == LinkInit => LinkIndInv
<1> SUFFICES ASSUME LinkInit PROVE LinkIndInv
  OBVIOUS
<1>1. /\ \A p \in Request : linkJob[p] = LinkIdle
      /\ LinkIdle.phase = "idle" /\ LinkIdle.op = Null /\ LinkIdle \in LinkJob
  BY DEF LinkInit, LinkIdle, LinkJob, Status
<1>2. \A l \in Link :
        /\ link[l].state = "none" /\ ~ link[l].revoked /\ ~ link[l].consumed
        /\ ~ link[l].expired /\ link[l] \in LinkRow
  BY DEF LinkInit, LinkRow, Kind
<1>3. LinkTypeOK
  BY <1>1, <1>2 DEF LinkInit, LinkTypeOK, Status
<1>4. LinksInStep /\ CopiesBind
  BY <1>1, <1>2 DEF LinksInStep, CopiesBind
<1>5. FewLiveLinks
  <2>1. \A u, k : Unrevoked(u, k) = {} /\ Inserting(u, k) = {}
    BY <1>1, <1>2 DEF Unrevoked, Inserting
  <2>2. Cardinality({}) = 0 /\ Cardinality(Request) \in Nat
    BY FS_EmptySet, FS_CardinalityType
  <2> QED BY <2>1, <2>2 DEF FewLiveLinks
<1>6. SomeLinkLeft
  BY <1>2 DEF SomeLinkLeft
<1> QED BY <1>3, <1>4, <1>5, <1>6 DEF LinkIndInv

LEMMA LinksStep == LinkIndInv /\ [LinkNext]_linkVars => LinkIndInv'
<1> SUFFICES ASSUME LinkIndInv, [LinkNext]_linkVars
             PROVE  LinkIndInv'
  OBVIOUS
<1>1. ASSUME NEW p \in Request,
             \/ BeginSend(p) \/ SendMail(p) \/ RevokePrior(p) \/ InsertLink(p)
             \/ Resolve(p) \/ SetCredential(p) \/ SelectLinkRow(p)
             \/ SaveConsumed(p) \/ SelectUser(p) \/ SaveUser(p)
             \/ EndSessions(p) \/ AuditLink(p) \/ FailLink(p)
      PROVE  LinkIndInv'
  BY <1>1, BeginSendKeeps, SendMailKeeps, RevokePriorKeeps, InsertLinkKeeps,
     ResolveLinkKeeps, AdvanceKeeps, SaveConsumedKeeps, SaveUserKeeps, EndKeepsLinks
<1>2. ASSUME NEW u \in User, SetStatus(u)
      PROVE  LinkIndInv'
  BY <1>2, SetStatusKeeps
<1>3. ASSUME NEW l \in Link, ExpireLink(l)
      PROVE  LinkIndInv'
  BY <1>3, ExpireLinkKeeps
<1>4. CASE UNCHANGED linkVars
  BY <1>4 DEF linkVars, LinkIndInv, LinkTypeOK, FewLiveLinks, SomeLinkLeft,
       LinksInStep, CopiesBind, Unrevoked, Inserting
<1> QED BY <1>1, <1>2, <1>3, <1>4 DEF LinkNext

(* However sends and uses of links overlap and fail, nobody has more links *)
(* that can be used than requests can overlap, and nobody is left without  *)
(* one but by an insert that failed after the revocation                   *)
(* (invite.service.ts, password-reset.service.ts).                         *)
THEOREM LinksInvariance == LinkSpec => []LinkIndInv
<1> QED BY LinksStart, LinksStep, PTL DEF LinkSpec

(* A link once dead is not made usable again by the copies that uses under *)
(* way still save, and no use begins with it.                              *)
THEOREM DeadLinksStayDead == LinkSpec => DeadStaysDead
<1>1. ASSUME LinkIndInv, [LinkNext]_linkVars, NEW l \in Link,
             link[l].state = "stored", ~ Live(link[l])
      PROVE  ~ Live(link'[l]) /\ Using(l)' \subseteq Using(l)
  <2>0. LinkTypeOK /\ LinksInStep
    BY <1>1 DEF LinkIndInv
  <2>1. ASSUME NEW p \in Request, Resolve(p)
        PROVE  ~ Live(link'[l]) /\ Using(l)' \subseteq Using(l)
    <3>1. link' = link
      BY <2>1 DEF Resolve
    <3>2. PICK m \in Link : Live(link[m]) /\ LinkGoto(p,
            [phase |-> "credential", op |-> "use", link |-> m,
             status |-> status[link[m].user],
             verified |-> link[m].user \in verified])
      BY <2>1 DEF Resolve
    <3>3. \A q \in Request : linkJob'[q] = IF q = p THEN
            [phase |-> "credential", op |-> "use", link |-> m,
             status |-> status[link[m].user],
             verified |-> link[m].user \in verified] ELSE linkJob[q]
      BY <2>0, <3>2 DEF LinkGoto, LinkTypeOK
    <3>4. m # l
      BY <1>1, <3>2
    <3> QED BY <1>1, <3>1, <3>3, <3>4 DEF Using, Live
  <2>2. ASSUME NEW p \in Request,
               \/ SendMail(p) \/ RevokePrior(p) \/ InsertLink(p)
               \/ SetCredential(p) \/ SelectLinkRow(p) \/ SaveConsumed(p)
               \/ SelectUser(p) \/ SaveUser(p) \/ EndSessions(p)
        PROVE  ~ Live(link'[l]) /\ Using(l)' \subseteq Using(l)
    <3>1. PICK ph \in LinkPhase : LinkAdvance(p, ph)
      BY <2>2 DEF SendMail, RevokePrior, InsertLink, SetCredential,
           SelectLinkRow, SaveConsumed, SelectUser, SaveUser, EndSessions, LinkPhase
    <3>2. \A q \in Request : linkJob'[q].op = linkJob[q].op
                             /\ linkJob'[q].link = linkJob[q].link
      BY <2>0, <3>1, Advanced DEF LinkTypeOK
    <3>3. Using(l)' = Using(l)
      BY <3>2 DEF Using
    <3>4. link[l] \in LinkRow /\ link \in [Link -> LinkRow]
      BY <2>0 DEF LinkTypeOK
    <3>5. CASE link'[l] = link[l]
      BY <1>1, <3>3, <3>5
    <3>6. CASE SendMail(p) \/ InsertLink(p)
      <4>1. linkJob[p].phase \in {"mail", "insert"}
        BY <3>6 DEF SendMail, InsertLink
      <4>2. link[linkJob[p].link].state # "stored"
        BY <2>0, <4>1 DEF LinksInStep, LinkOf
      <4>3. link'[l] = link[l]
        BY <1>1, <3>4, <3>6, <4>2 DEF SendMail, InsertLink
      <4> QED BY <1>1, <3>3, <4>3
    <3>7. CASE RevokePrior(p)
      <4>1. link'[l] = link[l] \/ link'[l] = [link[l] EXCEPT !.revoked = TRUE]
        BY <3>7 DEF RevokePrior
      <4>2. link'[l] = link[l] \/ link'[l].revoked
        BY <4>1, <3>4 DEF LinkRow
      <4> QED BY <1>1, <3>3, <4>2 DEF Live
    <3>8. CASE SaveConsumed(p)
      <4>1. link' = [link EXCEPT ![linkJob[p].link].consumed = TRUE,
                 ![linkJob[p].link].revoked = @ /\ "revoked" \notin differs[p]]
        BY <3>8 DEF SaveConsumed
      <4>2. link'[l] = link[l] \/ link'[l].consumed
        BY <4>1, <3>4 DEF LinkRow
      <4> QED BY <1>1, <3>3, <4>2 DEF Live
    <3>9. CASE \/ SetCredential(p) \/ SelectLinkRow(p) \/ SelectUser(p)
               \/ SaveUser(p) \/ EndSessions(p)
      BY <3>5, <3>9 DEF SetCredential, SelectLinkRow, SelectUser, SaveUser,
           EndSessions
    <3> QED BY <2>2, <3>6, <3>7, <3>8, <3>9
  <2>3. ASSUME NEW p \in Request, AuditLink(p) \/ FailLink(p)
        PROVE  ~ Live(link'[l]) /\ Using(l)' \subseteq Using(l)
    <3>1. link' = link /\ linkJob' = [linkJob EXCEPT ![p] = LinkIdle]
      BY <2>3 DEF AuditLink, FailLink, LinkEnd, LinkGoto
    <3>2. LinkIdle.op # "use"
      BY DEF LinkIdle
    <3>3. \A q \in Request : linkJob'[q] = IF q = p THEN LinkIdle ELSE linkJob[q]
      BY <2>0, <3>1 DEF LinkTypeOK
    <3> QED BY <1>1, <3>1, <3>2, <3>3 DEF Using
  <2>4. ASSUME NEW p \in Request, BeginSend(p)
        PROVE  ~ Live(link'[l]) /\ Using(l)' \subseteq Using(l)
    <3>1. PICK m \in Link, u \in User, k \in Kind :
            /\ link[m].state = "none"
            /\ link' = [link EXCEPT ![m].kind = k, ![m].user = u]
            /\ linkJob' = [linkJob EXCEPT ![p] =
                 [LinkIdle EXCEPT !.phase = "mail", !.op = "send", !.link = m]]
      BY <2>4 DEF BeginSend, LinkGoto
    <3>2. m # l /\ link'[l] = link[l]
      BY <1>1, <2>0, <3>1 DEF LinkTypeOK
    <3>3. [LinkIdle EXCEPT !.phase = "mail", !.op = "send", !.link = m].op # "use"
      BY DEF LinkIdle
    <3>4. \A q \in Request : linkJob'[q] = linkJob[q] \/ linkJob'[q].op # "use"
      BY <2>0, <3>1, <3>3 DEF LinkTypeOK
    <3> QED BY <1>1, <3>2, <3>4 DEF Using
  <2>5. ASSUME NEW u \in User, SetStatus(u)
        PROVE  ~ Live(link'[l]) /\ Using(l)' \subseteq Using(l)
    BY <1>1, <2>5 DEF SetStatus, Using
  <2>6. ASSUME NEW m \in Link, ExpireLink(m)
        PROVE  ~ Live(link'[l]) /\ Using(l)' \subseteq Using(l)
    <3>1. m # l
      BY <1>1, <2>6 DEF ExpireLink
    <3>2. link'[l] = link[l]
      BY <3>1, <2>0, <2>6 DEF ExpireLink, LinkTypeOK
    <3> QED BY <1>1, <2>6, <3>2 DEF ExpireLink, Using
  <2>7. CASE UNCHANGED linkVars
    BY <1>1, <2>7 DEF linkVars, Using
  <2> QED BY <1>1, <2>1, <2>2, <2>3, <2>4, <2>5, <2>6, <2>7 DEF LinkNext
<1>2. LinkIndInv /\ [LinkNext]_linkVars =>
        [\A l \in Link :
           (link[l].state = "stored" /\ ~ Live(link[l])) =>
             ~ Live(link'[l]) /\ Using(l)' \subseteq Using(l)]_linkVars
  BY <1>1
<1> QED BY <1>2, LinksInvariance, PTL DEF LinkSpec, DeadStaysDead

(* Only an administrator, or an acceptance that was under way when the user *)
(* was deactivated, brings a deactivated user back.                        *)
THEOREM RevivalByOverlapOnly == LinkSpec => RevivedByOverlap
<1>1. ASSUME LinkIndInv, [LinkNext]_linkVars, NEW u \in User,
             status[u] = "deactivated", status'[u] # "deactivated"
      PROVE  \/ linkJob' = linkJob
             \/ \E p \in shutOut[u] : linkJob'[p] # linkJob[p]
  <2>0. LinkTypeOK /\ LinksInStep /\ CopiesBind
    BY <1>1 DEF LinkIndInv
  <2>1. \/ \E p \in Request : SaveUser(p)
        \/ \E v \in User : SetStatus(v)
    BY <1>1 DEF LinkNext, linkVars, BeginSend, SendMail, RevokePrior, InsertLink,
         Resolve, SetCredential, SelectLinkRow, SaveConsumed, SelectUser,
         EndSessions, AuditLink, FailLink, ExpireLink, UserColumns
  <2>2. ASSUME NEW p \in Request, SaveUser(p)
        PROVE  p \in shutOut[u] /\ linkJob'[p] # linkJob[p]
    <3>1. linkJob[p].phase = "saving" /\ LinkAdvance(p, "end")
      BY <2>2 DEF SaveUser
    <3>2. linkJob[p].op = "use" /\ link[linkJob[p].link].user \in User
      BY <2>0, <3>1, JobKnown DEF SendPhase
    <3>3. u = link[linkJob[p].link].user /\ linkJob[p].status # "deactivated"
      BY <1>1, <2>0, <2>2 DEF SaveUser, LinkTypeOK, AcceptedStatus
    <3>4. p \in shutOut[u]
      BY <1>1, <2>0, <3>1, <3>2, <3>3 DEF CopiesBind
    <3>5. linkJob'[p].phase = "end"
      BY <2>0, <3>1, Advanced DEF LinkTypeOK, LinkPhase
    <3> QED BY <3>1, <3>4, <3>5
  <2>3. ASSUME NEW v \in User, SetStatus(v)
        PROVE  linkJob' = linkJob
    BY <2>3 DEF SetStatus
  <2> QED BY <2>1, <2>2, <2>3
<1>2. LinkIndInv /\ [LinkNext]_linkVars =>
        [\A u \in User :
           (status[u] = "deactivated" /\ status'[u] # "deactivated") =>
             \/ linkJob' = linkJob
             \/ \E p \in shutOut[u] : linkJob'[p] # linkJob[p]]_linkVars
  BY <1>1
<1> QED BY <1>2, LinksInvariance, PTL DEF LinkSpec, RevivedByOverlap
=============================================================================
