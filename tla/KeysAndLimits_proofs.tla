------------------------ MODULE KeysAndLimits_proofs ------------------------
(***************************************************************************)
(* Proofs about the signing keys, the rate limits and the connection pool, *)
(* for any finite number of requests at a time, any number of keys,        *)
(* accounts and addresses, limits and windows of any size, and any pool    *)
(* that is large enough.                                                   *)
(***************************************************************************)
EXTENDS SigningKeys, RateLimits, ConnectionPool, FiniteSetTheorems, TLAPS

USE RequestAssumption, KeyAssumption

-----------------------------------------------------------------------------
(* The phases in which a request has a key.                                *)
Using == {"use", "user", "client", "answer"}

JobTyped(j) ==
  /\ j \in KeyJob
  /\ j.phase \in Using => j.key \in Key
  /\ j.phase # "idle" /\ j.op \in {"userInfo", "verifyIdTokenHint"} =>
       j.token \in Key

(* What the request relies on is among S, in particular among what it has  *)
(* seen active.                                                            *)
GroundedIn(j, S) ==
  /\ j.phase \in Using => j.key \in S
  /\ j.phase \in {"client", "answer"} => "user" \in S
  /\ j.phase = "answer" => "client" \in S

Grounded(j) == GroundedIn(j, j.seen)

(* It has seen all that is active now.                                     *)
UpToDate(j) == j.phase # "idle" => ActiveKeys \cup people \subseteq j.seen

(* The types of all but the requests.                                      *)
TablesTyped ==
  /\ keyStatus \in [Key -> KeyStatus]
  /\ people \subseteq Person
  /\ issued \subseteq Key
  /\ unexpired \subseteq issued
  /\ made \in Nat

JobsGood ==
  /\ keyJob \in [Request -> KeyJob]
  /\ \A p \in Request :
       JobTyped(keyJob[p]) /\ Grounded(keyJob[p]) /\ UpToDate(keyJob[p])

(* The invariant, request by request.                                      *)
LEMMA ByRequest ==
  KeyIndInv <=> /\ TablesTyped
                /\ JobsGood
                /\ BoundedCreation
                /\ ActiveKeys = {} => made = 0
BY DEF KeyIndInv, KeyTypeOK, UsedWasActive, SeesWhatIsActive, TablesTyped,
       JobsGood, JobTyped, Grounded, GroundedIn, UpToDate, Using

(* The same of the next state.                                             *)
LEMMA ByRequestNext ==
  ASSUME TablesTyped', JobsGood', BoundedCreation',
         (ActiveKeys = {} => made = 0)'
  PROVE  KeyIndInv'
BY DEF KeyIndInv, KeyTypeOK, UsedWasActive, SeesWhatIsActive, TablesTyped,
       JobsGood, JobTyped, Grounded, GroundedIn, UpToDate, Using

(* A slot that does nothing.                                               *)
LEMMA IdleGood ==
  /\ JobTyped(KeyIdle) /\ Grounded(KeyIdle) /\ UpToDate(KeyIdle)
  /\ KeyIdle.phase = "idle"
BY DEF JobTyped, Grounded, GroundedIn, UpToDate, KeyIdle, KeyJob, KeyUse, Using

-----------------------------------------------------------------------------
(* Counting.                                                               *)

(* The requests that are creating a key are some of the requests.          *)
LEMMA CreatingFinite ==
  /\ IsFiniteSet(Creating)
  /\ Cardinality(Creating) \in Nat /\ Cardinality(Request) \in Nat
  /\ Cardinality(Creating) <= Cardinality(Request)
<1>1. Creating \subseteq Request
  BY DEF Creating
<1> QED
  BY <1>1, FS_Subset, FS_CardinalityType

(* No more keys made and no more requests creating one: the bound holds.   *)
LEMMA StillBounded ==
  ASSUME KeyIndInv, made' \in Nat, made' <= made, Creating' \subseteq Creating
  PROVE  BoundedCreation'
<1>1. /\ IsFiniteSet(Creating)
      /\ Cardinality(Creating) \in Nat /\ Cardinality(Request) \in Nat
  BY CreatingFinite
<1>2. /\ Cardinality(Creating') \in Nat
      /\ Cardinality(Creating') <= Cardinality(Creating)
  BY <1>1, FS_Subset, FS_CardinalityType
<1>3. made + Cardinality(Creating) <= Cardinality(Request) /\ made \in Nat
  BY ByRequest DEF BoundedCreation, TablesTyped
<1> QED
  BY <1>1, <1>2, <1>3 DEF BoundedCreation

(* With none made, there are at most as many as requests.                  *)
LEMMA NoneMade ==
  ASSUME made' = 0
  PROVE  BoundedCreation'
<1>1. Creating' \subseteq Request
  BY DEF Creating
<1>2. /\ Cardinality(Creating') \in Nat
      /\ Cardinality(Creating') <= Cardinality(Request)
  BY <1>1, FS_Subset, FS_CardinalityType
<1> QED
  BY <1>2 DEF BoundedCreation

-----------------------------------------------------------------------------
(* A step of one request that leaves the keys and people alone.            *)
LEMMA OneGoes ==
  ASSUME KeyIndInv, NEW p \in Request, NEW j,
         JobTyped(j), Grounded(j), UpToDate(j), KeyGoto(p, j),
         j.phase # "create" \/ ActiveKeys = {},
         UNCHANGED <<keyStatus, people, made>>,
         issued' \subseteq Key, unexpired' \subseteq issued'
  PROVE  KeyIndInv'
<1>1. \A q \in Request : keyJob'[q] = IF q = p THEN j ELSE keyJob[q]
  BY ByRequest DEF KeyGoto, JobsGood
<1>2. TablesTyped'
  BY ByRequest DEF TablesTyped
<1>3. JobsGood'
  <2>1. keyJob' \in [Request -> KeyJob]
    BY ByRequest DEF KeyGoto, JobsGood, JobTyped
  <2>2. \A q \in Request : (JobTyped(keyJob[q]) /\ Grounded(keyJob[q]))'
    BY <1>1, ByRequest DEF JobsGood, JobTyped, Grounded, GroundedIn
  <2>3. \A q \in Request : UpToDate(keyJob[q])'
    BY <1>1, ByRequest DEF JobsGood, UpToDate, ActiveKeys
  <2> QED
    BY <2>1, <2>2, <2>3 DEF JobsGood
<1>4. (ActiveKeys = {} => made = 0)'
  BY ByRequest DEF ActiveKeys
<1>5. BoundedCreation'
  <2>1. CASE j.phase # "create"
    <3>1. Creating' \subseteq Creating
      BY <1>1, <2>1 DEF Creating
    <3> QED
      BY <3>1, StillBounded, ByRequest DEF TablesTyped
  <2>2. CASE ActiveKeys = {}
    BY <2>2, NoneMade, ByRequest
  <2> QED
    BY <2>1, <2>2
<1> QED
  BY <1>2, <1>3, <1>4, <1>5, ByRequestNext

(* The end of a request, by an answer, a refusal or a failure.             *)
LEMMA EndKeeps ==
  ASSUME KeyIndInv, NEW p \in Request, KeyEnd(p),
         UNCHANGED <<keyStatus, people, made>>,
         issued' \subseteq Key, unexpired' \subseteq issued'
  PROVE  KeyIndInv'
BY IdleGood, OneGoes DEF KeyEnd

(* The same where tokens do not change either.                             *)
LEMMA PlainEndKeeps ==
  ASSUME KeyIndInv, NEW p \in Request, KeyEnd(p),
         UNCHANGED <<keyStatus, people, issued, unexpired, made>>
  PROVE  KeyIndInv'
BY EndKeeps, ByRequest DEF TablesTyped

(* Another phase of the same request.                                      *)
LEMMA AdvanceKeeps ==
  ASSUME KeyIndInv, NEW p \in Request,
         NEW ph \in {"create", "user", "client", "answer"}, KeyAdvance(p, ph),
         keyJob[p].phase # "idle",
         ph = "create" => ActiveKeys = {},
         ph # "create" => keyJob[p].phase \in Using,
         ph \in {"client", "answer"} => "user" \in keyJob[p].seen,
         ph = "answer" => "client" \in keyJob[p].seen,
         UNCHANGED <<keyStatus, people, issued, unexpired, made>>
  PROVE  KeyIndInv'
<1> DEFINE j == [keyJob[p] EXCEPT !.phase = ph]
<1>1. /\ keyJob[p] \in KeyJob /\ JobTyped(keyJob[p])
      /\ Grounded(keyJob[p]) /\ UpToDate(keyJob[p])
  BY ByRequest DEF JobsGood
<1>2. /\ j \in KeyJob /\ j.phase = ph /\ j.key = keyJob[p].key
      /\ j.op = keyJob[p].op /\ j.token = keyJob[p].token
      /\ j.seen = keyJob[p].seen
  BY <1>1 DEF KeyJob
<1>3. KeyGoto(p, j)
  BY DEF KeyAdvance
<1> HIDE DEF j
<1>4. JobTyped(j)
  BY <1>1, <1>2 DEF JobTyped, Using
<1>5. Grounded(j)
  BY <1>1, <1>2 DEF Grounded, GroundedIn, Using
<1>6. UpToDate(j)
  BY <1>1, <1>2 DEF UpToDate
<1>7. issued \subseteq Key /\ unexpired \subseteq issued
  BY ByRequest DEF TablesTyped
<1> QED
  BY <1>2, <1>3, <1>4, <1>5, <1>6, <1>7, OneGoes

-----------------------------------------------------------------------------
(* The steps of a request.                                                 *)

(* A request begins.                                                       *)
LEMMA BeginKeeps ==
  ASSUME KeyIndInv, NEW p \in Request, BeginKeyUse(p)
  PROVE  KeyIndInv'
<1>1. issued \subseteq Key /\ unexpired \subseteq issued
      /\ people \subseteq Person /\ ActiveKeys \subseteq Key
  BY ByRequest DEF TablesTyped, ActiveKeys
<1>2. PICK op \in KeyUse, t \in issued \cup {Null} :
        /\ (t = Null) = (op \in {"jwks", "sign"})
        /\ KeyGoto(p, [phase |-> "find", op |-> op, token |-> t,
                       key |-> Null, seen |-> ActiveKeys \cup people])
  BY DEF BeginKeyUse
<1> DEFINE j == [phase |-> "find", op |-> op, token |-> t,
                 key |-> Null, seen |-> ActiveKeys \cup people]
<1>3. JobTyped(j)
  BY <1>1, <1>2 DEF JobTyped, KeyJob, KeyUse, Using
<1>4. Grounded(j) /\ UpToDate(j) /\ j.phase # "create"
  BY DEF Grounded, GroundedIn, UpToDate, Using
<1>5. KeyGoto(p, j)
  BY <1>2
<1> HIDE DEF j
<1> QED
  BY <1>1, <1>3, <1>4, <1>5, OneGoes DEF BeginKeyUse

(* An active key is found, which the request has seen; or there is none,    *)
(* and so none has been made.                                              *)
LEMMA FindKeeps ==
  ASSUME KeyIndInv, NEW p \in Request, FindKey(p)
  PROVE  KeyIndInv'
<1>1. /\ keyJob[p] \in KeyJob /\ JobTyped(keyJob[p])
      /\ UpToDate(keyJob[p]) /\ keyJob[p].phase = "find"
      /\ issued \subseteq Key /\ unexpired \subseteq issued
  BY ByRequest DEF JobsGood, TablesTyped, FindKey
<1>2. ASSUME NEW k \in ActiveKeys,
             KeyGoto(p, [keyJob[p] EXCEPT !.phase = "use", !.key = k])
      PROVE  KeyIndInv'
  <2> DEFINE j == [keyJob[p] EXCEPT !.phase = "use", !.key = k]
  <2>1. k \in Key
    BY DEF ActiveKeys
  <2>2. /\ j \in KeyJob /\ j.phase = "use" /\ j.key = k
        /\ j.op = keyJob[p].op /\ j.token = keyJob[p].token
        /\ j.seen = keyJob[p].seen
    BY <1>1, <2>1 DEF KeyJob
  <2>3. KeyGoto(p, j)
    BY <1>2
  <2> HIDE DEF j
  <2>4. JobTyped(j) /\ Grounded(j) /\ UpToDate(j)
    BY <1>1, <2>1, <2>2 DEF JobTyped, Grounded, GroundedIn, UpToDate, Using
  <2> QED
    BY <1>1, <2>2, <2>3, <2>4, OneGoes DEF FindKey
<1>3. CASE ActiveKeys = {} /\ KeyAdvance(p, "create")
  BY <1>1, <1>3, AdvanceKeeps DEF FindKey
<1> QED
  BY <1>2, <1>3 DEF FindKey

(* Everyone running takes note of what has become active.                   *)
LEMMA WitnessGood ==
  ASSUME NEW x \in Key \cup Person,
         NEW jobs, jobs \in [Request -> KeyJob],
         \A q \in Request : JobTyped(jobs[q]),
         \A q \in Request : jobs[q].phase # "idle" =>
           /\ GroundedIn(jobs[q], jobs[q].seen \cup {x})
           /\ ActiveKeys' \cup people' \subseteq jobs[q].seen \cup {x},
         keyJob' = Witnessed(jobs, x)
  PROVE  /\ JobsGood'
         /\ \A q \in Request : keyJob'[q].phase = jobs[q].phase
<1>1. \A q \in Request :
        keyJob'[q] = IF jobs[q].phase = "idle" THEN jobs[q]
                     ELSE [jobs[q] EXCEPT !.seen = @ \cup {x}]
  BY DEF Witnessed
<1>2. \A q \in Request :
        LET j == [jobs[q] EXCEPT !.seen = @ \cup {x}] IN
        /\ j \in KeyJob /\ j.phase = jobs[q].phase /\ j.key = jobs[q].key
        /\ j.op = jobs[q].op /\ j.token = jobs[q].token
        /\ j.seen = jobs[q].seen \cup {x}
  BY DEF KeyJob
<1>3. keyJob' \in [Request -> KeyJob]
  <2>1. keyJob' = [q \in Request |-> keyJob'[q]]
    BY DEF Witnessed
  <2>2. \A q \in Request : keyJob'[q] \in KeyJob
    BY <1>1, <1>2
  <2> QED
    BY <2>1, <2>2
<1>4. \A q \in Request :
        (JobTyped(keyJob[q]) /\ Grounded(keyJob[q]) /\ UpToDate(keyJob[q]))'
  <2> SUFFICES ASSUME NEW q \in Request
               PROVE  (JobTyped(keyJob[q]) /\ Grounded(keyJob[q])
                         /\ UpToDate(keyJob[q]))'
    OBVIOUS
  <2>1. CASE jobs[q].phase = "idle"
    BY <1>1, <2>1 DEF JobTyped, Grounded, GroundedIn, UpToDate, Using
  <2>2. CASE jobs[q].phase # "idle"
    <3> DEFINE j == [jobs[q] EXCEPT !.seen = @ \cup {x}]
    <3>1. keyJob'[q] = j
      BY <1>1, <2>2
    <3>2. /\ j \in KeyJob /\ j.phase = jobs[q].phase /\ j.key = jobs[q].key
          /\ j.op = jobs[q].op /\ j.token = jobs[q].token
          /\ j.seen = jobs[q].seen \cup {x}
      BY <1>2
    <3> HIDE DEF j
    <3>3. JobTyped(keyJob[q])'
      BY <3>1, <3>2 DEF JobTyped
    <3>4. Grounded(keyJob[q])'
      BY <2>2, <3>1, <3>2 DEF Grounded, GroundedIn
    <3>5. UpToDate(keyJob[q])'
      BY <2>2, <3>1, <3>2 DEF UpToDate
    <3> QED
      BY <3>3, <3>4, <3>5
  <2> QED
    BY <2>1, <2>2
<1>5. \A q \in Request : keyJob'[q].phase = jobs[q].phase
  BY <1>1, <1>2
<1> QED
  BY <1>3, <1>4, <1>5 DEF JobsGood

(* A key is made: one more made and one request less that is making one.   *)
LEMMA CreateKeeps ==
  ASSUME KeyIndInv, NEW p \in Request, CreateKey(p)
  PROVE  KeyIndInv'
<1>1. PICK k \in Key :
        /\ keyStatus[k] = "none"
        /\ keyStatus' = [keyStatus EXCEPT ![k] = "active"]
        /\ keyJob' = Witnessed([keyJob EXCEPT ![p].phase = "use",
                                              ![p].key = k], k)
  BY DEF CreateKey
<1>2. /\ keyJob \in [Request -> KeyJob] /\ keyJob[p].phase = "create"
      /\ \A q \in Request : /\ JobTyped(keyJob[q]) /\ Grounded(keyJob[q])
                            /\ UpToDate(keyJob[q])
      /\ TablesTyped /\ BoundedCreation
  BY ByRequest DEF JobsGood, CreateKey
<1> DEFINE jobs == [keyJob EXCEPT ![p].phase = "use", ![p].key = k]
           own == [keyJob[p] EXCEPT !.phase = "use", !.key = k]
<1>3. /\ own \in KeyJob /\ own.phase = "use" /\ own.key = k
      /\ own.op = keyJob[p].op /\ own.token = keyJob[p].token
      /\ own.seen = keyJob[p].seen
  BY <1>2 DEF KeyJob
<1>4. /\ jobs \in [Request -> KeyJob]
      /\ \A q \in Request : jobs[q] = IF q = p THEN own ELSE keyJob[q]
  BY <1>2, <1>3 DEF KeyJob
<1>5. keyJob' = Witnessed(jobs, k)
  BY <1>1
<1>6. ActiveKeys' = ActiveKeys \cup {k} /\ people' = people
  BY <1>1, <1>2 DEF ActiveKeys, CreateKey, TablesTyped
<1> HIDE DEF jobs, own
<1>7. JobTyped(own)
  BY <1>2, <1>3 DEF JobTyped, Using
<1>8. GroundedIn(own, own.seen \cup {k})
  BY <1>3 DEF GroundedIn
<1>9. \A q \in Request : jobs[q].phase # "idle" =>
        /\ GroundedIn(jobs[q], jobs[q].seen \cup {k})
        /\ ActiveKeys' \cup people' \subseteq jobs[q].seen \cup {k}
  BY <1>2, <1>3, <1>4, <1>6, <1>8 DEF Grounded, GroundedIn, UpToDate
<1>10. \A q \in Request : JobTyped(jobs[q])
  BY <1>2, <1>4, <1>7
<1>11. /\ JobsGood'
       /\ \A q \in Request : keyJob'[q].phase = jobs[q].phase
  BY <1>4, <1>5, <1>9, <1>10, WitnessGood
<1>12. TablesTyped'
  BY <1>1, <1>2 DEF TablesTyped, CreateKey, KeyStatus
<1>13. (ActiveKeys = {} => made = 0)'
  BY <1>6
<1>14. BoundedCreation'
  <2>1. p \in Creating /\ Creating' = Creating \ {p}
    BY <1>2, <1>3, <1>4, <1>11 DEF Creating
  <2>2. /\ Cardinality(Creating') = Cardinality(Creating) - 1
        /\ Cardinality(Creating) \in Nat /\ Cardinality(Request) \in Nat
    BY <2>1, CreatingFinite, FS_RemoveElement
  <2>3. made' = made + 1 /\ made \in Nat
    BY <1>2 DEF CreateKey, TablesTyped
  <2> QED
    BY <1>2, <2>2, <2>3 DEF BoundedCreation
<1> QED
  BY <1>11, <1>12, <1>13, <1>14, ByRequestNext

(* A token is signed with the key the request has found.                   *)
LEMMA SignKeeps ==
  ASSUME KeyIndInv, NEW p \in Request, Sign(p)
  PROVE  KeyIndInv'
<1>1. TablesTyped /\ keyJob[p].key \in Key
  BY ByRequest DEF Sign, JobsGood, JobTyped, Using
<1> QED
  BY <1>1, EndKeeps DEF Sign, TablesTyped

(* A token is verified with the keys read.                                 *)
LEMMA VerifyKeeps ==
  ASSUME KeyIndInv, NEW p \in Request, Verify(p)
  PROVE  KeyIndInv'
<1>1. CASE keyJob[p].op = "userInfo"
  BY <1>1, AdvanceKeeps DEF Verify, Using
<1>2. CASE keyJob[p].op # "userInfo"
  BY <1>2, PlainEndKeeps DEF Verify
<1> QED
  BY <1>1, <1>2

(* The user who is active now has been seen active.                        *)
LEMMA ReadUserKeeps ==
  ASSUME KeyIndInv, NEW p \in Request, ReadUser(p)
  PROVE  KeyIndInv'
<1>1. CASE "user" \in people
  <2>1. "user" \in keyJob[p].seen
    BY <1>1, ByRequest DEF ReadUser, JobsGood, UpToDate
  <2> QED
    BY <1>1, <2>1, AdvanceKeeps DEF ReadUser, Using
<1>2. CASE "user" \notin people
  BY <1>2, PlainEndKeeps DEF ReadUser
<1> QED
  BY <1>1, <1>2

(* And so has the client.                                                  *)
LEMMA ReadClientKeeps ==
  ASSUME KeyIndInv, NEW p \in Request, ReadClient(p)
  PROVE  KeyIndInv'
<1>1. CASE "client" \in people
  <2>1. /\ "client" \in keyJob[p].seen
        /\ "user" \in keyJob[p].seen
    BY <1>1, ByRequest
    DEF ReadClient, JobsGood, UpToDate, Grounded, GroundedIn
  <2> QED
    BY <1>1, <2>1, AdvanceKeeps DEF ReadClient, Using
<1>2. CASE "client" \notin people
  BY <1>2, PlainEndKeeps DEF ReadClient
<1> QED
  BY <1>1, <1>2

-----------------------------------------------------------------------------
(* Operators, administrators and time.                                     *)

(* A key becomes active, and the requests at work take note.               *)
LEMMA AddKeyKeeps ==
  ASSUME KeyIndInv, NEW k \in Key, AddKey(k)
  PROVE  KeyIndInv'
<1>1. /\ keyJob \in [Request -> KeyJob]
      /\ \A q \in Request : /\ JobTyped(keyJob[q]) /\ Grounded(keyJob[q])
                            /\ UpToDate(keyJob[q])
      /\ TablesTyped
  BY ByRequest DEF JobsGood
<1>2. ActiveKeys' = ActiveKeys \cup {k} /\ people' = people
  BY <1>1 DEF ActiveKeys, AddKey, TablesTyped
<1>3. \A q \in Request : keyJob[q].phase # "idle" =>
        /\ GroundedIn(keyJob[q], keyJob[q].seen \cup {k})
        /\ ActiveKeys' \cup people' \subseteq keyJob[q].seen \cup {k}
  BY <1>1, <1>2 DEF Grounded, GroundedIn, UpToDate
<1>4. /\ JobsGood'
      /\ \A q \in Request : keyJob'[q].phase = keyJob[q].phase
  BY <1>1, <1>3, WitnessGood DEF AddKey
<1>5. TablesTyped' /\ made' = made
  BY <1>1 DEF TablesTyped, AddKey, KeyStatus
<1>6. BoundedCreation'
  <2>1. Creating' = Creating
    BY <1>4 DEF Creating
  <2> QED
    BY <1>1, <1>5, <2>1, StillBounded DEF TablesTyped
<1> QED
  BY <1>2, <1>4, <1>5, <1>6, ByRequestNext

(* The last active key goes: the count begins anew.                        *)
LEMMA DisableKeyKeeps ==
  ASSUME KeyIndInv, NEW k \in Key, DisableKey(k)
  PROVE  KeyIndInv'
<1>1. TablesTyped /\ JobsGood
  BY ByRequest
<1>2. ActiveKeys' = ActiveKeys \ {k} /\ people' = people
  BY <1>1 DEF ActiveKeys, DisableKey, TablesTyped
<1>3. JobsGood'
  BY <1>1, <1>2 DEF JobsGood, JobTyped, Grounded, GroundedIn, UpToDate,
                    DisableKey
<1>4. TablesTyped' /\ made' <= made
  BY <1>1 DEF TablesTyped, DisableKey, KeyStatus
<1>5. (ActiveKeys = {} => made = 0)'
  BY <1>2 DEF DisableKey, ActiveKeys
<1>6. BoundedCreation'
  <2>1. Creating' = Creating
    BY DEF Creating, DisableKey
  <2> QED
    BY <1>4, <2>1, StillBounded DEF TablesTyped
<1> QED
  BY <1>3, <1>4, <1>5, <1>6, ByRequestNext

(* A user or client is switched on or off.                                 *)
LEMMA SwitchKeeps ==
  ASSUME KeyIndInv, NEW x \in Person, SwitchPerson(x)
  PROVE  KeyIndInv'
<1>1. /\ keyJob \in [Request -> KeyJob]
      /\ \A q \in Request : /\ JobTyped(keyJob[q]) /\ Grounded(keyJob[q])
                            /\ UpToDate(keyJob[q])
      /\ TablesTyped
  BY ByRequest DEF JobsGood
<1>2. ActiveKeys' = ActiveKeys /\ made' = made
  BY DEF ActiveKeys, SwitchPerson
<1>3. /\ JobsGood'
      /\ \A q \in Request : keyJob'[q].phase = keyJob[q].phase
  <2>1. CASE x \in people
    BY <1>1, <1>2, <2>1
    DEF SwitchPerson, JobsGood, JobTyped, Grounded, GroundedIn, UpToDate
  <2>2. CASE x \notin people
    <3>1. \A q \in Request : keyJob[q].phase # "idle" =>
            /\ GroundedIn(keyJob[q], keyJob[q].seen \cup {x})
            /\ ActiveKeys' \cup people' \subseteq keyJob[q].seen \cup {x}
      BY <1>1, <1>2, <2>2 DEF Grounded, GroundedIn, UpToDate, SwitchPerson
    <3> QED
      BY <1>1, <2>2, <3>1, WitnessGood DEF SwitchPerson
  <2> QED
    BY <2>1, <2>2
<1>4. TablesTyped'
  BY <1>1 DEF TablesTyped, SwitchPerson
<1>5. BoundedCreation'
  <2>1. Creating' = Creating
    BY <1>3 DEF Creating
  <2> QED
    BY <1>1, <1>2, <2>1, StillBounded DEF TablesTyped
<1> QED
  BY <1>2, <1>3, <1>4, <1>5, ByRequest, ByRequestNext

(* What only changes which tokens have expired, or nothing.                *)
LEMMA ExpireKeeps ==
  ASSUME KeyIndInv, unexpired' \subseteq unexpired,
         UNCHANGED <<keyStatus, people, issued, made, keyJob>>
  PROVE  KeyIndInv'
<1>1. TablesTyped'
  BY ByRequest DEF TablesTyped
<1>2. JobsGood'
  BY ByRequest DEF JobsGood, JobTyped, Grounded, UpToDate, ActiveKeys
<1>3. BoundedCreation' /\ (ActiveKeys = {} => made = 0)'
  BY ByRequest DEF BoundedCreation, Creating, ActiveKeys
<1> QED
  BY <1>1, <1>2, <1>3, ByRequestNext

-----------------------------------------------------------------------------
(* No key, no token, no request.                                           *)
LEMMA InitHolds == KeyInit => KeyIndInv
<1> SUFFICES ASSUME KeyInit PROVE KeyIndInv
  OBVIOUS
<1>1. TablesTyped
  BY DEF KeyInit, TablesTyped, KeyStatus
<1>2. \A p \in Request : keyJob[p] = KeyIdle
  BY DEF KeyInit
<1>3. JobsGood
  BY <1>2, IdleGood DEF KeyInit, JobsGood, JobTyped
<1>4. BoundedCreation /\ made = 0
  <2>1. made = 0
    BY DEF KeyInit
  <2> QED
    BY <2>1, CreatingFinite DEF BoundedCreation
<1> QED
  BY <1>1, <1>3, <1>4, ByRequest

(* Every step keeps the invariant.                                         *)
LEMMA StepKeeps == KeyIndInv /\ [KeyNext]_keyVars => KeyIndInv'
<1> SUFFICES ASSUME KeyIndInv, [KeyNext]_keyVars PROVE KeyIndInv'
  OBVIOUS
<1>1. ASSUME NEW p \in Request, KeyStep(p) PROVE KeyIndInv'
  <2>1. CASE ServeJwks(p) \/ Refuse(p) \/ AnswerClaims(p) \/ FailKeyUse(p)
    BY <2>1, PlainEndKeeps DEF ServeJwks, Refuse, AnswerClaims, FailKeyUse
  <2> QED
    BY <1>1, <2>1, BeginKeeps, FindKeeps, CreateKeeps, SignKeeps, VerifyKeeps,
       ReadUserKeeps, ReadClientKeeps DEF KeyStep
<1>2. ASSUME NEW k \in Key, AddKey(k) \/ DisableKey(k) PROVE KeyIndInv'
  BY <1>2, AddKeyKeeps, DisableKeyKeeps
<1>3. ASSUME NEW k \in Key, Expire(k) PROVE KeyIndInv'
  BY <1>3, ExpireKeeps DEF Expire
<1>4. ASSUME NEW x \in Person, SwitchPerson(x) PROVE KeyIndInv'
  BY <1>4, SwitchKeeps
<1>5. CASE UNCHANGED keyVars
  BY <1>5, ExpireKeeps DEF keyVars
<1> QED
  BY <1>1, <1>2, <1>3, <1>4, <1>5 DEF KeyNext

(* The invariant is inductive: requests take note of what becomes active,   *)
(* and whoever creates a key was counted before.                           *)
THEOREM Invariance == KeySpec => []KeyIndInv
BY InitHolds, StepKeeps, PTL DEF KeySpec

(* However many first requests overlap, they make at most one key each.    *)
THEOREM CreationBounded == KeySpec => []BoundedCreation
<1>1. KeyIndInv => BoundedCreation
  BY DEF KeyIndInv
<1> QED
  BY <1>1, Invariance, PTL

(* A request never relies on a key, a user or a client that was not active  *)
(* at some time while it ran.                                              *)
THEOREM NothingStale == KeySpec => []UsedWasActive
<1>1. KeyIndInv => UsedWasActive
  BY DEF KeyIndInv
<1> QED
  BY <1>1, Invariance, PTL

-----------------------------------------------------------------------------
USE LimitsAssumption

-----------------------------------------------------------------------------
(* The rate limits: the parts of the invariant of each side.               *)
LoginSide ==
  /\ bucket \in [Account \cup Ip -> Bucket]
  /\ attempt \in [Request -> Attempt \cup {Null}]
  /\ OvershootBounded
  /\ \A x \in Account \cup Ip : bucket[x].resetAt <= limitClock + Window

TokenSide ==
  /\ tokenBucket \in [Ip -> Bucket]
  /\ answered \in [Ip -> [Instant -> Nat]]
  /\ \A i \in Ip : tokenBucket[i].resetAt <= limitClock + Window
  /\ TokenCounted
  /\ AnswersAddUp
  /\ QuietBeforeOpening

LEMMA LimitSides ==
  LimitIndInv <=> limitClock \in 0 .. MaxLimitClock /\ LoginSide /\ TokenSide
BY DEF LimitIndInv, LimitTypeOK, WindowBounded, LoginSide, TokenSide

LEMMA LimitSidesNext ==
  ASSUME (limitClock \in 0 .. MaxLimitClock)', LoginSide', TokenSide'
  PROVE  LimitIndInv'
BY DEF LimitIndInv, LimitTypeOK, WindowBounded, LoginSide, TokenSide

(* The logins under way are some of the requests.                          *)
LEMMA UnderWayCounted ==
  \A x : /\ IsFiniteSet(UnderWay(x))
         /\ Cardinality(UnderWay(x)) \in Nat
         /\ Cardinality(UnderWay(x)) <= Cardinality(Request)
         /\ Cardinality(Request) \in Nat
BY FS_Subset, FS_CardinalityType DEF UnderWay

(* One that ends leaves one less, wherever it was to be counted.           *)
LEMMA UnderWayEnds ==
  ASSUME attempt \in [Request -> Attempt \cup {Null}],
         NEW p \in Request, attempt[p] # Null, EndLogin(p), NEW x
  PROVE  /\ Cardinality(UnderWay(x))' <= Cardinality(UnderWay(x))
         /\ Cardinality(UnderWay(x))' \in Nat
         /\ x \in Bucketed(attempt[p]) =>
              Cardinality(UnderWay(x))' = Cardinality(UnderWay(x)) - 1
<1>1. UnderWay(x)' = UnderWay(x) \ {p}
  <2>1. \A q \in Request : attempt'[q] = IF q = p THEN Null ELSE attempt[q]
    BY DEF EndLogin
  <2> QED BY <2>1 DEF UnderWay, Bucketed
<1>2. x \in Bucketed(attempt[p]) => p \in UnderWay(x)
  BY DEF UnderWay
<1>3. /\ IsFiniteSet(UnderWay(x)) /\ Cardinality(UnderWay(x)) \in Nat
  BY UnderWayCounted
<1>4. CASE p \in UnderWay(x)
  <2>1. Cardinality(UnderWay(x) \ {p}) = Cardinality(UnderWay(x)) - 1
    BY <1>3, <1>4, FS_RemoveElement
  <2>2. Cardinality(UnderWay(x) \ {p}) \in Nat
    BY <1>3, FS_RemoveElement, FS_CardinalityType
  <2>3. Cardinality(UnderWay(x))' = Cardinality(UnderWay(x) \ {p})
    BY <1>1
  <2> QED BY <1>3, <2>1, <2>2, <2>3
<1>5. CASE p \notin UnderWay(x)
  <2>1. UnderWay(x)' = UnderWay(x)
    BY <1>1, <1>5
  <2> QED BY <2>1, <1>2, <1>3, <1>5
<1> QED BY <1>4, <1>5

(* What the limits and the buckets are.                                    *)
LEMMA LimitsTyped ==
  /\ \A x \in Account \cup Ip : MaxOf(x) \in Nat \ {0}
  /\ NoBucket \in Bucket
  /\ \A b \in Bucket : b.count \in Nat /\ b.resetAt \in Nat
  /\ \A a \in Attempt : Bucketed(a) \subseteq Account \cup Ip
BY DEF MaxOf, NoBucket, Bucket, Attempt, Bucketed

-----------------------------------------------------------------------------
(* The login side.                                                         *)

(* Sweeping and clearing only take counts of windows that are over, or     *)
(* empty them.                                                             *)
LEMMA SweptFine ==
  ASSUME NEW b \in Bucket, limitClock \in Nat
  PROVE  /\ Swept(b) \in Bucket
         /\ Swept(b).resetAt <= limitClock \/ Swept(b) = b
         /\ Swept(b).resetAt <= b.resetAt
         /\ ~ Lapsed(b) => Swept(b) = b
         /\ Lapsed(Swept(b)) <=> Lapsed(b)
BY LimitsTyped DEF Swept, Lapsed, NoBucket

LEMMA RejectKeepsLogins ==
  ASSUME LoginSide, limitClock \in 0 .. MaxLimitClock,
         NEW p \in Request, RejectLogin(p)
  PROVE  LoginSide'
<1>1. PICK a \in Attempt :
        bucket' = [x \in Account \cup Ip |->
            IF x = a.account \/ (x = a.ip /\ ~ Blocked(a.account))
            THEN Swept(bucket[x]) ELSE bucket[x]]
  BY DEF RejectLogin
<1>2. /\ \A x \in Account \cup Ip : bucket[x] \in Bucket
      /\ limitClock \in Nat /\ limitClock' = limitClock /\ attempt' = attempt
  BY DEF LoginSide, RejectLogin
<1>3. \A x : UnderWay(x)' = UnderWay(x)
  BY <1>2 DEF UnderWay, Bucketed
<1>4. \A x \in Account \cup Ip :
        /\ bucket'[x] \in Bucket
        /\ bucket'[x].resetAt <= bucket[x].resetAt
        /\ Lapsed(bucket[x]) => Lapsed(bucket'[x])
        /\ ~ Lapsed(bucket[x]) => bucket'[x] = bucket[x]
  BY <1>1, <1>2, SweptFine, LimitsTyped
<1>5. \A x \in Account \cup Ip : Lapsed(bucket'[x]) <=> Lapsed(bucket[x])'
  BY <1>2 DEF Lapsed
<1>6. bucket' \in [Account \cup Ip -> Bucket]
  BY <1>1, <1>4
<1>7. OvershootBounded'
  BY <1>2, <1>3, <1>4, <1>5 DEF LoginSide, OvershootBounded, MaxOf
<1>8. (\A x \in Account \cup Ip : bucket[x].resetAt <= limitClock + Window)'
  BY <1>2, <1>4, LimitsTyped DEF LoginSide
<1> QED BY <1>2, <1>6, <1>7, <1>8 DEF LoginSide

(* Admitted, a login finds every bucket of its own below the limit: even   *)
(* if all requests are under way in one of them, it ends up within bounds. *)
LEMMA AdmitKeepsLogins ==
  ASSUME LoginSide, limitClock \in 0 .. MaxLimitClock,
         NEW p \in Request, AdmitLogin(p)
  PROVE  LoginSide'
<1>1. PICK a \in Attempt :
        /\ \A x \in Bucketed(a) : ~ Blocked(x)
        /\ bucket' = [x \in Account \cup Ip |->
            IF x \in Bucketed(a) THEN Swept(bucket[x]) ELSE bucket[x]]
        /\ attempt' = [attempt EXCEPT ![p] = a]
  BY DEF AdmitLogin
<1>2. /\ \A x \in Account \cup Ip : bucket[x] \in Bucket
      /\ limitClock \in Nat /\ limitClock' = limitClock
  BY DEF LoginSide, AdmitLogin
<1>3. \A x \in Account \cup Ip :
        /\ bucket'[x] \in Bucket
        /\ bucket'[x].resetAt <= bucket[x].resetAt
        /\ Lapsed(bucket[x]) => Lapsed(bucket'[x])
        /\ ~ Lapsed(bucket[x]) => bucket'[x] = bucket[x]
  BY <1>1, <1>2, SweptFine, LimitsTyped
<1>4. \A x \in Account \cup Ip : Lapsed(bucket'[x]) <=> Lapsed(bucket[x])'
  BY <1>2 DEF Lapsed
<1>5. \A x : x \notin Bucketed(a) => UnderWay(x)' \subseteq UnderWay(x)
  <2>1. \A q \in Request : attempt'[q] = IF q = p THEN a ELSE attempt[q]
    BY <1>1 DEF LoginSide
  <2> QED BY <2>1 DEF UnderWay, Bucketed
<1>6. \A x : /\ Cardinality(UnderWay(x))' \in Nat
             /\ Cardinality(UnderWay(x))' <= Cardinality(Request)
             /\ Cardinality(Request) \in Nat
  <2>1. \A x : UnderWay(x)' \subseteq Request
    BY DEF UnderWay
  <2> QED BY <2>1, FS_Subset, FS_CardinalityType
<1>7. ASSUME NEW x \in Account \cup Ip, ~ Lapsed(bucket[x])'
      PROVE  bucket'[x].count + Cardinality(UnderWay(x))' <=
               MaxOf(x) - 1 + Cardinality(Request)
  <2>1. ~ Lapsed(bucket[x]) /\ bucket'[x] = bucket[x]
    BY <1>7, <1>3, <1>4
  <2>2. bucket[x].count \in Nat /\ MaxOf(x) \in Nat \ {0}
    BY <1>2, LimitsTyped
  <2>3. CASE x \in Bucketed(a)
    <3>1. bucket[x].count < MaxOf(x)
      BY <1>1, <2>1, <2>2, <2>3 DEF Blocked
    <3> QED BY <3>1, <2>1, <2>2, <1>6
  <2>4. CASE x \notin Bucketed(a)
    <3>1. Cardinality(UnderWay(x))' <= Cardinality(UnderWay(x))
      BY <1>5, <2>4, UnderWayCounted, FS_Subset
    <3>2. bucket[x].count + Cardinality(UnderWay(x)) <=
            MaxOf(x) - 1 + Cardinality(Request)
      BY <2>1 DEF LoginSide, OvershootBounded
    <3> QED BY <3>1, <3>2, <2>1, <2>2, <1>6, UnderWayCounted
  <2> QED BY <2>3, <2>4
<1>8. OvershootBounded'
  BY <1>7 DEF OvershootBounded, MaxOf
<1>9. (\A x \in Account \cup Ip : bucket[x].resetAt <= limitClock + Window)'
  BY <1>2, <1>3, LimitsTyped DEF LoginSide
<1>10. /\ bucket' \in [Account \cup Ip -> Bucket]
       /\ attempt' \in [Request -> Attempt \cup {Null}]
  BY <1>1, <1>3 DEF LoginSide
<1> QED BY <1>8, <1>9, <1>10 DEF LoginSide

(* The end of a login: a failure is counted where it was under way.        *)
LEMMA EndKeepsLogins ==
  ASSUME LoginSide, limitClock \in 0 .. MaxLimitClock, NEW p \in Request,
         RecordFailure(p) \/ RecordSuccess(p) \/ AbortLogin(p)
  PROVE  LoginSide'
<1> DEFINE own == Bucketed(attempt[p])
<1>1. /\ attempt[p] # Null /\ EndLogin(p) /\ limitClock' = limitClock
      /\ limitClock \in Nat
      /\ attempt[p] \in Attempt /\ own \subseteq Account \cup Ip
      /\ \A x \in Account \cup Ip : bucket[x] \in Bucket
  BY LimitsTyped DEF LoginSide, RecordFailure, RecordSuccess, AbortLogin
<1>2. attempt' \in [Request -> Attempt \cup {Null}]
  BY <1>1 DEF LoginSide, EndLogin
<1>3. \/ bucket' = [x \in Account \cup Ip |->
                      IF x \in own THEN Incremented(bucket[x]) ELSE bucket[x]]
      \/ bucket' = [x \in Account \cup Ip |->
                      IF x \in own THEN NoBucket ELSE bucket[x]]
      \/ bucket' = bucket
  BY DEF RecordFailure, RecordSuccess, AbortLogin
<1>4. \A x \in Account \cup Ip :
        \/ bucket'[x] = bucket[x] \/ bucket'[x] = NoBucket
        \/ x \in own /\ bucket'[x] = Incremented(bucket[x])
  BY <1>3
<1>5. \A x \in Account \cup Ip :
        /\ Incremented(bucket[x]) \in Bucket
        /\ Incremented(bucket[x]).resetAt <= limitClock + Window
        /\ Incremented(bucket[x]).count =
             IF Lapsed(bucket[x]) THEN 1 ELSE bucket[x].count + 1
  <2> TAKE x \in Account \cup Ip
  <2>1. bucket[x].resetAt <= limitClock + Window
    BY DEF LoginSide
  <2>2. bucket[x] \in Bucket /\ limitClock + Window \in Nat
    BY <1>1
  <2> QED BY <2>1, <2>2 DEF Incremented, Opened, Bucket
<1>6. \A x \in Account \cup Ip :
        bucket'[x] \in Bucket /\ bucket'[x].resetAt <= limitClock' + Window
  BY <1>1, <1>4, <1>5, LimitsTyped DEF LoginSide, NoBucket
<1>7. bucket' \in [Account \cup Ip -> Bucket]
  BY <1>3, <1>6 DEF LoginSide
<1>8. ASSUME NEW x \in Account \cup Ip, ~ Lapsed(bucket[x])'
      PROVE  bucket'[x].count + Cardinality(UnderWay(x))' <=
               MaxOf(x) - 1 + Cardinality(Request)
  <2>1. /\ bucket[x].count \in Nat /\ MaxOf(x) \in Nat \ {0}
        /\ bucket[x] \in Bucket
        /\ Cardinality(UnderWay(x))' <= Cardinality(UnderWay(x))
        /\ Cardinality(UnderWay(x))' \in Nat
        /\ x \in own => Cardinality(UnderWay(x))' = Cardinality(UnderWay(x)) - 1
    BY <1>1, LimitsTyped, UnderWayEnds DEF LoginSide
  <2>2. /\ Cardinality(UnderWay(x)) \in Nat /\ Cardinality(Request) \in Nat
        /\ Cardinality(UnderWay(x)) <= Cardinality(Request)
    BY UnderWayCounted
  <2>3. ~ Lapsed(bucket[x]) =>
          bucket[x].count + Cardinality(UnderWay(x)) <=
            MaxOf(x) - 1 + Cardinality(Request)
    BY DEF LoginSide, OvershootBounded
  <2>4. ~ (bucket'[x].resetAt <= limitClock)
    BY <1>1, <1>8 DEF Lapsed
  <2>5. CASE bucket'[x] = bucket[x]
    BY <2>1, <2>2, <2>3, <2>4, <2>5 DEF Lapsed
  <2>6. CASE bucket'[x] = NoBucket
    BY <2>4, <2>6, <1>1 DEF NoBucket
  <2>7. CASE x \in own /\ bucket'[x] = Incremented(bucket[x])
    BY <2>1, <2>2, <2>3, <2>7, <1>5
  <2> QED BY <1>4, <2>5, <2>6, <2>7
<1>9. OvershootBounded'
  BY <1>8 DEF OvershootBounded, MaxOf
<1> QED BY <1>2, <1>6, <1>7, <1>9 DEF LoginSide

(* What leaves buckets and logins alone, later or not.                     *)
LEMMA LoginsUntouched ==
  ASSUME LoginSide, limitClock \in 0 .. MaxLimitClock,
         bucket' = bucket, attempt' = attempt,
         limitClock' = limitClock \/ limitClock' = limitClock + 1
  PROVE  LoginSide'
<1>1. \A x : UnderWay(x)' = UnderWay(x)
  BY DEF UnderWay, Bucketed
<1>2. \A x \in Account \cup Ip :
        /\ bucket[x].resetAt \in Nat /\ limitClock \in Nat
        /\ bucket[x].resetAt <= limitClock + Window
  BY LimitsTyped DEF LoginSide
<1>3. \A x \in Account \cup Ip : ~ Lapsed(bucket[x])' => ~ Lapsed(bucket[x])
  BY <1>2 DEF Lapsed
<1>4. OvershootBounded'
  BY <1>1, <1>3 DEF LoginSide, OvershootBounded, MaxOf
<1> QED BY <1>2, <1>4 DEF LoginSide

-----------------------------------------------------------------------------
(* The token side.                                                         *)

(* The opening of a window that is counted is an instant of the past.      *)
LEMMA OpeningFine ==
  ASSUME TokenSide, limitClock \in 0 .. MaxLimitClock, NEW i \in Ip
  PROVE  LET b == tokenBucket[i] IN
           /\ b.count \in Nat /\ b.resetAt \in Nat
           /\ b \in Bucket
           /\ OpeningOf(b) \in 0 .. limitClock
           /\ OpeningOf(b) \in Instant
           /\ b.count = 0 => OpeningOf(b) = 0 /\ b.resetAt = 0
           /\ b.count > 0 => b.resetAt = OpeningOf(b) + Window
<1> DEFINE b == tokenBucket[i]
<1>1. b \in Bucket /\ b.resetAt <= limitClock + Window
  BY DEF TokenSide
<1>2. b.count \in Nat /\ b.resetAt \in Nat
  BY <1>1, LimitsTyped
<1>3. IF b.count = 0 THEN b.resetAt = 0 ELSE Window <= b.resetAt
  BY DEF TokenSide, TokenCounted
<1>4. OpeningOf(b) = IF b.count = 0 THEN 0 ELSE b.resetAt - Window
  BY DEF OpeningOf
<1> HIDE DEF b
<1>5. OpeningOf(b) \in 0 .. limitClock /\ OpeningOf(b) \in Instant
  BY <1>1, <1>2, <1>3, <1>4 DEF Instant
<1> QED BY <1>1, <1>2, <1>3, <1>4, <1>5 DEF b

(* What the invariant says of one address.                                 *)
TokenFine(i) ==
  LET b == tokenBucket[i] a == answered[i] IN
    /\ b \in Bucket
    /\ a \in [Instant -> Nat]
    /\ b.resetAt <= limitClock + Window
    /\ b.count <= TokenMax
    /\ IF b.count = 0 THEN b.resetAt = 0 ELSE Window <= b.resetAt
    /\ \A t \in Instant :
         limitClock < t \/ b.resetAt <= t => a[t] = a[OpeningOf(b)] + b.count
    /\ b.count > 0 => a[OpeningOf(b)] < a[OpeningOf(b) + 1]
    /\ \A s, t \in Instant : s <= t => a[s] <= a[t]
    /\ \A s \in Instant :
         s <= OpeningOf(b) /\ OpeningOf(b) < s + Window =>
           a[OpeningOf(b)] < a[s] + TokenMax

LEMMA TokenSideFine ==
  TokenSide <=> /\ tokenBucket \in [Ip -> Bucket]
                /\ answered \in [Ip -> [Instant -> Nat]]
                /\ \A i \in Ip : TokenFine(i)
BY DEF TokenSide, TokenFine, TokenCounted, AnswersAddUp, QuietBeforeOpening

LEMMA TokenSideFineNext ==
  ASSUME (tokenBucket \in [Ip -> Bucket])',
         (answered \in [Ip -> [Instant -> Nat]])',
         \A i \in Ip : TokenFine(i)'
  PROVE  TokenSide'
BY DEF TokenSide, TokenFine, TokenCounted, AnswersAddUp, QuietBeforeOpening

(* One request more is let through.  In the window of the bucket it adds to *)
(* the count; after it a new window opens, with all of the last window's    *)
(* requests behind it.                                                     *)
LEMMA AdmitTokenFine ==
  ASSUME TokenSide, limitClock \in 0 .. MaxLimitClock,
         NEW i \in Ip, AdmitToken(i)
  PROVE  TokenFine(i)'
<1> DEFINE b == tokenBucket[i]
           a == answered[i]
           o == OpeningOf(b)
           now == limitClock
           b2 == Incremented(b)
           a2 == [t \in Instant |-> IF now < t THEN a[t] + 1 ELSE a[t]]
           o2 == OpeningOf(b2)
<1>1. TokenFine(i)
  BY TokenSideFine
<1>2. /\ b.count \in Nat /\ b.resetAt \in Nat
      /\ o \in 0 .. now /\ o \in Instant
      /\ b.count = 0 => o = 0 /\ b.resetAt = 0
      /\ b.count > 0 => b.resetAt = o + Window
  BY OpeningFine
<1>3. /\ tokenBucket'[i] = b2 /\ answered'[i] = a2 /\ limitClock' = now
      /\ Lapsed(b) \/ b.count < TokenMax
  BY DEF AdmitToken, Answer, TokenSide
<1>4. /\ now \in Instant /\ now + 1 \in Instant /\ now \in Nat
      /\ Instant \subseteq Nat
      /\ Window \in Nat \ {0} /\ TokenMax \in Nat \ {0}
  BY DEF Instant
<1>5. a \in [Instant -> Nat] /\ a2 \in [Instant -> Nat]
  BY <1>1, <1>4 DEF TokenFine
<1>6. /\ b.count <= TokenMax
      /\ \A t \in Instant :
           now < t \/ b.resetAt <= t => a[t] = a[o] + b.count
      /\ b.count > 0 => a[o] < a[o + 1]
      /\ \A s, t \in Instant : s <= t => a[s] <= a[t]
      /\ \A s \in Instant : s <= o /\ o < s + Window => a[o] < a[s] + TokenMax
  BY <1>1 DEF TokenFine
<1>7. \A t \in Instant : a2[t] = IF now < t THEN a[t] + 1 ELSE a[t]
  OBVIOUS
<1>8. \A s, t \in Instant : s <= t => a2[s] <= a2[t]
  <2> HIDE DEF a2, a
  <2> QED BY <1>4, <1>5, <1>6, <1>7
<1>9. CASE Lapsed(b)
  <2>1. b2 = [count |-> 1, resetAt |-> now + Window]
    BY <1>9 DEF Incremented, Opened
  <2>2. o2 = now
    BY <2>1, <1>4 DEF OpeningOf
  <2>3. b.resetAt <= now
    BY <1>9 DEF Lapsed
  <2>4. a[now] = a[o] + b.count /\ a[now + 1] = a[o] + b.count
    BY <2>3, <1>2, <1>4, <1>6
  <2>5. \A t \in Instant : now < t => a2[t] = a[now] + 1
    BY <2>4, <1>4, <1>6, <1>7
  <2>6. a2[now] = a[now]
    BY <1>4, <1>7
  <2>7. \A t \in Instant : now < t \/ now + Window <= t => a2[t] = a2[now] + 1
    BY <2>5, <2>6, <1>4
  <2>8. a2[now] < a2[now + 1]
    <3> HIDE DEF a2, a
    <3> QED BY <2>7, <1>4, <1>5
  <2>9. ASSUME NEW s \in Instant, s <= now, now < s + Window
        PROVE  a2[now] < a2[s] + TokenMax
    <3>1. a2[s] = a[s]
      BY <2>9, <1>4, <1>7
    <3>2. CASE b.count = 0
      <4>1. a[now] = a[s]
        BY <3>2, <2>4, <1>2, <1>4, <1>6
      <4> HIDE DEF a2, a
      <4> QED BY <4>1, <3>1, <2>6, <1>4, <1>5
    <3>3. CASE b.count > 0
      <4>1. o + 1 <= s
        BY <3>3, <2>3, <2>9, <1>2, <1>4
      <4>2. o + 1 \in Instant
        BY <4>1, <1>2, <1>4 DEF Instant
      <4>3. a[o] < a[s] /\ a[o] \in Nat /\ a[s] \in Nat
        BY <4>1, <4>2, <3>3, <1>2, <1>5, <1>6
      <4>4. a[now] = a[o] + b.count /\ b.count <= TokenMax
        BY <2>4, <1>6
      <4> HIDE DEF a2, a, b
      <4> QED BY <4>3, <4>4, <3>1, <2>6, <1>2, <1>4
    <3> QED BY <3>2, <3>3, <1>2
  <2>10. /\ b2 \in Bucket /\ b2.count = 1 /\ b2.resetAt = now + Window
         /\ b2.count <= TokenMax /\ b2.resetAt <= now + Window
         /\ Window <= b2.resetAt
    BY <2>1, <1>4 DEF Bucket
  <2> HIDE DEF a, a2, b, b2
  <2>11. OpeningOf(b2) = now
    BY <2>2
  <2> QED BY <2>7, <2>8, <2>9, <2>10, <2>11, <1>3, <1>5, <1>8 DEF TokenFine
<1>10. CASE ~ Lapsed(b)
  <2>1. /\ b2.count = b.count + 1 /\ b2.resetAt = b.resetAt
        /\ b2 \in Bucket
    BY <1>1, <1>2, <1>10 DEF Incremented, TokenFine, Bucket
  <2>2. now < b.resetAt /\ b.count > 0 /\ b.resetAt <= now + Window
    BY <1>1, <1>2, <1>4, <1>10 DEF Lapsed, TokenFine
  <2>3. o2 = o /\ b.resetAt = o + Window
    BY <2>1, <2>2, <1>2 DEF OpeningOf
  <2>4. a2[o] = a[o] /\ a[o] \in Nat
    BY <1>2, <1>4, <1>5, <1>7
  <2>5. \A t \in Instant :
          now < t \/ b.resetAt <= t => a2[t] = a2[o] + (b.count + 1)
    <3>1. \A t \in Instant :
            now < t \/ b.resetAt <= t => now < t /\ a[t] = a[o] + b.count
      BY <2>2, <1>2, <1>4, <1>6
    <3> HIDE DEF a, a2, b
    <3> QED BY <3>1, <2>4, <1>2, <1>7
  <2>6. o + 1 \in Instant
    BY <1>2, <1>4 DEF Instant
  <2>7. a2[o] < a2[o + 1]
    <3>1. a[o] < a[o + 1] /\ a[o + 1] \in Nat
      BY <2>2, <2>6, <1>5, <1>6
    <3> HIDE DEF a, a2
    <3> QED BY <3>1, <2>4, <2>6, <1>7
  <2>8. ASSUME NEW s \in Instant, s <= o, o < s + Window
        PROVE  a2[o] < a2[s] + TokenMax
    <3>1. s <= now
      BY <2>8, <1>2, <1>4
    <3>2. a2[s] = a[s] /\ a[o] < a[s] + TokenMax
      BY <3>1, <2>8, <1>4, <1>6, <1>7
    <3> QED BY <3>2, <2>4
  <2>9. b2.count <= TokenMax
    BY <2>1, <1>2, <1>3, <1>4, <1>10
  <2>10. Window <= b2.resetAt /\ b2.count > 0 /\ b2.count # 0
    BY <2>1, <2>2, <2>3, <1>2, <1>4
  <2>11. OpeningOf(b2) = o
    BY <2>3
  <2> HIDE DEF a, a2, b, b2, o
  <2> QED BY <2>1, <2>2, <2>5, <2>7, <2>8, <2>9, <2>10, <2>11, <1>3, <1>5, <1>8
          DEF TokenFine
<1> QED BY <1>9, <1>10

LEMMA AdmitTokenKeepsTokens ==
  ASSUME TokenSide, limitClock \in 0 .. MaxLimitClock,
         NEW i \in Ip, AdmitToken(i)
  PROVE  TokenSide'
<1>1. TokenFine(i)'
  BY AdmitTokenFine
<1>2. ASSUME NEW j \in Ip, j # i
      PROVE  TokenFine(j)'
  <2>1. /\ tokenBucket'[j] = tokenBucket[j] /\ answered'[j] = answered[j]
        /\ limitClock' = limitClock
    BY <1>2 DEF AdmitToken, Answer, TokenSide
  <2>2. TokenFine(j)
    BY TokenSideFine
  <2> QED BY <2>1, <2>2 DEF TokenFine
<1>3. \A j \in Ip : TokenFine(j)'
  BY <1>1, <1>2
<1>4. /\ \A j \in Ip : tokenBucket'[j] \in Bucket
      /\ \A j \in Ip : answered'[j] \in [Instant -> Nat]
  BY <1>3 DEF TokenFine
<1>5. /\ tokenBucket' \in [Ip -> Bucket]
      /\ answered' \in [Ip -> [Instant -> Nat]]
  <2>1. /\ tokenBucket' = [tokenBucket EXCEPT ![i] = Incremented(@)]
        /\ answered' = [answered EXCEPT ![i] = [t \in Instant |->
                 IF limitClock < t THEN @[t] + 1 ELSE @[t]]]
        /\ tokenBucket \in [Ip -> Bucket]
        /\ answered \in [Ip -> [Instant -> Nat]]
    BY DEF AdmitToken, Answer, TokenSide
  <2> QED BY <2>1, <1>4
<1> QED BY <1>3, <1>5, TokenSideFineNext

(* What leaves the token buckets and the answers alone, later or not.      *)
LEMMA TokensUntouched ==
  ASSUME TokenSide, limitClock \in 0 .. MaxLimitClock,
         tokenBucket' = tokenBucket, answered' = answered,
         limitClock' = limitClock \/ limitClock' = limitClock + 1
  PROVE  TokenSide'
<1>1. ASSUME NEW i \in Ip
      PROVE  TokenFine(i)'
  <2>1. TokenFine(i)
    BY TokenSideFine
  <2>2. /\ tokenBucket[i].resetAt \in Nat
        /\ \A t \in Instant : limitClock' < t => limitClock < t
        /\ tokenBucket[i].resetAt <= limitClock' + Window
    BY <2>1, LimitsTyped DEF TokenFine, Instant
  <2> QED BY <2>1, <2>2 DEF TokenFine
<1> QED BY <1>1, TokenSideFineNext DEF TokenSide

-----------------------------------------------------------------------------
LEMMA LimitsStart == LimitInit => LimitIndInv
<1> SUFFICES ASSUME LimitInit PROVE LimitIndInv
  OBVIOUS
<1>1. 0 \in Instant /\ Instant \subseteq Nat /\ limitClock \in 0 .. MaxLimitClock
  BY DEF Instant, LimitInit
<1>2. \A x \in Account \cup Ip : bucket[x] = NoBucket
  BY DEF LimitInit
<1>3. LoginSide
  <2>1. OvershootBounded
    BY <1>2 DEF OvershootBounded, Lapsed, NoBucket, LimitInit
  <2>2. \A x \in Account \cup Ip : bucket[x].resetAt <= limitClock + Window
    BY <1>2 DEF NoBucket, LimitInit
  <2> QED BY <2>1, <2>2, LimitsTyped DEF LoginSide, LimitInit
<1>4. ASSUME NEW i \in Ip
      PROVE  TokenFine(i)
  <2>1. /\ tokenBucket[i] = NoBucket
        /\ answered[i] = [t \in Instant |-> 0]
        /\ NoBucket.count = 0 /\ NoBucket.resetAt = 0
        /\ limitClock = 0
    BY DEF LimitInit, NoBucket
  <2>2. OpeningOf(NoBucket) = 0
    BY <2>1 DEF OpeningOf
  <2> QED BY <2>1, <2>2, <1>1, LimitsTyped DEF TokenFine
<1>5. TokenSide
  <2>1. tokenBucket \in [Ip -> Bucket] /\ answered \in [Ip -> [Instant -> Nat]]
    BY LimitsTyped DEF LimitInit
  <2> QED BY <2>1, <1>4, TokenSideFine
<1> QED BY <1>1, <1>3, <1>5, LimitSides

LEMMA LimitsStep == LimitIndInv /\ [LimitNext]_limitVars => LimitIndInv'
<1> SUFFICES ASSUME LimitIndInv, [LimitNext]_limitVars
             PROVE  LimitIndInv'
  OBVIOUS
<1>1. limitClock \in 0 .. MaxLimitClock /\ LoginSide /\ TokenSide
  BY LimitSides
<1>2. ASSUME NEW p \in Request,
             \/ RejectLogin(p) \/ AdmitLogin(p) \/ RecordFailure(p)
             \/ RecordSuccess(p) \/ AbortLogin(p)
      PROVE  LimitIndInv'
  <2>1. LoginSide'
    BY <1>1, <1>2, RejectKeepsLogins, AdmitKeepsLogins, EndKeepsLogins
  <2>2. /\ limitClock' = limitClock /\ tokenBucket' = tokenBucket
        /\ answered' = answered
    BY <1>2 DEF RejectLogin, AdmitLogin, RecordFailure, RecordSuccess, AbortLogin
  <2> QED BY <2>1, <2>2, <1>1, TokensUntouched, LimitSidesNext
<1>3. ASSUME NEW i \in Ip, AdmitToken(i)
      PROVE  LimitIndInv'
  <2>1. bucket' = bucket /\ attempt' = attempt /\ limitClock' = limitClock
    BY <1>3 DEF AdmitToken
  <2> QED BY <2>1, <1>1, <1>3, AdmitTokenKeepsTokens, LoginsUntouched,
             LimitSidesNext
<1>4. CASE LimitTick
  <2>1. /\ limitClock' = limitClock + 1 /\ limitClock' \in 0 .. MaxLimitClock
        /\ bucket' = bucket /\ attempt' = attempt
        /\ tokenBucket' = tokenBucket /\ answered' = answered
    BY <1>1, <1>4 DEF LimitTick
  <2> QED BY <2>1, <1>1, LoginsUntouched, TokensUntouched, LimitSidesNext
<1>5. CASE UNCHANGED limitVars
  BY <1>1, <1>5, LoginsUntouched, TokensUntouched, LimitSidesNext DEF limitVars
<1> QED BY <1>2, <1>3, <1>4, <1>5 DEF LimitNext

(* However logins overlap, the wrong passwords counted in a window and     *)
(* those under way exceed the limit by less than the number of requests;   *)
(* and the token bucket counts exactly what its window let through         *)
(* (login-rate-limit.service.ts, token-rate-limit.middleware.ts).          *)
THEOREM LimitsInvariance == LimitSpec => []LimitIndInv
<1> QED BY LimitsStart, LimitsStep, PTL DEF LimitSpec

(* A stretch that reaches beyond the present ends with the window of the    *)
(* bucket and has, before that, less than the window before.               *)
RecentPaced ==
  \A i \in Ip : \A s \in Instant :
    s + Window \in Instant /\ limitClock < s + Window =>
      answered[i][s + Window] < answered[i][s] + 2 * TokenMax

LEMMA RecentStretch == LimitIndInv => RecentPaced
<1> SUFFICES ASSUME LimitIndInv, NEW i \in Ip, NEW s \in Instant,
                    s + Window \in Instant, limitClock < s + Window
             PROVE  answered[i][s + Window] < answered[i][s] + 2 * TokenMax
  BY DEF RecentPaced
<1>0. TokenSide /\ limitClock \in 0 .. MaxLimitClock
  BY LimitSides
<1> DEFINE b == tokenBucket[i]
           a == answered[i]
           o == OpeningOf(b)
<1>1. /\ o \in 0 .. limitClock /\ o \in Instant /\ Instant \subseteq Nat
      /\ b.count \in Nat /\ TokenMax \in Nat \ {0} /\ Window \in Nat \ {0}
  BY <1>0, OpeningFine DEF Instant
<1>2. /\ a \in [Instant -> Nat] /\ b.count <= TokenMax
      /\ a[s + Window] = a[o] + b.count
      /\ o <= s => a[o] <= a[s]
      /\ s <= o => a[o] < a[s] + TokenMax
  BY <1>0, <1>1, TokenSideFine DEF TokenFine
<1>3. a[s] \in Nat /\ a[o] \in Nat
  BY <1>1, <1>2
<1> HIDE DEF a, b, o
<1>4. a[s + Window] < a[s] + 2 * TokenMax
  BY <1>1, <1>2, <1>3
<1> QED BY <1>4 DEF a

(* However it spaces its requests, an address is answered less than twice   *)
(* the limit in any stretch as long as a window                            *)
(* (token-rate-limit.middleware.ts).                                       *)
THEOREM TwoWindowsHold == LimitSpec => []TwoWindows
<1>1. LimitInit => TwoWindows
  <2> SUFFICES ASSUME LimitInit, NEW i \in Ip, NEW s \in Instant,
                      s + Window \in Instant
               PROVE  answered[i][s + Window] < answered[i][s] + 2 * TokenMax
    BY DEF TwoWindows
  <2> QED BY DEF LimitInit
<1>2. ASSUME LimitIndInv, RecentPaced', TwoWindows, [LimitNext]_limitVars
      PROVE  TwoWindows'
  <2> SUFFICES ASSUME NEW i \in Ip, NEW s \in Instant, s + Window \in Instant
               PROVE  answered'[i][s + Window] < answered'[i][s] + 2 * TokenMax
    BY DEF TwoWindows, Instant
  <2>1. limitClock \in 0 .. MaxLimitClock /\ TokenSide /\ Instant \subseteq Nat
    BY <1>2, LimitSides DEF Instant
  <2>2. CASE limitClock' < s + Window
    BY <1>2, <2>2 DEF RecentPaced, Instant
  <2>3. CASE ~ (limitClock' < s + Window)
    <3>1. \/ limitClock' = limitClock \/ limitClock' = limitClock + 1
      BY <1>2 DEF LimitNext, RejectLogin, AdmitLogin, RecordFailure,
           RecordSuccess, AbortLogin, AdmitToken, LimitTick, limitVars
    <3>2. s <= limitClock' /\ s + Window <= limitClock'
      BY <2>1, <2>3, <3>1
    <3>3. /\ answered'[i][s] = answered[i][s]
          /\ answered'[i][s + Window] = answered[i][s + Window]
      <4>1. CASE answered' = answered
        BY <4>1
      <4>2. CASE \E j \in Ip : AdmitToken(j)
        <5>1. PICK j \in Ip : AdmitToken(j)
          BY <4>2
        <5>2. limitClock' = limitClock /\ answered' = [answered EXCEPT ![j] =
                [t \in Instant |-> IF limitClock < t THEN @[t] + 1 ELSE @[t]]]
          BY <5>1 DEF AdmitToken, Answer
        <5>3. ~ (limitClock < s) /\ ~ (limitClock < s + Window)
          BY <5>2, <3>2, <2>1
        <5> QED BY <5>2, <5>3, <2>1 DEF TokenSide
      <4> QED BY <1>2, <4>1, <4>2 DEF LimitNext, RejectLogin, AdmitLogin,
                RecordFailure, RecordSuccess, AbortLogin, LimitTick, limitVars
    <3> QED BY <1>2, <3>3 DEF TwoWindows
  <2> QED BY <2>2, <2>3
<1>3. LimitIndInv /\ RecentPaced' /\ TwoWindows /\ [LimitNext]_limitVars
        => TwoWindows'
  BY <1>2
<1> QED BY <1>1, <1>3, RecentStretch, LimitsInvariance, PTL DEF LimitSpec

-----------------------------------------------------------------------------
(* The pool: who waits for a connection will get one.                      *)

(* Of a course: it takes or returns one connection at a time, never holds  *)
(* more than Depth, and ends with none.                                    *)
Nested(s) ==
  /\ Len(s) \in 2 .. 12
  /\ \A i \in 1 .. Len(s) : s[i] \in 0 .. Depth
  /\ s[1] = 1 /\ s[Len(s)] = 0
  /\ \A i \in 1 .. Len(s) - 1 : s[i + 1] = s[i] + 1 \/ s[i + 1] + 1 = s[i]

LEMMA CoursesNested == \A c \in DOMAIN Course : Nested(Course[c])
<1>1. Nested(ExchangeCourse)
  BY DEF Nested, ExchangeCourse, Depth
<1>2. Nested(RefreshCourse)
  BY DEF Nested, RefreshCourse, Depth
<1>3. Nested(WrappedCourse)
  BY DEF Nested, WrappedCourse, Depth
<1>4. Nested(RevokeCourse)
  BY DEF Nested, RevokeCourse, Depth
<1>5. Nested(<<1, 0>>)
  BY DEF Nested, Depth
<1> QED
  BY <1>1, <1>2, <1>3, <1>4, <1>5 DEF Course

(* How many connections a request holds at its place in its course.        *)
InCourse(p) ==
  IF course[p] = Null
    THEN held[p] = 0 /\ at[p] = 0 /\ p \notin Waiting
    ELSE /\ at[p] \in 0 .. Len(Course[course[p]]) - 1
         /\ held[p] = IF at[p] = 0 THEN 0 ELSE Course[course[p]][at[p]]
         /\ p \in Waiting => Target(p) > held[p]

QueuedOnce ==
  \A i, k \in 1 .. Len(queue) : queue[i] = queue[k] => i = k

PoolIndInv == PoolTypeOK /\ QueuedOnce /\ \A p \in Request : InCourse(p)

(* Whoever waits for a connection, one is free for the first in the queue, *)
(* or some request returns one next; or else the requests that nest their  *)
(* connections have used up the pool, each holding one or two and wanting  *)
(* another, and so at least half as many of them as there are connections. *)
StarvesOnlyByNesting ==
  queue # <<>> =>
    \/ Free
    \/ \E p \in Request : Ready(p) /\ Target(p) < held[p]
    \/ Starved /\ PoolSize <= 2 * Cardinality(Holders)

(* The next step of a request that is on its way.                          *)
LEMMA OneAhead ==
  ASSUME PoolTypeOK, NEW p \in Request, InCourse(p), course[p] # Null
  PROVE  /\ course[p] \in DOMAIN Course /\ Nested(Course[course[p]])
         /\ at[p] + 1 \in 1 .. Len(Course[course[p]])
         /\ at[p] + 1 \in 0 .. 12
         /\ Target(p) \in 0 .. Depth /\ held[p] \in 0 .. Depth
         /\ Target(p) = held[p] + 1 \/ Target(p) + 1 = held[p]
         /\ at[p] + 1 = Len(Course[course[p]]) => Target(p) = 0
<1> DEFINE s == Course[course[p]]
<1>1. course[p] \in DOMAIN Course /\ Nested(s) /\ at[p] \in 0 .. 12
      /\ held[p] \in 0 .. Depth
  BY CoursesNested DEF PoolTypeOK
<1>2. /\ at[p] \in 0 .. Len(s) - 1 /\ Target(p) = s[at[p] + 1]
      /\ held[p] = IF at[p] = 0 THEN 0 ELSE s[at[p]]
  BY DEF InCourse, Target
<1> HIDE DEF s
<1>3. /\ at[p] + 1 \in 1 .. Len(s) /\ at[p] + 1 \in 0 .. 12
      /\ s[at[p] + 1] \in 0 .. Depth
      /\ at[p] + 1 = Len(s) => s[at[p] + 1] = 0
      /\ s[at[p] + 1] = held[p] + 1 \/ s[at[p] + 1] + 1 = held[p]
  <2> DEFINE n == at[p]
  <2>1. /\ Len(s) \in 2 .. 12 /\ n \in 0 .. Len(s) - 1
        /\ \A i \in 1 .. Len(s) : s[i] \in 0 .. Depth
        /\ s[1] = 1 /\ s[Len(s)] = 0
        /\ \A i \in 1 .. Len(s) - 1 :
             s[i + 1] = s[i] + 1 \/ s[i + 1] + 1 = s[i]
        /\ held[p] = IF n = 0 THEN 0 ELSE s[n]
    BY <1>1, <1>2 DEF Nested
  <2> HIDE DEF n
  <2>2. n + 1 \in 1 .. Len(s) /\ n + 1 \in 0 .. 12
    <3>1. \A k \in 2 .. 12 : \A i \in 0 .. k - 1 :
            i + 1 \in 1 .. k /\ i + 1 \in 0 .. 12
      OBVIOUS
    <3> QED
      BY <2>1, <3>1
  <2>3. s[n + 1] = held[p] + 1 \/ s[n + 1] + 1 = held[p]
    <3>1. CASE n = 0
      BY <2>1, <3>1
    <3>2. CASE n # 0
      <4>1. n \in 1 .. Len(s) - 1 /\ held[p] = s[n]
        BY <2>1, <3>2
      <4> QED
        BY <2>1, <4>1
    <3> QED
      BY <3>1, <3>2
  <2> QED
    BY <2>1, <2>2, <2>3 DEF n
<1> QED
  BY <1>1, <1>2, <1>3 DEF s

(* A request takes one more connection and goes on.                        *)
LEMMA HoldKeeps ==
  ASSUME PoolTypeOK, NEW p \in Request, InCourse(p), course[p] # Null,
         Target(p) > held[p], Hold(p, Target(p)), UNCHANGED course,
         p \notin Waiting'
  PROVE  /\ held' \in [Request -> 0 .. Depth]
         /\ at' \in [Request -> 0 .. 12]
         /\ InCourse(p)'
         /\ \A q \in Request \ {p} : held'[q] = held[q] /\ at'[q] = at[q]
<1>0. /\ Nested(Course[course[p]])
      /\ at[p] + 1 \in 1 .. Len(Course[course[p]]) /\ at[p] + 1 \in 0 .. 12
      /\ Target(p) \in 0 .. Depth
      /\ at[p] + 1 = Len(Course[course[p]]) => Target(p) = 0
      /\ held[p] \in 0 .. Depth
  BY OneAhead
<1>1. /\ held \in [Request -> 0 .. Depth] /\ at \in [Request -> 0 .. 12]
  BY DEF PoolTypeOK
<1>2. /\ held' = [held EXCEPT ![p] = Target(p)]
      /\ at' = [at EXCEPT ![p] = at[p] + 1]
  BY DEF Hold
<1>3. held'[p] = Target(p) /\ at'[p] = at[p] + 1 /\ at[p] \in Nat
  BY <1>1, <1>2
<1>4. at[p] + 1 # Len(Course[course[p]])
  BY <1>0 DEF Depth
<1>5. InCourse(p)'
  <2>1. /\ at[p] + 1 \in 0 .. Len(Course[course[p]]) - 1 /\ at[p] + 1 # 0
        /\ Target(p) = Course[course[p]][at[p] + 1]
    BY <1>0, <1>3, <1>4 DEF Nested, Target
  <2> QED
    BY <1>3, <2>1 DEF InCourse
<1> QED
  BY <1>0, <1>1, <1>2, <1>5

(* A request that is left alone.                                           *)
LEMMA OthersInCourse ==
  ASSUME NEW q \in Request, InCourse(q), held'[q] = held[q], at'[q] = at[q],
         course'[q] = course[q], q \in Waiting' => q \in Waiting
  PROVE  InCourse(q)'
BY DEF InCourse, Target

LEMMA BeginCourseKeeps ==
  ASSUME PoolIndInv, NEW p \in Request, BeginCourse(p)
  PROVE  PoolIndInv'
<1>1. PICK c \in DOMAIN Course : course' = [course EXCEPT ![p] = c]
  BY DEF BeginCourse
<1>2. /\ UNCHANGED <<held, at, queue>> /\ course[p] = Null
      /\ held[p] = 0 /\ at[p] = 0 /\ p \notin Waiting
  BY DEF BeginCourse, PoolIndInv, InCourse
<1>3. PoolTypeOK' /\ QueuedOnce' /\ Waiting' = Waiting
  BY <1>1, <1>2 DEF PoolIndInv, PoolTypeOK, QueuedOnce, Waiting
<1>4. InCourse(p)'
  <2>1. course'[p] = c /\ Nested(Course[c])
    BY <1>1, CoursesNested DEF PoolIndInv, PoolTypeOK
  <2>2. 0 \in 0 .. Len(Course[c]) - 1
    BY <2>1 DEF Nested
  <2> QED
    BY <1>2, <1>3, <2>1, <2>2 DEF InCourse
<1>5. ASSUME NEW q \in Request, q # p PROVE InCourse(q)'
  BY <1>1, <1>2, <1>3, <1>5, OthersInCourse DEF PoolIndInv, PoolTypeOK
<1> QED
  BY <1>3, <1>4, <1>5 DEF PoolIndInv

LEMMA AcquireKeeps ==
  ASSUME PoolIndInv, NEW p \in Request, Acquire(p)
  PROVE  PoolIndInv'
<1>1. /\ PoolTypeOK /\ QueuedOnce /\ InCourse(p) /\ p \notin Waiting
      /\ course[p] # Null /\ Target(p) > held[p] /\ UNCHANGED course
  BY DEF PoolIndInv, Acquire, Ready
<1>2. CASE Hold(p, Target(p)) /\ UNCHANGED queue
  <2>1. Waiting' = Waiting
    BY <1>2 DEF Waiting
  <2>2. /\ held' \in [Request -> 0 .. Depth] /\ at' \in [Request -> 0 .. 12]
        /\ InCourse(p)'
        /\ \A q \in Request \ {p} : held'[q] = held[q] /\ at'[q] = at[q]
    BY <1>1, <1>2, <2>1, HoldKeeps
  <2>3. \A q \in Request \ {p} : InCourse(q)'
    BY <1>1, <2>1, <2>2, OthersInCourse DEF PoolIndInv
  <2> QED
    BY <1>1, <1>2, <2>2, <2>3 DEF PoolIndInv, PoolTypeOK, QueuedOnce
<1>3. CASE queue' = Append(queue, p) /\ UNCHANGED <<held, at>>
  <2>1. /\ queue \in Seq(Request) /\ queue' \in Seq(Request)
        /\ Len(queue') = Len(queue) + 1 /\ Len(queue) \in Nat
        /\ \A i \in 1 .. Len(queue) : queue'[i] = queue[i]
        /\ queue'[Len(queue) + 1] = p
    BY <1>1, <1>3 DEF PoolTypeOK
  <2>2. \A q : q \in Waiting' => q \in Waiting \/ q = p
    BY <2>1 DEF Waiting
  <2>3. QueuedOnce'
    <3>1. \A i \in 1 .. Len(queue) : queue[i] # p
      BY <1>1 DEF Waiting
    <3> SUFFICES ASSUME NEW i \in 1 .. Len(queue) + 1,
                        NEW k \in 1 .. Len(queue) + 1,
                        queue'[i] = queue'[k]
                 PROVE  i = k
      BY <2>1 DEF QueuedOnce
    <3> QED
      BY <1>1, <2>1, <3>1 DEF QueuedOnce
  <2>4. InCourse(p)'
    BY <1>1, <1>3 DEF InCourse, Target
  <2>5. \A q \in Request \ {p} : InCourse(q)'
    BY <1>1, <1>3, <2>2, OthersInCourse DEF PoolIndInv
  <2> QED
    BY <1>1, <1>3, <2>1, <2>3, <2>4, <2>5 DEF PoolIndInv, PoolTypeOK
<1> QED
  BY <1>2, <1>3 DEF Acquire

LEMMA ServeKeeps ==
  ASSUME PoolIndInv, Serve
  PROVE  PoolIndInv'
<1>0. PICK p \in Request : p = Head(queue)
  BY DEF PoolIndInv, PoolTypeOK, Serve
<1>1. /\ PoolTypeOK /\ QueuedOnce /\ queue # <<>> /\ Hold(p, Target(p))
      /\ queue' = Tail(queue) /\ UNCHANGED course
  BY <1>0 DEF PoolIndInv, Serve
<1>2. /\ queue \in Seq(Request) /\ queue' \in Seq(Request)
      /\ Len(queue) \in Nat \ {0} /\ Len(queue') = Len(queue) - 1
      /\ \A i \in 1 .. Len(queue) - 1 : queue'[i] = queue[i + 1]
      /\ p = queue[1]
  BY <1>0, <1>1 DEF PoolTypeOK
<1>3. p \in Waiting /\ p \notin Waiting' /\ Waiting' \subseteq Waiting
  <2>1. \A i \in 1 .. Len(queue) - 1 : i + 1 \in 1 .. Len(queue) /\ i + 1 # 1
    BY <1>2
  <2>2. p \in Waiting
    BY <1>2 DEF Waiting
  <2>3. Waiting' \subseteq Waiting
    BY <1>2, <2>1 DEF Waiting
  <2>4. p \notin Waiting'
    BY <1>1, <1>2, <2>1 DEF Waiting, QueuedOnce
  <2> QED
    BY <2>2, <2>3, <2>4
<1>4. InCourse(p) /\ course[p] # Null /\ Target(p) > held[p]
  BY <1>2, <1>3 DEF PoolIndInv, InCourse
<1>5. /\ held' \in [Request -> 0 .. Depth] /\ at' \in [Request -> 0 .. 12]
      /\ InCourse(p)'
      /\ \A q \in Request \ {p} : held'[q] = held[q] /\ at'[q] = at[q]
  BY <1>1, <1>2, <1>3, <1>4, HoldKeeps
<1>6. \A q \in Request \ {p} : InCourse(q)'
  BY <1>1, <1>3, <1>5, OthersInCourse DEF PoolIndInv
<1>7. QueuedOnce'
  <2> SUFFICES ASSUME NEW i \in 1 .. Len(queue) - 1,
                      NEW k \in 1 .. Len(queue) - 1,
                      queue[i + 1] = queue[k + 1]
               PROVE  i = k
    BY <1>2 DEF QueuedOnce
  <2>1. i + 1 \in 1 .. Len(queue) /\ k + 1 \in 1 .. Len(queue)
    BY <1>2
  <2>2. i + 1 = k + 1
    BY <1>1, <2>1 DEF QueuedOnce
  <2> QED
    BY <1>2, <2>2
<1> QED
  BY <1>1, <1>2, <1>5, <1>6, <1>7 DEF PoolIndInv, PoolTypeOK

(* A request that returns what it holds, one or all.                       *)
LEMMA EndKeepsPool ==
  ASSUME PoolIndInv, NEW p \in Request, Ready(p), EndCourse(p),
         held' = [held EXCEPT ![p] = 0], UNCHANGED queue
  PROVE  PoolIndInv'
<1>1. /\ PoolTypeOK /\ QueuedOnce /\ p \notin Waiting /\ Waiting' = Waiting
  BY DEF PoolIndInv, Ready, Waiting
<1>2. PoolTypeOK'
  BY <1>1 DEF PoolTypeOK, EndCourse, Depth
<1>3. InCourse(p)'
  BY <1>1 DEF PoolTypeOK, EndCourse, InCourse
<1>4. \A q \in Request \ {p} : InCourse(q)'
  BY <1>1, OthersInCourse DEF PoolIndInv, PoolTypeOK, EndCourse
<1> QED
  BY <1>1, <1>2, <1>3, <1>4 DEF PoolIndInv, QueuedOnce

LEMMA ReleaseKeeps ==
  ASSUME PoolIndInv, NEW p \in Request, Release(p)
  PROVE  PoolIndInv'
<1>1. /\ PoolTypeOK /\ QueuedOnce /\ InCourse(p) /\ p \notin Waiting
      /\ course[p] # Null /\ Target(p) < held[p] /\ UNCHANGED queue
      /\ held' = [held EXCEPT ![p] = held[p] - 1] /\ Ready(p)
  BY DEF PoolIndInv, Release, Ready
<1>2. /\ Nested(Course[course[p]]) /\ held[p] \in 0 .. Depth
      /\ at[p] + 1 \in 1 .. Len(Course[course[p]]) /\ at[p] + 1 \in 0 .. 12
      /\ Target(p) \in 0 .. Depth /\ Target(p) + 1 = held[p]
      /\ at[p] + 1 = Len(Course[course[p]]) => Target(p) = 0
  BY <1>1, OneAhead DEF Depth
<1>3. held[p] - 1 = Target(p)
  BY <1>2 DEF Depth
<1>4. CASE at[p] + 1 = Len(Course[course[p]])
  BY <1>1, <1>2, <1>3, <1>4, EndKeepsPool DEF Release
<1>5. CASE at[p] + 1 # Len(Course[course[p]])
  <2>1. /\ at' = [at EXCEPT ![p] = at[p] + 1] /\ UNCHANGED course
        /\ Waiting' = Waiting
    BY <1>1, <1>5 DEF Release, Waiting
  <2>2. PoolTypeOK'
    BY <1>1, <1>2, <1>3, <2>1 DEF PoolTypeOK
  <2>3. InCourse(p)'
    <3>0. held \in [Request -> 0 .. Depth] /\ at \in [Request -> 0 .. 12]
      BY <1>1 DEF PoolTypeOK
    <3>1. held'[p] = Target(p) /\ at'[p] = at[p] + 1 /\ at[p] \in Nat
      BY <1>1, <1>3, <2>1, <3>0
    <3>2. /\ at[p] + 1 \in 0 .. Len(Course[course[p]]) - 1 /\ at[p] + 1 # 0
          /\ Target(p) = Course[course[p]][at[p] + 1]
      BY <1>2, <1>5, <3>1 DEF Nested, Target
    <3> QED
      BY <1>1, <2>1, <3>1, <3>2 DEF InCourse
  <2>4. \A q \in Request \ {p} : InCourse(q)'
    BY <1>1, <2>1, OthersInCourse DEF PoolIndInv, PoolTypeOK
  <2> QED
    BY <1>1, <2>2, <2>3, <2>4 DEF PoolIndInv, QueuedOnce
<1> QED
  BY <1>4, <1>5

LEMMA PoolStart == PoolInit => PoolIndInv
BY DEF PoolInit, PoolIndInv, PoolTypeOK, QueuedOnce, InCourse, Waiting, Depth

LEMMA PoolStep == PoolIndInv /\ [PoolNext]_poolVars => PoolIndInv'
<1> SUFFICES ASSUME PoolIndInv, [PoolNext]_poolVars PROVE PoolIndInv'
  OBVIOUS
<1>1. ASSUME NEW p \in Request, FailCourse(p) PROVE PoolIndInv'
  BY <1>1, EndKeepsPool DEF FailCourse
<1>2. CASE UNCHANGED poolVars
  BY <1>2 DEF poolVars, PoolIndInv, PoolTypeOK, QueuedOnce, InCourse, Waiting,
              Target
<1> QED
  BY <1>1, <1>2, BeginCourseKeeps, AcquireKeeps, ReleaseKeeps, ServeKeeps
  DEF PoolNext

(* Where nobody holds three connections, each holder has two at most.      *)
LEMMA TwoEach ==
  ASSUME PoolTypeOK, \A p \in Request : held[p] <= 2
  PROVE  /\ Cardinality(InUse) \in Nat /\ Cardinality(Holders) \in Nat
         /\ Cardinality(InUse) <= 2 * Cardinality(Holders)
<1>1. /\ IsFiniteSet({1} \cup {2})
      /\ Cardinality({1} \cup {2}) = 2
  <2>1. IsFiniteSet({1}) /\ Cardinality({1}) = 1
    BY FS_Singleton
  <2>2. 2 \notin {1} /\ \A S : IsFiniteSet(S) /\ 2 \notin S =>
          IsFiniteSet(S \cup {2}) /\ Cardinality(S \cup {2}) = Cardinality(S) + 1
    BY FS_AddElement
  <2>3. Cardinality({1} \cup {2}) = Cardinality({1}) + 1
    BY <2>1, <2>2, Zenon
  <2>4. IsFiniteSet({1} \cup {2})
    BY <2>1, <2>2, Zenon
  <2> QED
    BY <2>1, <2>3, <2>4
<1>0. IsFiniteSet(Holders)
  BY FS_Subset, RequestAssumption DEF Holders
<1>2. /\ IsFiniteSet(Holders \X ({1} \cup {2}))
      /\ Cardinality(Holders \X ({1} \cup {2})) = Cardinality(Holders) * 2
  BY <1>0, <1>1, FS_Product
<1>3. InUse \subseteq Holders \X ({1} \cup {2})
  <2> SUFFICES ASSUME NEW h \in InUse PROVE h \in Holders \X ({1} \cup {2})
    OBVIOUS
  <2>1. PICK p \in Request, i \in 1 .. Depth : h = <<p, i>> /\ i <= held[p]
    BY DEF InUse
  <2>2. i \in 1 .. 3 /\ held[p] \in 0 .. 3 /\ held[p] <= 2
    BY DEF PoolTypeOK, Depth
  <2>3. i \in {1} \cup {2} /\ p \in Holders
    BY <2>1, <2>2 DEF Holders
  <2> QED
    BY <2>1, <2>3
<1>4. IsFiniteSet(InUse) /\ Cardinality(InUse) <= Cardinality(Holders) * 2
  BY <1>2, <1>3, FS_Subset
<1>5. Cardinality(InUse) \in Nat /\ Cardinality(Holders) \in Nat
  BY <1>0, <1>4, FS_CardinalityType
<1> QED
  BY <1>4, <1>5

(* However many requests nest their connections, they come to wait for one *)
(* another for ever in one way only: every connection is held by a request *)
(* that wants another inside its transaction, and these are at least half  *)
(* as many as the connections.  A pool of ten starves no sooner than with  *)
(* five requests at such a place at once.                                  *)
THEOREM PoolStarvesOnlyByNesting == PoolSpec => []StarvesOnlyByNesting
<1>1. PoolIndInv => StarvesOnlyByNesting
  <2> SUFFICES ASSUME PoolIndInv, queue # <<>>, ~ Free,
                      \A p \in Request : ~ (Ready(p) /\ Target(p) < held[p])
               PROVE  Starved /\ PoolSize <= 2 * Cardinality(Holders)
    BY DEF StarvesOnlyByNesting
  <2>0. PoolTypeOK
    BY DEF PoolIndInv
  <2>1. ASSUME NEW p \in Holders
        PROVE  Target(p) > held[p] /\ held[p] <= 2
    <3>1. p \in Request /\ InCourse(p) /\ held[p] \in 0 .. 3 /\ held[p] > 0
      BY DEF PoolIndInv, PoolTypeOK, Depth, Holders
    <3>2. course[p] # Null
      BY <3>1 DEF InCourse
    <3>3. /\ Target(p) \in 0 .. 3
          /\ Target(p) = held[p] + 1 \/ Target(p) + 1 = held[p]
      BY <2>0, <3>1, <3>2, OneAhead DEF Depth
    <3>4. Target(p) < held[p] => p \notin Waiting
      BY <3>1, <3>2, <3>3 DEF InCourse
    <3>5. ~ Target(p) < held[p]
      BY <3>1, <3>2, <3>4 DEF Ready
    <3> QED
      BY <3>1, <3>3, <3>5
  <2>2. \A p \in Request : held[p] <= 2
    <3> SUFFICES ASSUME NEW p \in Request PROVE held[p] <= 2
      OBVIOUS
    <3>1. held[p] \in 0 .. 3
      BY <2>0 DEF PoolTypeOK, Depth
    <3>2. CASE held[p] > 0
      BY <3>2, <2>1 DEF Holders
    <3> QED
      BY <3>1, <3>2
  <2>3. /\ Cardinality(InUse) \in Nat /\ Cardinality(Holders) \in Nat
        /\ Cardinality(InUse) <= 2 * Cardinality(Holders)
    BY <2>0, <2>2, TwoEach
  <2>4. PoolSize <= Cardinality(InUse)
    BY <2>3, PoolAssumption DEF Free
  <2>5. PoolSize <= 2 * Cardinality(Holders)
    BY <2>3, <2>4, PoolAssumption
  <2>6. Starved
    BY <2>1 DEF Starved
  <2> QED
    BY <2>5, <2>6
<1>2. PoolSpec => []PoolIndInv
  BY PoolStart, PoolStep, PTL DEF PoolSpec
<1> QED
  BY <1>1, <1>2, PTL
=============================================================================
