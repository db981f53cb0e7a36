------------------------ MODULE RefreshTokens_proofs ------------------------
(***************************************************************************)
(* Proofs about RefreshTokens, for any number of tokens, users, clients    *)
(* and requests, any lifetimes and any subset of the operations.           *)
(***************************************************************************)
EXTENDS RevocationWindow, TLAPS

USE NullAssumption, LimitAssumption

-----------------------------------------------------------------------------
(* Type correctness.                                                       *)

LEMMA NoRowType == NoRow \in Row
BY DEF NoRow, Row

LEMMA IdleType == Idle \in Job
BY NoRowType DEF Idle, Job, Phase

LEMMA ReasonType ==
  ASSUME NEW op
  PROVE  WhyFamily(op) \in Reason /\ WhyBulk(op) \in Reason
BY DEF WhyFamily, WhyBulk, Reason

LEMMA FirstRowType ==
  ASSUME NEW t \in Token, NEW u \in User \cup {Null},
         NEW c \in Client \cup {Null}, NEW now \in Nat
  PROVE  FirstRow(t, u, c, now) \in Row
BY DEF FirstRow, Row

LEMMA SuccessorType ==
  ASSUME TypeOK, NEW t \in Token, NEW now \in Nat,
         NEW idle \in Nat, NEW absolute \in Nat
  PROVE  SuccessorRow(t, now, idle, absolute) \in Row
<1>1. row[t] \in Row
  BY DEF TypeOK
<1>2. row[t].issuedAt + absolute \in Nat /\ now + idle \in Nat
  BY <1>1 DEF Row
<1> QED
  BY <1>1, <1>2 DEF SuccessorRow, Row

LEMMA RotatedType ==
  ASSUME NEW r \in Row, NEW s \in Token, NEW now \in Nat
  PROVE  Rotated(r, s, now) \in Row
BY DEF Rotated, Row, Reason

LEMMA FilledType ==
  ASSUME NEW r \in Row, NEW now \in Nat, NEW why \in Reason
  PROVE  /\ Filled(r, now, why) \in Row
         /\ Filled(r, now, why).revokedAt # Null
BY DEF Filled, Row

LEMMA WrittenType ==
  ASSUME NEW r \in Row, NEW e \in Row, NEW cols
  PROVE  Written(r, e, cols) \in Row
<1> DEFINE to  == IF "rotatedTo" \in cols THEN e.rotatedTo ELSE r.rotatedTo
           at  == IF "revokedAt" \in cols THEN e.revokedAt ELSE r.revokedAt
           why == IF "reason" \in cols THEN e.reason ELSE r.reason
<1>1. /\ to \in Token \cup {Null}
      /\ at \in Nat \cup {Null}
      /\ why \in Reason \cup {Null}
  BY DEF Row
<1>2. Written(r, e, cols) =
        [r EXCEPT !.rotatedTo = to, !.revokedAt = at, !.reason = why]
  BY DEF Written
<1> HIDE DEF to, at, why
<1> QED
  BY <1>1, <1>2 DEF Row


(* What an operation may put into a request.                               *)
LEMMA JobEdits ==
  ASSUME NEW j \in Job, NEW ph \in Phase, NEW now \in Nat,
         NEW copy \in [Token -> Row],
         NEW changed \in [Token -> SUBSET Column], NEW todo \in SUBSET Token
  PROVE  /\ [j EXCEPT !.phase = ph] \in Job
         /\ [j EXCEPT !.phase = ph, !.now = now] \in Job
         /\ [j EXCEPT !.phase = ph, !.copy = copy] \in Job
         /\ [j EXCEPT !.phase = ph, !.changed = changed, !.todo = todo] \in Job
         /\ [j EXCEPT !.phase = ph, !.todo = todo, !.copy = copy] \in Job
BY DEF Job

LEMMA RowEdits ==
  ASSUME NEW j \in Job, NEW changed \in [Token -> SUBSET Column],
         NEW todo \in SUBSET Token
  PROVE  [j EXCEPT !.todo = todo, !.changed = changed] \in Job
BY DEF Job

LEMMA JobType ==
  ASSUME TypeOK, NEW p \in Request
  PROVE  /\ job[p] \in Job
         /\ job[p].now \in Nat
         /\ job[p].token \in Token \cup {Null}
         /\ job[p].user \in User \cup {Null}
         /\ job[p].client \in Client \cup {Null}
         /\ job[p].copy \in [Token -> Row]
         /\ job[p].changed \in [Token -> SUBSET Column]
         /\ job[p].todo \in SUBSET Token
<1>1. job[p] \in Job
  BY DEF TypeOK
<1> QED
  BY <1>1 DEF Job

(* The part of TypeOK about the requests.                                  *)
JobsOK ==
  /\ job \in [Request -> Job]
  /\ \A p \in Request :
       job[p].phase \in {"client", "user", "write"} => job[p].token \in Token

LEMMA BecomeType ==
  ASSUME TypeOK, NEW p \in Request, NEW j \in Job, Become(p, j),
         j.phase \in {"client", "user", "write"} => j.token \in Token
  PROVE  JobsOK'
BY DEF TypeOK, JobsOK, Become

LEMMA FinishType ==
  ASSUME TypeOK, NEW p \in Request, Finish(p)
  PROVE  /\ owner' \in [Token -> Request \cup {Null}]
         /\ JobsOK'
<1>1. JobsOK'
  BY IdleType, BecomeType DEF Finish, Idle
<1> QED
  BY <1>1 DEF TypeOK, Finish

LEMMA LockType ==
  ASSUME TypeOK, NEW p \in Request, NEW t \in Token, Lock(t, p)
  PROVE  owner' \in [Token -> Request \cup {Null}]
BY DEF TypeOK, Lock

LEMMA AdvanceType ==
  ASSUME TypeOK, NEW p \in Request, NEW ph \in Phase, Advance(p, ph),
         ph \in {"client", "user", "write"} => job[p].token \in Token
  PROVE  JobsOK'
<1>1. [job[p] EXCEPT !.phase = ph] \in Job
  BY JobType, JobEdits
<1>2. /\ [job[p] EXCEPT !.phase = ph].phase = ph
      /\ [job[p] EXCEPT !.phase = ph].token = job[p].token
  BY JobType DEF Job
<1> QED
  BY <1>1, <1>2, BecomeType DEF Advance


LEMMA UpdateRowType ==
  ASSUME TypeOK, NEW p \in Request, NEW t \in Token, UpdateRow(p, t)
  PROVE  TypeOK'
<1> DEFINE new  == IF job[p].op \notin Bulk THEN job[p].changed[t]
                     ELSE IF Matches(job[p], row[t], job[p].now)
                            THEN {"revokedAt", "reason"}
                            ELSE {}
           cols == [job[p].changed EXCEPT ![t] = new]
           rest == job[p].todo \ {t}
           j    == [job[p] EXCEPT !.todo = rest, !.changed = cols]
<1>1. job' = [job EXCEPT ![p] = j]
  BY JobType DEF UpdateRow, Become, Job
<1>2. new \in SUBSET Column
  BY JobType DEF Column
<1>3. cols \in [Token -> SUBSET Column] /\ rest \in SUBSET Token
  BY <1>2, JobType
<1> HIDE DEF new, cols, rest
<1>4. j \in Job /\ j.phase = "update"
  <2>1. j \in Job
    BY <1>3, JobType, RowEdits
  <2>2. j.phase = "update"
    BY JobType DEF UpdateRow, Job
  <2> QED
    BY <2>1, <2>2
<1> HIDE DEF j
<1>5. JobsOK'
  BY <1>1, <1>4, BecomeType DEF Become
<1> QED
  BY <1>5, LockType DEF TypeOK, UpdateRow, JobsOK

LEMMA CommitRotationType ==
  ASSUME TypeOK, NEW p \in Request, NEW s \in Token, CommitRotation(p, s)
  PROVE  TypeOK'
<1> DEFINE t    == job[p].token
           idle == IF job[p].op = "rotateToken" THEN WrappedTtl ELSE IdleTtl
           abs  == IF job[p].op = "rotateToken" THEN WrappedTtl
                                                ELSE AbsoluteTtl
<1>1. t \in Token /\ job[p].now \in Nat
  BY JobType DEF TypeOK, CommitRotation
<1>2. SuccessorRow(t, job[p].now, idle, abs) \in Row
  BY <1>1, SuccessorType
<1>3. /\ row \in [Token -> Row]
      /\ \A r \in Row : Rotated(r, s, job[p].now) \in Row
  BY <1>1, RotatedType DEF TypeOK
<1>4. row' \in [Token -> Row]
  BY <1>1, <1>2, <1>3 DEF CommitRotation
<1> QED
  BY <1>4, FinishType DEF TypeOK, CommitRotation, JobsOK

LEMMA StepType ==
  ASSUME TypeOK, NEW p \in Request, Step(p)
  PROVE  TypeOK'
<1> USE JobType
<1>1. CASE RejectUnknown(p) \/ RejectUnusable(p) \/ Resolve(p)
  BY <1>1, FinishType
     DEF TypeOK, JobsOK, RejectUnknown, RejectUnusable, Resolve
<1>2. CASE DetectReplay(p)
  BY <1>2, LockType, AdvanceType
     DEF TypeOK, JobsOK, DetectReplay, Presented, Phase
<1>3. CASE AcceptForRotation(p)
  <2>1. (IF job[p].op = "rotateToken" THEN "write" ELSE "client") \in Phase
    BY DEF Phase
  <2>2. job[p].token \in Token
    BY <1>3 DEF AcceptForRotation, Presented
  <2>3. JobsOK'
    BY <1>3, <2>1, <2>2, AdvanceType DEF AcceptForRotation
  <2> QED
    BY <1>3, <2>2, <2>3, LockType DEF TypeOK, JobsOK, AcceptForRotation
<1>4. CASE CheckClient(p)
  BY <1>4, FinishType, AdvanceType DEF TypeOK, JobsOK, CheckClient, Phase
<1>5. CASE CheckUser(p)
  BY <1>5, FinishType, AdvanceType DEF TypeOK, JobsOK, CheckUser, Phase
<1>6. CASE AcceptForRevocation(p)
  <2> DEFINE j == [job[p] EXCEPT !.phase = "find", !.now = clock]
  <2>1. j \in Job /\ j.phase = "find"
    <3>1. clock \in Nat /\ "find" \in Phase
      BY DEF TypeOK, Phase
    <3>2. j \in Job
      BY <3>1, JobEdits
    <3>3. j.phase = "find"
      BY DEF Job
    <3> QED
      BY <3>2, <3>3
  <2>2. JobsOK'
    BY <1>6, <2>1, BecomeType DEF AcceptForRevocation
  <2> QED
    BY <1>6, <2>2, LockType DEF TypeOK, JobsOK, AcceptForRevocation, Presented
<1>7. CASE FindFamily(p)
  <2> DEFINE found == [t \in Token |->
                 IF t \in Family(row[job[p].token].family)
                   THEN Filled(row[t], job[p].now, WhyFamily(job[p].op))
                   ELSE NoRow]
             j == [job[p] EXCEPT !.phase = "reload", !.copy = found]
  <2>1. found \in [Token -> Row]
    BY FilledType, ReasonType, NoRowType DEF TypeOK
  <2>2. Become(p, j)
    BY <1>7 DEF FindFamily
  <2> HIDE DEF found
  <2>3. j \in Job /\ j.phase = "reload"
    <3>1. "reload" \in Phase
      BY DEF Phase
    <3>2. j \in Job
      BY <2>1, <3>1, JobEdits
    <3>3. j.phase = "reload"
      BY DEF Job
    <3> QED
      BY <3>2, <3>3
  <2>4. JobsOK'
    BY <2>2, <2>3, BecomeType
  <2> QED
    BY <1>7, <2>4 DEF TypeOK, JobsOK, FindFamily
<1>8. CASE Reload(p)
  <2> DEFINE Diff(t) == IF job[p].copy[t].family = Null THEN {}
                          ELSE Differing(job[p].copy[t], row[t])
             diffs == [t \in Token |-> Diff(t)]
             rest  == {t \in Token : Diff(t) # {}}
             j == [job[p] EXCEPT !.phase = "update", !.changed = diffs,
                                 !.todo = rest]
  <2>1. diffs \in [Token -> SUBSET Column] /\ rest \in SUBSET Token
    BY DEF Differing
  <2>2. Become(p, j)
    BY <1>8 DEF Reload
  <2> HIDE DEF diffs, rest
  <2>3. j \in Job /\ j.phase = "update"
    <3>1. "update" \in Phase
      BY DEF Phase
    <3>2. j \in Job
      BY <2>1, <3>1, JobEdits
    <3>3. j.phase = "update"
      BY DEF Job
    <3> QED
      BY <3>2, <3>3
  <2>4. JobsOK'
    BY <2>2, <2>3, BecomeType
  <2> QED
    BY <1>8, <2>4 DEF TypeOK, JobsOK, Reload
<1>9. CASE MatchRows(p)
  <2> DEFINE hit == {t \in Token : Matches(job[p], row[t], job[p].now)}
             set == [t \in Token |->
                 IF t \in hit
                   THEN Filled(row[t], job[p].now, WhyBulk(job[p].op))
                   ELSE NoRow]
             j == [job[p] EXCEPT !.phase = "update", !.todo = hit,
                                 !.copy = set]
  <2>1. hit \in SUBSET Token
    OBVIOUS
  <2>2. set \in [Token -> Row]
    BY FilledType, ReasonType, NoRowType DEF TypeOK
  <2>3. Become(p, j)
    BY <1>9 DEF MatchRows
  <2> HIDE DEF hit, set
  <2>4. j \in Job /\ j.phase = "update"
    <3>1. "update" \in Phase
      BY DEF Phase
    <3>2. j \in Job
      BY <2>1, <2>2, <3>1, JobEdits
    <3>3. j.phase = "update"
      BY DEF Job
    <3> QED
      BY <3>2, <3>3
  <2>5. JobsOK'
    BY <2>3, <2>4, BecomeType
  <2> QED
    BY <1>9, <2>5 DEF TypeOK, JobsOK, MatchRows
<1>10. CASE CommitRevocation(p)
  <2>1. \A t \in Token : row[t] \in Row /\ job[p].copy[t] \in Row
    BY DEF TypeOK
  <2>2. row' \in [Token -> Row]
    BY <1>10, <2>1, WrittenType DEF CommitRevocation
  <2> QED
    BY <1>10, <2>2, FinishType DEF TypeOK, JobsOK, CommitRevocation
<1>11. ASSUME NEW t \in Token, InsertToken(p, t)  PROVE TypeOK'
  BY <1>11, FirstRowType, FinishType DEF TypeOK, JobsOK, InsertToken
<1> QED
  BY <1>1, <1>2, <1>3, <1>4, <1>5, <1>6, <1>7, <1>8, <1>9, <1>10, <1>11,
     CommitRotationType, UpdateRowType DEF Step

LEMMA ArriveType ==
  ASSUME TypeOK, NEW p \in Request, Arrive(p)
  PROVE  TypeOK'
<1>1. ASSUME NEW u \in User, NEW c \in Client, StartIssue(p, u, c)
      PROVE  TypeOK'
  <2> DEFINE j == [Idle EXCEPT !.phase = "insert", !.op = "issueToken",
                               !.user = u, !.client = c, !.now = clock]
  <2>1. j \in Job /\ j.phase = "insert"
    BY IdleType DEF Idle, Job, Phase, Operation, TypeOK
  <2> QED
    BY <1>1, <2>1, BecomeType DEF StartIssue, TypeOK, JobsOK
<1>2. ASSUME NEW op \in Operation, NEW t \in Stored \cup {Null},
             NEW c \in Client \cup {Null}, Present(p, op, t, c)
      PROVE  TypeOK'
  <2> DEFINE j == [Idle EXCEPT !.phase = "lock", !.op = op, !.token = t,
                               !.client = c, !.now = clock]
  <2>1. j \in Job /\ j.phase = "lock"
    BY IdleType DEF Idle, Job, Phase, TypeOK, Stored
  <2> QED
    BY <1>2, <2>1, BecomeType DEF Present, TypeOK, JobsOK
<1>3. ASSUME NEW f \in Token, StartFamilyRevocation(p, f)
      PROVE  TypeOK'
  <2> DEFINE j == [Idle EXCEPT !.phase = "find", !.op = "revokeTokenFamily",
                               !.token = f, !.now = clock]
  <2>1. j \in Job /\ j.phase = "find"
    BY IdleType DEF Idle, Job, Phase, Operation, TypeOK
  <2> QED
    BY <1>3, <2>1, BecomeType DEF StartFamilyRevocation, TypeOK, JobsOK
<1>4. ASSUME NEW u \in User, Deactivate(p, u) \/ ResetPassword(p, u)
      PROVE  TypeOK'
  <2> DEFINE j(op) == [Idle EXCEPT !.phase = "statement", !.op = op,
                                   !.user = u, !.now = clock]
  <2>1. \A op \in Bulk : j(op) \in Job /\ j(op).phase = "statement"
    BY IdleType DEF Idle, Job, Phase, Operation, TypeOK
  <2>2. CASE Deactivate(p, u)
    BY <2>1, <2>2, BecomeType DEF Deactivate, TypeOK, JobsOK, Bulk
  <2>3. CASE ResetPassword(p, u)
    BY <2>1, <2>3, BecomeType DEF ResetPassword, TypeOK, JobsOK, Bulk
  <2> QED
    BY <1>4, <2>2, <2>3
<1>5. CASE Cleanup(p)
  <2> DEFINE j == [Idle EXCEPT !.phase = "statement", !.now = clock,
                               !.op = "cleanupExpiredState"]
  <2>1. j \in Job /\ j.phase = "statement"
    BY IdleType DEF Idle, Job, Phase, Operation, Bulk, TypeOK
  <2> QED
    BY <1>5, <2>1, BecomeType DEF Cleanup, TypeOK, JobsOK
<1> QED
  BY <1>1, <1>2, <1>3, <1>4, <1>5 DEF Arrive

LEMMA TypeInit == Init => TypeOK
BY NoRowType, IdleType DEF Init, TypeOK, Idle

LEMMA TypeStep == TypeOK /\ [Next]_vars => TypeOK'
<1> SUFFICES ASSUME TypeOK, [Next]_vars  PROVE TypeOK'
  OBVIOUS
<1>1. ASSUME NEW p \in Request, Fail(p)  PROVE TypeOK'
  BY <1>1, FinishType DEF Fail, TypeOK, JobsOK
<1>2. ASSUME NEW u \in User, SwitchUser(u)  PROVE TypeOK'
  BY <1>2 DEF SwitchUser, TypeOK
<1>3. ASSUME NEW c \in Client, SwitchClient(c)  PROVE TypeOK'
  BY <1>3 DEF SwitchClient, TypeOK
<1>4. CASE Tick
  BY <1>4 DEF Tick, TypeOK
<1>5. CASE UNCHANGED vars
  BY <1>5 DEF vars, TypeOK, Stored
<1> QED
  BY <1>1, <1>2, <1>3, <1>4, <1>5, StepType, ArriveType DEF Next

(* Every variable keeps its type, whatever is requested.                   *)
THEOREM TypeCorrect == Spec => []TypeOK
BY TypeInit, TypeStep, PTL DEF Spec

-----------------------------------------------------------------------------
(* The inductive invariant, divided into what it says of the table and     *)
(* what it says of each request.                                           *)

TableOK == FamilyRooted /\ ParentSpent /\ OneLivePerFamily /\ ExchangedOnce

Knows(p) == job[p].token # Null => job[p].token \in Stored

Holds(p) == job[p].phase \in {"client", "user", "write"} =>
              job[p].token \in LiveSet /\ owner[job[p].token] = p

Locks(p) == \A t \in Token : job[p].changed[t] # {} =>
              /\ job[p].phase = "update"
              /\ t \in job[p].todo \/ owner[t] = p

Copies(p) == \A t \in Token :
               \/ job[p].phase = "reload" /\ job[p].copy[t].family # Null
               \/ job[p].phase = "update"
                    /\ (t \in job[p].todo \/ job[p].changed[t] # {})
               => job[p].copy[t].revokedAt # Null

RequestOK(p) == Knows(p) /\ Holds(p) /\ Locks(p) /\ Copies(p)

LEMMA IndInvParts ==
  IndInv <=> TypeOK /\ TableOK /\ \A p \in Request : RequestOK(p)
BY DEF IndInv, TableOK, RequestOK, Knows, Holds, Locks, Copies,
       RequestedStored, RotationHoldsToken, LockedBeforeWrite, CopiesRevoked

(* A request is not disturbed by a step that leaves it alone, keeps its    *)
(* locks and keeps the tokens live that it has locked.                     *)
LEMMA Undisturbed ==
  ASSUME TypeOK, NEW q \in Request, RequestOK(q), job'[q] = job[q],
         Stored \subseteq Stored',
         \A t \in Token : owner[t] = q =>
           owner'[t] = q /\ (t \in LiveSet => t \in LiveSet')
  PROVE  RequestOK(q)'
<1>1. Knows(q)' /\ Holds(q)'
  BY DEF RequestOK, Knows, Holds, TypeOK
<1>2. Locks(q)'
  BY DEF RequestOK, Locks
<1>3. Copies(q)'
  BY DEF RequestOK, Copies
<1> QED
  BY <1>1, <1>2, <1>3 DEF RequestOK

LEMMA FinishKeepsRequests ==
  ASSUME IndInv, NEW p \in Request, Finish(p), Stored \subseteq Stored',
         \A t \in Token : owner[t] # p /\ t \in LiveSet => t \in LiveSet'
  PROVE  \A q \in Request : RequestOK(q)'
<1> SUFFICES ASSUME NEW q \in Request  PROVE RequestOK(q)'
  OBVIOUS
<1>1. CASE q = p
  <2>1. job'[p] = Idle
    BY IndInvParts DEF Finish, Become, TypeOK
  <2>2. /\ Idle.phase = "idle"
        /\ Idle.token = Null
        /\ \A t \in Token : Idle.changed[t] = {}
    BY DEF Idle
  <2> QED
    BY <1>1, <2>1, <2>2 DEF RequestOK, Knows, Holds, Locks, Copies
<1>2. CASE q # p
  <2>1. job'[q] = job[q]
    BY <1>2, IndInvParts DEF Finish, Become, TypeOK
  <2>2. \A t \in Token : owner[t] = q =>
          owner'[t] = q /\ (t \in LiveSet => t \in LiveSet')
    BY <1>2 DEF Finish
  <2> QED
    BY <2>1, <2>2, Undisturbed, IndInvParts
<1> QED
  BY <1>1, <1>2

LEMMA BecomeKeepsRequests ==
  ASSUME IndInv, NEW p \in Request, NEW j, Become(p, j), UNCHANGED row,
         \A t \in Token : owner[t] \notin {Null, p} => owner'[t] = owner[t],
         RequestOK(p)'
  PROVE  \A q \in Request : RequestOK(q)'
<1> SUFFICES ASSUME NEW q \in Request, q # p  PROVE RequestOK(q)'
  OBVIOUS
<1>1. job'[q] = job[q]
  BY IndInvParts DEF Become, TypeOK
<1>2. /\ Stored \subseteq Stored'
      /\ \A t \in Token : owner[t] = q =>
           owner'[t] = q /\ (t \in LiveSet => t \in LiveSet')
  BY DEF Stored, LiveSet, Live
<1> QED
  BY <1>1, <1>2, Undisturbed, IndInvParts

LEMMA SameTable ==
  ASSUME TableOK, UNCHANGED row
  PROVE  TableOK'
BY DEF TableOK, FamilyRooted, ParentSpent, OneLivePerFamily, ExchangedOnce,
       Stored, LiveSet, Live


-----------------------------------------------------------------------------
(* Steps that leave the table alone.                                       *)

LEMMA QuietFinish ==
  ASSUME IndInv, NEW p \in Request, Finish(p), UNCHANGED row
  PROVE  \A q \in Request : RequestOK(q)'
<1>1. Stored \subseteq Stored' /\ LiveSet \subseteq LiveSet'
  BY DEF Stored, LiveSet, Live
<1> QED
  BY <1>1, FinishKeepsRequests

(* A request that has not reached its updates has nothing to write.        *)
LEMMA NothingChanged ==
  ASSUME TypeOK, NEW p \in Request, RequestOK(p), job[p].phase # "update"
  PROVE  \A t \in Token : job[p].changed[t] = {}
BY DEF RequestOK, Locks

LEMMA QuietAdvance ==
  ASSUME IndInv, NEW p \in Request, NEW j \in Job, Become(p, j),
         UNCHANGED row,
         \A t \in Token : owner[t] \notin {Null, p} => owner'[t] = owner[t],
         j.phase \notin {"reload", "update"},
         job[p].phase # "update",
         j.token = job[p].token,
         j.changed = job[p].changed,
         j.phase \in {"client", "user", "write"} =>
           j.token \in LiveSet /\ owner'[j.token] = p
  PROVE  \A q \in Request : RequestOK(q)'
<1>1. job'[p] = j
  BY IndInvParts DEF Become, TypeOK
<1>2. /\ Stored' = Stored
      /\ LiveSet' = LiveSet
  BY DEF Stored, LiveSet, Live
<1>3. \A t \in Token : j.changed[t] = {}
  BY NothingChanged, IndInvParts
<1>4. RequestOK(p)'
  BY <1>1, <1>2, <1>3, IndInvParts DEF RequestOK, Knows, Holds, Locks, Copies
<1> QED
  BY <1>4, BecomeKeepsRequests

LEMMA LockFrame ==
  ASSUME TypeOK, NEW p \in Request, NEW t \in Token, Lock(t, p),
         owner[t] \in {Null, p}
  PROVE  /\ \A s \in Token : owner[s] \notin {Null, p} => owner'[s] = owner[s]
         /\ owner'[t] = p
BY DEF Lock, TypeOK

LEMMA AcceptKeeps ==
  ASSUME IndInv, NEW p \in Request,
         DetectReplay(p) \/ AcceptForRotation(p) \/ AcceptForRevocation(p)
  PROVE  \A q \in Request : RequestOK(q)'
<1> USE IndInvParts
<1> DEFINE t == job[p].token
<1>1. /\ t \in Token /\ t \in Stored /\ owner[t] = Null /\ Lock(t, p)
      /\ job[p].phase = "lock" /\ UNCHANGED row
  BY JobType DEF DetectReplay, AcceptForRotation, AcceptForRevocation,
                 Presented, Free, RequestOK, Knows
<1>2. /\ \A s \in Token : owner[s] \notin {Null, p} => owner'[s] = owner[s]
      /\ owner'[t] = p
  BY <1>1, LockFrame
<1>3. CASE DetectReplay(p)
  <2> DEFINE j == [job[p] EXCEPT !.phase = "find"]
  <2>1. j \in Job
    BY JobType, JobEdits DEF Phase
  <2>2. j.phase = "find" /\ j.token = t /\ j.changed = job[p].changed
    BY JobType DEF Job
  <2>3. Become(p, j)
    BY <1>3 DEF DetectReplay, Advance
  <2> QED
    BY <1>1, <1>2, <2>1, <2>2, <2>3, QuietAdvance
<1>4. CASE AcceptForRotation(p)
  <2> DEFINE ph == IF job[p].op = "rotateToken" THEN "write" ELSE "client"
             j  == [job[p] EXCEPT !.phase = ph]
  <2>1. ph \in Phase /\ ph \in {"write", "client"}
    BY DEF Phase
  <2>2. Become(p, j)
    BY <1>4 DEF AcceptForRotation, Advance
  <2> HIDE DEF ph
  <2>3. j \in Job
    BY <2>1, JobType, JobEdits
  <2>4. j.phase = ph /\ j.token = t /\ j.changed = job[p].changed
    BY JobType DEF Job
  <2>5. t \in LiveSet
    BY <1>1, <1>4 DEF AcceptForRotation, Usable, LiveSet, Live, Stored
  <2> QED
    BY <1>1, <1>2, <2>1, <2>2, <2>3, <2>4, <2>5, QuietAdvance
<1>5. CASE AcceptForRevocation(p)
  <2> DEFINE j == [job[p] EXCEPT !.phase = "find", !.now = clock]
  <2>1. clock \in Nat /\ "find" \in Phase
    BY DEF TypeOK, Phase
  <2>2. j \in Job
    BY <2>1, JobType, JobEdits
  <2>3. j.phase = "find" /\ j.token = t /\ j.changed = job[p].changed
    BY JobType DEF Job
  <2>4. Become(p, j)
    BY <1>5 DEF AcceptForRevocation
  <2> QED
    BY <1>1, <1>2, <2>2, <2>3, <2>4, QuietAdvance
<1> QED
  BY <1>3, <1>4, <1>5

LEMMA CheckKeeps ==
  ASSUME IndInv, NEW p \in Request, NEW ph \in {"user", "write"},
         job[p].phase \in {"client", "user"},
         Advance(p, ph), UNCHANGED <<row, owner>>
  PROVE  \A q \in Request : RequestOK(q)'
<1> USE IndInvParts
<1> DEFINE j == [job[p] EXCEPT !.phase = ph]
<1>1. ph \in Phase
  BY DEF Phase
<1>2. j \in Job
  BY <1>1, JobType, JobEdits
<1>3. j.phase = ph /\ j.token = job[p].token /\ j.changed = job[p].changed
  BY JobType DEF Job
<1>4. j.token \in LiveSet /\ owner'[j.token] = p
  BY <1>3 DEF RequestOK, Holds
<1>5. Become(p, j)
  BY DEF Advance
<1> QED
  BY <1>2, <1>3, <1>4, <1>5, QuietAdvance


LEMMA FindKeeps ==
  ASSUME IndInv, NEW p \in Request, FindFamily(p)
  PROVE  \A q \in Request : RequestOK(q)'
<1> USE IndInvParts
<1> DEFINE found == [t \in Token |->
               IF t \in Family(row[job[p].token].family)
                 THEN Filled(row[t], job[p].now, WhyFamily(job[p].op))
                 ELSE NoRow]
           j == [job[p] EXCEPT !.phase = "reload", !.copy = found]
<1>1. \A t \in Token : found[t].family # Null => found[t].revokedAt # Null
  BY FilledType, ReasonType, JobType DEF TypeOK, NoRow
<1>2. Become(p, j) /\ UNCHANGED <<row, owner>> /\ job[p].phase = "find"
  BY DEF FindFamily
<1> HIDE DEF found
<1>3. /\ j.phase = "reload" /\ j.copy = found
      /\ j.token = job[p].token /\ j.changed = job[p].changed
  BY JobType DEF Job
<1> HIDE DEF j
<1>4. job'[p] = j
  BY <1>2 DEF Become, TypeOK
<1>5. RequestOK(p)'
  <2>1. \A t \in Token : job'[p].changed[t] = {}
    BY <1>2, <1>3, <1>4, NothingChanged
  <2>2. Stored' = Stored
    BY <1>2 DEF Stored
  <2> QED
    BY <1>1, <1>3, <1>4, <2>1, <2>2
       DEF RequestOK, Knows, Holds, Locks, Copies
<1> QED
  BY <1>2, <1>5, BecomeKeepsRequests

LEMMA ReloadKeeps ==
  ASSUME IndInv, NEW p \in Request, Reload(p)
  PROVE  \A q \in Request : RequestOK(q)'
<1> USE IndInvParts
<1> DEFINE Diff(t) == IF job[p].copy[t].family = Null THEN {}
                        ELSE Differing(job[p].copy[t], row[t])
           diffs == [t \in Token |-> Diff(t)]
           rest  == {t \in Token : Diff(t) # {}}
           j == [job[p] EXCEPT !.phase = "update", !.changed = diffs,
                               !.todo = rest]
<1>1. \A t \in Token :
        /\ t \in rest => job[p].copy[t].family # Null
        /\ diffs[t] # {} => t \in rest
  OBVIOUS
<1>2. Become(p, j) /\ UNCHANGED <<row, owner>> /\ job[p].phase = "reload"
  BY DEF Reload
<1> HIDE DEF diffs, rest
<1>3. /\ j.phase = "update" /\ j.copy = job[p].copy /\ j.changed = diffs
      /\ j.todo = rest /\ j.token = job[p].token
  BY JobType DEF Job
<1> HIDE DEF j
<1>4. job'[p] = j
  BY <1>2 DEF Become, TypeOK
<1>5. RequestOK(p)'
  <2>1. \A t \in rest : job[p].copy[t].revokedAt # Null
    BY <1>1, <1>2 DEF RequestOK, Copies, rest
  <2>2. Stored' = Stored
    BY <1>2 DEF Stored
  <2> QED
    BY <1>1, <1>3, <1>4, <2>1, <2>2
       DEF RequestOK, Knows, Holds, Locks, Copies
<1> QED
  BY <1>2, <1>5, BecomeKeepsRequests

LEMMA MatchKeeps ==
  ASSUME IndInv, NEW p \in Request, MatchRows(p)
  PROVE  \A q \in Request : RequestOK(q)'
<1> USE IndInvParts
<1> DEFINE hit == {t \in Token : Matches(job[p], row[t], job[p].now)}
           set == [t \in Token |->
               IF t \in hit
                 THEN Filled(row[t], job[p].now, WhyBulk(job[p].op))
                 ELSE NoRow]
           j == [job[p] EXCEPT !.phase = "update", !.todo = hit, !.copy = set]
<1>1. \A t \in Token : t \in hit => set[t].revokedAt # Null
  BY FilledType, ReasonType, JobType DEF TypeOK
<1>2. Become(p, j) /\ UNCHANGED <<row, owner>> /\ job[p].phase = "statement"
  BY DEF MatchRows
<1>3. hit \subseteq Token
  OBVIOUS
<1> HIDE DEF hit, set
<1>4. /\ j.phase = "update" /\ j.copy = set /\ j.todo = hit
      /\ j.changed = job[p].changed /\ j.token = job[p].token
  BY JobType DEF Job
<1> HIDE DEF j
<1>5. job'[p] = j
  BY <1>2 DEF Become, TypeOK
<1>6. RequestOK(p)'
  <2>1. \A t \in Token : job'[p].changed[t] = {}
    BY <1>2, <1>4, <1>5, NothingChanged
  <2>2. Stored' = Stored
    BY <1>2 DEF Stored
  <2> QED
    BY <1>1, <1>4, <1>5, <2>1, <2>2
       DEF RequestOK, Knows, Holds, Locks, Copies
<1> QED
  BY <1>2, <1>6, BecomeKeepsRequests

LEMMA UpdateKeeps ==
  ASSUME IndInv, NEW p \in Request, NEW t \in Token, UpdateRow(p, t)
  PROVE  \A q \in Request : RequestOK(q)'
<1> USE IndInvParts
<1> DEFINE new  == IF job[p].op \notin Bulk THEN job[p].changed[t]
                     ELSE IF Matches(job[p], row[t], job[p].now)
                            THEN {"revokedAt", "reason"}
                            ELSE {}
           cols == [job[p].changed EXCEPT ![t] = new]
           rest == job[p].todo \ {t}
           j    == [job[p] EXCEPT !.todo = rest, !.changed = cols]
<1>1. job' = [job EXCEPT ![p] = j]
  BY JobType DEF UpdateRow, Become, Job
<1>2. /\ job[p].phase = "update" /\ t \in job[p].todo
      /\ UNCHANGED row
      /\ \A s \in Token : owner[s] \notin {Null, p} => owner'[s] = owner[s]
      /\ owner'[t] = p
      /\ \A s \in Token : owner[s] = p => owner'[s] = p
  BY LockFrame DEF UpdateRow, Lock, TypeOK
<1>3. \A s \in Token \ {t} : cols[s] = job[p].changed[s]
  BY JobType
<1> HIDE DEF new, cols
<1>4. /\ j.phase = "update" /\ j.copy = job[p].copy /\ j.changed = cols
      /\ j.todo = rest /\ j.token = job[p].token
  BY <1>2, JobType DEF Job
<1> HIDE DEF j
<1>5. job'[p] = j
  BY <1>1 DEF TypeOK
<1>6. RequestOK(p)'
  <2>1. Stored' = Stored
    BY <1>2 DEF Stored
  <2>2. Knows(p)' /\ Holds(p)'
    BY <1>4, <1>5, <2>1 DEF RequestOK, Knows, Holds
  <2>3. Locks(p)'
    BY <1>2, <1>3, <1>4, <1>5 DEF RequestOK, Locks
  <2>4. Copies(p)'
    BY <1>2, <1>3, <1>4, <1>5 DEF RequestOK, Copies
  <2> QED
    BY <2>2, <2>3, <2>4 DEF RequestOK
<1> QED
  BY <1>1, <1>2, <1>6, BecomeKeepsRequests DEF Become

LEMMA ArriveKeeps ==
  ASSUME IndInv, NEW p \in Request, Arrive(p)
  PROVE  UNCHANGED row /\ \A q \in Request : RequestOK(q)'
<1> USE IndInvParts
<1> DEFINE Fresh(j) == /\ j.phase \in {"insert", "lock", "find", "statement"}
                       /\ j.token \in Stored \cup {Null}
                       /\ \A t \in Token : j.changed[t] = {}
<1>1. ASSUME NEW j, Become(p, j), Fresh(j), UNCHANGED <<row, owner>>
      PROVE  \A q \in Request : RequestOK(q)'
  <2>1. job'[p] = j
    BY <1>1 DEF Become, TypeOK
  <2>2. Stored' = Stored
    BY <1>1 DEF Stored
  <2>3. RequestOK(p)'
    BY <1>1, <2>1, <2>2 DEF RequestOK, Knows, Holds, Locks, Copies
  <2> QED
    BY <1>1, <2>3, BecomeKeepsRequests
<1>2. ASSUME NEW u \in User, NEW c \in Client, StartIssue(p, u, c)
      PROVE  UNCHANGED row /\ \A q \in Request : RequestOK(q)'
  <2> DEFINE j == [Idle EXCEPT !.phase = "insert", !.op = "issueToken",
                               !.user = u, !.client = c, !.now = clock]
  <2>1. Fresh(j)
    BY <1>2 DEF StartIssue, Idle
  <2>2. Become(p, j) /\ UNCHANGED <<row, owner>>
    BY <1>2 DEF StartIssue
  <2> HIDE DEF j, Fresh
  <2> QED
    BY <1>1, <2>1, <2>2
<1>3. ASSUME NEW op \in Operation, NEW t \in Stored \cup {Null},
             NEW c \in Client \cup {Null}, Present(p, op, t, c)
      PROVE  UNCHANGED row /\ \A q \in Request : RequestOK(q)'
  <2> DEFINE j == [Idle EXCEPT !.phase = "lock", !.op = op, !.token = t,
                               !.client = c, !.now = clock]
  <2>1. Fresh(j)
    BY <1>3 DEF Present, Idle
  <2>2. Become(p, j) /\ UNCHANGED <<row, owner>>
    BY <1>3 DEF Present
  <2> HIDE DEF j, Fresh
  <2> QED
    BY <1>1, <2>1, <2>2
<1>4. ASSUME NEW f \in Token, StartFamilyRevocation(p, f)
      PROVE  UNCHANGED row /\ \A q \in Request : RequestOK(q)'
  <2> DEFINE j == [Idle EXCEPT !.phase = "find", !.op = "revokeTokenFamily",
                               !.token = f, !.now = clock]
  <2>1. Fresh(j)
    BY <1>4 DEF StartFamilyRevocation, Idle, Stored
  <2>2. Become(p, j) /\ UNCHANGED <<row, owner>>
    BY <1>4 DEF StartFamilyRevocation
  <2> HIDE DEF j, Fresh
  <2> QED
    BY <1>1, <2>1, <2>2
<1>5. ASSUME NEW u \in User, Deactivate(p, u)
      PROVE  UNCHANGED row /\ \A q \in Request : RequestOK(q)'
  <2> DEFINE j == [Idle EXCEPT !.phase = "statement", !.op = "setUserStatus",
                               !.user = u, !.now = clock]
  <2>1. Fresh(j)
    BY <1>5 DEF Deactivate, Idle
  <2>2. Become(p, j) /\ UNCHANGED <<row, owner>>
    BY <1>5 DEF Deactivate
  <2> HIDE DEF j, Fresh
  <2> QED
    BY <1>1, <2>1, <2>2
<1>6. ASSUME NEW u \in User, ResetPassword(p, u)
      PROVE  UNCHANGED row /\ \A q \in Request : RequestOK(q)'
  <2> DEFINE j == [Idle EXCEPT !.phase = "statement", !.op = "resetPassword",
                               !.user = u, !.now = clock]
  <2>1. Fresh(j)
    BY <1>6 DEF ResetPassword, Idle
  <2>2. Become(p, j) /\ UNCHANGED <<row, owner>>
    BY <1>6 DEF ResetPassword
  <2> HIDE DEF j, Fresh
  <2> QED
    BY <1>1, <2>1, <2>2
<1>7. ASSUME Cleanup(p)
      PROVE  UNCHANGED row /\ \A q \in Request : RequestOK(q)'
  <2> DEFINE j == [Idle EXCEPT !.phase = "statement", !.now = clock,
                               !.op = "cleanupExpiredState"]
  <2>1. Fresh(j)
    BY <1>7 DEF Cleanup, Idle
  <2>2. Become(p, j) /\ UNCHANGED <<row, owner>>
    BY <1>7 DEF Cleanup
  <2> HIDE DEF j, Fresh
  <2> QED
    BY <1>1, <2>1, <2>2
<1> QED
  BY <1>2, <1>3, <1>4, <1>5, <1>6, <1>7 DEF Arrive


-----------------------------------------------------------------------------
(* The three steps that change the table.                                  *)

LEMMA InsertEffect ==
  ASSUME IndInv, NEW p \in Request, NEW t \in Token, InsertToken(p, t)
  PROVE  /\ t \notin Stored
         /\ row'[t].family = t /\ row'[t].parent = Null
         /\ row'[t].revokedAt = Null
         /\ \A x \in Token \ {t} : row'[x] = row[x]
         /\ Stored' = Stored \cup {t}
         /\ LiveSet' = LiveSet \cup {t}
<1> USE IndInvParts
<1>1. /\ t \notin Stored
      /\ row'[t].family = t /\ row'[t].parent = Null
      /\ row'[t].revokedAt = Null
      /\ \A x \in Token \ {t} : row'[x] = row[x]
  BY DEF InsertToken, FirstRow, TypeOK
<1>2. Stored' = Stored \cup {t}
  BY <1>1 DEF Stored
<1>3. LiveSet' = LiveSet \cup {t}
  BY <1>1 DEF LiveSet, Live
<1> QED
  BY <1>1, <1>2, <1>3

LEMMA InsertKeeps ==
  ASSUME IndInv, NEW p \in Request, NEW t \in Token, InsertToken(p, t)
  PROVE  TableOK' /\ \A q \in Request : RequestOK(q)'
<1> USE IndInvParts, InsertEffect
<1>1. \A x \in Stored : x \in Token /\ row[x].family \in Stored
  BY DEF TableOK, FamilyRooted, Stored, TypeOK, Row
<1>2. FamilyRooted'
  BY <1>1 DEF TableOK, FamilyRooted
<1>3. ParentSpent'
  BY <1>1 DEF TableOK, ParentSpent
<1>4. LiveSet \subseteq Stored
  BY DEF LiveSet, Live, Stored
<1>5. OneLivePerFamily'
  BY <1>1, <1>4 DEF TableOK, OneLivePerFamily
<1>6. ExchangedOnce'
  BY <1>1 DEF TableOK, ExchangedOnce
<1>7. \A q \in Request : RequestOK(q)'
  BY FinishKeepsRequests DEF InsertToken
<1> QED
  BY <1>2, <1>3, <1>5, <1>6, <1>7 DEF TableOK

LEMMA RotationEffect ==
  ASSUME IndInv, NEW p \in Request, NEW s \in Token, CommitRotation(p, s)
  PROVE  LET t == job[p].token
         IN /\ t \in LiveSet /\ t \in Stored /\ owner[t] = p
            /\ s \notin Stored /\ s # t
            /\ row'[s].family = row[t].family /\ row'[s].parent = t
            /\ row'[s].revokedAt = Null
            /\ row'[t].family = row[t].family
            /\ row'[t].parent = row[t].parent
            /\ row'[t].revokedAt # Null
            /\ \A x \in Token \ {t, s} : row'[x] = row[x]
            /\ Stored' = Stored \cup {s}
            /\ LiveSet' = (LiveSet \ {t}) \cup {s}
<1> USE IndInvParts
<1> DEFINE t == job[p].token
<1>1. t \in LiveSet /\ owner[t] = p
  BY DEF CommitRotation, RequestOK, Holds
<1>2. t \in Token /\ t \in Stored /\ s \notin Stored /\ s # t
  BY <1>1 DEF LiveSet, Live, Stored, CommitRotation
<1>3. row[t] \in Row /\ row[t].revokedAt = Null /\ job[p].now \in Nat
  BY <1>1, <1>2, JobType DEF TypeOK, LiveSet, Live
<1>4. /\ row'[t] = Rotated(row[t], s, job[p].now)
      /\ \A x \in Token \ {t, s} : row'[x] = row[x]
      /\ \E idle, abs : row'[s] = SuccessorRow(t, job[p].now, idle, abs)
  BY <1>2 DEF CommitRotation, TypeOK
<1>5. /\ row'[t].family = row[t].family
      /\ row'[t].parent = row[t].parent
      /\ row'[t].revokedAt # Null
  BY <1>3, <1>4 DEF Rotated, Row
<1>6. /\ row'[s].family = row[t].family /\ row'[s].parent = t
      /\ row'[s].revokedAt = Null
  BY <1>3, <1>4 DEF SuccessorRow, Row
<1>7. Stored' = Stored \cup {s}
  BY <1>2, <1>4, <1>5, <1>6 DEF Stored
<1>8. LiveSet' = (LiveSet \ {t}) \cup {s}
  BY <1>2, <1>4, <1>5, <1>6 DEF LiveSet, Live, Stored
<1> QED
  BY <1>1, <1>2, <1>4, <1>5, <1>6, <1>7, <1>8

LEMMA RotationKeeps ==
  ASSUME IndInv, NEW p \in Request, NEW s \in Token, CommitRotation(p, s)
  PROVE  TableOK' /\ \A q \in Request : RequestOK(q)'
<1> USE IndInvParts, RotationEffect
<1> DEFINE t == job[p].token
<1>1. \A x \in Stored : x \in Token /\ row[x].family \in Stored
  BY DEF TableOK, FamilyRooted, Stored, TypeOK, Row
<1>2. /\ t \in Stored /\ row'[t].family = row[t].family
      /\ \A x \in Stored : /\ row'[x].family = row[x].family
                           /\ row'[x].parent = row[x].parent
                           /\ row[x].revokedAt # Null => row'[x].revokedAt # Null
  BY <1>1
<1>3. FamilyRooted'
  BY <1>1, <1>2 DEF TableOK, FamilyRooted
<1>4. ParentSpent'
  BY <1>1, <1>2 DEF TableOK, ParentSpent
<1>5. LiveSet \subseteq Stored
  BY DEF LiveSet, Live, Stored
<1>6. OneLivePerFamily'
  BY <1>1, <1>2, <1>5 DEF TableOK, OneLivePerFamily
<1>7. ExchangedOnce'
  <2>1. \A x \in Stored : row[x].parent # t
    <3>1. row[t].revokedAt = Null /\ t # Null
      BY DEF LiveSet, Live
    <3> QED
      BY <3>1 DEF TableOK, ParentSpent
  <2>2. /\ Stored' = Stored \cup {s} /\ row'[s].parent = t
        /\ \A x \in Stored : row'[x].parent # t
    BY <1>2, <2>1
  <2>3. \A x, y \in Stored :
          row'[x].parent # Null /\ row'[x].parent = row'[y].parent => x = y
    BY <1>2 DEF TableOK, ExchangedOnce
  <2> QED
    BY <2>2, <2>3 DEF ExchangedOnce
<1>8. \A q \in Request : RequestOK(q)'
  <2>1. owner[t] = p /\ LiveSet' = (LiveSet \ {t}) \cup {s}
    OBVIOUS
  <2>2. Finish(p) /\ Stored \subseteq Stored'
    BY DEF CommitRotation
  <2> QED
    BY <2>1, <2>2, FinishKeepsRequests
<1> QED
  BY <1>3, <1>4, <1>6, <1>7, <1>8 DEF TableOK

LEMMA RevocationEffect ==
  ASSUME IndInv, NEW p \in Request, CommitRevocation(p)
  PROVE  /\ \A x \in Token :
              /\ row'[x].family = row[x].family
              /\ row'[x].parent = row[x].parent
              /\ row[x].revokedAt # Null => row'[x].revokedAt # Null
              /\ owner[x] # p => row'[x].revokedAt = row[x].revokedAt
         /\ Stored' = Stored
         /\ LiveSet' \subseteq LiveSet
<1> USE IndInvParts
<1>1. ASSUME NEW x \in Token
      PROVE  /\ row'[x].family = row[x].family
             /\ row'[x].parent = row[x].parent
             /\ row[x].revokedAt # Null => row'[x].revokedAt # Null
             /\ owner[x] # p => row'[x].revokedAt = row[x].revokedAt
  <2> DEFINE cols == job[p].changed[x]
             e    == job[p].copy[x]
  <2>1. row[x] \in Row /\ row'[x] = Written(row[x], e, cols)
    BY DEF CommitRevocation, TypeOK
  <2>2. /\ cols # {} => e.revokedAt # Null
        /\ owner[x] # p => cols = {}
    BY DEF CommitRevocation, RequestOK, Locks, Copies
  <2> HIDE DEF cols, e
  <2>3. /\ row'[x].family = row[x].family
        /\ row'[x].parent = row[x].parent
        /\ row'[x].revokedAt =
             IF "revokedAt" \in cols THEN e.revokedAt ELSE row[x].revokedAt
    BY <2>1 DEF Written, Row
  <2> QED
    BY <2>2, <2>3
<1>2. Stored' = Stored
  BY <1>1 DEF Stored
<1>3. LiveSet' \subseteq LiveSet
  BY <1>1 DEF LiveSet, Live
<1> QED
  BY <1>1, <1>2, <1>3

LEMMA RevocationKeeps ==
  ASSUME IndInv, NEW p \in Request, CommitRevocation(p)
  PROVE  TableOK' /\ \A q \in Request : RequestOK(q)'
<1> USE IndInvParts, RevocationEffect
<1>1. \A x \in Stored : x \in Token /\ row[x].family \in Token
  BY DEF Stored, TypeOK, Row
<1>2. FamilyRooted'
  BY <1>1 DEF TableOK, FamilyRooted
<1>3. ParentSpent'
  <2>1. \A x \in Stored : row[x].parent # Null =>
          /\ row[x].parent \in Stored /\ row[x].parent \in Token
          /\ row[row[x].parent].revokedAt # Null
    BY DEF TableOK, ParentSpent, Stored
  <2> QED
    BY <1>1, <2>1 DEF ParentSpent
<1>4. OneLivePerFamily'
  <2>1. \A x \in LiveSet : x \in Token
    BY DEF LiveSet
  <2> QED
    BY <2>1 DEF TableOK, OneLivePerFamily
<1>5. ExchangedOnce'
  BY <1>1 DEF TableOK, ExchangedOnce
<1>6. \A x \in Token : owner[x] # p /\ x \in LiveSet => x \in LiveSet'
  BY DEF LiveSet, Live
<1>7. \A q \in Request : RequestOK(q)'
  BY <1>6, FinishKeepsRequests DEF CommitRevocation
<1> QED
  BY <1>2, <1>3, <1>4, <1>5, <1>7 DEF TableOK


-----------------------------------------------------------------------------
(* The theorems.                                                           *)

LEMMA StepKeeps ==
  ASSUME IndInv, NEW p \in Request, Step(p)
  PROVE  TableOK' /\ \A q \in Request : RequestOK(q)'
<1> USE IndInvParts
<1>1. CASE RejectUnknown(p) \/ RejectUnusable(p) \/ Resolve(p)
  BY <1>1, QuietFinish, SameTable DEF RejectUnknown, RejectUnusable, Resolve
<1>2. CASE DetectReplay(p) \/ AcceptForRotation(p) \/ AcceptForRevocation(p)
  BY <1>2, AcceptKeeps, SameTable
     DEF DetectReplay, AcceptForRotation, AcceptForRevocation
<1>3. CASE CheckClient(p)
  <2>1. CASE Advance(p, "user") /\ UNCHANGED owner
    BY <1>3, <2>1, CheckKeeps, SameTable DEF CheckClient
  <2>2. CASE Finish(p)
    BY <1>3, <2>2, QuietFinish, SameTable DEF CheckClient
  <2> QED
    BY <1>3, <2>1, <2>2 DEF CheckClient
<1>4. CASE CheckUser(p)
  <2>1. CASE Advance(p, "write") /\ UNCHANGED owner
    BY <1>4, <2>1, CheckKeeps, SameTable DEF CheckUser
  <2>2. CASE Finish(p)
    BY <1>4, <2>2, QuietFinish, SameTable DEF CheckUser
  <2> QED
    BY <1>4, <2>1, <2>2 DEF CheckUser
<1>5. CASE FindFamily(p)
  BY <1>5, FindKeeps, SameTable DEF FindFamily
<1>6. CASE Reload(p)
  BY <1>6, ReloadKeeps, SameTable DEF Reload
<1>7. CASE MatchRows(p)
  BY <1>7, MatchKeeps, SameTable DEF MatchRows
<1>8. ASSUME NEW t \in Token, UpdateRow(p, t)
      PROVE  TableOK' /\ \A q \in Request : RequestOK(q)'
  BY <1>8, UpdateKeeps, SameTable DEF UpdateRow
<1> QED
  BY <1>1, <1>2, <1>3, <1>4, <1>5, <1>6, <1>7, <1>8,
     RevocationKeeps, InsertKeeps, RotationKeeps DEF Step

LEMMA NextKeeps == IndInv /\ [Next]_vars => IndInv'
<1> SUFFICES ASSUME IndInv, [Next]_vars  PROVE IndInv'
  OBVIOUS
<1> USE IndInvParts
<1>1. TypeOK'
  BY TypeStep
<1>2. TableOK' /\ \A q \in Request : RequestOK(q)'
  <2>1. ASSUME NEW p \in Request, Step(p)
        PROVE  TableOK' /\ \A q \in Request : RequestOK(q)'
    BY <2>1, StepKeeps
  <2>2. ASSUME NEW p \in Request, Arrive(p)
        PROVE  TableOK' /\ \A q \in Request : RequestOK(q)'
    BY <2>2, ArriveKeeps, SameTable
  <2>3. ASSUME NEW p \in Request, Fail(p)
        PROVE  TableOK' /\ \A q \in Request : RequestOK(q)'
    BY <2>3, QuietFinish, SameTable DEF Fail
  <2>4. ASSUME UNCHANGED <<row, owner, job>>
        PROVE  TableOK' /\ \A q \in Request : RequestOK(q)'
    BY <2>4, SameTable
       DEF RequestOK, Knows, Holds, Locks, Copies, Stored, LiveSet, Live
  <2>5. ASSUME NEW u \in User, SwitchUser(u)
        PROVE  UNCHANGED <<row, owner, job>>
    BY <2>5 DEF SwitchUser
  <2>6. ASSUME NEW c \in Client, SwitchClient(c)
        PROVE  UNCHANGED <<row, owner, job>>
    BY <2>6 DEF SwitchClient
  <2>7. CASE Tick \/ UNCHANGED vars
    BY <2>4, <2>7 DEF Tick, vars
  <2> QED
    BY <2>1, <2>2, <2>3, <2>4, <2>5, <2>6, <2>7 DEF Next
<1> QED
  BY <1>1, <1>2
     DEF IndInv, TableOK, RequestOK, Knows, Holds, Locks, Copies,
         RequestedStored, RotationHoldsToken, LockedBeforeWrite, CopiesRevoked


LEMMA IndInvInit == Init => IndInv
<1> SUFFICES ASSUME Init  PROVE IndInv
  OBVIOUS
<1>1. TypeOK
  BY TypeInit
<1>2. Stored = {} /\ LiveSet = {}
  BY DEF Init, Stored, LiveSet, Live, NoRow
<1>3. TableOK
  BY <1>2 DEF TableOK, FamilyRooted, ParentSpent, OneLivePerFamily,
              ExchangedOnce
<1>4. ASSUME NEW p \in Request  PROVE RequestOK(p)
  <2>1. job[p] = Idle
    BY DEF Init
  <2> QED
    BY <2>1 DEF Idle, RequestOK, Knows, Holds, Locks, Copies
<1> QED
  BY <1>1, <1>3, <1>4, IndInvParts

(* The invariant that carries the proofs below holds in every reachable    *)
(* state of the table and its requests.                                    *)
THEOREM Invariance == Spec => []IndInv
BY IndInvInit, NextKeeps, PTL DEF Spec

(* However many requests overlap, a family never has two tokens that can   *)
(* both be exchanged.                                                      *)
THEOREM OneLive == Spec => []OneLivePerFamily
<1>1. IndInv => OneLivePerFamily
  BY DEF IndInv
<1> QED
  BY <1>1, Invariance, PTL

(* No token is ever exchanged twice, even when a stale save() has hidden   *)
(* the first exchange.                                                     *)
THEOREM NoDoubleExchange == Spec => []ExchangedOnce
<1>1. IndInv => ExchangedOnce
  BY DEF IndInv
<1> QED
  BY <1>1, Invariance, PTL

-----------------------------------------------------------------------------
(* What one step can do to the table.                                      *)

LEMMA TableSteps ==
  ASSUME IndInv, [Next]_vars
  PROVE  \/ UNCHANGED row
         \/ \E p \in Request, t \in Token : InsertToken(p, t)
         \/ \E p \in Request, s \in Token : CommitRotation(p, s)
         \/ \E p \in Request : CommitRevocation(p)
<1>1. ASSUME NEW p \in Request, Step(p)
      PROVE  \/ UNCHANGED row
             \/ \E t \in Token : InsertToken(p, t)
             \/ \E s \in Token : CommitRotation(p, s)
             \/ CommitRevocation(p)
  BY <1>1 DEF Step, RejectUnknown, DetectReplay, RejectUnusable, Resolve,
              AcceptForRotation, CheckClient, CheckUser, AcceptForRevocation,
              FindFamily, Reload, MatchRows, UpdateRow
<1>2. ASSUME NEW p \in Request, Arrive(p)  PROVE UNCHANGED row
  BY <1>2, ArriveKeeps
<1> QED
  BY <1>1, <1>2 DEF Next, Fail, SwitchUser, SwitchClient, Tick, vars

(* Once revoked, a token stays revoked.                                    *)
THEOREM NeverRevived == Spec => RevocationPermanent
<1>1. ASSUME IndInv, [Next]_vars
      PROVE  [\A t \in Stored :
                row[t].revokedAt # Null => row'[t].revokedAt # Null]_vars
  <2> SUFFICES ASSUME NEW t \in Stored, row[t].revokedAt # Null
               PROVE  row'[t].revokedAt # Null
    OBVIOUS
  <2>1. t \in Token /\ t \notin LiveSet
    BY DEF Stored, LiveSet, Live
  <2>2. CASE UNCHANGED row
    BY <2>2
  <2>3. ASSUME NEW p \in Request, NEW s \in Token, InsertToken(p, s)
        PROVE  row'[t].revokedAt # Null
    BY <1>1, <2>1, <2>3, InsertEffect
  <2>4. ASSUME NEW p \in Request, NEW s \in Token, CommitRotation(p, s)
        PROVE  row'[t].revokedAt # Null
    BY <1>1, <2>1, <2>4, RotationEffect
  <2>5. ASSUME NEW p \in Request, CommitRevocation(p)
        PROVE  row'[t].revokedAt # Null
    BY <1>1, <2>1, <2>5, RevocationEffect
  <2> QED
    BY <1>1, <2>2, <2>3, <2>4, <2>5, TableSteps
<1> QED
  BY <1>1, Invariance, PTL DEF Spec, RevocationPermanent

-----------------------------------------------------------------------------
(* Refinement of TokenChain.                                               *)

Families == [t \in Token |-> row[t].family]

LEMMA ChainStep ==
  ASSUME IndInv, [Next]_vars
  PROVE  [Chain!ChainNext]_(<<Families, LiveSet>>)
<1> USE IndInvParts
<1>1. Chain!Issued = Stored
  BY DEF Chain!Issued, Stored
<1>2. CASE UNCHANGED row
  BY <1>2 DEF Families, LiveSet, Live
<1>3. ASSUME NEW p \in Request, NEW t \in Token, InsertToken(p, t)
      PROVE  Chain!Issue(t)
  <2>1. Families' = [Families EXCEPT ![t] = t]
    BY <1>3, InsertEffect DEF Families
  <2> QED
    BY <1>1, <1>3, <2>1, InsertEffect DEF Chain!Issue, Families
<1>4. ASSUME NEW p \in Request, NEW s \in Token, CommitRotation(p, s)
      PROVE  Chain!Exchange(job[p].token, s)
  <2> DEFINE t == job[p].token
  <2>1. t \in Token
    BY <1>4, RotationEffect DEF Stored
  <2>2. Families' = [Families EXCEPT ![s] = Families[t]]
    BY <1>4, <2>1, RotationEffect DEF Families
  <2> QED
    BY <1>1, <1>4, <2>1, <2>2, RotationEffect DEF Chain!Exchange, Families
<1>5. ASSUME NEW p \in Request, CommitRevocation(p)
      PROVE  Chain!Revoke(LiveSet \ LiveSet')
  <2>1. Families' = Families
    BY <1>5, RevocationEffect DEF Families
  <2> QED
    BY <1>5, <2>1, RevocationEffect DEF Chain!Revoke, Families
<1> QED
  <2>1. \A p \in Request, s \in Token :
          CommitRotation(p, s) => job[p].token \in Token
    BY RotationEffect DEF Stored
  <2> QED
    BY <1>2, <1>3, <1>4, <1>5, <2>1, TableSteps DEF Chain!ChainNext

(* The table, with all its requests, copies and locks, implements the      *)
(* promise of TokenChain.                                                  *)
THEOREM Refinement == Spec => ImplementsChain
<1>1. Init => Chain!ChainInit
  BY DEF Init, Chain!ChainInit, LiveSet, Live, NoRow
<1>2. IndInv /\ [Next]_vars => [Chain!ChainNext]_(Chain!chainVars)
  BY ChainStep DEF Chain!chainVars, Families
<1> QED
  BY <1>1, <1>2, Invariance, PTL DEF Spec, ImplementsChain, Chain!ChainSpec

-----------------------------------------------------------------------------
(* The links between a token and its successor.                            *)

(* Token s is the successor of t.                                          *)
Linked(t, s) == s \in Stored /\ row[s].parent = t

Continues(t) ==
  row[t].parent # Null =>
    LET q == row[row[t].parent]
    IN /\ <<q.family, q.user, q.client>>
            = <<row[t].family, row[t].user, row[t].client>>
       /\ q.issuedAt <= row[t].issuedAt
       /\ row[t].issuedAt < q.idleExpiresAt
       /\ row[t].issuedAt < q.absoluteExpiresAt

(* What a request has in memory of row t: its link, and the columns it     *)
(* writes, which make the row a revoked one if it is not.                  *)
CopyGood(j, t) ==
  /\ j.copy[t].family # Null => t \in Stored
  /\ j.copy[t].rotatedTo # Null => Linked(t, j.copy[t].rotatedTo)
  /\ j.changed[t] # {} /\ "revokedAt" \notin j.changed[t] =>
       t \in Stored /\ row[t].revokedAt # Null

(* The token of a request and the time it has taken: not before its token   *)
(* was issued, and, once the token is found usable, before it expires.     *)
OnTime(j) ==
  /\ j.now <= clock
  /\ j.token # Null => j.token \in Stored
  /\ j.phase = "find" => j.token # Null
  /\ j.phase \in {"lock", "client", "user", "write"} /\ j.token # Null =>
       row[j.token].issuedAt <= j.now
  /\ j.phase \in {"client", "user", "write"} /\ j.token # Null =>
       /\ j.now < row[j.token].idleExpiresAt
       /\ j.now < row[j.token].absoluteExpiresAt

GoodJob(j) == OnTime(j) /\ \A t \in Token : CopyGood(j, t)

(* The table: no token is issued in the future, links are true, and a live *)
(* token has none.                                                         *)
GoodTable ==
  \A t \in Stored :
    /\ row[t].issuedAt <= clock
    /\ Continues(t)
    /\ row[t].rotatedTo # Null => Linked(t, row[t].rotatedTo)
    /\ row[t].revokedAt = Null => row[t].rotatedTo = Null

ChainInv == GoodTable /\ \A p \in Request : GoodJob(job[p])

(* What every step leaves of a row, once it is there.                      *)
RowKept(x) ==
  /\ x \in Stored'
  /\ row'[x].family = row[x].family /\ row'[x].user = row[x].user
  /\ row'[x].client = row[x].client /\ row'[x].parent = row[x].parent
  /\ row'[x].issuedAt = row[x].issuedAt
  /\ row'[x].idleExpiresAt = row[x].idleExpiresAt
  /\ row'[x].absoluteExpiresAt = row[x].absoluteExpiresAt
  /\ row[x].revokedAt # Null => row'[x].revokedAt # Null

Kept == clock <= clock' /\ \A x \in Stored : RowKept(x)

(* The link of row x after a step is true then.                            *)
TrueLink(x) ==
  /\ row'[x].rotatedTo # Null =>
       row'[x].rotatedTo \in Stored' /\ row'[row'[x].rotatedTo].parent = x
  /\ row'[x].revokedAt = Null => row'[x].rotatedTo = Null

(* A row that a step adds is as it has to be.                              *)
TrueRow(x) ==
  row'[x].issuedAt <= clock' /\ Continues(x)' /\ row'[x].rotatedTo = Null

(* The clock and the times in rows and requests are numbers.               *)
LEMMA Times ==
  ASSUME TypeOK
  PROVE  /\ clock \in Nat
         /\ \A t \in Token : /\ row[t].issuedAt \in Nat
                             /\ row[t].idleExpiresAt \in Nat
                             /\ row[t].absoluteExpiresAt \in Nat
         /\ \A p \in Request : job[p].now \in Nat
BY JobType DEF TypeOK, Row

(* A request is as good later as it is now.                                *)
LEMMA GoodLater ==
  ASSUME TypeOK, TypeOK', Kept, NEW j \in Job, GoodJob(j)
  PROVE  GoodJob(j)'
<1>1. clock \in Nat /\ clock' \in Nat /\ clock <= clock' /\ j.now \in Nat
  BY DEF TypeOK, Kept, Job
<1>2. ASSUME NEW t \in Token PROVE CopyGood(j, t)'
  BY DEF GoodJob, CopyGood, Linked, Kept, RowKept
<1>3. OnTime(j)'
  <2>1. j.now <= clock'
    BY <1>1 DEF GoodJob, OnTime
  <2>2. j.token # Null => j.token \in Stored /\ RowKept(j.token)
    BY DEF GoodJob, OnTime, Kept
  <2> QED
    BY <2>1, <2>2 DEF GoodJob, OnTime, RowKept
<1> QED
  BY <1>2, <1>3 DEF GoodJob

(* A slot that does nothing.                                               *)
LEMMA GoodIdle ==
  ASSUME TypeOK
  PROVE  GoodJob(Idle)
BY DEF TypeOK, GoodJob, OnTime, CopyGood, Idle, NoRow

-----------------------------------------------------------------------------
(* Steps of a request up to its commit.                                    *)

(* A request that begins.                                                  *)
LEMMA GoodArrival ==
  ASSUME IndInv, ChainInv, NEW p \in Request, Arrive(p)
  PROVE  GoodJob(job'[p])
<1> USE IndInvParts
<1> DEFINE Fresh(j) == /\ j.phase \in {"insert", "lock", "find", "statement"}
                       /\ j.token \in Stored \cup {Null} /\ j.now = clock
                       /\ j.copy = Idle.copy /\ j.changed = Idle.changed
                       /\ j.phase = "find" => j.token # Null
<1>1. ASSUME NEW j, Fresh(j) PROVE GoodJob(j)
  <2>1. \A t \in Token : CopyGood(j, t)
    BY <1>1 DEF CopyGood, Idle, NoRow
  <2>2. j.token # Null => row[j.token].issuedAt <= clock
    BY <1>1 DEF ChainInv, GoodTable
  <2>3. clock \in Nat
    BY DEF TypeOK
  <2>4. OnTime(j)
    BY <1>1, <2>2, <2>3 DEF OnTime
  <2> QED
    BY <2>1, <2>4 DEF GoodJob
<1>2. ASSUME NEW j, Become(p, j) PROVE job'[p] = j
  BY <1>2 DEF Become, TypeOK
<1>3. ASSUME NEW u \in User, NEW c \in Client, StartIssue(p, u, c)
      PROVE  Fresh(job'[p])
  BY <1>2, <1>3 DEF StartIssue, Idle
<1>4. ASSUME NEW op \in Operation, NEW t \in Stored \cup {Null},
             NEW c \in Client \cup {Null}, Present(p, op, t, c)
      PROVE  Fresh(job'[p])
  BY <1>2, <1>4 DEF Present, Idle
<1>5. ASSUME NEW f \in Token, StartFamilyRevocation(p, f)
      PROVE  Fresh(job'[p])
  BY <1>2, <1>5 DEF StartFamilyRevocation, Idle, Stored
<1>6. ASSUME NEW u \in User, Deactivate(p, u) \/ ResetPassword(p, u)
      PROVE  Fresh(job'[p])
  BY <1>2, <1>6 DEF Deactivate, ResetPassword, Idle
<1>7. ASSUME Cleanup(p)
      PROVE  Fresh(job'[p])
  BY <1>2, <1>7 DEF Cleanup, Idle
<1>8. Fresh(job'[p])
  BY <1>3, <1>4, <1>5, <1>6, <1>7 DEF Arrive
<1> HIDE DEF Fresh
<1> QED
  BY <1>1, <1>8

(* A request that goes on to another phase.                                *)
LEMMA GoodAdvance ==
  ASSUME IndInv, ChainInv, NEW p \in Request, NEW ph, Advance(p, ph),
         \/ ph = "find" /\ job[p].token # Null
         \/ job[p].phase \in {"client", "user"} /\ ph \in {"user", "write"}
  PROVE  GoodJob(job'[p])
<1> USE IndInvParts
<1>1. job'[p] = [job[p] EXCEPT !.phase = ph]
  BY DEF Advance, Become, TypeOK
<1>2. job[p] \in Job /\ GoodJob(job[p])
  BY JobType DEF ChainInv
<1>3. /\ job'[p].phase = ph /\ job'[p].token = job[p].token
      /\ job'[p].now = job[p].now /\ job'[p].copy = job[p].copy
      /\ job'[p].changed = job[p].changed
  BY <1>1, <1>2 DEF Job
<1> QED
  BY <1>2, <1>3 DEF GoodJob, OnTime, CopyGood

(* A request that has found its token usable.                              *)
LEMMA GoodAcceptance ==
  ASSUME IndInv, ChainInv, NEW p \in Request, AcceptForRotation(p)
  PROVE  GoodJob(job'[p])
<1> USE IndInvParts
<1> DEFINE ph == IF job[p].op = "rotateToken" THEN "write" ELSE "client"
<1>1. job'[p] = [job[p] EXCEPT !.phase = ph]
  BY DEF AcceptForRotation, Advance, Become, TypeOK
<1>2. job[p] \in Job /\ GoodJob(job[p])
  BY JobType DEF ChainInv
<1>3. ph \in {"write", "client"}
  OBVIOUS
<1> HIDE DEF ph
<1>4. /\ job'[p].phase = ph /\ job'[p].token = job[p].token
      /\ job'[p].now = job[p].now /\ job'[p].copy = job[p].copy
      /\ job'[p].changed = job[p].changed
  BY <1>1, <1>2 DEF Job
<1>5. /\ job[p].token \in Token /\ job[p].now \in Nat
      /\ row[job[p].token].idleExpiresAt \in Nat
      /\ row[job[p].token].absoluteExpiresAt \in Nat
  BY JobType, Times DEF AcceptForRotation, Presented
<1>6. /\ job[p].now < row[job[p].token].idleExpiresAt
      /\ job[p].now < row[job[p].token].absoluteExpiresAt
      /\ job[p].phase = "lock" /\ job[p].token # Null
  BY <1>5 DEF AcceptForRotation, Presented, Usable
<1> QED
  BY <1>2, <1>3, <1>4, <1>6 DEF GoodJob, OnTime, CopyGood

(* A request that revokes and now has its row.                             *)
LEMMA GoodRevoker ==
  ASSUME IndInv, ChainInv, NEW p \in Request, AcceptForRevocation(p)
  PROVE  GoodJob(job'[p])
<1> USE IndInvParts
<1>1. job'[p] = [job[p] EXCEPT !.phase = "find", !.now = clock]
  BY DEF AcceptForRevocation, Become, TypeOK
<1>2. job[p] \in Job /\ GoodJob(job[p]) /\ clock \in Nat
  BY JobType DEF ChainInv, TypeOK
<1>3. /\ job'[p].phase = "find" /\ job'[p].token = job[p].token
      /\ job'[p].now = clock /\ job'[p].copy = job[p].copy
      /\ job'[p].changed = job[p].changed
  BY <1>1, <1>2 DEF Job
<1> QED
  BY <1>2, <1>3 DEF GoodJob, OnTime, CopyGood, AcceptForRevocation, Presented

(* Copies of rows that are filled in.                                      *)
LEMMA FilledLink ==
  ASSUME NEW r \in Row, NEW now, NEW why
  PROVE  /\ Filled(r, now, why).rotatedTo = r.rotatedTo
         /\ Filled(r, now, why).family = r.family
BY DEF Filled, Row

(* Copies of stored rows, filled in, have true links.                      *)
LEMMA CopiesFilled ==
  ASSUME IndInv, ChainInv, NEW p \in Request, NEW S \in SUBSET Stored, NEW why,
         job[p].phase # "update",
         job'[p].phase \in {"reload", "update"}, job'[p].token = job[p].token,
         job'[p].now = job[p].now, job'[p].changed = job[p].changed,
         job'[p].copy = [t \in Token |->
           IF t \in S THEN Filled(row[t], job[p].now, why) ELSE NoRow]
  PROVE  GoodJob(job'[p])
<1> USE IndInvParts
<1>1. job[p] \in Job /\ GoodJob(job[p])
  BY JobType DEF ChainInv
<1>2. \A t \in Token : job[p].changed[t] = {}
  BY NothingChanged
<1>3. ASSUME NEW t \in Token PROVE CopyGood(job'[p], t)
  <2>1. CASE t \in S
    <3>1. row[t] \in Row /\ t \in Stored
      BY <2>1 DEF TypeOK
    <3>2. job'[p].copy[t].rotatedTo = row[t].rotatedTo
      BY <2>1, <3>1, FilledLink
    <3> QED
      BY <1>2, <3>1, <3>2 DEF CopyGood, ChainInv, GoodTable
  <2>2. CASE t \notin S
    BY <1>2, <2>2 DEF CopyGood, NoRow
  <2> QED
    BY <2>1, <2>2
<1> QED
  BY <1>1, <1>3 DEF GoodJob, OnTime

(* The family as it is found.                                              *)
LEMMA GoodFind ==
  ASSUME IndInv, ChainInv, NEW p \in Request, FindFamily(p)
  PROVE  GoodJob(job'[p])
<1> USE IndInvParts
<1> DEFINE S == Family(row[job[p].token].family)
           c == [t \in Token |->
                   IF t \in S
                   THEN Filled(row[t], job[p].now, WhyFamily(job[p].op))
                   ELSE NoRow]
           j == [job[p] EXCEPT !.phase = "reload", !.copy = c]
<1>1. Become(p, j) /\ job[p].phase = "find"
  BY DEF FindFamily
<1>2. S \in SUBSET Stored
  <2>1. job[p].token \in Token \cup {Null}
    BY JobType
  <2>2. \A t \in S : t \in Token /\ row[t].family = row[job[p].token].family
    BY DEF Family
  <2>3. row[job[p].token].family # Null
    BY <1>1, <2>1
    DEF ChainInv, GoodJob, OnTime, Stored
  <2> QED
    BY <2>2, <2>3 DEF Stored
<1> HIDE DEF c, S
<1>3. job[p] \in Job
  BY JobType
<1>4. /\ j.phase = "reload" /\ j.token = job[p].token
      /\ j.now = job[p].now /\ j.changed = job[p].changed /\ j.copy = c
  BY <1>3 DEF Job
<1> HIDE DEF j
<1>5. job'[p] = j
  BY <1>1 DEF Become, TypeOK
<1>6. /\ job'[p].phase \in {"reload", "update"} /\ job'[p].token = job[p].token
      /\ job'[p].now = job[p].now /\ job'[p].changed = job[p].changed
      /\ job'[p].copy = [t \in Token |->
           IF t \in S THEN Filled(row[t], job[p].now, WhyFamily(job[p].op))
                      ELSE NoRow]
  BY <1>4, <1>5 DEF c
<1> QED
  BY <1>1, <1>2, <1>6, CopiesFilled

(* The rows a bulk UPDATE has matched.                                     *)
LEMMA GoodMatch ==
  ASSUME IndInv, ChainInv, NEW p \in Request, MatchRows(p)
  PROVE  GoodJob(job'[p])
<1> USE IndInvParts
<1> DEFINE S == {t \in Token : Matches(job[p], row[t], job[p].now)}
           c == [t \in Token |->
                   IF t \in S
                   THEN Filled(row[t], job[p].now, WhyBulk(job[p].op))
                   ELSE NoRow]
           j == [job[p] EXCEPT !.phase = "update", !.todo = S, !.copy = c]
<1>1. Become(p, j) /\ job[p].phase = "statement"
  BY DEF MatchRows
<1>2. S \in SUBSET Stored
  BY DEF Matches, Stored
<1> HIDE DEF c, S
<1>3. job[p] \in Job
  BY JobType
<1>4. /\ j.phase = "update" /\ j.token = job[p].token
      /\ j.now = job[p].now /\ j.changed = job[p].changed /\ j.copy = c
  BY <1>3 DEF Job
<1> HIDE DEF j
<1>5. job'[p] = j
  BY <1>1 DEF Become, TypeOK
<1>6. /\ job'[p].phase \in {"reload", "update"} /\ job'[p].token = job[p].token
      /\ job'[p].now = job[p].now /\ job'[p].changed = job[p].changed
      /\ job'[p].copy = [t \in Token |->
           IF t \in S THEN Filled(row[t], job[p].now, WhyBulk(job[p].op))
                      ELSE NoRow]
  BY <1>4, <1>5 DEF c
<1> QED
  BY <1>1, <1>2, <1>6, CopiesFilled

(* The comparison with the rows selected again: a column that is not to be *)
(* written is as it is in a copy that is revoked.                          *)
LEMMA GoodReload ==
  ASSUME IndInv, ChainInv, NEW p \in Request, Reload(p)
  PROVE  GoodJob(job'[p])
<1> USE IndInvParts
<1> DEFINE Diff(t) == IF job[p].copy[t].family = Null THEN {}
                        ELSE Differing(job[p].copy[t], row[t])
           d == [t \in Token |-> Diff(t)]
           S == {t \in Token : Diff(t) # {}}
<1>1. job[p] \in Job /\ GoodJob(job[p]) /\ job[p].phase = "reload"
  BY JobType DEF ChainInv, Reload
<1>2. job'[p] = [job[p] EXCEPT !.phase = "update", !.changed = d, !.todo = S]
  BY DEF Reload, Become, TypeOK
<1>3. \A t \in Token : d[t] # {} /\ "revokedAt" \notin d[t] =>
        t \in Stored /\ row[t].revokedAt # Null
  <2> SUFFICES ASSUME NEW t \in Token, d[t] # {}, "revokedAt" \notin d[t]
               PROVE  t \in Stored /\ row[t].revokedAt # Null
    OBVIOUS
  <2>1. job[p].copy[t].family # Null
    OBVIOUS
  <2>2. job[p].copy[t].revokedAt # Null
    BY <1>1, <2>1 DEF RequestOK, Copies
  <2>3. job[p].copy[t].revokedAt = row[t].revokedAt
    BY <2>1 DEF Differing, Column
  <2> QED
    BY <1>1, <2>1, <2>2, <2>3 DEF GoodJob, CopyGood
<1> HIDE DEF d, S
<1>4. /\ job'[p].phase = "update" /\ job'[p].token = job[p].token
      /\ job'[p].now = job[p].now /\ job'[p].copy = job[p].copy
      /\ job'[p].changed = d
  BY <1>1, <1>2 DEF Job
<1> QED
  BY <1>1, <1>3, <1>4 DEF GoodJob, OnTime, CopyGood

(* A row locked by the UPDATEs.                                            *)
LEMMA GoodUpdate ==
  ASSUME IndInv, ChainInv, NEW p \in Request, NEW t \in Token, UpdateRow(p, t)
  PROVE  GoodJob(job'[p])
<1> USE IndInvParts
<1> DEFINE new  == IF job[p].op \notin Bulk THEN job[p].changed[t]
                     ELSE IF Matches(job[p], row[t], job[p].now)
                            THEN {"revokedAt", "reason"}
                            ELSE {}
           cols == [job[p].changed EXCEPT ![t] = new]
           rest == job[p].todo \ {t}
<1>1. job[p] \in Job /\ GoodJob(job[p]) /\ job[p].phase = "update"
  BY JobType DEF ChainInv, UpdateRow
<1>2. job'[p] = [job[p] EXCEPT !.todo = rest, !.changed = cols]
  BY JobType DEF UpdateRow, Become, Job, TypeOK
<1>3. \A x \in Token : cols[x] # {} /\ "revokedAt" \notin cols[x] =>
        x \in Stored /\ row[x].revokedAt # Null
  BY <1>1, JobType DEF GoodJob, CopyGood
<1> HIDE DEF new, cols, rest
<1>4. /\ job'[p].phase = "update" /\ job'[p].token = job[p].token
      /\ job'[p].now = job[p].now /\ job'[p].copy = job[p].copy
      /\ job'[p].changed = cols
  BY <1>1, <1>2 DEF Job
<1> QED
  BY <1>1, <1>3, <1>4 DEF GoodJob, OnTime, CopyGood

(* No step of a request touches another one's slot.                        *)
LEMMA BecomeOthers ==
  ASSUME TypeOK, NEW p \in Request, NEW j, Become(p, j)
  PROVE  \A q \in Request \ {p} : job'[q] = job[q]
BY DEF Become, TypeOK

(* A slot at the end of its transaction.                                   *)
LEMMA FinishedGood ==
  ASSUME TypeOK, NEW p \in Request, Finish(p)
  PROVE  GoodJob(job'[p]) /\ \A q \in Request \ {p} : job'[q] = job[q]
<1>1. Become(p, Idle)
  BY DEF Finish
<1>2. job'[p] = Idle
  BY <1>1 DEF Become, TypeOK
<1> QED
  BY <1>1, <1>2, GoodIdle, BecomeOthers

(* The slots after any step, judged by the table before it.                *)
LEMMA GoodStep ==
  ASSUME IndInv, ChainInv, NEW p \in Request, Step(p)
  PROVE  GoodJob(job'[p]) /\ \A q \in Request \ {p} : job'[q] = job[q]
<1> USE IndInvParts
<1>1. CASE RejectUnknown(p) \/ RejectUnusable(p) \/ Resolve(p)
             \/ CommitRevocation(p)
  BY <1>1, FinishedGood
  DEF RejectUnknown, RejectUnusable, Resolve, CommitRevocation
<1>2. ASSUME NEW t \in Token, InsertToken(p, t) \/ CommitRotation(p, t)
      PROVE  GoodJob(job'[p]) /\ \A q \in Request \ {p} : job'[q] = job[q]
  BY <1>2, FinishedGood DEF InsertToken, CommitRotation
<1>3. CASE DetectReplay(p)
  <2>1. Advance(p, "find") /\ job[p].token # Null
    BY <1>3 DEF DetectReplay, Presented
  <2> QED
    BY <2>1, GoodAdvance, BecomeOthers DEF Advance
<1>4. CASE AcceptForRotation(p)
  BY <1>4, GoodAcceptance, BecomeOthers DEF AcceptForRotation, Advance
<1>5. CASE CheckClient(p)
  <2>1. CASE Advance(p, "user")
    BY <1>5, <2>1, GoodAdvance, BecomeOthers DEF CheckClient, Advance
  <2>2. CASE Finish(p)
    BY <2>2, FinishedGood
  <2> QED
    BY <1>5, <2>1, <2>2 DEF CheckClient
<1>6. CASE CheckUser(p)
  <2>1. CASE Advance(p, "write")
    BY <1>6, <2>1, GoodAdvance, BecomeOthers DEF CheckUser, Advance
  <2>2. CASE Finish(p)
    BY <2>2, FinishedGood
  <2> QED
    BY <1>6, <2>1, <2>2 DEF CheckUser
<1>7. CASE AcceptForRevocation(p)
  BY <1>7, GoodRevoker, BecomeOthers DEF AcceptForRevocation
<1>8. CASE FindFamily(p)
  BY <1>8, GoodFind, BecomeOthers DEF FindFamily
<1>9. CASE Reload(p)
  BY <1>9, GoodReload, BecomeOthers DEF Reload
<1>10. CASE MatchRows(p)
  BY <1>10, GoodMatch, BecomeOthers DEF MatchRows
<1>11. ASSUME NEW t \in Token, UpdateRow(p, t)
       PROVE  GoodJob(job'[p]) /\ \A q \in Request \ {p} : job'[q] = job[q]
  BY <1>11, GoodUpdate, BecomeOthers DEF UpdateRow
<1> QED
  BY <1>1, <1>2, <1>3, <1>4, <1>5, <1>6, <1>7, <1>8, <1>9, <1>10, <1>11
  DEF Step

(* A request that begins does so in its own slot.                          *)
LEMMA ArrivalAlone ==
  ASSUME TypeOK, NEW p \in Request, Arrive(p)
  PROVE  \A q \in Request \ {p} : job'[q] = job[q]
BY BecomeOthers DEF Arrive, StartIssue, Present, StartFamilyRevocation,
   Deactivate, ResetPassword, Cleanup

(* Every slot after any step.                                              *)
LEMMA GoodSlots ==
  ASSUME IndInv, ChainInv, [Next]_vars
  PROVE  \A q \in Request : GoodJob(job'[q])
<1> USE IndInvParts
<1>1. \A q \in Request : GoodJob(job[q])
  BY DEF ChainInv
<1>2. ASSUME NEW p \in Request, Step(p) \/ Arrive(p) \/ Fail(p)
      PROVE  GoodJob(job'[p]) /\ \A q \in Request \ {p} : job'[q] = job[q]
  <2>1. CASE Step(p)
    BY <2>1, GoodStep
  <2>2. CASE Arrive(p)
    BY <2>2, GoodArrival, ArrivalAlone
  <2>3. CASE Fail(p)
    BY <2>3, FinishedGood DEF Fail
  <2> QED
    BY <1>2, <2>1, <2>2, <2>3
<1>3. CASE UNCHANGED job
  BY <1>1, <1>3
<1>4. CASE \E p \in Request : Step(p) \/ Arrive(p) \/ Fail(p)
  BY <1>1, <1>2, <1>4
<1> QED
  BY <1>3, <1>4 DEF Next, SwitchUser, SwitchClient, Tick, vars

-----------------------------------------------------------------------------
(* Steps that change the table.                                            *)

(* A table that is kept, but for the links and for new rows.               *)
LEMMA GoodRows ==
  ASSUME IndInv, IndInv', GoodTable, Kept, \A t \in Stored : TrueLink(t),
         \A t \in Stored' \ Stored : TrueRow(t)
  PROVE  GoodTable'
<1> USE IndInvParts
<1>1. clock \in Nat /\ clock' \in Nat /\ clock <= clock'
  BY DEF Kept, TypeOK, IndInv
<1> SUFFICES ASSUME NEW t \in Stored
             PROVE  row'[t].issuedAt <= clock' /\ Continues(t)'
  BY DEF GoodTable, TrueLink, TrueRow, Linked
<1>2. row'[t].issuedAt <= clock'
  <2>1. row[t].issuedAt \in Nat /\ row[t].issuedAt <= clock
    BY Times DEF GoodTable, Stored
  <2>2. row'[t].issuedAt = row[t].issuedAt
    BY DEF Kept, RowKept
  <2> QED
    BY <1>1, <2>1, <2>2
<1>3. Continues(t)'
  <2>1. row[t].parent # Null => row[t].parent \in Stored
    BY DEF TableOK, ParentSpent
  <2>2. Continues(t) /\ RowKept(t)
           /\ (row[t].parent # Null => RowKept(row[t].parent))
    BY <2>1 DEF GoodTable, Kept
  <2> QED
    BY <2>2 DEF Continues, RowKept
<1> QED
  BY <1>2, <1>3

(* The link of a row that does not change stays true.                      *)
LEMMA LinkKept ==
  ASSUME Kept, GoodTable, NEW x \in Stored, row'[x] = row[x]
  PROVE  TrueLink(x)
BY DEF GoodTable, TrueLink, Linked, Kept, RowKept

(* The first token of a family.                                            *)
LEMMA TableInsert ==
  ASSUME IndInv, IndInv', ChainInv, NEW p \in Request, NEW t \in Token,
         InsertToken(p, t)
  PROVE  Kept /\ GoodTable'
<1> USE IndInvParts
<1>1. /\ t \notin Stored /\ Stored' = Stored \cup {t}
      /\ \A x \in Token \ {t} : row'[x] = row[x]
      /\ row'[t].parent = Null
  BY InsertEffect
<1>2. row'[t].issuedAt = job[p].now /\ row'[t].rotatedTo = Null
  BY DEF InsertToken, FirstRow, TypeOK
<1>3. clock' = clock /\ clock \in Nat /\ job[p].now <= clock
  BY Times DEF InsertToken, ChainInv, GoodJob, OnTime
<1>4. \A x \in Stored : x \in Token /\ row'[x] = row[x]
  BY <1>1 DEF Stored
<1>5. Kept
  BY <1>1, <1>3, <1>4 DEF Kept, RowKept
<1>6. \A x \in Stored : TrueLink(x)
  BY <1>4, <1>5, LinkKept DEF ChainInv
<1>7. Continues(t)'
  BY <1>1 DEF Continues
<1>8. \A x \in Stored' \ Stored : TrueRow(x)
  <2>1. TrueRow(t)
    BY <1>2, <1>3, <1>7 DEF TrueRow
  <2> QED
    BY <1>1, <2>1
<1> QED
  BY <1>5, <1>6, <1>8, GoodRows DEF ChainInv

(* A token is exchanged: its successor continues it.                       *)
LEMMA TableRotation ==
  ASSUME IndInv, IndInv', ChainInv, NEW p \in Request, NEW s \in Token,
         CommitRotation(p, s)
  PROVE  Kept /\ GoodTable'
<1> USE IndInvParts
<1> DEFINE t == job[p].token
<1>1. /\ t \in LiveSet /\ t \in Stored /\ s \notin Stored /\ s # t
      /\ \A x \in Token \ {t, s} : row'[x] = row[x]
      /\ Stored' = Stored \cup {s}
  BY RotationEffect
<1>2. /\ t \in Token /\ t # Null /\ row[t] \in Row /\ row[t].revokedAt = Null
      /\ job[p].now \in Nat
  BY <1>1, JobType DEF TypeOK, LiveSet, Live
<1>3. /\ row'[t] = Rotated(row[t], s, job[p].now)
      /\ \E idle, abs : row'[s] = SuccessorRow(t, job[p].now, idle, abs)
  BY <1>1, <1>2 DEF CommitRotation, TypeOK
<1>4. /\ row'[t].family = row[t].family /\ row'[t].user = row[t].user
      /\ row'[t].client = row[t].client /\ row'[t].parent = row[t].parent
      /\ row'[t].issuedAt = row[t].issuedAt
      /\ row'[t].idleExpiresAt = row[t].idleExpiresAt
      /\ row'[t].absoluteExpiresAt = row[t].absoluteExpiresAt
      /\ row'[t].rotatedTo = s /\ row'[t].revokedAt = job[p].now
  BY <1>2, <1>3 DEF Rotated, Row
<1>5. /\ row'[s].family = row[t].family /\ row'[s].user = row[t].user
      /\ row'[s].client = row[t].client /\ row'[s].parent = t
      /\ row'[s].issuedAt = job[p].now
      /\ row'[s].rotatedTo = row[t].rotatedTo
  BY <1>2, <1>3 DEF SuccessorRow, Row
<1>6. /\ clock' = clock /\ clock \in Nat /\ job[p].now <= clock
      /\ row[t].issuedAt <= job[p].now
      /\ job[p].now < row[t].idleExpiresAt
      /\ job[p].now < row[t].absoluteExpiresAt
  BY <1>2, Times DEF CommitRotation, ChainInv, GoodJob, OnTime
<1>7. row[t].rotatedTo = Null /\ row'[t].revokedAt # Null
  BY <1>1, <1>2, <1>4 DEF ChainInv, GoodTable
<1>8. \A x \in Stored : x \in Token /\ x # s
  BY <1>1 DEF Stored
<1>9. Kept
  <2>1. clock <= clock'
    BY <1>6
  <2>2. ASSUME NEW x \in Stored PROVE RowKept(x)
    <3>1. CASE x = t
      BY <1>1, <1>4, <1>7, <3>1 DEF RowKept
    <3>2. CASE x # t
      BY <1>1, <1>8, <3>2 DEF RowKept
    <3> QED
      BY <3>1, <3>2
  <2> QED
    BY <2>1, <2>2 DEF Kept
<1>10. ASSUME NEW x \in Stored PROVE TrueLink(x)
  <2>1. CASE x = t
    BY <1>1, <1>4, <1>5, <1>7, <2>1 DEF TrueLink
  <2>2. CASE x # t
    <3>1. row'[x] = row[x]
      BY <1>1, <1>8, <2>2
    <3> QED
      BY <1>9, <3>1, LinkKept DEF ChainInv
  <2> QED
    BY <2>1, <2>2
<1>11. Continues(s)'
  BY <1>4, <1>5, <1>6 DEF Continues
<1>12. \A x \in Stored' \ Stored : TrueRow(x)
  <2>1. TrueRow(s)
    BY <1>5, <1>6, <1>7, <1>11 DEF TrueRow
  <2> QED
    BY <1>1, <2>1
<1> QED
  BY <1>9, <1>10, <1>12, GoodRows DEF ChainInv

(* A save may take a link back, or bring one back, but none that is wrong. *)
LEMMA TableRevocation ==
  ASSUME IndInv, IndInv', ChainInv, NEW p \in Request, CommitRevocation(p)
  PROVE  Kept /\ GoodTable'
<1> USE IndInvParts
<1>1. \A x \in Stored' \ Stored : TrueRow(x)
  BY RevocationEffect
<1>2. ASSUME NEW x \in Stored
      PROVE  /\ RowKept(x)
             /\ row'[x].rotatedTo # Null => Linked(x, row'[x].rotatedTo)
             /\ row'[x].revokedAt = Null => row'[x].rotatedTo = Null
  <2> DEFINE cols == job[p].changed[x]
             e    == job[p].copy[x]
  <2>1. /\ x \in Token /\ row[x] \in Row
        /\ row'[x] = Written(row[x], e, cols)
    BY DEF CommitRevocation, TypeOK, Stored
  <2>2. CopyGood(job[p], x)
    BY <2>1 DEF ChainInv, GoodJob
  <2>3. cols # {} => e.revokedAt # Null
    BY <2>1 DEF CommitRevocation, RequestOK, Copies
  <2>4. /\ row[x].rotatedTo # Null => Linked(x, row[x].rotatedTo)
        /\ row[x].revokedAt = Null => row[x].rotatedTo = Null
    BY DEF ChainInv, GoodTable
  <2>5. /\ e.rotatedTo # Null => Linked(x, e.rotatedTo)
        /\ cols # {} /\ "revokedAt" \notin cols => row[x].revokedAt # Null
    BY <2>2 DEF CopyGood
  <2>6. x \in Stored' /\ (row[x].revokedAt # Null => row'[x].revokedAt # Null)
    BY <2>1, RevocationEffect
  <2> HIDE DEF cols, e
  <2>7. /\ row'[x].family = row[x].family /\ row'[x].user = row[x].user
        /\ row'[x].client = row[x].client /\ row'[x].parent = row[x].parent
        /\ row'[x].issuedAt = row[x].issuedAt
        /\ row'[x].idleExpiresAt = row[x].idleExpiresAt
        /\ row'[x].absoluteExpiresAt = row[x].absoluteExpiresAt
        /\ row'[x].rotatedTo =
             IF "rotatedTo" \in cols THEN e.rotatedTo ELSE row[x].rotatedTo
        /\ row'[x].revokedAt =
             IF "revokedAt" \in cols THEN e.revokedAt ELSE row[x].revokedAt
    BY <2>1 DEF Written, Row
  <2>8. RowKept(x)
    BY <2>6, <2>7 DEF RowKept
  <2>9. row'[x].rotatedTo # Null => Linked(x, row'[x].rotatedTo)
    BY <2>4, <2>5, <2>7
  <2>10. row'[x].revokedAt = Null => row'[x].rotatedTo = Null
    BY <2>3, <2>4, <2>5, <2>7
  <2> QED
    BY <2>8, <2>9, <2>10
<1>3. Kept
  BY <1>2, Times DEF Kept, CommitRevocation
<1>4. \A x \in Stored : TrueLink(x)
  BY <1>2, <1>3 DEF TrueLink, Linked, Kept, RowKept
<1> QED
  BY <1>1, <1>3, <1>4, GoodRows DEF ChainInv

(* The table after a step.                                                 *)
LEMMA TableLater ==
  ASSUME IndInv, IndInv', ChainInv, [Next]_vars
  PROVE  Kept /\ GoodTable'
<1> USE IndInvParts
<1>1. clock \in Nat
  BY Times
<1>2. clock <= clock'
  <2>1. ASSUME NEW p \in Request, Step(p) \/ Arrive(p) \/ Fail(p)
        PROVE  clock' = clock
    BY <2>1
    DEF Arrive, Step, Fail, StartIssue, Present, StartFamilyRevocation,
        Deactivate, ResetPassword, Cleanup, RejectUnknown, DetectReplay,
        RejectUnusable, Resolve, AcceptForRotation, CheckClient, CheckUser,
        AcceptForRevocation, FindFamily, Reload, MatchRows, CommitRevocation,
        InsertToken, CommitRotation, UpdateRow
  <2>2. clock' = clock \/ clock' = clock + 1
    BY <2>1 DEF Next, SwitchUser, SwitchClient, Tick, vars
  <2> QED
    BY <1>1, <2>2
<1>3. CASE UNCHANGED row
  <2>1. \A x \in Stored' \ Stored : TrueRow(x)
    BY <1>3 DEF Stored
  <2>2. Kept
    BY <1>2, <1>3 DEF Kept, RowKept, Stored
  <2>3. \A x \in Stored : TrueLink(x)
    BY <1>3, <2>2, LinkKept DEF ChainInv
  <2> QED
    BY <2>1, <2>2, <2>3, GoodRows DEF ChainInv
<1> QED
  BY <1>3, TableSteps, TableInsert, TableRotation, TableRevocation

(* Every step keeps the links.                                             *)
LEMMA ChainKeeps == IndInv /\ IndInv' /\ ChainInv /\ [Next]_vars => ChainInv'
<1> SUFFICES ASSUME IndInv, IndInv', ChainInv, [Next]_vars PROVE ChainInv'
  OBVIOUS
<1>1. Kept /\ GoodTable' /\ TypeOK /\ TypeOK'
  BY TableLater DEF IndInv
<1>2. ASSUME NEW q \in Request PROVE GoodJob(job[q])'
  <2>1. job'[q] \in Job /\ GoodJob(job'[q])
    BY <1>1, GoodSlots DEF TypeOK
  <2>2. PICK j \in Job : j = job'[q] /\ GoodJob(j)
    BY <2>1
  <2>3. GoodJob(j)'
    BY <1>1, <2>2, GoodLater
  <2> QED
    BY <2>2, <2>3 DEF GoodJob, OnTime, CopyGood, Linked
<1> QED
  BY <1>1, <1>2 DEF ChainInv

(* No token, no link.                                                      *)
LEMMA ChainInit == Init => ChainInv
<1> SUFFICES ASSUME Init PROVE ChainInv
  OBVIOUS
<1>1. TypeOK
  BY TypeInit
<1>2. Stored = {}
  BY DEF Init, Stored, NoRow
<1>3. \A p \in Request : job[p] = Idle
  BY DEF Init
<1> QED
  BY <1>1, <1>2, <1>3, GoodIdle DEF ChainInv, GoodTable

(* A successor continues the token it was exchanged for, and a link that a *)
(* stale save takes back or brings back never leads to a wrong row.        *)
THEOREM LinksTrue == Spec => []ChainLinked
<1>1. IndInv /\ ChainInv => ChainLinked
  BY DEF ChainInv, GoodTable, Continues, Linked, ChainLinked
<1>2. Spec => [](IndInv /\ ChainInv)
  BY ChainInit, ChainKeeps, Invariance, PTL DEF Spec
<1> QED
  BY <1>1, <1>2, PTL

-----------------------------------------------------------------------------
(* What a revocation promises however many requests overlap: the tokens it *)
(* has found are revoked once it commits.  What it may miss is a token     *)
(* that is inserted after its search.                                      *)

FoundAreRevoked ==
  [][\A p \in Request : CommitRevocation(p) =>
       \A t \in Token : job[p].copy[t].family # Null =>
         row'[t].revokedAt # Null]_vars

RightKind(j) ==
  /\ j.phase \in {"lock", "find", "reload"} => j.op \notin Bulk
  /\ j.phase = "statement" => j.op \in Bulk

(* Of the WHERE clause of a bulk UPDATE, what no other request changes.    *)
Aimed(j, r) ==
  IF j.op = "cleanupExpiredState"
    THEN r.idleExpiresAt <= j.now \/ r.absoluteExpiresAt <= j.now
    ELSE r.user = j.user

(* A row that was found is to be written, or somebody else has revoked it. *)
Caught(j, t) ==
  IF j.op \in Bulk
    THEN /\ Aimed(j, row[t])
         /\ t \in j.todo \/ j.changed[t] # {} \/ row[t].revokedAt # Null
    ELSE j.changed[t] # {} \/ row[t].revokedAt # Null

FoundJob(j) ==
  /\ RightKind(j)
  /\ j.phase = "update" =>
       \A t \in Token : j.copy[t].family # Null => Caught(j, t)

FoundInv == \A p \in Request : FoundJob(job[p])

LEMMA FoundIdle == FoundJob(Idle)
BY DEF FoundJob, RightKind, Idle

(* A request that begins has found nothing yet.                            *)
LEMMA FoundArrival ==
  ASSUME TypeOK, NEW p \in Request, Arrive(p)
  PROVE  RightKind(job'[p]) /\ job'[p].phase \notin {"reload", "update"}
<1>0. \A j : Become(p, j) => job'[p] = j
  BY DEF Become, TypeOK
<1>1. ASSUME NEW u \in User, NEW c \in Client, StartIssue(p, u, c)
      PROVE  job'[p].phase = "insert"
  BY <1>0, <1>1 DEF StartIssue, Idle
<1>2. ASSUME NEW op \in Operation, NEW t \in Stored \cup {Null},
             NEW c \in Client \cup {Null}, Present(p, op, t, c)
      PROVE  job'[p].phase = "lock" /\ job'[p].op \notin Bulk
  BY <1>0, <1>2 DEF Present, Idle, Rotating, Bulk
<1>3. ASSUME NEW f \in Token, StartFamilyRevocation(p, f)
      PROVE  job'[p].phase = "find" /\ job'[p].op \notin Bulk
  BY <1>0, <1>3 DEF StartFamilyRevocation, Idle, Bulk
<1>4. ASSUME NEW u \in User, Deactivate(p, u) \/ ResetPassword(p, u)
      PROVE  job'[p].phase = "statement" /\ job'[p].op \in Bulk
  BY <1>0, <1>4 DEF Deactivate, ResetPassword, Idle, Bulk
<1>5. ASSUME Cleanup(p)
      PROVE  job'[p].phase = "statement" /\ job'[p].op \in Bulk
  BY <1>0, <1>5 DEF Cleanup, Idle, Bulk
<1> QED
  BY <1>1, <1>2, <1>3, <1>4, <1>5 DEF Arrive, RightKind

(* A request goes on, judged by the table before its step.                 *)
LEMMA FoundStep ==
  ASSUME IndInv, ChainInv, NEW p \in Request, FoundJob(job[p]), Step(p)
  PROVE  FoundJob(job'[p])
<1> USE IndInvParts, JobType
<1>0. /\ job \in [Request -> Job] /\ job[p] \in Job
      /\ \A j : Become(p, j) => job'[p] = j
      /\ Finish(p) => job'[p] = Idle
  BY DEF Become, Finish, TypeOK
<1>1. CASE job'[p] = Idle
  BY <1>1, FoundIdle
<1>2. CASE RejectUnknown(p) \/ RejectUnusable(p) \/ Resolve(p)
             \/ CommitRevocation(p)
             \/ \E t \in Token : InsertToken(p, t) \/ CommitRotation(p, t)
  BY <1>0, <1>1, <1>2
  DEF RejectUnknown, RejectUnusable, Resolve, CommitRevocation, InsertToken,
      CommitRotation
<1>3. CASE DetectReplay(p) \/ AcceptForRevocation(p) \/ FindFamily(p)
  <2>1. CASE DetectReplay(p)
    <3>1. /\ job[p].phase = "lock" /\ job'[p].phase = "find"
          /\ job'[p].op = job[p].op
      BY <1>0, <2>1 DEF DetectReplay, Advance, Presented, Job
    <3> QED
      BY <3>1 DEF FoundJob, RightKind
  <2>2. CASE AcceptForRevocation(p)
    <3>1. /\ job[p].phase = "lock" /\ job'[p].phase = "find"
          /\ job'[p].op = job[p].op
      BY <1>0, <2>2 DEF AcceptForRevocation, Presented, Job
    <3> QED
      BY <3>1 DEF FoundJob, RightKind
  <2>3. CASE FindFamily(p)
    <3> DEFINE found == [t \in Token |->
                   IF t \in Family(row[job[p].token].family)
                     THEN Filled(row[t], job[p].now, WhyFamily(job[p].op))
                     ELSE NoRow]
               j == [job[p] EXCEPT !.phase = "reload", !.copy = found]
    <3>0. job'[p] = j /\ job[p].phase = "find"
      BY <1>0, <2>3 DEF FindFamily
    <3> HIDE DEF found
    <3>1. /\ job[p].phase = "find" /\ job'[p].phase = "reload"
          /\ job'[p].op = job[p].op
      BY <1>0, <3>0 DEF Job
    <3> QED
      BY <3>1 DEF FoundJob, RightKind
  <2> QED
    BY <1>3, <2>1, <2>2, <2>3
<1>4. CASE AcceptForRotation(p) \/ CheckClient(p) \/ CheckUser(p)
  <2>1. job'[p] = Idle \/ job'[p].phase \in {"client", "user", "write"}
    BY <1>0, <1>4 DEF AcceptForRotation, CheckClient, CheckUser, Advance, Job
  <2> QED
    BY <1>1, <2>1 DEF FoundJob, RightKind
<1>5. CASE Reload(p)
  <2> DEFINE Diff(t) == IF job[p].copy[t].family = Null THEN {}
                          ELSE Differing(job[p].copy[t], row[t])
             diffs == [t \in Token |-> Diff(t)]
             rest  == {t \in Token : Diff(t) # {}}
             j == [job[p] EXCEPT !.phase = "update", !.changed = diffs,
                                 !.todo = rest]
  <2>1. job'[p] = j /\ job[p].phase = "reload"
    BY <1>0, <1>5 DEF Reload
  <2>2. \A t \in Token : diffs[t] = IF job[p].copy[t].family = Null THEN {}
                          ELSE Differing(job[p].copy[t], row[t])
    OBVIOUS
  <2> HIDE DEF diffs, rest
  <2>3. /\ j.phase = "update" /\ j.op = job[p].op /\ j.op \notin Bulk
        /\ j.copy = job[p].copy /\ j.changed = diffs
    BY <1>0, <2>1 DEF Job, FoundJob, RightKind
  <2> HIDE DEF j
  <2>4. ASSUME NEW t \in Token, job[p].copy[t].family # Null
        PROVE  diffs[t] # {} \/ row[t].revokedAt # Null
    <3>1. job[p].copy[t].revokedAt # Null
      BY <2>1, <2>4 DEF RequestOK, Copies
    <3>2. job[p].copy[t].revokedAt # row[t].revokedAt =>
            "revokedAt" \in Differing(job[p].copy[t], row[t])
      BY DEF Differing, Column
    <3> QED
      BY <2>2, <2>4, <3>1, <3>2
  <2> QED
    BY <2>1, <2>3, <2>4 DEF FoundJob, RightKind, Caught
<1>6. CASE MatchRows(p)
  <2> DEFINE hit == {t \in Token : Matches(job[p], row[t], job[p].now)}
             copies == [t \in Token |->
                          IF t \in hit
                            THEN Filled(row[t], job[p].now, WhyBulk(job[p].op))
                            ELSE NoRow]
             j == [job[p] EXCEPT !.phase = "update", !.todo = hit,
                                 !.copy = copies]
  <2>1. job'[p] = j /\ job[p].phase = "statement" /\ job[p].op \in Bulk
    BY <1>0, <1>6 DEF MatchRows, FoundJob, RightKind
  <2>2. \A t \in Token : copies[t].family # Null =>
          t \in hit /\ Matches(job[p], row[t], job[p].now)
    BY DEF NoRow
  <2> HIDE DEF copies, hit
  <2>3. /\ j.phase = "update" /\ j.op = job[p].op /\ j.user = job[p].user
        /\ j.now = job[p].now /\ j.copy = copies /\ j.todo = hit
    BY <1>0 DEF Job
  <2> HIDE DEF j
  <2> QED
    BY <2>1, <2>2, <2>3 DEF FoundJob, RightKind, Caught, Aimed, Matches
<1>7. ASSUME NEW t \in Token, UpdateRow(p, t)
      PROVE  FoundJob(job'[p])
  <2> DEFINE new  == IF job[p].op \notin Bulk THEN job[p].changed[t]
                       ELSE IF Matches(job[p], row[t], job[p].now)
                              THEN {"revokedAt", "reason"}
                              ELSE {}
             cols == [job[p].changed EXCEPT ![t] = new]
             rest == job[p].todo \ {t}
             j    == [job[p] EXCEPT !.todo = rest, !.changed = cols]
  <2>1. job'[p] = j /\ job[p].phase = "update"
    BY <1>0, <1>7 DEF UpdateRow, Become, Job
  <2>2. /\ cols[t] = new /\ \A x \in Token \ {t} : cols[x] = job[p].changed[x]
        /\ \A x \in Token \ {t} : x \in job[p].todo => x \in rest
    BY <1>0
  <2> HIDE DEF cols, rest
  <2>3. /\ j.phase = "update" /\ j.op = job[p].op /\ j.user = job[p].user
        /\ j.now = job[p].now /\ j.copy = job[p].copy /\ j.todo = rest
        /\ j.changed = cols
    BY <1>0, <2>1 DEF Job
  <2> HIDE DEF j
  <2>4. ASSUME NEW x \in Token, j.copy[x].family # Null
        PROVE  Caught(j, x)
    <3>1. Caught(job[p], x)
      BY <2>1, <2>3, <2>4 DEF FoundJob
    <3>2. CASE x # t
      BY <2>2, <2>3, <3>1, <3>2 DEF Caught, Aimed
    <3>3. CASE x = t /\ job[p].op \notin Bulk
      BY <2>2, <2>3, <3>1, <3>3 DEF Caught
    <3>4. CASE x = t /\ job[p].op \in Bulk
      <4>1. Aimed(job[p], row[t])
        BY <3>1, <3>4 DEF Caught
      <4>2. t \in Stored
        BY <2>3, <2>4, <3>4 DEF ChainInv, GoodJob, CopyGood
      <4>3. new # {} \/ row[t].revokedAt # Null
        BY <3>4, <4>1, <4>2 DEF Aimed, Matches, Stored
      <4> HIDE DEF new
      <4> QED
        BY <2>2, <2>3, <3>4, <4>1, <4>3 DEF Caught, Aimed
    <3> QED
      BY <3>2, <3>3, <3>4
  <2> QED
    BY <2>1, <2>3, <2>4 DEF FoundJob, RightKind
<1> QED
  BY <1>2, <1>3, <1>4, <1>5, <1>6, <1>7 DEF Step

(* What was found stays caught: users and expiries of rows never change,   *)
(* and nothing that is revoked is revived.                                 *)
LEMMA FoundLater ==
  ASSUME Kept, NEW j \in Job, FoundJob(j), GoodJob(j)
  PROVE  FoundJob(j)'
<1>1. ASSUME NEW t \in Token, j.copy[t].family # Null
      PROVE  RowKept(t)
  BY <1>1 DEF GoodJob, CopyGood, Kept
<1>2. ASSUME NEW t \in Token, RowKept(t), Caught(j, t)
      PROVE  Caught(j, t)'
  BY <1>2 DEF RowKept, Caught, Aimed
<1> QED
  BY <1>1, <1>2 DEF FoundJob, RightKind

LEMMA FoundKeeps ==
  ASSUME IndInv, IndInv', ChainInv, FoundInv, [Next]_vars
  PROVE  FoundInv'
<1> USE IndInvParts
<1> SUFFICES ASSUME NEW q \in Request PROVE FoundJob(job[q])'
  BY DEF FoundInv
<1>1. FoundJob(job'[q])
  <2>1. FoundJob(job[q])
    BY DEF FoundInv
  <2>2. CASE UNCHANGED job
    BY <2>1, <2>2
  <2>3. ASSUME NEW p \in Request, Arrive(p) \/ Step(p) \/ Fail(p)
        PROVE  FoundJob(job'[q])
    <3>1. CASE p # q
      <4>1. job'[q] = job[q]
        BY <2>3, <3>1, ArrivalAlone, GoodStep, FinishedGood DEF Fail
      <4> QED
        BY <2>1, <4>1
    <3>2. CASE Arrive(q)
      BY <3>2, FoundArrival DEF FoundJob
    <3>3. CASE Step(q)
      BY <2>1, <3>3, FoundStep
    <3>4. CASE Fail(q)
      <4>1. job'[q] = Idle
        BY <3>4 DEF Fail, Finish, Become, TypeOK
      <4> QED
        BY <4>1, FoundIdle
    <3> QED
      BY <2>3, <3>1, <3>2, <3>3, <3>4
  <2> QED
    BY <2>2, <2>3 DEF Next, SwitchUser, SwitchClient, Tick, vars
<1>2. GoodJob(job'[q]) /\ job'[q] \in Job /\ Kept
  BY GoodSlots, TableLater DEF IndInv, TypeOK
<1>3. PICK j \in Job : j = job'[q] /\ FoundJob(j) /\ GoodJob(j)
  BY <1>1, <1>2
<1>4. FoundJob(j)'
  BY <1>2, <1>3, FoundLater
<1> QED
  BY <1>3, <1>4 DEF FoundJob, RightKind, Caught, Aimed

(* What a revocation has found is revoked when it commits.                 *)
LEMMA FoundRevoked ==
  ASSUME IndInv, ChainInv, FoundInv, NEW p \in Request, CommitRevocation(p),
         NEW t \in Token, job[p].copy[t].family # Null
  PROVE  row'[t].revokedAt # Null
<1>1. /\ job[p].phase = "update" /\ t \notin job[p].todo
      /\ row'[t] = Written(row[t], job[p].copy[t], job[p].changed[t])
  BY DEF CommitRevocation
<1>2. CASE row[t].revokedAt # Null
  BY <1>2, RevocationEffect
<1>3. CASE row[t].revokedAt = Null
  <2>1. job[p].changed[t] # {}
    BY <1>1, <1>3 DEF FoundInv, FoundJob, Caught
  <2>2. "revokedAt" \in job[p].changed[t]
    BY <1>3, <2>1 DEF ChainInv, GoodJob, CopyGood
  <2>3. job[p].copy[t].revokedAt # Null
    BY <1>1, <2>1, IndInvParts DEF RequestOK, Copies
  <2>4. row[t] \in Row
    BY <1>3 DEF IndInv, TypeOK
  <2> QED
    BY <1>1, <2>2, <2>3, <2>4 DEF Written, Row
<1> QED
  BY <1>2, <1>3

(* However many requests overlap, a revocation revokes every token it has  *)
(* found: none escapes because another save or exchange came in between.   *)
THEOREM WhatIsFoundIsRevoked == Spec => FoundAreRevoked
<1>1. Init => FoundInv
  BY FoundIdle DEF Init, FoundInv
<1>2. Spec => [](IndInv /\ ChainInv /\ FoundInv)
  <2>1. IndInv /\ ChainInv /\ FoundInv /\ [Next]_vars =>
          IndInv' /\ ChainInv' /\ FoundInv'
    BY NextKeeps, ChainKeeps, FoundKeeps
  <2> QED
    BY <1>1, <2>1, IndInvInit, ChainInit, PTL DEF Spec
<1>3. ASSUME IndInv, ChainInv, FoundInv
      PROVE  \A p \in Request : CommitRevocation(p) =>
               \A t \in Token : job[p].copy[t].family # Null =>
                 row'[t].revokedAt # Null
  BY <1>3, FoundRevoked
<1> QED
  BY <1>2, <1>3, PTL DEF FoundAreRevoked

-----------------------------------------------------------------------------
(* The window between the search of a revocation and its commit, whatever  *)
(* requests overlap it.                                                    *)

(* A revocation of a family, from its search to its commit.                *)
Revoking(j) == j.phase = "reload" \/ (j.phase = "update" /\ j.op \notin Bulk)

(* What it has found is its family, but for what came late, with all the   *)
(* links but those to successors that came late or were overtaken.         *)
Seen(j, l) ==
  Revoking(j) =>
    /\ j.token \in Stored
    /\ \A t \in Stored :
         /\ row[t].family = row[j.token].family =>
              j.copy[t].family # Null \/ t \in l
         /\ j.copy[t].family # Null =>
              /\ row[t].family = row[j.token].family
              /\ \A s \in Stored : row[s].parent = t =>
                   j.copy[t].rotatedTo = s \/ s \in l \cup overtaken

(* A link is written only by the revocation of a family that found it.     *)
WritesFound(j) ==
  j.phase = "update" =>
    \A t \in Token : "rotatedTo" \in j.changed[t] =>
      j.op \notin Bulk /\ j.copy[t].family # Null

(* A bulk UPDATE for a user has matched every live token it could see.     *)
Spotted(j, l) ==
  j.phase = "update" /\ j.op \in {"setUserStatus", "resetPassword"} =>
    \A t \in Stored : row[t].user = j.user =>
      j.copy[t].family # Null \/ t \in l \/ row[t].revokedAt # Null

WindowJob(j, l) == Seen(j, l) /\ WritesFound(j) /\ Spotted(j, l)

(* An exchanged token is linked to its successor, or this was overtaken.   *)
LinksKnown ==
  \A s \in Stored : row[s].parent # Null =>
    row[row[s].parent].rotatedTo = s \/ s \in overtaken

WindowInv == LinksKnown /\ \A p \in Request : WindowJob(job[p], late[p])

LEMMA WindowQuiet ==
  ASSUME NEW j, NEW l, j.phase \notin {"reload", "update"}
  PROVE  WindowJob(j, l)
BY DEF WindowJob, Seen, WritesFound, Spotted, Revoking

(* The search of a family.                                                 *)
LEMMA WindowFind ==
  ASSUME IndInv, ChainInv, LinksKnown, NEW p \in Request, FindFamily(p)
  PROVE  WindowJob(job'[p], {}) /\ job[p].phase = "find"
<1> USE IndInvParts, JobType
<1>0. job[p] \in Job /\ row \in [Token -> Row]
  BY DEF TypeOK
<1> DEFINE found == [t \in Token |->
             IF t \in Family(row[job[p].token].family)
               THEN Filled(row[t], job[p].now, WhyFamily(job[p].op))
               ELSE NoRow]
           j == [job[p] EXCEPT !.phase = "reload", !.copy = found]
<1>1. job'[p] = j /\ job[p].phase = "find"
  BY DEF FindFamily, Become, TypeOK
<1>2. job[p].token \in Stored
  BY <1>1 DEF ChainInv, GoodJob, OnTime
<1>3. ASSUME NEW t \in Stored
      PROVE  /\ row[t].family = row[job[p].token].family =>
                  /\ found[t].family = row[t].family
                  /\ found[t].rotatedTo = row[t].rotatedTo
             /\ row[t].family # row[job[p].token].family =>
                  found[t].family = Null
  BY <1>0 DEF Family, Filled, Row, NoRow, Stored
<1> HIDE DEF found
<1>4. j.phase = "reload" /\ j.token = job[p].token /\ j.copy = found
  BY <1>0 DEF Job
<1> HIDE DEF j
<1>5. \A s, t \in Stored : row[s].parent = t =>
        row[t].rotatedTo = s \/ s \in overtaken
  BY DEF LinksKnown, Stored
<1>6. Seen(j, {})
  BY <1>2, <1>3, <1>4, <1>5 DEF Seen, Stored
<1> QED
  BY <1>1, <1>4, <1>6 DEF WindowJob, WritesFound, Spotted

(* The comparison with the rows selected again.                            *)
LEMMA WindowReload ==
  ASSUME IndInv, NEW p \in Request, RightKind(job[p]), NEW l,
         WindowJob(job[p], l), Reload(p)
  PROVE  WindowJob(job'[p], l)
<1> USE IndInvParts, JobType
<1>0. job[p] \in Job
  BY DEF TypeOK
<1> DEFINE Diff(t) == IF job[p].copy[t].family = Null THEN {}
                        ELSE Differing(job[p].copy[t], row[t])
           diffs == [t \in Token |-> Diff(t)]
           rest  == {t \in Token : Diff(t) # {}}
           j     == [job[p] EXCEPT !.phase = "update", !.changed = diffs,
                                   !.todo = rest]
<1>1. job'[p] = j /\ job[p].phase = "reload"
  BY DEF Reload, Become, TypeOK
<1>2. \A t \in Token : job[p].copy[t].family = Null => diffs[t] = {}
  OBVIOUS
<1> HIDE DEF diffs, rest
<1>3. /\ j.phase = "update" /\ j.token = job[p].token /\ j.op = job[p].op
      /\ j.op \notin Bulk /\ j.copy = job[p].copy /\ j.changed = diffs
  BY <1>0, <1>1 DEF Job, RightKind
<1> HIDE DEF j
<1>4. Seen(j, l)
  BY <1>1, <1>3 DEF WindowJob, Seen, Revoking
<1>5. WritesFound(j) /\ Spotted(j, l)
  BY <1>2, <1>3 DEF WritesFound, Spotted, Bulk
<1> QED
  BY <1>1, <1>4, <1>5 DEF WindowJob

(* The snapshot of a bulk UPDATE.                                          *)
LEMMA WindowMatch ==
  ASSUME IndInv, NEW p \in Request, RightKind(job[p]), MatchRows(p)
  PROVE  WindowJob(job'[p], {}) /\ job[p].phase = "statement"
<1> USE IndInvParts, JobType
<1>0. job[p] \in Job /\ row \in [Token -> Row]
  BY DEF TypeOK
<1> DEFINE hit == {t \in Token : Matches(job[p], row[t], job[p].now)}
           copies == [t \in Token |->
                        IF t \in hit
                          THEN Filled(row[t], job[p].now, WhyBulk(job[p].op))
                          ELSE NoRow]
           j == [job[p] EXCEPT !.phase = "update", !.todo = hit,
                               !.copy = copies]
<1>1. job'[p] = j /\ job[p].phase = "statement" /\ job[p].op \in Bulk
  BY DEF MatchRows, Become, TypeOK, RightKind
<1>2. \A t \in hit : copies[t].family = row[t].family
  BY <1>0 DEF Filled, Row
<1>3. \A t \in Token : job[p].changed[t] = {}
  BY <1>1 DEF RequestOK, Locks
<1>4. \A t \in Stored :
        job[p].op # "cleanupExpiredState" /\ row[t].user = job[p].user
          /\ row[t].revokedAt = Null => t \in hit
  BY DEF Matches, Stored
<1> HIDE DEF copies, hit
<1>5. /\ j.phase = "update" /\ j.op = job[p].op /\ j.user = job[p].user
      /\ j.copy = copies /\ j.changed = job[p].changed
  BY <1>0 DEF Job
<1> HIDE DEF j
<1>6. Seen(j, {}) /\ WritesFound(j)
  BY <1>1, <1>3, <1>5 DEF Seen, Revoking, WritesFound
<1>7. Spotted(j, {})
  BY <1>2, <1>4, <1>5 DEF Spotted, Stored
<1> QED
  BY <1>1, <1>6, <1>7 DEF WindowJob

(* A row locked by the UPDATEs.                                            *)
LEMMA WindowUpdate ==
  ASSUME IndInv, NEW p \in Request, NEW l, WindowJob(job[p], l),
         NEW t \in Token, UpdateRow(p, t)
  PROVE  WindowJob(job'[p], l)
<1> USE IndInvParts, JobType
<1>0. job[p] \in Job
  BY DEF TypeOK
<1> DEFINE new  == IF job[p].op \notin Bulk THEN job[p].changed[t]
                     ELSE IF Matches(job[p], row[t], job[p].now)
                            THEN {"revokedAt", "reason"}
                            ELSE {}
           cols == [job[p].changed EXCEPT ![t] = new]
           rest == job[p].todo \ {t}
           j    == [job[p] EXCEPT !.todo = rest, !.changed = cols]
<1>1. job'[p] = j /\ job[p].phase = "update"
  BY <1>0 DEF UpdateRow, Become, TypeOK, Job
<1>2. \A x \in Token : "rotatedTo" \in cols[x] =>
        "rotatedTo" \in job[p].changed[x]
  BY <1>0 DEF Job
<1> HIDE DEF cols, rest
<1>3. /\ j.phase = "update" /\ j.token = job[p].token /\ j.op = job[p].op
      /\ j.user = job[p].user /\ j.copy = job[p].copy /\ j.changed = cols
  BY <1>0, <1>1 DEF Job
<1> HIDE DEF j
<1>4. Seen(j, l)
  BY <1>1, <1>3 DEF WindowJob, Seen, Revoking
<1>5. WritesFound(j) /\ Spotted(j, l)
  BY <1>1, <1>2, <1>3 DEF WindowJob, WritesFound, Spotted
<1> QED
  BY <1>1, <1>4, <1>5 DEF WindowJob

(* A request goes on, judged by the table before its step: what came late  *)
(* is counted from its search.                                             *)
LEMMA WindowStep ==
  ASSUME IndInv, ChainInv, LinksKnown, NEW p \in Request, RightKind(job[p]),
         NEW l, WindowJob(job[p], l), Step(p)
  PROVE  \/ ~Searched(p)'
         \/ /\ UNCHANGED row
            /\ WindowJob(job'[p], IF Searched(p) THEN l ELSE {})
<1> USE IndInvParts, JobType
<1>0. /\ job \in [Request -> Job] /\ job[p] \in Job
      /\ \A j : Become(p, j) => job'[p] = j
      /\ Finish(p) => job'[p].phase = "idle"
  BY DEF Become, Finish, TypeOK, Idle
<1>1. CASE RejectUnknown(p) \/ RejectUnusable(p) \/ Resolve(p)
             \/ CommitRevocation(p)
             \/ \E t \in Token : InsertToken(p, t) \/ CommitRotation(p, t)
  BY <1>0, <1>1
  DEF RejectUnknown, RejectUnusable, Resolve, CommitRevocation, InsertToken,
      CommitRotation, Searched
<1>2. CASE \/ DetectReplay(p) \/ AcceptForRevocation(p)
           \/ AcceptForRotation(p) \/ CheckClient(p) \/ CheckUser(p)
  <2>1. job'[p].phase \in {"idle", "find", "client", "user", "write"}
    BY <1>0, <1>2 DEF DetectReplay, AcceptForRevocation, AcceptForRotation,
                      CheckClient, CheckUser, Advance, Job
  <2> QED
    BY <2>1 DEF Searched
<1>3. CASE FindFamily(p)
  BY <1>3, WindowFind DEF FindFamily, Searched
<1>4. CASE Reload(p)
  BY <1>4, WindowReload DEF Reload, Searched
<1>5. CASE MatchRows(p)
  BY <1>5, WindowMatch DEF MatchRows, Searched
<1>6. ASSUME NEW t \in Token, UpdateRow(p, t)
      PROVE  UNCHANGED row /\ WindowJob(job'[p], l) /\ Searched(p)
  BY <1>6, WindowUpdate DEF UpdateRow, Searched
<1> QED
  BY <1>1, <1>2, <1>3, <1>4, <1>5, <1>6 DEF Step

(* What a request knows stays true of the table when it is kept, and what  *)
(* is inserted meanwhile counts as late.                                   *)
LEMMA WindowLater ==
  ASSUME IndInv, Kept, NEW j \in Job, GoodJob(j), NEW l, NEW m,
         WindowJob(j, l), l \cup (Stored' \ Stored) \subseteq m,
         overtaken \subseteq overtaken'
  PROVE  WindowJob(j, m)'
<1>1. \A t \in Stored : RowKept(t)
  BY DEF Kept
<1>2. \A t \in Token : j.copy[t].family # Null => t \in Stored
  BY DEF GoodJob, CopyGood
<1>3. Stored' \subseteq Token /\ Stored \subseteq Token
  BY DEF Stored
<1>4. Seen(j, m)'
  <2> SUFFICES ASSUME Revoking(j)
               PROVE  (j.token \in Stored /\ \A t \in Stored :
                        /\ row[t].family = row[j.token].family =>
                             j.copy[t].family # Null \/ t \in m
                        /\ j.copy[t].family # Null =>
                             /\ row[t].family = row[j.token].family
                             /\ \A s \in Stored : row[s].parent = t =>
                                  j.copy[t].rotatedTo = s
                                    \/ s \in m \cup overtaken)'
    BY DEF Seen, Revoking
  <2>1. /\ j.token \in Stored
        /\ \A t \in Stored :
             /\ row[t].family = row[j.token].family =>
                  j.copy[t].family # Null \/ t \in l
             /\ j.copy[t].family # Null =>
                  /\ row[t].family = row[j.token].family
                  /\ \A s \in Stored : row[s].parent = t =>
                       j.copy[t].rotatedTo = s \/ s \in l \cup overtaken
    BY DEF WindowJob, Seen
  <2>2. j.token \in Stored' /\ row'[j.token].family = row[j.token].family
    BY <1>1, <2>1 DEF RowKept
  <2>3. ASSUME NEW t \in Stored', row'[t].family = row'[j.token].family
        PROVE  j.copy[t].family # Null \/ t \in m
    BY <1>1, <2>1, <2>2, <2>3 DEF RowKept
  <2>4. ASSUME NEW t \in Stored', j.copy[t].family # Null
        PROVE  /\ t \in Stored
               /\ row'[t].family = row'[j.token].family
    BY <1>1, <1>2, <1>3, <2>1, <2>2, <2>4 DEF RowKept
  <2>5. ASSUME NEW t \in Stored', j.copy[t].family # Null,
               NEW s \in Stored', row'[s].parent = t
        PROVE  j.copy[t].rotatedTo = s \/ s \in m \cup overtaken'
    BY <1>1, <2>1, <2>4, <2>5 DEF RowKept
  <2> QED
    BY <2>2, <2>3, <2>4, <2>5
<1>5. WritesFound(j)'
  BY DEF WindowJob, WritesFound
<1>6. Spotted(j, m)'
  BY <1>1 DEF WindowJob, Spotted, RowKept
<1> QED
  BY <1>4, <1>5, <1>6 DEF WindowJob

(* The slots after a step.                                                 *)
LEMMA WindowSlots ==
  ASSUME IndInv, IndInv', ChainInv, FoundInv, WindowInv, Next, Record,
         NEW q \in Request
  PROVE  WindowJob(job[q], late[q])'
<1> USE IndInvParts
<1>0. [Next]_vars /\ Kept /\ GoodJob(job'[q]) /\ job'[q] \in Job
  BY TableLater, GoodSlots DEF IndInv, TypeOK
<1>1. late'[q] = IF Searched(q) /\ Searched(q)'
                   THEN late[q] \cup (Stored' \ Stored) ELSE {}
  BY DEF Record
<1>2. overtaken \subseteq overtaken'
  BY DEF Record
<1>3. CASE ~Searched(q)'
  BY <1>3 DEF Searched, WindowJob, Seen, WritesFound, Spotted, Revoking
<1>4. CASE Searched(q)'
  <2>1. WindowJob(job[q], late[q]) /\ LinksKnown /\ RightKind(job[q])
    BY DEF WindowInv, FoundInv, FoundJob
  <2>2. \/ Searched(q) /\ WindowJob(job'[q], late[q])
        \/ UNCHANGED row /\ ~Searched(q) /\ WindowJob(job'[q], {})
    <3>1. CASE job'[q] = job[q]
      BY <1>4, <2>1, <3>1 DEF Searched
    <3>2. ASSUME NEW p \in Request, Arrive(p) \/ Step(p) \/ Fail(p), p # q
          PROVE  job'[q] = job[q]
      BY <3>2, ArrivalAlone, GoodStep, FinishedGood DEF Fail
    <3>3. ~Arrive(q)
      BY <1>4, FoundArrival DEF Searched
    <3>4. ~Fail(q)
      BY <1>4 DEF Fail, Finish, Become, TypeOK, Idle, Searched
    <3>5. CASE Step(q)
      BY <1>4, <2>1, <3>5, WindowStep
    <3> QED
      BY <3>1, <3>2, <3>3, <3>4, <3>5 DEF Next, SwitchUser, SwitchClient, Tick
  <2>3. PICK l : /\ WindowJob(job'[q], l)
                 /\ l \cup (Stored' \ Stored) \subseteq late'[q]
    <3>1. CASE Searched(q) /\ WindowJob(job'[q], late[q])
      BY <1>1, <1>4, <3>1
    <3>2. CASE UNCHANGED row /\ ~Searched(q) /\ WindowJob(job'[q], {})
      <4>1. Stored' = Stored
        BY <3>2 DEF Stored
      <4> QED
        BY <1>1, <3>2, <4>1
    <3> QED
      BY <2>2, <3>1, <3>2
  <2>4. PICK j, m : j \in Job /\ j = job'[q] /\ m = late'[q]
    BY <1>0
  <2>5. WindowJob(j, m)'
    BY <1>0, <1>2, <2>3, <2>4, WindowLater
  <2> QED
    BY <2>4, <2>5 DEF WindowJob, Seen, WritesFound, Spotted, Revoking
<1> QED
  BY <1>3, <1>4

(* A commit takes a link back only from what came late, and this counts as *)
(* overtaken.                                                              *)
LEMMA WindowCommit ==
  ASSUME IndInv, ChainInv, FoundInv, WindowInv, Record,
         NEW p \in Request, CommitRevocation(p)
  PROVE  LinksKnown'
<1> USE IndInvParts, JobType
<1>0. /\ \A x \in Token : row'[x].parent = row[x].parent
      /\ Stored' = Stored /\ overtaken \subseteq overtaken'
  BY RevocationEffect DEF Record
<1> SUFFICES ASSUME NEW s \in Stored, row[s].parent # Null
             PROVE  row'[row[s].parent].rotatedTo = s \/ s \in overtaken'
  BY <1>0 DEF LinksKnown, Stored
<1> DEFINE x == row[s].parent
<1>1. x \in Stored /\ x \in Token /\ s \in Token
  BY DEF TableOK, ParentSpent, Stored
<1>2. row[x].rotatedTo = s \/ s \in overtaken
  BY DEF WindowInv, LinksKnown
<1>3. /\ job[p].phase = "update"
      /\ row'[x] = Written(row[x], job[p].copy[x], job[p].changed[x])
      /\ row[x] \in Row
  BY <1>1 DEF CommitRevocation, TypeOK
<1>4. row'[x].rotatedTo = IF "rotatedTo" \in job[p].changed[x]
                            THEN job[p].copy[x].rotatedTo
                            ELSE row[x].rotatedTo
  BY <1>3 DEF Written, Row
<1>5. CASE "rotatedTo" \notin job[p].changed[x]
  BY <1>0, <1>2, <1>4, <1>5
<1>6. CASE "rotatedTo" \in job[p].changed[x]
  <2>1. WindowJob(job[p], late[p])
    BY DEF WindowInv
  <2>2. job[p].op \notin Bulk /\ job[p].copy[x].family # Null
    BY <1>1, <1>3, <1>6, <2>1 DEF WindowJob, WritesFound
  <2>3. /\ row[x].family = row[job[p].token].family
        /\ job[p].copy[x].rotatedTo = s \/ s \in late[p] \cup overtaken
    BY <1>1, <1>3, <2>1, <2>2 DEF WindowJob, Seen, Revoking
  <2>4. row[s].family = row[x].family
    BY DEF ChainInv, GoodTable, Continues
  <2>5. s \in Target(p) /\ RevokesFamily(p)
    BY <1>1, <2>2, <2>3, <2>4 DEF Target, Family, RevokesFamily
  <2>6. s \in late[p] => s \in overtaken'
    BY <1>1, <2>5 DEF Record
  <2> QED
    BY <1>0, <1>4, <1>6, <2>3, <2>6
<1> QED
  BY <1>5, <1>6

(* The links after a step.                                                 *)
LEMMA WindowLinks ==
  ASSUME IndInv, ChainInv, FoundInv, WindowInv, Next, Record
  PROVE  LinksKnown'
<1> USE IndInvParts
<1>0. overtaken \subseteq overtaken' /\ LinksKnown /\ [Next]_vars
  BY DEF Record, WindowInv
<1>1. \A s \in Stored : row[s].parent # Null =>
        row[s].parent \in Stored /\ row[row[s].parent].revokedAt # Null
  BY DEF TableOK, ParentSpent
<1>2. CASE UNCHANGED row
  BY <1>0, <1>2 DEF LinksKnown, Stored
<1>3. ASSUME NEW p \in Request, NEW t \in Token, InsertToken(p, t)
      PROVE  LinksKnown'
  <2>1. /\ t \notin Stored /\ row'[t].parent = Null
        /\ Stored' = Stored \cup {t}
        /\ \A x \in Stored : row'[x] = row[x]
    BY <1>3, InsertEffect DEF Stored
  <2> QED
    BY <1>0, <1>1, <2>1 DEF LinksKnown
<1>4. ASSUME NEW p \in Request, NEW s \in Token, CommitRotation(p, s)
      PROVE  LinksKnown'
  <2> DEFINE t == job[p].token
  <2>1. /\ t \in LiveSet /\ s \notin Stored /\ row'[s].parent = t
        /\ row'[t].parent = row[t].parent /\ t # s /\ t \in Token
        /\ Stored' = Stored \cup {s}
        /\ \A x \in Stored : x # t => row'[x] = row[x]
    BY <1>4, RotationEffect DEF Stored
  <2>2. row'[t].rotatedTo = s
    <3>1. row'[t] = Rotated(row[t], s, job[p].now)
      BY <1>4, <2>1 DEF CommitRotation, TypeOK
    <3> QED
      BY <2>1, <3>1 DEF Rotated, TypeOK, Row
  <2>3. row[t].revokedAt = Null
    BY <2>1 DEF LiveSet, Live
  <2>4. ASSUME NEW x \in Stored'
        PROVE  row'[x].parent # Null =>
                 row'[row'[x].parent].rotatedTo = x \/ x \in overtaken'
    <3>1. CASE x = s
      BY <2>1, <2>2, <3>1
    <3>2. CASE x # s
      <4>1. x \in Stored /\ row'[x].parent = row[x].parent
        BY <2>1, <3>2
      <4>2. row[x].parent # Null =>
              row'[row[x].parent] = row[row[x].parent]
        BY <1>1, <2>1, <2>3, <4>1
      <4> QED
        BY <1>0, <4>1, <4>2 DEF LinksKnown
    <3> QED
      BY <3>1, <3>2
  <2> QED
    BY <2>4 DEF LinksKnown
<1> QED
  BY <1>0, <1>2, <1>3, <1>4, TableSteps, WindowCommit

LEMMA WindowKeeps ==
  IndInv /\ ChainInv /\ FoundInv /\ WindowInv /\ [WindowNext]_windowVars =>
    IndInv' /\ ChainInv' /\ FoundInv' /\ WindowInv'
<1> SUFFICES ASSUME IndInv, ChainInv, FoundInv, WindowInv,
                    [WindowNext]_windowVars
             PROVE  IndInv' /\ ChainInv' /\ FoundInv' /\ WindowInv'
  OBVIOUS
<1>1. [Next]_vars
  BY DEF WindowNext, windowVars, vars
<1>2. IndInv' /\ ChainInv' /\ FoundInv'
  BY <1>1, NextKeeps, ChainKeeps, FoundKeeps
<1>3. CASE WindowNext
  BY <1>2, <1>3, WindowSlots, WindowLinks DEF WindowNext, WindowInv
<1>4. ASSUME UNCHANGED windowVars PROVE WindowInv'
  BY <1>4 DEF windowVars, vars, WindowInv, LinksKnown, Stored, WindowJob,
              Seen, WritesFound, Spotted, Revoking
<1> QED
  BY <1>2, <1>3, <1>4

(* What the history knows of the table and of the requests.                *)
LEMMA WindowInvariance ==
  WindowSpec => [](IndInv /\ ChainInv /\ FoundInv /\ WindowInv)
<1>1. WindowInit => IndInv /\ ChainInv /\ FoundInv /\ WindowInv
  <2> SUFFICES ASSUME WindowInit
               PROVE  IndInv /\ ChainInv /\ FoundInv /\ WindowInv
    OBVIOUS
  <2>1. Init /\ Stored = {} /\ \A p \in Request : job[p] = Idle
    BY DEF WindowInit, Init, Stored, NoRow
  <2>2. Idle.phase = "idle"
    BY DEF Idle
  <2>3. WindowInv
    BY <2>1, <2>2, WindowQuiet DEF WindowInv, LinksKnown
  <2> QED
    BY <2>1, <2>3, IndInvInit, ChainInit, FoundIdle DEF FoundInv
<1> QED
  BY <1>1, WindowKeeps, PTL DEF WindowSpec

(* "Refresh token replay revokes the family", whatever requests overlap:   *)
(* no token of the family is left that could be exchanged but one that was *)
(* inserted between the search of the family and the commit.               *)
THEOREM FamilyEndsButLate == WindowSpec => FamilyRevokedButLate
<1>1. ASSUME IndInv, ChainInv, FoundInv, WindowInv
      PROVE  \A p \in Request : RevokesFamily(p) =>
               \A t \in Target(p) \ late[p] : row'[t].revokedAt # Null
  <2> SUFFICES ASSUME NEW p \in Request, RevokesFamily(p),
                      NEW t \in Target(p) \ late[p]
               PROVE  row'[t].revokedAt # Null
    OBVIOUS
  <2>1. job[p].phase = "update" /\ job[p].op \notin Bulk /\ CommitRevocation(p)
    BY <1>1 DEF RevokesFamily, CommitRevocation
  <2>2. WindowJob(job[p], late[p])
    BY <1>1 DEF WindowInv
  <2>3. job[p].token \in Stored
    BY <2>1, <2>2 DEF WindowJob, Seen, Revoking
  <2>4. /\ t \in Token /\ t \in Stored
        /\ row[t].family = row[job[p].token].family
    BY <1>1, <2>3 DEF Target, Family, Stored
  <2>5. job[p].copy[t].family # Null
    BY <1>1, <2>1, <2>2, <2>4 DEF WindowJob, Seen, Revoking
  <2> QED
    BY <1>1, <2>1, <2>4, <2>5, FoundRevoked
<1> QED
  BY <1>1, WindowInvariance, PTL DEF FamilyRevokedButLate

(* An exchanged token that is presented again is recognised as a replay    *)
(* whatever requests overlap, but where a revocation of its family has     *)
(* overtaken the insert of its successor.                                  *)
THEOREM ReplayRecognisedButOvertaken ==
  WindowSpec => ReplayMissedOnlyIfOvertaken
<1>1. ASSUME IndInv, ChainInv, FoundInv, WindowInv
      PROVE  \A p \in Request : RejectUnusable(p) =>
               \A s \in Stored : row[s].parent = job[p].token =>
                 s \in overtaken
  <2> SUFFICES ASSUME NEW p \in Request, RejectUnusable(p),
                      NEW s \in Stored, row[s].parent = job[p].token
               PROVE  s \in overtaken
    OBVIOUS
  <2>1. /\ job[p].token # Null /\ row[job[p].token].rotatedTo = Null
        /\ s \in Token
    BY <1>1 DEF RejectUnusable, Presented, Stored
  <2> QED
    BY <1>1, <2>1 DEF WindowInv, LinksKnown
<1> QED
  BY <1>1, WindowInvariance, PTL DEF ReplayMissedOnlyIfOvertaken

(* "User deactivation immediately revokes existing sessions and refresh    *)
(* tokens", and a password reset as well, whatever requests overlap: no    *)
(* token of the user is left that could be exchanged but one that was      *)
(* inserted between the snapshot of the UPDATE and its commit.             *)
THEOREM UserEndsButLate == WindowSpec => UserRevokedButLate
<1>1. ASSUME IndInv, ChainInv, FoundInv, WindowInv
      PROVE  \A p \in Request :
               job[p].op \in {"setUserStatus", "resetPassword"}
                 /\ CommitRevocation(p) =>
                 \A t \in Stored \ late[p] :
                   row[t].user = job[p].user => row'[t].revokedAt # Null
  <2> SUFFICES ASSUME NEW p \in Request, CommitRevocation(p),
                      job[p].op \in {"setUserStatus", "resetPassword"},
                      NEW t \in Stored \ late[p],
                      row[t].user = job[p].user
               PROVE  row'[t].revokedAt # Null
    OBVIOUS
  <2>1. job[p].phase = "update" /\ t \in Token
    BY <1>1 DEF CommitRevocation, Stored
  <2>2. job[p].copy[t].family # Null \/ row[t].revokedAt # Null
    BY <1>1, <2>1 DEF WindowInv, WindowJob, Spotted
  <2> QED
    BY <1>1, <2>1, <2>2, FoundRevoked, RevocationEffect
<1> QED
  BY <1>1, WindowInvariance, PTL DEF UserRevokedButLate

-----------------------------------------------------------------------------
(* Waiting for row locks, of which no wait has a timeout.                  *)

Running(p) == job[p].phase # "idle"

(* No lock outlives the transaction that took it.                          *)
LocksOfRunning ==
  \A t \in Token : owner[t] # Null => Running(owner[t])

(* As long as requests run, one of them does not wait for a lock, or all   *)
(* wait in a cycle, which PostgreSQL detects and breaks.                   *)
StandstillIsDeadlock ==
  \A p \in Request : Running(p) =>
    InLockCycle(p) \/ \E q \in Request : Running(q) /\ Awaited(q) = {}

(* A step of a request ends it, or leaves it running with its locks and at *)
(* most one more.                                                          *)
LEMMA StepGoesOn ==
  ASSUME TypeOK, NEW p \in Request, Step(p)
  PROVE  \/ Finish(p)
         \/ /\ job'[p].phase # "idle"
            /\ \E j : Become(p, j)
            /\ \A t \in Token : owner'[t] \in {owner[t], p}
<1> USE JobType
<1>0. /\ job \in [Request -> Job] /\ job[p] \in Job
      /\ \A j : Become(p, j) => job'[p] = j
      /\ \A t : Lock(t, p) => \A x \in Token : owner'[x] \in {owner[x], p}
      /\ UNCHANGED owner => \A x \in Token : owner'[x] \in {owner[x], p}
  BY DEF Become, Lock, TypeOK
<1>1. CASE RejectUnknown(p) \/ RejectUnusable(p) \/ Resolve(p)
             \/ CommitRevocation(p)
             \/ \E t \in Token : InsertToken(p, t) \/ CommitRotation(p, t)
  BY <1>1 DEF RejectUnknown, RejectUnusable, Resolve, CommitRevocation,
              InsertToken, CommitRotation
<1>2. ASSUME NEW t, NEW ph \in Phase \ {"idle"}, Advance(p, ph),
             Lock(t, p) \/ UNCHANGED owner
      PROVE  /\ job'[p].phase # "idle"
             /\ \E j : Become(p, j)
             /\ \A x \in Token : owner'[x] \in {owner[x], p}
  <2>1. Become(p, [job[p] EXCEPT !.phase = ph])
    BY <1>2 DEF Advance
  <2>2. job'[p].phase = ph
    BY <1>0, <2>1 DEF Job
  <2> QED
    BY <1>0, <1>2, <2>1, <2>2
<1>3. CASE DetectReplay(p)
  <2>1. "find" \in Phase \ {"idle"}
    BY DEF Phase
  <2> QED
    BY <1>2, <1>3, <2>1 DEF DetectReplay
<1>4. CASE AcceptForRotation(p)
  <2>1. /\ Lock(job[p].token, p)
        /\ \/ Advance(p, "write")
           \/ Advance(p, "client")
    BY <1>4 DEF AcceptForRotation
  <2>2. {"write", "client"} \subseteq Phase \ {"idle"}
    BY DEF Phase
  <2> QED
    BY <1>2, <2>1, <2>2
<1>5. CASE CheckClient(p) \/ CheckUser(p)
  <2>1. \/ Finish(p)
        \/ (Advance(p, "user") \/ Advance(p, "write")) /\ UNCHANGED owner
    BY <1>5 DEF CheckClient, CheckUser
  <2>2. {"user", "write"} \subseteq Phase \ {"idle"}
    BY DEF Phase
  <2> QED
    BY <1>2, <2>1, <2>2
<1>6. CASE AcceptForRevocation(p)
  <2>1. Become(p, [job[p] EXCEPT !.phase = "find", !.now = clock])
    BY <1>6 DEF AcceptForRevocation
  <2>2. job'[p].phase = "find"
    BY <1>0, <2>1 DEF Job
  <2> QED
    BY <1>0, <1>6, <2>1, <2>2 DEF AcceptForRevocation
<1>7. CASE FindFamily(p)
  <2> DEFINE found == [t \in Token |->
                IF t \in Family(row[job[p].token].family)
                  THEN Filled(row[t], job[p].now, WhyFamily(job[p].op))
                  ELSE NoRow]
  <2>1. Become(p, [job[p] EXCEPT !.phase = "reload", !.copy = found])
    BY <1>7 DEF FindFamily
  <2> HIDE DEF found
  <2>2. job'[p].phase = "reload"
    BY <1>0, <2>1 DEF Job
  <2> QED
    BY <1>0, <1>7, <2>1, <2>2 DEF FindFamily
<1>8. CASE Reload(p)
  <2> DEFINE Diff(t) == IF job[p].copy[t].family = Null THEN {}
                          ELSE Differing(job[p].copy[t], row[t])
             diffs == [t \in Token |-> Diff(t)]
             rest  == {t \in Token : Diff(t) # {}}
  <2>1. Become(p, [job[p] EXCEPT !.phase = "update", !.changed = diffs,
                                 !.todo = rest])
    BY <1>8 DEF Reload
  <2> HIDE DEF diffs, rest
  <2>2. job'[p].phase = "update"
    BY <1>0, <2>1 DEF Job
  <2> QED
    BY <1>0, <1>8, <2>1, <2>2 DEF Reload
<1>9. CASE MatchRows(p)
  <2> DEFINE hit == {t \in Token : Matches(job[p], row[t], job[p].now)}
             copies == [t \in Token |->
                          IF t \in hit
                            THEN Filled(row[t], job[p].now, WhyBulk(job[p].op))
                            ELSE NoRow]
  <2>1. Become(p, [job[p] EXCEPT !.phase = "update", !.todo = hit,
                                 !.copy = copies])
    BY <1>9 DEF MatchRows
  <2> HIDE DEF hit, copies
  <2>2. job'[p].phase = "update"
    BY <1>0, <2>1 DEF Job
  <2> QED
    BY <1>0, <1>9, <2>1, <2>2 DEF MatchRows
<1>10. ASSUME NEW t \in Token, UpdateRow(p, t)
       PROVE  /\ job'[p].phase # "idle"
              /\ \E j : Become(p, j)
              /\ \A x \in Token : owner'[x] \in {owner[x], p}
  <2> DEFINE new == IF job[p].op \notin Bulk THEN job[p].changed[t]
                      ELSE IF Matches(job[p], row[t], job[p].now)
                             THEN {"revokedAt", "reason"}
                             ELSE {}
             cols == [job[p].changed EXCEPT ![t] = new]
             rest == job[p].todo \ {t}
  <2>1. Become(p, [job[p] EXCEPT !.todo = rest, !.changed = cols])
    BY <1>10 DEF UpdateRow
  <2> HIDE DEF cols, rest
  <2>2. job'[p].phase = job[p].phase /\ job[p].phase = "update"
    BY <1>0, <1>10, <2>1 DEF UpdateRow, Job
  <2> QED
    BY <1>0, <1>10, <2>1, <2>2 DEF UpdateRow
<1> QED
  BY <1>1, <1>3, <1>4, <1>5, <1>6, <1>7, <1>8, <1>9, <1>10 DEF Step

LEMMA LocksAfterEnd ==
  ASSUME TypeOK, LocksOfRunning, NEW p \in Request, Finish(p)
  PROVE  LocksOfRunning'
<1>1. \A q \in Request \ {p} : job'[q] = job[q]
  BY BecomeOthers DEF Finish
<1>2. \A t \in Token :
        /\ owner[t] \in Request \cup {Null}
        /\ owner'[t] = IF owner[t] = p THEN Null ELSE owner[t]
  BY DEF Finish, TypeOK
<1> QED
  BY <1>1, <1>2 DEF LocksOfRunning, Running

LEMMA LocksGoOn ==
  ASSUME TypeOK, LocksOfRunning, NEW p \in Request, NEW j, Become(p, j),
         job'[p].phase # "idle", \A t \in Token : owner'[t] \in {owner[t], p}
  PROVE  LocksOfRunning'
<1>1. \A q \in Request \ {p} : job'[q] = job[q]
  BY BecomeOthers
<1>2. \A t \in Token : owner[t] \in Request \cup {Null}
  BY DEF TypeOK
<1> QED
  BY <1>1, <1>2 DEF LocksOfRunning, Running

LEMMA LocksKeep == TypeOK /\ LocksOfRunning /\ [Next]_vars => LocksOfRunning'
<1> SUFFICES ASSUME TypeOK, LocksOfRunning, [Next]_vars PROVE LocksOfRunning'
  OBVIOUS
<1>1. ASSUME NEW p \in Request, Arrive(p) PROVE LocksOfRunning'
  <2>1. job'[p].phase # "idle" /\ UNCHANGED owner /\ \E j : Become(p, j)
    <3>1. \A j : Become(p, j) => job'[p] = j
      BY DEF Become, TypeOK
    <3> QED
      BY <1>1, <3>1
      DEF Arrive, StartIssue, Present, StartFamilyRevocation, Deactivate,
          ResetPassword, Cleanup, Idle
  <2> QED
    BY <2>1, LocksGoOn
<1>2. ASSUME NEW p \in Request, Step(p) PROVE LocksOfRunning'
  BY <1>2, StepGoesOn, LocksAfterEnd, LocksGoOn
<1>3. ASSUME NEW p \in Request, Fail(p) PROVE LocksOfRunning'
  BY <1>3, LocksAfterEnd DEF Fail
<1>4. CASE UNCHANGED <<owner, job>>
  BY <1>4 DEF LocksOfRunning, Running
<1> QED
  BY <1>1, <1>2, <1>3, <1>4 DEF Next, SwitchUser, SwitchClient, Tick, vars

(* Requests never come to a standstill but by a deadlock that PostgreSQL   *)
(* breaks: whoever is waited for runs, and does not wait or waits in turn. *)
THEOREM NoOtherStandstill == Spec => []StandstillIsDeadlock
<1>1. TypeOK /\ LocksOfRunning => StandstillIsDeadlock
  <2> SUFFICES ASSUME TypeOK, LocksOfRunning, NEW p \in Request, Running(p),
                      \A q \in Request : Running(q) => Awaited(q) # {}
               PROVE  InLockCycle(p)
    BY DEF StandstillIsDeadlock
  <2> DEFINE S == {q \in Request : Running(q)}
  <2>1. ASSUME NEW q \in S PROVE Awaited(q) \cap S # {}
    <3>1. PICK r : r \in Awaited(q)
      OBVIOUS
    <3>2. PICK t \in Token : owner[t] = r /\ r # Null
      BY <3>1, JobType DEF Awaited
    <3>3. r \in Request /\ Running(r)
      BY <3>2 DEF LocksOfRunning, TypeOK
    <3> QED
      BY <3>1, <3>3
  <2>2. S \in SUBSET Request /\ p \in S
    OBVIOUS
  <2> QED
    BY <2>1, <2>2 DEF InLockCycle
<1>2. Init => LocksOfRunning
  BY DEF Init, LocksOfRunning
<1> QED
  BY <1>1, <1>2, LocksKeep, TypeInit, TypeStep, PTL DEF Spec

=============================================================================
