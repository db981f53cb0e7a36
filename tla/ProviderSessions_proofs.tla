----------------------- MODULE ProviderSessions_proofs -----------------------
(***************************************************************************)
(* Proofs about ProviderSessions, for any sets of sessions, codes, users   *)
(* and requests and any lifetimes.                                         *)
(***************************************************************************)
EXTENDS ProviderSessions, TLAPS

USE NullAssumption, LimitAssumption

-----------------------------------------------------------------------------
(* Type correctness.                                                       *)

LEMMA NoRowType == NoRow \in Row
BY DEF NoRow, Row

LEMMA IdleType == Idle \in Job /\ Idle.phase = "idle"
BY NoRowType DEF Idle, Job, Phase

LEMMA NewSessionType ==
  ASSUME NEW u \in User, NEW now \in Nat
  PROVE  NewSession(u, now) \in Row
BY DEF NewSession, Row

LEMMA RevokedType ==
  ASSUME NEW r \in Row, NEW now \in Nat, NEW why \in Reason
  PROVE  /\ Revoked(r, now, why) \in Row
         /\ Revoked(r, now, why).user = r.user
         /\ Revoked(r, now, why).revokedAt = now
BY DEF Revoked, Row

LEMMA WrittenType ==
  ASSUME NEW r \in Row, NEW e \in Row, NEW cols
  PROVE  /\ Written(r, e, cols) \in Row
         /\ Written(r, e, cols).user = r.user
         /\ Written(r, e, cols).revokedAt \in {r.revokedAt, e.revokedAt}
<1> DEFINE seen == IF "lastSeenAt" \in cols THEN e.lastSeenAt ELSE r.lastSeenAt
           at   == IF "revokedAt" \in cols THEN e.revokedAt ELSE r.revokedAt
           why  == IF "reason" \in cols THEN e.reason ELSE r.reason
<1>1. /\ seen \in Nat
      /\ at \in Nat \cup {Null}
      /\ at \in {r.revokedAt, e.revokedAt}
      /\ why \in Reason \cup {Null}
  BY DEF Row
<1>2. Written(r, e, cols) =
        [r EXCEPT !.lastSeenAt = seen, !.revokedAt = at, !.reason = why]
  BY DEF Written
<1> HIDE DEF seen, at, why
<1> QED
  BY <1>1, <1>2 DEF Row

LEMMA BulkReasonType ==
  ASSUME NEW r \in Row, NEW op
  PROVE  WhyBulk(op, r) \in Reason
<1>1. r.reason \in Reason \cup {Null}
  BY DEF Row
<1> QED
  BY <1>1 DEF WhyBulk, Reason

(* The part of TypeOK about the requests.                                  *)
JobsOK ==
  /\ job \in [Request -> Job]
  /\ \A p \in Request :
       /\ job[p].phase \in {"user", "reload", "update", "code"} =>
            job[p].session \in Session
       /\ job[p].phase \in {"signIn", "issue"} => job[p].user \in User

LEMMA JobType ==
  ASSUME TypeOK, NEW p \in Request
  PROVE  /\ job[p] \in Job
         /\ job[p].session \in Session \cup {Null}
         /\ job[p].user \in User \cup {Null}
         /\ job[p].now \in Nat
         /\ job[p].copy \in Row
<1>1. job[p] \in Job
  BY DEF TypeOK
<1> QED
  BY <1>1 DEF Job

LEMMA BecomeType ==
  ASSUME TypeOK, NEW p \in Request, NEW j \in Job, Become(p, j),
         j.phase \in {"user", "reload", "update", "code"} => j.session \in Session,
         j.phase \in {"signIn", "issue"} => j.user \in User
  PROVE  JobsOK'
BY DEF TypeOK, JobsOK, Become

LEMMA FinishType ==
  ASSUME TypeOK, NEW p \in Request, Finish(p)
  PROVE  JobsOK'
BY IdleType, BecomeType DEF Finish

(* TypeOK is preserved.                                                    *)
LEMMA TypeStep ==
  ASSUME TypeOK, [Next]_vars
  PROVE  TypeOK'
<1> USE IdleType
<1>1. CASE UNCHANGED vars
  BY <1>1 DEF vars, TypeOK
<1>2. ASSUME NEW u \in User, SwitchUser(u)  PROVE TypeOK'
  BY <1>2 DEF SwitchUser, TypeOK
<1>3. CASE Tick
  BY <1>3 DEF Tick, TypeOK
<1>4. ASSUME NEW p \in Request, Start(p)  PROVE TypeOK'
  <2> USE DEF Unchanged, Become
  <2>1. ASSUME NEW u \in User, Login(p, u)  PROVE TypeOK'
    BY <2>1 DEF Login, TypeOK, Job, Idle, Operation, Phase
  <2>2. ASSUME NEW u \in User, Deactivate(p, u)  PROVE TypeOK'
    BY <2>2 DEF Deactivate, TypeOK, Job, Idle, Operation, Bulk, Phase
  <2>3. ASSUME NEW u \in User, ResetPassword(p, u)  PROVE TypeOK'
    BY <2>3 DEF ResetPassword, TypeOK, Job, Idle, Operation, Bulk, Phase
  <2>4. ASSUME NEW op \in Operation, NEW s \in Stored \cup {Null}, Arrive(p, op, s)
        PROVE TypeOK'
    BY <2>4 DEF Arrive, TypeOK, Job, Idle, Operation, Phase, Stored
  <2>5. CASE Cleanup(p)
    BY <2>5 DEF Cleanup, TypeOK, Job, Idle, Operation, Bulk, Phase
  <2>6. QED BY <1>4, <2>1, <2>2, <2>3, <2>4, <2>5 DEF Start
<1>5. ASSUME NEW p \in Request, Step(p) \/ Fail(p)  PROVE TypeOK'
  <2> USE DEF Unchanged
  <2>0. job[p] \in Job
    BY DEF TypeOK
  <2>1. CASE SignIn(p)
    BY <2>0, <2>1 DEF SignIn, Become, TypeOK, Job, Phase
  <2>2. CASE SendToLogin(p) \/ NothingToRevoke(p) \/ Fail(p)
    <3>1. Finish(p) /\ Unchanged
      BY <2>2 DEF SendToLogin, NothingToRevoke, Fail
    <3>2. JobsOK'
      BY <3>1, FinishType
    <3>3. QED BY <3>1, <3>2 DEF TypeOK, JobsOK
  <2>3. CASE ResolveSession(p)
    BY <2>0, <2>3 DEF ResolveSession, Become, TypeOK, Job, Phase
  <2>4. CASE CheckUser(p)
    <3>1. [job[p].copy EXCEPT !.lastSeenAt = job[p].now] \in Row
      BY <2>0 DEF Job, Row
    <3> DEFINE copy == [job[p].copy EXCEPT !.lastSeenAt = job[p].now]
               j    == [job[p] EXCEPT !.phase = "reload", !.copy = copy]
    <3>2. CASE job[p].copy.user \in userActive
      <4>1. Become(p, j)
        BY <2>0, <2>4, <3>2 DEF CheckUser, Job
      <4>2. j \in Job /\ j.phase = "reload" /\ j.session = job[p].session
        BY <2>0, <3>1 DEF Job, Phase
      <4>3. j.session \in Session
        BY <2>4, <4>2 DEF CheckUser, TypeOK
      <4> HIDE DEF j
      <4>4. JobsOK'
        BY <4>1, <4>2, <4>3, BecomeType
      <4>5. QED BY <2>4, <4>4 DEF CheckUser, TypeOK, JobsOK
    <3>3. CASE job[p].copy.user \notin userActive
      <4>1. Finish(p)
        BY <2>4, <3>3 DEF CheckUser
      <4>2. JobsOK'
        BY <4>1, FinishType
      <4>3. QED BY <2>4, <4>2 DEF CheckUser, TypeOK, JobsOK
    <3>4. QED BY <3>2, <3>3
  <2>5. CASE FindToRevoke(p)
    <3>1. "user_logout" \in Reason
      BY DEF Reason
    <3>2. Revoked(row[job[p].session], clock, "user_logout") \in Row
      BY <2>0, <2>5, <3>1, RevokedType DEF FindToRevoke, TypeOK, Job
    <3>3. QED BY <2>0, <2>5, <3>2 DEF FindToRevoke, Become, TypeOK, Job, Phase
  <2>6. CASE Reload(p)
    BY <2>0, <2>6 DEF Reload, Become, TypeOK, Job, Phase
  <2>7. CASE Update(p)
    <3>1. row' \in [Session -> Row]
      BY <2>7, JobType, WrittenType DEF Update, TypeOK
    <3>2. JobsOK'
      <4>1. CASE job[p].op = "authorize"
        BY <2>0, <2>7, <4>1 DEF Update, Advance, Become, TypeOK, JobsOK, Job, Phase
      <4>2. CASE job[p].op # "authorize"
        BY <2>7, <4>2, FinishType DEF Update
      <4>3. QED BY <4>1, <4>2
    <3>3. QED BY <2>7, <3>1, <3>2 DEF Update, TypeOK, JobsOK
  <2>8. CASE MatchRows(p)
    BY <2>0, <2>8 DEF MatchRows, Become, TypeOK, Job, Phase
  <2>9. CASE CommitBulk(p)
    <3>1. row' \in [Session -> Row]
      BY <2>9, JobType, BulkReasonType, RevokedType DEF CommitBulk, TypeOK
    <3>2. JobsOK'
      BY <2>9, FinishType DEF CommitBulk
    <3>3. QED BY <2>9, <3>1, <3>2 DEF CommitBulk, TypeOK, JobsOK
  <2>10. ASSUME NEW s \in Session, IssueSession(p, s)  PROVE TypeOK'
    <3>1. row' \in [Session -> Row]
      BY <2>10, JobType, NewSessionType DEF IssueSession, TypeOK
    <3>2. JobsOK'
      BY <2>10, FinishType DEF IssueSession
    <3>3. QED BY <2>10, <3>1, <3>2 DEF IssueSession, TypeOK, JobsOK
  <2>11. ASSUME NEW c \in Code, IssueCode(p, c)  PROVE TypeOK'
    <3>1. code' \in [Code -> Session \cup {Null}]
      BY <2>11, JobType DEF IssueCode, TypeOK
    <3>2. JobsOK'
      BY <2>11, FinishType DEF IssueCode
    <3>3. QED BY <2>11, <3>1, <3>2 DEF IssueCode, TypeOK, JobsOK
  <2>12. QED
    BY <1>5, <2>1, <2>2, <2>3, <2>4, <2>5, <2>6, <2>7, <2>8, <2>9, <2>10, <2>11
       DEF Step
<1>6. QED
  BY <1>1, <1>2, <1>3, <1>4, <1>5 DEF Next

(* TypeCorrect: every variable keeps its type.                             *)
THEOREM TypeCorrect == Spec => []TypeOK
<1>1. Init => TypeOK
  BY NoRowType, IdleType DEF Init, TypeOK, Idle
<1>2. QED
  BY <1>1, TypeStep, PTL DEF Spec

-----------------------------------------------------------------------------
(* The inductive invariant.                                                *)

(* What IndInv says of one request.                                        *)
Fits(j, r) ==
  /\ j.phase \in {"user", "code"} => j.op = "authorize"
  /\ j.phase \in {"reload", "update"} => j.op \in {"authorize", "logout"}
  /\ j.phase \in {"signIn", "issue"} <=> j.op = "login"
  /\ j.session # Null => j.session \in Session /\ r[j.session].user # Null
  /\ j.phase \in {"user", "reload", "update", "code"} =>
       j.copy.user = r[j.session].user
  /\ j.op = "logout" /\ j.phase \in {"reload", "update"} =>
       j.copy.revokedAt # Null

LEMMA FitsAll ==
  (PhaseOfOperation /\ EntityOfSession /\ LogoutRevokes)
    <=> \A p \in Request : Fits(job[p], row)
BY DEF PhaseOfOperation, EntityOfSession, LogoutRevokes, Fits, Stored

LEMMA FitsAllPrime ==
  (PhaseOfOperation /\ EntityOfSession /\ LogoutRevokes)'
    <=> \A p \in Request : Fits(job'[p], row')
BY DEF PhaseOfOperation, EntityOfSession, LogoutRevokes, Fits, Stored

LEMMA IdleFits == ASSUME NEW r PROVE Fits(Idle, r)
BY NullAssumption DEF Idle, Fits, Operation

(* A step that replaces one request by one that fits, and keeps the users  *)
(* of the sessions that are stored.                                        *)
LEMMA Replace ==
  ASSUME IndInv, TypeOK', NEW p \in Request, NEW j, job' = [job EXCEPT ![p] = j],
         \A s \in Stored : row'[s].user = row[s].user,
         \A s \in Session : row'[s].revokedAt # Null => row'[s].user # Null,
         Fits(j, row')
  PROVE  IndInv'
<1>1. ASSUME NEW q \in Request  PROVE Fits(job'[q], row')
  <2>1. CASE q = p
    BY <2>1 DEF IndInv, TypeOK
  <2>2. CASE q # p
    <3>1. job'[q] = job[q]
      BY <2>2 DEF IndInv, TypeOK
    <3>2. Fits(job[q], row)
      BY FitsAll DEF IndInv
    <3>3. job[q].phase \in {"user", "reload", "update", "code"} =>
            job[q].session \in Session
      BY DEF IndInv, TypeOK
    <3>4. job[q].session # Null => row'[job[q].session].user = row[job[q].session].user
      BY <3>2 DEF Fits, Stored
    <3>5. QED BY <3>1, <3>2, <3>3, <3>4, NullAssumption DEF Fits
  <2>3. QED BY <2>1, <2>2
<1>2. EndedStored'
  BY DEF EndedStored, Ended, Stored
<1>3. QED BY <1>1, <1>2, FitsAllPrime DEF IndInv

(* The same for a step that leaves the sessions alone.                     *)
LEMMA ReplaceOnly ==
  ASSUME IndInv, TypeOK', NEW p \in Request, NEW j, job' = [job EXCEPT ![p] = j],
         UNCHANGED row, Fits(j, row)
  PROVE  IndInv'
<1>1. \A s \in Session : row'[s].revokedAt # Null => row'[s].user # Null
  BY DEF IndInv, EndedStored, Ended, Stored
<1>2. QED BY <1>1, Replace DEF Stored

LEMMA InvStep ==
  ASSUME IndInv, [Next]_vars
  PROVE  IndInv'
<1>0. TypeOK'
  BY TypeStep DEF IndInv
<1>1. CASE UNCHANGED <<row, job>>
  <2>1. EndedStored'
    BY <1>1 DEF IndInv, EndedStored, Ended, Stored
  <2>2. QED BY <1>0, <1>1, <2>1, FitsAll, FitsAllPrime DEF IndInv
<1>2. ASSUME NEW p \in Request, Start(p)  PROVE IndInv'
  <2> USE <1>0 DEF Unchanged, Become
  <2>1. ASSUME NEW u \in User, Login(p, u)  PROVE IndInv'
    <3> DEFINE j == [Idle EXCEPT !.phase = "signIn", !.op = "login", !.user = u]
    <3>1. Fits(j, row)
      BY NullAssumption DEF Fits, Idle
    <3>2. QED BY <2>1, <3>1, ReplaceOnly DEF Login
  <2>2. ASSUME NEW u \in User, NEW op \in Bulk, NEW j,
               j = [Idle EXCEPT !.phase = "statement", !.op = op,
                                !.user = u, !.now = clock]
        PROVE  Fits(j, row)
    BY <2>2, NullAssumption DEF Fits, Idle, Bulk
  <2>3. ASSUME NEW u \in User, Deactivate(p, u)  PROVE IndInv'
    BY <2>3, <2>2, ReplaceOnly DEF Deactivate, Bulk
  <2>4. ASSUME NEW u \in User, ResetPassword(p, u)  PROVE IndInv'
    BY <2>4, <2>2, ReplaceOnly DEF ResetPassword, Bulk
  <2>5. ASSUME NEW op \in Operation, NEW s \in Stored \cup {Null}, Arrive(p, op, s)
        PROVE  IndInv'
    <3> DEFINE j == [Idle EXCEPT !.phase = "resolve", !.op = op, !.session = s,
                                !.now = clock]
    <3>1. op \in {"authorize", "logout"}
      BY <2>5 DEF Arrive
    <3>2. Fits(j, row)
      BY <3>1, NullAssumption DEF Fits, Idle, Stored
    <3>3. QED BY <2>5, <3>2, ReplaceOnly DEF Arrive
  <2>6. CASE Cleanup(p)
    <3> DEFINE j == [Idle EXCEPT !.phase = "statement", !.now = clock,
                                !.op = "cleanupExpiredState"]
    <3>1. Fits(j, row)
      BY NullAssumption DEF Fits, Idle
    <3>2. QED BY <2>6, <3>1, ReplaceOnly DEF Cleanup
  <2>7. QED BY <1>2, <2>1, <2>3, <2>4, <2>5, <2>6 DEF Start
<1>3. ASSUME NEW p \in Request, Step(p) \/ Fail(p)  PROVE IndInv'
  <2> USE <1>0 DEF Unchanged, Become
  <2>0. /\ job[p] \in Job
        /\ Fits(job[p], row)
        /\ job[p].phase \in {"user", "reload", "update", "code"} =>
             job[p].session \in Session
        /\ row \in [Session -> Row]
    BY FitsAll DEF IndInv, TypeOK
  <2>1. CASE SignIn(p)
    <3> DEFINE j == [job[p] EXCEPT !.phase = "issue", !.now = clock]
    <3>1. Fits(j, row)
      BY <2>0, <2>1 DEF SignIn, Fits, Job
    <3>2. QED BY <2>1, <3>1, ReplaceOnly DEF SignIn
  <2>2. CASE Finish(p) /\ UNCHANGED row
    BY <2>2, IdleFits, ReplaceOnly DEF Finish
  <2>3. CASE ResolveSession(p)
    <3> DEFINE j == [job[p] EXCEPT !.phase = "user", !.copy = row[job[p].session]]
    <3>1. Fits(j, row)
      BY <2>0, <2>3 DEF ResolveSession, Fits, Job
    <3>2. QED BY <2>3, <3>1, ReplaceOnly DEF ResolveSession
  <2>4. CASE CheckUser(p)
    <3> DEFINE copy == [job[p].copy EXCEPT !.lastSeenAt = job[p].now]
               j    == [job[p] EXCEPT !.phase = "reload", !.copy = copy]
    <3>1. CASE job[p].copy.user \in userActive
      <4>1. copy.user = job[p].copy.user
        BY <2>0 DEF Job, Row
      <4>2. job' = [job EXCEPT ![p] = j]
        BY <2>0, <2>4, <3>1 DEF CheckUser, Job
      <4> HIDE DEF copy
      <4>3. Fits(j, row)
        BY <2>0, <2>4, <4>1 DEF CheckUser, Fits, Job
      <4> HIDE DEF j
      <4>4. QED BY <2>4, <4>2, <4>3, ReplaceOnly DEF CheckUser
    <3>2. CASE job[p].copy.user \notin userActive
      BY <2>4, <3>2, <2>2 DEF CheckUser
    <3>3. QED BY <3>1, <3>2
  <2>5. CASE FindToRevoke(p)
    <3> DEFINE r == row[job[p].session]
               copy == Revoked(r, clock, "user_logout")
               j == [job[p] EXCEPT !.phase = "reload", !.copy = copy]
    <3>1. clock \in Nat /\ "user_logout" \in Reason /\ r \in Row
      BY <2>0, <2>5 DEF FindToRevoke, IndInv, TypeOK, Reason, Fits
    <3>2. copy.user = r.user /\ copy.revokedAt # Null
      BY <3>1, RevokedType, NullAssumption
    <3>3. job' = [job EXCEPT ![p] = j]
      BY <2>5 DEF FindToRevoke
    <3> HIDE DEF copy
    <3>4. Fits(j, row)
      BY <2>0, <2>5, <3>2 DEF FindToRevoke, Fits, Job
    <3> HIDE DEF j
    <3>5. QED BY <2>5, <3>3, <3>4, ReplaceOnly DEF FindToRevoke
  <2>6. CASE Reload(p)
    <3> DEFINE diff == {c \in Column : job[p].copy[c] # row[job[p].session][c]}
               j == [job[p] EXCEPT !.phase = "update", !.changed = diff]
    <3>1. Fits(j, row)
      BY <2>0, <2>6 DEF Reload, Fits, Job
    <3>2. QED BY <2>6, <3>1, ReplaceOnly DEF Reload
  <2>7. CASE Update(p)
    <3> DEFINE s == job[p].session
               w == Written(row[s], job[p].copy, job[p].changed)
    <3>1. /\ w.user = row[s].user
          /\ row' = [row EXCEPT ![s] = w]
          /\ s \in Session /\ row[s].user # Null
      BY <2>0, <2>7, JobType, WrittenType, NullAssumption DEF Update, IndInv, Fits
    <3> HIDE DEF w
    <3>2. \A x \in Session : row'[x].user = row[x].user
      BY <2>0, <3>1
    <3>3. \A x \in Session : row'[x].revokedAt # Null => row'[x].user # Null
      BY <2>0, <3>1, <3>2 DEF IndInv, EndedStored, Ended, Stored
    <3>4. CASE job[p].op = "authorize"
      <4> DEFINE j == [job[p] EXCEPT !.phase = "code"]
      <4>1. Fits(j, row')
        BY <2>0, <2>7, <3>1, <3>2, <3>4 DEF Update, Fits, Job
      <4>2. job' = [job EXCEPT ![p] = j]
        BY <2>7, <3>4 DEF Update, Advance
      <4> HIDE DEF j
      <4>3. QED BY <3>2, <3>3, <4>1, <4>2, Replace DEF Stored
    <3>5. CASE job[p].op # "authorize"
      <4>1. job' = [job EXCEPT ![p] = Idle]
        BY <2>7, <3>5 DEF Update, Finish
      <4>2. QED BY <3>2, <3>3, <4>1, IdleFits, Replace DEF Stored
    <3>6. QED BY <3>4, <3>5
  <2>8. CASE MatchRows(p)
    <3> DEFINE hit == {s \in Session : Matches(job[p], row[s])}
               j == [job[p] EXCEPT !.phase = "commit", !.hit = hit]
    <3>1. Fits(j, row)
      BY <2>0, <2>8 DEF MatchRows, Fits, Job
    <3>2. QED BY <2>8, <3>1, ReplaceOnly DEF MatchRows
  <2>9. CASE CommitBulk(p)
    <3>1. ASSUME NEW x \in Session
          PROVE  /\ row'[x].user = row[x].user
                 /\ row'[x].revokedAt # Null => row'[x].user # Null
      <4>1. CASE x \in job[p].hit /\ Matches(job[p], row[x])
        <5>1. row'[x] = Revoked(row[x], job[p].now, WhyBulk(job[p].op, row[x]))
          BY <2>9, <4>1 DEF CommitBulk
        <5>2. row'[x].user = row[x].user
          BY <5>1, <2>0, JobType, BulkReasonType, RevokedType DEF IndInv
        <5>3. QED BY <4>1, <5>2 DEF Matches
      <4>2. CASE ~(x \in job[p].hit /\ Matches(job[p], row[x]))
        BY <2>9, <4>2 DEF CommitBulk, IndInv, EndedStored, Ended, Stored
      <4>3. QED BY <4>1, <4>2
    <3>2. job' = [job EXCEPT ![p] = Idle]
      BY <2>9 DEF CommitBulk, Finish
    <3>3. QED BY <3>1, <3>2, IdleFits, Replace DEF Stored
  <2>10. ASSUME NEW s \in Session, IssueSession(p, s)  PROVE IndInv'
    <3>1. row' = [row EXCEPT ![s] = NewSession(job[p].user, job[p].now)]
      BY <2>10 DEF IssueSession
    <3>2. NewSession(job[p].user, job[p].now).revokedAt = Null
      BY DEF NewSession
    <3>3. \A x \in Stored : row'[x].user = row[x].user
      BY <2>0, <2>10, <3>1 DEF IssueSession, Stored
    <3>4. \A x \in Session : row'[x].revokedAt # Null => row'[x].user # Null
      BY <2>0, <3>1, <3>2 DEF IndInv, EndedStored, Ended, Stored
    <3>5. job' = [job EXCEPT ![p] = Idle]
      BY <2>10 DEF IssueSession, Finish
    <3>6. QED BY <3>3, <3>4, <3>5, IdleFits, Replace
  <2>11. ASSUME NEW c \in Code, IssueCode(p, c)  PROVE IndInv'
    BY <2>11, <2>2 DEF IssueCode
  <2>12. QED
    BY <1>3, <2>1, <2>2, <2>3, <2>4, <2>5, <2>6, <2>7, <2>8, <2>9, <2>10, <2>11
       DEF Step, SendToLogin, NothingToRevoke, Fail
<1>4. QED
  BY <1>1, <1>2, <1>3 DEF Next, SwitchUser, Tick, vars

(* Invariance: the strengthening holds in every reachable state.           *)
THEOREM Invariance == Spec => []IndInv
<1>1. Init => IndInv
  <2>1. Init => TypeOK
    BY NoRowType, IdleType DEF Init, TypeOK, Idle
  <2>2. Init => EndedStored
    BY DEF Init, EndedStored, Ended, NoRow
  <2>3. Init => \A p \in Request : Fits(job[p], row)
    BY IdleFits DEF Init
  <2>4. QED BY <2>1, <2>2, <2>3, FitsAll DEF IndInv
<1>2. QED
  BY <1>1, InvStep, PTL DEF Spec

-----------------------------------------------------------------------------
(* A session revoked at rest stays revoked.                                *)

(* What a step does to one request: it stays, begins, ends, or goes on     *)
(* with its operation; and what it has to pass on the way.                 *)
LEMMA Moves ==
  ASSUME IndInv, [Next]_vars, NEW p \in Request
  PROVE  \/ job'[p] = job[p]
         \/ job'[p] = Idle
         \/ job'[p].phase \in {"resolve", "statement", "commit", "issue"}
              /\ (job'[p].op = "login" =>
                    job[p].op = "login" /\ job'[p].user = job[p].user)
         \/ \E u \in User : Login(p, u)
         \/ ResolveSession(p)
         \/ CheckUser(p)
         \/ job'[p].op = "logout"
         \/ /\ job[p].phase \in {"reload", "update"}
            /\ job'[p].phase \in {"update", "code"}
            /\ job'[p].op = job[p].op
            /\ job'[p].session = job[p].session
            /\ job'[p].copy = job[p].copy
<1>0. job \in [Request -> Job]
  BY DEF IndInv, TypeOK
<1>1. CASE UNCHANGED job
  BY <1>1
<1>2. ASSUME NEW q \in Request, Start(q) \/ Step(q) \/ Fail(q), q # p
      PROVE  job'[p] = job[p]
  BY <1>0, <1>2
     DEF Step, Start, Login, Deactivate, ResetPassword, Arrive, Cleanup, SignIn,
         SendToLogin, ResolveSession, CheckUser, NothingToRevoke, FindToRevoke,
         Reload, Update, MatchRows, CommitBulk, IssueSession, IssueCode, Fail,
         Finish, Advance, Become
<1>3. ASSUME NEW u \in User, Deactivate(p, u) \/ ResetPassword(p, u)
      PROVE  job'[p].phase = "statement" /\ job'[p].op # "login"
  BY <1>0, <1>3 DEF Deactivate, ResetPassword, Become, Idle
<1>4. ASSUME NEW op \in Operation, NEW s, Arrive(p, op, s)
      PROVE  job'[p].phase = "resolve" /\ job'[p].op # "login"
  BY <1>0, <1>4 DEF Arrive, Become, Idle
<1>5. CASE Cleanup(p)
  BY <1>0, <1>5 DEF Cleanup, Become, Idle
<1>6. CASE SignIn(p)
  BY <1>0, <1>6 DEF SignIn, Become, Job, IndInv, PhaseOfOperation
<1>7. CASE FindToRevoke(p)
  BY <1>0, <1>7 DEF FindToRevoke, Become, Job
<1>8. CASE Reload(p)
  BY <1>0, <1>8 DEF Reload, Become, Job
<1>9. CASE Update(p)
  <2>1. CASE job[p].op = "authorize"
    BY <1>0, <1>9, <2>1 DEF Update, Advance, Become, Job
  <2>2. CASE job[p].op # "authorize"
    BY <1>0, <1>9, <2>2 DEF Update, Finish, Become
  <2>3. QED BY <2>1, <2>2
<1>10. CASE MatchRows(p)
  BY <1>0, <1>10 DEF MatchRows, Become, Job, IndInv, PhaseOfOperation
<1>11. CASE Finish(p)
  BY <1>0, <1>11 DEF Finish, Become
<1>12. ASSUME Start(p) \/ Step(p) \/ Fail(p)
       PROVE  \/ \E u \in User : Login(p, u) \/ Deactivate(p, u) \/ ResetPassword(p, u)
              \/ \E op \in Operation, s \in Stored \cup {Null} : Arrive(p, op, s)
              \/ Cleanup(p) \/ SignIn(p) \/ ResolveSession(p) \/ CheckUser(p)
              \/ FindToRevoke(p) \/ Reload(p) \/ Update(p) \/ MatchRows(p)
              \/ Finish(p)
  BY <1>12 DEF Start, Step, Fail, SendToLogin, NothingToRevoke, CommitBulk,
               IssueSession, IssueCode
<1>13. CASE \E q \in Request : Start(q) \/ Step(q) \/ Fail(q)
  BY <1>2, <1>3, <1>4, <1>5, <1>6, <1>7, <1>8, <1>9, <1>10, <1>11, <1>12, <1>13
<1>14. QED
  BY <1>1, <1>13 DEF Next, SwitchUser, Tick, vars

(* A step keeps a session at rest: the only saves that could take its      *)
(* revocation back are those of an authorize that holds it, and a new      *)
(* authorize finds it revoked.                                             *)
LEMMA AtRestStep ==
  ASSUME IndInv, [Next]_vars, NEW s \in Session, NEW C \in SUBSET Code,
         AtRest(s, C)
  PROVE  AtRest(s, C)'
<1>0. /\ row[s].revokedAt # Null
      /\ row[s].user # Null
      /\ \A p \in Request : ~Holds(p, s)
      /\ CodesOf(s) = C
      /\ row \in [Session -> Row]
      /\ job \in [Request -> Job]
  BY DEF AtRest, IndInv, EndedStored, Ended, Stored, TypeOK
<1>1. row'[s].revokedAt # Null
  <2>1. CASE UNCHANGED row
    BY <1>0, <2>1
  <2>2. ASSUME NEW p \in Request, Update(p)  PROVE row'[s].revokedAt # Null
    <3>1. CASE job[p].session # s
      BY <1>0, <2>2, <3>1 DEF Update
    <3>2. CASE job[p].session = s
      <4>1. job[p].op = "logout"
        BY <1>0, <2>2, <3>2 DEF Update, Holds, IndInv, PhaseOfOperation
      <4>2. job[p].copy.revokedAt # Null
        BY <2>2, <4>1 DEF Update, IndInv, LogoutRevokes
      <4>3. row'[s] = Written(row[s], job[p].copy, job[p].changed)
        BY <1>0, <2>2, <3>2 DEF Update
      <4>4. QED BY <1>0, <4>2, <4>3, JobType, WrittenType DEF IndInv
    <3>3. QED BY <3>1, <3>2
  <2>3. ASSUME NEW p \in Request, CommitBulk(p)  PROVE row'[s].revokedAt # Null
    BY <1>0, <2>3 DEF CommitBulk, Matches
  <2>4. ASSUME NEW p \in Request, NEW t \in Session, IssueSession(p, t)
        PROVE  row'[s].revokedAt # Null
    BY <1>0, <2>4 DEF IssueSession, Stored
  <2>5. QED
    BY <2>1, <2>2, <2>3, <2>4
       DEF Next, Step, Start, vars, Unchanged, Login, Deactivate, ResetPassword,
           Arrive, Cleanup, SignIn, SendToLogin, ResolveSession, CheckUser,
           NothingToRevoke, FindToRevoke, Reload, MatchRows, IssueCode, Fail,
           SwitchUser, Tick
<1>2. ASSUME NEW p \in Request  PROVE ~Holds(p, s)'
  <2>1. ~Holds(p, s) /\ job[p] \in Job
    BY <1>0
  <2>2. CASE job'[p] = job[p]
    BY <2>1, <2>2 DEF Holds
  <2>3. CASE job'[p] = Idle
    BY <2>3 DEF Holds, Idle
  <2>4. CASE ResolveSession(p)
    BY <1>0, <2>4 DEF ResolveSession, Usable, Holds, Become, Job
  <2>5. CASE CheckUser(p)
    <3>1. job[p].op = "authorize" /\ job[p].session # s
      BY <2>1, <2>5 DEF CheckUser, Holds, IndInv, PhaseOfOperation
    <3>2. job'[p] = Idle \/ job'[p].session = job[p].session
      <4>1. CASE job[p].copy.user \in userActive
        <5> DEFINE copy == [job[p].copy EXCEPT !.lastSeenAt = job[p].now]
        <5>1. job'[p] = [job[p] EXCEPT !.phase = "reload", !.copy = copy]
          BY <1>0, <2>5, <4>1, JobType DEF CheckUser, Become, Job, IndInv
        <5> HIDE DEF copy
        <5>2. QED BY <1>0, <5>1 DEF Job
      <4>2. CASE job[p].copy.user \notin userActive
        BY <1>0, <2>5, <4>2 DEF CheckUser, Finish, Become
      <4>3. QED BY <4>1, <4>2
    <3>3. CASE job'[p] = Idle
      BY <3>3, IdleType DEF Holds
    <3>4. CASE job'[p].session = job[p].session
      BY <3>1, <3>4 DEF Holds
    <3>5. QED BY <3>2, <3>3, <3>4
  <2>6. CASE \E u \in User : Login(p, u)
    BY <1>0, <2>6 DEF Login, Become, Idle, Holds
  <2>7. CASE job'[p].phase \in {"resolve", "statement", "commit", "issue"}
    BY <2>7 DEF Holds
  <2>8. CASE job'[p].op = "logout"
    BY <2>8 DEF Holds
  <2>9. CASE /\ job[p].phase \in {"reload", "update"}
             /\ job'[p].op = job[p].op
             /\ job'[p].session = job[p].session
    BY <2>1, <2>9 DEF Holds
  <2>10. QED
    BY <2>2, <2>3, <2>4, <2>5, <2>6, <2>7, <2>8, <2>9, Moves
<1>3. CodesOf(s)' = C
  <2>1. CASE UNCHANGED code
    BY <1>0, <2>1 DEF CodesOf
  <2>2. ASSUME NEW p \in Request, NEW c \in Code, IssueCode(p, c)
        PROVE  CodesOf(s)' = C
    <3>1. job[p].session # s /\ code[c] # s
      BY <1>0, <2>2, NullAssumption DEF IssueCode, Holds, IndInv, PhaseOfOperation
    <3>2. QED BY <1>0, <2>2, <3>1 DEF IssueCode, CodesOf, IndInv, TypeOK
  <2>3. QED
    BY <2>1, <2>2
       DEF Next, Step, Start, vars, Unchanged, Login, Deactivate, ResetPassword,
           Arrive, Cleanup, SignIn, SendToLogin, ResolveSession, CheckUser,
           NothingToRevoke, FindToRevoke, Reload, Update, MatchRows, CommitBulk,
           IssueSession, Fail, SwitchUser, Tick
<1>4. QED BY <1>1, <1>2, <1>3 DEF AtRest, Ended

(* LogoutIsFinal: whatever requests, saves and bulk updates follow, a      *)
(* session revoked at rest stays revoked and gives no further code.        *)
THEOREM LogoutIsFinal == Spec => EndedForGood
<1>1. IndInv /\ [Next]_vars =>
        [\A s \in Session, C \in SUBSET Code : AtRest(s, C) => AtRest(s, C)']_vars
  BY AtRestStep
<1>2. QED
  BY <1>1, Invariance, PTL DEF Spec, EndedForGood

-----------------------------------------------------------------------------
(* A user who is locked out stays locked out.                              *)

LEMMA LockedOutStep ==
  ASSUME IndInv, [Next]_vars, NEW u \in User, LockedOut(u), u \notin userActive'
  PROVE  /\ LockedOut(u)'
         /\ \A c \in Code : code'[c] # code[c] => row[code'[c]].user # u
<1>0. /\ u \notin userActive
      /\ \A s \in Session : row[s].user = u => row[s].revokedAt # Null
      /\ row \in [Session -> Row]
      /\ job \in [Request -> Job]
  BY DEF LockedOut, Ended, IndInv, TypeOK
<1>1. ASSUME NEW p \in Request
      PROVE  /\ job[p].op = "login" => job[p].user # u
             /\ job[p].phase \in {"reload", "update", "code"} /\ job[p].op = "authorize"
                  => job[p].copy.user # u /\ row[job[p].session].user # u
  BY DEF LockedOut, IndInv, EntityOfSession
<1>2. ASSUME NEW s \in Session, row'[s].user = u  PROVE row'[s].revokedAt # Null
  <2>1. CASE UNCHANGED row
    BY <1>0, <1>2, <2>1
  <2>2. ASSUME NEW p \in Request, Update(p)  PROVE row'[s].revokedAt # Null
    <3>1. CASE job[p].session # s
      BY <1>0, <1>2, <2>2, <3>1 DEF Update
    <3>2. CASE job[p].session = s
      <4>1. row'[s] = Written(row[s], job[p].copy, job[p].changed)
        BY <1>0, <2>2, <3>2 DEF Update
      <4>2. row[s].user = u /\ row[s].revokedAt # Null
        BY <1>0, <1>2, <4>1, JobType, WrittenType DEF IndInv
      <4>3. job[p].op = "logout"
        BY <1>1, <2>2, <3>2, <4>2 DEF Update, IndInv, PhaseOfOperation
      <4>4. job[p].copy.revokedAt # Null
        BY <2>2, <4>3 DEF Update, IndInv, LogoutRevokes
      <4>5. QED BY <1>0, <4>1, <4>2, <4>4, JobType, WrittenType DEF IndInv
    <3>3. QED BY <3>1, <3>2
  <2>3. ASSUME NEW p \in Request, CommitBulk(p)  PROVE row'[s].revokedAt # Null
    <3>1. CASE s \in job[p].hit /\ Matches(job[p], row[s])
      <4>1. row'[s] = Revoked(row[s], job[p].now, WhyBulk(job[p].op, row[s]))
        BY <2>3, <3>1 DEF CommitBulk
      <4>2. QED
        BY <1>0, <4>1, JobType, BulkReasonType, RevokedType, NullAssumption DEF IndInv
    <3>2. CASE ~(s \in job[p].hit /\ Matches(job[p], row[s]))
      BY <1>0, <1>2, <2>3, <3>2 DEF CommitBulk
    <3>3. QED BY <3>1, <3>2
  <2>4. ASSUME NEW p \in Request, NEW t \in Session, IssueSession(p, t)
        PROVE  row'[s].revokedAt # Null
    <3>1. job[p].user # u
      BY <1>1, <2>4 DEF IssueSession, IndInv, PhaseOfOperation
    <3>2. NewSession(job[p].user, job[p].now).user = job[p].user
      BY DEF NewSession
    <3>3. QED BY <1>0, <1>2, <2>4, <3>1, <3>2 DEF IssueSession
  <2>5. QED
    BY <2>1, <2>2, <2>3, <2>4
       DEF Next, Step, Start, vars, Unchanged, Login, Deactivate, ResetPassword,
           Arrive, Cleanup, SignIn, SendToLogin, ResolveSession, CheckUser,
           NothingToRevoke, FindToRevoke, Reload, MatchRows, IssueCode, Fail,
           SwitchUser, Tick
<1>3. ASSUME NEW p \in Request
      PROVE  /\ job'[p].op = "login" => job'[p].user # u
             /\ job'[p].phase \in {"reload", "update", "code"} /\ job'[p].op = "authorize"
                  => job'[p].copy.user # u
  <2>1. CASE job'[p] = job[p]
    BY <1>1, <2>1
  <2>2. CASE job'[p] = Idle
    BY <2>2, NullAssumption DEF Idle, Operation
  <2>3. CASE /\ job'[p].phase \in {"resolve", "statement", "commit", "issue"}
             /\ job'[p].op = "login" =>
                  job[p].op = "login" /\ job'[p].user = job[p].user
    BY <1>1, <2>3
  <2>4. ASSUME NEW v \in User, Login(p, v)
        PROVE  job'[p].user # u /\ job'[p].op = "login"
    BY <1>0, <2>4 DEF Login, Become, Idle
  <2>5. CASE ResolveSession(p)
    BY <1>0, <2>5 DEF ResolveSession, Become, Job
  <2>6. CASE CheckUser(p)
    <3>1. CASE job[p].copy.user \in userActive
      <4>1. job[p].copy.user # u /\ job[p].op = "authorize"
        BY <1>0, <2>6, <3>1 DEF CheckUser, IndInv, PhaseOfOperation
      <4>2. /\ job'[p].op = job[p].op
            /\ job'[p].copy.user = job[p].copy.user
        <5> DEFINE copy == [job[p].copy EXCEPT !.lastSeenAt = job[p].now]
        <5>1. copy.user = job[p].copy.user
          BY JobType DEF Row, IndInv
        <5>2. job'[p] = [job[p] EXCEPT !.phase = "reload", !.copy = copy]
          BY <1>0, <2>6, <3>1, JobType DEF CheckUser, Become, Job, IndInv
        <5> HIDE DEF copy
        <5>3. QED BY <1>0, <5>1, <5>2 DEF Job
      <4>3. QED BY <4>1, <4>2
    <3>2. CASE job[p].copy.user \notin userActive
      BY <1>0, <2>2, <2>6, <3>2 DEF CheckUser, Finish, Become
    <3>3. QED BY <3>1, <3>2
  <2>7. CASE job'[p].op = "logout"
    BY <2>7
  <2>8. CASE /\ job[p].phase \in {"reload", "update"}
             /\ job'[p].phase \in {"update", "code"}
             /\ job'[p].op = job[p].op
             /\ job'[p].session = job[p].session
             /\ job'[p].copy = job[p].copy
    BY <1>1, <2>8 DEF IndInv, PhaseOfOperation
  <2>9. QED
    BY <2>1, <2>2, <2>3, <2>4, <2>5, <2>6, <2>7, <2>8, Moves
<1>4. ASSUME NEW c \in Code, code'[c] # code[c]  PROVE row[code'[c]].user # u
  <2>1. ASSUME NEW p \in Request, NEW d \in Code, IssueCode(p, d)
        PROVE  row[code'[c]].user # u
    <3>1. d = c /\ code'[c] = job[p].session
      BY <1>4, <2>1 DEF IssueCode, IndInv, TypeOK
    <3>2. QED BY <1>1, <2>1, <3>1 DEF IssueCode, IndInv, PhaseOfOperation
  <2>2. QED
    BY <1>4, <2>1
       DEF Next, Step, Start, vars, Unchanged, Login, Deactivate, ResetPassword,
           Arrive, Cleanup, SignIn, SendToLogin, ResolveSession, CheckUser,
           NothingToRevoke, FindToRevoke, Reload, Update, MatchRows, CommitBulk,
           IssueSession, Fail, SwitchUser, Tick
<1>5. QED BY <1>2, <1>3, <1>4 DEF LockedOut, Ended

(* StaysLockedOut: until an administrator activates the user again, no     *)
(* request gives a locked-out user a live session or a code.               *)
THEOREM StaysLockedOut == Spec => LockedOutUntilActivated
<1>1. IndInv /\ [Next]_vars =>
        [\A u \in User :
           LockedOut(u) /\ u \notin userActive' =>
             /\ LockedOut(u)'
             /\ \A c \in Code : code'[c] # code[c] => row[code'[c]].user # u]_vars
  BY LockedOutStep
<1>2. QED
  BY <1>1, Invariance, PTL DEF Spec, LockedOutUntilActivated

=============================================================================
