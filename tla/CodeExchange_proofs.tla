------------------------ MODULE CodeExchange_proofs ------------------------
(***************************************************************************)
(* Proofs about CodeExchange, for any number of codes, families, users,    *)
(* clients and requests, and any lifetime of a code.                       *)
(***************************************************************************)
EXTENDS CodeExchange, TLAPS

USE NullAssumption, LimitAssumption

-----------------------------------------------------------------------------
(* Type correctness.                                                       *)

(* The value of a slot that does nothing is a request.                     *)
LEMMA IdleType == Idle \in Job
BY DEF Idle, Job, Phase

(* The fields of a request have their types.                               *)
LEMMA JobType ==
  ASSUME TypeOK, NEW p \in Request
  PROVE  /\ job[p] \in Job
         /\ job[p].phase \in Phase
         /\ job[p].code \in Code \cup {Null}
         /\ job[p].user \in User \cup {Null}
         /\ job[p].client \in Client \cup {Null}
         /\ job[p].now \in Nat
         /\ job[p].family \in Family \cup {Null}
         /\ job[p].todo \in SUBSET Code
         /\ job[p].hit \in SUBSET Code
<1>1. job[p] \in Job
  BY DEF TypeOK
<1> QED
  BY <1>1 DEF Job

(* Going to another phase keeps the type of a request.                     *)
LEMMA PhaseEdit ==
  ASSUME NEW j \in Job, NEW ph \in Phase
  PROVE  [j EXCEPT !.phase = ph] \in Job
BY DEF Job

(* So does taking note of the rows that a DELETE has matched.              *)
LEMMA MatchEdit ==
  ASSUME NEW j \in Job, NEW ph \in Phase, NEW todo \in SUBSET Code
  PROVE  LET k == [j EXCEPT !.phase = ph, !.todo = todo]
         IN k \in Job /\ k.phase = ph
BY DEF Job

(* And of the rows that it deletes.                                        *)
LEMMA DeleteEdit ==
  ASSUME NEW j \in Job, NEW todo \in SUBSET Code, NEW hit \in SUBSET Code
  PROVE  LET k == [j EXCEPT !.todo = todo, !.hit = hit]
         IN k \in Job /\ k.phase = j.phase
BY DEF Job

(* The fields of a row have their types.                                   *)
LEMMA RowType ==
  ASSUME TypeOK, NEW c \in Code
  PROVE  /\ row[c] \in Row
         /\ row[c].issuedAt \in Nat
         /\ row[c].consumedAt \in Nat \cup {Null}
         /\ row[c].state \in {"none", "stored", "deleted"}
         /\ ExpiresAt(row[c]) \in Nat
<1>1. row[c] \in Row
  BY DEF TypeOK
<1> QED
  BY <1>1 DEF Row, ExpiresAt

(* The part of TypeOK about the requests.                                  *)
JobsOK ==
  /\ job \in [Request -> Job]
  /\ \A p \in Request :
       /\ job[p].phase \in Holding => job[p].code \in Code
       /\ job[p].phase = "insert" =>
            job[p].user \in User /\ job[p].client \in Client

(* A step that changes one request keeps the types of all.                 *)
LEMMA BecomeType ==
  ASSUME TypeOK, NEW p \in Request, NEW j \in Job, Become(p, j),
         j.phase \in Holding => j.code \in Code,
         j.phase = "insert" => j.user \in User /\ j.client \in Client
  PROVE  JobsOK'
BY DEF TypeOK, JobsOK, Become

(* The end of a transaction keeps the types of locks and requests.         *)
LEMMA FinishType ==
  ASSUME TypeOK, NEW p \in Request, Finish(p)
  PROVE  /\ owner' \in [Code -> Request \cup {Null}]
         /\ JobsOK'
<1>1. JobsOK'
  BY IdleType, BecomeType DEF Finish, Idle, Holding
<1> QED
  BY <1>1 DEF TypeOK, Finish

(* So does a step to the next await of an exchange.                        *)
LEMMA AdvanceType ==
  ASSUME TypeOK, NEW p \in Request, NEW ph \in Phase, ph # "insert",
         Advance(p, ph), ph \in Holding => job[p].code \in Code
  PROVE  JobsOK'
<1>1. [job[p] EXCEPT !.phase = ph] \in Job
  BY JobType, PhaseEdit
<1>2. /\ [job[p] EXCEPT !.phase = ph].phase = ph
      /\ [job[p] EXCEPT !.phase = ph].code = job[p].code
  BY JobType DEF Job
<1> QED
  BY <1>1, <1>2, BecomeType DEF Advance

(* A row lock is given to a request.                                       *)
LEMMA LockType ==
  ASSUME TypeOK, NEW p \in Request, NEW c \in Code, Lock(c, p)
  PROVE  owner' \in [Code -> Request \cup {Null}]
BY DEF TypeOK, Lock

(* TypeOK holds at the start.                                              *)
LEMMA TypeInit == Init => TypeOK
<1>1. NoRow \in Row
  BY DEF NoRow, Row
<1>2. Idle.phase \notin Holding /\ Idle.phase # "insert"
  BY DEF Idle, Holding
<1> QED
  BY <1>1, <1>2, IdleType DEF Init, TypeOK

(* Every step of the system keeps the types.                               *)
LEMMA TypeStep ==
  ASSUME TypeOK, [Next]_vars
  PROVE  TypeOK'
<1>1. ASSUME NEW p \in Request, Start(p)  PROVE TypeOK'
  <2>1. ASSUME NEW u \in User, NEW c \in Client, Authorize(p, u, c)
        PROVE  TypeOK'
    <3> DEFINE j == [Idle EXCEPT !.phase = "insert", !.op = "authorize",
                                 !.user = u, !.client = c, !.now = clock]
    <3>1. j \in Job /\ j.phase = "insert" /\ j.user = u /\ j.client = c
      BY DEF Idle, Job, Phase, Operation, TypeOK
    <3>2. Become(p, j)
      BY <2>1 DEF Authorize
    <3> HIDE DEF j
    <3>3. JobsOK'
      BY <3>1, <3>2, BecomeType DEF Holding
    <3> QED BY <2>1, <3>3 DEF Authorize, TypeOK, JobsOK, Output, People
  <2>2. ASSUME NEW c \in Code \cup {Null}, NEW d \in Client \cup {Null},
               NEW fits \in [uri : BOOLEAN, verifier : BOOLEAN],
               Exchange(p, c, d, fits)
        PROVE  TypeOK'
    <3> DEFINE j == [Idle EXCEPT !.phase = "lock", !.code = c, !.client = d,
                                 !.op = "exchangeAuthorizationCode",
                                 !.fits = fits, !.now = clock]
    <3>1. j \in Job /\ j.phase = "lock"
      BY DEF Idle, Job, Phase, Operation, TypeOK
    <3>2. Become(p, j)
      BY <2>2 DEF Exchange
    <3> HIDE DEF j
    <3>3. JobsOK'
      BY <3>1, <3>2, BecomeType DEF Holding
    <3> QED BY <2>2, <3>3 DEF Exchange, TypeOK, JobsOK, Output, People
  <2>3. ASSUME Cleanup(p)  PROVE TypeOK'
    <3> DEFINE j == [Idle EXCEPT !.phase = "statement", !.now = clock,
                                 !.op = "cleanupExpiredState"]
    <3>1. j \in Job /\ j.phase = "statement"
      BY DEF Idle, Job, Phase, Operation, TypeOK
    <3>2. Become(p, j)
      BY <2>3 DEF Cleanup
    <3> HIDE DEF j
    <3>3. JobsOK'
      BY <3>1, <3>2, BecomeType DEF Holding
    <3> QED BY <2>3, <3>3 DEF Cleanup, TypeOK, JobsOK, Output, People
  <2> QED BY <1>1, <2>1, <2>2, <2>3 DEF Start
<1>2. ASSUME NEW p \in Request, Step(p)  PROVE TypeOK'
  <2>1. CASE RejectCode(p)
    BY <2>1, FinishType DEF RejectCode, TypeOK, JobsOK, Output, People
  <2>2. CASE AcceptCode(p)
    <3>1. job[p].code \in Code
      BY <2>2, JobType DEF AcceptCode
    <3>2. JobsOK'
      BY <2>2, <3>1, AdvanceType DEF AcceptCode, Phase
    <3>3. owner' \in [Code -> Request \cup {Null}]
      BY <2>2, <3>1, LockType DEF AcceptCode
    <3> QED BY <2>2, <3>2, <3>3 DEF AcceptCode, TypeOK, JobsOK, Output, People
  <2>3. CASE CheckClient(p)
    <3>1. job[p].code \in Code
      BY <2>3 DEF CheckClient, TypeOK, Holding
    <3>2. JobsOK' /\ owner' \in [Code -> Request \cup {Null}]
      BY <2>3, <3>1, AdvanceType, FinishType DEF CheckClient, Phase, TypeOK
    <3> QED BY <2>3, <3>2 DEF CheckClient, TypeOK, JobsOK, Output, People
  <2>4. CASE CheckUser(p)
    <3>1. job[p].code \in Code
      BY <2>4 DEF CheckUser, TypeOK, Holding
    <3>2. JobsOK' /\ owner' \in [Code -> Request \cup {Null}]
      BY <2>4, <3>1, AdvanceType, FinishType DEF CheckUser, Phase, TypeOK
    <3> QED BY <2>4, <3>2 DEF CheckUser, TypeOK, JobsOK, Output, People
  <2>5. CASE Consume(p)
    <3>1. job[p].code \in Code
      BY <2>5 DEF Consume, TypeOK, Holding
    <3>2. JobsOK'
      BY <2>5, <3>1, AdvanceType DEF Consume, Phase
    <3> QED BY <2>5, <3>2 DEF Consume, TypeOK, JobsOK, Output, People
  <2>6. CASE Audit(p)
    <3>1. job[p].code \in Code
      BY <2>6 DEF Audit, TypeOK, Holding
    <3>2. JobsOK'
      BY <2>6, <3>1, AdvanceType DEF Audit, Phase
    <3> QED BY <2>6, <3>2 DEF Audit, TypeOK, JobsOK, Output, People
  <2>7. CASE CommitExchange(p)
    <3> DEFINE c == job[p].code
    <3>1. c \in Code
      BY <2>7 DEF CommitExchange, TypeOK, Holding
    <3>2. [row[c] EXCEPT !.consumedAt = job[p].now] \in Row
      BY <3>1, JobType, RowType DEF Row
    <3>3. row' \in [Code -> Row]
      BY <2>7, <3>1, <3>2 DEF CommitExchange, TypeOK
    <3>4. granted' \in [Code -> Nat]
      BY <2>7, <3>1 DEF CommitExchange, TypeOK
    <3>5. delivered' \subseteq Family
      BY <2>7, JobType DEF CommitExchange, TypeOK
    <3>6. JobsOK' /\ owner' \in [Code -> Request \cup {Null}]
      BY <2>7, FinishType DEF CommitExchange
    <3> QED BY <2>7, <3>3, <3>4, <3>5, <3>6
            DEF CommitExchange, TypeOK, JobsOK, People
  <2>8. CASE MatchRows(p)
    <3> DEFINE todo == {c \in Code : Deletable(job[p], row[c])}
               j    == [job[p] EXCEPT !.phase = "delete", !.todo = todo]
    <3>1. "delete" \in Phase /\ todo \in SUBSET Code
      BY DEF Phase
    <3> HIDE DEF todo
    <3>2. j \in Job /\ j.phase = "delete"
      BY <3>1, JobType, MatchEdit
    <3>3. Become(p, j)
      BY <2>8 DEF MatchRows, todo
    <3> HIDE DEF j
    <3>4. JobsOK'
      BY <3>2, <3>3, BecomeType DEF Holding
    <3> QED BY <2>8, <3>4 DEF MatchRows, TypeOK, JobsOK, Output, People
  <2>9. CASE CommitDelete(p)
    <3>1. \A c \in Code : [row[c] EXCEPT !.state = "deleted"] \in Row
      BY RowType DEF Row
    <3>2. row' \in [Code -> Row]
      BY <2>9, <3>1, RowType DEF CommitDelete
    <3>3. JobsOK' /\ owner' \in [Code -> Request \cup {Null}]
      BY <2>9, FinishType DEF CommitDelete
    <3> QED BY <2>9, <3>2, <3>3 DEF CommitDelete, TypeOK, JobsOK, Output, People
  <2>10. ASSUME NEW c \in Code, InsertCode(p, c)  PROVE TypeOK'
    <3>1. [state |-> "stored", user |-> job[p].user, client |-> job[p].client,
           issuedAt |-> job[p].now, consumedAt |-> Null] \in Row
      BY JobType DEF Row
    <3>2. row' \in [Code -> Row]
      BY <2>10, <3>1 DEF InsertCode, TypeOK
    <3>3. JobsOK' /\ owner' \in [Code -> Request \cup {Null}]
      BY <2>10, FinishType DEF InsertCode
    <3> QED BY <2>10, <3>2, <3>3 DEF InsertCode, TypeOK, JobsOK, Output, People
  <2>11. ASSUME NEW c \in Code, DeleteRow(p, c)  PROVE TypeOK'
    <3> DEFINE todo == job[p].todo \ {c}
               hit  == IF Deletable(job[p], row[c]) THEN job[p].hit \cup {c}
                                                    ELSE job[p].hit
               j    == [job[p] EXCEPT !.todo = todo, !.hit = hit]
    <3>1. todo \in SUBSET Code /\ hit \in SUBSET Code
      BY JobType
    <3> HIDE DEF todo, hit
    <3>2. j \in Job /\ j.phase = job[p].phase
      BY <3>1, JobType, DeleteEdit
    <3>3. Become(p, j)
      BY <2>11, JobType DEF DeleteRow, todo, hit, Job
    <3> HIDE DEF j
    <3>4. JobsOK'
      BY <2>11, <3>2, <3>3, BecomeType DEF DeleteRow, Holding
    <3>5. owner' \in [Code -> Request \cup {Null}]
      BY <2>11, LockType DEF DeleteRow
    <3> QED BY <2>11, <3>4, <3>5 DEF DeleteRow, TypeOK, JobsOK, Output, People
  <2>12. ASSUME NEW f \in Family, IssueRefreshToken(p, f)  PROVE TypeOK'
    <3> DEFINE j == [job[p] EXCEPT !.phase = "audit", !.family = f]
    <3>1. job[p].code \in Code
      BY <2>12 DEF IssueRefreshToken, TypeOK, Holding
    <3>2. j \in Job /\ j.phase = "audit" /\ j.code = job[p].code
      <4>1. "audit" \in Phase
        BY DEF Phase
      <4>2. job[p] \in Job
        BY JobType
      <4> HIDE DEF j
      <4>3. j = [job[p] EXCEPT !.phase = "audit", !.family = f]
        BY DEF j
      <4> QED BY <4>1, <4>2, <4>3 DEF Job
    <3>3. Become(p, j)
      BY <2>12 DEF IssueRefreshToken
    <3> HIDE DEF j
    <3>4. JobsOK'
      BY <3>1, <3>2, <3>3, BecomeType
    <3>5. family' \in [Family -> Code \cup {Null}]
      BY <2>12, <3>1 DEF IssueRefreshToken, TypeOK
    <3> QED BY <2>12, <3>4, <3>5 DEF IssueRefreshToken, TypeOK, JobsOK, People
  <2> QED
    BY <1>2, <2>1, <2>2, <2>3, <2>4, <2>5, <2>6, <2>7, <2>8, <2>9, <2>10, <2>11,
       <2>12 DEF Step
<1>3. ASSUME NEW p \in Request, Fail(p)  PROVE TypeOK'
  BY <1>3, FinishType DEF Fail, TypeOK, JobsOK, Output, People
<1>4. ASSUME NEW u \in User, SwitchUser(u)  PROVE TypeOK'
  BY <1>4 DEF SwitchUser, TypeOK, Output
<1>5. ASSUME NEW c \in Client, SwitchClient(c)  PROVE TypeOK'
  BY <1>5 DEF SwitchClient, TypeOK, Output
<1>6. CASE Tick
  BY <1>6 DEF Tick, TypeOK, Output, People
<1>7. CASE UNCHANGED vars
  BY <1>7 DEF vars, TypeOK
<1> QED
  BY <1>1, <1>2, <1>3, <1>4, <1>5, <1>6, <1>7 DEF Next

(* TypeCorrect: every variable of CodeExchange keeps its type.             *)
THEOREM TypeCorrect == Spec => []TypeOK
BY TypeInit, TypeStep, PTL DEF Spec


-----------------------------------------------------------------------------
(* What a step does to the requests and the rows.                          *)

Moves(p) == Start(p) \/ Step(p) \/ Fail(p)

(* The next await of an exchange: nothing but the phase changes.           *)
LEMMA AdvanceFields ==
  ASSUME TypeOK, NEW p \in Request, NEW ph, Advance(p, ph)
  PROVE  /\ job'[p].phase = ph
         /\ job'[p].code = job[p].code
         /\ job'[p].now = job[p].now
         /\ job'[p].fits = job[p].fits
         /\ job'[p].family = job[p].family
         /\ job'[p].hit = job[p].hit
<1>1. job[p] \in Job /\ job'[p] = [job[p] EXCEPT !.phase = ph]
  BY DEF Advance, Become, TypeOK
<1> QED
  BY <1>1 DEF Job

(* A request that has just begun is at its first await.                    *)
LEMMA StartFields ==
  ASSUME TypeOK, NEW p \in Request, Start(p)
  PROVE  /\ job'[p].phase \in {"insert", "lock", "statement"}
         /\ job'[p].now = clock
         /\ job'[p].family = Null
         /\ job'[p].hit = {}
         /\ job'[p].code # Null => row[job'[p].code].state # "none"
<1>1. ASSUME NEW u \in User, NEW c \in Client, Authorize(p, u, c)
      PROVE  /\ job'[p].phase = "insert"
             /\ job'[p].now = clock
             /\ job'[p].family = Null
             /\ job'[p].hit = {}
             /\ job'[p].code = Null
  BY <1>1 DEF Authorize, Become, Idle, TypeOK
<1>2. ASSUME NEW c \in Code \cup {Null}, NEW d \in Client \cup {Null},
             NEW fits \in [uri : BOOLEAN, verifier : BOOLEAN],
             Exchange(p, c, d, fits)
      PROVE  /\ job'[p].phase = "lock"
             /\ job'[p].now = clock
             /\ job'[p].family = Null
             /\ job'[p].hit = {}
             /\ job'[p].code = c
             /\ c # Null => row[c].state # "none"
  BY <1>2 DEF Exchange, Become, Idle, TypeOK
<1>3. CASE Cleanup(p)
  BY <1>3 DEF Cleanup, Become, Idle, TypeOK
<1> QED
  BY <1>1, <1>2, <1>3 DEF Start

(* The possible outcomes of a step of p for its own request: it ends, it   *)
(* begins, or it goes on with the same code, time and input.               *)
LEMMA OwnMove ==
  ASSUME TypeOK, NEW p \in Request, Moves(p)
  PROVE  \/ job'[p] = Idle
         \/ /\ job'[p].phase \in {"insert", "lock", "statement"}
            /\ job'[p].now = clock
            /\ job'[p].family = Null
            /\ job'[p].hit = {}
            /\ job'[p].code # Null => row[job'[p].code].state # "none"
         \/ /\ job'[p].code = job[p].code
            /\ job'[p].now = job[p].now
            /\ job'[p].fits = job[p].fits
            /\ job[p].phase # "idle"
<1>1. CASE Fail(p)
  BY <1>1 DEF Fail, Finish, Become, TypeOK
<1>2. CASE Start(p)
  BY <1>2, StartFields
<1>3. CASE Step(p)
  <2>1. CASE RejectCode(p) \/ CommitExchange(p) \/ CommitDelete(p)
             \/ \E c \in Code : InsertCode(p, c)
    BY <2>1 DEF RejectCode, CommitExchange, CommitDelete, InsertCode, Finish,
                Become, TypeOK
  <2>2. CASE AcceptCode(p) \/ Consume(p) \/ Audit(p)
    BY <2>2, AdvanceFields DEF AcceptCode, Consume, Audit
  <2>3. CASE CheckClient(p) \/ CheckUser(p)
    BY <2>3, AdvanceFields DEF CheckClient, CheckUser, Finish, Become, TypeOK
  <2>4. CASE MatchRows(p)
    BY <2>4, JobType DEF MatchRows, Become, TypeOK, Job
  <2>5. ASSUME NEW c \in Code, DeleteRow(p, c)
        PROVE  /\ job'[p].code = job[p].code
               /\ job'[p].now = job[p].now
               /\ job'[p].fits = job[p].fits
               /\ job[p].phase # "idle"
    BY <2>5, JobType DEF DeleteRow, Become, TypeOK, Job
  <2>6. ASSUME NEW f \in Family, IssueRefreshToken(p, f)
        PROVE  /\ job'[p].code = job[p].code
               /\ job'[p].now = job[p].now
               /\ job'[p].fits = job[p].fits
               /\ job[p].phase # "idle"
    BY <2>6, JobType DEF IssueRefreshToken, Become, TypeOK, Job
  <2> QED
    BY <1>3, <2>1, <2>2, <2>3, <2>4, <2>5, <2>6 DEF Step
<1> QED
  BY <1>1, <1>2, <1>3 DEF Moves

(* A step of p does not touch the request of another.                      *)
LEMMA OthersJob ==
  ASSUME TypeOK, NEW p \in Request, NEW q \in Request, p # q, Moves(p)
  PROVE  job'[q] = job[q]
BY DEF Moves, Start, Step, Fail, Authorize, Exchange, Cleanup, RejectCode,
       AcceptCode, CheckClient, CheckUser, Consume, Audit, CommitExchange,
       MatchRows, CommitDelete, InsertCode, DeleteRow, IssueRefreshToken,
       Advance, Finish, Become, TypeOK

(* A row that another request has locked stays locked by it, and a stored  *)
(* one is not written.                                                     *)
LEMMA OthersRow ==
  ASSUME IndInv, NEW p \in Request, NEW q \in Request, p # q, Moves(p),
         NEW c \in Code, owner[c] = q
  PROVE  /\ owner'[c] = q
         /\ row[c].state # "none" => row'[c] = row[c]
<1>1. TypeOK
  BY DEF IndInv
<1>2. q # Null
  OBVIOUS
<1>3. owner'[c] = q
  BY <1>1, <1>2
     DEF Moves, Start, Step, Fail, Authorize, Exchange, Cleanup, RejectCode,
         AcceptCode, CheckClient, CheckUser, Consume, Audit, CommitExchange,
         MatchRows, CommitDelete, InsertCode, DeleteRow, IssueRefreshToken,
         Finish, Lock, Free, TypeOK
<1>4. ASSUME row[c].state # "none"  PROVE row'[c] = row[c]
  <2>1. ASSUME NEW d \in Code, InsertCode(p, d)  PROVE row'[c] = row[c]
    BY <1>1, <1>4, <2>1 DEF InsertCode, TypeOK
  <2>2. CASE CommitExchange(p)
    <3>1. owner[job[p].code] = p
      BY <2>2 DEF CommitExchange, IndInv, ExchangeHoldsCode, Holding
    <3> QED BY <1>1, <2>2, <3>1 DEF CommitExchange, TypeOK
  <2>3. CASE CommitDelete(p)
    <3>1. c \notin job[p].hit
      BY DEF IndInv, HitDeletable
    <3> QED BY <1>1, <2>3, <3>1 DEF CommitDelete, TypeOK
  <2> QED
    BY <2>1, <2>2, <2>3
       DEF Moves, Start, Step, Fail, Authorize, Exchange, Cleanup, RejectCode,
           AcceptCode, CheckClient, CheckUser, Consume, Audit, MatchRows,
           DeleteRow, IssueRefreshToken
<1> QED
  BY <1>3, <1>4

(* A code that was issued stays issued, and its time and owner are fixed.  *)
LEMMA IssuedStays ==
  ASSUME TypeOK, [Next]_vars, NEW c \in Code, row[c].state # "none"
  PROVE  /\ row'[c].state # "none"
         /\ row'[c].issuedAt = row[c].issuedAt
         /\ row'[c].user = row[c].user
<1>0. row[c] \in Row
  BY DEF TypeOK
<1>1. ASSUME NEW p \in Request, NEW d \in Code, InsertCode(p, d)
      PROVE  row'[c] = row[c]
  BY <1>1 DEF InsertCode, TypeOK
<1>2. ASSUME NEW p \in Request, CommitExchange(p)
      PROVE  row'[c] = row[c] \/ row'[c] = [row[c] EXCEPT !.consumedAt = job[p].now]
  BY <1>2 DEF CommitExchange, TypeOK
<1>3. ASSUME NEW p \in Request, CommitDelete(p)
      PROVE  row'[c] = row[c] \/ row'[c] = [row[c] EXCEPT !.state = "deleted"]
  BY <1>3 DEF CommitDelete, TypeOK
<1>4. \/ row'[c] = row[c]
      \/ \E p \in Request : row'[c] = [row[c] EXCEPT !.consumedAt = job[p].now]
      \/ row'[c] = [row[c] EXCEPT !.state = "deleted"]
  BY <1>1, <1>2, <1>3
     DEF Next, vars, Start, Step, Fail, Authorize, Exchange, Cleanup, RejectCode,
         AcceptCode, CheckClient, CheckUser, Consume, Audit, MatchRows,
         DeleteRow, IssueRefreshToken, SwitchUser, SwitchClient, Tick
<1> QED
  BY <1>0, <1>4 DEF Row

-----------------------------------------------------------------------------
(* The inductive invariant.                                                *)

(* The code of an exchange in progress is a stored one, locked by it.      *)
LEMMA Held ==
  ASSUME IndInv, NEW p \in Request, job[p].phase \in Holding
  PROVE  /\ job[p].code \in Code
         /\ owner[job[p].code] = p
         /\ row[job[p].code].state = "stored"
         /\ row[job[p].code].consumedAt = Null
         /\ ExpiresAt(row[job[p].code]) > job[p].now
         /\ row[job[p].code].issuedAt <= job[p].now
         /\ granted[job[p].code] = 0
<1>1. /\ job[p].code \in Code
      /\ Good(job[p], row[job[p].code])
      /\ owner[job[p].code] = p
      /\ row[job[p].code].issuedAt <= job[p].now
  BY DEF IndInv, TypeOK, ExchangeHoldsCode
<1>2. granted[job[p].code] \in Nat /\ granted[job[p].code] <= 1
  BY <1>1 DEF IndInv, TypeOK, GrantedOnce
<1>3. granted[job[p].code] # 1
  BY <1>1 DEF IndInv, ConsumedByGrant, Good
<1> QED
  BY <1>1, <1>2, <1>3 DEF Good

(* A lock is taken for the check of a code and kept until the exchange     *)
(* ends.                                                                   *)
LEMMA HoldsStep ==
  ASSUME IndInv, [Next]_vars
  PROVE  ExchangeHoldsCode'
<1>0. TypeOK
  BY DEF IndInv
<1>1. CASE UNCHANGED <<row, owner, job>>
  BY <1>1 DEF IndInv, ExchangeHoldsCode
<1>2. ASSUME NEW p \in Request, Moves(p)  PROVE ExchangeHoldsCode'
  <2> SUFFICES ASSUME NEW q \in Request, job'[q].phase \in Holding
               PROVE  /\ owner'[job'[q].code] = q
                      /\ Good(job'[q], row'[job'[q].code])
                      /\ row'[job'[q].code].issuedAt <= job'[q].now
    BY DEF ExchangeHoldsCode, Good, ExpiresAt
  <2>1. CASE q # p
    <3>1. job'[q] = job[q]
      BY <1>0, <1>2, <2>1, OthersJob
    <3>2. row'[job[q].code] = row[job[q].code] /\ owner'[job[q].code] = q
      BY <1>2, <2>1, <3>1, Held, OthersRow
    <3> QED BY <3>1, <3>2 DEF IndInv, ExchangeHoldsCode
  <2>2. CASE q = p
    <3>1. Step(p)
      <4>1. ~Start(p)
        BY <1>0, <2>2, StartFields DEF Holding
      <4>2. ~Fail(p)
        BY <1>0, <2>2 DEF Fail, Finish, Become, Idle, Holding, TypeOK
      <4> QED BY <1>2, <4>1, <4>2 DEF Moves
    <3>2. CASE AcceptCode(p)
      <4>1. job[p].code \in Code
        BY <1>0, <3>2, JobType DEF AcceptCode
      <4>2. /\ job'[p].code = job[p].code
            /\ job'[p].now = job[p].now
            /\ job'[p].fits = job[p].fits
        BY <1>0, <3>2, AdvanceFields DEF AcceptCode
      <4>3. owner'[job[p].code] = p
        BY <1>0, <3>2, <4>1 DEF AcceptCode, Lock, TypeOK
      <4>4. row[job[p].code].issuedAt <= job[p].now
        BY <4>1 DEF IndInv, PresentedIssued
      <4> QED BY <2>2, <3>2, <4>2, <4>3, <4>4 DEF AcceptCode, Good
    <3>3. CASE \E ph \in Holding : Advance(p, ph) /\ job[p].phase \in Holding
               /\ UNCHANGED <<row, owner>>
      BY <1>0, <2>2, <3>3, AdvanceFields, Held DEF IndInv, ExchangeHoldsCode, Good
    <3>4. ASSUME NEW f \in Family, IssueRefreshToken(p, f)
          PROVE  /\ owner'[job'[p].code] = p
                 /\ Good(job'[p], row'[job'[p].code])
                 /\ row'[job'[p].code].issuedAt <= job'[p].now
      <4>1. /\ job'[p].code = job[p].code
            /\ job'[p].now = job[p].now
            /\ job'[p].fits = job[p].fits
        BY <1>0, <3>4, JobType DEF IssueRefreshToken, Become, TypeOK, Job
      <4>2. job[p].phase \in Holding
        BY <3>4 DEF IssueRefreshToken, Holding
      <4> QED BY <3>4, <4>1, <4>2 DEF IssueRefreshToken, IndInv, ExchangeHoldsCode, Good
    <3>5. CASE job'[p] = Idle
      BY <2>2, <3>5 DEF Idle, Holding
    <3>6. CASE MatchRows(p) \/ \E c \in Code : DeleteRow(p, c)
      <4>1. job'[p].phase = "delete"
        <5>1. CASE MatchRows(p)
          BY <1>0, <5>1, JobType DEF MatchRows, Become, TypeOK, Job
        <5>2. ASSUME NEW c \in Code, DeleteRow(p, c)  PROVE job'[p].phase = "delete"
          BY <1>0, <5>2, JobType DEF DeleteRow, Become, TypeOK, Job
        <5> QED BY <3>6, <5>1, <5>2
      <4> QED BY <2>2, <4>1 DEF Holding
    <3>7. CASE CheckClient(p) \/ CheckUser(p) \/ Consume(p) \/ Audit(p)
      <4>1. CASE Finish(p)
        BY <1>0, <3>5, <4>1 DEF Finish, Become, TypeOK
      <4>2. CASE ~Finish(p)
        BY <3>3, <3>7, <4>2
           DEF CheckClient, CheckUser, Consume, Audit, Holding
      <4> QED BY <4>1, <4>2
    <3>8. CASE RejectCode(p) \/ CommitExchange(p) \/ CommitDelete(p)
               \/ \E c \in Code : InsertCode(p, c)
      BY <1>0, <3>5, <3>8
         DEF RejectCode, CommitExchange, CommitDelete, InsertCode, Finish, Become,
             TypeOK
    <3> QED BY <2>2, <3>1, <3>2, <3>4, <3>6, <3>7, <3>8 DEF Step
  <2> QED BY <2>1, <2>2
<1> QED
  BY <1>1, <1>2
     DEF Next, Moves, vars, SwitchUser, SwitchClient, Tick

(* The code that a request presents was issued before the request began.   *)
LEMMA PresentedStep ==
  ASSUME IndInv, [Next]_vars
  PROVE  PresentedIssued'
<1>0. TypeOK
  BY DEF IndInv
<1> SUFFICES ASSUME NEW q \in Request, job'[q].code # Null
             PROVE  /\ row'[job'[q].code].state # "none"
                    /\ row'[job'[q].code].issuedAt <= job'[q].now
  BY DEF PresentedIssued
<1>1. CASE job'[q].code = job[q].code /\ job'[q].now = job[q].now
  BY <1>0, <1>1, JobType, IssuedStays DEF IndInv, PresentedIssued
<1>2. ASSUME NEW p \in Request, Moves(p)
      PROVE  /\ row'[job'[q].code].state # "none"
             /\ row'[job'[q].code].issuedAt <= job'[q].now
  <2>1. CASE q # p
    BY <1>0, <1>1, <1>2, <2>1, OthersJob
  <2>2. CASE q = p
    <3>1. CASE job'[p] = Idle
      BY <2>2, <3>1 DEF Idle
    <3>2. CASE /\ job'[p].now = clock
               /\ row[job'[p].code].state # "none"
      <4>1. job'[p].code \in Code
        <5>1. job' \in [Request -> Job]
          BY <1>0, TypeStep DEF TypeOK
        <5> QED BY <2>2, <5>1 DEF Job
      <4>2. row[job'[p].code].issuedAt <= clock
        BY <4>1 DEF IndInv, PastOnly
      <4> QED BY <1>0, <2>2, <3>2, <4>1, <4>2, IssuedStays
    <3> QED BY <1>0, <1>1, <1>2, <2>2, <3>1, <3>2, OwnMove
  <2> QED BY <2>1, <2>2
<1>3. CASE UNCHANGED job
  BY <1>1, <1>3
<1> QED
  BY <1>2, <1>3 DEF Next, Moves, vars, SwitchUser, SwitchClient, Tick

(* An exchange in progress has the family it issued, and only that.        *)
LEMMA FamilyStep ==
  ASSUME IndInv, [Next]_vars
  PROVE  FamilyOfExchange'
<1>0. TypeOK
  BY DEF IndInv
<1> SUFFICES ASSUME NEW q \in Request, job'[q].family # Null
             PROVE  /\ job'[q].phase \in {"audit", "commit"}
                    /\ family'[job'[q].family] = job'[q].code
  BY DEF FamilyOfExchange
<1>1. ASSUME job[q].family # Null
      PROVE  /\ job[q].phase \in {"audit", "commit"}
             /\ job[q].family \in Family
             /\ family[job[q].family] = job[q].code
             /\ family'[job[q].family] = family[job[q].family]
  <2>1. /\ job[q].phase \in {"audit", "commit"}
        /\ job[q].family \in Family
        /\ family[job[q].family] = job[q].code
    BY <1>0, <1>1, JobType DEF IndInv, FamilyOfExchange
  <2>2. family[job[q].family] # Null
    BY <2>1, Held DEF Holding
  <2>3. ASSUME NEW p \in Request, NEW f \in Family, IssueRefreshToken(p, f)
        PROVE  family'[job[q].family] = family[job[q].family]
    BY <1>0, <2>1, <2>2, <2>3 DEF IssueRefreshToken, TypeOK
  <2>4. CASE UNCHANGED family
    BY <2>1, <2>4
  <2> QED
    BY <2>1, <2>3, <2>4
       DEF Next, vars, Start, Step, Fail, Authorize, Exchange, Cleanup, RejectCode,
           AcceptCode, CheckClient, CheckUser, Consume, Audit, CommitExchange,
           MatchRows, CommitDelete, InsertCode, DeleteRow, SwitchUser,
           SwitchClient, Tick, Output
<1>2. CASE job'[q] = job[q]
  BY <1>1, <1>2
<1>3. CASE job'[q] = Idle
  BY <1>3 DEF Idle
<1>4. ASSUME NEW ph \in Phase, Advance(q, ph),
             job[q].phase = "audit" => ph = "commit",
             job[q].phase # "commit"
      PROVE  /\ job'[q].phase \in {"audit", "commit"}
             /\ family'[job'[q].family] = job'[q].code
  BY <1>0, <1>1, <1>4, AdvanceFields
<1>5. ASSUME NEW p \in Request, Moves(p)
      PROVE  /\ job'[q].phase \in {"audit", "commit"}
             /\ family'[job'[q].family] = job'[q].code
  <2>1. CASE q # p
    BY <1>0, <1>2, <1>5, <2>1, OthersJob
  <2>2. CASE q = p
    <3>1. CASE Start(p)
      BY <1>0, <2>2, <3>1, StartFields
    <3>2. CASE Finish(p)
      BY <1>0, <1>3, <2>2, <3>2 DEF Finish, Become, TypeOK
    <3>3. CASE AcceptCode(p) \/ CheckClient(p) \/ CheckUser(p) \/ Consume(p) \/ Audit(p)
      BY <1>4, <2>2, <3>2, <3>3
         DEF AcceptCode, CheckClient, CheckUser, Consume, Audit, Phase
    <3>4. CASE MatchRows(p)
      <4>1. job[p].family = Null
        BY <1>1, <2>2, <3>4 DEF MatchRows
      <4>2. job'[p].family = job[p].family
        BY <1>0, <3>4, JobType DEF MatchRows, Become, TypeOK, Job
      <4> QED BY <2>2, <4>1, <4>2
    <3>5. ASSUME NEW c \in Code, DeleteRow(p, c)  PROVE FALSE
      <4>1. job[p].family = Null
        BY <1>1, <2>2, <3>5 DEF DeleteRow
      <4>2. job'[p].family = job[p].family
        BY <1>0, <3>5, JobType DEF DeleteRow, Become, TypeOK, Job
      <4> QED BY <2>2, <4>1, <4>2
    <3>6. ASSUME NEW f \in Family, IssueRefreshToken(p, f)
          PROVE  /\ job'[q].phase \in {"audit", "commit"}
                 /\ family'[job'[q].family] = job'[q].code
      <4>1. /\ job'[p].phase = "audit"
            /\ job'[p].family = f
            /\ job'[p].code = job[p].code
        BY <1>0, <3>6, JobType DEF IssueRefreshToken, Become, TypeOK, Job
      <4>2. family'[f] = job[p].code
        BY <1>0, <3>6 DEF IssueRefreshToken, TypeOK
      <4> QED BY <2>2, <4>1, <4>2
    <3> QED
      BY <1>5, <3>1, <3>2, <3>3, <3>4, <3>5, <3>6
         DEF Moves, Step, Fail, RejectCode, CommitExchange, CommitDelete, InsertCode
  <2> QED BY <2>1, <2>2
<1>6. CASE UNCHANGED job
  BY <1>2, <1>6
<1> QED
  BY <1>5, <1>6 DEF Next, Moves, vars, SwitchUser, SwitchClient, Tick

(* Who writes granted and delivered: only the commit of an exchange.       *)
LEMMA OutputStep ==
  ASSUME [Next]_vars
  PROVE  \/ UNCHANGED <<granted, delivered>>
         \/ \E p \in Request : CommitExchange(p)
BY DEF Next, vars, Start, Step, Fail, Authorize, Exchange, Cleanup, RejectCode,
       AcceptCode, CheckClient, CheckUser, Consume, Audit, MatchRows,
       CommitDelete, InsertCode, DeleteRow, IssueRefreshToken, SwitchUser,
       SwitchClient, Tick, Output

(* A family that is stored stays the one of its code.                      *)
LEMMA FamilyStays ==
  ASSUME TypeOK, [Next]_vars, NEW f \in Family, family[f] # Null
  PROVE  family'[f] = family[f]
<1>1. ASSUME NEW p \in Request, NEW g \in Family, IssueRefreshToken(p, g)
      PROVE  family'[f] = family[f]
  BY <1>1 DEF IssueRefreshToken, TypeOK
<1> QED
  BY <1>1
     DEF Next, vars, Start, Step, Fail, Authorize, Exchange, Cleanup, RejectCode,
         AcceptCode, CheckClient, CheckUser, Consume, Audit, CommitExchange,
         MatchRows, CommitDelete, InsertCode, DeleteRow, SwitchUser,
         SwitchClient, Tick, Output

(* What the commit of an exchange gives out.                               *)
LEMMA CommitOutput ==
  ASSUME IndInv, [Next]_vars, NEW p \in Request, CommitExchange(p)
  PROVE  /\ job[p].code \in Code
         /\ granted[job[p].code] = 0
         /\ granted' = [granted EXCEPT ![job[p].code] = 1]
         /\ \A f \in delivered' :
              \/ f \in delivered /\ family[f] # job[p].code
              \/ f = job[p].family /\ f \in Family /\ family[f] = job[p].code
         /\ UNCHANGED family
<1>1. job[p].code \in Code /\ granted[job[p].code] = 0
  BY Held DEF CommitExchange, Holding
<1>2. granted' = [granted EXCEPT ![job[p].code] = 1]
  BY <1>1 DEF CommitExchange
<1>3. ASSUME NEW f \in delivered'
      PROVE  \/ f \in delivered /\ family[f] # job[p].code
             \/ f = job[p].family /\ f \in Family /\ family[f] = job[p].code
  <2>1. CASE f \in delivered
    BY <1>1, <2>1 DEF IndInv, DeliveredByGrant
  <2>2. CASE f = job[p].family /\ f # Null
    BY <2>2, JobType DEF IndInv, FamilyOfExchange
  <2> QED BY <1>3, <2>1, <2>2 DEF CommitExchange
<1> QED
  BY <1>1, <1>2, <1>3 DEF CommitExchange

(* A family that was given out is the one of the exchange of its code.     *)
LEMMA DeliveredStep ==
  ASSUME IndInv, [Next]_vars
  PROVE  DeliveredByGrant'
<1>0. TypeOK
  BY DEF IndInv
<1>1. CASE UNCHANGED <<granted, delivered>>
  BY <1>0, <1>1, FamilyStays DEF IndInv, DeliveredByGrant, TypeOK
<1>2. ASSUME NEW p \in Request, CommitExchange(p)  PROVE DeliveredByGrant'
  <2> SUFFICES ASSUME NEW f \in delivered'
               PROVE  family'[f] # Null /\ granted'[family'[f]] = 1
    BY DEF DeliveredByGrant
  <2>1. CASE f \in delivered /\ family[f] # job[p].code
    BY <1>0, <1>2, <2>1, CommitOutput DEF IndInv, DeliveredByGrant, TypeOK
  <2>2. CASE f = job[p].family /\ f \in Family /\ family[f] = job[p].code
    BY <1>0, <1>2, <2>2, CommitOutput DEF TypeOK
  <2> QED BY <1>2, <2>1, <2>2, CommitOutput
<1> QED
  BY <1>1, <1>2, OutputStep

(* No code is exchanged twice and no two families of a code are given out. *)
LEMMA GrantedStep ==
  ASSUME IndInv, [Next]_vars
  PROVE  GrantedOnce'
<1>0. TypeOK
  BY DEF IndInv
<1>1. CASE UNCHANGED <<granted, delivered>>
  BY <1>0, <1>1, FamilyStays DEF IndInv, GrantedOnce, DeliveredByGrant, TypeOK
<1>2. ASSUME NEW p \in Request, CommitExchange(p)  PROVE GrantedOnce'
  <2>1. \A c \in Code : granted'[c] <= 1
    BY <1>0, <1>2, CommitOutput DEF IndInv, GrantedOnce, TypeOK
  <2>2. ASSUME NEW f \in delivered', NEW g \in delivered', family'[f] = family'[g]
        PROVE  f = g
    BY <1>2, <2>2, CommitOutput DEF IndInv, GrantedOnce
  <2> QED BY <2>1, <2>2 DEF GrantedOnce
<1> QED
  BY <1>1, <1>2, OutputStep

(* What a DELETE has matched stays locked by it, and deletable.            *)
LEMMA HitStep ==
  ASSUME IndInv, [Next]_vars
  PROVE  HitDeletable'
<1>0. TypeOK
  BY DEF IndInv
<1>1. CASE UNCHANGED <<row, owner, job>>
  BY <1>1 DEF IndInv, HitDeletable
<1>2. ASSUME NEW p \in Request, Moves(p)  PROVE HitDeletable'
  <2> SUFFICES ASSUME NEW q \in Request, NEW c \in job'[q].hit
               PROVE  /\ job'[q].phase = "delete"
                      /\ owner'[c] = q
                      /\ Deletable(job'[q], row'[c])
    BY DEF HitDeletable, Deletable, ExpiresAt
  <2>0. c \in Code
    <3>1. job' \in [Request -> Job]
      BY <1>0, TypeStep DEF TypeOK
    <3> QED BY <3>1 DEF Job
  <2>1. CASE q # p
    <3>1. job'[q] = job[q]
      BY <1>0, <1>2, <2>1, OthersJob
    <3>2. /\ job[q].phase = "delete"
          /\ owner[c] = q
          /\ Deletable(job[q], row[c])
      BY <3>1 DEF IndInv, HitDeletable
    <3>3. owner'[c] = q /\ row'[c] = row[c]
      BY <1>2, <2>0, <2>1, <3>2, OthersRow DEF Deletable
    <3> QED BY <3>1, <3>2, <3>3
  <2>2. CASE q = p
    <3>1. ~Start(p)
      BY <1>0, <2>2, StartFields
    <3>2. ~Finish(p)
      BY <1>0, <2>2 DEF Finish, Become, Idle, TypeOK
    <3>3. ASSUME NEW ph, Advance(p, ph), job[p].phase # "delete"  PROVE FALSE
      BY <1>0, <2>2, <3>3, AdvanceFields DEF IndInv, HitDeletable
    <3>4. ~MatchRows(p)
      <4>1. SUFFICES ASSUME MatchRows(p)  PROVE FALSE
        OBVIOUS
      <4>2. job'[p].hit = job[p].hit
        BY <1>0, <4>1, JobType DEF MatchRows, Become, TypeOK, Job
      <4> QED BY <2>2, <4>1, <4>2 DEF MatchRows, IndInv, HitDeletable
    <3>5. ASSUME NEW f \in Family, IssueRefreshToken(p, f)  PROVE FALSE
      <4>1. job'[p].hit = job[p].hit
        BY <1>0, <3>5, JobType DEF IssueRefreshToken, Become, TypeOK, Job
      <4> QED BY <2>2, <3>5, <4>1 DEF IssueRefreshToken, IndInv, HitDeletable
    <3>6. ASSUME NEW d \in Code, DeleteRow(p, d)
          PROVE  /\ job'[p].phase = "delete"
                 /\ owner'[c] = p
                 /\ Deletable(job'[p], row'[c])
      <4>1. /\ job'[p].phase = "delete"
            /\ job'[p].now = job[p].now
            /\ job'[p].hit = IF Deletable(job[p], row[d]) THEN job[p].hit \cup {d}
                                                         ELSE job[p].hit
        BY <1>0, <3>6, JobType DEF DeleteRow, Become, TypeOK, Job
      <4>2. owner' = [owner EXCEPT ![d] = p] /\ UNCHANGED row
        BY <3>6 DEF DeleteRow, Lock
      <4>3. CASE c \in job[p].hit
        BY <1>0, <2>0, <4>1, <4>2, <4>3 DEF IndInv, HitDeletable, Deletable, TypeOK
      <4>4. CASE c = d /\ Deletable(job[p], row[d])
        BY <1>0, <2>0, <4>1, <4>2, <4>4 DEF Deletable, TypeOK
      <4> QED BY <2>2, <4>1, <4>3, <4>4
    <3> QED
      BY <1>2, <2>2, <3>1, <3>2, <3>3, <3>4, <3>5, <3>6
         DEF Moves, Step, Fail, RejectCode, AcceptCode, CheckClient, CheckUser,
             Consume, Audit, CommitExchange, CommitDelete, InsertCode
  <2> QED BY <2>1, <2>2
<1> QED
  BY <1>1, <1>2 DEF Next, Moves, vars, SwitchUser, SwitchClient, Tick

(* Every time that is stored has passed.                                   *)
LEMMA PastStep ==
  ASSUME IndInv, [Next]_vars
  PROVE  PastOnly'
<1>0. TypeOK
  BY DEF IndInv
<1>1. clock' >= clock /\ clock \in Nat /\ clock' \in Nat
  <2>1. clock' = clock \/ clock' = clock + 1
    BY DEF Next, vars, Start, Step, Fail, Authorize, Exchange, Cleanup, RejectCode,
           AcceptCode, CheckClient, CheckUser, Consume, Audit, CommitExchange,
           MatchRows, CommitDelete, InsertCode, DeleteRow, IssueRefreshToken,
           SwitchUser, SwitchClient, Tick
  <2> QED BY <1>0, <2>1 DEF TypeOK
<1>2. ASSUME NEW q \in Request  PROVE job'[q].now <= clock'
  <2>0. job[q].now <= clock /\ job[q].now \in Nat
    BY <1>0, JobType DEF IndInv, PastOnly
  <2>1. CASE job'[q].now = job[q].now
    BY <1>1, <2>0, <2>1
  <2>2. ASSUME NEW p \in Request, Moves(p), q = p  PROVE job'[q].now <= clock'
    <3>1. CASE job'[p] = Idle
      BY <1>1, <2>2, <3>1 DEF Idle
    <3>2. CASE job'[p].now = clock
      BY <1>1, <2>2, <3>2
    <3> QED BY <1>0, <2>1, <2>2, <3>1, <3>2, OwnMove
  <2>3. ASSUME NEW p \in Request, Moves(p), q # p  PROVE job'[q].now <= clock'
    BY <1>0, <2>1, <2>3, OthersJob
  <2> QED
    BY <2>1, <2>2, <2>3 DEF Next, Moves, vars, SwitchUser, SwitchClient, Tick
<1>3. ASSUME NEW c \in Code
      PROVE  /\ row'[c].issuedAt <= clock'
             /\ row'[c].state = "none" => row'[c].consumedAt = Null
  <2>0. row[c].issuedAt <= clock /\ row[c].issuedAt \in Nat
    BY <1>0, RowType DEF IndInv, PastOnly
  <2>1. CASE row'[c] = row[c]
    BY <1>1, <2>0, <2>1 DEF IndInv, PastOnly
  <2>2. CASE row[c].state # "none"
    BY <1>0, <1>1, <2>0, <2>2, IssuedStays
  <2>3. ASSUME NEW p \in Request, NEW d \in Code, InsertCode(p, d)
        PROVE  /\ row'[c].issuedAt <= clock'
               /\ row'[c].state = "none" => row'[c].consumedAt = Null
    <3>1. job[p].now <= clock /\ job[p].now \in Nat
      BY <1>0, JobType DEF IndInv, PastOnly
    <3>2. CASE c = d
      BY <1>0, <1>1, <2>3, <3>1, <3>2 DEF InsertCode, TypeOK
    <3>3. CASE c # d
      BY <1>0, <2>1, <2>3, <3>3 DEF InsertCode, TypeOK
    <3> QED BY <3>2, <3>3
  <2>4. ASSUME NEW p \in Request, CommitExchange(p), row[c].state = "none"
        PROVE  row'[c] = row[c]
    <3>1. job[p].code # c
      BY <2>4, Held DEF CommitExchange, Holding
    <3> QED BY <1>0, <2>4, <3>1 DEF CommitExchange, TypeOK
  <2>5. ASSUME NEW p \in Request, CommitDelete(p), row[c].state = "none"
        PROVE  row'[c] = row[c]
    <3>1. c \notin job[p].hit
      BY <2>5 DEF IndInv, HitDeletable, Deletable
    <3> QED BY <1>0, <2>5, <3>1 DEF CommitDelete, TypeOK
  <2> QED
    BY <2>1, <2>2, <2>3, <2>4, <2>5
       DEF Next, vars, Start, Step, Fail, Authorize, Exchange, Cleanup, RejectCode,
           AcceptCode, CheckClient, CheckUser, Consume, Audit, MatchRows,
           DeleteRow, IssueRefreshToken, SwitchUser, SwitchClient, Tick
<1> QED
  BY <1>2, <1>3 DEF PastOnly

(* A code is consumed in the step that grants it.                          *)
LEMMA ConsumedStep ==
  ASSUME IndInv, [Next]_vars
  PROVE  ConsumedByGrant'
<1>0. TypeOK
  BY DEF IndInv
<1> DEFINE Fits(r, n) == /\ r.consumedAt # Null <=> n = 1
                         /\ r.consumedAt # Null =>
                              r.issuedAt <= r.consumedAt /\ r.consumedAt < ExpiresAt(r)
<1> SUFFICES ASSUME NEW c \in Code  PROVE Fits(row'[c], granted'[c])
  BY DEF ConsumedByGrant, ExpiresAt
<1>1. Fits(row[c], granted[c]) /\ row[c] \in Row
  BY <1>0, RowType DEF IndInv, ConsumedByGrant
<1>2. CASE row'[c] = row[c] /\ granted'[c] = granted[c]
  BY <1>1, <1>2
<1>3. ASSUME NEW p \in Request, CommitExchange(p)  PROVE Fits(row'[c], granted'[c])
  <2>1. CASE c # job[p].code
    BY <1>0, <1>2, <1>3, <2>1 DEF CommitExchange, TypeOK
  <2>2. CASE c = job[p].code
    <3>1. /\ row[c].issuedAt <= job[p].now
          /\ ExpiresAt(row[c]) > job[p].now
          /\ granted'[c] = 1
      BY <1>0, <1>3, <2>2, Held, CommitOutput DEF CommitExchange, Holding, TypeOK
    <3>2. row'[c] = [row[c] EXCEPT !.consumedAt = job[p].now] /\ job[p].now \in Nat
      BY <1>0, <1>3, <2>2, JobType DEF CommitExchange, TypeOK
    <3>3. /\ row'[c].consumedAt = job[p].now
          /\ row'[c].issuedAt = row[c].issuedAt
      BY <1>1, <3>2 DEF Row
    <3>4. row[c].issuedAt \in Nat
      BY <1>1 DEF Row
    <3> QED BY <3>1, <3>2, <3>3, <3>4 DEF ExpiresAt
  <2> QED BY <2>1, <2>2
<1>4. ASSUME NEW p \in Request, NEW d \in Code, InsertCode(p, d)
      PROVE  Fits(row'[c], granted'[c])
  <2>1. UNCHANGED granted
    BY <1>4 DEF InsertCode, Output
  <2>2. CASE c # d
    BY <1>0, <1>2, <1>4, <2>1, <2>2 DEF InsertCode, TypeOK
  <2>3. CASE c = d
    <3>1. row[c].consumedAt = Null
      BY <1>4, <2>3 DEF InsertCode, IndInv, PastOnly
    <3>2. row'[c].consumedAt = Null
      BY <1>0, <1>4, <2>3 DEF InsertCode, TypeOK
    <3> QED BY <1>1, <2>1, <3>1, <3>2
  <2> QED BY <2>2, <2>3
<1>5. ASSUME NEW p \in Request, CommitDelete(p)  PROVE Fits(row'[c], granted'[c])
  <2>1. UNCHANGED granted
    BY <1>5 DEF CommitDelete, Output
  <2>2. row'[c] = row[c] \/ row'[c] = [row[c] EXCEPT !.state = "deleted"]
    BY <1>0, <1>5 DEF CommitDelete, TypeOK
  <2>3. row'[c].consumedAt = row[c].consumedAt /\ row'[c].issuedAt = row[c].issuedAt
    BY <1>1, <2>2 DEF Row
  <2> QED BY <1>1, <2>1, <2>3 DEF ExpiresAt
<1>6. CASE UNCHANGED <<row, granted>>
  BY <1>2, <1>6
<1> QED
  BY <1>3, <1>4, <1>5, <1>6
     DEF Next, vars, Start, Step, Fail, Authorize, Exchange, Cleanup, RejectCode,
         AcceptCode, CheckClient, CheckUser, Consume, Audit, MatchRows,
         DeleteRow, IssueRefreshToken, SwitchUser, SwitchClient, Tick, Output

(* IndInv holds at the start.                                              *)
LEMMA InvInit == Init => IndInv
<1> SUFFICES ASSUME Init  PROVE IndInv
  OBVIOUS
<1>1. TypeOK
  BY TypeInit
<1>2. ExchangeHoldsCode /\ PresentedIssued /\ FamilyOfExchange /\ HitDeletable
  BY DEF Init, Idle, Holding, ExchangeHoldsCode, PresentedIssued,
         FamilyOfExchange, HitDeletable
<1>3. DeliveredByGrant /\ GrantedOnce
  BY DEF Init, DeliveredByGrant, GrantedOnce
<1>4. PastOnly /\ ConsumedByGrant
  BY DEF Init, Idle, NoRow, PastOnly, ConsumedByGrant
<1> QED
  BY <1>1, <1>2, <1>3, <1>4 DEF IndInv

(* Invariance: IndInv holds in every state.                                *)
THEOREM Invariance == Spec => []IndInv
<1>1. IndInv /\ [Next]_vars => IndInv'
  BY TypeStep, HoldsStep, PresentedStep, FamilyStep, DeliveredStep, HitStep,
     PastStep, ConsumedStep, GrantedStep DEF IndInv
<1> QED
  BY InvInit, <1>1, PTL DEF Spec

(* SingleUse: a code is exchanged at most once, and of the families its    *)
(* exchanges leave behind at most one is given out, whatever requests      *)
(* overlap, fail and are repeated.                                         *)
THEOREM SingleUse == Spec => []GrantedOnce
<1>1. IndInv => GrantedOnce
  BY DEF IndInv
<1> QED
  BY <1>1, Invariance, PTL

(* NotBurnt: a code is consumed exactly by the exchange that is answered,  *)
(* and within its life.                                                    *)
THEOREM NotBurnt == Spec => []ConsumedByGrant
<1>1. IndInv => ConsumedByGrant
  BY DEF IndInv
<1> QED
  BY <1>1, Invariance, PTL

-----------------------------------------------------------------------------
(* Action properties.                                                      *)

(* A step deletes only what is consumed or expired.                        *)
LEMMA SparesStep ==
  ASSUME IndInv, [Next]_vars, NEW c \in Stored, row'[c].state = "deleted"
  PROVE  row[c].consumedAt # Null \/ ExpiresAt(row[c]) <= clock
<1>0. /\ row \in [Code -> Row]
      /\ c \in Code
      /\ row[c].state = "stored"
      /\ ExpiresAt(row[c]) \in Nat
      /\ clock \in Nat
  BY RowType DEF IndInv, TypeOK, Stored
<1>1. ASSUME NEW p \in Request, CommitDelete(p)
      PROVE  row[c].consumedAt # Null \/ ExpiresAt(row[c]) <= clock
  <2>1. c \in job[p].hit
    BY <1>0, <1>1 DEF CommitDelete
  <2>2. Deletable(job[p], row[c])
    BY <2>1 DEF IndInv, HitDeletable
  <2>3. job[p].now <= clock /\ job[p].now \in Nat
    BY JobType DEF IndInv, PastOnly
  <2> QED BY <1>0, <2>2, <2>3 DEF Deletable
<1>2. ASSUME NEW p \in Request, CommitExchange(p)  PROVE FALSE
  <2>1. row[c] \in Row
    BY <1>0
  <2>2. row'[c] = row[c] \/ row'[c] = [row[c] EXCEPT !.consumedAt = job[p].now]
    BY <1>0, <1>2 DEF CommitExchange
  <2> QED BY <1>0, <2>1, <2>2 DEF Row
<1>3. ASSUME NEW p \in Request, NEW d \in Code, InsertCode(p, d)  PROVE FALSE
  BY <1>0, <1>3 DEF InsertCode
<1> QED
  BY <1>0, <1>1, <1>2, <1>3
     DEF Next, vars, Start, Step, Fail, Authorize, Exchange, Cleanup, RejectCode,
         AcceptCode, CheckClient, CheckUser, Consume, Audit, MatchRows,
         DeleteRow, IssueRefreshToken, SwitchUser, SwitchClient, Tick

(* CleanupIsSafe: the clean-up never deletes a code that a request could   *)
(* still exchange.                                                         *)
THEOREM CleanupIsSafe == Spec => CleanupSpares
<1>1. IndInv /\ [Next]_vars =>
        [\A c \in Stored : row'[c].state = "deleted" =>
           row[c].consumedAt # Null \/ ExpiresAt(row[c]) <= clock]_vars
  BY SparesStep
<1> QED
  BY <1>1, Invariance, PTL DEF Spec, CleanupSpares

(* A step leaves a user who is shut out so.                                *)
LEMMA ShutOutStep ==
  ASSUME IndInv, [Next]_vars, NEW u \in User, ShutOut(u), u \notin userActive'
  PROVE  /\ ShutOut(u)'
         /\ \A c \in Code : row[c].user = u => granted'[c] = granted[c]
         /\ \A f \in Family :
              family'[f] # family[f] => row[family'[f]].user # u
<1>0. TypeOK
  BY DEF IndInv
<1>1. ASSUME NEW p \in Request, job'[p].phase \in Checked
      PROVE  row'[job'[p].code].user # u
  <2>1. CASE job[p].phase \in Checked /\ job'[p].code = job[p].code
    <3>1. job[p].phase \in Holding
      BY <2>1 DEF Checked, Holding
    <3>2. row[job[p].code].user # u
      BY <2>1 DEF ShutOut
    <3> QED BY <1>0, <2>1, <3>1, <3>2, Held, IssuedStays
  <2>2. ASSUME NEW q \in Request, Moves(q), q # p
        PROVE  row'[job'[p].code].user # u
    BY <1>0, <1>1, <2>1, <2>2, OthersJob
  <2>3. ASSUME Moves(p)  PROVE row'[job'[p].code].user # u
    <3>1. ~Start(p) /\ ~Finish(p)
      BY <1>0, <1>1, StartFields DEF Checked, Finish, Become, Idle, TypeOK
    <3>2. CASE CheckUser(p)
      <4>1. Advance(p, "consume") /\ row[job[p].code].user \in userActive
        BY <3>1, <3>2 DEF CheckUser
      <4>2. job[p].phase \in Holding /\ job'[p].code = job[p].code
        BY <1>0, <3>2, <4>1, AdvanceFields DEF CheckUser, Holding
      <4> QED BY <1>0, <4>1, <4>2, Held, IssuedStays DEF ShutOut
    <3>3. CASE Consume(p) \/ Audit(p)
      BY <1>0, <2>1, <3>3, AdvanceFields DEF Consume, Audit, Checked
    <3>4. ASSUME NEW f \in Family, IssueRefreshToken(p, f)
          PROVE  row'[job'[p].code].user # u
      <4>1. job'[p].code = job[p].code
        BY <1>0, <3>4, JobType DEF IssueRefreshToken, Become, TypeOK, Job
      <4> QED BY <2>1, <3>4, <4>1 DEF IssueRefreshToken, Checked
    <3>5. CASE AcceptCode(p) \/ CheckClient(p)
      BY <1>0, <1>1, <3>1, <3>5, AdvanceFields
         DEF AcceptCode, CheckClient, Checked
    <3>6. ASSUME NEW c \in Code, DeleteRow(p, c)  PROVE FALSE
      <4>1. job'[p].phase = "delete"
        BY <1>0, <3>6, JobType DEF DeleteRow, Become, TypeOK, Job
      <4> QED BY <1>1, <4>1 DEF Checked
    <3>7. CASE MatchRows(p)
      <4>1. job'[p].phase = "delete"
        BY <1>0, <3>7, JobType DEF MatchRows, Become, TypeOK, Job
      <4> QED BY <1>1, <4>1 DEF Checked
    <3> QED
      BY <2>3, <3>1, <3>2, <3>3, <3>4, <3>5, <3>6, <3>7
         DEF Moves, Step, Fail, RejectCode, CommitExchange, CommitDelete, InsertCode
  <2>4. CASE UNCHANGED job
    BY <1>1, <2>1, <2>4
  <2> QED
    BY <2>2, <2>3, <2>4 DEF Next, Moves, vars, SwitchUser, SwitchClient, Tick
<1>2. ASSUME NEW c \in Code, row[c].user = u  PROVE granted'[c] = granted[c]
  <2>1. ASSUME NEW p \in Request, CommitExchange(p)  PROVE granted'[c] = granted[c]
    <3>1. job[p].code # c
      BY <1>2, <2>1 DEF CommitExchange, ShutOut, Checked
    <3> QED BY <1>0, <2>1, <3>1 DEF CommitExchange, TypeOK
  <2> QED BY <2>1, OutputStep
<1>3. ASSUME NEW f \in Family, family'[f] # family[f]
      PROVE  row[family'[f]].user # u
  <2>1. ASSUME NEW p \in Request, NEW g \in Family, IssueRefreshToken(p, g)
        PROVE  row[family'[f]].user # u
    <3>1. family'[f] = job[p].code
      BY <1>0, <1>3, <2>1 DEF IssueRefreshToken, TypeOK
    <3> QED BY <2>1, <3>1 DEF IssueRefreshToken, ShutOut, Checked
  <2> QED
    BY <1>3, <2>1
       DEF Next, vars, Start, Step, Fail, Authorize, Exchange, Cleanup, RejectCode,
           AcceptCode, CheckClient, CheckUser, Consume, Audit, CommitExchange,
           MatchRows, CommitDelete, InsertCode, DeleteRow, SwitchUser,
           SwitchClient, Tick, Output
<1> QED
  BY <1>1, <1>2, <1>3 DEF ShutOut

(* InactiveGetsNothing: a user who is shut out gets no tokens for a code   *)
(* until an administrator activates the user again.                        *)
THEOREM InactiveGetsNothing == Spec => NoGrantWhileInactive
<1>1. IndInv /\ [Next]_vars =>
        [\A u \in User : ShutOut(u) /\ u \notin userActive' =>
           /\ ShutOut(u)'
           /\ \A c \in Code : row[c].user = u => granted'[c] = granted[c]
           /\ \A f \in Family :
                family'[f] # family[f] => row[family'[f]].user # u]_vars
  BY ShutOutStep
<1> QED
  BY <1>1, Invariance, PTL DEF Spec, NoGrantWhileInactive

-----------------------------------------------------------------------------
(* Refinement of OneTime.                                                  *)

Offered == {c \in Code : row[c].state # "none"}
Open    == {c \in Stored : row[c].consumedAt = Null}

(* A step that changes neither the state nor the consumption of any code   *)
(* is none of OneTime.                                                     *)
LEMMA OneTimeStep ==
  ASSUME IndInv, [Next]_vars
  PROVE  [OneTimeCode!OneTimeNext]_(<<Offered, Open, granted>>)
<1>0. TypeOK /\ row \in [Code -> Row] /\ row' \in [Code -> Row]
  BY TypeStep DEF IndInv, TypeOK
<1>1. CASE UNCHANGED <<row, granted>>
  BY <1>1 DEF Offered, Open, Stored
<1>2. ASSUME NEW p \in Request, NEW c \in Code, InsertCode(p, c)
      PROVE  OneTimeCode!Offer(c)
  <2>1. /\ row[c].state = "none"
        /\ row'[c].state = "stored"
        /\ row'[c].consumedAt = Null
        /\ \A d \in Code : d # c => row'[d] = row[d]
    BY <1>0, <1>2 DEF InsertCode
  <2>2. Offered' = Offered \cup {c} /\ Open' = Open \cup {c} /\ c \notin Offered
    BY <2>1 DEF Offered, Open, Stored
  <2> QED
    BY <1>2, <2>2 DEF OneTimeCode!Offer, Offered, Open, InsertCode, Output
<1>3. ASSUME NEW p \in Request, CommitExchange(p)
      PROVE  OneTimeCode!Use(job[p].code)
  <2> DEFINE c == job[p].code
  <2>1. /\ c \in Code
        /\ row[c].state = "stored"
        /\ row[c].consumedAt = Null
    BY <1>3, Held DEF CommitExchange, Holding
  <2>2. row' = [row EXCEPT ![c] = [row[c] EXCEPT !.consumedAt = job[p].now]]
    BY <1>0, <1>3, <2>1 DEF CommitExchange
  <2>3. job[p].now \in Nat /\ row[c] \in Row
    BY <1>0, <2>1, JobType
  <2> HIDE DEF c
  <2>4. /\ row'[c].state = "stored"
        /\ row'[c].consumedAt # Null
        /\ \A d \in Code : d # c => row'[d] = row[d]
    BY <1>0, <2>1, <2>2, <2>3 DEF Row
  <2>5. Offered' = Offered /\ Open' = Open \ {c} /\ c \in Open
    BY <2>1, <2>4 DEF Offered, Open, Stored
  <2>6. granted' = [granted EXCEPT ![c] = @ + 1]
    BY <1>3 DEF CommitExchange, c
  <2> QED
    BY <2>5, <2>6 DEF OneTimeCode!Use, Offered, Open, c
<1>4. ASSUME NEW p \in Request, CommitDelete(p)
      PROVE  \E S \in SUBSET Open : OneTimeCode!Withdraw(S)
  <2>1. ASSUME NEW d \in Code
        PROVE  /\ row'[d].consumedAt = row[d].consumedAt
               /\ row'[d] = row[d] \/ (row[d].state = "stored" /\ row'[d].state = "deleted")
    <3>1. CASE d \in job[p].hit
      <4>1. row'[d] = [row[d] EXCEPT !.state = "deleted"]
        BY <1>0, <1>4, <3>1 DEF CommitDelete
      <4>2. row[d].state = "stored"
        BY <3>1 DEF IndInv, HitDeletable, Deletable
      <4> QED BY <1>0, <4>1, <4>2 DEF Row
    <3>2. CASE d \notin job[p].hit
      BY <1>0, <1>4, <3>2 DEF CommitDelete
    <3> QED BY <3>1, <3>2
  <2>2. Offered' = Offered /\ Open' \subseteq Open
    BY <2>1 DEF Offered, Open, Stored
  <2> DEFINE S == Open \ Open'
  <2>3. S \in SUBSET Open
    OBVIOUS
  <2>4. OneTimeCode!Withdraw(S)
    BY <1>4, <2>2 DEF OneTimeCode!Withdraw, Offered, Open, CommitDelete, Output
  <2> HIDE DEF S
  <2> QED
    BY <2>3, <2>4 DEF OneTimeCode!Withdraw
<1>5. ASSUME NEW p \in Request, CommitExchange(p)  PROVE job[p].code \in Code
  BY <1>5, Held DEF CommitExchange, Holding
<1>6. ASSUME NEW p \in Request, NEW c \in Code, InsertCode(p, c)
      PROVE  OneTimeCode!OneTimeNext
  BY <1>2, <1>6 DEF OneTimeCode!OneTimeNext
<1>7. ASSUME NEW p \in Request, CommitExchange(p)  PROVE OneTimeCode!OneTimeNext
  <2> DEFINE c == job[p].code
  <2>1. c \in Code /\ OneTimeCode!Use(c)
    BY <1>3, <1>5, <1>7
  <2> HIDE DEF c
  <2> QED BY <2>1 DEF OneTimeCode!OneTimeNext, OneTimeCode!Use
<1>8. ASSUME NEW p \in Request, CommitDelete(p)  PROVE OneTimeCode!OneTimeNext
  BY <1>4, <1>8 DEF OneTimeCode!OneTimeNext, Open
<1> QED
  BY <1>1, <1>6, <1>7, <1>8
     DEF Next, vars, Start, Step, Fail, Authorize, Exchange, Cleanup, RejectCode,
         AcceptCode, CheckClient, CheckUser, Consume, Audit, MatchRows, DeleteRow,
         IssueRefreshToken, SwitchUser, SwitchClient, Tick, Output

(* Refinement: the table of codes, with its requests, locks, failures and  *)
(* clean-up, implements the promise of OneTime.                            *)
THEOREM Refinement == Spec => ImplementsOneTime
<1>1. Init => OneTimeCode!OneTimeInit
  BY DEF Init, OneTimeCode!OneTimeInit, Stored, NoRow
<1>2. IndInv /\ [Next]_vars => [OneTimeCode!OneTimeNext]_(OneTimeCode!oneTimeVars)
  BY OneTimeStep DEF OneTimeCode!oneTimeVars, Offered, Open
<1> QED
  BY <1>1, <1>2, Invariance, PTL
     DEF Spec, ImplementsOneTime, OneTimeCode!OneTimeSpec

=============================================================================
