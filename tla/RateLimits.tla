----------------------------- MODULE RateLimits -----------------------------
(***************************************************************************)
(* The two rate limits, both kept in memory.  The login limit is asked     *)
(* before the awaits of a login and told the outcome after them, per       *)
(* account and per address.  The token limit asks and counts in one step.  *)
(* A bucket that is not there is one whose count is 0.                     *)
(***************************************************************************)
EXTENDS Requests

CONSTANTS
  Account, Ip,
  Window,          \* the length of a window, the same for both limits
  AccountMax, IpMax, TokenMax,
  MaxLimitClock    \* bound on the clock

ASSUME LimitsAssumption ==
  /\ Null \notin Account /\ Null \notin Ip
  /\ Account \cap Ip = {}
  /\ Window \in Nat \ {0}
  /\ AccountMax \in Nat \ {0} /\ IpMax \in Nat \ {0} /\ TokenMax \in Nat \ {0}
  /\ MaxLimitClock \in Nat

VARIABLES
  limitClock,
  bucket,      \* the login buckets, of accounts and of addresses
  tokenBucket, \* the token buckets, of addresses
  attempt,     \* the login in each slot
  answered     \* history: token requests let through, by address, before
               \* each instant

limitVars == <<limitClock, bucket, tokenBucket, attempt, answered>>

-----------------------------------------------------------------------------
Bucket  == [count : Nat, resetAt : Nat]
NoBucket == [count |-> 0, resetAt |-> 0]

Attempt   == [account : Account, ip : Ip \cup {Null}]
Bucketed(a) == {a.account, a.ip} \ {Null}

Instant == 0 .. MaxLimitClock + 1

MaxOf(x) == IF x \in Account THEN AccountMax ELSE IpMax

LimitTypeOK ==
  /\ limitClock \in 0 .. MaxLimitClock
  /\ bucket \in [Account \cup Ip -> Bucket]
  /\ tokenBucket \in [Ip -> Bucket]
  /\ attempt \in [Request -> Attempt \cup {Null}]
  /\ answered \in [Ip -> [Instant -> Nat]]

LimitInit ==
  /\ limitClock = 0
  /\ bucket = [x \in Account \cup Ip |-> NoBucket]
  /\ tokenBucket = [i \in Ip |-> NoBucket]
  /\ attempt = [p \in Request |-> Null]
  /\ answered = [i \in Ip |-> [t \in Instant |-> 0]]

-----------------------------------------------------------------------------
(* The login limit.                                                        *)

Lapsed(b)  == b.resetAt <= limitClock
Opened     == [count |-> 1, resetAt |-> limitClock + Window]

(* isBlocked drops a bucket whose window is over.                          *)
Swept(b)   == IF Lapsed(b) THEN NoBucket ELSE b

(* Mutant: one attempt too many.                                           *)
BlockedLate(x) == ~ Lapsed(bucket[x]) /\ bucket[x].count > MaxOf(x)

Blocked(x) == ~ Lapsed(bucket[x]) /\ bucket[x].count >= MaxOf(x)

(* The account is looked at first; the address only if it is not blocked.  *)
RejectLogin(p) ==
  /\ attempt[p] = Null
  /\ \E a \in Attempt :
       /\ \E x \in Bucketed(a) : Blocked(x)
       /\ bucket' = [x \in Account \cup Ip |->
            IF x = a.account \/ (x = a.ip /\ ~ Blocked(a.account))
            THEN Swept(bucket[x]) ELSE bucket[x]]
  /\ UNCHANGED <<limitClock, tokenBucket, attempt, answered>>

AdmitLogin(p) ==
  /\ attempt[p] = Null
  /\ \E a \in Attempt :
       /\ \A x \in Bucketed(a) : ~ Blocked(x)
       /\ bucket' = [x \in Account \cup Ip |->
            IF x \in Bucketed(a) THEN Swept(bucket[x]) ELSE bucket[x]]
       /\ attempt' = [attempt EXCEPT ![p] = a]
  /\ UNCHANGED <<limitClock, tokenBucket, answered>>

EndLogin(p) == attempt' = [attempt EXCEPT ![p] = Null]

Incremented(b) == IF Lapsed(b) THEN Opened ELSE [b EXCEPT !.count = @ + 1]

(* No such user, one who is not active, or a wrong password.               *)
RecordFailure(p) ==
  /\ attempt[p] # Null
  /\ bucket' = [x \in Account \cup Ip |->
       IF x \in Bucketed(attempt[p]) THEN Incremented(bucket[x])
       ELSE bucket[x]]
  /\ EndLogin(p)
  /\ UNCHANGED <<limitClock, tokenBucket, answered>>

RecordSuccess(p) ==
  /\ attempt[p] # Null
  /\ bucket' = [x \in Account \cup Ip |->
       IF x \in Bucketed(attempt[p]) THEN NoBucket ELSE bucket[x]]
  /\ EndLogin(p)
  /\ UNCHANGED <<limitClock, tokenBucket, answered>>

(* A query fails, or Better Auth answers for another user: not counted.    *)
AbortLogin(p) ==
  /\ attempt[p] # Null
  /\ EndLogin(p)
  /\ UNCHANGED <<limitClock, bucket, tokenBucket, answered>>

-----------------------------------------------------------------------------
(* The token limit: POST oauth/token and oauth/revoke.                     *)

Answer(i) ==
  answered' = [answered EXCEPT ![i] = [t \in Instant |->
                 IF limitClock < t THEN @[t] + 1 ELSE @[t]]]

(* Mutant: the window moves along with every request.                      *)
AdmitTokenSliding(i) ==
  /\ Lapsed(tokenBucket[i]) \/ tokenBucket[i].count < TokenMax
  /\ tokenBucket' = [tokenBucket EXCEPT ![i] =
       [count |-> 1, resetAt |-> limitClock + Window]]
  /\ Answer(i)
  /\ UNCHANGED <<limitClock, bucket, attempt>>

(* At the instant resetAt a new window begins.  A refusal changes nothing. *)
AdmitToken(i) ==
  /\ Lapsed(tokenBucket[i]) \/ tokenBucket[i].count < TokenMax
  /\ tokenBucket' = [tokenBucket EXCEPT ![i] = Incremented(@)]
  /\ Answer(i)
  /\ UNCHANGED <<limitClock, bucket, attempt>>

LimitTick ==
  /\ limitClock < MaxLimitClock
  /\ limitClock' = limitClock + 1
  /\ UNCHANGED <<bucket, tokenBucket, attempt, answered>>

LimitNext ==
  \/ \E p \in Request :
       \/ RejectLogin(p) \/ AdmitLogin(p) \/ RecordFailure(p)
       \/ RecordSuccess(p) \/ AbortLogin(p)
  \/ \E i \in Ip : AdmitToken(i)
  \/ LimitTick

LimitSpec == LimitInit /\ [][LimitNext]_limitVars

-----------------------------------------------------------------------------
(* The logins under way that will be counted in the bucket of x.           *)
UnderWay(x) ==
  {p \in Request : attempt[p] # Null /\ x \in Bucketed(attempt[p])}

(* The price of asking before the awaits and counting after them: within a *)
(* window, the wrong passwords counted and those still being tried never   *)
(* exceed the limit by more than the requests that can overlap, less one.  *)
OvershootBounded ==
  \A x \in Account \cup Ip :
    ~ Lapsed(bucket[x]) =>
      bucket[x].count + Cardinality(UnderWay(x)) <=
        MaxOf(x) - 1 + Cardinality(Request)

(* A window never lasts longer than it was opened for.                     *)
WindowBounded ==
  /\ \A x \in Account \cup Ip : bucket[x].resetAt <= limitClock + Window
  /\ \A i \in Ip : tokenBucket[i].resetAt <= limitClock + Window

(* The opening of the window that a bucket counts; of none, time 0.        *)
OpeningOf(b) == IF b.count = 0 THEN 0 ELSE b.resetAt - Window

(* A token bucket counts what was answered since its window opened, within *)
(* the limit; the first answer was at the opening, and none came after the *)
(* window but in a new one.                                                *)
TokenCounted ==
  \A i \in Ip :
    LET b == tokenBucket[i] IN
      /\ b.count <= TokenMax
      /\ IF b.count = 0 THEN b.resetAt = 0 ELSE Window <= b.resetAt
      /\ \A t \in Instant :
           limitClock < t \/ b.resetAt <= t =>
             answered[i][t] = answered[i][OpeningOf(b)] + b.count
      /\ b.count > 0 =>
           answered[i][OpeningOf(b)] < answered[i][OpeningOf(b) + 1]

(* No answer is taken back.                                                *)
AnswersAddUp ==
  \A i \in Ip : \A s, t \in Instant : s <= t => answered[i][s] <= answered[i][t]

(* A stretch that ends where a window opens and is shorter than one misses *)
(* at least the first request of the window before.                        *)
QuietBeforeOpening ==
  \A i \in Ip :
    LET o == OpeningOf(tokenBucket[i]) IN
      \A s \in Instant :
        s <= o /\ o < s + Window =>
          answered[i][o] < answered[i][s] + TokenMax

LimitIndInv ==
  /\ LimitTypeOK
  /\ OvershootBounded
  /\ WindowBounded
  /\ TokenCounted
  /\ AnswersAddUp
  /\ QuietBeforeOpening

(* Two fixed windows can meet in a stretch of that length, but the first   *)
(* request of the earlier one is then outside: no address is answered      *)
(* twice the limit in one.                                                 *)
TwoWindows ==
  \A i \in Ip, s \in Instant :
    s + Window \in Instant =>
      answered[i][s + Window] < answered[i][s] + 2 * TokenMax
=============================================================================
