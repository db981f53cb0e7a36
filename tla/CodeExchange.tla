---------------------------- MODULE CodeExchange ----------------------------
(***************************************************************************)
(* The authorization_codes table and everything that writes it: the end of *)
(* authorize, which inserts a code, its exchange at the token endpoint,    *)
(* and the DELETE of the clean-up script.                                  *)
(*                                                                         *)
(* An exchange is one transaction that locks the row of its code, but the  *)
(* services it calls on the way do not take part in it: the first refresh  *)
(* token and the audit event are committed on connections of their own.    *)
(* The database is the one described in RefreshTokens: row is committed    *)
(* state, owner the table of row locks.                                    *)
(*                                                                         *)
(* What becomes of a refresh-token family once it exists is in             *)
(* RefreshTokens, the steps of authorize before its insert are in          *)
(* ProviderSessions.                                                       *)
(***************************************************************************)
EXTENDS Naturals, FiniteSets

CONSTANTS
  Code,      \* identities of rows of authorization_codes
  Family,    \* identities of refresh-token families
  User,
  Client,
  Request,   \* slots in which requests run concurrently
  Null,      \* the null of a nullable column, and "no value"
  CodeTtl,   \* AUTHORIZATION_CODE_TTL_SECONDS
  MaxClock   \* bound on the clock

Operation == {"authorize", "exchangeAuthorizationCode", "cleanupExpiredState"}

ASSUME NullAssumption ==
  /\ Null \notin Nat
  /\ Null \notin Code
  /\ Null \notin Family
  /\ Null \notin User
  /\ Null \notin Client
  /\ Null \notin Request
  /\ Null \notin Operation

ASSUME LimitAssumption == CodeTtl \in Nat /\ MaxClock \in Nat

VARIABLES
  clock,         \* the time that new Date() and NOW() return
  row,           \* the codes
  owner,         \* the request that holds the lock of a row, or Null
  family,        \* the code a stored family was issued for, or Null
  granted,       \* how often the exchange of a code has been committed
  delivered,     \* the families whose token a client was given
  userActive,    \* users with status ACTIVE
  clientActive,  \* clients with status ACTIVE
  job            \* what each slot is doing

vars == <<clock, row, owner, family, granted, delivered, userActive,
          clientActive, job>>

-----------------------------------------------------------------------------
(* Rows and requests.                                                      *)

(* A code that is deleted is not issued again: it is a random string.      *)
Row == [state      : {"none", "stored", "deleted"},
        user       : User \cup {Null},
        client     : Client \cup {Null},
        issuedAt   : Nat,
        consumedAt : Nat \cup {Null}]

NoRow == [state |-> "none", user |-> Null, client |-> Null, issuedAt |-> 0,
          consumedAt |-> Null]

ExpiresAt(r) == r.issuedAt + CodeTtl

Stored == {c \in Code : row[c].state = "stored"}

Phase == {"idle", "insert", "lock", "client", "user", "consume", "issue",
          "audit", "commit", "statement", "delete"}

(* fits tells whether redirect_uri and code_verifier are those of the code,*)
(* family is the one issued on the way, todo and hit the rows a DELETE has *)
(* still to look at and those it deletes.                                  *)
Job == [phase  : Phase,
        op     : Operation \cup {Null},
        code   : Code \cup {Null},
        user   : User \cup {Null},
        client : Client \cup {Null},
        fits   : [uri : BOOLEAN, verifier : BOOLEAN],
        now    : Nat,
        family : Family \cup {Null},
        todo   : SUBSET Code,
        hit    : SUBSET Code]

Idle == [phase |-> "idle", op |-> Null, code |-> Null, user |-> Null,
         client |-> Null, fits |-> [uri |-> FALSE, verifier |-> FALSE],
         now |-> 0, family |-> Null, todo |-> {}, hit |-> {}]

(* The phases of an exchange that has found its code good, and those after *)
(* it has looked at the user.                                              *)
Holding == {"client", "user", "consume", "issue", "audit", "commit"}
Checked == {"consume", "issue", "audit", "commit"}

TypeOK ==
  /\ clock \in Nat
  /\ row \in [Code -> Row]
  /\ owner \in [Code -> Request \cup {Null}]
  /\ family \in [Family -> Code \cup {Null}]
  /\ granted \in [Code -> Nat]
  /\ delivered \subseteq Family
  /\ userActive \subseteq User
  /\ clientActive \subseteq Client
  /\ job \in [Request -> Job]
  /\ \A p \in Request :
       /\ job[p].phase \in Holding => job[p].code \in Code
       /\ job[p].phase = "insert" =>
            job[p].user \in User /\ job[p].client \in Client

-----------------------------------------------------------------------------
(* Pieces of the operations.                                               *)

Become(p, j)   == job' = [job EXCEPT ![p] = j]
Advance(p, ph) == Become(p, [job[p] EXCEPT !.phase = ph])

Free(c)    == owner[c] = Null
Lock(c, p) == owner' = [owner EXCEPT ![c] = p]

(* The end of the transaction of p, committed or rolled back.              *)
Finish(p) ==
  /\ owner' = [c \in Code |-> IF owner[c] = p THEN Null ELSE owner[c]]
  /\ Become(p, Idle)

People == <<userActive, clientActive>>
Output == <<family, granted, delivered>>

(* Mutant: a code is good whether it was consumed or not.                  *)
GoodThoughConsumed(j, r) ==
  /\ r.state = "stored"
  /\ ExpiresAt(r) > j.now
  /\ j.fits.uri

(* Mutant: the expiry instant still counts as valid.                       *)
GoodAtExpiry(j, r) ==
  /\ r.state = "stored"
  /\ r.consumedAt = Null
  /\ ExpiresAt(r) >= j.now
  /\ j.fits.uri

(* The checks of an exchange on the row it has locked.                     *)
Good(j, r) ==
  /\ r.state = "stored"
  /\ r.consumedAt = Null
  /\ ExpiresAt(r) > j.now
  /\ j.fits.uri

(* Mutant: the clean-up deletes what is about to expire.                   *)
DeletableEarly(j, r) ==
  /\ r.state = "stored"
  /\ ExpiresAt(r) <= j.now + 1 \/ r.consumedAt # Null

(* The WHERE clause of the clean-up.                                       *)
Deletable(j, r) ==
  /\ r.state = "stored"
  /\ ExpiresAt(r) <= j.now \/ r.consumedAt # Null

-----------------------------------------------------------------------------
Init ==
  /\ clock = 0
  /\ row = [c \in Code |-> NoRow]
  /\ owner = [c \in Code |-> Null]
  /\ family = [f \in Family |-> Null]
  /\ granted = [c \in Code |-> 0]
  /\ delivered = {}
  /\ userActive = User
  /\ clientActive = Client
  /\ job = [p \in Request |-> Idle]

(* authorize has read an active client and the session of an active user.  *)
Authorize(p, u, c) ==
  /\ job[p].phase = "idle"
  /\ u \in userActive /\ c \in clientActive
  /\ Become(p, [Idle EXCEPT !.phase = "insert", !.op = "authorize",
                           !.user = u, !.client = c, !.now = clock])
  /\ UNCHANGED <<clock, row, owner, Output, People>>

InsertCode(p, c) ==
  /\ job[p].phase = "insert"
  /\ row[c].state = "none"
  /\ row' = [row EXCEPT ![c] =
               [state |-> "stored", user |-> job[p].user,
                client |-> job[p].client, issuedAt |-> job[p].now,
                consumedAt |-> Null]]
  /\ Finish(p)
  /\ UNCHANGED <<clock, Output, People>>

(* A code arrives at the token endpoint; c = Null stands for a string that *)
(* was never a code, and d is the client the request authenticates as, Null*)
(* if its identifier or its secret is wrong.                               *)
Exchange(p, c, d, fits) ==
  /\ job[p].phase = "idle"
  /\ c # Null => row[c].state # "none"
  /\ Become(p, [Idle EXCEPT !.phase = "lock", !.code = c, !.client = d,
                           !.op = "exchangeAuthorizationCode",
                           !.fits = fits, !.now = clock])
  /\ UNCHANGED <<clock, row, owner, Output, People>>

(* SELECT .. FOR UPDATE returns no row, or one that is not good: 401.      *)
RejectCode(p) ==
  /\ job[p].phase = "lock"
  /\ job[p].code # Null => Free(job[p].code) /\ ~Good(job[p], row[job[p].code])
  /\ Finish(p)
  /\ UNCHANGED <<clock, row, Output, People>>

(* Mutant: the row is read without FOR UPDATE.                             *)
AcceptWithoutLock(p) ==
  /\ job[p].phase = "lock" /\ job[p].code # Null
  /\ Good(job[p], row[job[p].code])
  /\ Advance(p, "client")
  /\ UNCHANGED <<clock, row, owner, Output, People>>

AcceptCode(p) ==
  /\ job[p].phase = "lock" /\ job[p].code # Null
  /\ Free(job[p].code)
  /\ Good(job[p], row[job[p].code])
  /\ Lock(job[p].code, p)
  /\ Advance(p, "client")
  /\ UNCHANGED <<clock, row, Output, People>>

(* The client row is read without a lock; its authentication and the       *)
(* verifier are checked before the next await.                             *)
CheckClient(p) ==
  /\ job[p].phase = "client"
  /\ IF /\ job[p].client = row[job[p].code].client
        /\ job[p].client \in clientActive
        /\ job[p].fits.verifier
       THEN Advance(p, "user") /\ UNCHANGED owner
       ELSE Finish(p)
  /\ UNCHANGED <<clock, row, Output, People>>

(* Mutant: the status of the user is not looked at.                        *)
CheckNoUser(p) ==
  /\ job[p].phase = "user"
  /\ Advance(p, "consume")
  /\ UNCHANGED <<clock, row, owner, Output, People>>

(* So is the user row.                                                     *)
CheckUser(p) ==
  /\ job[p].phase = "user"
  /\ IF row[job[p].code].user \in userActive
       THEN Advance(p, "consume") /\ UNCHANGED owner
       ELSE Finish(p)
  /\ UNCHANGED <<clock, row, Output, People>>

(* consumed_at is set and saved, and a signing key is fetched.  Whether a  *)
(* refresh token follows depends on the scope and the switches of the      *)
(* client as it was read.                                                  *)
Consume(p) ==
  /\ job[p].phase = "consume"
  /\ \E next \in {"issue", "audit"} : Advance(p, next)
  /\ UNCHANGED <<clock, row, owner, Output, People>>

(* issueToken commits by itself.                                           *)
IssueRefreshToken(p, f) ==
  /\ job[p].phase = "issue"
  /\ family[f] = Null
  /\ family' = [family EXCEPT ![f] = job[p].code]
  /\ Become(p, [job[p] EXCEPT !.phase = "audit", !.family = f])
  /\ UNCHANGED <<clock, row, owner, granted, delivered, People>>

(* So does the audit event.                                                *)
Audit(p) ==
  /\ job[p].phase = "audit"
  /\ Advance(p, "commit")
  /\ UNCHANGED <<clock, row, owner, Output, People>>

(* Mutant: the transaction forgets the time of consumption.                *)
CommitUnconsumed(p) ==
  /\ job[p].phase = "commit"
  /\ granted' = [granted EXCEPT ![job[p].code] = @ + 1]
  /\ delivered' = delivered \cup ({job[p].family} \ {Null})
  /\ Finish(p)
  /\ UNCHANGED <<clock, row, family, People>>

(* The consumption is committed and the tokens are returned.               *)
CommitExchange(p) ==
  /\ job[p].phase = "commit"
  /\ row' = [row EXCEPT ![job[p].code].consumedAt = job[p].now]
  /\ granted' = [granted EXCEPT ![job[p].code] = @ + 1]
  /\ delivered' = delivered \cup ({job[p].family} \ {Null})
  /\ Finish(p)
  /\ UNCHANGED <<clock, family, People>>

Cleanup(p) ==
  /\ job[p].phase = "idle"
  /\ Become(p, [Idle EXCEPT !.phase = "statement", !.now = clock,
                           !.op = "cleanupExpiredState"])
  /\ UNCHANGED <<clock, row, owner, Output, People>>

(* The snapshot of the DELETE.                                             *)
MatchRows(p) ==
  /\ job[p].phase = "statement"
  /\ Become(p, [job[p] EXCEPT
       !.phase = "delete",
       !.todo = {c \in Code : Deletable(job[p], row[c])}])
  /\ UNCHANGED <<clock, row, owner, Output, People>>

(* One of its rows, once its lock is free, tested again.                   *)
DeleteRow(p, c) ==
  /\ job[p].phase = "delete" /\ c \in job[p].todo
  /\ Free(c)
  /\ Lock(c, p)
  /\ Become(p, [job[p] EXCEPT
       !.todo = @ \ {c},
       !.hit = IF Deletable(job[p], row[c]) THEN @ \cup {c} ELSE @])
  /\ UNCHANGED <<clock, row, Output, People>>

CommitDelete(p) ==
  /\ job[p].phase = "delete" /\ job[p].todo = {}
  /\ row' = [c \in Code |-> IF c \in job[p].hit
                              THEN [row[c] EXCEPT !.state = "deleted"]
                              ELSE row[c]]
  /\ Finish(p)
  /\ UNCHANGED <<clock, Output, People>>

(* An error in any await, or the end of the process: the transaction of p  *)
(* is rolled back, and what was committed on other connections stays.      *)
Fail(p) ==
  /\ job[p].phase # "idle"
  /\ Finish(p)
  /\ UNCHANGED <<clock, row, Output, People>>

SwitchUser(u) ==
  /\ userActive' = IF u \in userActive
                     THEN userActive \ {u}
                     ELSE userActive \cup {u}
  /\ UNCHANGED <<clock, row, owner, Output, clientActive, job>>

SwitchClient(c) ==
  /\ clientActive' = IF c \in clientActive
                       THEN clientActive \ {c}
                       ELSE clientActive \cup {c}
  /\ UNCHANGED <<clock, row, owner, Output, userActive, job>>

Tick ==
  /\ clock < MaxClock
  /\ clock' = clock + 1
  /\ UNCHANGED <<row, owner, Output, People, job>>

Start(p) ==
  \/ \E u \in User, c \in Client : Authorize(p, u, c)
  \/ \E c \in Code \cup {Null}, d \in Client \cup {Null},
        fits \in [uri : BOOLEAN, verifier : BOOLEAN] : Exchange(p, c, d, fits)
  \/ Cleanup(p)

Step(p) ==
  \/ RejectCode(p) \/ AcceptCode(p) \/ CheckClient(p) \/ CheckUser(p)
  \/ Consume(p) \/ Audit(p) \/ CommitExchange(p)
  \/ MatchRows(p) \/ CommitDelete(p)
  \/ \E c \in Code : InsertCode(p, c) \/ DeleteRow(p, c)
  \/ \E f \in Family : IssueRefreshToken(p, f)

Next ==
  \/ \E p \in Request : Start(p) \/ Step(p) \/ Fail(p)
  \/ \E u \in User : SwitchUser(u)
  \/ \E c \in Client : SwitchClient(c)
  \/ Tick

Spec == Init /\ [][Next]_vars

-----------------------------------------------------------------------------
(* Safety.                                                                 *)

(* The exchange of a code is committed at most once, however many requests *)
(* present it at once, fail and are repeated; and of the families that the *)
(* attempts have left behind, a client was given at most one.              *)
GrantedOnce ==
  /\ \A c \in Code : granted[c] <= 1
  /\ \A f, g \in delivered : family[f] = family[g] => f = g

(* A failed exchange does not burn its code: a code is consumed exactly if *)
(* an exchange was committed, by a request that began within the life of   *)
(* the code, though it may have waited for the row since.                  *)
ConsumedByGrant ==
  \A c \in Code :
    LET r == row[c]
    IN /\ r.consumedAt # Null <=> granted[c] = 1
       /\ r.consumedAt # Null =>
            r.issuedAt <= r.consumedAt /\ r.consumedAt < ExpiresAt(r)

(* The clean-up deletes no code that a request could still exchange, not   *)
(* even one that an exchange in progress consumes and rolls back.          *)
CleanupSpares ==
  [][\A c \in Stored : row'[c].state = "deleted" =>
       row[c].consumedAt # Null \/ ExpiresAt(row[c]) <= clock]_vars

(* A user whose status is not ACTIVE, with no exchange that has already    *)
(* passed the check of the status.                                         *)
ShutOut(u) ==
  /\ u \notin userActive
  /\ \A p \in Request : job[p].phase \in Checked => row[job[p].code].user # u

(* "Inactive users cannot login, authorize, or refresh": a user who is shut*)
(* out stays so and no code of theirs is exchanged, nor a family issued,   *)
(* until an administrator activates the user again.                        *)
NoGrantWhileInactive ==
  [][\A u \in User : ShutOut(u) /\ u \notin userActive' =>
       /\ ShutOut(u)'
       /\ \A c \in Code : row[c].user = u => granted'[c] = granted[c]
       /\ \A f \in Family :
            family'[f] # family[f] => row[family'[f]].user # u]_vars

-----------------------------------------------------------------------------
(* The inductive invariant.                                                *)

(* From the check of the code to the end of the exchange the request holds *)
(* its row, so nobody else consumes or deletes it.                         *)
ExchangeHoldsCode ==
  \A p \in Request : job[p].phase \in Holding =>
    /\ owner[job[p].code] = p
    /\ Good(job[p], row[job[p].code])
    /\ row[job[p].code].issuedAt <= job[p].now

(* A code that is presented was issued, and before the request began.      *)
PresentedIssued ==
  \A p \in Request : job[p].code # Null =>
    /\ row[job[p].code].state # "none"
    /\ row[job[p].code].issuedAt <= job[p].now

(* A family in the hands of an exchange is one of its code that nobody has.*)
FamilyOfExchange ==
  \A p \in Request : job[p].family # Null =>
    /\ job[p].phase \in {"audit", "commit"}
    /\ family[job[p].family] = job[p].code

(* A family was given out by the exchange that consumed its code.          *)
DeliveredByGrant ==
  \A f \in delivered :
    /\ family[f] # Null
    /\ granted[family[f]] = 1

(* What a DELETE has matched is locked and may be deleted.                 *)
HitDeletable ==
  \A p \in Request : \A c \in job[p].hit :
    /\ job[p].phase = "delete"
    /\ owner[c] = p
    /\ Deletable(job[p], row[c])

(* No request has a time from the future; a code that was never issued has *)
(* not been consumed.                                                      *)
PastOnly ==
  /\ \A p \in Request : job[p].now <= clock
  /\ \A c \in Code : row[c].issuedAt <= clock
  /\ \A c \in Code : row[c].state = "none" => row[c].consumedAt = Null

IndInv ==
  /\ TypeOK
  /\ ExchangeHoldsCode
  /\ PresentedIssued
  /\ FamilyOfExchange
  /\ DeliveredByGrant
  /\ HitDeletable
  /\ PastOnly
  /\ ConsumedByGrant
  /\ GrantedOnce

-----------------------------------------------------------------------------
(* Refinement.                                                             *)

OneTimeCode == INSTANCE OneTime
  WITH Item <- Code,
       offered <- {c \in Code : row[c].state # "none"},
       open <- {c \in Stored : row[c].consumedAt = Null},
       uses <- granted

(* The table keeps the promise of a single-use secret: a committed step    *)
(* offers a code, uses an open one, or withdraws some.                     *)
ImplementsOneTime == OneTimeCode!OneTimeSpec
=============================================================================
