--------------------------- MODULE RefreshTokens ---------------------------
(***************************************************************************)
(* The refresh-token table of the provider and everything that writes it:  *)
(* RefreshTokenService (issue, rotate, resolve, revoke), and the bulk      *)
(* UPDATEs of a user deactivation, of a password reset and of the clean-up *)
(* script.                                                                 *)
(*                                                                         *)
(* Every operation is a request that runs in a slot of its own (job[p]).   *)
(* Between two of its awaits any other slot may move.  The database is     *)
(* PostgreSQL at READ COMMITTED:                                           *)
(*   - row is the committed table; an uncommitted write is visible only to *)
(*     its own transaction, so it reaches row at the commit;               *)
(*   - owner is the table of row locks (SELECT .. FOR UPDATE, UPDATE),     *)
(*     held until the transaction ends;                                    *)
(*   - a statement reads a snapshot of the committed rows, and a statement *)
(*     that waited for a row lock sees the row as it is once it has it.    *)
(*                                                                         *)
(* A family is named by its first token (the code draws a random family id *)
(* together with the first token, so the two correspond one to one).       *)
(* Hashes, the upstream ciphertext, audit metadata and last_used_at (always*)
(* written together with rotated_to_token_id) are left out.                *)
(***************************************************************************)
EXTENDS Naturals, FiniteSets

CONSTANTS
  Token,        \* identities of rows of refresh_tokens
  User,
  Client,
  Request,      \* slots in which requests run concurrently
  Null,         \* the null of a nullable column, and "no value"
  IdleTtl,      \* client.refreshTokenIdleTtlSeconds
  AbsoluteTtl,  \* client.refreshTokenAbsoluteTtlSeconds
  WrappedTtl,   \* both lifetimes of a token rotated by the wrapper endpoint
  MaxClock,     \* bound on the clock
  Enabled       \* the operations that requests perform

Rotating  == {"rotateTokenForClient", "rotateToken"}
Bulk      == {"setUserStatus", "resetPassword", "cleanupExpiredState"}
Operation == Rotating \cup Bulk \cup
             {"issueToken", "resolveRefreshGrant", "revokePresentedToken",
              "revokeTokenFamily", "updateClient"}

ASSUME NullAssumption ==
  /\ Null \notin Nat
  /\ Null \notin Token
  /\ Null \notin User
  /\ Null \notin Client
  /\ Null \notin Request

ASSUME LimitAssumption ==
  /\ IdleTtl \in Nat
  /\ AbsoluteTtl \in Nat
  /\ WrappedTtl \in Nat
  /\ MaxClock \in Nat
  /\ Enabled \subseteq Operation

VARIABLES
  clock,          \* the time that new Date() and NOW() return
  row,            \* committed rows; family = Null where there is no row
  owner,          \* the request that holds the lock of a row, or Null
  userActive,     \* users with status ACTIVE
  clientEnabled,  \* clients that are ACTIVE and may use refresh tokens
  job             \* what each slot is doing

vars == <<clock, row, owner, userActive, clientEnabled, job>>

-----------------------------------------------------------------------------
(* Rows and requests.                                                      *)

Reason == {"rotated", "replay_detected", "client_revocation", "revoked",
           "user_deactivated", "password_reset", "expired"}

Row == [family            : Token \cup {Null},
        user              : User \cup {Null},
        client            : Client \cup {Null},
        parent            : Token \cup {Null},
        rotatedTo         : Token \cup {Null},
        issuedAt          : Nat,
        idleExpiresAt     : Nat,
        absoluteExpiresAt : Nat,
        revokedAt         : Nat \cup {Null},
        reason            : Reason \cup {Null}]

NoRow == [family |-> Null, user |-> Null, client |-> Null, parent |-> Null,
          rotatedTo |-> Null, issuedAt |-> 0, idleExpiresAt |-> 0,
          absoluteExpiresAt |-> 0, revokedAt |-> Null, reason |-> Null]

(* The columns that some operation writes after the insert.                *)
Column == {"rotatedTo", "revokedAt", "reason"}

Stored    == {t \in Token : row[t].family # Null}
Family(f) == {t \in Token : row[t].family = f}
Live(t)   == row[t].family # Null /\ row[t].revokedAt = Null
LiveSet   == {t \in Token : Live(t)}

Phase == {"idle", "insert", "lock", "client", "user", "write",
          "find", "reload", "statement", "update"}

(* copy holds the entities a request has in memory, changed the columns in *)
(* which they differ from the table, todo the rows still to be updated.    *)
Job == [phase   : Phase,
        op      : Operation \cup {Null},
        token   : Token \cup {Null},
        user    : User \cup {Null},
        client  : Client \cup {Null},
        now     : Nat,
        copy    : [Token -> Row],
        changed : [Token -> SUBSET Column],
        todo    : SUBSET Token]

Idle == [phase |-> "idle", op |-> Null, token |-> Null, user |-> Null,
         client |-> Null, now |-> 0, copy |-> [t \in Token |-> NoRow],
         changed |-> [t \in Token |-> {}], todo |-> {}]

TypeOK ==
  /\ clock \in Nat
  /\ row \in [Token -> Row]
  /\ owner \in [Token -> Request \cup {Null}]
  /\ userActive \subseteq User
  /\ clientEnabled \subseteq Client
  /\ job \in [Request -> Job]
  /\ \A p \in Request :
       job[p].phase \in {"client", "user", "write"} => job[p].token \in Token

-----------------------------------------------------------------------------
(* Pieces of the operations.                                               *)

Become(p, j)   == job' = [job EXCEPT ![p] = j]
Advance(p, ph) == Become(p, [job[p] EXCEPT !.phase = ph])

Free(t)    == owner[t] = Null
Lock(t, p) == owner' = [owner EXCEPT ![t] = p]

(* Mutant: the transaction ends and its row locks stay.                    *)
FinishKeepsLocks(p) == Become(p, Idle) /\ UNCHANGED owner

(* The end of the transaction of p, committed or rolled back.              *)
Finish(p) ==
  /\ owner' = [t \in Token |-> IF owner[t] = p THEN Null ELSE owner[t]]
  /\ Become(p, Idle)

(* Mutant: a revoked token is still accepted.                              *)
UsableThoughRevoked(r, now) ==
  r.idleExpiresAt > now /\ r.absoluteExpiresAt > now

(* Mutant: the expiry instant still counts as valid.                       *)
UsableAtExpiry(r, now) ==
  r.revokedAt = Null /\ r.idleExpiresAt >= now /\ r.absoluteExpiresAt >= now

(* assertTokenIsUsable *)
Usable(r, now) ==
  /\ r.revokedAt = Null
  /\ r.idleExpiresAt > now
  /\ r.absoluteExpiresAt > now

FirstRow(t, u, c, now) ==
  [family |-> t, user |-> u, client |-> c, parent |-> Null,
   rotatedTo |-> Null, issuedAt |-> now,
   idleExpiresAt |-> now + IdleTtl, absoluteExpiresAt |-> now + AbsoluteTtl,
   revokedAt |-> Null, reason |-> Null]

(* The successor's absolute lifetime is counted from the issue of the      *)
(* token that is exchanged, not from the start of the family.              *)
SuccessorRow(t, now, idle, absolute) ==
  [row[t] EXCEPT !.parent = t,
                 !.issuedAt = now,
                 !.idleExpiresAt = now + idle,
                 !.absoluteExpiresAt = row[t].issuedAt + absolute]

(* Mutant: the exchanged token is linked but not revoked.                  *)
RotatedNotRevoked(r, s, now) == [r EXCEPT !.rotatedTo = s]

(* Mutant: the exchanged token is revoked but not linked.                  *)
RotatedNotLinked(r, s, now) ==
  [r EXCEPT !.revokedAt = now, !.reason = "rotated"]

Rotated(r, s, now) ==
  [r EXCEPT !.rotatedTo = s, !.revokedAt = now, !.reason = "rotated"]

(* Mutant: the loop sets the reason and not the time.                      *)
FilledReasonOnly(r, now, why) ==
  [r EXCEPT !.reason = IF @ = Null THEN why ELSE @]

(* The loop of revokeFamily: what is already there stays.                  *)
Filled(r, now, why) ==
  [r EXCEPT !.revokedAt = IF @ = Null THEN now ELSE @,
            !.reason    = IF @ = Null THEN why ELSE @]

(* The columns that save() finds different from the row it selects again.  *)
Differing(entity, stored) ==
  {c \in Column : entity[c] # stored[c]}

(* Mutant: the time of revocation is not written.                          *)
WrittenWithoutTime(stored, entity, columns) ==
  [stored EXCEPT
     !.reason = IF "reason" \in columns THEN entity.reason ELSE @]

(* UPDATE .. SET the given columns from the entity, and no other column.   *)
Written(stored, entity, columns) ==
  [stored EXCEPT
     !.rotatedTo = IF "rotatedTo" \in columns THEN entity.rotatedTo ELSE @,
     !.revokedAt = IF "revokedAt" \in columns THEN entity.revokedAt ELSE @,
     !.reason    = IF "reason" \in columns THEN entity.reason ELSE @]

WhyFamily(op) ==
  CASE op = "revokePresentedToken" -> "client_revocation"
    [] op = "revokeTokenFamily"    -> "revoked"
    [] OTHER                       -> "replay_detected"

WhyBulk(op) ==
  CASE op = "setUserStatus" -> "user_deactivated"
    [] op = "resetPassword" -> "password_reset"
    [] OTHER                -> "expired"

(* The WHERE clause of a bulk UPDATE on a row.                             *)
Matches(j, r, now) ==
  /\ r.family # Null
  /\ r.revokedAt = Null
  /\ IF j.op = "cleanupExpiredState"
       THEN r.idleExpiresAt <= now \/ r.absoluteExpiresAt <= now
       ELSE r.user = j.user

-----------------------------------------------------------------------------
Init ==
  /\ clock = 0
  /\ row = [t \in Token |-> NoRow]
  /\ owner = [t \in Token |-> Null]
  /\ userActive = User
  /\ clientEnabled = Client
  /\ job = [p \in Request |-> Idle]

(* issueToken, for the code exchange, which has read an active user and    *)
(* client, or for a wrapped code grant, which looks at the client only; the*)
(* insert is a transaction of its own.                                     *)
StartIssue(p, u, c) ==
  /\ job[p].phase = "idle" /\ "issueToken" \in Enabled
  /\ u \in User /\ c \in clientEnabled
  /\ Become(p, [Idle EXCEPT !.phase = "insert", !.op = "issueToken",
                           !.user = u, !.client = c, !.now = clock])
  /\ UNCHANGED <<clock, row, owner, userActive, clientEnabled>>

InsertToken(p, t) ==
  /\ job[p].phase = "insert"
  /\ t \notin Stored
  /\ row' = [row EXCEPT ![t] =
               FirstRow(t, job[p].user, job[p].client, job[p].now)]
  /\ Finish(p)
  /\ UNCHANGED <<clock, userActive, clientEnabled>>

(* A request presents a token; t = Null stands for a string no row has.    *)
(* client is the client the request authenticates as, Null if its          *)
(* identifier or its secret is wrong.                                      *)
Present(p, op, t, c) ==
  /\ job[p].phase = "idle" /\ op \in Enabled
  /\ op \in Rotating \cup {"resolveRefreshGrant", "revokePresentedToken"}
  /\ op # "rotateTokenForClient" => c = Null
  /\ Become(p, [Idle EXCEPT !.phase = "lock", !.op = op, !.token = t,
                           !.client = c, !.now = clock])
  /\ UNCHANGED <<clock, row, owner, userActive, clientEnabled>>

(* SELECT .. FOR UPDATE of the presented row has returned.                 *)
Presented(p) ==
  /\ job[p].phase = "lock"
  /\ job[p].token # Null
  /\ Free(job[p].token)

(* Unknown token: 401, or nothing to do for a revocation.                  *)
RejectUnknown(p) ==
  /\ job[p].phase = "lock" /\ job[p].token = Null
  /\ Finish(p)
  /\ UNCHANGED <<clock, row, userActive, clientEnabled>>

(* A token that was exchanged before: its family is to be revoked.         *)
DetectReplay(p) ==
  /\ Presented(p) /\ job[p].op # "revokePresentedToken"
  /\ row[job[p].token].rotatedTo # Null
  /\ Lock(job[p].token, p)
  /\ Advance(p, "find")
  /\ UNCHANGED <<clock, row, userActive, clientEnabled>>

(* A revoked or expired token: 401, the transaction is rolled back.        *)
RejectUnusable(p) ==
  /\ Presented(p) /\ job[p].op # "revokePresentedToken"
  /\ row[job[p].token].rotatedTo = Null
  /\ ~Usable(row[job[p].token], job[p].now)
  /\ Finish(p)
  /\ UNCHANGED <<clock, row, userActive, clientEnabled>>

(* resolveRefreshGrant: the upstream token is returned, nothing changes.   *)
Resolve(p) ==
  /\ Presented(p) /\ job[p].op = "resolveRefreshGrant"
  /\ row[job[p].token].rotatedTo = Null
  /\ Usable(row[job[p].token], job[p].now)
  /\ Finish(p)
  /\ UNCHANGED <<clock, row, userActive, clientEnabled>>

(* Mutant: the presented row is read without FOR UPDATE.                   *)
AcceptWithoutLock(p) ==
  /\ Presented(p) /\ job[p].op \in Rotating
  /\ row[job[p].token].rotatedTo = Null
  /\ Usable(row[job[p].token], job[p].now)
  /\ Advance(p, IF job[p].op = "rotateToken" THEN "write" ELSE "client")
  /\ UNCHANGED <<clock, row, owner, userActive, clientEnabled>>

AcceptForRotation(p) ==
  /\ Presented(p) /\ job[p].op \in Rotating
  /\ row[job[p].token].rotatedTo = Null
  /\ Usable(row[job[p].token], job[p].now)
  /\ Lock(job[p].token, p)
  /\ Advance(p, IF job[p].op = "rotateToken" THEN "write" ELSE "client")
  /\ UNCHANGED <<clock, row, userActive, clientEnabled>>

(* The client row is read without a lock.                                  *)
CheckClient(p) ==
  /\ job[p].phase = "client"
  /\ IF job[p].client = row[job[p].token].client
        /\ job[p].client \in clientEnabled
       THEN Advance(p, "user") /\ UNCHANGED owner
       ELSE Finish(p)
  /\ UNCHANGED <<clock, row, userActive, clientEnabled>>

(* So is the user row.                                                     *)
CheckUser(p) ==
  /\ job[p].phase = "user"
  /\ IF row[job[p].token].user \in userActive
       THEN Advance(p, "write") /\ UNCHANGED owner
       ELSE Finish(p)
  /\ UNCHANGED <<clock, row, userActive, clientEnabled>>

(* The successor's insert and the update of the exchanged row commit       *)
(* together; the row has been locked since it was read.                    *)
CommitRotation(p, s) ==
  LET t       == job[p].token
      wrapped == job[p].op = "rotateToken"
  IN /\ job[p].phase = "write"
     /\ s \notin Stored
     /\ row' = [row EXCEPT
          ![s] = SuccessorRow(t, job[p].now,
                              IF wrapped THEN WrappedTtl ELSE IdleTtl,
                              IF wrapped THEN WrappedTtl ELSE AbsoluteTtl),
          ![t] = Rotated(@, s, job[p].now)]
     /\ Finish(p)
     /\ UNCHANGED <<clock, userActive, clientEnabled>>

(* revokePresentedToken takes its time of revocation once it has the row.  *)
AcceptForRevocation(p) ==
  /\ Presented(p) /\ job[p].op = "revokePresentedToken"
  /\ Lock(job[p].token, p)
  /\ Become(p, [job[p] EXCEPT !.phase = "find", !.now = clock])
  /\ UNCHANGED <<clock, row, userActive, clientEnabled>>

(* revokeTokenFamily is given a family and locks nothing first.            *)
StartFamilyRevocation(p, f) ==
  /\ job[p].phase = "idle" /\ "revokeTokenFamily" \in Enabled
  /\ row[f].family = f
  /\ Become(p, [Idle EXCEPT !.phase = "find", !.op = "revokeTokenFamily",
                           !.token = f, !.now = clock])
  /\ UNCHANGED <<clock, row, owner, userActive, clientEnabled>>

(* revokeFamily, find(): the family as it is committed now, not locked;    *)
(* the loop fills in the copies.                                           *)
FindFamily(p) ==
  /\ job[p].phase = "find"
  /\ Become(p, [job[p] EXCEPT
       !.phase = "reload",
       !.copy = [t \in Token |->
          IF t \in Family(row[job[p].token].family)
            THEN Filled(row[t], job[p].now, WhyFamily(job[p].op))
            ELSE NoRow]])
  /\ UNCHANGED <<clock, row, owner, userActive, clientEnabled>>

(* revokeFamily, save(): select the rows again and compare.                *)
Reload(p) ==
  LET Diff(t) == IF job[p].copy[t].family = Null THEN {}
                   ELSE Differing(job[p].copy[t], row[t])
  IN /\ job[p].phase = "reload"
     /\ Become(p, [job[p] EXCEPT
          !.phase = "update",
          !.changed = [t \in Token |-> Diff(t)],
          !.todo = {t \in Token : Diff(t) # {}}])
     /\ UNCHANGED <<clock, row, owner, userActive, clientEnabled>>

(* Mutant: an UPDATE does not wait for the lock of its row.                *)
UpdateWithoutLock(p, t) ==
  /\ job[p].phase = "update" /\ t \in job[p].todo
  /\ Become(p, [job[p] EXCEPT !.todo = @ \ {t}])
  /\ UNCHANGED <<clock, row, owner, userActive, clientEnabled>>

(* One row of the UPDATEs, once its lock is free or already held.  A bulk  *)
(* UPDATE tests its WHERE clause again on the row it has waited for.       *)
UpdateRow(p, t) ==
  /\ job[p].phase = "update" /\ t \in job[p].todo
  /\ owner[t] \in {Null, p}
  /\ Lock(t, p)
  /\ Become(p, [job[p] EXCEPT
       !.todo = @ \ {t},
       !.changed[t] =
          IF job[p].op \notin Bulk THEN @
            ELSE IF Matches(job[p], row[t], job[p].now)
                   THEN {"revokedAt", "reason"}
                   ELSE {}])
  /\ UNCHANGED <<clock, row, userActive, clientEnabled>>

CommitRevocation(p) ==
  /\ job[p].phase = "update" /\ job[p].todo = {}
  /\ row' = [t \in Token |->
               Written(row[t], job[p].copy[t], job[p].changed[t])]
  /\ Finish(p)
  /\ UNCHANGED <<clock, userActive, clientEnabled>>

(* setUserStatus(DEACTIVATED): the user is saved, and then, in statements  *)
(* of their own, sessions and tokens are revoked.                          *)
Deactivate(p, u) ==
  /\ job[p].phase = "idle" /\ "setUserStatus" \in Enabled
  /\ userActive' = userActive \ {u}
  /\ Become(p, [Idle EXCEPT !.phase = "statement", !.op = "setUserStatus",
                           !.user = u, !.now = clock])
  /\ UNCHANGED <<clock, row, owner, clientEnabled>>

(* resetPassword: the reset was found valid and has been consumed.         *)
ResetPassword(p, u) ==
  /\ job[p].phase = "idle" /\ "resetPassword" \in Enabled
  /\ u \in userActive
  /\ Become(p, [Idle EXCEPT !.phase = "statement", !.op = "resetPassword",
                           !.user = u, !.now = clock])
  /\ UNCHANGED <<clock, row, owner, userActive, clientEnabled>>

Cleanup(p) ==
  /\ job[p].phase = "idle" /\ "cleanupExpiredState" \in Enabled
  /\ Become(p, [Idle EXCEPT !.phase = "statement", !.now = clock,
                           !.op = "cleanupExpiredState"])
  /\ UNCHANGED <<clock, row, owner, userActive, clientEnabled>>

(* The snapshot of a bulk UPDATE.                                          *)
MatchRows(p) ==
  LET hit == {t \in Token : Matches(job[p], row[t], job[p].now)}
  IN /\ job[p].phase = "statement"
     /\ Become(p, [job[p] EXCEPT
          !.phase = "update",
          !.todo = hit,
          !.copy = [t \in Token |->
             IF t \in hit
               THEN Filled(row[t], job[p].now, WhyBulk(job[p].op))
               ELSE NoRow]])
     /\ UNCHANGED <<clock, row, owner, userActive, clientEnabled>>

(* An error in any await (the audit insert, the connection, a deadlock     *)
(* victim) or the end of the process: the transaction is rolled back.      *)
Fail(p) ==
  /\ job[p].phase # "idle"
  /\ Finish(p)
  /\ UNCHANGED <<clock, row, userActive, clientEnabled>>

(* setUserStatus to any other status than DEACTIVATED, and the status and  *)
(* refresh-token switches of a client: single saves.                       *)
SwitchUser(u) ==
  /\ "setUserStatus" \in Enabled
  /\ userActive' = IF u \in userActive
                     THEN userActive \ {u}
                     ELSE userActive \cup {u}
  /\ UNCHANGED <<clock, row, owner, clientEnabled, job>>

SwitchClient(c) ==
  /\ "updateClient" \in Enabled
  /\ clientEnabled' = IF c \in clientEnabled
                        THEN clientEnabled \ {c}
                        ELSE clientEnabled \cup {c}
  /\ UNCHANGED <<clock, row, owner, userActive, job>>

Tick ==
  /\ clock < MaxClock
  /\ clock' = clock + 1
  /\ UNCHANGED <<row, owner, userActive, clientEnabled, job>>

(* The steps a request takes by itself once it has begun.                  *)
Step(p) ==
  \/ RejectUnknown(p) \/ DetectReplay(p) \/ RejectUnusable(p) \/ Resolve(p)
  \/ AcceptForRotation(p) \/ CheckClient(p) \/ CheckUser(p)
  \/ AcceptForRevocation(p) \/ FindFamily(p) \/ Reload(p)
  \/ MatchRows(p) \/ CommitRevocation(p)
  \/ \E t \in Token :
       InsertToken(p, t) \/ CommitRotation(p, t) \/ UpdateRow(p, t)

Arrive(p) ==
  \/ \E u \in User, c \in Client : StartIssue(p, u, c)
  \/ \E op \in Operation, t \in Stored \cup {Null}, c \in Client \cup {Null} :
       Present(p, op, t, c)
  \/ \E f \in Token : StartFamilyRevocation(p, f)
  \/ \E u \in User : Deactivate(p, u) \/ ResetPassword(p, u)
  \/ Cleanup(p)

Next ==
  \/ \E p \in Request : Arrive(p) \/ Step(p) \/ Fail(p)
  \/ \E u \in User : SwitchUser(u)
  \/ \E c \in Client : SwitchClient(c)
  \/ Tick

Spec == Init /\ [][Next]_vars

-----------------------------------------------------------------------------
(* Safety.                                                                 *)

(* At most one token of a family can still be exchanged, whatever requests *)
(* overlap: rotation locks the presented row before it looks at it, and no *)
(* save or bulk update makes a revoked token live again.                   *)
OneLivePerFamily ==
  \A t, s \in LiveSet : row[t].family = row[s].family => t = s

(* A token is exchanged at most once: two successors never have the same   *)
(* parent, even where a stale save() has cleared the parent's              *)
(* rotated_to_token_id and the replay check no longer sees it.             *)
ExchangedOnce ==
  \A t, s \in Stored :
    row[t].parent # Null /\ row[t].parent = row[s].parent => t = s

(* A successor continues its parent: same family, user and client, issued  *)
(* no earlier than the parent, and before the parent expired, though the   *)
(* time of the exchange was taken before the parent's row was locked.  The *)
(* link of a token leads to no row but its own successor.                  *)
ChainLinked ==
  \A t \in Stored :
    /\ row[t].parent # Null =>
         LET q == row[row[t].parent]
         IN /\ <<q.family, q.user, q.client>>
                 = <<row[t].family, row[t].user, row[t].client>>
            /\ q.issuedAt <= row[t].issuedAt
            /\ row[t].issuedAt < q.idleExpiresAt
            /\ row[t].issuedAt < q.absoluteExpiresAt
    /\ row[t].rotatedTo # Null => row[row[t].rotatedTo].parent = t

(* A revocation is permanent: no later write, however stale the entity it  *)
(* is made from, takes a token's revocation back.                          *)
RevocationPermanent ==
  [][\A t \in Stored : row[t].revokedAt # Null => row'[t].revokedAt # Null]_vars

(* The requests whose row locks p may be waiting for.                      *)
Awaited(p) ==
  CASE job[p].phase = "lock" /\ job[p].token # Null ->
         {owner[job[p].token]} \ {Null, p}
    [] job[p].phase = "update" ->
         {owner[t] : t \in job[p].todo} \ {Null, p}
    [] OTHER -> {}

(* p is one of a set of requests that wait for each other: revokeFamily    *)
(* updates the rows of a family one by one, in the order find() returned   *)
(* them, while it holds the presented row, and so does a bulk UPDATE.      *)
InLockCycle(p) ==
  \E S \in SUBSET Request :
    /\ p \in S
    /\ \A q \in S : Awaited(q) \cap S # {}

(* The revocation of a family has just been committed by p.                *)
RevokesFamily(p) ==
  /\ job[p].op \notin Bulk
  /\ CommitRevocation(p)

(* "User deactivation immediately revokes existing sessions and refresh    *)
(* tokens": when its UPDATE commits, no family of which it has found a     *)
(* token has a live token.                                                 *)
DeactivationRevokesFamilies ==
  [][\A p \in Request :
       job[p].op = "setUserStatus" /\ CommitRevocation(p) =>
         \A t \in Stored :
           (\E s \in Token : job[p].copy[s].family = row[t].family)
             => row'[t].revokedAt # Null]_vars

-----------------------------------------------------------------------------
(* The inductive invariant behind OneLivePerFamily and ExchangedOnce.      *)

(* The first token of a family names it, and is stored.                    *)
FamilyRooted ==
  \A t \in Stored : row[row[t].family].family = row[t].family

(* A token that has a successor is stored and revoked.                     *)
ParentSpent ==
  \A t \in Stored : row[t].parent # Null =>
    /\ row[t].parent \in Stored
    /\ row[row[t].parent].revokedAt # Null

(* A request works on a token that is stored.                              *)
RequestedStored ==
  \A p \in Request : job[p].token # Null => job[p].token \in Stored

(* From the check of the presented token to the commit of its exchange the *)
(* request holds its row, so it is still live.                             *)
RotationHoldsToken ==
  \A p \in Request : job[p].phase \in {"client", "user", "write"} =>
    /\ job[p].token \in LiveSet
    /\ owner[job[p].token] = p

(* A row is written only under its lock.                                   *)
LockedBeforeWrite ==
  \A p \in Request : \A t \in Token :
    job[p].changed[t] # {} =>
      /\ job[p].phase = "update"
      /\ t \in job[p].todo \/ owner[t] = p

(* An entity that a revocation writes back is a revoked one.               *)
CopiesRevoked ==
  \A p \in Request : \A t \in Token :
    \/ job[p].phase = "reload" /\ job[p].copy[t].family # Null
    \/ job[p].phase = "update"
         /\ (t \in job[p].todo \/ job[p].changed[t] # {})
    => job[p].copy[t].revokedAt # Null

IndInv ==
  /\ TypeOK
  /\ FamilyRooted
  /\ ParentSpent
  /\ RequestedStored
  /\ RotationHoldsToken
  /\ LockedBeforeWrite
  /\ CopiesRevoked
  /\ OneLivePerFamily
  /\ ExchangedOnce

-----------------------------------------------------------------------------
(* Refinement.                                                             *)

Chain == INSTANCE TokenChain
           WITH family <- [t \in Token |-> row[t].family], live <- LiveSet

(* The table implements the promise of TokenChain: whatever requests,      *)
(* bulk updates and failures overlap, a committed step issues a token,     *)
(* exchanges a live token for one successor, or revokes live tokens.       *)
ImplementsChain == Chain!ChainSpec

-----------------------------------------------------------------------------
(* Liveness.                                                               *)

(* The bound on tokens: a request that needs a new identity when all are   *)
(* in use fails instead of waiting for one.                                *)
OutOfTokens(p) ==
  /\ Stored = Token
  /\ job[p].phase \in {"insert", "write"}
  /\ Fail(p)

(* PostgreSQL's deadlock detector makes one of the waiting statements fail. *)
DeadlockVictim(p) == InLockCycle(p) /\ Fail(p)

(* A started request goes on: the event loop resumes it, and PostgreSQL    *)
(* grants a row lock that becomes free to its waiters in turn.  Nothing is *)
(* assumed of failures, arrivals, administrators or the clock.             *)
Fairness ==
  \A p \in Request : 
    SF_vars(Step(p)) /\ WF_vars(OutOfTokens(p)) /\ WF_vars(DeadlockVictim(p))

FairSpec == Spec /\ Fairness

(* Every request ends, although it waits for row locks with no timeout.    *)
RequestsEnd ==
  \A p \in Request : (job[p].phase # "idle") ~> (job[p].phase = "idle")
=============================================================================
