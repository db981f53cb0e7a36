-------------------------- MODULE ProviderSessions --------------------------
(***************************************************************************)
(* The provider_sessions table and everything that writes it: login,       *)
(* authorize, logout (also as end-session), and the bulk UPDATEs of a user *)
(* deactivation, of a password reset and of the clean-up script.           *)
(*                                                                         *)
(* Unlike the refresh tokens, no session is ever read under a lock and no  *)
(* request runs in a transaction: each statement commits by itself, and    *)
(* between two statements any other request may move.  TypeORM's save() of *)
(* an entity that was loaded before is two statements: a SELECT of the row *)
(* as it is now, and an UPDATE of the columns in which the entity differs  *)
(* from it.                                                                *)
(*                                                                         *)
(* A session is named by its row; its cookie, hash, address and user agent *)
(* are left out.  Client, redirect URI and scope checks of authorize come  *)
(* before it reads the session and change nothing: a request they refuse   *)
(* is one that never arrives here.                                         *)
(***************************************************************************)
EXTENDS Naturals, FiniteSets

CONSTANTS
  Session,      \* identities of rows of provider_sessions
  Code,         \* identities of rows of authorization_codes
  User,
  Request,      \* slots in which requests run concurrently
  Null,         \* the null of a nullable column, and "no value"
  IdleTtl,      \* providerSessionIdleTtlSeconds
  AbsoluteTtl,  \* providerSessionAbsoluteTtlSeconds
  MaxClock,     \* bound on the clock
  Enabled       \* the operations that requests perform

Bulk      == {"setUserStatus", "resetPassword", "cleanupExpiredState"}
Operation == Bulk \cup {"login", "authorize", "logout"}

ASSUME NullAssumption ==
  /\ Null \notin Nat
  /\ Null \notin Session
  /\ Null \notin User
  /\ Null \notin Operation

ASSUME LimitAssumption ==
  /\ IdleTtl \in Nat
  /\ AbsoluteTtl \in Nat
  /\ MaxClock \in Nat
  /\ Enabled \subseteq Operation

VARIABLES
  clock,       \* the time that new Date() and NOW() return
  row,         \* the sessions; user = Null where there is no row
  code,        \* the session an authorization code was issued on, or Null
  userActive,  \* users with status ACTIVE
  job          \* what each slot is doing

vars == <<clock, row, code, userActive, job>>

-----------------------------------------------------------------------------
(* Rows and requests.                                                      *)

Reason == {"user_logout", "user_deactivated", "password_reset", "expired"}

Row == [user              : User \cup {Null},
        lastSeenAt        : Nat,
        idleExpiresAt     : Nat,
        absoluteExpiresAt : Nat,
        revokedAt         : Nat \cup {Null},
        reason            : Reason \cup {Null}]

NoRow == [user |-> Null, lastSeenAt |-> 0, idleExpiresAt |-> 0,
          absoluteExpiresAt |-> 0, revokedAt |-> Null, reason |-> Null]

(* The columns that some operation writes after the insert.                *)
Column == {"lastSeenAt", "revokedAt", "reason"}

Stored     == {s \in Session : row[s].user # Null}
Ended(s)   == row[s].revokedAt # Null
CodesOf(s) == {c \in Code : code[c] = s}

Phase == {"idle", "signIn", "issue", "resolve", "user", "reload", "update",
          "code", "statement", "commit"}

(* copy is the session entity in memory, changed the columns in which it   *)
(* differs from the table, hit the rows a bulk UPDATE has matched.         *)
Job == [phase   : Phase,
        op      : Operation \cup {Null},
        session : Session \cup {Null},
        user    : User \cup {Null},
        now     : Nat,
        copy    : Row,
        changed : SUBSET Column,
        hit     : SUBSET Session]

Idle == [phase |-> "idle", op |-> Null, session |-> Null, user |-> Null,
         now |-> 0, copy |-> NoRow, changed |-> {}, hit |-> {}]

TypeOK ==
  /\ clock \in Nat
  /\ row \in [Session -> Row]
  /\ code \in [Code -> Session \cup {Null}]
  /\ userActive \subseteq User
  /\ job \in [Request -> Job]
  /\ \A p \in Request :
       /\ job[p].phase \in {"user", "reload", "update", "code"} =>
            job[p].session \in Session
       /\ job[p].phase \in {"signIn", "issue"} => job[p].user \in User

-----------------------------------------------------------------------------
(* Pieces of the operations.                                               *)

Become(p, j)   == job' = [job EXCEPT ![p] = j]
Advance(p, ph) == Become(p, [job[p] EXCEPT !.phase = ph])
Finish(p)      == Become(p, Idle)

Unchanged == UNCHANGED <<clock, row, code, userActive>>

NewSession(u, now) ==
  [user |-> u, lastSeenAt |-> now, idleExpiresAt |-> now + IdleTtl,
   absoluteExpiresAt |-> now + AbsoluteTtl, revokedAt |-> Null,
   reason |-> Null]

(* Mutant: only the expiry is looked at.                                   *)
UsableThoughRevoked(r, now) ==
  r.user # Null /\ r.idleExpiresAt > now /\ r.absoluteExpiresAt > now

(* resolveProviderSession *)
Usable(r, now) ==
  /\ r.user # Null
  /\ r.revokedAt = Null
  /\ r.idleExpiresAt > now
  /\ r.absoluteExpiresAt > now

(* Mutant: the reason is set and not the time.                             *)
RevokedReasonOnly(r, now, why) == [r EXCEPT !.reason = why]

Revoked(r, now, why) == [r EXCEPT !.revokedAt = now, !.reason = why]

(* UPDATE .. SET the given columns from the entity, and no other column.   *)
Written(stored, entity, columns) ==
  [stored EXCEPT
     !.lastSeenAt = IF "lastSeenAt" \in columns THEN entity.lastSeenAt ELSE @,
     !.revokedAt  = IF "revokedAt" \in columns THEN entity.revokedAt ELSE @,
     !.reason     = IF "reason" \in columns THEN entity.reason ELSE @]

(* COALESCE in the clean-up script keeps a reason that is there.           *)
WhyBulk(op, r) ==
  CASE op = "setUserStatus" -> "user_deactivated"
    [] op = "resetPassword" -> "password_reset"
    [] OTHER                -> IF r.reason = Null THEN "expired" ELSE r.reason

(* The WHERE clause of a bulk UPDATE on a row.                             *)
Matches(j, r) ==
  /\ r.user # Null
  /\ r.revokedAt = Null
  /\ IF j.op = "cleanupExpiredState"
       THEN r.idleExpiresAt <= j.now \/ r.absoluteExpiresAt <= j.now
       ELSE r.user = j.user

-----------------------------------------------------------------------------
Init ==
  /\ clock = 0
  /\ row = [s \in Session |-> NoRow]
  /\ code = [c \in Code |-> Null]
  /\ userActive = User
  /\ job = [p \in Request |-> Idle]

(* Mutant: the status of the user is not looked at.                        *)
LoginAnyUser(p, u) ==
  /\ job[p].phase = "idle" /\ "login" \in Enabled
  /\ Become(p, [Idle EXCEPT !.phase = "signIn", !.op = "login", !.user = u])
  /\ Unchanged

(* login: the user was found and is active; the credentials go to Better   *)
(* Auth.                                                                   *)
Login(p, u) ==
  /\ job[p].phase = "idle" /\ "login" \in Enabled
  /\ u \in userActive
  /\ Become(p, [Idle EXCEPT !.phase = "signIn", !.op = "login", !.user = u])
  /\ Unchanged

(* Better Auth accepts them (where it does not, the request fails).        *)
SignIn(p) ==
  /\ job[p].phase = "signIn"
  /\ Become(p, [job[p] EXCEPT !.phase = "issue", !.now = clock])
  /\ Unchanged

IssueSession(p, s) ==
  /\ job[p].phase = "issue"
  /\ s \notin Stored
  /\ row' = [row EXCEPT ![s] = NewSession(job[p].user, job[p].now)]
  /\ Finish(p)
  /\ UNCHANGED <<clock, code, userActive>>

(* A request with the cookie of a session; s = Null stands for no cookie,  *)
(* or one that no row has.                                                 *)
Arrive(p, op, s) ==
  /\ job[p].phase = "idle" /\ op \in Enabled \cap {"authorize", "logout"}
  /\ Become(p, [Idle EXCEPT !.phase = "resolve", !.op = op, !.session = s,
                           !.now = clock])
  /\ Unchanged

(* authorize finds no session that is valid: the login page.               *)
SendToLogin(p) ==
  /\ job[p].phase = "resolve" /\ job[p].op = "authorize"
  /\ job[p].session # Null => ~Usable(row[job[p].session], job[p].now)
  /\ Finish(p)
  /\ Unchanged

ResolveSession(p) ==
  /\ job[p].phase = "resolve" /\ job[p].op = "authorize"
  /\ job[p].session # Null
  /\ Usable(row[job[p].session], job[p].now)
  /\ Become(p, [job[p] EXCEPT !.phase = "user", !.copy = row[job[p].session]])
  /\ Unchanged

(* The user of the session is active; last_seen_at is set in memory.       *)
CheckUser(p) ==
  /\ job[p].phase = "user"
  /\ IF job[p].copy.user \in userActive
       THEN Become(p, [job[p] EXCEPT !.phase = "reload",
                                     !.copy.lastSeenAt = job[p].now])
       ELSE Finish(p)
  /\ Unchanged

(* revoke, for a logout, of no session or one that is already revoked.     *)
NothingToRevoke(p) ==
  /\ job[p].phase = "resolve" /\ job[p].op = "logout"
  /\ job[p].session # Null => row[job[p].session].revokedAt # Null
  /\ Finish(p)
  /\ Unchanged

FindToRevoke(p) ==
  /\ job[p].phase = "resolve" /\ job[p].op = "logout"
  /\ job[p].session # Null
  /\ row[job[p].session].revokedAt = Null
  /\ Become(p, [job[p] EXCEPT
       !.phase = "reload",
       !.copy = Revoked(row[job[p].session], clock, "user_logout")])
  /\ Unchanged

(* save(), first statement: the row as it is now, compared with the entity.*)
Reload(p) ==
  /\ job[p].phase = "reload"
  /\ Become(p, [job[p] EXCEPT
       !.phase = "update",
       !.changed = {c \in Column : job[p].copy[c] # row[job[p].session][c]}])
  /\ Unchanged

(* save(), second statement.                                               *)
Update(p) ==
  LET s == job[p].session
  IN /\ job[p].phase = "update"
     /\ row' = [row EXCEPT ![s] = Written(@, job[p].copy, job[p].changed)]
     /\ IF job[p].op = "authorize" THEN Advance(p, "code") ELSE Finish(p)
     /\ UNCHANGED <<clock, code, userActive>>

IssueCode(p, c) ==
  /\ job[p].phase = "code"
  /\ code[c] = Null
  /\ code' = [code EXCEPT ![c] = job[p].session]
  /\ Finish(p)
  /\ UNCHANGED <<clock, row, userActive>>

(* setUserStatus(DEACTIVATED): the user is saved, and then sessions and    *)
(* tokens are revoked in statements of their own.                          *)
Deactivate(p, u) ==
  /\ job[p].phase = "idle" /\ "setUserStatus" \in Enabled
  /\ userActive' = userActive \ {u}
  /\ Become(p, [Idle EXCEPT !.phase = "statement", !.op = "setUserStatus",
                           !.user = u, !.now = clock])
  /\ UNCHANGED <<clock, row, code>>

(* resetPassword: the reset was found valid and has been consumed.         *)
ResetPassword(p, u) ==
  /\ job[p].phase = "idle" /\ "resetPassword" \in Enabled
  /\ u \in userActive
  /\ Become(p, [Idle EXCEPT !.phase = "statement", !.op = "resetPassword",
                           !.user = u, !.now = clock])
  /\ Unchanged

Cleanup(p) ==
  /\ job[p].phase = "idle" /\ "cleanupExpiredState" \in Enabled
  /\ Become(p, [Idle EXCEPT !.phase = "statement", !.now = clock,
                           !.op = "cleanupExpiredState"])
  /\ Unchanged

(* The snapshot of a bulk UPDATE.                                          *)
MatchRows(p) ==
  /\ job[p].phase = "statement"
  /\ Become(p, [job[p] EXCEPT !.phase = "commit",
                              !.hit = {s \in Session : Matches(job[p], row[s])}])
  /\ Unchanged

(* Its commit: a row it matched and that was updated meanwhile is tested   *)
(* again; a row it did not match is left alone.                            *)
CommitBulk(p) ==
  /\ job[p].phase = "commit"
  /\ row' = [s \in Session |->
               IF s \in job[p].hit /\ Matches(job[p], row[s])
                 THEN Revoked(row[s], job[p].now, WhyBulk(job[p].op, row[s]))
                 ELSE row[s]]
  /\ Finish(p)
  /\ UNCHANGED <<clock, code, userActive>>

(* An error in any await, or the end of the process.                       *)
Fail(p) ==
  /\ job[p].phase # "idle"
  /\ Finish(p)
  /\ Unchanged

(* setUserStatus to any other status: a single save.                       *)
SwitchUser(u) ==
  /\ "setUserStatus" \in Enabled
  /\ userActive' = IF u \in userActive
                     THEN userActive \ {u}
                     ELSE userActive \cup {u}
  /\ UNCHANGED <<clock, row, code, job>>

Tick ==
  /\ clock < MaxClock
  /\ clock' = clock + 1
  /\ UNCHANGED <<row, code, userActive, job>>

Step(p) ==
  \/ SignIn(p)
  \/ SendToLogin(p) \/ ResolveSession(p) \/ CheckUser(p)
  \/ NothingToRevoke(p) \/ FindToRevoke(p) \/ Reload(p) \/ Update(p)
  \/ MatchRows(p) \/ CommitBulk(p)
  \/ \E s \in Session : IssueSession(p, s)
  \/ \E c \in Code : IssueCode(p, c)

Start(p) ==
  \/ \E u \in User : Login(p, u) \/ Deactivate(p, u) \/ ResetPassword(p, u)
  \/ \E op \in Operation, s \in Stored \cup {Null} : Arrive(p, op, s)
  \/ Cleanup(p)

Next ==
  \/ \E p \in Request : Start(p) \/ Step(p) \/ Fail(p)
  \/ \E u \in User : SwitchUser(u)
  \/ Tick

Spec == Init /\ [][Next]_vars

-----------------------------------------------------------------------------
(* Safety.                                                                 *)

(* p is an authorize that has found s valid and has not finished.          *)
Holds(p, s) ==
  /\ job[p].op = "authorize" /\ job[p].session = s
  /\ job[p].phase \in {"user", "reload", "update", "code"}

(* "Always terminates the caller's provider session", "immediately revokes *)
(* existing sessions": a session that was revoked is revoked from then on. *)
RevocationPermanent ==
  [][\A s \in Session : Ended(s) => Ended(s)']_vars

(* A session that is revoked at a moment when no authorize is at work on   *)
(* it, with the codes C issued so far.                                     *)
AtRest(s, C) ==
  /\ Ended(s)
  /\ \A p \in Request : ~Holds(p, s)
  /\ CodesOf(s) = C

(* What remains of that promise: a session that is revoked while no        *)
(* authorize is at work on it is revoked for good, and no code is issued   *)
(* on it any more, whatever logouts, saves and bulk updates follow.        *)
EndedForGood ==
  [][\A s \in Session, C \in SUBSET Code : AtRest(s, C) => AtRest(s, C)']_vars

(* An inactive user with no live session and no request that has already   *)
(* passed the check of the user's status.                                  *)
LockedOut(u) ==
  /\ u \notin userActive
  /\ \A s \in Session : row[s].user = u => Ended(s)
  /\ \A p \in Request :
       /\ job[p].op = "login" => job[p].user # u
       /\ job[p].phase \in {"reload", "update", "code"} /\ job[p].op = "authorize"
            => job[p].copy.user # u

(* A deactivated user stays locked out until an administrator activates    *)
(* the user again: no login, authorize, or save of a session read before   *)
(* gives the user a live session or a code.                                *)
LockedOutUntilActivated ==
  [][\A u \in User :
       LockedOut(u) /\ u \notin userActive' =>
         /\ LockedOut(u)'
         /\ \A c \in Code : code'[c] # code[c] => row[code'[c]].user # u]_vars

-----------------------------------------------------------------------------
(* The inductive invariant behind EndedForGood and LockedOutUntilActivated.*)

(* Which operation is in which phase.                                      *)
PhaseOfOperation ==
  \A p \in Request :
    /\ job[p].phase \in {"user", "code"} => job[p].op = "authorize"
    /\ job[p].phase \in {"reload", "update"} => job[p].op \in {"authorize", "logout"}
    /\ job[p].phase \in {"signIn", "issue"} <=> job[p].op = "login"

(* A request works on a session that is stored, and its entity is one of   *)
(* the same user.                                                          *)
EntityOfSession ==
  \A p \in Request :
    /\ job[p].session # Null => job[p].session \in Stored
    /\ job[p].phase \in {"user", "reload", "update", "code"} =>
         job[p].copy.user = row[job[p].session].user

(* A session that is revoked is stored.                                    *)
EndedStored ==
  \A s \in Session : Ended(s) => s \in Stored

(* The entity that a logout saves is a revoked one.                        *)
LogoutRevokes ==
  \A p \in Request :
    job[p].op = "logout" /\ job[p].phase \in {"reload", "update"} =>
      job[p].copy.revokedAt # Null

IndInv ==
  /\ TypeOK
  /\ PhaseOfOperation
  /\ EntityOfSession
  /\ EndedStored
  /\ LogoutRevokes

=============================================================================
