# OID provider: TLA+ models, checks and proofs

This directory holds a formal model of the OpenID Connect provider in this
repository (a NestJS service on PostgreSQL through TypeORM, an administration
console in React, and a sample client). The models are written from the code,
not from its documents; the documents are used for what the code is supposed to
promise. TLC checks small instances; TLAPS proves what the runs check, except
liveness, for every value of the constants (section 4).

Paths below are relative to the repository's root; `src/…` alone is the
provider, `web/admin/…` the console.

## 1. Inventory

The provider is a single Node.js process (or several behind a balancer) whose
only shared state is the database. Every `await` of a request is a point where
any other request may run, so the unit of interleaving is a database statement
or a call to Better Auth, not a method.

| Component | Code | State it keeps | Operations | What must be right |
|---|---|---|---|---|
| Refresh tokens | `tokens/refresh-token.service.ts` | `refresh_tokens`: families of tokens linked by `parent_token_id` and `rotated_to_token_id` | issue, rotate (for a client, for the wrapper), resolve, revoke a presented token, revoke a family | one live token per family; a token is exchanged once; a replay is recognised and ends the family; a revocation is permanent; expiry and linkage |
| Provider sessions | `authentication/provider-session.service.ts` | `provider_sessions` | issue, resolve, revoke | a revoked session stays revoked and gives no code; lifetimes |
| Login and logout | `authentication/authentication.service.ts`, `…controller.ts` | none of its own | login, logout, end-session | no session for a user who is not active |
| Authorization endpoint | `oidc/oidc-authorization.service.ts` | `authorization_codes` (insert), `last_seen_at` of the session | authorize | a code only for a valid session of an active user |
| Token endpoint | `oidc/oidc-token.service.ts` | `authorization_codes` (consume), refresh tokens, signing keys | exchange a code, refresh, JWKS | a code is consumed once; no tokens for a code that stays usable; a committed rotation reaches the client |
| Signing keys | `oidc/oidc-token.service.ts`, `database/entities/signing-key.entity.ts` | `signing_keys` | create on first use, sign, publish, verify; an operator rotates | no more keys than racing first requests; nothing answered on a key, user or client that was never active meanwhile |
| Users | `admin/admin-user.service.ts` | `users`, memberships | create, update, set status | a deactivation ends sessions and tokens; unique addresses |
| Password reset, invites | `authentication/password-reset.service.ts`, `invite-accept.service.ts`, `admin/admin-invite.service.ts` | `password_resets`, `invites` | request, resolve, complete, resend, accept | a used or replaced link is dead; a deactivation is undone by an acceptance under way at most |
| Rate limits | `authentication/login-rate-limit.service.ts`, `oidc/token-rate-limit.service.ts` | in-memory windows | assert, record | overlap and the edge of a window exceed the limit by a known amount at most |
| Better Auth wrapper | `better-auth/better-auth.controller.ts` | none; upstream tokens in `refresh_tokens` | refresh, revoke | resolve, upstream call and rotation fit together; the client keeps up with its family |
| Admin access | `admin/admin-access.service.ts`, guards | none | session, status and membership checks; CSRF; recent authentication | no action by a user who has been removed, beyond the request in flight |
| Admin directory | `admin/admin-client.service.ts`, `admin-group.service.ts` | `clients`, `groups` | create, update, delete, members | unique names, no orphan membership; a save takes back only what was written since its read |
| Clean-up | `database/scripts/cleanup-expired.ts` | the three tables above | revoke what expired, delete old codes | nothing that is still valid is touched |
| Audit | `audit/…` | `audit_events` (append only, on a connection of its own) | record, list | a failed insert fails the operation that waits for it |
| Connection pool | TypeORM / `pg` | up to 10 connections | take, release | requests end unless nested transactions use up the pool |
| Schema and bootstrap | `database/migrations/*`, `database/scripts/bootstrap.ts`, `better-auth/scripts/materialize-schema.ts` | every table, Better Auth's included; the first administrator and client | migrate, revert, materialise, seed on every start | a migration fails only where it must; an undisturbed start seeds everything; starts may overlap and die, administrators edit what they seed |
| Admin console: application | `web/admin/src/app/*`, `features/auth/*` | cookies, in-memory CSRF token, pending re-authentication | load, sign in, mutate, re-authenticate, retry, leave | a mutation settles; no spurious CSRF refusal |
| Admin console: lists and pages | `web/admin/src/lib/use-paged-list.ts`, `features/*` | fetched pages, form values, open dialogs | fetch, refetch, page, edit, confirm | nothing skipped or shown twice; nothing taken back unseen |

How they interact: login issues a session; authorize reads the session and the
user, saves the session and issues a code; the token endpoint consumes the code
and issues the first token of a family; refresh rotates it; deactivation,
password reset and clean-up revoke sessions and tokens in bulk, while any of
these is in progress. Audit inserts are awaited inside transactions but run on
another connection, so a failed insert rolls its caller's transaction back, and a
nested call waits for a second connection while the first is held.

The behaviours that are hard to test, each with its line in the code and the
properties that cover it (or the reason why none does), are listed under
`hazards` in `PROJECT.json`. The main families of them:

- **stale entities**: `save()` of an entity read earlier is a SELECT and an
  UPDATE of every column that differs, so it writes old values over what another
  request committed since the read (`refresh-token.service.ts:572`,
  `oidc-authorization.service.ts:147`, `invite-accept.service.ts:88`);
- **unlocked reads followed by writes** (family lookup, user and client status,
  key creation, link validity);
- **bulk UPDATEs against rows in flight**: a row inserted after the statement's
  snapshot is not seen, a locked row is tested again after the wait;
- **partial failure**: a transaction that commits before a later statement of the
  same request fails;
- **lock and connection waits** without timeouts;
- **writes outside the transaction** they belong to (the bootstrap's credential,
  `issueToken` inside an exchange), followed by a crash;
- **pages and dialogs** of the console that outlive what they were opened for;
- **boundaries** of lifetimes and of rate-limit windows.

## 2. Modules

| Module | Role |
|---|---|
| `RefreshTokens` | the `refresh_tokens` table, all its writers as concurrent requests, row locks, failures, time |
| `RevocationWindow` | `RefreshTokens` with the history of what its revocations cannot see |
| `TokenChain` | what the table promises, in three actions; `RefreshTokens` implements it |
| `RefreshEndpoints` | one family as its client sees it at both token endpoints, with lost answers and retries |
| `ProviderSessions` | the `provider_sessions` table and all its writers, statement by statement |
| `CodeExchange` | the `authorization_codes` table: issue, exchange as a transaction with nested commits, clean-up, failures, time |
| `OneTime` | what a single-use secret promises, in three actions; `CodeExchange` implements it |
| `SigningKeys` | the `signing_keys` table, its users and the operator's rotation |
| `RateLimits` | both limiters and the logins and token requests they admit |
| `OneTimeLinks` | invites and reset links: sending, using, and the user they change |
| `AdminDirectory` | users, clients, groups, memberships, redirect URIs under overlapping administrators |
| `AdminAccess` | the four reads of the admin guard and recent authentication, while other administrators work |
| `ConnectionPool` | the pool and the operations that nest connections |
| `Migrations` | the six migrations up and down, with Better Auth's tables of either age |
| `Bootstrap` | `seed:bootstrap` with overlapping and dying starts and administrators who change its records |
| `Console` | tabs, cookies, CSRF tokens, re-authentication and retried mutations |
| `Pagination` | cursor pages of the server and the console's paged list |
| `ConsoleForms` | edit forms and status dialogs of a user's page |
| `ClientStatusTab` | the status dialog of a client's page, which is built differently |
| `Requests` | the slots in which requests run, shared by the modules on the server |
| `MCRefreshTokens`, `MCRevocationWindow`, `MCProviderSessions`, `MCCodeExchange` | symmetry for TLC |
| `MCTokenRaces` | two scenarios over `RefreshTokens` |
| `MCEndpoint`, `MCDirectory`, `MCConsole` | several modules side by side, see section 3 |
| `RefreshTokens_proofs`, `ProviderSessions_proofs`, `CodeExchange_proofs` | theorems about the module they are named for; the first also about `RevocationWindow` |
| `RefreshAndLinks_proofs` | theorems about `RefreshEndpoints` and `OneTimeLinks` |
| `KeysAndLimits_proofs` | about `SigningKeys`, `RateLimits` and `ConnectionPool` |
| `DirectoryAndSchema_proofs` | about `Migrations` and `AdminDirectory` |
| `AccessAndSeed_proofs` | about `AdminAccess` and `Bootstrap` |
| `ConsolePages_proofs` | about `ConsoleForms`, `Console` and `Pagination` |

The tables are written by disjoint statements, and apart from the insert
of a code, which follows the save of its session, no decision about one table
depends on rows of another. A deactivation, a password reset and the clean-up
write several of them, each in a statement of its own; each module models the
statements for its own table, so the tables can be checked separately without
losing an interleaving of any. Some things appear in two modules: `authorize`
(its session in `ProviderSessions`, its code in `CodeExchange`, which takes the
checks of session and client as one step that has succeeded); `issueToken`
(one atomic step of an exchange in `CodeExchange`, the start of a family in
`RefreshTokens`); a rotation (statement by statement with its locks in
`RefreshTokens`, one step `Rotate` in `RefreshEndpoints`, which that module's
`OneLivePerFamily` and `ImplementsChain` justify); and a user's status, which
`AdminDirectory` saves, `OneTimeLinks` can bring back and the token modules read.

### 2.1 The database

PostgreSQL runs at READ COMMITTED, the default, which nothing in the code
changes. A statement sees what was committed when it began. An uncommitted write
is seen only by its own transaction, so in the models it reaches `row` at the
commit. `SELECT … FOR UPDATE` and `UPDATE` lock a row until the transaction ends
(`owner`); one that waits sees the row as it is once it has the lock, and an
`UPDATE` tests its WHERE clause again. TypeORM's `save()` of a loaded entity is a
SELECT of the row as it is now and an UPDATE of the columns that differ from the
entity (`Reload`, then `UpdateRow`/`Update`).

### 2.2 `RefreshTokens`

`job[p]` is what slot `p` (a request in progress) is doing: `phase` names the
await it is suspended at, `token`, `client`, `user`, `now` are its local
variables, `copy` the entities it has loaded, `changed` and `todo` the UPDATEs
of its `save()` or bulk statement.

| Code | Actions |
|---|---|
| `issueToken` | `StartIssue`, `InsertToken` |
| `rotateTokenForClient`, `rotateToken`, `resolveRefreshGrant` | `Present`, then one of `RejectUnknown`, `DetectReplay`, `RejectUnusable`, `Resolve`, `AcceptForRotation`; `CheckClient`, `CheckUser`, `CommitRotation` |
| `revokePresentedToken`, `revokeTokenFamily` | `Present`/`AcceptForRevocation`, `StartFamilyRevocation` |
| `revokeFamily` (after a replay or from either revocation) | `FindFamily`, `Reload`, `UpdateRow`, `CommitRevocation` |
| `setUserStatus`, `resetPassword`, the clean-up's UPDATE | `Deactivate`, `ResetPassword`, `Cleanup`, then `MatchRows`, `UpdateRow`, `CommitRevocation` |
| status switches that write one row | `SwitchUser`, `SwitchClient` |
| any exception, lost connection or process end | `Fail` |

Left out: hashing (a token is its identity; a string no row has is `Null`), the
encrypted upstream token, audit metadata, and `last_used_at`, which is always
written together with `rotated_to_token_id`. A family is named by its first
token: the code draws a random family id together with that token. `issueToken`
reads no user, so `StartIssue` asks only for the client to be active, which its
callers have checked.

`RevocationWindow` adds two variables that no step depends on. `late[p]` is what
was inserted since the search of a revocation (`find()` of the family, the snapshot
of a bulk UPDATE), `overtaken` what revocations have committed without seeing.

### 2.3 `ProviderSessions`

No session is read under a lock and no request runs in a transaction, so every
statement is an action that commits. Login is `Login` (user found and active),
`SignIn` (Better Auth accepts), `IssueSession`. Authorize is `Arrive`,
`ResolveSession` or `SendToLogin`, `CheckUser`, `Reload`, `Update` (the save of
`last_seen_at`), `IssueCode`. Logout, also the one of end-session, is `Arrive`,
`NothingToRevoke` or `FindToRevoke`, `Reload`, `Update`. A bulk UPDATE is its
snapshot (`MatchRows`) and its commit (`CommitBulk`), which tests a matched row
again.

### 2.4 `CodeExchange`

| Code | Actions |
|---|---|
| `authorize`, up to and with the insert of the code | `Authorize`, `InsertCode` |
| `exchangeAuthorizationCode`: the locking read and its four checks | `Exchange`, then `RejectCode` or `AcceptCode` |
| client, its authentication, PKCE verifier; user | `CheckClient`, `CheckUser` |
| save of `consumed_at`, signing key | `Consume` |
| `issueToken`, audit insert | `IssueRefreshToken`, `Audit` |
| COMMIT and answer | `CommitExchange` |
| the DELETE of the clean-up | `Cleanup`, `MatchRows`, `DeleteRow`, `CommitDelete` |
| status switches | `SwitchUser`, `SwitchClient` |
| any exception, lost connection or process end | `Fail` |

A request carries what it was sent: the code, the client it authenticates as
(`Null` if it does not), and whether redirect URI and verifier fit (`fits`).
`family` records for which code a family was issued, `delivered` the families
whose token was returned, `granted` how often an exchange was committed; the
last two are history that no guard reads. `IssueRefreshToken` is optional, as
scope and client decide. Left out: what an authorize checks before its session
(it only refuses), the claims, and the signing keys.

### 2.5 `RefreshEndpoints`

The tokens of one family are numbered, and `upstreamOf` says for which of Better
Auth's tokens each stands. A native refresh is `RefreshNative` (rotation
committed), `LookUpKey`, `Deliver`; a wrapped one is `ResolveWrapped`,
`DispatchUpstream` (Better Auth spends a token and issues the next),
`RotateWrapped`, `Deliver`. `Rotate` on an older token is a replay and revokes the
family. `LoseRefresh` is a failure, or an answer that does not arrive, at any
step; the client then presents what it `holds`. A retry needs no action of
its own: a client may present its token at any time, again too.

### 2.6 `SigningKeys`

| Code | Actions |
|---|---|
| `getOrCreateActiveSigningKey` | `BeginKeyUse`, `FindKey` or `FindNoKey`, `CreateKey` |
| `jwks`, `signJwt`, `verifyAccessToken`, `verifyIdTokenHint` | `ServeJwks`, `Sign`, `Verify` or `Refuse` |
| `userInfo` after it | `ReadUser`, `ReadClient`, `AnswerClaims` |
| an operator's rotation | `AddKey`, `DisableKey` |

`seen` is history: which keys, users and clients were active at some time while
the request ran. A key is active or `"disabled"`: the program looks for ACTIVE keys
only and writes no other status, so the four others cannot be told apart by it.

### 2.7 `RateLimits`

`AdmitLogin`/`RejectLogin` is `assertAllowed`; `RecordFailure`, `RecordSuccess`
and `AbortLogin` come after the awaits of the login. A bucket is a count and the
instant its window lapses. `AdmitToken` asks and counts in one synchronous step,
which is why the token limit is exact within a window and the login limit is not.
`answered` is history: how often an address was answered before each instant.

### 2.8 `OneTimeLinks`

Sending is `BeginSend`, `SendMail`, `RevokePrior`, `InsertLink`: the mail goes
out before the row exists. Using a link is `Resolve` (link and user in one
query), `SetCredential`, the save of the link (`SelectLinkRow`, `SaveConsumed`),
then that of the stale user (an invite: `SelectUser`, `SaveUser`) or `EndSessions`
(a reset). `differs` is what the SELECT of a save found different, which its UPDATE
writes. There is no transaction, so `FailLink` may come between any two. `SetStatus` and `ExpireLink` happen meanwhile. `broken` and
`shutOut` are history: sends that revoked and then failed, and the requests
that were running when a user was deactivated.

### 2.9 `AdminDirectory` and `AdminAccess`

`record` is the three tables, `attached` memberships and redirect URIs,
`adminJob[p]` a request with the entity it loaded. An operation begins
(`Begin…`, `Create…`, `Update…`), makes its check (`Check`), writes
and ends with its audit event (`AuditAndAnswer`), or fails (`FailAdmin`). A save is
`SelectRow` or `SelectLink`, which decides between an insert, an update of the
columns that differ and nothing, and then `InsertRow`, `UpdateRow` or `Attach`; an
UPDATE of a row that is gone does nothing (`UpdateNothing`). Removals are
`RemoveGroup` and `Detach`. Unique indexes and foreign keys are guards of the
writes. Only a confidential client has its secret rotated. Names stand for email,
user name, slug and client id; normalisation and URI syntax are left out.

`AdminAccess` is what lets such a request in: `Arrive` (session), `CheckUser`,
`CheckGroup`, `CheckMembership`, `Recent`, then the mutations that change what
these reads find; `AcceptInvite` activates a user without an administrator.
`able` and `granted` are history: whether the person could
administer on arrival, and whether anybody was given something since.

### 2.10 `ConnectionPool`

A course is the number of connections an operation holds from query to query:
`<<1, 2, 1, 2, 3, 2, 1, 2, 1, 0>>` for an exchange, which waits for a second
connection (client, `issueToken`) and a third (audit inside `issueToken`) while it
holds the first. `Acquire` takes a free connection or joins the queue, `Serve`
hands a free one to the first in the queue. `Starved` is the state in which every
connection is held by a request that wants one more before it returns any. The
service sets no timeout for it.

### 2.11 `Migrations` and `Bootstrap`

`Up(d, n)` and `Down(d, n)` are the six migrations as functions on a database of
tables, types, foreign keys and the client identifiers held by rows; a statement
that cannot be executed makes the result not `ok`. A run applies all that are
pending, one after the other (`AfterRun`), a revert the last one; `RunMigrations`
and `RevertMigration` take place only for results that are `ok`, as TypeORM runs
them in a transaction. `Materialize` is Better Auth's own schema run, at any
time; `Register` and `Grant` add rows. `FillTokens` is the part of the alignment that
can refuse rows: it adds the plugin's columns, fills `token` from the older
plugin's `accessToken` and sets it NOT NULL. A token that the current plugin has
granted has nothing in `accessToken` (`bare`), so if the column `token` was dropped
by a revert since, the next run finds no value for it and fails.

`Bootstrap` is one transaction per start. It takes the user, the group, the
membership, the client and its two URIs in this order; each of the three entities
is `FindEntity` (by email, slug or client id), then its save: `Insert`, or `Reload`
and `Update` of the columns that differ; each link is `FindLink`, `InsertLink`.
Before `Commit` the credential is written on another connection
(`UpsertCredentialUser`, `UpsertAccount`). `stored` says of each row whether it is
there and whether the column a start looks for (`"name"`) and the others it sets
(`"rest"`) are as configured. `Die` ends a start anywhere, `Restart` begins it again.
Administrators work meanwhile: they change an email or a slug (`Rename`), give that
name to another row (`TakeName`), change status or settings (`Alter`), delete a
group without members (`DropGroup`), remove a membership or a URI (`Unlink`).
Uncommitted writes lock their rows and index entries, and an inserted link its two
ends against a change of the key; who would change them waits. `calm` is history:
the starts that no administrator has disturbed since they were launched. The
credential is the one under the configured email; that accepting an invite writes
a changed email through to Better Auth is left out, which would only free the
configured one.

### 2.12 The console

`Console`: every tab shares the cookies of session and CSRF token and keeps in
memory the token it was given last; every load replaces the cookie. A mutation
(`Mutate`, `Answer`) passes the guards in the code's order; an answer that asks for
recent authentication opens the dialog (`RequestReauth`), and the second of two
such answers replaces the first one's promise (`lost`). `Pagination` composes the
server's pages with `useInfiniteQuery` and `usePagedList`: `RefetchPage` fetches
page after page from the first while rows come and go. `Refetch` begins that only
when nothing is fetched; `Invalidate`, after a mutation, gives up whatever is being
fetched, a further page too. `mishap` is history: why a page that is shown may be
missing. `ConsoleForms` is the
user's page: a form that sends all fields, and dialogs that keep the status they
were opened for. `ClientStatusTab` does not keep it (section 6).

## 3. Runs

The bounds are chosen so that every action fires and the shortest interleavings
that could break a property fit: a replay needs a token and its successor, a race
with the replay a third token; two slots suffice for every pairwise race, and the
theorems cover any number. Identities are never reused, so the sets of tokens, links and rows also bound the number of operations that create
one. Each clock has a bound (`MaxClock`, `MaxLimitClock`, `MaxAccessClock`,
`MaxConsoleClock`); with 0 time stands still and a run is about order alone.
`Enabled` selects the operations of a run. Symmetry is declared over identities
only, and never in a run that checks liveness.

| Run | Instance | Distinct states | Shows |
|---|---|---|---|
| `token_races` | 3 tokens, 2 slots; two scenarios: native rotation, resolve, revocation and clean-up with clock 0..1; wrapper rotation, revocation, deactivation and reset at one instant | @TR | two live tokens in a family and a double exchange never happen; links are true; no revocation is taken back; every step is one of `TokenChain`; the inductive invariant holds |
| `revocation_window` | 3 tokens, 2 slots; issue, wrapper rotation, family revocation, deactivation and reset at one instant | @RW | a replay, a revocation and a deactivation leave nothing live but what was inserted after their search; a replay is missed only where a revocation overtook it |
| `requests_end` | 2 tokens, 2 slots, clock 0..1; the two scenarios of `token_races` without the reset, with the client switched; fairness | @RE | every request ends although locks are waited for without timeout |
| `session_races` | 2 sessions, 2 slots, clock 0..1; all operations | 487,000 | a locked-out user stays locked out until activated; a session revoked while no authorize works on it is revoked for good and yields no further code |
| `code_races` | 2 codes, 2 families, 2 slots, clock 0..1; all operations | 1,552,000 | a code is exchanged once, not burnt by a failure, not deleted while usable; nothing for a user who is shut out; every step is one of `OneTime` |
| `endpoint` | 2 slots; 2 keys; 2 accounts, 1 address, windows of 2 in a clock 0..3; 3 rotations; 3 links | @END | `SigningKeys`, `RateLimits`, `RefreshEndpoints`, `OneTimeLinks` |
| `directory` | 2 slots; 1 user, 1 client, 2 groups, 2 names; 2 persons and 2 groups of access; 2 starts with 2 deaths and 2 edits; 2 clients in the schema | @DIR | `AdminDirectory`, `AdminAccess`, `Bootstrap`, `Migrations` |
| `console` | 2 tabs with 2 mutations, clock 0..2; 3 requests on 4 connections; 4 rows in pages of 1; 2 viewers, 2 fields, 2 values; fairness | @CON | `Console`, `ConnectionPool`, `Pagination`, `ConsoleForms` |
| `deactivation_race`, `session_revival`, `confirm_enables`, `bootstrap_stuck` | as small as the counterexample allows | | the findings of section 6 |

`MCEndpoint`, `MCDirectory` and `MCConsole` put instances of several modules side
by side: `part` is chosen in the initial state, one module moves and the others
keep their initial state. These modules share no variable, so the state space is
the sum of theirs and the invariants of each are checked on its own reachable
states; what connects them is argued in section 2. `MCTokenRaces` chooses a
scenario in the same way, because both together with a moving clock are too many.

What the properties of the three combined runs say:

- `endpoint`: at most one first key is made per overlapping request and
  nothing is answered from a key, user or client that was never active meanwhile
  (`KeyIndInv`); wrong passwords counted and under way exceed the login limit by at
  most the overlap (`LimitIndInv`), and an address is answered less than twice the
  token limit in any stretch as long as a window (`TwoWindows`); a client falls behind its family only when an answer was lost
  (`BehindOnlyByLoss`), and the newest wrapper token never stands for a spent
  upstream token without a loss (`RefreshIndInv`); no user is left without a
  link except by a failed insert, nor has more than can overlap (`LinkIndInv`);
  a dead link stays dead (`DeadStaysDead`); a deactivated user comes back only by
  an administrator or an acceptance already under way (`RevivedByOverlap`).
- `directory`: unique names, no orphans, known secrets (`DirectoryIndInv`); a save
  takes back only what was written between its read and itself
  (`OnlyStaleSavesUndo`); no access by a mixture of conditions read at different
  times (`AccessIndInv`); a start that no administrator disturbs commits everything as
  configured, whatever was done before it, no name is two rows' and no link
  dangles, and a credential belongs to a committed user unless a start died
  (`BootIndInv`); the schema is what its
  migrations say, and from the alignment on the plugin's tables, keys and token
  column are there (`SchemaSound`); a run fails only over access tokens that lack
  the column the alignment reads or are left without a value, a revert only over a
  client registered since the keys were repointed (`RefusedOnlyFor`).
- `console`: a tab nobody disturbed is never refused its CSRF token
  (`ConsoleIndInv`); mutations end, but for a forgotten promise (`MutationsEnd`);
  requests end, unless nesting has used up the pool (`CoursesEnd`, the run reaches
  both ends); a row that stays is neither skipped nor doubled
  (`PagesConsistent`); the page shown exists or is coming, unless a fetch failed, a refetch found fewer or a
  mutation gave up its fetch (`ShownOrComing`); a form
  takes back only what it has not fetched (`FormsIndInv`); a status moves along
  the transitions offered, unless a page acts on an older one (`MovesAsOffered`).

Deadlock is checked wherever requests could wait for each other for ever through
locks: all runs of `RefreshTokens`, `ProviderSessions`, `CodeExchange` and
`ClientStatusTab`. It is not checked in `endpoint`, `directory`, `console` and
`bootstrap_stuck`, where a bounded clock or number of links, edits or deaths may be
used up and a start may be finished; there waiting is covered by `CoursesEnd` and
`MutationsEnd`.

Each property of a passing run has a mutant (a definition whose comment begins
with "Mutant:"), a plausible bug that TLC finds through that property under the
run's own configuration.

### Fairness

`Fairness` of `RefreshTokens` is used only for `RequestsEnd` (`RacesFairSpec`).

- `SF(Step(p))`: the event loop resumes a request whose awaited statement has
  returned, and PostgreSQL queues the waiters of a row lock, so one that is free
  again and again is granted in the end. Weak fairness would not do: a lock
  can be taken by others between two of its releases.
- `WF(DeadlockVictim(p))`: PostgreSQL's deadlock detector aborts a statement of a
  cycle of waiters. Cycles do occur: `revokeFamily` locks the rows of a family one
  by one while the presented row is already locked, so two revocations, or a
  revocation and a bulk UPDATE, can wait for each other. The victim's transaction
  is rolled back, and with it, possibly, a replay's revocation.
- `WF(OutOfTokens(p))`: an artefact of the bound on tokens.

`MCConsole` states the fairness of `ConsoleFairness` and `PoolFairness`.

- `WF(Answer(t, m))`: a request is answered, or its failure is.
- `WF(SignInAgain(t) \/ CancelReauth(t))`: an administrator who is asked to sign in
  again does so or cancels. This is an assumption about a person; without it a
  mutation waits as long as the dialog is open, which is what it is for.
- `WF(Acquire(p))`, `WF(Release(p))`: the event loop resumes a request that need not
  wait. `WF(Serve)`: pg-pool hands a returned connection to the first in its queue.

`CoursesEnd` holds for every size of the pool because it exempts `Starved`. With
three requests on four connections two exchanges can hold two each and wait for
ever, because no timeout is configured; with the default of 10 this takes five
exchanges at the same point. `FailCourse` has no fairness, so an error that would
release them is not counted on.

`BootFairness` (`WF(Forward(s))`, `WF(Restart(s))`): a script that runs goes on, and a
container that ended starts again (`restart: unless-stopped` in the compose file).

Nothing is assumed about failures, arrivals, other administrators or clocks.

## 4. Theorems

Proved for any tokens, users, clients, sessions, codes, keys, rows, pages, links,
tabs, starts and requests, any lifetimes, limits and bounds. The assumptions on
constants say that `Null` (or `Closed`, `Nobody`, `Nothing`) is none of the values
it stands in for; that lifetimes, limits and bounds are naturals, and those that
are configured as positive not 0; that kinds of things are not mixed up (an account
is not an address, a user not a group); that keys, links and the requests that run
at a time are finitely many; that at least one request can run and a form's field
has a value; and, in `Console`, that the CSRF cookie (900 seconds) outlives a
recent sign-in (600 as shipped). TLC evaluates them in every run. No theorem has a
hypothesis besides.

Every invariant and action property that a passing run checks is stated by a
theorem, so for these the runs serve to find a mistake early and to show that the
interesting states are reachable. The theorems marked with a dagger state
something no run checks.

### Refresh tokens (`RefreshTokens_proofs`)

`TypeCorrect`, `Invariance` (`IndInv`), `OneLive` (`OneLivePerFamily`),
`NoDoubleExchange` (`ExchangedOnce`), `NeverRevived` (`RevocationPermanent`),
`Refinement` (`ImplementsChain`), `LinksTrue` (`ChainLinked`),
`WhatIsFoundIsRevoked`†, `NoOtherStandstill`†, and about `RevocationWindow`
`FamilyEndsButLate` (`FamilyRevokedButLate`), `ReplayRecognisedButOvertaken`
(`ReplayMissedOnlyIfOvertaken`), `UserEndsButLate` (`UserRevokedButLate`).

`OneLivePerFamily` is not inductive. The argument needs, and `IndInv` adds:

1. `RotationHoldsToken`: from the check of the presented row to the commit, the
   request holds the row's lock and the row is still live. So exactly one live
   token is replaced by one live token.
2. `LockedBeforeWrite`: no UPDATE touches a row its request does not hold, so it
   cannot undo 1.
3. `CopiesRevoked`: every entity a revocation writes back is a revoked one. This
   is why a stale save cannot make a token live again, although it can clear the
   link to its successor.
4. `ParentSpent`: a token with a successor is revoked. With 3 it stays so, hence
   `ExchangedOnce`, even where `rotated_to_token_id` was lost.
5. `FamilyRooted`, `RequestedStored`: identities are used once and refer to rows.

`NeverRevived` and `Refinement` follow from the same invariant: each action is an
issue, an exchange, a revocation or a stutter of `TokenChain`.

`LinksTrue` needs a second inductive invariant on top, `ChainInv`: that rows never
lose what ties a successor to its parent is not enough, as stale entities
in memory are written back. So every entity a request holds, its presented
row and the successor it is about to insert must each be true to the table in
the same sense as the rows are, and a link in any of them either is missing or
leads to the right row.

`WhatIsFoundIsRevoked` says what overlap leaves of the promises that section 6
finds broken: a token that a revocation has *found* is revoked when it commits,
whatever else commits between its reads. What can escape is only a token inserted
after its search. `FoundInv` follows each row found: it is revoked already, or it
is still to be updated, or it is among the changes with its time of revocation
(`Caught`), and nothing that others commit takes a row out of that.

The three theorems about `RevocationWindow` are what remains of the documented
promises for any number of overlapping requests: the code does not keep them in
full (section 6), and these say how far it does. `WindowInv` ties each search to
what is late: what a revocation has found is its family but for the late tokens, with
all links but those to late or overtaken successors (`Seen`); a bulk UPDATE has
matched every live token but the late ones (`Spotted`); and an exchanged token is
linked to its successor, or a revocation has overtaken that (`LinksKnown`).

`NoOtherStandstill`: as long as requests run, one of them does not wait for a lock,
or each is in a cycle of waiters (a set of requests each of which waits for
another of the set), which is what PostgreSQL's detector breaks. It rests on
`LocksOfRunning`, that no lock outlives its transaction. With the fairness of
section 3 this is the core of `RequestsEnd`.

### Sessions and codes (`ProviderSessions_proofs`, `CodeExchange_proofs`)

`ProviderSessions_proofs`: `TypeCorrect`, `Invariance`, `LogoutIsFinal`
(`EndedForGood`), `StaysLockedOut` (`LockedOutUntilActivated`). `IndInv` there
says which entity each request holds: of the row and user it names
(`EntityOfSession`), and revoked if it is a logout's (`LogoutRevokes`).
`AtRest` and `LockedOut` are then preserved by every step.

`CodeExchange_proofs`: `TypeCorrect`, `Invariance`, `SingleUse` (`GrantedOnce`),
`NotBurnt` (`ConsumedByGrant`), `CleanupIsSafe` (`CleanupSpares`),
`InactiveGetsNothing` (`NoGrantWhileInactive`), `Refinement`
(`ImplementsOneTime`). The checks of an exchange are made on the row as it was
locked, many awaits before the commit; `IndInv` adds what makes them still true
then:

1. `ExchangeHoldsCode`: from the checks to the commit the request holds the lock
   and the row is as good as it was, so nobody else consumes or deletes it.
2. `HitDeletable`: what a DELETE has matched it has locked, and with 1 no
   exchange holds it.
3. `PresentedIssued`, `PastOnly`: a code is not presented before it is issued and
   no request has a time from the future, so a consumption falls between issue
   and expiry, and an expired row is expired by the clock.
4. `FamilyOfExchange`, `DeliveredByGrant`: a family in the hands of a request was
   issued for its code and its code is not granted yet, so a second delivered
   family would need a second grant.

### The endpoints and the links (`RefreshAndLinks_proofs`)

`Invariance` (`RefreshIndInv`), `ClientKeepsUp` (`BehindOnlyByLoss`). The property
alone is not inductive: two refreshes could both be about to answer.
`RefreshesApart` excludes it (an answer on its way is for the newest token, and a
rotation that supersedes it would have presented what only that answer carries),
and `RefreshesOK` keeps what a wrapped refresh has read at its first step true
until its third.

`LinksInvariance` (`LinkIndInv`), `DeadLinksStayDead` (`DeadStaysDead`),
`RevivalByOverlapOnly` (`RevivedByOverlap`). Nothing locks and no transaction
spans two statements, so the invariant has to say how far each request in
progress is: `LinksInStep` ties its phase to the state of its link and keeps two
sends on two links, so that live links and inserts still to come can be counted
together and a send that revoked the others is known to insert one or to have
failed. `CopiesBind` says what a use still knows of its user: if its copy would
bring a deactivated user back, it was running when the user was deactivated.

### Keys, limits and connections (`KeysAndLimits_proofs`)

`Invariance` (`KeyIndInv`), `CreationBounded`, `NothingStale`. The invariant adds
that every running request has seen whatever is active now, and that no key was
made while none is active. Keys made and requests about to make one are counted
together, an argument on cardinalities: a creation moves one from the second to the
first, and nobody joins once a key is active.

`LimitsInvariance` (`LimitIndInv`): the logins a bucket has counted and those under
way that it will count are at most the limit less one and the slots, because a
login is admitted below the limit and each moves from the second number to the
first. `TwoWindowsHold` (`TwoWindows`): the answers to an address are known as
cumulative counts per instant (`answered`), so a stretch is a difference of two of
them. `TokenCounted` ties the bucket to that history, and `QuietBeforeOpening`
says that a stretch which ends where a window opens misses the first
answer of the window before; hence less than twice the limit.

`PoolStarvesOnlyByNesting`†: for any size of the pool and any number of requests, if
some wait and nobody can go on, then the pool is `Starved`: every connection is
held by a request that wants another inside its transaction, and these are at least
half as many as the connections. A course holds at most three, one more or less
from query to query, and ends with none (`CoursesNested`). Whoever holds three does
not wait for more, so those who wait hold two each at most. This is the safety core
of `CoursesEnd`: a pool with more connections than two for each request in a
nested operation cannot starve, and nothing in the service keeps the requests
so few.

### The directory and the schema (`DirectoryAndSchema_proofs`)

`Invariance` (`DirectoryIndInv`), `OnlyByStaleCopies` (`OnlyStaleSavesUndo`). The
strengthening is `CopyIsCurrent`: an entity nobody wrote behind its request equals
the row but for the columns it is to set. It is kept because every write marks the
other copies of its row.

`SchemaInvariance` (`SchemaSound`), `RefusalsExplained` (`RefusedOnlyFor`). Each of
the six migrations has a lemma up and one down: what it leaves of a database that
is good at its number, and in which case it fails. That the plugin's tables fit
(`FitForPlugin`) is not inductive alone: it is kept because Better Auth's tables
come together (`AppTablesTogether`) and no foreign key leads to a table or a row
that is not there (`Sound`). The lemmas are then put one after the
other for a run of all that are pending.

### Access and the seed (`AccessAndSeed_proofs`)

`Invariance` (`AccessIndInv`), `NobodyMixes`. A person who lacked something on
arrival still lacks a condition that is read later: each read passes the remaining
deficit on to the next.

`SeedInvariance` (`BootIndInv`): a start takes the records in the code's order and
has inserted and changed only what it has passed (`InOrder`). A name it has put into
the unique index is nobody else's (`NamesClaimed`), and what it has found, written or
linked to is kept by locks and foreign keys until it commits (`RowsHeld`). As long as
no administrator disturbs it, what it has passed is as configured
(`CalmProgress`), which at the commit is `SeedComplete`. Better Auth's user, written
on another connection, is one that is committed, or about to be, unless a start
has died (`CredentialMatches`).

### The console (`ConsolePages_proofs`)

`Invariance` (`FormsIndInv`), `OfferedOrOlder` (`MovesAsOffered`). An untouched
field is what the page fetched, what it fetched is what the server had unless the
field is marked as behind, and a dialog is marked when the status moves; so a
confirmation is either offered or marked.

`ConsoleInvariance` (`ConsoleIndInv`): the token of a tab that was not disturbed is
the one in the cookie. The cookie is shared, so every action that replaces it must
mark all other tabs, and it must outlive the sign-in.

`PagesInvariance` (`PagesConsistent`): each of the two walks over the list (what is
in the cache, and a refetch under way) is descending, holds or still has before it
every row that was there all the time, and goes on below its last row, whatever
is inserted above or deleted between two fetches. The lemmas beneath it are about
the first rows of a finite set of ids. `ShownPageComes` (`ShownOrComing`) adds that
a list of pages is never emptied by a refetch, and that an invalidation which gives
up the page that is shown is recorded as such.

### Only model-checked

- Liveness (`RequestsEnd`, `CoursesEnd`, `MutationsEnd`) and everything that rests on
  ENABLED and fairness is outside the prover. `NoOtherStandstill` and
  `PoolStarvesOnlyByNesting` prove the parts of the first two that are safety.
- The four findings are counterexamples, for which one instance is enough.
- `ClientStatusTab` has no theorem: what it would state is false (section 6).

## 5. Not modelled

- **Cryptography and encodings** (hashing, JWT, envelope encryption): a hash is the
  identity of what was hashed, a signature the key it was made with.
- **Claims**: which claims `userInfo` and the ID token carry is a projection by
  scope and client policy without state.
- **Checks that only refuse**: redirect URI, scope, prompt and PKCE syntax, DTO
  validation, normalisation of names and URIs.
- **Mail, configuration, health, metrics, HTTP middleware**: I/O, read-only values or
  counters on which no other part depends. That a mail may fail is in
  `OneTimeLinks`.
- **Audit**: an insert is a statement that may fail; redaction and listing
  (whose pagination is in `Pagination`) are presentation.
- **Better Auth**: external. Its token exchange, credential tables and schema run
  appear as the calls the provider makes; introspection and discovery are passed
  on unchanged.
- **The console's** layout, themes and validation, and the pages of groups and
  audit, which repeat the patterns modelled for users and clients.
- **The sample client**: an example for integrators.
- **Tokens of a key that was taken out of service**: JWKS serves the active key
  only; `SigningKeys` has the rotation, but the code promises nothing about them.

## 6. Findings

Each is a run with expected outcome "violation" and an entry in `findings`.

1. **`deactivation_race`**: the UPDATE of a deactivation waits for a row being
   rotated, skips it, and does not see the successor
   (`admin/admin-user.service.ts:341`, `docs/SECURITY_TEST_MATRIX.md:39`).
   The user is inactive by then, so the successor is refused at its next
   rotation for a client; it is usable again after a reactivation.
2. **`session_revival`**: authorize saves a session it read before a logout and
   takes the revocation back (`oidc/oidc-authorization.service.ts:147`,
   `docs/CLIENT_INTEGRATION.md:76`).
3. **`confirm_enables`**: the dialog "Disable this client?" applies the opposite of
   the status its page shows by then. If the client was disabled elsewhere and
   fetched again while the dialog stood open, its button enables it
   (`web/admin/src/features/clients/client-detail-page.tsx:401` and `:452`). The
   user's page keeps what its dialog was opened for and has no such behaviour.
4. **`bootstrap_stuck`**: a start that dies between the credential and the commit
   leaves a Better Auth user whose id no `users` row has. Every later start draws
   another id, is refused because the ids differ and rolls back
   (`database/scripts/bootstrap.ts:253`, `README.md:84`).

Limits the models make visible, which no run of their own is spent on:

- With overlapping requests three documented promises are not kept in full, which
  `RevocationWindow` delimits. A replay reads its family without locks, so the
  successor of a rotation that commits meanwhile stays live
  (`refresh-token.service.ts:552`); the save of that revocation writes
  `rotated_to_token_id` back to null on a token rotated after the read, so a later
  replay of it is answered as merely revoked (`:572`); and the first finding.
  Neither gives a family two live tokens or a token a second successor.
- `issueToken` commits inside the transaction of an exchange; if the exchange then
  fails, a live family exists whose token nobody has, and a retry issues another.
  At most one is ever given to a client (`GrantedOnce`).
- `idle_expires_at` is set at login and never moved, so a session in constant use
  expires as idle (`authentication/provider-session.service.ts:65`), where
  `docs/OPERATIONS.md:50` speaks of idleness.
- A successor's absolute expiry is counted from its parent's `issued_at`, so a
  family may outlive the absolute lifetime of its first token; no document says
  otherwise.
- A refresh whose answer is lost leaves its client with a token that will be taken
  for a replay. `BehindOnlyByLoss` shows that overlap alone does not.
- A second mutation that needs a recent sign-in replaces the promise of the first,
  whose button then stays disabled until the page is left (`app/reauth.tsx:55`).
- A mutation that succeeds while a further page is being fetched gives that fetch up
  (`features/users/api.ts:67`): the page shown stays "loading" until one is turned.
- Administrators can change what the bootstrap looks for. Once the administrator's
  email is another, each later start makes a second user, is refused by the
  credential under the configured email and rolls back, as in the fourth finding
  (`admin/admin-user.service.ts:163`, `better-auth/better-auth-credential.ts:52`).
- Reverting the migrations to before the alignment and running them again is refused
  once the current plugin has granted an access token on tables that stem from the
  older one (`1718109000000-align-…:279`).
- Two uses of one link that both found it valid both succeed, overlapping resets
  leave several valid links, overlapping logins exceed their limit and overlapping
  first requests make several signing keys. `DeadStaysDead`, `LinkIndInv`,
  `LimitIndInv` and `KeyIndInv` bound each by the overlap.
- An overlapping request can also undo what another wrote: an acceptance a
  deactivation, a save of an administrator another's, a form what its page has not
  fetched, a confirmation a status that moved. `RevivedByOverlap`,
  `OnlyStaleSavesUndo`, `FormsIndInv` and `MovesAsOffered` allow exactly these.

## 7. Working on the models

A module about a component declares its constants and assumptions, `Init`, one
action per operation or statement, `Next`, the specification and the properties.
When a line named in `map` of `PROJECT.json` changes, the definition that maps it
is the one to compare. An invariant named `…IndInv` is the strengthening the
proofs use, and is checked by TLC so that a change that breaks it is found before
a proof is tried again.

What would be worth adding next: `OneTimeLinks` as an implementation of `OneTime`,
as far as its missing transaction lets it be one; a bound on how many live
families the overlaps of section 6 can leave behind a deactivation; the pages of
groups and audit in the console.
