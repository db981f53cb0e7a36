------------------------------ MODULE Bootstrap -----------------------------
(* seed:bootstrap, which every start of the container repeats: one          *)
(* transaction finds or creates the administrator (by email), the group (by *)
(* slug), the membership, the client (by client id) and its two URIs;       *)
(* before it commits, the credential is written to Better Auth's tables     *)
(* through the data source, that is on another connection.                 *)
(* Runs may overlap and die at any point.  Administrators work meanwhile:   *)
(* they rename, edit and remove what a run has found, or give the names a   *)
(* run looks for to rows of their own.                                     *)
EXTENDS Naturals, Sequences

CONSTANTS
  Start,       \* runs of the script; the rows a run inserts have its identity
  Other,       \* rows that administrators have made
  Nobody,
  MaxEdits,    \* bound: how often administrators change a record
  MaxDeaths    \* bound: how often a run dies

ASSUME BootAssumption ==
  /\ Nobody \notin Start \cup Other /\ Start \cap Other = {}
  /\ MaxEdits \in Nat /\ MaxDeaths \in Nat

VARIABLES
  stored,      \* the rows of each table, with the columns that are as
               \* configured; "name" is the one a run looks for
  linked,    \* memberships and URIs
  credential,  \* Better Auth: the user of the email address, its account
  script,      \* the transaction of each run
  calm,        \* history: runs that no administrator has disturbed
  edits,       \* how many changes administrators have made
  deaths,      \* how many runs have died
  torn,        \* some run died between its credential and its commit
  password     \* a password is configured and Better Auth's tables exist

settings == <<edits, deaths, torn, password>>
bootVars == <<stored, linked, credential, script, calm, settings>>

Records == <<"user", "group", "membership", "client", "redirectUri",
             "postLogoutRedirectUri">>

Entity == {"user", "group", "client"}
Link   == {"membership", "redirectUri", "postLogoutRedirectUri"}

Id     == Start \cup Other
Field == {"name", "rest"}

(* A row that is not there is Nobody's; clients are never renamed.         *)
Row == [there : BOOLEAN, as : SUBSET Field]

NoRow == [there |-> FALSE, as |-> {}]

(* A link is between a user and a group, or it is a client's.              *)
Ends == [kind : Link, of : Id, to : Id]

Run ==
  [at : {"waiting", "find", "save", "write", "credential", "account",
         "commit", "done", "failed"},
   next : 1 .. Len(Records) + 1,
   has : [Entity -> Id \cup {Nobody}],  \* the entities in memory
   differs : SUBSET Field,             \* what save() found to differ
   wrote : [Entity -> SUBSET Field],   \* of the rows of these entities
   inserted : SUBSET Entity,
   links : SUBSET Ends]

Waiting == [at |-> "waiting", next |-> 1, has |-> [r \in Entity |-> Nobody],
            differs |-> {}, wrote |-> [r \in Entity |-> {}], inserted |-> {},
            links |-> {}]

BootTypeOK ==
  /\ stored \in [Entity -> [Id -> Row]]
  /\ linked \subseteq Ends
  /\ credential \in [user : Id \cup {Nobody}, account : Id \cup {Nobody}]
  /\ script \in [Start -> Run]
  /\ calm \subseteq Start
  /\ edits \in 0 .. MaxEdits
  /\ deaths \in 0 .. MaxDeaths
  /\ {torn, password} \subseteq BOOLEAN

(* Administrators have made users, groups and clients already.             *)
BootInit ==
  /\ stored = [r \in Entity |-> [x \in Id |-> [there |-> x \in Other, as |-> {}]]]
  /\ linked = {}
  /\ credential = [user |-> Nobody, account |-> Nobody]
  /\ script = [s \in Start |-> Waiting]
  /\ calm = {}
  /\ edits = 0
  /\ deaths = 0
  /\ torn = FALSE
  /\ password \in BOOLEAN

Own(s) == script[s]

Running(s) == Own(s).at \notin {"waiting", "done", "failed"}

Become(s, run) == script' = [script EXCEPT ![s] = run]

Goto(s, at) == Become(s, [Own(s) EXCEPT !.at = at]) /\ UNCHANGED calm

(* The next record, with what has been done for this one.                  *)
Onward(run) ==
  [run EXCEPT !.next = @ + 1,
              !.differs = {},
              !.at = IF run.next = Len(Records) THEN "credential" ELSE "find"]

Advance(s, run) == Become(s, Onward(run)) /\ UNCHANGED calm

End(s, at) ==
  /\ Become(s, [Waiting EXCEPT !.at = at])
  /\ calm' = calm \ {s}

Named(r) == {x \in Id : "name" \in stored[r][x].as}

(* The rows at the ends of a link.                                         *)
Touches(e, r, x) ==
  CASE r = "user"  -> e.kind = "membership" /\ e.of = x
    [] r = "group" -> e.kind = "membership" /\ e.to = x
    [] OTHER       -> e.kind # "membership" /\ e.of = x

(* The transaction of o has written row x of table r.                      *)
HasWritten(o, r, x) ==
  Running(o) /\ Own(o).has[r] = x /\ (r \in Own(o).inserted \/ Own(o).wrote[r] # {})

(* It has put the name into the unique index.                              *)
Claims(o, r) ==
  Running(o) /\ (r \in Own(o).inserted \/ "name" \in Own(o).wrote[r])

(* It refers to the row by a foreign key, so the name cannot change.       *)
Refers(o, r, x) == Running(o) /\ \E e \in Own(o).links : Touches(e, r, x)

(* No transaction but that of s makes a change of these columns wait.      *)
Unlocked(s, r, x, columns) ==
  \A o \in Start \ {s} :
    /\ ~ HasWritten(o, r, x)
    /\ "name" \in columns => ~ Claims(o, r) /\ ~ Refers(o, r, x)

Launch(s) ==
  /\ Own(s).at = "waiting"
  /\ Become(s, [Waiting EXCEPT !.at = "find"])
  /\ calm' = calm \cup {s}
  /\ UNCHANGED <<stored, linked, credential, settings>>

(* findOne by the configured name: the row, if there is one.               *)
FindEntity(s) ==
  LET r == Records[Own(s).next]
  IN  /\ Own(s).at = "find" /\ r \in Entity
      /\ \E x \in IF Named(r) = {} THEN {Nobody} ELSE Named(r) :
           Become(s, [Own(s) EXCEPT !.at = "save", !.has[r] = x])
      /\ UNCHANGED <<stored, linked, credential, calm, settings>>

(* save() of an entity that was not found, or that is gone by now: the     *)
(* insert waits for whoever is about to take the name, and fails if it is  *)
(* taken.                                                                  *)
Insert(s) ==
  LET r == Records[Own(s).next]
      x == IF Own(s).has[r] = Nobody THEN s ELSE Own(s).has[r]
  IN  /\ Own(s).at = "save"
      /\ ~ stored[r][x].there
      /\ Unlocked(s, r, x, Field)
      /\ IF Named(r) = {}
         THEN Advance(s, [Own(s) EXCEPT !.has[r] = x,
                                        !.inserted = @ \cup {r}])
         ELSE End(s, "failed")
      /\ UNCHANGED <<stored, linked, credential, settings>>

(* save() of one that was found: the row as it is now, by its id.          *)
Reload(s) ==
  LET r == Records[Own(s).next]
      x == Own(s).has[r]
  IN  /\ Own(s).at = "save" /\ x # Nobody
      /\ stored[r][x].there
      /\ IF stored[r][x].as = Field
         THEN Advance(s, Own(s))
         ELSE /\ Become(s, [Own(s) EXCEPT
                   !.at = "write", !.differs = Field \ stored[r][x].as])
              /\ UNCHANGED calm
      /\ UNCHANGED <<stored, linked, credential, settings>>

(* The UPDATE of the columns that differed.  It gives a row that was        *)
(* renamed its name back, unless that is taken; of a row that is gone it   *)
(* updates nothing.                                                        *)
Update(s) ==
  LET r == Records[Own(s).next]
      x == Own(s).has[r]
  IN  /\ Own(s).at = "write" /\ r \in Entity
      /\ Unlocked(s, r, x, Own(s).differs)
      /\ IF "name" \in Own(s).differs /\ stored[r][x].there
              /\ Named(r) \ {x} # {}
         THEN End(s, "failed")
         ELSE Advance(s, [Own(s) EXCEPT !.wrote[r] =
                IF stored[r][x].there THEN Own(s).differs ELSE {}])
      /\ UNCHANGED <<stored, linked, credential, settings>>

(* A link between the entities in the memory of a run.                     *)
LinkOf(s, kind) ==
  IF kind = "membership"
  THEN [kind |-> kind, of |-> Own(s).has["user"], to |-> Own(s).has["group"]]
  ELSE [kind |-> kind, of |-> Own(s).has["client"], to |-> Own(s).has["client"]]

Wanted(s) == LinkOf(s, Records[Own(s).next])

FindLink(s) ==
  /\ Own(s).at = "find" /\ Records[Own(s).next] \in Link
  /\ IF Wanted(s) \in linked THEN Advance(s, Own(s)) ELSE Goto(s, "write")
  /\ UNCHANGED <<stored, linked, credential, settings>>

(* A row that the foreign key of e finds: committed, or of this run.       *)
EndsThere(s, e) ==
  \A r \in Entity : \A x \in Id :
    Touches(e, r, x) =>
      stored[r][x].there \/ (Own(s).has[r] = x /\ r \in Own(s).inserted)

(* The insert waits for one of the same link and for whoever changes the   *)
(* name of a row it refers to.  The link may have appeared meanwhile: a    *)
(* URI's insert fails then, a membership's may have become an update.      *)
InsertLink(s) ==
  LET e == Wanted(s)
  IN  /\ Own(s).at = "write" /\ e.kind \in Link
      /\ \A o \in Start \ {s} :
           /\ Running(o) => e \notin Own(o).links
           /\ \A r \in Entity : Claims(o, r) => ~ Touches(e, r, Own(o).has[r])
      /\ \/ /\ e \notin linked /\ EndsThere(s, e)
            /\ Advance(s, [Own(s) EXCEPT !.links = @ \cup {e}])
         \/ /\ e \in linked /\ e.kind = "membership"
            /\ Advance(s, Own(s))
         \/ /\ e \in linked \/ ~ EndsThere(s, e)
            /\ End(s, "failed")
      /\ UNCHANGED <<stored, linked, credential, settings>>

(* Without a password, or without Better Auth's tables, there is nothing   *)
(* to write.                                                               *)
SkipCredential(s) ==
  /\ Own(s).at = "credential"
  /\ ~ password
  /\ Goto(s, "commit")
  /\ UNCHANGED <<stored, linked, credential, settings>>

(* Mutant: an upsert that does not compare the ids.                        *)
TakeCredentialUser(s) ==
  /\ Own(s).at = "credential"
  /\ password
  /\ credential' = [credential EXCEPT !.user = Own(s).has["user"]]
  /\ Goto(s, "account")
  /\ UNCHANGED <<stored, linked, settings>>

(* upsertBetterAuthCredential finds the user by its id or by its email,     *)
(* which is the configured one, and refuses one with another id.           *)
UpsertCredentialUser(s) ==
  LET id == Own(s).has["user"]
  IN  /\ Own(s).at = "credential"
      /\ password
      /\ IF credential.user \in {Nobody, id}
         THEN /\ credential' = [credential EXCEPT !.user = id]
              /\ Goto(s, "account")
         ELSE /\ End(s, "failed")
              /\ UNCHANGED credential
      /\ UNCHANGED <<stored, linked, settings>>

UpsertAccount(s) ==
  /\ Own(s).at = "account"
  /\ credential' = [credential EXCEPT !.account = Own(s).has["user"]]
  /\ Goto(s, "commit")
  /\ UNCHANGED <<stored, linked, settings>>

(* A row with what the run has written to it.                              *)
Committed(s, r, x) ==
  IF Own(s).has[r] # x THEN stored[r][x]
  ELSE IF r \in Own(s).inserted THEN [there |-> TRUE, as |-> Field]
  ELSE [there |-> stored[r][x].there, as |-> stored[r][x].as \cup Own(s).wrote[r]]

Commit(s) ==
  /\ Own(s).at = "commit"
  /\ stored' = [r \in Entity |-> [x \in Id |-> Committed(s, r, x)]]
  /\ linked' = linked \cup Own(s).links
  /\ End(s, "done")
  /\ UNCHANGED <<credential, settings>>

(* The process ends, or a statement fails: what is not committed is gone.   *)
Die(s) ==
  /\ Running(s)
  /\ deaths < MaxDeaths
  /\ deaths' = deaths + 1
  /\ End(s, "failed")
  /\ torn' = (torn \/ Own(s).at \in {"account", "commit"})
  /\ UNCHANGED <<stored, linked, credential, edits, password>>

(* The container starts again; the script makes up new ids.                *)
Restart(s) ==
  /\ Own(s).at \in {"failed", "done"}
  /\ \A r \in Entity : ~ stored[r][s].there
  /\ \A o \in Start, r \in Entity : Own(o).has[r] # s
  /\ s \notin {credential.user, credential.account}
  /\ Become(s, Waiting)
  /\ UNCHANGED <<stored, linked, credential, calm, settings>>

-----------------------------------------------------------------------------
(* Administrators.  Each of these is the write of one of their requests.   *)

Edited ==
  /\ edits < MaxEdits
  /\ edits' = edits + 1
  /\ calm' = {}
  /\ UNCHANGED <<credential, script, deaths, torn, password>>

(* No run makes an administrator's change of a row wait.                   *)
Open(r, x, columns) ==
  \A o \in Start :
    /\ ~ HasWritten(o, r, x)
    /\ "name" \in columns => ~ Refers(o, r, x)

SetRow(r, x, row) == stored' = [stored EXCEPT ![r][x] = row] /\ UNCHANGED linked

(* updateUser with another email, updateGroup with another slug.           *)
Rename(r, x) ==
  /\ Edited
  /\ r # "client" /\ "name" \in stored[r][x].as
  /\ Open(r, x, {"name"})
  /\ SetRow(r, x, [stored[r][x] EXCEPT !.as = @ \ {"name"}])

(* The name a run looks for is given to a row, renamed before or of        *)
(* administrators; or a client is created with it.                         *)
TakeName(r, x) ==
  /\ Edited
  /\ stored[r][x].there /\ Named(r) = {}
  /\ Open(r, x, {"name"}) /\ \A o \in Start : ~ Claims(o, r)
  /\ SetRow(r, x, [stored[r][x] EXCEPT !.as = @ \cup {"name"}])

(* A status, a display name, the client's settings.                        *)
Alter(r, x) ==
  /\ Edited
  /\ "rest" \in stored[r][x].as
  /\ Open(r, x, {"rest"})
  /\ SetRow(r, x, [stored[r][x] EXCEPT !.as = @ \ {"rest"}])

(* deleteGroup, of a group without members.                                *)
DropGroup(x) ==
  /\ Edited
  /\ stored["group"][x].there
  /\ \A e \in linked : ~ Touches(e, "group", x)
  /\ Open("group", x, {"name"})
  /\ SetRow("group", x, NoRow)

(* removeMembership, removeRedirectUri; post-logout URIs have no endpoint.  *)
Unlink(e) ==
  /\ Edited
  /\ e \in linked /\ e.kind # "postLogoutRedirectUri"
  /\ linked' = linked \ {e}
  /\ UNCHANGED stored

Forward(s) ==
  \/ Launch(s) \/ FindEntity(s) \/ Insert(s) \/ Reload(s) \/ Update(s)
  \/ FindLink(s) \/ InsertLink(s) \/ SkipCredential(s)
  \/ UpsertCredentialUser(s) \/ UpsertAccount(s) \/ Commit(s)

Administer ==
  \/ \E r \in Entity, x \in Id : Rename(r, x) \/ TakeName(r, x) \/ Alter(r, x)
  \/ \E x \in Id : DropGroup(x)
  \/ \E e \in linked : Unlink(e)

BootNext ==
  \/ \E s \in Start : Forward(s) \/ Restart(s) \/ Die(s)
  \/ Administer

BootSpec == BootInit /\ [][BootNext]_bootVars

(* A container that ended starts again and its script goes on.             *)
BootFairness ==
  \A s \in Start : /\ WF_bootVars(Forward(s))
                   /\ WF_bootVars(Restart(s))

BootFairSpec == BootSpec /\ BootFairness

-----------------------------------------------------------------------------
(* What a start has inserted came in one transaction with a client, which   *)
(* nobody removes; a name is one row's; a link has its ends; an account     *)
(* belongs to its user.                                                    *)
SeededTogether ==
  /\ (\E r \in Entity, x \in Start : stored[r][x].there) => Named("client") # {}
  /\ \A r \in Entity : \A x, y \in Named(r) : x = y
  /\ \A e \in linked, r \in Entity, x \in Id : Touches(e, r, x) => stored[r][x].there
  /\ credential.account \in {Nobody, credential.user}

(* Better Auth's user is one the service has committed, or one a run is     *)
(* about to commit, unless a run died in between.                          *)
CredentialMatches ==
  credential.user # Nobody =>
    \/ torn
    \/ stored["user"][credential.user].there
    \/ \E s \in Start : /\ Own(s).at \in {"account", "commit"}
                        /\ "user" \in Own(s).inserted
                        /\ Own(s).has["user"] = credential.user

(* The row of r that a run holds will be there, as configured.             *)
EntityDone(s, r) ==
  /\ Own(s).has[r] \in Id
  /\ Committed(s, r, Own(s).has[r]) = [there |-> TRUE, as |-> Field]

LinkDone(s, kind) == LinkOf(s, kind) \in linked \cup Own(s).links

(* The promise of every start: a run that no administrator has disturbed    *)
(* commits the user, the group and the client as configured, the user as a *)
(* member of the group, the client with its URIs, whatever administrators   *)
(* had done before and whatever other runs do meanwhile; and any run that   *)
(* commits has, with a password, made the credential this user's.          *)
SeedComplete ==
  \A s \in Start : Own(s).at = "commit" =>
    /\ s \in calm => /\ \A r \in Entity : EntityDone(s, r)
                     /\ \A kind \in Link : LinkDone(s, kind)
    /\ password => credential = [user    |-> Own(s).has["user"],
                                 account |-> Own(s).has["user"]]

(* The records are taken one after the other, and a transaction has        *)
(* inserted and changed only what it has passed.                           *)
Passed(s, r) == \E i \in 1 .. Len(Records) : i < Own(s).next /\ Records[i] = r

AtRecord(s, r) ==
  /\ Own(s).at \in {"save", "write"}
  /\ Own(s).next <= Len(Records) /\ Records[Own(s).next] = r

InOrder(s) ==
  /\ Own(s).at \in {"credential", "account", "commit"}
       <=> Own(s).next > Len(Records)
  /\ ~ Running(s) => Own(s) = [Waiting EXCEPT !.at = Own(s).at]
  /\ Own(s).at = "save" => Records[Own(s).next] \in Entity
  /\ \A r \in Entity : r \in Own(s).inserted \/ Own(s).wrote[r] # {} => Passed(s, r)
  /\ \A r \in Entity : Passed(s, r) \/ (AtRecord(s, r) /\ Own(s).at = "write") =>
       Own(s).has[r] \in Id

(* A name that a transaction has put into the unique index is no other      *)
(* row's, committed or not.                                                *)
NamesClaimed(s) ==
  \A r \in Entity : Claims(s, r) =>
    /\ Named(r) \subseteq {Own(s).has[r]}
    /\ \A o \in Start : Claims(o, r) => o = s

(* Users and named clients do not go away; the row that a run has written   *)
(* is kept by its lock, the ends of the links that it has inserted by their *)
(* foreign keys.                                                           *)
RowsHeld(s) ==
  /\ Passed(s, "user") =>
       stored["user"][Own(s).has["user"]].there \/ "user" \in Own(s).inserted
  /\ AtRecord(s, "user") /\ Own(s).has["user"] # Nobody =>
       stored["user"][Own(s).has["user"]].there
  /\ Passed(s, "client") =>
       Own(s).has["client"] \in Named("client") \/ "client" \in Own(s).inserted
  /\ AtRecord(s, "client") /\ Own(s).has["client"] # Nobody =>
       Own(s).has["client"] \in Named("client")
  /\ \A r \in Entity : Own(s).wrote[r] # {} => stored[r][Own(s).has[r]].there
  /\ \A e \in Own(s).links : EndsThere(s, e)

(* A run that has written the credential wrote that of the user it holds.   *)
OneUser(s) ==
  /\ Own(s).at = "account" \/ (Own(s).at = "commit" /\ password) =>
       credential.user = Own(s).has["user"]
  /\ Own(s).at = "commit" /\ password => credential.account = credential.user

(* What an undisturbed run has passed is as configured, and the row it is   *)
(* about to change differs in no more than it has seen.                    *)
CalmProgress(s) ==
  s \in calm =>
    /\ \A r \in Entity : Passed(s, r) => EntityDone(s, r)
    /\ \A kind \in Link : Passed(s, kind) => LinkDone(s, kind)
    /\ \A r \in Entity : AtRecord(s, r) /\ Own(s).at = "write" =>
         /\ stored[r][Own(s).has[r]].there
         /\ Field \ stored[r][Own(s).has[r]].as \subseteq Own(s).differs

RowsNamed == \A r \in Entity, x \in Id : stored[r][x].as # {} => stored[r][x].there

BootIndInv ==
  /\ BootTypeOK
  /\ SeededTogether
  /\ CredentialMatches
  /\ SeedComplete
  /\ RowsNamed
  /\ \A s \in Start : /\ InOrder(s) /\ NamesClaimed(s) /\ RowsHeld(s)
                      /\ OneUser(s) /\ CalmProgress(s)

(* README.md:84-86: every start seeds the administrator and the client, "all *)
(* idempotent": however a start dies, later ones get it done.              *)
SeededAtLast == <>(\E x \in Id : stored["user"][x] = [there |-> TRUE, as |-> Field])
=============================================================================
