---------------------------- MODULE AdminAccess ----------------------------
(***************************************************************************)
(* Who may administer.  Every request to the admin API passes AdminGuard,  *)
(* which reads the session, its user, the group that carries the           *)
(* configured slug and the membership one after another; a mutation then   *)
(* passes the guard on recent authentication.  The mutations that change   *)
(* what these reads find are the ones modelled: between the first read and *)
(* the mutation other administrators go on working.                        *)
(***************************************************************************)
EXTENDS Requests

CONSTANTS
  Person, Group,
  RecentWindow,      \* adminRecentAuthWindowSeconds
  MaxAccessClock     \* bound on the clock

ASSUME AccessAssumption ==
  /\ Null \notin Person /\ Null \notin Group
  /\ RecentWindow \in Nat /\ MaxAccessClock \in Nat

VARIABLES
  accessClock,
  active,       \* the users whose status is active
  memberOf,     \* group_memberships
  adminGroup,   \* the group whose slug is BOOTSTRAP_ADMIN_GROUP_SLUG
  signedIn,     \* when a user's live session was authenticated, or Null
  accessJob

accessVars == <<accessClock, active, memberOf, adminGroup, signedIn, accessJob>>

-----------------------------------------------------------------------------
Times == 0..MaxAccessClock

(* authAt, group: as read; able: whether the person could administer when  *)
(* the request came in, or anybody was given anything since.               *)
AccessJob == [phase   : {"idle", "user", "group", "member", "act"},
              person  : Person \cup {Null},
              group   : Group \cup {Null},
              authAt  : Times,
              able    : BOOLEAN]

AccessIdle == [phase |-> "idle", person |-> Null, group |-> Null,
               authAt |-> 0, able |-> FALSE]

(* All the conditions of docs and code, but the session, which a sign-in   *)
(* renews.                                                                 *)
Admins == {a \in active : <<a, adminGroup>> \in memberOf}

AccessTypeOK ==
  /\ accessClock \in Times
  /\ active \subseteq Person
  /\ memberOf \subseteq Person \X Group
  /\ adminGroup \in Group \cup {Null}
  /\ signedIn \in [Person -> Times \cup {Null}]
  /\ accessJob \in [Request -> AccessJob]
  /\ \A p \in Request :
       /\ accessJob[p].phase # "idle" => accessJob[p].person \in Person
       /\ accessJob[p].phase = "member" => accessJob[p].group \in Group

AccessInit ==
  /\ accessClock = 0
  /\ active = Person
  /\ \E a \in Person, g \in Group : memberOf = {<<a, g>>} /\ adminGroup = g
  /\ signedIn = [a \in Person |-> Null]
  /\ accessJob = [p \in Request |-> AccessIdle]

-----------------------------------------------------------------------------
(* The guards                                                              *)

Proceed(p, job) == accessJob' = [accessJob EXCEPT ![p] = job]
Deny(p) == Proceed(p, AccessIdle)

(* A request with the cookie of a live session.                            *)
Arrive(p, a) ==
  /\ accessJob[p].phase = "idle"
  /\ signedIn[a] # Null
  /\ Proceed(p, [AccessIdle EXCEPT !.phase = "user", !.person = a,
                   !.authAt = signedIn[a], !.able = a \in Admins])
  /\ UNCHANGED <<accessClock, active, memberOf, adminGroup, signedIn>>

\* Mutant: the status of the user is not looked at.
CheckAnyUser(p) ==
  /\ accessJob[p].phase = "user"
  /\ Proceed(p, [accessJob[p] EXCEPT !.phase = "group"])
  /\ UNCHANGED <<accessClock, active, memberOf, adminGroup, signedIn>>

CheckUser(p) ==
  /\ accessJob[p].phase = "user"
  /\ IF accessJob[p].person \in active
     THEN Proceed(p, [accessJob[p] EXCEPT !.phase = "group"])
     ELSE Deny(p)
  /\ UNCHANGED <<accessClock, active, memberOf, adminGroup, signedIn>>

CheckGroup(p) ==
  /\ accessJob[p].phase = "group"
  /\ IF adminGroup # Null
     THEN Proceed(p, [accessJob[p] EXCEPT !.phase = "member",
                                          !.group = adminGroup])
     ELSE Deny(p)
  /\ UNCHANGED <<accessClock, active, memberOf, adminGroup, signedIn>>

Recent(p) == accessClock <= accessJob[p].authAt + RecentWindow

(* The last read, and the guard on recent authentication right after it.   *)
(* A request that only reads is answered here.                             *)
CheckMembership(p) ==
  /\ accessJob[p].phase = "member"
  /\ IF <<accessJob[p].person, accessJob[p].group>> \in memberOf /\ Recent(p)
     THEN Proceed(p, [accessJob[p] EXCEPT !.phase = "act"])
     ELSE Deny(p)
  /\ UNCHANGED <<accessClock, active, memberOf, adminGroup, signedIn>>

-----------------------------------------------------------------------------
(* The mutations (AdminDirectory has their queries)                        *)

Served(p) ==
  /\ accessJob[p].phase = "act"
  /\ Deny(p)

(* Somebody is given something: the requests of P end, the others know.    *)
Granting(P) ==
  accessJob' = [q \in Request |->
    IF q \in P \/ accessJob[q].phase = "idle" THEN AccessIdle
    ELSE [accessJob[q] EXCEPT !.able = TRUE]]

(* A mutation that gives somebody something.                               *)
ServedGrant(p) == accessJob[p].phase = "act" /\ Granting({p})

Deactivate(p, b) ==
  /\ Served(p)
  /\ active' = active \ {b}
  /\ signedIn' = [signedIn EXCEPT ![b] = Null]
  /\ UNCHANGED <<accessClock, memberOf, adminGroup>>

Reactivate(p, b) ==
  /\ ServedGrant(p)
  /\ active' = active \cup {b}
  /\ UNCHANGED <<accessClock, memberOf, adminGroup, signedIn>>

(* A save of a copy of the user writes the status that was read with it.   *)
SaveStatus(b) ==
  /\ active' \in {active \cup {b}, active \ {b}}
  /\ UNCHANGED <<accessClock, memberOf, adminGroup, signedIn>>

(* An update of other columns whose copy is out of date (AdminDirectory).  *)
UpdateStale(p, b) == ServedGrant(p) /\ SaveStatus(b)

(* The invited user accepts: a pending user becomes active, and where only *)
(* the e-mail address is verified the status read is saved with it.  No    *)
(* administrator's request is needed for that.                             *)
AcceptInvite(b) == Granting({}) /\ SaveStatus(b)

AddMember(p, b, g) ==
  /\ ServedGrant(p)
  /\ memberOf' = memberOf \cup {<<b, g>>}
  /\ UNCHANGED <<accessClock, active, adminGroup, signedIn>>

RemoveMember(p, b, g) ==
  /\ Served(p)
  /\ memberOf' = memberOf \ {<<b, g>>}
  /\ UNCHANGED <<accessClock, active, adminGroup, signedIn>>

(* The slug is a column like any other: the group can lose it, and another *)
(* one take it when it is free; so can a group's own older copy.           *)
GiveUpSlug(p) ==
  /\ Served(p)
  /\ adminGroup' = Null
  /\ UNCHANGED <<accessClock, active, memberOf, signedIn>>

TakeSlug(p, g) ==
  /\ adminGroup = Null
  /\ ServedGrant(p)
  /\ adminGroup' = g
  /\ UNCHANGED <<accessClock, active, memberOf, signedIn>>

-----------------------------------------------------------------------------
(* Sessions and time                                                       *)

(* The status is read before the credential check: by the time the session *)
(* is there an administrator may have deactivated the user.                *)
SignIn(a) ==
  /\ signedIn' = [signedIn EXCEPT ![a] = accessClock]
  /\ UNCHANGED <<accessClock, active, memberOf, adminGroup, accessJob>>

(* Logged out, revoked, idle for too long or too old.                      *)
SessionOver(a) ==
  /\ signedIn' = [signedIn EXCEPT ![a] = Null]
  /\ UNCHANGED <<accessClock, active, memberOf, adminGroup, accessJob>>

AccessTick ==
  /\ accessClock < MaxAccessClock
  /\ accessClock' = accessClock + 1
  /\ UNCHANGED <<active, memberOf, adminGroup, signedIn, accessJob>>

Mutation(p) ==
  \/ \E b \in Person :
       \/ Deactivate(p, b) \/ Reactivate(p, b) \/ UpdateStale(p, b)
       \/ \E g \in Group : AddMember(p, b, g) \/ RemoveMember(p, b, g)
  \/ GiveUpSlug(p)
  \/ \E g \in Group : TakeSlug(p, g)

AccessNext ==
  \/ \E p \in Request :
       \/ \E a \in Person : Arrive(p, a)
       \/ CheckUser(p) \/ CheckGroup(p) \/ CheckMembership(p)
       \/ Mutation(p)
  \/ \E a \in Person : SignIn(a) \/ SessionOver(a) \/ AcceptInvite(a)
  \/ AccessTick

AccessSpec == AccessInit /\ [][AccessNext]_accessVars

-----------------------------------------------------------------------------
(* The conditions are read at four different times, yet nobody acts on a   *)
(* mixture of them: unless something was granted while the request ran,    *)
(* whoever got through could administer when the request came in.          *)
NoMixture ==
  \A p \in Request : accessJob[p].phase = "act" => accessJob[p].able

(* What keeps NoMixture: a person who could not administer at the start    *)
(* still lacks the condition that is read next, or one after it.           *)
AccessIndInv ==
  /\ AccessTypeOK
  /\ NoMixture
  /\ \A p \in Request :
       LET job == accessJob[p] IN
       ~job.able =>
         /\ job.phase = "user" => job.person \notin Admins
         /\ job.phase = "group" => <<job.person, adminGroup>> \notin memberOf
         /\ job.phase = "member" => <<job.person, job.group>> \notin memberOf
=============================================================================
