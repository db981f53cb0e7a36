------------------------ MODULE AccessAndSeed_proofs ------------------------
(***************************************************************************)
(* Proofs about AdminAccess, for any number of persons, groups and         *)
(* requests, any window of recent authentication and any bound on the      *)
(* clock; and about the seed that makes the first administrator, for any   *)
(* number of runs that overlap.                                            *)
(***************************************************************************)
EXTENDS AdminAccess, Bootstrap, TLAPS

USE RequestAssumption, AccessAssumption

-----------------------------------------------------------------------------
(* A request that a guard is still looking at, or has let through, is typed *)
(* and has what it is going to act on.                                     *)
JobTyped(j) ==
  /\ j \in AccessJob
  /\ j.phase # "idle" => j.person \in Person
  /\ j.phase = "member" => j.group \in Group

(* It could administer when it came in, or somebody was granted something,  *)
(* or it still lacks what is read next.                                    *)
Justified(j) ==
  /\ j.phase = "act" => j.able
  /\ ~j.able =>
       /\ j.phase = "user" => j.person \notin Admins
       /\ j.phase = "group" => <<j.person, adminGroup>> \notin memberOf
       /\ j.phase = "member" => <<j.person, j.group>> \notin memberOf

(* The types of all but the requests.                                      *)
TablesTyped ==
  /\ accessClock \in Times
  /\ active \subseteq Person
  /\ memberOf \subseteq Person \X Group
  /\ adminGroup \in Group \cup {Null}
  /\ signedIn \in [Person -> Times \cup {Null}]

(* The invariant, request by request.                                      *)
LEMMA ByRequest ==
  AccessIndInv <=> /\ TablesTyped
                   /\ accessJob \in [Request -> AccessJob]
                   /\ \A p \in Request : JobTyped(accessJob[p])
                   /\ \A p \in Request : Justified(accessJob[p])
BY DEF AccessIndInv, AccessTypeOK, NoMixture, TablesTyped, JobTyped, Justified

(* A slot that does nothing is typed and needs no justification.           *)
LEMMA IdleGood == JobTyped(AccessIdle) /\ Justified(AccessIdle)
BY DEF JobTyped, Justified, AccessIdle, AccessJob, Times

(* The same of the next state.                                             *)
LEMMA ByRequestNext ==
  ASSUME TablesTyped', (accessJob \in [Request -> AccessJob])',
         \A q \in Request : JobTyped(accessJob[q])',
         \A q \in Request : Justified(accessJob[q])'
  PROVE  AccessIndInv'
BY DEF AccessIndInv, AccessTypeOK, NoMixture, TablesTyped, JobTyped, Justified

(* A step of one request that leaves the tables alone keeps the invariant   *)
(* if the request it results in is typed and justified.                    *)
LEMMA OneProceeds ==
  ASSUME AccessIndInv, NEW p \in Request, NEW j, JobTyped(j), Justified(j),
         Proceed(p, j),
         UNCHANGED <<accessClock, active, memberOf, adminGroup, signedIn>>
  PROVE  AccessIndInv'
<1>1. \A q \in Request : accessJob'[q] = IF q = p THEN j ELSE accessJob[q]
  BY ByRequest DEF Proceed
<1>2. (accessJob \in [Request -> AccessJob])'
  BY ByRequest DEF Proceed, JobTyped, AccessJob, Times
<1>3. TablesTyped'
  BY ByRequest DEF TablesTyped, Times
<1>4. \A q \in Request : JobTyped(accessJob[q])'
  BY <1>1, ByRequest DEF JobTyped, AccessJob, Times
<1>5. \A q \in Request : Justified(accessJob[q])'
  BY <1>1, ByRequest DEF Justified, Admins
<1> QED
  BY <1>2, <1>3, <1>4, <1>5, ByRequestNext

-----------------------------------------------------------------------------
(* A request comes in: it may be able to administer, or it is not among the *)
(* administrators now.                                                     *)
LEMMA ArriveKeeps ==
  ASSUME AccessIndInv, NEW p \in Request, NEW a \in Person, Arrive(p, a)
  PROVE  AccessIndInv'
<1> DEFINE able == a \in Admins
           j == [AccessIdle EXCEPT !.phase = "user", !.person = a,
                   !.authAt = signedIn[a], !.able = able]
<1>1. signedIn[a] \in Times /\ able \in BOOLEAN
  BY ByRequest DEF Arrive, TablesTyped
<1>2. Proceed(p, j)
  BY DEF Arrive
<1>3. able \/ a \notin Admins
  OBVIOUS
<1> HIDE DEF able
<1>4. /\ j.phase = "user" /\ j.person = a
      /\ j.able = able
      /\ j \in AccessJob
  BY <1>1 DEF AccessIdle, AccessJob, Times
<1>5. JobTyped(j)
  BY <1>4 DEF JobTyped
<1>6. Justified(j)
  BY <1>3, <1>4 DEF Justified
<1> HIDE DEF j
<1> QED
  BY <1>2, <1>5, <1>6, OneProceeds DEF Arrive

(* A guard that denies the request leaves an idle slot.                    *)
LEMMA DenyKeeps ==
  ASSUME AccessIndInv, NEW p \in Request, Deny(p),
         UNCHANGED <<accessClock, active, memberOf, adminGroup, signedIn>>
  PROVE  AccessIndInv'
BY IdleGood, OneProceeds DEF Deny

(* The user is active: who was not among the administrators then lacks the  *)
(* membership.                                                             *)
LEMMA CheckUserKeeps ==
  ASSUME AccessIndInv, NEW p \in Request, CheckUser(p)
  PROVE  AccessIndInv'
<1> DEFINE j == [accessJob[p] EXCEPT !.phase = "group"]
<1>1. CASE accessJob[p].person \in active
  <2>1. /\ accessJob[p] \in AccessJob /\ accessJob[p].phase = "user"
        /\ JobTyped(accessJob[p]) /\ Justified(accessJob[p])
    BY ByRequest DEF CheckUser
  <2>2. /\ j.phase = "group" /\ j.person = accessJob[p].person
        /\ j.able = accessJob[p].able
        /\ j \in AccessJob
    BY <2>1 DEF AccessJob
  <2>3. JobTyped(j)
    BY <2>1, <2>2 DEF JobTyped
  <2>4. Justified(j)
    BY <1>1, <2>1, <2>2 DEF Justified, Admins
  <2> HIDE DEF j
  <2>5. Proceed(p, j)
    BY <1>1 DEF CheckUser, j
  <2> QED
    BY <2>3, <2>4, <2>5, OneProceeds DEF CheckUser
<1>2. CASE accessJob[p].person \notin active
  BY <1>2, DenyKeeps DEF CheckUser
<1> QED
  BY <1>1, <1>2

(* The group is read and kept: who lacked the membership of the group that  *)
(* carries the slug lacks that of the group read.                          *)
LEMMA CheckGroupKeeps ==
  ASSUME AccessIndInv, NEW p \in Request, CheckGroup(p)
  PROVE  AccessIndInv'
<1> DEFINE j == [accessJob[p] EXCEPT !.phase = "member", !.group = adminGroup]
<1>1. CASE adminGroup # Null
  <2>1. /\ accessJob[p] \in AccessJob /\ accessJob[p].phase = "group"
        /\ JobTyped(accessJob[p]) /\ Justified(accessJob[p])
        /\ adminGroup \in Group
    BY <1>1, ByRequest DEF CheckGroup, TablesTyped
  <2>2. /\ j.phase = "member" /\ j.person = accessJob[p].person
        /\ j.group = adminGroup
        /\ j.able = accessJob[p].able
        /\ j \in AccessJob
    BY <2>1 DEF AccessJob
  <2>3. JobTyped(j)
    BY <2>1, <2>2 DEF JobTyped
  <2>4. Justified(j)
    BY <2>1, <2>2 DEF Justified
  <2> HIDE DEF j
  <2>5. Proceed(p, j)
    BY <1>1 DEF CheckGroup, j
  <2> QED
    BY <2>3, <2>4, <2>5, OneProceeds DEF CheckGroup
<1>2. CASE adminGroup = Null
  BY <1>2, DenyKeeps DEF CheckGroup
<1> QED
  BY <1>1, <1>2

(* The membership is there: the request was able, or was granted something. *)
LEMMA CheckMembershipKeeps ==
  ASSUME AccessIndInv, NEW p \in Request, CheckMembership(p)
  PROVE  AccessIndInv'
<1> DEFINE j == [accessJob[p] EXCEPT !.phase = "act"]
<1>1. CASE <<accessJob[p].person, accessJob[p].group>> \in memberOf /\ Recent(p)
  <2>1. /\ accessJob[p] \in AccessJob /\ accessJob[p].phase = "member"
        /\ JobTyped(accessJob[p]) /\ Justified(accessJob[p])
    BY ByRequest DEF CheckMembership
  <2>2. /\ j.phase = "act" /\ j.person = accessJob[p].person
        /\ j.able = accessJob[p].able
        /\ j \in AccessJob
    BY <2>1 DEF AccessJob
  <2>3. JobTyped(j)
    BY <2>1, <2>2 DEF JobTyped
  <2>4. Justified(j)
    BY <1>1, <2>1, <2>2 DEF Justified
  <2> HIDE DEF j
  <2>5. Proceed(p, j)
    BY <1>1 DEF CheckMembership, j
  <2> QED
    BY <2>3, <2>4, <2>5, OneProceeds DEF CheckMembership
<1>2. CASE ~ (<<accessJob[p].person, accessJob[p].group>> \in memberOf /\ Recent(p))
  BY <1>2, DenyKeeps DEF CheckMembership
<1> QED
  BY <1>1, <1>2

-----------------------------------------------------------------------------
(* A mutation that takes something away justifies every request that was    *)
(* justified: nobody gains a condition.                                    *)
LEMMA ServedKeeps ==
  ASSUME AccessIndInv, NEW p \in Request, Served(p), TablesTyped',
         active' \subseteq active, memberOf' \subseteq memberOf,
         adminGroup' \in {adminGroup, Null}
  PROVE  AccessIndInv'
<1>1. \A q \in Request :
        accessJob'[q] = IF q = p THEN AccessIdle ELSE accessJob[q]
  BY ByRequest DEF Served, Deny, Proceed
<1>2. (accessJob \in [Request -> AccessJob])'
  BY ByRequest, IdleGood DEF Served, Deny, Proceed, JobTyped, AccessJob, Times
<1>3. \A q \in Request : JobTyped(accessJob[q])'
  BY <1>1, ByRequest, IdleGood DEF JobTyped, AccessJob, Times
<1>4. \A q \in Request : Justified(accessJob[q])'
  <2> SUFFICES ASSUME NEW q \in Request PROVE Justified(accessJob[q])'
    OBVIOUS
  <2>1. CASE q = p
    BY <1>1, <2>1 DEF Justified, AccessIdle
  <2>2. CASE q # p
    <3>1. accessJob'[q] = accessJob[q] /\ Justified(accessJob[q])
      BY <1>1, <2>2, ByRequest
    <3>2. <<accessJob[q].person, Null>> \notin memberOf'
      BY DEF TablesTyped
    <3> QED
      BY <3>1, <3>2 DEF Justified, Admins
  <2> QED
    BY <2>1, <2>2
<1> QED
  BY <1>2, <1>3, <1>4, ByRequestNext

(* One that gives somebody something marks every request under way.        *)
LEMMA GrantKeeps ==
  ASSUME AccessIndInv, NEW P \in SUBSET Request, Granting(P), TablesTyped'
  PROVE  AccessIndInv'
<1>1. \A q \in Request :
        accessJob'[q] = IF q \in P \/ accessJob[q].phase = "idle" THEN AccessIdle
                        ELSE [accessJob[q] EXCEPT !.able = TRUE]
  BY DEF Granting
<1>2. \A q \in Request :
        LET k == [accessJob[q] EXCEPT !.able = TRUE] IN
        /\ k \in AccessJob /\ k.able
        /\ k.phase = accessJob[q].phase /\ k.person = accessJob[q].person
        /\ k.group = accessJob[q].group
  BY ByRequest DEF AccessJob
<1>3. (accessJob \in [Request -> AccessJob])'
  <2>1. AccessJob' = AccessJob
    BY DEF AccessJob, Times
  <2>2. accessJob' = [q \in Request |-> accessJob'[q]]
    BY DEF Granting
  <2>3. \A q \in Request : accessJob'[q] \in AccessJob
    BY <1>1, <1>2, IdleGood DEF JobTyped
  <2> QED
    BY <2>1, <2>2, <2>3
<1>4. \A q \in Request : JobTyped(accessJob[q])'
  <2>1. AccessJob' = AccessJob
    BY DEF AccessJob, Times
  <2> QED
    BY <2>1, <1>1, <1>2, ByRequest, IdleGood DEF JobTyped
<1>5. \A q \in Request : Justified(accessJob[q])'
  <2> SUFFICES ASSUME NEW q \in Request PROVE Justified(accessJob[q])'
    OBVIOUS
  <2>1. CASE accessJob'[q] = AccessIdle
    BY <2>1 DEF Justified, AccessIdle
  <2>2. CASE accessJob'[q] # AccessIdle
    BY <1>1, <1>2, <2>2 DEF Justified
  <2> QED
    BY <2>1, <2>2
<1> QED
  BY <1>3, <1>4, <1>5, ByRequestNext

(* The mutations: each has its types, and the rest is one of the two.      *)
LEMMA MutationKeeps ==
  ASSUME AccessIndInv, NEW p \in Request, Mutation(p)
  PROVE  AccessIndInv'
<1>1. TablesTyped /\ Times' = Times
  BY ByRequest DEF Times
<1>2. ASSUME NEW b \in Person, Deactivate(p, b) PROVE AccessIndInv'
  BY <1>1, <1>2, ServedKeeps DEF Deactivate, TablesTyped
<1>3. ASSUME NEW b \in Person, Reactivate(p, b) PROVE AccessIndInv'
  BY <1>1, <1>3, GrantKeeps DEF Reactivate, ServedGrant, TablesTyped
<1>4. ASSUME NEW b \in Person, NEW g \in Group, AddMember(p, b, g)
      PROVE  AccessIndInv'
  BY <1>1, <1>4, GrantKeeps DEF AddMember, ServedGrant, TablesTyped
<1>5. ASSUME NEW b \in Person, NEW g \in Group, RemoveMember(p, b, g)
      PROVE  AccessIndInv'
  BY <1>1, <1>5, ServedKeeps DEF RemoveMember, TablesTyped
<1>6. CASE GiveUpSlug(p)
  BY <1>1, <1>6, ServedKeeps DEF GiveUpSlug, TablesTyped
<1>7. ASSUME NEW g \in Group, TakeSlug(p, g) PROVE AccessIndInv'
  BY <1>1, <1>7, GrantKeeps DEF TakeSlug, ServedGrant, TablesTyped
<1>8. ASSUME NEW b \in Person, UpdateStale(p, b) PROVE AccessIndInv'
  BY <1>1, <1>8, GrantKeeps DEF UpdateStale, SaveStatus, ServedGrant, TablesTyped
<1> QED
  BY <1>2, <1>3, <1>4, <1>5, <1>6, <1>7, <1>8 DEF Mutation

-----------------------------------------------------------------------------
(* Sign-ins, ends of sessions and time touch neither requests nor what they *)
(* read later.                                                             *)
LEMMA SurroundingsKeep ==
  ASSUME AccessIndInv, TablesTyped',
         UNCHANGED <<active, memberOf, adminGroup, accessJob>>
  PROVE  AccessIndInv'
<1>1. (accessJob \in [Request -> AccessJob])'
  BY ByRequest DEF AccessJob, Times
<1>2. \A q \in Request : JobTyped(accessJob[q])'
  BY ByRequest DEF JobTyped, AccessJob, Times
<1>3. \A q \in Request : Justified(accessJob[q])'
  BY ByRequest DEF Justified, Admins
<1> QED
  BY <1>1, <1>2, <1>3, ByRequestNext

(* The initial state: one administrator, nobody signed in.                 *)
LEMMA InitHolds == AccessInit => AccessIndInv
<1> SUFFICES ASSUME AccessInit PROVE AccessIndInv
  OBVIOUS
<1>1. TablesTyped
  BY DEF AccessInit, TablesTyped, Times
<1>2. \A p \in Request : accessJob[p] = AccessIdle
  BY DEF AccessInit
<1>3. accessJob \in [Request -> AccessJob]
  BY IdleGood DEF AccessInit, JobTyped
<1> QED
  BY <1>1, <1>2, <1>3, IdleGood, ByRequest

(* Every step keeps the invariant.                                         *)
LEMMA StepKeeps == AccessIndInv /\ [AccessNext]_accessVars => AccessIndInv'
<1> SUFFICES ASSUME AccessIndInv, [AccessNext]_accessVars PROVE AccessIndInv'
  OBVIOUS
<1>1. TablesTyped /\ Times' = Times
  BY ByRequest DEF Times
<1>2. ASSUME NEW p \in Request, NEW a \in Person, Arrive(p, a)
      PROVE  AccessIndInv'
  BY <1>2, ArriveKeeps
<1>3. ASSUME NEW p \in Request, CheckUser(p) PROVE AccessIndInv'
  BY <1>3, CheckUserKeeps
<1>4. ASSUME NEW p \in Request, CheckGroup(p) PROVE AccessIndInv'
  BY <1>4, CheckGroupKeeps
<1>5. ASSUME NEW p \in Request, CheckMembership(p) PROVE AccessIndInv'
  BY <1>5, CheckMembershipKeeps
<1>6. ASSUME NEW p \in Request, Mutation(p) PROVE AccessIndInv'
  BY <1>6, MutationKeeps
<1>7. ASSUME NEW a \in Person, SignIn(a) PROVE AccessIndInv'
  BY <1>1, <1>7, SurroundingsKeep DEF SignIn, TablesTyped
<1>8. ASSUME NEW a \in Person, SessionOver(a) PROVE AccessIndInv'
  BY <1>1, <1>8, SurroundingsKeep DEF SessionOver, TablesTyped
<1>9. CASE AccessTick
  BY <1>1, <1>9, SurroundingsKeep DEF AccessTick, TablesTyped, Times
<1>10. CASE UNCHANGED accessVars
  BY <1>1, <1>10, SurroundingsKeep DEF accessVars, TablesTyped
<1>11. ASSUME NEW a \in Person, AcceptInvite(a) PROVE AccessIndInv'
  BY <1>1, <1>11, GrantKeeps DEF AcceptInvite, SaveStatus, TablesTyped
<1> QED
  BY <1>2, <1>3, <1>4, <1>5, <1>6, <1>7, <1>8, <1>9, <1>10, <1>11 DEF AccessNext

(* The invariant is inductive: a request that could not administer when it  *)
(* came in keeps lacking something that is still to be read.               *)
THEOREM Invariance == AccessSpec => []AccessIndInv
BY InitHolds, StepKeeps, PTL DEF AccessSpec

(* Nobody acts on a mixture of conditions read at different times: whoever  *)
(* got through could administer when the request came in, or somebody was   *)
(* given something meanwhile.                                              *)
THEOREM NobodyMixes == AccessSpec => []NoMixture
<1>1. AccessIndInv => NoMixture
  BY DEF AccessIndInv
<1> QED
  BY <1>1, Invariance, PTL

-----------------------------------------------------------------------------
USE BootAssumption

-----------------------------------------------------------------------------
(* The seed: its invariant, run by run.                                    *)

RunGood(s) ==
  InOrder(s) /\ NamesClaimed(s) /\ RowsHeld(s) /\ OneUser(s) /\ CalmProgress(s)

(* What is said of the tables alone.                                       *)
TablesGood ==
  /\ (\E r \in Entity, x \in Start : stored[r][x].there) => Named("client") # {}
  /\ \A r \in Entity : \A x, y \in Named(r) : x = y
  /\ \A e \in linked, r \in Entity, x \in Id : Touches(e, r, x) => stored[r][x].there
  /\ RowsNamed

AccountOfUser == credential.account \in {Nobody, credential.user}

(* The six records.                                                        *)
LEMMA RecordFacts ==
  /\ Len(Records) = 6
  /\ Records[1] = "user" /\ Records[2] = "group" /\ Records[3] = "membership"
  /\ Records[4] = "client" /\ Records[5] = "redirectUri"
  /\ Records[6] = "postLogoutRedirectUri"
BY DEF Records

(* What a run has passed.                                                  *)
LEMMA PassedIs ==
  \A s \in Start : Own(s).next \in 1..7 =>
    /\ Passed(s, "user") <=> Own(s).next > 1
    /\ Passed(s, "group") <=> Own(s).next > 2
    /\ Passed(s, "membership") <=> Own(s).next > 3
    /\ Passed(s, "client") <=> Own(s).next > 4
    /\ Passed(s, "redirectUri") <=> Own(s).next > 5
    /\ Passed(s, "postLogoutRedirectUri") <=> Own(s).next > 6
BY RecordFacts DEF Passed

LEMMA PassedIsNext ==
  (\A s \in Start : Own(s).next \in 1..7 =>
    /\ Passed(s, "user") <=> Own(s).next > 1
    /\ Passed(s, "group") <=> Own(s).next > 2
    /\ Passed(s, "membership") <=> Own(s).next > 3
    /\ Passed(s, "client") <=> Own(s).next > 4
    /\ Passed(s, "redirectUri") <=> Own(s).next > 5
    /\ Passed(s, "postLogoutRedirectUri") <=> Own(s).next > 6)'
BY PassedIs, PTL

LEMMA RunFields ==
  ASSUME NEW j \in Run
  PROVE  /\ j.at \in {"waiting", "find", "save", "write", "credential", "account",
                      "commit", "done", "failed"}
         /\ j.next \in 1..7
         /\ j.has \in [Entity -> Id \cup {Nobody}]
         /\ j.differs \subseteq Field
         /\ j.wrote \in [Entity -> SUBSET Field]
         /\ j.inserted \subseteq Entity
         /\ j.links \subseteq Ends
BY RecordFacts DEF Run

LEMMA RunTyped ==
  ASSUME BootTypeOK, NEW s \in Start
  PROVE  /\ Own(s) \in Run /\ Own(s) = script[s]
         /\ Own(s).next \in 1..7
BY RunFields DEF BootTypeOK, Own

(* A run about to commit has passed everything: what it promises follows.  *)
LEMMA Completes ==
  ASSUME BootTypeOK, NEW s \in Start, RunGood(s), Own(s).at = "commit"
  PROVE  /\ s \in calm => /\ \A r \in Entity : EntityDone(s, r)
                          /\ \A kind \in Link : LinkDone(s, kind)
         /\ password => credential = [user    |-> Own(s).has["user"],
                                      account |-> Own(s).has["user"]]
<1>1. Own(s).next \in 1..7 /\ Own(s).next > 6
  BY RunTyped, RecordFacts DEF RunGood, InOrder
<1>2. /\ \A r \in Entity : Passed(s, r)
      /\ \A kind \in Link : Passed(s, kind)
  BY <1>1, PassedIs DEF Entity, Link
<1>3. password => credential.user = Own(s).has["user"]
                  /\ credential.account = Own(s).has["user"]
  BY DEF RunGood, OneUser
<1> QED
  BY <1>2, <1>3 DEF RunGood, CalmProgress, BootTypeOK

(* The invariant is its parts, run by run.                                 *)
LEMMA ByRun ==
  BootIndInv <=> /\ BootTypeOK /\ TablesGood /\ AccountOfUser /\ CredentialMatches
                 /\ \A s \in Start : RunGood(s)
<1>1. ASSUME BootTypeOK, \A s \in Start : RunGood(s) PROVE SeedComplete
  BY <1>1, Completes DEF SeedComplete
<1> QED
  BY <1>1 DEF BootIndInv, SeededTogether, TablesGood, AccountOfUser, RunGood

LEMMA ByRunNext ==
  BootIndInv' <=> /\ BootTypeOK' /\ TablesGood' /\ AccountOfUser' /\ CredentialMatches'
                  /\ (\A s \in Start : RunGood(s))'
BY ByRun, PTL

-----------------------------------------------------------------------------
(* Steps of one run.                                                       *)

(* The run becomes job; the tables and the other runs stay as they are.     *)
Runs(s, job) ==
  /\ script' = [script EXCEPT ![s] = job]
  /\ UNCHANGED <<stored, linked, edits, password>>
  /\ deaths' \in 0 .. MaxDeaths /\ torn' \in BOOLEAN
  /\ calm' \subseteq Start /\ calm' \ {s} \subseteq calm

(* Its claims exclude those of the others.                                 *)
ClaimsGood(s) ==
  \A r \in Entity : Claims(s, r)' =>
    /\ Named(r) \subseteq {Own(s)'.has[r]}
    /\ \A o \in Start \ {s} : ~ Claims(o, r)

LEMMA OneRuns ==
  ASSUME BootIndInv, NEW s \in Start, NEW job \in Run, Runs(s, job),
         credential' \in [user : Id \cup {Nobody}, account : Id \cup {Nobody}],
         AccountOfUser', CredentialMatches',
         \A o \in Start \ {s} : OneUser(o)',
         InOrder(s)', ClaimsGood(s), RowsHeld(s)', OneUser(s)', CalmProgress(s)'
  PROVE  BootIndInv'
<1>0. BootTypeOK /\ TablesGood /\ \A o \in Start : RunGood(o)
  BY ByRun
<1>1. BootTypeOK'
  BY <1>0 DEF Runs, BootTypeOK
<1>2. TablesGood'
  BY <1>0 DEF TablesGood, Runs, Named, RowsNamed
<1>3. /\ script'[s] = job
      /\ \A o \in Start \ {s} : script'[o] = script[o]
  BY <1>0 DEF Runs, BootTypeOK
<1>4. \A o \in Start \ {s}, r \in Entity : Claims(o, r)' = Claims(o, r)
  BY <1>3 DEF Claims, Running, Own
<1>5. NamesClaimed(s)'
  BY <1>3, <1>4 DEF NamesClaimed, ClaimsGood, Runs, Named, Own
<1>6. ASSUME NEW o \in Start \ {s} PROVE RunGood(o)'
  <2>1. RunGood(o) /\ script'[o] = script[o]
    BY <1>0, <1>3
  <2>2. InOrder(o)'
    BY <2>1 DEF RunGood, InOrder, Passed, AtRecord, Running, Own
  <2>3. NamesClaimed(o)'
    BY <1>0, <1>3, <1>4, <2>1 DEF RunGood, NamesClaimed, ClaimsGood, Runs, Named, Own
  <2>4. RowsHeld(o)'
    <3>1. Own(o)' = Own(o) /\ stored' = stored
      BY <2>1 DEF Runs, Own
    <3>2. /\ \A r : Passed(o, r)' = Passed(o, r) /\ AtRecord(o, r)' = AtRecord(o, r)
          /\ \A r : Named(r)' = Named(r)
          /\ \A e : EndsThere(o, e)' = EndsThere(o, e)
      BY <3>1 DEF Passed, AtRecord, Named, EndsThere
    <3>3. RowsHeld(o)
      BY <2>1 DEF RunGood
    <3> QED BY <3>1, <3>2, <3>3 DEF RowsHeld
  <2>5. CalmProgress(o)'
    <3>1. /\ \A r \in Entity : EntityDone(o, r)' = EntityDone(o, r)
          /\ \A kind \in Link : LinkDone(o, kind)' = LinkDone(o, kind)
      BY <2>1 DEF Runs, EntityDone, LinkDone, LinkOf, Committed, Own
    <3>2. /\ \A r : Passed(o, r)' = Passed(o, r) /\ AtRecord(o, r)' = AtRecord(o, r)
          /\ Own(o)' = Own(o) /\ stored' = stored
          /\ o \in calm' => o \in calm
      BY <2>1 DEF Runs, Passed, AtRecord, Own
    <3> QED
      BY <2>1, <3>1, <3>2 DEF RunGood, CalmProgress
  <2> QED
    BY <2>2, <2>3, <2>4, <2>5 DEF RunGood
<1>7. RunGood(s)'
  BY <1>5 DEF RunGood
<1> QED
  BY <1>1, <1>2, <1>6, <1>7, ByRunNext

LEMMA WaitingIs == Waiting = [Waiting EXCEPT !.at = "waiting"]
<1> DEFINE nothing == [r \in Entity |-> Nobody]
           none == [r \in Entity |-> {}]
<1>1. Waiting = [at |-> "waiting", next |-> 1, has |-> nothing, differs |-> {},
                 wrote |-> none, inserted |-> {}, links |-> {}]
  BY DEF Waiting
<1> HIDE DEF nothing, none
<1> QED
  BY <1>1

(* A run that is not under way.                                            *)
LEMMA NotRunning ==
  ASSUME NEW at \in {"waiting", "find", "done", "failed"}
  PROVE  /\ [Waiting EXCEPT !.at = at] \in Run
         /\ [Waiting EXCEPT !.at = at].at = at
         /\ [Waiting EXCEPT !.at = at].next = 1
         /\ [Waiting EXCEPT !.at = at].inserted = {}
         /\ [Waiting EXCEPT !.at = at].links = {}
         /\ \A r \in Entity : [Waiting EXCEPT !.at = at].wrote[r] = {}
<1> DEFINE nothing == [r \in Entity |-> Nobody]
           none == [r \in Entity |-> {}]
<1>1. Waiting = [at |-> "waiting", next |-> 1, has |-> nothing, differs |-> {},
                 wrote |-> none, inserted |-> {}, links |-> {}]
  BY DEF Waiting
<1>2. /\ nothing \in [Entity -> Id \cup {Nobody}]
      /\ none \in [Entity -> SUBSET Field]
      /\ \A r \in Entity : none[r] = {}
  OBVIOUS
<1>3. 1 \in 1 .. Len(Records) + 1
  BY RecordFacts
<1> HIDE DEF nothing, none
<1> QED
  BY <1>1, <1>2, <1>3 DEF Run

(* It ends, or begins: nothing is asked of it yet.                         *)
LEMMA FreshKeeps ==
  ASSUME BootIndInv, NEW s \in Start, NEW at \in {"waiting", "find", "done", "failed"},
         Runs(s, [Waiting EXCEPT !.at = at]),
         credential' = credential, CredentialMatches'
  PROVE  BootIndInv'
<1> DEFINE job == [Waiting EXCEPT !.at = at]
<1>0. BootTypeOK /\ AccountOfUser /\ \A o \in Start : RunGood(o)
  BY ByRun
<1>1. /\ job \in Run /\ job.at = at /\ job.next = 1 /\ job.inserted = {}
      /\ job.links = {} /\ \A r \in Entity : job.wrote[r] = {}
  BY NotRunning
<1>2. script'[s] = job /\ \A o \in Start \ {s} : script'[o] = script[o]
  BY <1>0 DEF Runs, BootTypeOK
<1>3. job = [Waiting EXCEPT !.at = job.at]
  BY <1>1
<1> HIDE DEF job
<1>4. Own(s)' = job /\ Own(s)'.next \in 1..7
  BY <1>1, <1>2 DEF Own
<1>5. \A r \in Entity \cup Link : ~ Passed(s, r)' /\ ~ AtRecord(s, r)'
  BY <1>1, <1>4, PassedIsNext DEF AtRecord, Entity, Link
<1>6. InOrder(s)'
  BY <1>1, <1>3, <1>4, <1>5, RecordFacts DEF InOrder
<1>7. ClaimsGood(s)
  BY <1>1, <1>4 DEF ClaimsGood, Claims
<1>8. RowsHeld(s)'
  BY <1>1, <1>4, <1>5 DEF RowsHeld, Entity
<1>9. OneUser(s)'
  BY <1>1, <1>4 DEF OneUser
<1>10. CalmProgress(s)'
  BY <1>5 DEF CalmProgress
<1>11. ASSUME NEW o \in Start \ {s} PROVE OneUser(o)'
  <2>1. RunGood(o) /\ script'[o] = script[o] /\ password' = password
    BY <1>0, <1>2 DEF Runs
  <2> QED
    BY <2>1 DEF RunGood, OneUser, Own
<1>12. AccountOfUser'
  BY <1>0 DEF AccountOfUser
<1>13. /\ credential' \in [user : Id \cup {Nobody}, account : Id \cup {Nobody}]
       /\ Runs(s, job)
  BY <1>0 DEF BootTypeOK, job
<1> QED
  BY <1>1, <1>6, <1>7, <1>8, <1>9, <1>10, <1>11, <1>12, <1>13, OneRuns

-----------------------------------------------------------------------------
(* A run goes on: what it has passed it keeps.                             *)
GoesOn(s, job) ==
  /\ Running(s) /\ Runs(s, job) /\ calm' = calm
  /\ job.at \notin {"waiting", "done", "failed"}
  /\ Own(s).inserted \subseteq job.inserted
  /\ Own(s).links \subseteq job.links
  /\ \A r \in Entity : Passed(s, r) =>
       /\ job.has[r] = Own(s).has[r] /\ job.wrote[r] = Own(s).wrote[r]
       /\ r \in job.inserted => r \in Own(s).inserted

LEMMA PassedKept ==
  ASSUME BootIndInv, NEW s \in Start, NEW job \in Run, GoesOn(s, job)
  PROVE  /\ Own(s)' = job /\ \A o \in Start \ {s} : script'[o] = script[o]
         /\ s \in calm => /\ \A r \in Entity : Passed(s, r) => EntityDone(s, r)'
                          /\ \A kind \in Link : Passed(s, kind) => LinkDone(s, kind)'
         /\ \A e \in Own(s).links : EndsThere(s, e)'
         /\ \A r \in Entity : Passed(s, r) /\ Claims(s, r)' =>
              /\ Named(r) \subseteq {job.has[r]}
              /\ \A o \in Start \ {s} : ~ Claims(o, r)
         /\ Passed(s, "user") =>
              stored["user"][job.has["user"]].there \/ "user" \in job.inserted
         /\ Passed(s, "client") =>
              job.has["client"] \in Named("client") \/ "client" \in job.inserted
         /\ \A r \in Entity : Passed(s, r) => job.has[r] \in Id
         /\ \A r \in Entity : Passed(s, r) /\ job.wrote[r] # {} =>
              stored[r][job.has[r]].there
<1>0. BootTypeOK /\ RunGood(s)
  BY ByRun
<1>1. Own(s)' = job /\ \A o \in Start \ {s} : script'[o] = script[o]
  BY <1>0 DEF GoesOn, Runs, BootTypeOK, Own
<1>2. /\ "user" \in Entity /\ "group" \in Entity /\ "client" \in Entity
      /\ stored' = stored /\ linked' = linked
  BY DEF Entity, GoesOn, Runs
<1>3. ASSUME NEW r \in Entity, Passed(s, r), s \in calm PROVE EntityDone(s, r)'
  <2>1. EntityDone(s, r)
    BY <1>0, <1>3 DEF RunGood, CalmProgress
  <2>2. /\ job.has[r] = Own(s).has[r] /\ job.wrote[r] = Own(s).wrote[r]
        /\ r \in job.inserted <=> r \in Own(s).inserted
    BY <1>3 DEF GoesOn
  <2> QED
    BY <1>1, <1>2, <2>1, <2>2 DEF EntityDone, Committed
<1>4. ASSUME NEW kind \in Link, Passed(s, kind), s \in calm PROVE LinkDone(s, kind)'
  <2>1. LinkDone(s, kind)
    BY <1>0, <1>4 DEF RunGood, CalmProgress
  <2>2. /\ kind = "membership" => Passed(s, "user") /\ Passed(s, "group")
        /\ kind # "membership" => Passed(s, "client")
    <3>1. Own(s).next \in 1..7
      BY <1>0, RunTyped
    <3> QED
      BY <1>4, <3>1, PassedIs DEF Link
  <2>3. LinkOf(s, kind)' = LinkOf(s, kind)
    BY <1>1, <1>2, <2>2 DEF LinkOf, GoesOn
  <2> QED
    BY <1>1, <1>2, <2>1, <2>3 DEF LinkDone, GoesOn
<1>5. ASSUME NEW e \in Own(s).links PROVE EndsThere(s, e)'
  <2>1. EndsThere(s, e)
    BY <1>0 DEF RunGood, RowsHeld
  <2>2. ASSUME NEW r \in Entity, r \in Own(s).inserted
        PROVE  r \in job.inserted /\ job.has[r] = Own(s).has[r]
    BY <1>0, <2>2 DEF GoesOn, RunGood, InOrder
  <2> QED
    BY <1>1, <1>2, <2>1, <2>2 DEF EndsThere, Touches
<1>6. ASSUME NEW r \in Entity, Passed(s, r), Claims(s, r)'
      PROVE  /\ Named(r) \subseteq {job.has[r]}
             /\ \A o \in Start \ {s} : ~ Claims(o, r)
  <2>1. Claims(s, r) /\ job.has[r] = Own(s).has[r]
    BY <1>1, <1>6 DEF Claims, GoesOn
  <2> QED
    BY <1>0, <2>1 DEF RunGood, NamesClaimed
<1>7. /\ Passed(s, "user") =>
           stored["user"][job.has["user"]].there \/ "user" \in job.inserted
      /\ Passed(s, "client") =>
           job.has["client"] \in Named("client") \/ "client" \in job.inserted
  BY <1>0, <1>2 DEF RunGood, RowsHeld, GoesOn
<1>8. \A r \in Entity : Passed(s, r) => job.has[r] \in Id
  BY <1>0 DEF RunGood, InOrder, GoesOn
<1>9. \A r \in Entity : Passed(s, r) /\ job.wrote[r] # {} =>
        stored[r][job.has[r]].there
  BY <1>0 DEF RunGood, RowsHeld, GoesOn
<1> QED
  BY <1>1, <1>3, <1>4, <1>5, <1>6, <1>7, <1>8, <1>9

(* It stays at its record, and writes nothing of its transaction.          *)
LEMMA StayKeeps ==
  ASSUME BootIndInv, NEW s \in Start, NEW job \in Run, GoesOn(s, job),
         job.next = Own(s).next, job.inserted = Own(s).inserted,
         job.wrote = Own(s).wrote, job.links = Own(s).links,
         job.at \in {"credential", "account", "commit"} <=> job.next > 6,
         job.at = "save" => Records[job.next] \in Entity,
         job.at \in {"save", "write"} /\ job.next <= 6 =>
           /\ job.at = "write" /\ Records[job.next] \in Entity =>
                job.has[Records[job.next]] \in Id
           /\ Records[job.next] = "user" /\ job.has["user"] # Nobody =>
                stored["user"][job.has["user"]].there
           /\ Records[job.next] = "client" /\ job.has["client"] # Nobody =>
                job.has["client"] \in Named("client"),
         s \in calm /\ job.at = "write" /\ job.next <= 6 =>
           \A r \in Entity : r = Records[job.next] =>
             /\ stored[r][job.has[r]].there
             /\ Field \ stored[r][job.has[r]].as \subseteq job.differs,
         credential' \in [user : Id \cup {Nobody}, account : Id \cup {Nobody}],
         AccountOfUser', CredentialMatches', \A o \in Start : OneUser(o)'
  PROVE  BootIndInv'
<1>0. BootTypeOK /\ RunGood(s)
  BY ByRun
<1>1. Own(s)' = job /\ job.next \in 1..7 /\ Own(s).next \in 1..7
  BY <1>0, PassedKept, RunTyped
<1>2. \A r \in Entity \cup Link : Passed(s, r)' <=> Passed(s, r)
  BY <1>1, PassedIs, PassedIsNext DEF Entity, Link
<1>3. \A r : AtRecord(s, r)' <=> job.at \in {"save", "write"} /\ job.next <= 6
                                  /\ Records[job.next] = r
  BY <1>1, RecordFacts DEF AtRecord
<1>4. Running(s)'
  BY <1>1 DEF Running, GoesOn
<1>5. InOrder(s)'
  <2>1. \A r \in Entity : r \in job.inserted \/ job.wrote[r] # {} => Passed(s, r)
    BY <1>0 DEF RunGood, InOrder
  <2>2. \A r \in Entity : Passed(s, r) => job.has[r] \in Id
    BY PassedKept
  <2> QED
    BY <1>1, <1>2, <1>3, <1>4, <2>1, <2>2, RecordFacts DEF InOrder
<1>6. ClaimsGood(s)
  <2>1. ASSUME NEW r \in Entity, Claims(s, r)' PROVE Passed(s, r)
    BY <1>0, <1>1, <2>1 DEF Claims, RunGood, InOrder
  <2> QED
    BY <1>1, <2>1, PassedKept DEF ClaimsGood
<1>7. RowsHeld(s)'
  <2>1. stored' = stored /\ Named("client")' = Named("client")
    BY DEF GoesOn, Runs, Named
  <2>2. "user" \in Entity /\ "client" \in Entity
    BY DEF Entity
  <2>3. \A r \in Entity : job.wrote[r] # {} => stored[r][job.has[r]].there
    BY <1>0, PassedKept DEF RunGood, InOrder
  <2> QED
    BY <1>1, <1>2, <1>3, <2>1, <2>2, <2>3, PassedKept DEF RowsHeld
<1>8. CalmProgress(s)'
  <2>1. calm' = calm /\ stored' = stored
    BY DEF GoesOn, Runs
  <2>2. ASSUME s \in calm, NEW r \in Entity, Passed(s, r)' PROVE EntityDone(s, r)'
    BY <1>2, <2>2, PassedKept
  <2>3. ASSUME s \in calm, NEW kind \in Link, Passed(s, kind)'
        PROVE  LinkDone(s, kind)'
    BY <1>2, <2>3, PassedKept
  <2> QED
    BY <1>1, <1>3, <2>1, <2>2, <2>3 DEF CalmProgress
<1>9. Runs(s, job)
  BY DEF GoesOn
<1> QED
  BY <1>5, <1>6, <1>7, <1>8, <1>9, OneRuns

(* It goes on to the next record, with what it has done for this one.      *)
LEMMA AdvanceKeeps ==
  ASSUME BootIndInv, NEW s \in Start, NEW job \in Run, GoesOn(s, job),
         Own(s).at \in {"find", "save", "write"}, Own(s).next <= 6,
         job.next = Own(s).next + 1,
         job.at = IF Own(s).next = 6 THEN "credential" ELSE "find",
         \A r \in Entity : r \in job.inserted \/ job.wrote[r] # {} =>
           Passed(s, r) \/ r = Records[Own(s).next],
         \A e \in job.links : e \in Own(s).links \/ EndsThere(s, e)',
         credential' = credential, torn' = torn,
         \A r \in Entity : r = Records[Own(s).next] =>
           /\ job.has[r] \in Id
           /\ r \in job.inserted \/ "name" \in job.wrote[r] =>
                /\ Named(r) \subseteq {job.has[r]}
                /\ \A o \in Start \ {s} : ~ Claims(o, r)
           /\ job.wrote[r] # {} => stored[r][job.has[r]].there
           /\ r = "user" => stored[r][job.has[r]].there \/ r \in job.inserted
           /\ r = "client" => job.has[r] \in Named(r) \/ r \in job.inserted
           /\ s \in calm => EntityDone(s, r)',
         \A kind \in Link : kind = Records[Own(s).next] /\ s \in calm =>
           LinkDone(s, kind)'
  PROVE  BootIndInv'
<1>0. BootTypeOK /\ AccountOfUser /\ CredentialMatches /\ \A o \in Start : RunGood(o)
  BY ByRun
<1>1. Own(s)' = job /\ job.next \in 1..7 /\ Own(s).next \in 1..6
  BY <1>0, PassedKept, RunTyped
<1>2. \A r \in Entity \cup Link :
        Passed(s, r)' <=> Passed(s, r) \/ r = Records[Own(s).next]
  <2>1. Own(s).next \in 1..7 /\ Own(s)'.next = Own(s).next + 1
    BY <1>1
  <2> QED
    BY <1>1, <2>1, PassedIs, PassedIsNext, RecordFacts DEF Entity, Link
<1>3. \A r : ~ AtRecord(s, r)'
  BY <1>1 DEF AtRecord
<1>4. Running(s)'
  BY <1>1 DEF Running
<1>5. InOrder(s)'
  <2>1. \A r \in Entity : Passed(s, r) => job.has[r] \in Id
    BY PassedKept
  <2>2. job.next > 6 <=> Own(s).next = 6
    BY <1>1
  <2> QED
    BY <1>1, <1>2, <1>3, <1>4, <2>1, <2>2, RecordFacts DEF InOrder
<1>6. ClaimsGood(s)
  <2>1. ASSUME NEW r \in Entity, Claims(s, r)'
        PROVE  /\ Passed(s, r) \/ r = Records[Own(s).next]
               /\ r \in job.inserted \/ "name" \in job.wrote[r]
    BY <1>1, <2>1 DEF Claims
  <2> QED
    BY <1>1, <2>1, PassedKept DEF ClaimsGood
<1>7. RowsHeld(s)'
  <2>1. stored' = stored /\ Named("client")' = Named("client")
    BY DEF GoesOn, Runs, Named
  <2>2. "user" \in Entity /\ "client" \in Entity
    BY DEF Entity
  <2>3. \A e \in job.links : EndsThere(s, e)'
    BY PassedKept
  <2>4. \A r \in Entity : job.wrote[r] # {} => stored[r][job.has[r]].there
    BY PassedKept
  <2> QED
    BY <1>1, <1>2, <1>3, <2>1, <2>2, <2>3, <2>4, PassedKept DEF RowsHeld
<1>8. CalmProgress(s)'
  <2>1. calm' = calm
    BY DEF GoesOn
  <2>2. ASSUME s \in calm, NEW r \in Entity, Passed(s, r)' PROVE EntityDone(s, r)'
    BY <1>2, <2>2, PassedKept
  <2>3. ASSUME s \in calm, NEW kind \in Link, Passed(s, kind)'
        PROVE  LinkDone(s, kind)'
    BY <1>2, <2>3, PassedKept
  <2> QED
    BY <1>3, <2>1, <2>2, <2>3 DEF CalmProgress
<1>9. Runs(s, job) /\ password' = password
  BY DEF GoesOn, Runs
<1>10. ASSUME NEW o \in Start PROVE OneUser(o)'
  <2>1. CASE o = s
    BY <1>1, <2>1 DEF OneUser
  <2>2. CASE o # s
    BY <1>0, <1>9, <2>2, PassedKept DEF RunGood, OneUser, Own
  <2> QED
    BY <2>1, <2>2
<1>11. CredentialMatches'
  <2>1. ASSUME NEW o \in Start, Own(o).at \in {"account", "commit"}
        PROVE  Own(o)' = Own(o)
    BY <2>1, PassedKept DEF Own
  <2> QED
    BY <1>0, <2>1 DEF CredentialMatches, GoesOn, Runs
<1>12. AccountOfUser'
  BY <1>0 DEF AccountOfUser
<1>13. credential' \in [user : Id \cup {Nobody}, account : Id \cup {Nobody}]
  BY <1>0 DEF BootTypeOK
<1> QED
  BY <1>5, <1>6, <1>7, <1>8, <1>9, <1>10, <1>11, <1>12, <1>13, OneRuns

-----------------------------------------------------------------------------
(* The steps of a run.                                                     *)

LEMMA RunsIs ==
  ASSUME BootTypeOK, NEW s \in Start, NEW job, Become(s, job),
         UNCHANGED <<stored, linked, settings>>,
         calm' \subseteq Start, calm' \ {s} \subseteq calm
  PROVE  Runs(s, job) /\ torn' = torn /\ password' = password
BY DEF Runs, Become, settings, BootTypeOK

(* A run that has not written its credential does not matter to it.        *)
LEMMA MatchesStill ==
  ASSUME BootTypeOK, CredentialMatches, NEW s \in Start, NEW job, Become(s, job),
         Own(s).at \notin {"account", "commit"},
         UNCHANGED <<stored, credential>>, torn => torn'
  PROVE  CredentialMatches'
<1>1. ASSUME NEW o \in Start, Own(o).at \in {"account", "commit"}
      PROVE  Own(o)' = Own(o)
  BY <1>1 DEF Become, BootTypeOK, Own
<1> QED
  BY <1>1 DEF CredentialMatches

LEMMA FailKeeps ==
  ASSUME BootIndInv, NEW s \in Start, End(s, "failed"),
         Own(s).at \in {"find", "save", "write", "credential"},
         UNCHANGED <<stored, linked, credential, settings>>
  PROVE  BootIndInv'
<1>1. BootTypeOK /\ CredentialMatches
  BY ByRun
<1>2. Become(s, [Waiting EXCEPT !.at = "failed"])
  BY DEF End
<1>3. Runs(s, [Waiting EXCEPT !.at = "failed"]) /\ torn' = torn
  BY <1>1, <1>2, RunsIs DEF End, BootTypeOK
<1>4. CredentialMatches'
  BY <1>1, <1>2, <1>3, MatchesStill
<1> QED
  BY <1>3, <1>4, FreshKeeps

LEMMA LaunchKeeps ==
  ASSUME BootIndInv, NEW s \in Start, Launch(s) PROVE BootIndInv'
<1>1. BootTypeOK /\ CredentialMatches
  BY ByRun
<1>2. Become(s, [Waiting EXCEPT !.at = "find"])
  BY DEF Launch
<1>3. Runs(s, [Waiting EXCEPT !.at = "find"]) /\ torn' = torn
  BY <1>1, <1>2, RunsIs DEF Launch, BootTypeOK
<1>4. CredentialMatches'
  BY <1>1, <1>2, <1>3, MatchesStill DEF Launch
<1>5. credential' = credential
  BY DEF Launch
<1> QED
  BY <1>3, <1>4, <1>5, FreshKeeps

LEMMA RestartKeeps ==
  ASSUME BootIndInv, NEW s \in Start, Restart(s) PROVE BootIndInv'
<1>1. BootTypeOK /\ CredentialMatches
  BY ByRun
<1>2. Waiting = [Waiting EXCEPT !.at = "waiting"]
  BY WaitingIs
<1>3. Become(s, [Waiting EXCEPT !.at = "waiting"])
  BY <1>2 DEF Restart
<1>4. Runs(s, [Waiting EXCEPT !.at = "waiting"]) /\ torn' = torn
  BY <1>1, <1>3, RunsIs DEF Restart, BootTypeOK
<1>5. CredentialMatches'
  BY <1>1, <1>3, <1>4, MatchesStill DEF Restart
<1>6. credential' = credential
  BY DEF Restart
<1> QED
  BY <1>4, <1>5, <1>6, FreshKeeps

LEMMA DieKeeps ==
  ASSUME BootIndInv, NEW s \in Start, Die(s) PROVE BootIndInv'
<1>1. BootTypeOK /\ CredentialMatches
  BY ByRun
<1>2. Become(s, [Waiting EXCEPT !.at = "failed"]) /\ credential' = credential
  BY DEF Die, End
<1>3. deaths' \in 0 .. MaxDeaths /\ torn' \in BOOLEAN
  BY <1>1 DEF Die, BootTypeOK
<1>4. Runs(s, [Waiting EXCEPT !.at = "failed"])
  BY <1>1, <1>2, <1>3 DEF Die, End, Runs, Become, BootTypeOK
<1>5. CredentialMatches'
  <2>1. CASE Own(s).at \in {"account", "commit"}
    BY <2>1 DEF Die, CredentialMatches
  <2>2. CASE Own(s).at \notin {"account", "commit"}
    BY <1>1, <1>2, <2>2, MatchesStill DEF Die
  <2> QED
    BY <2>1, <2>2
<1> QED
  BY <1>2, <1>4, <1>5, FreshKeeps

(* The record a run is at is not one it has passed.                        *)
LEMMA NotPassed ==
  ASSUME BootTypeOK, NEW s \in Start, Own(s).next <= 6
  PROVE  /\ Own(s).next \in 1..6
         /\ ~ Passed(s, Records[Own(s).next])
         /\ Records[Own(s).next] \in Entity \cup Link
<1>1. Own(s).next \in 1..7
  BY RunTyped
<1>2. Own(s).next \in 1..6
  BY <1>1
<1> QED
  BY <1>1, <1>2, PassedIs, RecordFacts DEF Entity, Link

(* The others' credentials are as they were.                               *)
LEMMA OthersUser ==
  ASSUME BootIndInv, NEW s \in Start, NEW job, Become(s, job),
         UNCHANGED <<credential, password>>
  PROVE  \A o \in Start \ {s} : OneUser(o)'
<1>1. ASSUME NEW o \in Start \ {s} PROVE OneUser(o)'
  <2>1. OneUser(o) /\ Own(o)' = Own(o)
    BY ByRun DEF RunGood, Become, BootTypeOK, Own
  <2> QED
    BY <2>1 DEF OneUser
<1> QED
  BY <1>1

LEMMA FindEntityKeeps ==
  ASSUME BootIndInv, NEW s \in Start, FindEntity(s) PROVE BootIndInv'
<1> DEFINE r == Records[Own(s).next]
<1>0. BootTypeOK /\ AccountOfUser /\ CredentialMatches /\ TablesGood /\ RunGood(s)
  BY ByRun
<1>1. Own(s).at = "find" /\ r \in Entity
  BY DEF FindEntity
<1>2. PICK x \in Id \cup {Nobody} :
        /\ x # Nobody => x \in Named(r)
        /\ Become(s, [Own(s) EXCEPT !.at = "save", !.has[r] = x])
  BY DEF FindEntity, Named
<1> DEFINE job == [Own(s) EXCEPT !.at = "save", !.has[r] = x]
<1>3. Own(s).next \in 1..6 /\ ~ Passed(s, r)
  <2>1. Own(s).next \in 1..7 /\ ~ (Own(s).next > 6)
    BY <1>0, <1>1, RunTyped, RecordFacts DEF RunGood, InOrder
  <2> QED
    BY <1>0, <2>1, NotPassed
<1> HIDE DEF r
<1>4. /\ job \in Run /\ job.at = "save" /\ job.next = Own(s).next
      /\ job.inserted = Own(s).inserted /\ job.wrote = Own(s).wrote
      /\ job.links = Own(s).links
      /\ job.has[r] = x /\ \A q \in Entity \ {r} : job.has[q] = Own(s).has[q]
  BY <1>0, <1>1, RunTyped DEF Run
<1> HIDE DEF job
<1>5. Become(s, job) /\ r = Records[job.next]
  BY <1>2, <1>4 DEF job, r
<1>6. calm' = calm /\ credential' = credential
  BY DEF FindEntity
<1>7. Runs(s, job) /\ torn' = torn /\ password' = password
  BY <1>0, <1>5, <1>6, RunsIs DEF FindEntity, BootTypeOK
<1>8. GoesOn(s, job)
  BY <1>1, <1>3, <1>4, <1>6, <1>7 DEF GoesOn, Running
<1>9. Own(s)' = job
  BY <1>0, <1>5 DEF Become, BootTypeOK, Own
<1>10. \A o \in Start : OneUser(o)'
  <2>1. OneUser(s)'
    BY <1>4, <1>9 DEF OneUser
  <2> QED
    BY <1>5, <1>6, <1>7, <2>1, OthersUser
<1>11. CredentialMatches'
  BY <1>0, <1>1, <1>5, <1>6, <1>7, MatchesStill DEF Runs
<1>12. /\ AccountOfUser'
       /\ credential' \in [user : Id \cup {Nobody}, account : Id \cup {Nobody}]
  BY <1>0, <1>6 DEF AccountOfUser, BootTypeOK
<1>13. x # Nobody => x \in Id /\ stored[r][x].there
  BY <1>0, <1>1, <1>2 DEF TablesGood, RowsNamed, Named
<1>14. job.next \in 1..6
  BY <1>3, <1>4
<1> QED
  BY <1>1, <1>2, <1>4, <1>5, <1>8, <1>10, <1>11, <1>12, <1>13, <1>14, StayKeeps

LEMMA OnwardIs ==
  ASSUME NEW run \in Run, run.next \in 1..6
  PROVE  /\ Onward(run) \in Run
         /\ Onward(run).next = run.next + 1
         /\ Onward(run).at = IF run.next = 6 THEN "credential" ELSE "find"
         /\ Onward(run).has = run.has /\ Onward(run).wrote = run.wrote
         /\ Onward(run).inserted = run.inserted /\ Onward(run).links = run.links
<1>1. run.next + 1 \in 1 .. Len(Records) + 1
  BY RecordFacts
<1> QED
  BY <1>1, RecordFacts DEF Onward, Run

LEMMA AdvancedIs ==
  ASSUME BootTypeOK, NEW s \in Start, NEW run \in Run, run.next \in 1..6,
         Advance(s, run)
  PROVE  /\ Own(s)'.has = run.has /\ Own(s)'.wrote = run.wrote
         /\ Own(s)'.inserted = run.inserted /\ Own(s)'.links = run.links
BY OnwardIs DEF Advance, Become, BootTypeOK, Own

(* A run that goes on keeps the invariant if what it has done for the       *)
(* record it leaves is good.                                               *)
LEMMA AdvancesWell ==
  ASSUME BootIndInv, NEW s \in Start, NEW run \in Run, run.next = Own(s).next,
         Own(s).at \in {"find", "save", "write"}, Own(s).next <= 6,
         Advance(s, run), UNCHANGED <<stored, linked, credential, settings>>,
         Own(s).inserted \subseteq run.inserted, Own(s).links \subseteq run.links,
         \A q \in Entity : q # Records[Own(s).next] =>
           /\ run.has[q] = Own(s).has[q] /\ run.wrote[q] = Own(s).wrote[q]
           /\ q \in run.inserted => q \in Own(s).inserted,
         \A e \in run.links : e \in Own(s).links \/ EndsThere(s, e)',
         \A r \in Entity : r = Records[Own(s).next] =>
           /\ run.has[r] \in Id
           /\ r \in run.inserted \/ "name" \in run.wrote[r] =>
                /\ Named(r) \subseteq {run.has[r]}
                /\ \A o \in Start \ {s} : ~ Claims(o, r)
           /\ run.wrote[r] # {} => stored[r][run.has[r]].there
           /\ r = "user" => stored[r][run.has[r]].there \/ r \in run.inserted
           /\ r = "client" => run.has[r] \in Named(r) \/ r \in run.inserted
           /\ s \in calm => EntityDone(s, r)',
         \A kind \in Link : kind = Records[Own(s).next] /\ s \in calm =>
           LinkDone(s, kind)'
  PROVE  BootIndInv'
<1> DEFINE job == Onward(run)
<1>0. BootTypeOK /\ RunGood(s)
  BY ByRun
<1>1. run.next \in 1..6 /\ ~ Passed(s, Records[Own(s).next])
  BY <1>0, NotPassed
<1>2. /\ job \in Run /\ job.next = Own(s).next + 1
      /\ job.at = IF Own(s).next = 6 THEN "credential" ELSE "find"
      /\ job.has = run.has /\ job.wrote = run.wrote
      /\ job.inserted = run.inserted /\ job.links = run.links
  BY <1>1, OnwardIs
<1>3. Become(s, job) /\ calm' = calm
  BY DEF Advance
<1> HIDE DEF job
<1>4. Runs(s, job) /\ torn' = torn
  BY <1>0, <1>3, RunsIs DEF BootTypeOK
<1>5. GoesOn(s, job)
  BY <1>1, <1>2, <1>3, <1>4 DEF GoesOn, Running
<1>6. \A r \in Entity : r \in job.inserted \/ job.wrote[r] # {} =>
        Passed(s, r) \/ r = Records[Own(s).next]
  BY <1>0, <1>2 DEF RunGood, InOrder
<1> QED
  BY <1>2, <1>4, <1>5, <1>6, AdvanceKeeps

(* Saving and writing an entity.                                           *)
LEMMA EntityIs ==
  ASSUME BootIndInv, NEW s \in Start,
         Own(s).at = "save" \/ (Own(s).at = "write" /\ Records[Own(s).next] \in Entity)
  PROVE  \E r \in Entity, x \in Id \cup {Nobody} :
           /\ r = Records[Own(s).next] /\ x = Own(s).has[r] /\ r \notin Link
           /\ Own(s) \in Run /\ Own(s).next \in 1..6
           /\ Own(s).wrote[r] = {} /\ r \notin Own(s).inserted
           /\ AtRecord(s, r)
           /\ Own(s).at = "write" => x \in Id
<1>0. BootTypeOK /\ RunGood(s)
  BY ByRun
<1>1. Own(s).next \in 1..6 /\ Records[Own(s).next] \in Entity
  BY <1>0, RunTyped, RecordFacts DEF RunGood, InOrder
<1>2. PICK r \in Entity : r = Records[Own(s).next]
  BY <1>1
<1>3. ~ Passed(s, r) /\ r \notin Link /\ AtRecord(s, r)
  BY <1>0, <1>1, <1>2, NotPassed, RecordFacts DEF Entity, Link, AtRecord
<1>4. PICK x \in Id \cup {Nobody} : x = Own(s).has[r]
  BY <1>0, RunTyped, RunFields
<1>5. Own(s).wrote[r] = {} /\ r \notin Own(s).inserted
  BY <1>0, <1>3 DEF RunGood, InOrder
<1>6. Own(s).at = "write" => x \in Id
  BY <1>0, <1>3, <1>4 DEF RunGood, InOrder
<1> QED
  BY <1>0, <1>1, <1>2, <1>3, <1>4, <1>5, <1>6, RunTyped

LEMMA InsertKeeps ==
  ASSUME BootIndInv, NEW s \in Start, Insert(s) PROVE BootIndInv'
<1>0. BootTypeOK /\ RunGood(s) /\ Own(s).at = "save"
  BY ByRun DEF Insert
<1>1. PICK r \in Entity, y \in Id \cup {Nobody} :
        /\ r = Records[Own(s).next] /\ y = Own(s).has[r] /\ r \notin Link
        /\ Own(s) \in Run /\ Own(s).next \in 1..6 /\ Own(s).wrote[r] = {}
  BY <1>0, EntityIs
<1>2. PICK x \in Id : x = IF y = Nobody THEN s ELSE y
  BY DEF Id
<1> DEFINE run == [Own(s) EXCEPT !.has[r] = x, !.inserted = @ \cup {r}]
<1>3. /\ Unlocked(s, r, x, Field)
      /\ UNCHANGED <<stored, linked, credential, settings>>
      /\ \/ Named(r) = {} /\ Advance(s, run)
         \/ End(s, "failed")
  BY <1>1, <1>2 DEF Insert
<1>4. CASE End(s, "failed")
  BY <1>0, <1>3, <1>4, FailKeeps
<1>5. CASE Named(r) = {} /\ Advance(s, run)
  <2>1. /\ run \in Run /\ run.next = Own(s).next
        /\ run.inserted = Own(s).inserted \cup {r} /\ run.wrote = Own(s).wrote
        /\ run.links = Own(s).links
        /\ run.has[r] = x /\ \A q \in Entity \ {r} : run.has[q] = Own(s).has[q]
    BY <1>1 DEF Run
  <2> HIDE DEF run
  <2>2. /\ Own(s)'.has = run.has /\ Own(s)'.inserted = run.inserted
    BY <1>0, <1>1, <1>5, <2>1, AdvancedIs
  <2>3. EntityDone(s, r)'
    BY <2>1, <2>2 DEF EntityDone, Committed
  <2>4. \A o \in Start \ {s} : ~ Claims(o, r)
    BY <1>3 DEF Unlocked, Field
  <2> QED
    BY <1>0, <1>1, <1>3, <1>5, <2>1, <2>3, <2>4, AdvancesWell
<1> QED
  BY <1>3, <1>4, <1>5

LEMMA ReloadKeeps ==
  ASSUME BootIndInv, NEW s \in Start, Reload(s) PROVE BootIndInv'
<1>0. /\ BootTypeOK /\ AccountOfUser /\ CredentialMatches /\ RunGood(s)
      /\ Own(s).at = "save"
  BY ByRun DEF Reload
<1>1. PICK r \in Entity, x \in Id \cup {Nobody} :
        /\ r = Records[Own(s).next] /\ x = Own(s).has[r] /\ r \notin Link
        /\ Own(s) \in Run /\ Own(s).next \in 1..6
        /\ Own(s).wrote[r] = {} /\ r \notin Own(s).inserted
        /\ AtRecord(s, r)
  BY <1>0, EntityIs
<1> DEFINE job == [Own(s) EXCEPT !.at = "write", !.differs = Field \ stored[r][x].as]
<1>2. /\ x \in Id /\ stored[r][x].there
      /\ UNCHANGED <<stored, linked, credential, settings>>
      /\ \/ stored[r][x].as = Field /\ Advance(s, Own(s))
         \/ Become(s, job) /\ calm' = calm
  BY <1>1 DEF Reload
<1>3. /\ r = "user" => stored[r][x].there
      /\ r = "client" => x \in Named(r)
  <2>1. x # Nobody
    BY <1>2 DEF Id
  <2> QED
    BY <1>0, <1>1, <1>2, <2>1 DEF RunGood, RowsHeld
<1>4. CASE stored[r][x].as = Field /\ Advance(s, Own(s))
  <2>1. /\ Own(s)'.has = Own(s).has /\ Own(s)'.wrote = Own(s).wrote
        /\ Own(s)'.inserted = Own(s).inserted
    BY <1>0, <1>1, <1>4, AdvancedIs
  <2>2. EntityDone(s, r)'
    <3>1. /\ stored' = stored /\ stored[r][x].there = TRUE
          /\ stored[r][x].as \cup {} = Field
      BY <1>0, <1>2, <1>4 DEF BootTypeOK, Row
    <3>2. Committed(s, r, x)' = [there |-> TRUE, as |-> Field]
      BY <1>1, <2>1, <3>1 DEF Committed
    <3> QED
      BY <1>1, <1>2, <2>1, <3>2 DEF EntityDone
  <2> QED
    BY <1>0, <1>1, <1>2, <1>3, <1>4, <2>2, AdvancesWell
<1>5. CASE Become(s, job) /\ calm' = calm
  <2>1. /\ job \in Run /\ job.at = "write" /\ job.next = Own(s).next
        /\ job.inserted = Own(s).inserted /\ job.wrote = Own(s).wrote
        /\ job.links = Own(s).links /\ job.has = Own(s).has
        /\ job.differs = Field \ stored[r][x].as
    BY <1>1 DEF Run
  <2> HIDE DEF job
  <2>2. Runs(s, job) /\ torn' = torn /\ password' = password
    BY <1>0, <1>2, <1>5, RunsIs DEF BootTypeOK
  <2>3. GoesOn(s, job)
    BY <1>0, <1>5, <2>1, <2>2 DEF GoesOn, Running
  <2>4. Own(s)' = job
    BY <1>0, <1>5 DEF Become, BootTypeOK, Own
  <2>5. \A o \in Start : OneUser(o)'
    <3>1. OneUser(s)'
      BY <2>1, <2>4 DEF OneUser
    <3> QED
      BY <1>2, <1>5, <2>2, <3>1, OthersUser
  <2>6. CredentialMatches'
    BY <1>0, <1>2, <1>5, <2>2, MatchesStill
  <2>7. /\ AccountOfUser'
        /\ credential' \in [user : Id \cup {Nobody}, account : Id \cup {Nobody}]
    BY <1>0, <1>2 DEF AccountOfUser, BootTypeOK
  <2>8. /\ job.next \in 1..6 /\ Records[job.next] = r /\ job.has[r] = x
        /\ \A q \in Entity : q = Records[job.next] =>
             /\ stored[q][job.has[q]].there
             /\ Field \ stored[q][job.has[q]].as \subseteq job.differs
    BY <1>1, <1>2, <2>1
  <2>9. /\ job.at \in {"credential", "account", "commit"} <=> job.next > 6
        /\ job.at # "save"
        /\ Records[job.next] \in Entity => job.has[Records[job.next]] \in Id
        /\ Records[job.next] = "user" => stored["user"][job.has["user"]].there
        /\ Records[job.next] = "client" => job.has["client"] \in Named("client")
    BY <1>2, <1>3, <2>1, <2>8
  <2> QED
    BY <2>1, <2>3, <2>5, <2>6, <2>7, <2>8, <2>9, StayKeeps
<1> QED
  BY <1>2, <1>4, <1>5

LEMMA UpdateKeeps ==
  ASSUME BootIndInv, NEW s \in Start, Update(s) PROVE BootIndInv'
<1>0. /\ BootTypeOK /\ RunGood(s)
      /\ Own(s).at = "write" /\ Records[Own(s).next] \in Entity
  BY ByRun DEF Update
<1>1. PICK r \in Entity, x \in Id \cup {Nobody} :
        /\ r = Records[Own(s).next] /\ x = Own(s).has[r] /\ r \notin Link
        /\ Own(s) \in Run /\ Own(s).next \in 1..6
        /\ Own(s).wrote[r] = {} /\ r \notin Own(s).inserted
        /\ AtRecord(s, r) /\ x \in Id
  BY <1>0, EntityIs
<1>2. PICK w \in SUBSET Field :
        w = IF stored[r][x].there THEN Own(s).differs ELSE {}
  BY <1>1, RunFields
<1> DEFINE run == [Own(s) EXCEPT !.wrote[r] = w]
<1>3. /\ UNCHANGED <<stored, linked, credential, settings>>
      /\ "name" \in w => \A o \in Start \ {s} : ~ Claims(o, r)
      /\ \/ End(s, "failed")
         \/ /\ Advance(s, run)
            /\ "name" \in w => Named(r) \subseteq {x}
  BY <1>1, <1>2 DEF Update, Unlocked
<1>4. CASE End(s, "failed")
  BY <1>0, <1>3, <1>4, FailKeeps
<1>5. CASE Advance(s, run) /\ ("name" \in w => Named(r) \subseteq {x})
  <2>1. /\ run \in Run /\ run.next = Own(s).next
        /\ run.inserted = Own(s).inserted /\ run.has = Own(s).has
        /\ run.links = Own(s).links
        /\ run.wrote[r] = w /\ \A q \in Entity \ {r} : run.wrote[q] = Own(s).wrote[q]
    BY <1>1 DEF Run
  <2> HIDE DEF run
  <2>2. /\ Own(s)'.has = run.has /\ Own(s)'.inserted = run.inserted
        /\ Own(s)'.wrote = run.wrote
    BY <1>0, <1>1, <1>5, <2>1, AdvancedIs
  <2>3. /\ r = "user" => stored[r][x].there
        /\ r = "client" => x \in Named(r)
    <3>1. x # Nobody
      BY <1>1 DEF Id
    <3> QED
      BY <1>0, <1>1, <3>1 DEF RunGood, RowsHeld
  <2>4. ASSUME s \in calm PROVE EntityDone(s, r)'
    <3>1. stored[r][x].there /\ Field \ stored[r][x].as \subseteq Own(s).differs
      BY <1>0, <1>1, <2>4 DEF RunGood, CalmProgress
    <3>2. /\ stored[r][x].there = TRUE /\ stored[r][x].as \cup w = Field
          /\ stored' = stored
      BY <1>0, <1>1, <1>2, <1>3, <3>1 DEF BootTypeOK, Row
    <3>3. Committed(s, r, x)' = [there |-> TRUE, as |-> Field]
      BY <1>1, <2>1, <2>2, <3>2 DEF Committed
    <3> QED
      BY <1>1, <2>1, <2>2, <3>3 DEF EntityDone
  <2>5. /\ run.wrote[r] # {} => stored[r][x].there
        /\ run.has[r] = x /\ r \notin run.inserted
    BY <1>1, <1>2, <2>1
  <2> QED
    BY <1>0, <1>1, <1>3, <1>5, <2>1, <2>3, <2>4, <2>5, AdvancesWell
<1> QED
  BY <1>3, <1>4, <1>5

(* The link that a run is at.                                              *)
LEMMA LinkIs ==
  ASSUME BootIndInv, NEW s \in Start,
         \/ Own(s).at = "find" /\ Records[Own(s).next] \in Link
         \/ Own(s).at = "write" /\ Wanted(s).kind \in Link
  PROVE  \E kind \in Link, e \in Ends :
           /\ kind = Records[Own(s).next] /\ kind \notin Entity
           /\ e = Wanted(s) /\ e = LinkOf(s, kind) /\ e.kind = kind
           /\ Own(s) \in Run /\ Own(s).next \in 1..6
<1>0. BootTypeOK /\ RunGood(s)
  BY ByRun
<1>1. Own(s).next \in 1..6
  BY <1>0, RunTyped, RecordFacts DEF RunGood, InOrder
<1>2. Wanted(s).kind = Records[Own(s).next]
  BY DEF Wanted, LinkOf
<1>3. PICK kind \in Link : kind = Records[Own(s).next]
  BY <1>2
<1>4. /\ kind = "membership" => Passed(s, "user") /\ Passed(s, "group")
      /\ kind # "membership" => Passed(s, "client")
  <2>1. Own(s).next \in 1..7
    BY <1>1
  <2> QED
    BY <1>1, <1>3, <2>1, PassedIs, RecordFacts DEF Link
<1>5. /\ kind = "membership" => Own(s).has["user"] \in Id /\ Own(s).has["group"] \in Id
      /\ kind # "membership" => Own(s).has["client"] \in Id
  BY <1>0, <1>4 DEF RunGood, InOrder, Entity
<1>6. PICK e \in Ends : e = LinkOf(s, kind)
  <2>1. ASSUME NEW of \in Id, NEW to \in Id
        PROVE  [kind |-> kind, of |-> of, to |-> to] \in Ends
    BY DEF Ends
  <2>2. LinkOf(s, kind) \in Ends
    BY <1>5, <2>1 DEF LinkOf
  <2> QED
    BY <2>2
<1>7. e = Wanted(s) /\ e.kind = kind /\ kind \notin Entity
  BY <1>3, <1>6 DEF Wanted, LinkOf, Entity, Link
<1> QED
  BY <1>0, <1>1, <1>3, <1>6, <1>7, RunTyped

(* A link that is there need not be made.                                  *)
LEMMA LinkFound ==
  ASSUME BootIndInv, NEW s \in Start, Own(s).at \in {"find", "write"},
         NEW kind \in Link, kind = Records[Own(s).next], kind \notin Entity,
         Own(s) \in Run, Own(s).next \in 1..6, LinkOf(s, kind) \in linked,
         Advance(s, Own(s)), UNCHANGED <<stored, linked, credential, settings>>
  PROVE  BootIndInv'
<1>0. BootTypeOK
  BY ByRun
<1>1. /\ Own(s)'.has = Own(s).has /\ Own(s)'.links = Own(s).links
  BY <1>0, AdvancedIs
<1>2. LinkDone(s, kind)'
  BY <1>1 DEF LinkDone, LinkOf
<1> QED
  BY <1>2, AdvancesWell

LEMMA FindLinkKeeps ==
  ASSUME BootIndInv, NEW s \in Start, FindLink(s) PROVE BootIndInv'
<1>0. /\ BootTypeOK /\ AccountOfUser /\ CredentialMatches /\ RunGood(s)
      /\ Own(s).at = "find" /\ Records[Own(s).next] \in Link
      /\ UNCHANGED <<stored, linked, credential, settings>>
  BY ByRun DEF FindLink
<1>1. PICK kind \in Link, e \in Ends :
        /\ kind = Records[Own(s).next] /\ kind \notin Entity
        /\ e = Wanted(s) /\ e = LinkOf(s, kind) /\ e.kind = kind
        /\ Own(s) \in Run /\ Own(s).next \in 1..6
  BY <1>0, LinkIs
<1>2. CASE Wanted(s) \in linked
  BY <1>0, <1>1, <1>2, LinkFound DEF FindLink
<1>3. CASE Wanted(s) \notin linked
  <2> DEFINE job == [Own(s) EXCEPT !.at = "write"]
  <2>1. Become(s, job) /\ calm' = calm
    BY <1>3 DEF FindLink, Goto
  <2>2. /\ job \in Run /\ job.at = "write" /\ job.next = Own(s).next
        /\ job.inserted = Own(s).inserted /\ job.wrote = Own(s).wrote
        /\ job.links = Own(s).links /\ job.has = Own(s).has
    BY <1>1 DEF Run
  <2> HIDE DEF job
  <2>3. Runs(s, job) /\ torn' = torn /\ password' = password
    BY <1>0, <2>1, RunsIs DEF BootTypeOK
  <2>4. GoesOn(s, job)
    BY <1>0, <2>1, <2>2, <2>3 DEF GoesOn, Running
  <2>5. Own(s)' = job
    BY <1>0, <2>1 DEF Become, BootTypeOK, Own
  <2>6. \A o \in Start : OneUser(o)'
    <3>1. OneUser(s)'
      BY <2>2, <2>5 DEF OneUser
    <3> QED
      BY <1>0, <2>1, <2>3, <3>1, OthersUser
  <2>7. CredentialMatches'
    BY <1>0, <2>1, <2>3, MatchesStill
  <2>8. /\ AccountOfUser'
        /\ credential' \in [user : Id \cup {Nobody}, account : Id \cup {Nobody}]
    BY <1>0 DEF AccountOfUser, BootTypeOK
  <2>9. /\ job.next \in 1..6 /\ Records[job.next] \notin Entity
        /\ job.at \in {"credential", "account", "commit"} <=> job.next > 6
        /\ Records[job.next] # "user" /\ Records[job.next] # "client"
    BY <1>1, <2>2 DEF Entity
  <2> QED
    BY <2>2, <2>4, <2>6, <2>7, <2>8, <2>9, StayKeeps
<1> QED
  BY <1>2, <1>3

LEMMA InsertLinkKeeps ==
  ASSUME BootIndInv, NEW s \in Start, InsertLink(s) PROVE BootIndInv'
<1>0. /\ BootTypeOK /\ RunGood(s)
      /\ Own(s).at = "write" /\ Wanted(s).kind \in Link
      /\ UNCHANGED <<stored, linked, credential, settings>>
  BY ByRun DEF InsertLink
<1>1. PICK kind \in Link, e \in Ends :
        /\ kind = Records[Own(s).next] /\ kind \notin Entity
        /\ e = Wanted(s) /\ e = LinkOf(s, kind) /\ e.kind = kind
        /\ Own(s) \in Run /\ Own(s).next \in 1..6
  BY <1>0, LinkIs
<1> DEFINE run == [Own(s) EXCEPT !.links = @ \cup {e}]
<1>2. \/ EndsThere(s, e) /\ Advance(s, run)
      \/ e \in linked /\ Advance(s, Own(s))
      \/ End(s, "failed")
  BY <1>1 DEF InsertLink
<1>3. CASE EndsThere(s, e) /\ Advance(s, run)
  <2>1. /\ run \in Run /\ run.next = Own(s).next
        /\ run.inserted = Own(s).inserted /\ run.has = Own(s).has
        /\ run.wrote = Own(s).wrote /\ run.links = Own(s).links \cup {e}
    BY <1>1 DEF Run
  <2> HIDE DEF run
  <2>2. /\ Own(s)'.has = run.has /\ Own(s)'.inserted = run.inserted
        /\ Own(s)'.links = run.links
    BY <1>0, <1>1, <1>3, <2>1, AdvancedIs
  <2>3. EndsThere(s, e)'
    BY <1>0, <1>3, <2>1, <2>2 DEF EndsThere, Touches
  <2>4. LinkDone(s, kind)'
    BY <1>1, <2>1, <2>2 DEF LinkDone, LinkOf
  <2> QED
    BY <1>0, <1>1, <1>3, <2>1, <2>3, <2>4, AdvancesWell
<1>4. CASE e \in linked /\ Advance(s, Own(s))
  BY <1>0, <1>1, <1>4, LinkFound
<1>5. CASE End(s, "failed")
  BY <1>0, <1>5, FailKeeps
<1> QED
  BY <1>2, <1>3, <1>4, <1>5

(* The credential.                                                         *)

LEMMA SkipKeeps ==
  ASSUME BootIndInv, NEW s \in Start, SkipCredential(s) PROVE BootIndInv'
<1> DEFINE job == [Own(s) EXCEPT !.at = "commit"]
<1>0. /\ BootTypeOK /\ AccountOfUser /\ CredentialMatches /\ RunGood(s)
      /\ Own(s).at = "credential" /\ ~ password
      /\ UNCHANGED <<stored, linked, credential, settings>>
      /\ Become(s, job) /\ calm' = calm
  BY ByRun DEF SkipCredential, Goto
<1>1. Own(s) \in Run /\ Own(s).next \in 1..7 /\ Own(s).next > 6
  BY <1>0, RunTyped, RecordFacts DEF RunGood, InOrder
<1>2. /\ job \in Run /\ job.at = "commit" /\ job.next = Own(s).next
      /\ job.inserted = Own(s).inserted /\ job.wrote = Own(s).wrote
      /\ job.links = Own(s).links /\ job.has = Own(s).has
  BY <1>1 DEF Run
<1> HIDE DEF job
<1>3. Runs(s, job) /\ torn' = torn /\ password' = password
  BY <1>0, RunsIs DEF BootTypeOK
<1>4. GoesOn(s, job)
  BY <1>0, <1>2, <1>3 DEF GoesOn, Running
<1>5. \A o \in Start : OneUser(o)'
  <2>1. Own(s)' = job
    BY <1>0 DEF Become, BootTypeOK, Own
  <2>2. OneUser(s)'
    BY <1>0, <1>2, <1>3, <2>1 DEF OneUser
  <2> QED
    BY <1>0, <1>3, <2>2, OthersUser
<1>6. CredentialMatches'
  BY <1>0, <1>3, MatchesStill
<1>7. /\ AccountOfUser'
      /\ credential' \in [user : Id \cup {Nobody}, account : Id \cup {Nobody}]
  BY <1>0 DEF AccountOfUser, BootTypeOK
<1> QED
  BY <1>1, <1>2, <1>4, <1>5, <1>6, <1>7, StayKeeps

(* The user of a run that is past all its records.                         *)
LEMMA UserHeld ==
  ASSUME BootIndInv, NEW s \in Start,
         Own(s).at \in {"credential", "account", "commit"}
  PROVE  \E id \in Id : /\ id = Own(s).has["user"] /\ id # Nobody
                        /\ stored["user"][id].there \/ "user" \in Own(s).inserted
<1>1. BootTypeOK /\ RunGood(s)
  BY ByRun
<1>2. Own(s).next \in 1..7 /\ Own(s).next > 6
  BY <1>1, RunTyped, RecordFacts DEF RunGood, InOrder
<1>3. Passed(s, "user") /\ "user" \in Entity
  BY <1>2, PassedIs DEF Entity
<1> QED
  BY <1>1, <1>3 DEF RunGood, InOrder, RowsHeld, Id

LEMMA UpsertUserKeeps ==
  ASSUME BootIndInv, NEW s \in Start, UpsertCredentialUser(s) PROVE BootIndInv'
<1>0. /\ BootTypeOK /\ AccountOfUser /\ CredentialMatches /\ RunGood(s)
      /\ Own(s).at = "credential"
      /\ UNCHANGED <<stored, linked, settings>>
  BY ByRun DEF UpsertCredentialUser
<1>1. PICK id \in Id : /\ id = Own(s).has["user"] /\ id # Nobody
                       /\ stored["user"][id].there \/ "user" \in Own(s).inserted
  BY <1>0, UserHeld
<1>2. Own(s) \in Run /\ Own(s).next \in 1..7 /\ Own(s).next > 6
  BY <1>0, RunTyped, RecordFacts DEF RunGood, InOrder
<1> DEFINE job == [Own(s) EXCEPT !.at = "account"]
<1>3. \/ /\ credential.user \in {Nobody, id}
         /\ credential' = [credential EXCEPT !.user = id]
         /\ Become(s, job) /\ calm' = calm
      \/ credential' = credential /\ End(s, "failed")
  BY <1>1 DEF UpsertCredentialUser, Goto
<1>4. CASE credential' = credential /\ End(s, "failed")
  BY <1>0, <1>4, FailKeeps
<1>5. CASE /\ credential.user \in {Nobody, id}
           /\ credential' = [credential EXCEPT !.user = id]
           /\ Become(s, job) /\ calm' = calm
  <2>1. /\ job \in Run /\ job.at = "account" /\ job.next = Own(s).next
        /\ job.inserted = Own(s).inserted /\ job.wrote = Own(s).wrote
        /\ job.links = Own(s).links /\ job.has = Own(s).has
    BY <1>2 DEF Run
  <2> HIDE DEF job
  <2>2. Runs(s, job) /\ torn' = torn /\ password' = password
    BY <1>0, <1>5, RunsIs DEF BootTypeOK
  <2>3. GoesOn(s, job)
    BY <1>0, <1>5, <2>1, <2>2 DEF GoesOn, Running
  <2>4. Own(s)' = job /\ \A o \in Start \ {s} : Own(o)' = Own(o)
    BY <1>0, <1>5 DEF Become, BootTypeOK, Own
  <2>5. /\ credential'.user = id /\ credential'.account = credential.account
        /\ credential' \in [user : Id \cup {Nobody}, account : Id \cup {Nobody}]
    BY <1>0, <1>5 DEF BootTypeOK
  <2>6. AccountOfUser'
    BY <1>0, <1>5, <2>5 DEF AccountOfUser
  <2>7. CredentialMatches'
    BY <1>0, <1>1, <2>1, <2>4, <2>5 DEF CredentialMatches
  <2>8. OneUser(s)'
    BY <1>1, <2>1, <2>4, <2>5 DEF OneUser
  <2>9. ASSUME NEW o \in Start \ {s} PROVE OneUser(o)'
    <3>1. OneUser(o) /\ Own(o)' = Own(o)
      BY <2>4, ByRun DEF RunGood
    <3>2. CASE Own(o).at \in {"account", "commit"}
      <4>1. Own(o).has["user"] # Nobody
        BY <3>2, UserHeld
      <4>2. ASSUME credential.user = Own(o).has["user"]
            PROVE  credential'.user = credential.user
        BY <1>5, <2>5, <4>1, <4>2
      <4> QED
        BY <2>2, <2>5, <3>1, <4>2 DEF OneUser
    <3>3. CASE Own(o).at \notin {"account", "commit"}
      BY <3>1, <3>3 DEF OneUser
    <3> QED
      BY <3>2, <3>3
  <2> QED
    BY <1>2, <2>1, <2>3, <2>5, <2>6, <2>7, <2>8, <2>9, StayKeeps
<1> QED
  BY <1>3, <1>4, <1>5

LEMMA AccountKeeps ==
  ASSUME BootIndInv, NEW s \in Start, UpsertAccount(s) PROVE BootIndInv'
<1> DEFINE job == [Own(s) EXCEPT !.at = "commit"]
<1>0. /\ BootTypeOK /\ AccountOfUser /\ CredentialMatches /\ RunGood(s)
      /\ Own(s).at = "account"
      /\ UNCHANGED <<stored, linked, settings>>
      /\ Become(s, job) /\ calm' = calm
      /\ credential' = [credential EXCEPT !.account = Own(s).has["user"]]
  BY ByRun DEF UpsertAccount, Goto
<1>1. PICK id \in Id : id = Own(s).has["user"] /\ credential.user = id
  BY <1>0, UserHeld DEF RunGood, OneUser
<1>2. Own(s) \in Run /\ Own(s).next \in 1..7 /\ Own(s).next > 6
  BY <1>0, RunTyped, RecordFacts DEF RunGood, InOrder
<1>3. /\ job \in Run /\ job.at = "commit" /\ job.next = Own(s).next
      /\ job.inserted = Own(s).inserted /\ job.wrote = Own(s).wrote
      /\ job.links = Own(s).links /\ job.has = Own(s).has
  BY <1>2 DEF Run
<1> HIDE DEF job
<1>4. Runs(s, job) /\ torn' = torn /\ password' = password
  BY <1>0, RunsIs DEF BootTypeOK
<1>5. GoesOn(s, job)
  BY <1>0, <1>3, <1>4 DEF GoesOn, Running
<1>6. Own(s)' = job /\ \A o \in Start \ {s} : Own(o)' = Own(o)
  BY <1>0 DEF Become, BootTypeOK, Own
<1>7. /\ credential'.user = id /\ credential'.account = id
      /\ credential' \in [user : Id \cup {Nobody}, account : Id \cup {Nobody}]
  BY <1>0, <1>1 DEF BootTypeOK
<1>8. AccountOfUser'
  BY <1>7 DEF AccountOfUser
<1>9. CredentialMatches'
  <2>1. ASSUME NEW o \in Start, Own(o).at \in {"account", "commit"}
        PROVE  /\ Own(o)'.at \in {"account", "commit"}
               /\ Own(o)'.inserted = Own(o).inserted /\ Own(o)'.has = Own(o).has
    BY <1>3, <1>6, <2>1
  <2>2. stored' = stored /\ torn' = torn /\ credential'.user = credential.user
    BY <1>0, <1>1, <1>4, <1>7
  <2> QED
    BY <1>0, <2>1, <2>2 DEF CredentialMatches
<1>10. ASSUME NEW o \in Start PROVE OneUser(o)'
  <2>1. CASE o = s
    BY <1>1, <1>3, <1>6, <1>7, <2>1 DEF OneUser
  <2>2. CASE o # s
    <3>1. OneUser(o) /\ Own(o)' = Own(o)
      BY <1>6, <2>2, ByRun DEF RunGood
    <3> QED
      BY <1>1, <1>4, <1>7, <3>1 DEF OneUser
  <2> QED
    BY <2>1, <2>2
<1> QED
  BY <1>2, <1>3, <1>5, <1>7, <1>8, <1>9, <1>10, StayKeeps

-----------------------------------------------------------------------------
(* What is stored changes.                                                 *)

LEMMA CommittedIs ==
  ASSUME BootTypeOK, NEW s \in Start, RunGood(s), NEW r \in Entity, NEW x \in Id
  PROVE  /\ Committed(s, r, x) \in Row
         /\ stored[r][x].there => Committed(s, r, x).there
         /\ stored[r][x].as \subseteq Committed(s, r, x).as
         /\ "name" \in Committed(s, r, x).as => "name" \in stored[r][x].as
              \/ (x = Own(s).has[r] /\ (r \in Own(s).inserted
                                          \/ "name" \in Own(s).wrote[r]))
         /\ RowsNamed /\ Committed(s, r, x).as # {} => Committed(s, r, x).there
         /\ x = Own(s).has[r] /\ r \in Own(s).inserted =>
              Committed(s, r, x) = [there |-> TRUE, as |-> Field]
         /\ Committed(s, r, x).there /\ ~ stored[r][x].there =>
              x = Own(s).has[r] /\ r \in Own(s).inserted
<1>1. stored[r][x] \in Row /\ stored[r][x].there \in BOOLEAN
      /\ stored[r][x].as \subseteq Field
  BY DEF BootTypeOK, Row
<1>2. Own(s).wrote[r] \subseteq Field
  BY RunTyped, RunFields
<1>3. Own(s).wrote[r] # {} => stored[r][Own(s).has[r]].there
  BY DEF RunGood, RowsHeld
<1>4. CASE Own(s).has[r] # x
  BY <1>1, <1>4 DEF Committed, RowsNamed
<1>5. CASE Own(s).has[r] = x /\ r \in Own(s).inserted
  <2>1. Committed(s, r, x) = [there |-> TRUE, as |-> Field]
    BY <1>5 DEF Committed
  <2> QED
    BY <1>1, <1>5, <2>1 DEF Row
<1>6. CASE Own(s).has[r] = x /\ r \notin Own(s).inserted
  <2> DEFINE row == [there |-> stored[r][x].there,
                     as |-> stored[r][x].as \cup Own(s).wrote[r]]
  <2>1. Committed(s, r, x) = row
    BY <1>6 DEF Committed
  <2>2. row \in Row /\ row.there = stored[r][x].there
        /\ row.as = stored[r][x].as \cup Own(s).wrote[r]
    BY <1>1, <1>2 DEF Row
  <2> HIDE DEF row
  <2> QED
    BY <1>1, <1>3, <1>6, <2>1, <2>2 DEF RowsNamed
<1> QED
  BY <1>4, <1>5, <1>6

LEMMA CommitKeeps ==
  ASSUME BootIndInv, NEW s \in Start, Commit(s) PROVE BootIndInv'
<1> DEFINE job == [Waiting EXCEPT !.at = "done"]
<1>0. /\ BootTypeOK /\ TablesGood /\ AccountOfUser /\ CredentialMatches
      /\ \A o \in Start : RunGood(o)
      /\ Own(s).at = "commit" /\ Running(s)
      /\ stored' = [r \in Entity |-> [x \in Id |-> Committed(s, r, x)]]
      /\ linked' = linked \cup Own(s).links
      /\ UNCHANGED <<credential, edits, deaths, torn, password>>
      /\ calm' = calm \ {s} /\ Become(s, job)
  BY ByRun DEF Commit, End, settings, Running
<1>1. /\ job \in Run /\ job.at = "done" /\ job.next = 1 /\ job.inserted = {}
      /\ job.links = {} /\ \A r \in Entity : job.wrote[r] = {}
  BY NotRunning
<1>2. job = [Waiting EXCEPT !.at = job.at]
  BY <1>1
<1> HIDE DEF job
<1>3. Own(s)' = job /\ \A o \in Start \ {s} : Own(o)' = Own(o)
  BY <1>0 DEF Become, BootTypeOK, Own
<1>4. \A r \in Entity, x \in Id : stored'[r][x] = Committed(s, r, x)
  BY <1>0
<1>5. /\ \A r \in Entity, x \in Id :
           /\ stored[r][x].there => stored'[r][x].there
           /\ stored[r][x].as \subseteq stored'[r][x].as
           /\ stored'[r][x] \in Row
           /\ stored'[r][x].as # {} => stored'[r][x].there
           /\ "name" \in stored'[r][x].as => "name" \in stored[r][x].as
                \/ (x = Own(s).has[r] /\ Claims(s, r))
           /\ x = Own(s).has[r] /\ r \in Own(s).inserted =>
                stored'[r][x] = [there |-> TRUE, as |-> Field]
           /\ stored'[r][x].there /\ ~ stored[r][x].there =>
                x = Own(s).has[r] /\ r \in Own(s).inserted
  BY <1>0, <1>4, CommittedIs DEF TablesGood, Claims
<1>6. \A r \in Entity :
        /\ Named(r) \subseteq Named(r)'
        /\ ~ Claims(s, r) => Named(r)' = Named(r)
        /\ Claims(s, r) => Named(r)' \subseteq {Own(s).has[r]}
  BY <1>0, <1>5 DEF Named, RunGood, NamesClaimed
<1>7. BootTypeOK'
  <2>1. stored' \in [Entity -> [Id -> Row]]
    BY <1>0, <1>5
  <2>2. script' \in [Start -> Run] /\ linked' \subseteq Ends
    BY <1>0, <1>1, RunTyped, RunFields DEF Become, BootTypeOK
  <2> QED
    BY <1>0, <2>1, <2>2 DEF BootTypeOK
<1>8. TablesGood'
  <2>1. ASSUME NEW r \in Entity, NEW x \in Start, stored'[r][x].there
        PROVE  Named("client")' # {}
    <3>1. "client" \in Entity /\ x \in Id
      BY DEF Entity, Id
    <3>2. CASE stored[r][x].there
      BY <1>0, <1>6, <3>1, <3>2 DEF TablesGood
    <3>3. CASE ~ stored[r][x].there
      <4>1. Passed(s, "client")
        <5>1. Own(s).next \in 1..7 /\ Own(s).next > 6
          BY <1>0, RunTyped, RecordFacts DEF RunGood, InOrder
        <5> QED
          BY <5>1, PassedIs
      <4>2. Own(s).has["client"] \in Id
        BY <1>0, <3>1, <4>1 DEF RunGood, InOrder
      <4>3. Own(s).has["client"] \in Named("client") \/ "client" \in Own(s).inserted
        BY <1>0, <4>1 DEF RunGood, RowsHeld
      <4>4. "client" \in Own(s).inserted =>
              "name" \in stored'["client"][Own(s).has["client"]].as
        <5>1. PICK y \in Id : y = Own(s).has["client"]
          BY <4>2
        <5> QED
          BY <1>5, <3>1, <5>1 DEF Field
      <4> QED
        BY <1>6, <3>1, <4>2, <4>3, <4>4 DEF Named
    <3> QED
      BY <3>2, <3>3
  <2>2. \A r \in Entity : \A x, y \in Named(r)' : x = y
    BY <1>0, <1>6 DEF TablesGood
  <2>3. ASSUME NEW e \in linked', NEW r \in Entity, NEW x \in Id, Touches(e, r, x)
        PROVE  stored'[r][x].there
    <3>1. CASE e \in linked
      BY <1>0, <1>5, <2>3, <3>1 DEF TablesGood
    <3>2. CASE e \in Own(s).links
      BY <1>0, <1>5, <2>3, <3>2 DEF RunGood, RowsHeld, EndsThere
    <3> QED
      BY <1>0, <3>1, <3>2
  <2> QED
    BY <1>5, <2>1, <2>2, <2>3 DEF TablesGood, RowsNamed, Touches
<1>9. AccountOfUser'
  BY <1>0 DEF AccountOfUser
<1>10. ASSUME NEW o \in Start, o # s PROVE RunGood(o)'
  <2>1. RunGood(o) /\ Own(o)' = Own(o) /\ Own(o) \in Run
    BY <1>0, <1>3, <1>10, RunTyped
  <2>2. /\ \A r : Passed(o, r)' = Passed(o, r) /\ AtRecord(o, r)' = AtRecord(o, r)
        /\ Running(o)' = Running(o)
    BY <2>1 DEF Passed, AtRecord, Running
  <2>3. InOrder(o)'
    BY <2>1, <2>2 DEF RunGood, InOrder
  <2>4. NamesClaimed(o)'
    <3>1. \A q \in Start, r \in Entity : Claims(q, r)' => q # s /\ Claims(q, r)
      BY <1>1, <1>3 DEF Claims, Running
    <3>2. ASSUME NEW r \in Entity, Claims(o, r)
          PROVE  Named(r)' \subseteq {Own(o).has[r]}
      BY <1>0, <1>6, <1>10, <2>1, <3>2 DEF RunGood, NamesClaimed
    <3> QED
      BY <1>10, <2>1, <3>1, <3>2 DEF RunGood, NamesClaimed
  <2>5. RowsHeld(o)'
    <3>1. /\ "user" \in Entity /\ "client" \in Entity
          /\ AtRecord(o, "user") => Own(o).has["user"] \in Id \cup {Nobody}
          /\ \A r \in Entity : Passed(o, r) => Own(o).has[r] \in Id
      BY <2>1, RunFields DEF Entity, RunGood, InOrder
    <3>2. \A e \in Own(o).links : EndsThere(o, e)'
      BY <1>5, <2>1 DEF RunGood, RowsHeld, EndsThere, Touches
    <3>3. ASSUME NEW r \in Entity, Own(o).wrote[r] # {}
          PROVE  stored'[r][Own(o).has[r]].there
      BY <1>5, <2>1, <3>1, <3>3 DEF RunGood, RowsHeld, InOrder
    <3> QED
      BY <1>5, <1>6, <2>1, <2>2, <3>1, <3>2, <3>3 DEF RunGood, RowsHeld
  <2>6. OneUser(o)'
    BY <1>0, <2>1 DEF RunGood, OneUser
  <2>7. CalmProgress(o)'
    <3>1. ASSUME NEW r \in Entity, Passed(o, r), o \in calm
          PROVE  EntityDone(o, r)'
      <4>1. EntityDone(o, r)
        BY <2>1, <3>1 DEF RunGood, CalmProgress
      <4>2. PICK x \in Id : x = Own(o).has[r]
        BY <4>1 DEF EntityDone
      <4>3. Committed(o, r, x) = [there |-> TRUE, as |-> Field]
        BY <4>1, <4>2 DEF EntityDone
      <4>4. CASE r \in Own(o).inserted
        BY <2>1, <4>2, <4>4 DEF EntityDone, Committed
      <4>5. CASE r \notin Own(o).inserted
        <5>1. /\ stored[r][x].there = TRUE
              /\ stored[r][x].as \cup Own(o).wrote[r] = Field
          BY <4>2, <4>3, <4>5 DEF Committed
        <5>2. stored'[r][x].there = TRUE /\ stored'[r][x].as \subseteq Field
          BY <1>5, <5>1 DEF Row
        <5>3. stored'[r][x].as \cup Own(o).wrote[r] = Field
          BY <1>5, <2>1, <5>1, <5>2, RunFields
        <5> QED
          BY <2>1, <4>2, <4>5, <5>2, <5>3 DEF EntityDone, Committed
      <4> QED
        BY <4>4, <4>5
    <3>2. ASSUME NEW kind \in Link, Passed(o, kind), o \in calm
          PROVE  LinkDone(o, kind)'
      BY <1>0, <2>1, <3>2 DEF RunGood, CalmProgress, LinkDone, LinkOf
    <3>3. ASSUME NEW r \in Entity, AtRecord(o, r), Own(o).at = "write", o \in calm
          PROVE  /\ stored'[r][Own(o).has[r]].there
                 /\ Field \ stored'[r][Own(o).has[r]].as \subseteq Own(o).differs
      <4>1. Own(o).has[r] \in Id
        BY <2>1, <3>3 DEF RunGood, InOrder
      <4> QED
        BY <1>5, <2>1, <3>3, <4>1 DEF RunGood, CalmProgress
    <3> QED
      BY <1>0, <2>1, <2>2, <3>1, <3>2, <3>3 DEF CalmProgress
  <2> QED
    BY <2>3, <2>4, <2>5, <2>6, <2>7 DEF RunGood
<1>11. RunGood(s)'
  <2>1. \A r \in Entity \cup Link : ~ Passed(s, r)' /\ ~ AtRecord(s, r)'
    <3>1. Own(s)'.next \in 1..7
      BY <1>1, <1>3
    <3> QED
      BY <1>1, <1>3, <3>1, PassedIsNext DEF AtRecord, Entity, Link
  <2>2. InOrder(s)'
    BY <1>1, <1>2, <1>3, <2>1, RecordFacts DEF InOrder
  <2>3. NamesClaimed(s)' /\ OneUser(s)'
    BY <1>1, <1>3 DEF NamesClaimed, Claims, OneUser
  <2>4. RowsHeld(s)'
    BY <1>1, <1>3, <2>1 DEF RowsHeld, Entity
  <2>5. CalmProgress(s)'
    BY <1>0 DEF CalmProgress
  <2> QED
    BY <2>2, <2>3, <2>4, <2>5 DEF RunGood
<1>12. CredentialMatches'
  <2>1. "user" \in Entity /\ credential' = credential /\ torn' = torn
    BY <1>0 DEF Entity
  <2>2. ASSUME credential.user # Nobody PROVE credential.user \in Id
    BY <1>0, <2>2 DEF BootTypeOK
  <2> QED
    BY <1>0, <1>3, <1>5, <2>1, <2>2 DEF CredentialMatches
<1> QED
  BY <1>7, <1>8, <1>9, <1>10, <1>11, <1>12, ByRunNext

(* What an administrator changes disturbs no claim, no lock and no foreign  *)
(* key; every run counts as disturbed.                                     *)
LEMMA EditedKeeps ==
  ASSUME BootIndInv, Edited,
         stored' \in [Entity -> [Id -> Row]], linked' \subseteq linked, RowsNamed',
         Named("client") \subseteq Named("client")',
         \A r \in Entity, x \in Id :
           /\ stored'[r][x].there => stored[r][x].there
           /\ stored[r][x].there /\ ~ stored'[r][x].there =>
                /\ r # "user"
                /\ \A e \in linked' : ~ Touches(e, r, x)
                /\ \A o \in Start : /\ \A e \in Own(o).links : ~ Touches(e, r, x)
                                    /\ Own(o).wrote[r] = {} \/ Own(o).has[r] # x,
         \A r \in Entity :
           \/ Named(r)' \subseteq Named(r)
           \/ /\ \A x, y \in Named(r)' : x = y
              /\ \A o \in Start : ~ Claims(o, r)
  PROVE  BootIndInv'
<1>0. /\ BootTypeOK /\ TablesGood /\ AccountOfUser /\ CredentialMatches
      /\ \A o \in Start : RunGood(o)
      /\ UNCHANGED <<credential, script, deaths, torn, password>>
      /\ edits < MaxEdits /\ edits' = edits + 1 /\ calm' = {}
  BY ByRun DEF Edited
<1>1. "user" \in Entity /\ "client" \in Entity
  BY DEF Entity
<1>2. BootTypeOK'
  <2>1. edits' \in 0 .. MaxEdits
    BY <1>0 DEF BootTypeOK
  <2> QED
    BY <1>0, <2>1 DEF BootTypeOK
<1>3. TablesGood'
  <2>1. ASSUME NEW r \in Entity, NEW x \in Start, stored'[r][x].there
        PROVE  Named("client")' # {}
    <3>1. stored[r][x].there
      BY <2>1 DEF Id
    <3> QED
      BY <1>0, <3>1 DEF TablesGood
  <2>2. ASSUME NEW r \in Entity PROVE \A x, y \in Named(r)' : x = y
    BY <1>0 DEF TablesGood
  <2>3. ASSUME NEW e \in linked', NEW r \in Entity, NEW x \in Id, Touches(e, r, x)
        PROVE  stored'[r][x].there
    BY <1>0, <2>3 DEF TablesGood
  <2> QED
    BY <2>1, <2>2, <2>3 DEF TablesGood, Touches
<1>4. AccountOfUser'
  BY <1>0 DEF AccountOfUser
<1>5. CredentialMatches'
  <2>1. \A o \in Start : Own(o)' = Own(o)
    BY <1>0 DEF Own
  <2>2. ASSUME credential.user # Nobody, stored["user"][credential.user].there
        PROVE  stored'["user"][credential.user].there
    <3>1. credential.user \in Id
      BY <1>0, <2>2 DEF BootTypeOK
    <3> QED
      BY <1>1, <2>2, <3>1
  <2> QED
    BY <1>0, <2>1, <2>2 DEF CredentialMatches
<1>6. ASSUME NEW o \in Start PROVE RunGood(o)'
  <2>1. RunGood(o) /\ Own(o)' = Own(o) /\ Own(o) \in Run
    BY <1>0, RunTyped DEF Own
  <2>2. /\ \A r : Passed(o, r)' = Passed(o, r) /\ AtRecord(o, r)' = AtRecord(o, r)
        /\ Running(o)' = Running(o)
    BY <2>1 DEF Passed, AtRecord, Running
  <2>3. InOrder(o)'
    BY <2>1, <2>2 DEF RunGood, InOrder
  <2>4. NamesClaimed(o)'
    <3>1. \A q \in Start, r \in Entity : Claims(q, r)' = Claims(q, r)
      BY <1>0 DEF Claims, Running, Own
    <3> QED
      BY <2>1, <3>1 DEF RunGood, NamesClaimed
  <2>5. RowsHeld(o)'
    <3>1. /\ AtRecord(o, "user") => Own(o).has["user"] \in Id \cup {Nobody}
          /\ \A r \in Entity : Passed(o, r) => Own(o).has[r] \in Id
      BY <1>1, <2>1, RunFields DEF RunGood, InOrder
    <3>2. ASSUME NEW e \in Own(o).links PROVE EndsThere(o, e)'
      BY <2>1 DEF RunGood, RowsHeld, EndsThere, Touches
    <3>3. ASSUME NEW r \in Entity, Own(o).wrote[r] # {}
          PROVE  stored'[r][Own(o).has[r]].there
      <4>1. /\ Own(o).has[r] \in Id /\ stored[r][Own(o).has[r]].there
        BY <2>1, <3>1, <3>3 DEF RunGood, RowsHeld, InOrder
      <4> QED
        BY <3>3, <4>1
    <3>4. \A x \in Id : stored["user"][x].there => stored'["user"][x].there
      BY <1>1
    <3> QED
      BY <1>1, <2>1, <2>2, <3>1, <3>2, <3>3, <3>4 DEF RunGood, RowsHeld
  <2>6. OneUser(o)'
    BY <1>0, <2>1 DEF RunGood, OneUser
  <2>7. CalmProgress(o)'
    BY <1>0 DEF CalmProgress
  <2> QED
    BY <2>3, <2>4, <2>5, <2>6, <2>7 DEF RunGood
<1> QED
  BY <1>2, <1>3, <1>4, <1>5, <1>6, ByRunNext

(* The columns of a row that stays.                                        *)
LEMMA ColumnsKeep ==
  ASSUME BootIndInv, Edited, NEW r \in Entity, NEW x \in Id, NEW columns \in SUBSET Field,
         SetRow(r, x, [stored[r][x] EXCEPT !.as = columns]),
         columns # {} => stored[r][x].there,
         r = "client" /\ "name" \in stored[r][x].as => "name" \in columns,
         "name" \in columns => \/ "name" \in stored[r][x].as
                               \/ Named(r) = {} /\ \A o \in Start : ~ Claims(o, r)
  PROVE  BootIndInv'
<1>0. BootTypeOK /\ TablesGood
  BY ByRun
<1> DEFINE row == [stored[r][x] EXCEPT !.as = columns]
<1>1. row \in Row /\ row.there = stored[r][x].there /\ row.as = columns
  BY <1>0 DEF BootTypeOK, Row
<1>2. stored' = [stored EXCEPT ![r][x] = row] /\ linked' = linked
  BY DEF SetRow
<1> HIDE DEF row
<1>3. /\ stored' \in [Entity -> [Id -> Row]]
      /\ stored'[r][x] = row
      /\ \A q \in Entity, y \in Id : q # r \/ y # x => stored'[q][y] = stored[q][y]
  BY <1>0, <1>1, <1>2 DEF BootTypeOK
<1>4. \A q \in Entity, y \in Id : stored'[q][y].there = stored[q][y].there
  BY <1>1, <1>3
<1>5. RowsNamed'
  BY <1>0, <1>1, <1>3, <1>4 DEF TablesGood, RowsNamed
<1>6. Named("client") \subseteq Named("client")'
  BY <1>1, <1>3 DEF Named, Entity
<1>7. ASSUME NEW q \in Entity
      PROVE  \/ Named(q)' \subseteq Named(q)
             \/ /\ \A y, z \in Named(q)' : y = z
                /\ \A o \in Start : ~ Claims(o, q)
  <2>1. CASE q # r \/ "name" \notin columns \/ "name" \in stored[r][x].as
    BY <1>1, <1>3, <2>1 DEF Named
  <2>2. CASE q = r /\ Named(r) = {} /\ \A o \in Start : ~ Claims(o, r)
    BY <1>1, <1>3, <2>2 DEF Named
  <2> QED
    BY <2>1, <2>2
<1> QED
  BY <1>2, <1>3, <1>4, <1>5, <1>6, <1>7, EditedKeeps

LEMMA AdministerKeeps ==
  ASSUME BootIndInv, Administer PROVE BootIndInv'
<1>0. BootTypeOK /\ TablesGood /\ \A o \in Start : RunGood(o)
  BY ByRun
<1>1. \A r \in Entity, x \in Id : stored[r][x].as \subseteq Field
  BY <1>0 DEF BootTypeOK, Row
<1>2. ASSUME NEW r \in Entity, NEW x \in Id, Rename(r, x) PROVE BootIndInv'
  <2>1. PICK columns \in SUBSET Field : columns = stored[r][x].as \ {"name"}
    BY <1>1
  <2>2. columns # {} => stored[r][x].there
    BY <1>0, <2>1 DEF TablesGood, RowsNamed
  <2> QED
    BY <1>2, <2>1, <2>2, ColumnsKeep DEF Rename
<1>3. ASSUME NEW r \in Entity, NEW x \in Id, TakeName(r, x) PROVE BootIndInv'
  <2>1. PICK columns \in SUBSET Field : columns = stored[r][x].as \cup {"name"}
    BY <1>1 DEF Field
  <2> QED
    BY <1>3, <2>1, ColumnsKeep DEF TakeName
<1>4. ASSUME NEW r \in Entity, NEW x \in Id, Alter(r, x) PROVE BootIndInv'
  <2>1. PICK columns \in SUBSET Field : columns = stored[r][x].as \ {"rest"}
    BY <1>1
  <2>2. columns # {} => stored[r][x].there
    BY <1>0, <2>1 DEF TablesGood, RowsNamed
  <2> QED
    BY <1>4, <2>1, <2>2, ColumnsKeep DEF Alter
<1>5. ASSUME NEW x \in Id, DropGroup(x) PROVE BootIndInv'
  <2>0. "group" \in Entity /\ "group" # "client" /\ "group" # "user"
    BY DEF Entity
  <2>1. /\ Edited /\ linked' = linked
        /\ \A e \in linked : ~ Touches(e, "group", x)
        /\ Open("group", x, {"name"})
        /\ stored' = [stored EXCEPT !["group"][x] = NoRow]
    BY <1>5 DEF DropGroup, SetRow
  <2>2. NoRow \in Row /\ NoRow.there = FALSE /\ NoRow.as = {}
    BY DEF NoRow, Row
  <2>3. /\ stored' \in [Entity -> [Id -> Row]]
        /\ stored'["group"][x] = NoRow
        /\ \A q \in Entity, y \in Id : q # "group" \/ y # x =>
             stored'[q][y] = stored[q][y]
    BY <1>0, <2>0, <2>1, <2>2 DEF BootTypeOK
  <2>4. ASSUME NEW o \in Start
        PROVE  /\ \A e \in Own(o).links : ~ Touches(e, "group", x)
               /\ Own(o).wrote["group"] = {} \/ Own(o).has["group"] # x
    <3>1. CASE Running(o)
      BY <2>1, <3>1 DEF Open, HasWritten, Refers
    <3>2. CASE ~ Running(o)
      <4>1. Own(o) = [Waiting EXCEPT !.at = Own(o).at]
            /\ Own(o).at \in {"waiting", "done", "failed"}
        BY <1>0, <3>2 DEF RunGood, InOrder, Running
      <4>2. Own(o).links = {} /\ Own(o).wrote["group"] = {}
        BY <2>0, <4>1, NotRunning
      <4> QED
        BY <4>2
    <3> QED
      BY <3>1, <3>2
  <2>5. RowsNamed'
    BY <1>0, <2>2, <2>3 DEF TablesGood, RowsNamed
  <2>6. /\ Named("client") \subseteq Named("client")'
        /\ \A q \in Entity : Named(q)' \subseteq Named(q)
    BY <2>0, <2>2, <2>3 DEF Named, Entity
  <2> QED
    BY <2>0, <2>1, <2>2, <2>3, <2>4, <2>5, <2>6, EditedKeeps
<1>6. ASSUME NEW e \in linked, Unlink(e) PROVE BootIndInv'
  <2>1. Edited /\ linked' \subseteq linked /\ stored' = stored
    BY <1>6 DEF Unlink
  <2>2. RowsNamed' /\ \A r \in Entity : Named(r)' = Named(r)
    BY <1>0, <2>1 DEF TablesGood, RowsNamed, Named
  <2>3. "client" \in Entity
    BY DEF Entity
  <2> QED
    BY <1>0, <2>1, <2>2, <2>3, EditedKeeps DEF BootTypeOK
<1> QED
  BY <1>2, <1>3, <1>4, <1>5, <1>6 DEF Administer

-----------------------------------------------------------------------------
(* The first state.                                                        *)
LEMMA SeedInit == BootInit => BootIndInv
<1> SUFFICES ASSUME BootInit PROVE BootIndInv
  OBVIOUS
<1>1. Waiting = [Waiting EXCEPT !.at = "waiting"]
  BY WaitingIs
<1>2. /\ Waiting \in Run /\ Waiting.at = "waiting" /\ Waiting.next = 1
      /\ Waiting.inserted = {} /\ Waiting.links = {}
      /\ \A r \in Entity : Waiting.wrote[r] = {}
  BY <1>1, NotRunning
<1>3. \A s \in Start : Own(s) = Waiting
  BY DEF BootInit, Own
<1>4. /\ \A r \in Entity, x \in Id : /\ stored[r][x].there <=> x \in Other
                                   /\ stored[r][x].as = {}
      /\ linked = {} /\ calm = {} /\ credential.user = Nobody
      /\ credential.account = Nobody
  BY DEF BootInit
<1>5. BootTypeOK
  <2>1. stored \in [Entity -> [Id -> Row]]
    BY DEF BootInit, Row
  <2>2. script \in [Start -> Run]
    BY <1>2 DEF BootInit
  <2>3. edits \in 0 .. MaxEdits /\ deaths \in 0 .. MaxDeaths
    BY DEF BootInit
  <2> QED
    BY <2>1, <2>2, <2>3 DEF BootInit, BootTypeOK
<1>6. TablesGood /\ AccountOfUser /\ CredentialMatches
  <2>1. \A r \in Entity, x \in Id : stored[r][x].as = {}
    BY <1>4
  <2>2. \A r \in Entity, x \in Start : ~ stored[r][x].there
    BY <1>4 DEF Id
  <2> QED
    BY <1>4, <2>1, <2>2
       DEF TablesGood, AccountOfUser, CredentialMatches, RowsNamed, Named
<1>7. ASSUME NEW s \in Start PROVE RunGood(s)
  <2>1. \A r \in Entity \cup Link : ~ Passed(s, r) /\ ~ AtRecord(s, r)
    <3>1. Own(s).next \in 1..7 /\ Own(s) = Waiting
      BY <1>2, <1>3
    <3> QED
      BY <1>2, <3>1, PassedIs DEF AtRecord, Entity, Link
  <2>2. InOrder(s)
    BY <1>1, <1>2, <1>3, <2>1, RecordFacts DEF InOrder
  <2>3. NamesClaimed(s) /\ OneUser(s)
    BY <1>2, <1>3 DEF NamesClaimed, Claims, OneUser
  <2>4. RowsHeld(s)
    BY <1>2, <1>3, <2>1 DEF RowsHeld, Entity
  <2>5. CalmProgress(s)
    BY <1>4 DEF CalmProgress
  <2> QED
    BY <2>2, <2>3, <2>4, <2>5 DEF RunGood
<1> QED
  BY <1>5, <1>6, <1>7, ByRun

(* For any starts that overlap, die and start again, while administrators   *)
(* rename, change and remove what they seed: a name stays one row's, a link *)
(* keeps its ends, what a start inserted comes with a client, the           *)
(* credential is that of a user who is stored or about to be unless a run   *)
(* died in between, and an undisturbed run commits all it promises.        *)
THEOREM SeedInvariance == BootSpec => []BootIndInv
<1>1. BootIndInv /\ [BootNext]_bootVars => BootIndInv'
  <2>1. SUFFICES ASSUME BootIndInv, [BootNext]_bootVars PROVE BootIndInv'
    OBVIOUS
  <2>2. ASSUME NEW s \in Start, Forward(s) \/ Restart(s) \/ Die(s)
        PROVE  BootIndInv'
    BY <2>1, <2>2, LaunchKeeps, FindEntityKeeps, InsertKeeps, ReloadKeeps,
       UpdateKeeps, FindLinkKeeps, InsertLinkKeeps, SkipKeeps, UpsertUserKeeps,
       AccountKeeps, CommitKeeps, RestartKeeps, DieKeeps DEF Forward
  <2>3. ASSUME Administer PROVE BootIndInv'
    BY <2>1, <2>3, AdministerKeeps
  <2>4. CASE UNCHANGED bootVars
    <3>1. UNCHANGED <<stored, linked, credential, script, calm, edits, deaths,
                      torn, password>>
      BY <2>4 DEF bootVars, settings
    <3>2. BootTypeOK'
      BY <2>1, <3>1, ByRun DEF BootTypeOK
    <3>3. TablesGood' /\ AccountOfUser' /\ CredentialMatches'
      BY <2>1, <3>1, ByRun
         DEF TablesGood, RowsNamed, Named, AccountOfUser, CredentialMatches, Own
    <3>4. ASSUME NEW s \in Start PROVE RunGood(s)'
      <4>1. /\ RunGood(s)
            /\ \A o \in Start, r \in Entity : Claims(o, r)' = Claims(o, r)
            /\ \A r : Passed(s, r)' = Passed(s, r) /\ AtRecord(s, r)' = AtRecord(s, r)
            /\ \A r \in Entity : EntityDone(s, r)' = EntityDone(s, r)
            /\ \A kind \in Link : LinkDone(s, kind)' = LinkDone(s, kind)
            /\ \A e : EndsThere(s, e)' = EndsThere(s, e)
        BY <2>1, <3>1, ByRun
           DEF Claims, Running, Passed, AtRecord, EntityDone, Committed, LinkDone,
               LinkOf, EndsThere, Touches, Own
      <4>2. /\ Own(s)' = Own(s) /\ Running(s)' = Running(s)
            /\ \A r : Named(r)' = Named(r)
        BY <3>1 DEF Own, Running, Named
      <4>3. InOrder(s)' /\ NamesClaimed(s)'
        BY <4>1, <4>2 DEF RunGood, InOrder, NamesClaimed
      <4>4. RowsHeld(s)'
        BY <3>1, <4>1, <4>2 DEF RunGood, RowsHeld
      <4>5. OneUser(s)' /\ CalmProgress(s)'
        BY <3>1, <4>1, <4>2 DEF RunGood, OneUser, CalmProgress
      <4> QED
        BY <4>3, <4>4, <4>5 DEF RunGood
    <3> QED
      BY <3>2, <3>3, <3>4, ByRunNext
  <2> QED
    BY <2>1, <2>2, <2>3, <2>4 DEF BootNext
<1> QED
  BY <1>1, SeedInit, PTL DEF BootSpec
=============================================================================
