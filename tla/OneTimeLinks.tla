---------------------------- MODULE OneTimeLinks ----------------------------
(***************************************************************************)
(* The links sent by mail: an administrator's invite, with which a new user*)
(* sets a first password, and the reset a user asks for.  Both are sent    *)
(* before their row exists, revoke their predecessors and insert their row *)
(* in two statements, and are used in steps without a transaction: the row *)
(* is read together with its user, the password is set, the row is saved as*)
(* it was read but consumed, and then the user, or sessions and tokens,    *)
(* are changed.  A save reads the row again and writes the columns in which*)
(* its copy differs from it: a change made between the copy and that read  *)
(* is undone.                                                              *)
(***************************************************************************)
EXTENDS Requests

CONSTANTS Link, User

ASSUME LinkAssumption ==
  /\ IsFiniteSet(Link) /\ Null \notin Link /\ Null \notin User
  /\ Null \notin {"send", "use"}

VARIABLES
  link,        \* user_invites and password_resets
  status,      \* the status column of users
  verified,    \* the users whose address is verified
  broken,      \* history: sends that revoked and then failed
  shutOut,     \* history: requests running when a user was last deactivated
  linkJob,     \* what each slot is doing
  differs      \* the columns its save has found different from its copy

linkVars == <<link, status, verified, broken, shutOut, linkJob, differs>>

-----------------------------------------------------------------------------
Kind   == {"invite", "reset"}
Status == {"pending", "active", "deactivated"}

LinkRow == [state : {"none", "mailed", "stored"}, kind : Kind,
            user : User \cup {Null}, revoked : BOOLEAN, consumed : BOOLEAN, expired : BOOLEAN]

(* row and status are the copies read by resolveValid...                   *)
LinkJob == [phase  : {"idle", "mail", "revoke", "insert", "credential",
                      "consume", "consuming", "user", "saving", "end"},
            op     : {"send", "use", Null},
            link   : Link \cup {Null},
            status : Status,
            verified : BOOLEAN]

LinkIdle == [phase |-> "idle", op |-> Null, link |-> Null,
             status |-> "pending", verified |-> FALSE]

Column == {"revoked", "status", "verified"}

Live(r) == r.state = "stored" /\ ~ r.revoked /\ ~ r.consumed /\ ~ r.expired

Unrevoked(u, k) ==
  {l \in Link : link[l].state = "stored" /\ link[l].user = u
                /\ link[l].kind = k /\ ~ link[l].revoked
                /\ ~ link[l].consumed}

Inserting(u, k) ==
  {p \in Request : linkJob[p].phase = "insert"
                   /\ link[linkJob[p].link].user = u
                   /\ link[linkJob[p].link].kind = k}

Using(l) ==
  {p \in Request : linkJob[p].op = "use" /\ linkJob[p].link = l}

LinkTypeOK ==
  /\ link \in [Link -> LinkRow]
  /\ status \in [User -> Status]
  /\ verified \subseteq User
  /\ broken \subseteq User \X Kind
  /\ shutOut \in [User -> SUBSET Request]
  /\ linkJob \in [Request -> LinkJob]
  /\ differs \in [Request -> SUBSET Column]
  /\ \A p \in Request :
       linkJob[p].phase # "idle" =>
         /\ linkJob[p].link \in Link /\ linkJob[p].op # Null
         /\ link[linkJob[p].link].user \in User

LinkInit ==
  /\ link = [l \in Link |-> [state |-> "none", kind |-> "invite",
                             user |-> Null, revoked |-> FALSE,
                             consumed |-> FALSE, expired |-> FALSE]]
  /\ status = [u \in User |-> "pending"]
  /\ verified = {}
  /\ broken = {}
  /\ shutOut = [u \in User |-> {}]
  /\ linkJob = [p \in Request |-> LinkIdle]
  /\ differs = [p \in Request |-> {}]

-----------------------------------------------------------------------------
LinkGoto(p, j)     == linkJob' = [linkJob EXCEPT ![p] = j]
LinkAdvance(p, ph) == LinkGoto(p, [linkJob[p] EXCEPT !.phase = ph])
LinkEnd(p) ==
  /\ LinkGoto(p, LinkIdle)
  /\ shutOut' = [u \in User |-> shutOut[u] \ {p}]
  /\ differs' = [differs EXCEPT ![p] = {}]

UserColumns == <<status, verified>>

(* Who is running when u gets a new status.                                *)
NoteShutOut(u) ==
  shutOut' = [shutOut EXCEPT ![u] =
    IF status'[u] # "deactivated" THEN {}
    ELSE IF status[u] = "deactivated" THEN @
    ELSE {p \in Request : linkJob[p].phase # "idle"}]

(* createInvite and requestReset: whom a link may be sent to.              *)
MaySend(u, k) ==
  IF k = "invite" THEN status[u] # "deactivated" ELSE status[u] = "active"

BeginSend(p) ==
  /\ linkJob[p].phase = "idle"
  /\ \E l \in Link, u \in User, k \in Kind :
       /\ link[l].state = "none"
       /\ \A q \in Request : linkJob[q].link # l
       /\ MaySend(u, k)
       /\ link' = [link EXCEPT ![l].kind = k, ![l].user = u]
       /\ LinkGoto(p, [LinkIdle EXCEPT !.phase = "mail", !.op = "send",
                                       !.link = l])
  /\ UNCHANGED <<UserColumns, broken, shutOut, differs>>

(* A mail that cannot be sent ends the request without a trace.            *)
SendMail(p) ==
  /\ linkJob[p].phase = "mail"
  /\ link' = [link EXCEPT ![linkJob[p].link].state = "mailed"]
  /\ LinkAdvance(p, "revoke")
  /\ UNCHANGED <<UserColumns, broken, shutOut, differs>>

(* Mutant: the new link supersedes nothing.                                *)
RevokeNone(p) ==
  /\ linkJob[p].phase = "revoke"
  /\ LinkAdvance(p, "insert")
  /\ UNCHANGED <<link, UserColumns, broken, shutOut, differs>>

RevokePrior(p) ==
  /\ linkJob[p].phase = "revoke"
  /\ LET r == link[linkJob[p].link] IN
     link' = [l \in Link |-> IF l \in Unrevoked(r.user, r.kind)
                             THEN [link[l] EXCEPT !.revoked = TRUE]
                             ELSE link[l]]
  /\ LinkAdvance(p, "insert")
  /\ UNCHANGED <<UserColumns, broken, shutOut, differs>>

InsertLink(p) ==
  /\ linkJob[p].phase = "insert"
  /\ LET r == link[linkJob[p].link] IN broken' = broken \ {<<r.user, r.kind>>}
  /\ link' = [link EXCEPT ![linkJob[p].link].state = "stored"]
  /\ LinkAdvance(p, "end")
  /\ UNCHANGED <<UserColumns, shutOut, differs>>

(* resolveValidInvite and resolveValidReset: one query reads the link and  *)
(* its user.  Only a reset looks at the user's status.                     *)
Resolve(p) ==
  /\ linkJob[p].phase = "idle"
  /\ \E l \in Link :
       /\ Live(link[l])
       /\ link[l].kind = "reset" => status[link[l].user] = "active"
       /\ LinkGoto(p, [phase |-> "credential", op |-> "use", link |-> l,
                       status |-> status[link[l].user],
                       verified |-> link[l].user \in verified])
  /\ UNCHANGED <<link, UserColumns, broken, shutOut, differs>>

(* The password is Better Auth's; what matters here is that it is set while*)
(* the link can still be used by others.                                   *)
SetCredential(p) ==
  /\ linkJob[p].phase = "credential"
  /\ LinkAdvance(p, "consume")
  /\ UNCHANGED <<link, UserColumns, broken, shutOut, differs>>

(* save: the SELECT of the link's row.  The copy was read unrevoked and is *)
(* consumed by now, so revoked differs when the row has been revoked since.*)
SelectLinkRow(p) ==
  /\ linkJob[p].phase = "consume"
  /\ differs' = [differs EXCEPT ![p] =
       IF link[linkJob[p].link].revoked THEN {"revoked"} ELSE {}]
  /\ LinkAdvance(p, "consuming")
  /\ UNCHANGED <<link, UserColumns, broken, shutOut>>

(* Mutant: the row is saved as it was read.                                *)
SaveUnconsumed(p) ==
  /\ linkJob[p].phase = "consuming"
  /\ link' = [link EXCEPT ![linkJob[p].link].revoked = @ /\ "revoked" \notin differs[p]]
  /\ differs' = [differs EXCEPT ![p] = {}]
  /\ LinkAdvance(p, "user")
  /\ UNCHANGED <<UserColumns, broken, shutOut>>

(* save: the UPDATE of the columns that differ.                            *)
SaveConsumed(p) ==
  /\ linkJob[p].phase = "consuming"
  /\ link' = [link EXCEPT
       ![linkJob[p].link].consumed = TRUE,
       ![linkJob[p].link].revoked = @ /\ "revoked" \notin differs[p]]
  /\ differs' = [differs EXCEPT ![p] = {}]
  /\ LinkAdvance(p, "user")
  /\ UNCHANGED <<UserColumns, broken, shutOut>>

(* The status accept gives its copy of the user.                           *)
AcceptedStatus(j) == IF j.status = "pending" THEN "active" ELSE j.status

(* accept changes its copy of the user if that was read pending or         *)
(* unverified, and then saves it: the SELECT of the user's row.            *)
SelectUser(p) ==
  LET j == linkJob[p]
      u == link[j.link].user
      changed == IF j.status = "pending" \/ ~ j.verified
                 THEN {c \in {"status", "verified"} :
                         CASE c = "status" -> status[u] # AcceptedStatus(j)
                           [] OTHER        -> u \notin verified}
                 ELSE {}
  IN
  /\ j.phase = "user" /\ link[j.link].kind = "invite"
  /\ differs' = [differs EXCEPT ![p] = changed]
  /\ LinkAdvance(p, IF changed = {} THEN "end" ELSE "saving")
  /\ UNCHANGED <<link, UserColumns, broken, shutOut>>

(* Mutant: acceptance activates whatever the status was.                   *)
ActivateAlways(p) ==
  LET u == link[linkJob[p].link].user IN
  /\ linkJob[p].phase = "saving"
  /\ status' = [status EXCEPT ![u] = "active"]
  /\ verified' = verified \cup {u}
  /\ NoteShutOut(u)
  /\ differs' = [differs EXCEPT ![p] = {}]
  /\ LinkAdvance(p, "end")
  /\ UNCHANGED <<link, broken>>

(* save: the UPDATE of the user's columns that differ.                     *)
SaveUser(p) ==
  LET u == link[linkJob[p].link].user IN
  /\ linkJob[p].phase = "saving"
  /\ status' = IF "status" \in differs[p]
               THEN [status EXCEPT ![u] = AcceptedStatus(linkJob[p])]
               ELSE status
  /\ verified' = IF "verified" \in differs[p] THEN verified \cup {u} ELSE verified
  /\ NoteShutOut(u)
  /\ differs' = [differs EXCEPT ![p] = {}]
  /\ LinkAdvance(p, "end")
  /\ UNCHANGED <<link, broken>>

(* resetPassword revokes the user's sessions and tokens, which are the     *)
(* matter of ProviderSessions and RefreshTokens.                           *)
EndSessions(p) ==
  /\ linkJob[p].phase = "user" /\ link[linkJob[p].link].kind = "reset"
  /\ LinkAdvance(p, "end")
  /\ UNCHANGED <<link, UserColumns, broken, shutOut, differs>>

AuditLink(p) ==
  /\ linkJob[p].phase = "end"
  /\ LinkEnd(p)
  /\ UNCHANGED <<link, UserColumns, broken>>

FailLink(p) ==
  /\ linkJob[p].phase # "idle"
  /\ LET r == link[linkJob[p].link] IN
     broken' = IF linkJob[p].phase = "insert"
               THEN broken \cup {<<r.user, r.kind>>} ELSE broken
  /\ LinkEnd(p)
  /\ UNCHANGED <<link, UserColumns>>

-----------------------------------------------------------------------------
(* Administrators and time.                                                *)

SetStatus(u) ==
  /\ \E s \in Status : status' = [status EXCEPT ![u] = s]
  /\ NoteShutOut(u)
  /\ UNCHANGED <<link, verified, broken, linkJob, differs>>

ExpireLink(l) ==
  /\ Live(link[l])
  /\ link' = [link EXCEPT ![l].expired = TRUE]
  /\ UNCHANGED <<UserColumns, broken, shutOut, linkJob, differs>>

LinkNext ==
  \/ \E p \in Request :
       \/ BeginSend(p) \/ SendMail(p) \/ RevokePrior(p) \/ InsertLink(p)
       \/ Resolve(p) \/ SetCredential(p) \/ SelectLinkRow(p) \/ SaveConsumed(p)
       \/ SelectUser(p) \/ SaveUser(p) \/ EndSessions(p) \/ AuditLink(p) \/ FailLink(p)
  \/ \E u \in User : SetStatus(u)
  \/ \E l \in Link : ExpireLink(l)

LinkSpec == LinkInit /\ [][LinkNext]_linkVars

-----------------------------------------------------------------------------
(* A newer link supersedes the older ones of its kind, except those of     *)
(* sends that overlap it: a user never has more unrevoked links of a kind, *)
(* counting those about to be inserted, than requests can overlap; with one*)
(* request at a time there is one.                                         *)
FewLiveLinks ==
  \A u \in User, k \in Kind :
    Cardinality(Unrevoked(u, k)) + Cardinality(Inserting(u, k)) <=
      Cardinality(Request)

(* Nobody is left without a link: among the links ever stored for a user   *)
(* one is not revoked, or the next is about to be inserted, or that insert *)
(* has failed.                                                             *)
SomeLinkLeft ==
  \A u \in User, k \in Kind :
    (\E l \in Link : link[l].state = "stored" /\ link[l].user = u
                     /\ link[l].kind = k) =>
      \/ \E l \in Link : /\ link[l].state = "stored" /\ link[l].user = u
                         /\ link[l].kind = k /\ ~ link[l].revoked
      \/ Inserting(u, k) # {}
      \/ <<u, k>> \in broken

(* A link that is dead stays dead: no save that was under way when it was  *)
(* revoked, consumed or expired makes it usable again, though each writes  *)
(* a copy in which it was neither.  So only the uses that overlap its life *)
(* set a password with it.                                                 *)
DeadStaysDead ==
  [][\A l \in Link :
       (link[l].state = "stored" /\ ~ Live(link[l])) =>
         ~ Live(link'[l]) /\ Using(l)' \subseteq Using(l)]_linkVars

(* A deactivated user comes back by an administrator, or by an invite that *)
(* was being accepted when the user was deactivated: an acceptance that    *)
(* begins afterwards changes no status.                                    *)
RevivedByOverlap ==
  [][\A u \in User :
       (status[u] = "deactivated" /\ status'[u] # "deactivated") =>
         \/ linkJob' = linkJob
         \/ \E p \in shutOut[u] : linkJob'[p] # linkJob[p]]_linkVars

(* Where a job stands says how far its link is.                            *)
LinkOf(j) ==
  CASE j.phase = "mail" -> "none"
    [] j.phase \in {"revoke", "insert"} -> "mailed"
    [] OTHER -> "stored"

LinksInStep ==
  /\ \A p \in Request :
       /\ linkJob[p].op = "send" =>
            linkJob[p].phase \in {"mail", "revoke", "insert", "end"}
       /\ linkJob[p].op = "use" =>
            linkJob[p].phase \in
              {"credential", "consume", "consuming", "user", "saving", "end"}
       /\ linkJob[p].phase # "idle" =>
            link[linkJob[p].link].state = LinkOf(linkJob[p])
  /\ \A p, q \in Request :
       p # q /\ linkJob[p].op = "send" /\ linkJob[q].op = "send" =>
         linkJob[p].link # linkJob[q].link
  /\ \A l \in Link :
       /\ link[l].state # "none" => link[l].user \in User
       /\ link[l].state # "stored" =>
            ~ link[l].revoked /\ ~ link[l].consumed /\ ~ link[l].expired

(* What a running use has read still binds it: if nobody was shut out since,*)
(* its copy of the status is not one that would bring the user back.       *)
CopiesBind ==
  \A p \in Request :
    (/\ linkJob[p].op = "use" /\ linkJob[p].phase # "end"
     /\ linkJob[p].status # "deactivated"
     /\ status[link[linkJob[p].link].user] = "deactivated") =>
      p \in shutOut[link[linkJob[p].link].user]

LinkIndInv ==
  /\ LinkTypeOK
  /\ FewLiveLinks
  /\ SomeLinkLeft
  /\ LinksInStep
  /\ CopiesBind
=============================================================================
