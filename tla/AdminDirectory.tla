--------------------------- MODULE AdminDirectory ---------------------------
(***************************************************************************)
(* What administrators keep: users, clients and groups, the memberships of *)
(* groups and the redirect URIs of clients.  Every operation is a chain of *)
(* queries without a transaction: find the row, check that a name is free  *)
(* or a link is there, save, record an audit event.  A save is two queries *)
(* itself: it SELECTs the row once more, then writes the columns in which  *)
(* the copy differs from it, and inserts the whole copy where it found none*)
(* (TypeORM's Repository.save).  Unique indexes and foreign keys are what  *)
(* holds under overlap.                                                    *)
(***************************************************************************)
EXTENDS Requests

CONSTANTS
  UserRow, ClientRow, GroupRow,   \* identities of rows
  Name,       \* normalised e-mail addresses, client ids and slugs
  Target,     \* who or what a group or a client is linked to
  Secret      \* client secrets

Record == UserRow \cup ClientRow \cup GroupRow

ASSUME DirectoryAssumption ==
  /\ UserRow \cap ClientRow = {} /\ UserRow \cap GroupRow = {}
  /\ ClientRow \cap GroupRow = {}
  /\ Null \notin Record /\ Null \notin Name /\ Null \notin Secret
  /\ Null \notin Target

VARIABLES
  record,     \* the rows of the three tables, Null where there is none
  attached,   \* group_memberships and redirect_uris
  told,       \* history: the secrets administrators have been shown
  untold,     \* history: those whose request failed after the save
  adminJob

adminVars == <<record, attached, told, untold, adminJob>>

-----------------------------------------------------------------------------
(* The columns the properties tell apart: other stands for all the rest    *)
(* (names, claims, lifetimes), confidential for the type of a client.      *)
Column == {"name", "status", "secret", "confidential", "other"}
Columns == [name : Name, status : {"on", "off"}, secret : Secret \cup {Null},
            confidential : BOOLEAN, other : {"a", "b"}]

ASSUME ColumnsAssumption == Null \notin Columns

Operations == {"create", "update", "setStatus", "rotateSecret", "delete",
               "attach", "detach"}

(* Those that save the row.                                                *)
Writes == {"create", "update", "setStatus", "rotateSecret"}

(* copy is the row as read, with the changes made to it; named the columns *)
(* that the request sets; changed those that the save has found to differ; *)
(* stale whether the row was written between the read and the save's; shown*)
(* the secret that the answer will show.                                   *)
AdminJob == [phase   : {"idle", "check", "save", "insert", "update", "remove",
                        "audit"},
             op      : Operations \cup {Null},
             record  : Record \cup {Null},
             target  : Target \cup {Null},
             copy    : Columns \cup {Null},
             named   : SUBSET Column,
             changed : SUBSET Column,
             stale   : BOOLEAN,
             shown   : Secret \cup {Null}]

AdminIdle == [phase |-> "idle", op |-> Null, record |-> Null, target |-> Null,
              copy |-> Null, named |-> {}, changed |-> {}, stale |-> FALSE,
              shown |-> Null]

Stored(r) == record[r] # Null

SameTable(r, s) == \E T \in {UserRow, ClientRow, GroupRow} : {r, s} \subseteq T

(* Another row of the table has that name.                                 *)
Taken(r, n) ==
  \E s \in Record \ {r} : SameTable(r, s) /\ Stored(s) /\ record[s].name = n

Attachments == {<<r, t>> : r \in GroupRow \cup ClientRow, t \in Target}

DirectoryTypeOK ==
  /\ record \in [Record -> Columns \cup {Null}]
  /\ attached \subseteq Attachments
  /\ told \subseteq Secret
  /\ untold \subseteq Secret
  /\ adminJob \in [Request -> AdminJob]
  /\ \A p \in Request : LET j == adminJob[p] IN j.phase \notin {"idle", "audit"} =>
       /\ j.record \in Record /\ j.op \in Operations
       /\ j.op \in Writes => j.copy \in Columns
       /\ j.op = "rotateSecret" => j.copy.secret # Null
       /\ j.op \in {"attach", "detach"} =>
            <<j.record, j.target>> \in Attachments
  /\ \A p \in Request : adminJob[p].shown # Null => adminJob[p].phase = "audit"

AdminInit ==
  /\ record = [r \in Record |-> Null]
  /\ attached = {}
  /\ told = {}
  /\ untold = {}
  /\ adminJob = [p \in Request |-> AdminIdle]

-----------------------------------------------------------------------------
AdminGoto(p, j)     == adminJob' = [adminJob EXCEPT ![p] = j]
AdminAdvance(p, ph) == AdminGoto(p, [adminJob[p] EXCEPT !.phase = ph])
AdminEnd(p)         == AdminGoto(p, AdminIdle)

(* All that is left is the audit event and, of a rotation, the secret.     *)
Saved(j) ==
  [AdminIdle EXCEPT !.phase = "audit",
                    !.shown = IF j.op = "rotateSecret" THEN j.copy.secret
                                                       ELSE Null]

Begin(p, op, r, t, c, named, ph) ==
  AdminGoto(p, [phase |-> ph, op |-> op, record |-> r, target |-> t,
                copy |-> c, named |-> named, changed |-> {}, stale |-> FALSE,
                shown |-> Null])

Tables == <<record, attached, told, untold>>

(* A new row of table T, that no other request works on.                  *)
BeginCreate(p, T, status, types) ==
  /\ adminJob[p].phase = "idle"
  /\ \E r \in T, n \in Name, c \in types :
       /\ ~ Stored(r) /\ \A q \in Request : adminJob[q].record # r
       /\ Begin(p, "create", r, Null,
                [name |-> n, status |-> status, secret |-> Null,
                 confidential |-> c, other |-> "a"],
                Column, "check")
  /\ UNCHANGED Tables

(* A user is invited, not yet active; a client is public or confidential.  *)
CreateUser(p)   == BeginCreate(p, UserRow, "off", {FALSE})
CreateClient(p) == BeginCreate(p, ClientRow, "on", BOOLEAN)
CreateGroup(p)  == BeginCreate(p, GroupRow, "on", {FALSE})

(* Mutant: an update also switches a user or client on.                    *)
BeginUpdateSwitchingOn(p, T, changeable) ==
  /\ adminJob[p].phase = "idle"
  /\ \E r \in {x \in T : Stored(x)}, o \in {"a", "b"} :
       Begin(p, "update", r, Null,
             [record[r] EXCEPT !.other = o, !.status = "on"], {"other"}, "save")
  /\ UNCHANGED Tables

(* The row is read and changed in memory; a new name is checked first.     *)
BeginUpdate(p, T, changeable) ==
  /\ adminJob[p].phase = "idle"
  /\ \E r \in {x \in T : Stored(x)}, n \in Name, o \in {"a", "b"},
       named \in SUBSET changeable :
       LET c == [record[r] EXCEPT
                   !.name = IF "name" \in named THEN n ELSE @,
                   !.other = IF "other" \in named THEN o ELSE @] IN
       Begin(p, "update", r, Null, c, named,
             IF c.name = record[r].name THEN "save" ELSE "check")
  /\ UNCHANGED Tables

UpdateUser(p)   == BeginUpdate(p, UserRow, {"name", "other"})
UpdateClient(p) == BeginUpdate(p, ClientRow, {"other"})   \* keeps its id
UpdateGroup(p)  == BeginUpdate(p, GroupRow, {"name", "other"})

(* setUserStatus, setClientStatus.                                         *)
BeginSetStatus(p) ==
  /\ adminJob[p].phase = "idle"
  /\ \E r \in {x \in UserRow \cup ClientRow : Stored(x)}, s \in {"on", "off"} :
       Begin(p, "setStatus", r, Null, [record[r] EXCEPT !.status = s],
             {"status"}, "save")
  /\ UNCHANGED Tables

(* Shown to an administrator, or about to be, or left untold.              *)
Known(s) == s \in told \cup untold \/ \E p \in Request : adminJob[p].shown = s

(* Only of a confidential client.  A secret is random: it has not been     *)
(* used before.                                                            *)
BeginRotateSecret(p) ==
  /\ adminJob[p].phase = "idle"
  /\ \E r \in {x \in ClientRow : Stored(x) /\ record[x].confidential},
        s \in {x \in Secret : ~ Known(x)} :
       /\ \A q \in Request : adminJob[q].copy # Null =>
                               adminJob[q].copy.secret # s
       /\ Begin(p, "rotateSecret", r, Null, [record[r] EXCEPT !.secret = s],
                {"secret"}, "save")
  /\ UNCHANGED Tables

(* The others begin by finding the group or client.                        *)
BeginDelete(p) ==
  /\ adminJob[p].phase = "idle"
  /\ \E r \in {x \in GroupRow : Stored(x)} :
       Begin(p, "delete", r, Null, Null, {}, "check")
  /\ UNCHANGED Tables

(* addMembership and addRedirectUri ("attach"), removeMembership and       *)
(* removeRedirectUri ("detach").  The targets of groups are the users there*)
(* are: addMembership looks for the user and ends without effect if there  *)
(* is none, and no user is ever removed.                                   *)
BeginLink(p, T) ==
  /\ adminJob[p].phase = "idle"
  /\ \E op \in {"attach", "detach"}, r \in {x \in T : Stored(x)}, t \in Target :
       Begin(p, op, r, t, Null, {}, "check")
  /\ UNCHANGED Tables

BeginMembership(p)  == BeginLink(p, GroupRow)
BeginRedirectUri(p) == BeginLink(p, ClientRow)

NameInUse(r, n) ==
  \E s \in Record : SameTable(r, s) /\ Stored(s) /\ record[s].name = n

HasMembers(r) == \E t \in Target : <<r, t>> \in attached

(* The check: a name must be free, a group empty, a link there that is to  *)
(* be removed.  A redirect URI that is there already is refused, and a     *)
(* membership answered as it is: either way the request ends.              *)
CheckPasses(j) ==
  CASE j.op \in {"create", "update"} -> ~ NameInUse(j.record, j.copy.name)
    [] j.op = "delete" -> ~ HasMembers(j.record)
    [] j.op = "attach" -> <<j.record, j.target>> \notin attached
    [] j.op = "detach" -> <<j.record, j.target>> \in attached

Removes == {"delete", "detach"}

Check(p) ==
  LET j == adminJob[p] IN
  /\ j.phase = "check"
  /\ IF CheckPasses(j)
     THEN AdminAdvance(p, IF j.op \in Removes THEN "remove" ELSE "save")
     ELSE AdminEnd(p)
  /\ UNCHANGED Tables

(* The SELECT of a save: it decides whether the row is inserted, which     *)
(* columns of it are updated, or that there is nothing to write.           *)
SelectRow(p) ==
  LET j == adminJob[p]
      differ == {f \in Column : record[j.record][f] # j.copy[f]} IN
  /\ j.phase = "save"
  /\ j.op \in Writes
  /\ AdminGoto(p,
       IF ~ Stored(j.record) THEN [j EXCEPT !.phase = "insert"]
       ELSE IF differ = {} THEN Saved(j)
       ELSE [j EXCEPT !.phase = "update", !.changed = differ])
  /\ UNCHANGED Tables

(* The same for a link.  A membership is found by its group and user, a    *)
(* redirect URI by an id of its own, that is new.                          *)
SelectLink(p) ==
  LET j == adminJob[p]
      found == j.record \in GroupRow /\ <<j.record, j.target>> \in attached IN
  /\ j.phase = "save" /\ j.op = "attach"
  /\ AdminGoto(p, IF found THEN Saved(j) ELSE [j EXCEPT !.phase = "insert"])
  /\ UNCHANGED Tables

(* Requests that have read r to save it hold a stale copy now; one whose   *)
(* save has selected the row knows already what it will write.             *)
Written(p, r) ==
  adminJob' = [q \in Request |->
    IF q = p THEN Saved(adminJob[p])
    ELSE IF adminJob[q].record = r /\ adminJob[q].phase \in {"check", "save"}
         THEN [adminJob[q] EXCEPT !.stale = TRUE]
    ELSE adminJob[q]]

(* A unique index refuses a second row of that name.                       *)
InsertRow(p) ==
  LET j == adminJob[p] IN
  /\ j.phase = "insert" /\ j.op \in Writes
  /\ ~ Stored(j.record) /\ ~ Taken(j.record, j.copy.name)
  /\ record' = [record EXCEPT ![j.record] = j.copy]
  /\ Written(p, j.record)
  /\ UNCHANGED <<attached, told, untold>>

(* The row with the given columns taken from copy.                         *)
Merged(row, copy, changed) ==
  [name |-> IF "name" \in changed THEN copy.name ELSE row.name,
   status |-> IF "status" \in changed THEN copy.status ELSE row.status,
   secret |-> IF "secret" \in changed THEN copy.secret ELSE row.secret,
   confidential |-> IF "confidential" \in changed THEN copy.confidential
                    ELSE row.confidential,
   other |-> IF "other" \in changed THEN copy.other ELSE row.other]

(* An UPDATE of the columns that differed.                                 *)
UpdateRow(p) ==
  LET j == adminJob[p]
      row == Merged(record[j.record], j.copy, j.changed) IN
  /\ j.phase = "update" /\ j.op \in Writes
  /\ Stored(j.record) /\ ~ Taken(j.record, row.name)
  /\ record' = [record EXCEPT ![j.record] = row]
  /\ Written(p, j.record)
  /\ UNCHANGED <<attached, told, untold>>

(* The row has gone meanwhile: the UPDATE finds none, and nobody asks.     *)
UpdateNothing(p) ==
  /\ adminJob[p].phase = "update"
  /\ ~ Stored(adminJob[p].record)
  /\ AdminGoto(p, Saved(adminJob[p]))
  /\ UNCHANGED Tables

(* Mutant: nothing refers to the groups table.                             *)
RemoveUnreferenced(p) ==
  LET j == adminJob[p] IN
  /\ j.phase = "remove" /\ j.op = "delete"
  /\ record' = [record EXCEPT ![j.record] = Null]
  /\ Written(p, j.record)
  /\ UNCHANGED <<attached, told, untold>>

(* A foreign key refuses to remove a group that has members by now.        *)
RemoveGroup(p) ==
  LET j == adminJob[p] IN
  /\ j.phase = "remove" /\ j.op = "delete"
  /\ ~ HasMembers(j.record)
  /\ record' = [record EXCEPT ![j.record] = Null]
  /\ Written(p, j.record)
  /\ UNCHANGED <<attached, told, untold>>

(* A foreign key: the group or client has to be there still.  A unique     *)
(* index: the link is not there yet.                                       *)
Attach(p) ==
  LET j == adminJob[p] IN
  /\ j.phase = "insert" /\ j.op = "attach"
  /\ Stored(j.record) /\ <<j.record, j.target>> \notin attached
  /\ attached' = attached \cup {<<j.record, j.target>>}
  /\ AdminGoto(p, Saved(adminJob[p]))
  /\ UNCHANGED <<record, told, untold>>

(* Removing a link that is gone does nothing.                              *)
Detach(p) ==
  LET j == adminJob[p] IN
  /\ j.phase = "remove" /\ j.op = "detach"
  /\ attached' = attached \ {<<j.record, j.target>>}
  /\ AdminGoto(p, Saved(adminJob[p]))
  /\ UNCHANGED <<record, told, untold>>

(* The audit event is awaited; only then is the answer given.              *)
AuditAndAnswer(p) ==
  /\ adminJob[p].phase = "audit"
  /\ told' = told \cup ({adminJob[p].shown} \ {Null})
  /\ AdminEnd(p)
  /\ UNCHANGED <<record, attached, untold>>

(* A query fails, a unique index or a foreign key refuses.                 *)
FailAdmin(p) ==
  /\ adminJob[p].phase # "idle"
  /\ untold' = untold \cup ({adminJob[p].shown} \ {Null})
  /\ AdminEnd(p)
  /\ UNCHANGED <<record, attached, told>>

AdminNext == \E p \in Request :
  \/ CreateUser(p) \/ CreateClient(p) \/ CreateGroup(p)
  \/ UpdateUser(p) \/ UpdateClient(p) \/ UpdateGroup(p)
  \/ BeginSetStatus(p) \/ BeginRotateSecret(p) \/ BeginDelete(p)
  \/ BeginMembership(p) \/ BeginRedirectUri(p)
  \/ Check(p) \/ SelectRow(p) \/ SelectLink(p)
  \/ InsertRow(p) \/ UpdateRow(p) \/ UpdateNothing(p)
  \/ RemoveGroup(p) \/ Attach(p) \/ Detach(p)
  \/ AuditAndAnswer(p) \/ FailAdmin(p)

AdminSpec == AdminInit /\ [][AdminNext]_adminVars

-----------------------------------------------------------------------------
(* No two rows of a table have the same name, although each operation looks*)
(* first and writes later.                                                 *)
NamesUnique == \A r \in Record : Stored(r) => ~ Taken(r, record[r].name)

(* Members and redirect URIs belong to a group or client that is there,    *)
(* although a group is counted first and removed later.                    *)
AttachedExist == \A a \in attached : Stored(a[1])

(* The secret in force is one an administrator was shown, or is about to be*)
(* or the request that made it failed after the save: a save of an old copy*)
(* may bring back an older secret, but never an unknown one.               *)
SecretKnown ==
  /\ \A r \in Record : (Stored(r) /\ record[r].secret # Null) =>
       Known(record[r].secret)
  /\ \A p \in Request :
       LET j == adminJob[p] IN
       (j.copy # Null /\ j.op # "rotateSecret" /\ j.copy.secret # Null) =>
         Known(j.copy.secret)

(* A copy that is not stale is the row but for the columns it is to change,*)
(* and a save that found the row as it was read writes no others.          *)
CopyIsCurrent ==
  \A p \in Request :
    LET j == adminJob[p] IN
    (j.op \in Writes \ {"create"} /\ ~ j.stale) =>
      /\ j.phase \in {"check", "save"} =>
           /\ Stored(j.record)
           /\ \A f \in Column \ j.named : j.copy[f] = record[j.record][f]
      /\ j.phase # "insert"
      /\ j.changed \subseteq j.named

DirectoryIndInv ==
  /\ DirectoryTypeOK
  /\ NamesUnique
  /\ AttachedExist
  /\ SecretKnown
  /\ CopyIsCurrent

(* What a request does not name it does not change, and it makes no row   *)
(* that was removed, unless another request wrote the row between its read *)
(* and the SELECT of its save: then the save undoes what the other did, a  *)
(* deactivation, a new secret or a removal included.  What is written after*)
(* that SELECT stays.                                                      *)
OnlyStaleSavesUndo ==
  [][\A r \in Record, p \in Request :
       LET j == adminJob[p] IN
       (/\ j.phase # "audit" /\ adminJob'[p].phase = "audit"
        /\ j.record = r /\ j.op \in Writes \ {"create"} /\ ~ j.stale) =>
          /\ record'[r] # Null <=> Stored(r)
          /\ Stored(r) => \A f \in Column \ j.named : record'[r][f] = record[r][f]
     ]_adminVars
=============================================================================
