--------------------- MODULE DirectoryAndSchema_proofs ----------------------
(***************************************************************************)
(* Proofs about Migrations, for any set of client identifiers; and about    *)
(* AdminDirectory, for any users, clients and groups, names, secrets and    *)
(* targets, and any number of requests at a time.                          *)
(***************************************************************************)
EXTENDS AdminDirectory, Migrations, TLAPS

-----------------------------------------------------------------------------
(* The schema: the names of tables and foreign keys.                       *)

LateTables == {"user_invites", "password_resets"}

LEMMA TableFacts ==
  /\ OwnTables \cap AppTables = {} /\ OwnTables \cap LateTables = {}
  /\ LateTables \cap AppTables = {}
  /\ SchemaTables = OwnTables \cup LateTables \cup AppTables
  /\ RowTables \subseteq AppTables /\ Naming \subseteq RowTables
  /\ {"users", "refresh_tokens"} \subseteq OwnTables
  /\ DOMAIN TypesOf \subseteq OwnTables
  /\ AppTables = {"user", "session", "oauthClient", "oauthRefreshToken",
                  "oauthAccessToken", "oauthConsent", "oauthApplication"}
BY DEF OwnTables, DirectoryTables, ProtocolTables, AppTables, PluginTables,
       LateTables, SchemaTables, RowTables, Naming, TypesOf

(* A foreign key is between the tables of one owner.                       *)
LEMMA KeyFacts ==
  /\ \A k \in OwnKeys : k.table \in OwnTables /\ k.target \in OwnTables
  /\ \A k \in InviteKeys : k.table = "user_invites" /\ k.target = "users"
  /\ \A k \in ResetKeys : k.table = "password_resets" /\ k.target = "users"
  /\ \A k \in AppKeys : k.table \in AppTables /\ k.target \in AppTables
  /\ ForeignKeys = OwnKeys \cup InviteKeys \cup ResetKeys \cup AppKeys
<1>1. \A k \in OwnKeys : k.table \in OwnTables /\ k.target \in OwnTables
  BY DEF OwnKeys, ForeignKey, OwnTables, DirectoryTables, ProtocolTables
<1>2. /\ \A k \in InviteKeys : k.table = "user_invites" /\ k.target = "users"
      /\ \A k \in ResetKeys : k.table = "password_resets" /\ k.target = "users"
  BY DEF InviteKeys, ResetKeys, ForeignKey
<1>3. \A k \in AppKeys : k.table \in AppTables /\ k.target \in AppTables
  BY DEF AppKeys, PluginKeys, RefreshTokenKeys, AccessTokenKeys, ClientKey,
         ForeignKey, AppTables, PluginTables, Naming
<1> QED
  BY <1>1, <1>2, <1>3 DEF ForeignKeys

(* The fields of a database.                                               *)
LEMMA Fields ==
  \A d \in Database :
    /\ d.tables \subseteq SchemaTables /\ d.types \subseteq OwnTypes
    /\ d.keys \subseteq ForeignKeys
    /\ d.columns \subseteq {Ciphertext, OldValue, NewValue}
    /\ d.json \subseteq Naming
    /\ d.rows \in [RowTables -> SUBSET ClientId] /\ d.bare \subseteq ClientId
    /\ d.ok \in BOOLEAN
BY DEF Database

-----------------------------------------------------------------------------
(* What the statements do to a database.                                   *)

LEMMA CreateTablesDoes ==
  ASSUME NEW d \in Database, NEW new, new \subseteq SchemaTables
  PROVE  LET r == CreateTables(d, new) IN
         /\ r \in Database
         /\ r.tables = d.tables \cup new
         /\ r.types = d.types /\ r.keys = d.keys /\ r.columns = d.columns
         /\ r.json = d.json /\ r.rows = d.rows /\ r.bare = d.bare
BY DEF CreateTables, Database

LEMMA CreateTypesDoes ==
  ASSUME NEW d \in Database, NEW new, new \subseteq OwnTypes
  PROVE  LET r == CreateTypes(d, new) IN
         /\ r \in Database
         /\ r.types = d.types \cup new
         /\ r.tables = d.tables /\ r.keys = d.keys /\ r.columns = d.columns
         /\ r.json = d.json /\ r.rows = d.rows /\ r.bare = d.bare
BY DEF CreateTypes, Database

LEMMA AddKeysDoes ==
  ASSUME NEW d \in Database, NEW new, new \subseteq ForeignKeys
  PROVE  LET r == AddKeys(d, new) IN
         /\ r \in Database
         /\ r.keys = d.keys \cup new
         /\ r.tables = d.tables /\ r.types = d.types /\ r.columns = d.columns
         /\ r.json = d.json /\ r.rows = d.rows /\ r.bare = d.bare
BY DEF AddKeys, Database

LEMMA DropKeysDoes ==
  ASSUME NEW d \in Database, NEW old
  PROVE  LET r == DropKeys(d, old) IN
         /\ r \in Database
         /\ r.keys = d.keys \ old
         /\ r.ok = (d.ok /\ old \subseteq d.keys)
         /\ r.tables = d.tables /\ r.types = d.types /\ r.columns = d.columns
         /\ r.json = d.json /\ r.rows = d.rows /\ r.bare = d.bare
BY DEF DropKeys, Database

LEMMA DropTypesDoes ==
  ASSUME NEW d \in Database, NEW old
  PROVE  LET r == DropTypes(d, old) IN
         /\ r \in Database
         /\ r.types = d.types \ old
         /\ r.tables = d.tables /\ r.keys = d.keys /\ r.columns = d.columns
         /\ r.json = d.json /\ r.rows = d.rows /\ r.bare = d.bare
BY DEF DropTypes, Database

LEMMA DropTablesDoes ==
  ASSUME NEW d \in Database, NEW old
  PROVE  LET r == DropTables(d, old) IN
         /\ r \in Database
         /\ r.tables = d.tables \ old
         /\ r.keys = {k \in d.keys : k.table \notin old}
         /\ r.columns = {c \in d.columns : c[1] \notin old}
         /\ \A t \in RowTables :
              r.rows[t] = IF t \in old THEN {} ELSE d.rows[t]
         /\ RowTables \cap old = {} => r.rows = d.rows
         /\ "oauthAccessToken" \notin old => r.bare = d.bare
         /\ "oauthAccessToken" \in old => r.bare = {}
         /\ r.types = d.types /\ r.json = d.json
BY DEF DropTables, Database

LEMMA AddRowsDoes ==
  ASSUME NEW d \in Database, NEW table \in RowTables, NEW ids \in SUBSET ClientId
  PROVE  LET r == AddRows(d, table, ids) IN
         /\ r \in Database
         /\ r.rows[table] = d.rows[table] \cup ids
         /\ \A t \in RowTables \ {table} : r.rows[t] = d.rows[t]
         /\ r.tables = d.tables /\ r.types = d.types /\ r.keys = d.keys
         /\ r.columns = d.columns /\ r.json = d.json
         /\ r.bare = d.bare /\ r.ok = d.ok
BY DEF AddRows, Database

(* ... and when they do not fail.                                          *)
LEMMA DropTablesFine ==
  ASSUME NEW d \in Database, NEW old, old \subseteq d.tables,
         \A k \in d.keys : k.target \in old => k.table \in old
  PROVE  DropTables(d, old).ok = d.ok
BY DEF DropTables, Database

LEMMA DropTypesFine ==
  ASSUME NEW d \in Database, NEW old, d.tables \cap DOMAIN TypesOf = {}
  PROVE  DropTypes(d, old).ok = d.ok
BY DEF DropTypes, Database

LEMMA CreateTablesFine ==
  ASSUME NEW d \in Database, NEW new, new \cap d.tables = {}
  PROVE  CreateTables(d, new).ok = d.ok
BY DEF CreateTables, Database

LEMMA CreateTypesFine ==
  ASSUME NEW d \in Database, NEW new, new \cap d.types = {}
  PROVE  CreateTypes(d, new).ok = d.ok
BY DEF CreateTypes, Database

LEMMA AddKeysFine ==
  ASSUME NEW d \in Database, NEW new,
         \A k \in new : /\ {k.table, k.target} \subseteq d.tables
                        /\ Satisfied(d, k)
                        /\ \A o \in d.keys : ~ /\ o.table = k.table
                                               /\ o.column = k.column
  PROVE  AddKeys(d, new).ok = d.ok
BY DEF AddKeys, Database

-----------------------------------------------------------------------------
(* The invariant, for a database on which n migrations are applied.        *)

Good(d, n) ==
  /\ d \in Database
  /\ Recorded(d, n)
  /\ Sound(d)
  /\ AppTablesTogether(d, n)
  /\ FitForPlugin(d, n)

(* Better Auth's part of it is as it was.                                  *)
SameApp(d, r) ==
  /\ r.rows = d.rows /\ r.bare = d.bare /\ r.json = d.json
  /\ r.tables \cap AppTables = d.tables \cap AppTables
  /\ r.keys \cap AppKeys = d.keys \cap AppKeys
  /\ r.columns \cap {OldValue, NewValue} = d.columns \cap {OldValue, NewValue}

(* So is the service's own.                                                *)
SameOwn(d, r) ==
  /\ r.types = d.types
  /\ r.tables \ AppTables = d.tables \ AppTables
  /\ r.keys \ AppKeys = d.keys \ AppKeys
  /\ r.columns \ {OldValue, NewValue} = d.columns \ {OldValue, NewValue}

LEMMA ClientKeyFacts ==
  \A t \in Naming :
    /\ ClientKey(t, "oauthClient") \in AppKeys
    /\ ClientKey(t, "oauthApplication") \in AppKeys
    /\ \A target : /\ ClientKey(t, target).table = t
                   /\ ClientKey(t, target).column = "clientId"
                   /\ ClientKey(t, target).target = target
BY DEF AppKeys, PluginKeys, ClientKey, ForeignKey

LEMMA ColumnFacts ==
  /\ Ciphertext # OldValue /\ Ciphertext # NewValue /\ OldValue # NewValue
  /\ Ciphertext[1] = "refresh_tokens"
  /\ OldValue[1] = "oauthAccessToken" /\ NewValue[1] = "oauthAccessToken"
BY DEF Ciphertext, OldValue, NewValue

(* The plugin finds what it found, if nothing of it changed.               *)
LEMMA AppKept ==
  ASSUME NEW d, NEW r, NEW n \in 0..6, NEW m \in 0..6,
         m >= 3 => n >= 3, m >= 4 => n >= 4, SameApp(d, r),
         AppTablesTogether(d, n), FitForPlugin(d, n)
  PROVE  AppTablesTogether(r, m) /\ FitForPlugin(r, m)
<1>1. \A t \in AppTables : t \in r.tables <=> t \in d.tables
  BY DEF SameApp
<1>2. NewValue \in r.columns <=> NewValue \in d.columns
  BY DEF SameApp
<1>3. \A t \in Naming :
        ClientKey(t, "oauthClient") \in r.keys <=> ClientKey(t, "oauthClient") \in d.keys
  BY ClientKeyFacts DEF SameApp
<1>4. {"user", "session", "oauthClient", "oauthRefreshToken",
       "oauthAccessToken", "oauthConsent", "oauthApplication"} \subseteq AppTables
      /\ Naming \subseteq AppTables
  BY TableFacts
<1>5. AppTablesTogether(r, m)
  BY <1>1, <1>2, <1>4 DEF AppTablesTogether
<1>6. FitForPlugin(r, m)
  BY <1>1, <1>2, <1>3, <1>4 DEF FitForPlugin, SameApp
<1> QED
  BY <1>5, <1>6

(* A key of the service's own is no matter of clients.                     *)
LEMMA OwnSatisfied ==
  \A d : \A k \in OwnKeys \cup InviteKeys \cup ResetKeys : Satisfied(d, k)
BY KeyFacts, TableFacts DEF Satisfied, Naming, LateTables

(* Whose key it is shows in its table.                                     *)
LEMMA OwnerOfKey ==
  /\ AppKeys \cap (OwnKeys \cup InviteKeys \cup ResetKeys) = {}
  /\ OwnKeys \cap (InviteKeys \cup ResetKeys) = {}
  /\ InviteKeys \cap ResetKeys = {}
  /\ \A k \in ForeignKeys :
       /\ k.table \in OwnTables => k \in OwnKeys
       /\ k.table = "user_invites" => k \in InviteKeys
       /\ k.table = "password_resets" => k \in ResetKeys
       /\ k.table \in AppTables <=> k \in AppKeys
       /\ k.target \in AppTables <=> k \in AppKeys
BY KeyFacts, TableFacts DEF LateTables

-----------------------------------------------------------------------------
(* The six migrations, up: they leave a good database, and only the        *)
(* alignment can fail.                                                     *)

LEMMA FoundationUp ==
  ASSUME NEW d, Good(d, 0)
  PROVE  LET r == Up(d, 1) IN
         Good(r, 1) /\ SameApp(d, r) /\ r.ok = d.ok
<1> DEFINE a == CreateTypes(d, OwnTypes)
           b == CreateTables(a, OwnTables)
           r == AddKeys(b, OwnKeys)
<1>1. Up(d, 1) = r
  BY DEF Up, CreateFoundation
<1>2. /\ d \in Database /\ d.types = {} /\ d.tables \subseteq AppTables
      /\ d.keys \subseteq AppKeys
      /\ d.columns \subseteq {OldValue, NewValue}
  BY DEF Good, Recorded, At
<1>3. /\ a \in Database /\ a.types = OwnTypes /\ a.ok = d.ok
      /\ a.tables = d.tables /\ a.keys = d.keys /\ a.columns = d.columns
      /\ a.json = d.json /\ a.rows = d.rows /\ a.bare = d.bare
  BY <1>2, CreateTypesDoes, CreateTypesFine
<1> HIDE DEF a
<1>4. /\ b \in Database /\ b.types = OwnTypes /\ b.ok = d.ok
      /\ b.tables = d.tables \cup OwnTables /\ b.keys = d.keys
      /\ b.columns = d.columns /\ b.json = d.json /\ b.rows = d.rows
      /\ b.bare = d.bare
  BY <1>2, <1>3, CreateTablesDoes, CreateTablesFine, TableFacts
<1> HIDE DEF b
<1>5. \A k \in OwnKeys :
        /\ k.table \in b.tables /\ k.target \in b.tables /\ Satisfied(b, k)
        /\ \A o \in b.keys : o.table # k.table
  BY <1>2, <1>4, KeyFacts, OwnSatisfied, TableFacts
<1>6. /\ r \in Database /\ r.types = OwnTypes /\ r.ok = d.ok
      /\ r.tables = d.tables \cup OwnTables /\ r.keys = d.keys \cup OwnKeys
      /\ r.columns = d.columns /\ r.json = d.json /\ r.rows = d.rows
      /\ r.bare = d.bare
  BY <1>4, <1>5, AddKeysDoes, AddKeysFine, KeyFacts
<1> HIDE DEF r
<1>7. Recorded(r, 1)
  BY <1>2, <1>6, TableFacts, OwnerOfKey, ColumnFacts DEF Recorded, At
<1>8. Sound(r)
  BY <1>4, <1>5, <1>6 DEF Good, Sound, Satisfied
<1>9. SameApp(d, r)
  BY <1>6, TableFacts, OwnerOfKey DEF SameApp
<1> QED
  BY <1>1, <1>6, <1>7, <1>8, <1>9, AppKept DEF Good

LEMMA CiphertextUp ==
  ASSUME NEW d, Good(d, 1)
  PROVE  LET r == Up(d, 2) IN
         Good(r, 2) /\ SameApp(d, r) /\ r.ok = d.ok
<1> DEFINE r == AddCiphertext(d)
<1>1. Up(d, 2) = r
  BY DEF Up
<1>2. /\ d \in Database /\ OwnTables \subseteq d.tables
      /\ Ciphertext \notin d.columns
  BY ColumnFacts DEF Good, Recorded, At
<1>3. /\ r \in Database /\ r.types = d.types /\ r.tables = d.tables
      /\ r.keys = d.keys /\ r.columns = d.columns \cup {Ciphertext}
      /\ r.json = d.json /\ r.rows = d.rows /\ r.bare = d.bare
      /\ r.ok = (d.ok /\ "refresh_tokens" \in d.tables /\ Ciphertext \notin d.columns)
  BY <1>2 DEF AddCiphertext, Database
<1>4. r.ok = d.ok
  BY <1>2, <1>3, TableFacts, Fields
<1> HIDE DEF r
<1>5. Recorded(r, 2)
  BY <1>3, ColumnFacts DEF Good, Recorded, At
<1>6. Sound(r)
  BY <1>3 DEF Good, Sound, Satisfied
<1>7. SameApp(d, r)
  BY <1>3, ColumnFacts DEF SameApp
<1> QED
  BY <1>1, <1>3, <1>4, <1>5, <1>6, <1>7, AppKept DEF Good

(* Invites and password resets: one table of the service with its keys.    *)
LEMMA TableUp ==
  ASSUME NEW d, Good(d, 4) \/ Good(d, 5),
         NEW table \in LateTables, NEW keys, keys \subseteq ForeignKeys,
         \A k \in keys : k.table = table /\ k.target = "users",
         table \notin d.tables
  PROVE  LET r == AddKeys(CreateTables(d, {table}), keys) IN
         /\ r \in Database /\ Sound(r) /\ SameApp(d, r) /\ r.ok = d.ok
         /\ r.types = d.types /\ r.columns = d.columns
         /\ r.tables = d.tables \cup {table} /\ r.keys = d.keys \cup keys
<1> DEFINE b == CreateTables(d, {table})
           r == AddKeys(b, keys)
<1>1. /\ d \in Database /\ "users" \in d.tables /\ Sound(d)
      /\ \A k \in d.keys : k.table # table
  BY TableFacts DEF Good, Recorded, At, Sound
<1>2. /\ b \in Database /\ b.types = d.types /\ b.ok = d.ok
      /\ b.tables = d.tables \cup {table} /\ b.keys = d.keys
      /\ b.columns = d.columns /\ b.json = d.json /\ b.rows = d.rows
      /\ b.bare = d.bare
  BY <1>1, CreateTablesDoes, CreateTablesFine, TableFacts
<1> HIDE DEF b
<1>3. \A k \in keys :
        /\ k.table \in b.tables /\ k.target \in b.tables /\ Satisfied(b, k)
        /\ \A o \in b.keys : o.table # k.table
        /\ k \notin AppKeys
  BY <1>1, <1>2, OwnerOfKey, TableFacts DEF Satisfied, Naming, LateTables
<1>4. /\ r \in Database /\ r.types = d.types /\ r.ok = d.ok
      /\ r.tables = d.tables \cup {table} /\ r.keys = d.keys \cup keys
      /\ r.columns = d.columns /\ r.json = d.json /\ r.rows = d.rows
      /\ r.bare = d.bare
  BY <1>2, <1>3, AddKeysDoes, AddKeysFine
<1> HIDE DEF r
<1>5. Sound(r)
  BY <1>1, <1>2, <1>3, <1>4 DEF Sound, Satisfied
<1>6. SameApp(d, r)
  BY <1>3, <1>4, TableFacts DEF SameApp
<1> QED
  BY <1>4, <1>5, <1>6 DEF r, b

LEMMA InvitesUp ==
  ASSUME NEW d, Good(d, 4)
  PROVE  LET r == Up(d, 5) IN
         Good(r, 5) /\ SameApp(d, r) /\ r.ok = d.ok
<1> DEFINE r == AddKeys(CreateTables(d, {"user_invites"}), InviteKeys)
<1>1. Up(d, 5) = r
  BY DEF Up, CreateUserInvites
<1>2. "user_invites" \notin d.tables
  BY TableFacts DEF Good, Recorded, At, LateTables
<1>3. /\ r \in Database /\ Sound(r) /\ SameApp(d, r) /\ r.ok = d.ok
      /\ r.types = d.types /\ r.columns = d.columns
      /\ r.tables = d.tables \cup {"user_invites"} /\ r.keys = d.keys \cup InviteKeys
  BY <1>2, TableUp, KeyFacts DEF LateTables
<1> HIDE DEF r
<1>4. Recorded(r, 5)
  BY <1>3, OwnerOfKey, TableFacts DEF Good, Recorded, At, LateTables
<1> QED
  BY <1>1, <1>3, <1>4, AppKept DEF Good

LEMMA ResetsUp ==
  ASSUME NEW d, Good(d, 5)
  PROVE  LET r == Up(d, 6) IN
         Good(r, 6) /\ SameApp(d, r) /\ r.ok = d.ok
<1> DEFINE r == AddKeys(CreateTables(d, {"password_resets"}), ResetKeys)
<1>1. Up(d, 6) = r
  BY DEF Up, CreatePasswordResets
<1>2. "password_resets" \notin d.tables
  BY TableFacts DEF Good, Recorded, At, LateTables
<1>3. /\ r \in Database /\ Sound(r) /\ SameApp(d, r) /\ r.ok = d.ok
      /\ r.types = d.types /\ r.columns = d.columns
      /\ r.tables = d.tables \cup {"password_resets"} /\ r.keys = d.keys \cup ResetKeys
  BY <1>2, TableUp, KeyFacts DEF LateTables
<1> HIDE DEF r
<1>4. Recorded(r, 6)
  BY <1>3, OwnerOfKey, TableFacts DEF Good, Recorded, At, LateTables
<1> QED
  BY <1>1, <1>3, <1>4, AppKept DEF Good

-----------------------------------------------------------------------------
(* The alignment with the current plugin.                                  *)

(* What is recorded is there, if nothing of the service's own changed.     *)
LEMMA OwnKept ==
  ASSUME NEW d, NEW r, NEW n \in 0..6, NEW m \in 0..6, SameOwn(d, r),
         n >= 1 <=> m >= 1, n >= 2 <=> m >= 2, n >= 5 <=> m >= 5, n >= 6 <=> m >= 6,
         Recorded(d, n)
  PROVE  Recorded(r, m)
BY DEF SameOwn, Recorded, At

LEMMA SameOwnTwice ==
  ASSUME NEW d, NEW e, NEW r, SameOwn(d, e), SameOwn(e, r)
  PROVE  SameOwn(d, r)
BY DEF SameOwn

LEMMA AppKeyFacts ==
  /\ RefreshTokenKeys \subseteq AppKeys /\ AccessTokenKeys \subseteq AppKeys
  /\ ForeignKey("oauthClient", "userId", "user") \in AppKeys
  /\ ForeignKey("oauthClient", "userId", "user").table = "oauthClient"
  /\ ForeignKey("oauthClient", "userId", "user").target = "user"
  /\ \A k \in RefreshTokenKeys :
       /\ k.table = "oauthRefreshToken"
       /\ k.target \in {"oauthClient", "session", "user"}
  /\ \A k \in AccessTokenKeys :
       /\ k.table = "oauthAccessToken" /\ k.column # "clientId"
       /\ k.target \in {"session", "oauthRefreshToken"}
  /\ \A k \in AppKeys :
       /\ k.target = "oauthRefreshToken" =>
            k.table = "oauthAccessToken" /\ k.column = "refreshId"
       /\ k.target = "oauthClient" =>
            \/ k.table = "oauthRefreshToken"
            \/ k.table \in Naming /\ k.column = "clientId"
       /\ k.column = "clientId" /\ k.table \in Naming =>
            k.target \in {"oauthClient", "oauthApplication"}
<1>1. /\ RefreshTokenKeys \subseteq AppKeys /\ AccessTokenKeys \subseteq AppKeys
      /\ ForeignKey("oauthClient", "userId", "user") \in AppKeys
  BY DEF AppKeys, PluginKeys
<1>2. /\ ForeignKey("oauthClient", "userId", "user").table = "oauthClient"
      /\ ForeignKey("oauthClient", "userId", "user").target = "user"
      /\ \A k \in RefreshTokenKeys :
           /\ k.table = "oauthRefreshToken"
           /\ k.target \in {"oauthClient", "session", "user"}
      /\ \A k \in AccessTokenKeys :
           /\ k.table = "oauthAccessToken" /\ k.column # "clientId"
           /\ k.target \in {"session", "oauthRefreshToken"}
  BY DEF RefreshTokenKeys, AccessTokenKeys, ForeignKey
<1>3. \A k \in AppKeys :
       /\ k.target = "oauthRefreshToken" =>
            k.table = "oauthAccessToken" /\ k.column = "refreshId"
       /\ k.target = "oauthClient" =>
            \/ k.table = "oauthRefreshToken"
            \/ k.table \in Naming /\ k.column = "clientId"
       /\ k.column = "clientId" /\ k.table \in Naming =>
            k.target \in {"oauthClient", "oauthApplication"}
  BY DEF AppKeys, PluginKeys, RefreshTokenKeys, AccessTokenKeys, ForeignKey,
         ClientKey, Naming
<1> QED
  BY <1>1, <1>2, <1>3

LEMMA MissingKeys ==
  ASSUME NEW d \in Database, Sound(d), NEW wanted, wanted \subseteq AppKeys,
         \A k \in wanted :
           k.table \in d.tables /\ k.target \in d.tables /\ Satisfied(d, k)
  PROVE  LET r == AddMissingKeys(d, wanted) IN
         /\ r \in Database /\ Sound(r) /\ SameOwn(d, r) /\ r.ok = d.ok
         /\ r.tables = d.tables /\ r.columns = d.columns
         /\ r.json = d.json /\ r.rows = d.rows /\ r.bare = d.bare
<1> DEFINE new == {k \in wanted : ~ \E o \in d.keys : /\ o.table = k.table
                                                      /\ o.column = k.column}
           r == AddKeys(d, new)
<1>1. AddMissingKeys(d, wanted) = r
  BY DEF AddMissingKeys
<1>2. /\ new \subseteq AppKeys /\ new \subseteq ForeignKeys
      /\ \A k \in new : /\ {k.table, k.target} \subseteq d.tables
                        /\ Satisfied(d, k)
                        /\ \A o \in d.keys : ~ /\ o.table = k.table
                                               /\ o.column = k.column
  BY KeyFacts
<1> HIDE DEF new
<1>3. /\ r \in Database /\ r.keys = d.keys \cup new
      /\ r.tables = d.tables /\ r.types = d.types /\ r.columns = d.columns
      /\ r.json = d.json /\ r.rows = d.rows /\ r.bare = d.bare
  BY <1>2, AddKeysDoes
<1>4. r.ok = d.ok
  BY <1>2, AddKeysFine
<1> HIDE DEF r
<1>5. Sound(r)
  BY <1>2, <1>3 DEF Sound, Satisfied
<1>6. SameOwn(d, r)
  BY <1>2, <1>3 DEF SameOwn
<1> QED
  BY <1>1, <1>3, <1>4, <1>5, <1>6

LEMMA MissingTable ==
  ASSUME NEW d \in Database, Sound(d), NEW table \in AppTables \ Naming,
         NEW wanted, wanted \subseteq AppKeys,
         \A k \in wanted : k.table = table /\ k.target \in d.tables
  PROVE  LET r == CreateIfMissing(d, table, wanted) IN
         /\ r \in Database /\ Sound(r) /\ SameOwn(d, r) /\ r.ok = d.ok
         /\ r.tables = d.tables \cup {table} /\ r.columns = d.columns
         /\ r.json = d.json /\ r.rows = d.rows /\ r.bare = d.bare
<1> DEFINE e == [d EXCEPT !.tables = @ \cup {table}]
           r == AddMissingKeys(e, wanted)
<1>1. CreateIfMissing(d, table, wanted) = r
  BY DEF CreateIfMissing
<1>2. /\ e \in Database /\ e.tables = d.tables \cup {table} /\ e.types = d.types
      /\ e.keys = d.keys /\ e.columns = d.columns /\ e.json = d.json
      /\ e.rows = d.rows /\ e.bare = d.bare /\ e.ok = d.ok
  BY TableFacts DEF Database
<1> HIDE DEF e
<1>3. Sound(e) /\ SameOwn(d, e)
  BY <1>2 DEF Sound, Satisfied, SameOwn
<1>4. \A k \in wanted :
        k.table \in e.tables /\ k.target \in e.tables /\ Satisfied(e, k)
  BY <1>2 DEF Satisfied
<1>5. /\ r \in Database /\ Sound(r) /\ SameOwn(e, r) /\ r.ok = e.ok
      /\ r.tables = e.tables /\ r.columns = e.columns
      /\ r.json = e.json /\ r.rows = e.rows /\ r.bare = e.bare
  BY <1>2, <1>3, <1>4, MissingKeys
<1> HIDE DEF r
<1> QED
  BY <1>1, <1>2, <1>3, <1>5, SameOwnTwice

(* More clients dangle nothing.                                            *)
LEMMA MoreClients ==
  ASSUME NEW d \in Database, Sound(d), "oauthClient" \in d.tables,
         NEW ids \in SUBSET ClientId
  PROVE  LET r == AddRows(d, "oauthClient", ids) IN
         /\ r \in Database /\ Sound(r) /\ SameOwn(d, r) /\ r.ok = d.ok
         /\ r.tables = d.tables /\ r.columns = d.columns /\ r.json = d.json
         /\ r.bare = d.bare
         /\ r.types = d.types /\ r.keys = d.keys
         /\ r.rows["oauthClient"] = d.rows["oauthClient"] \cup ids
         /\ \A t \in RowTables \ {"oauthClient"} : r.rows[t] = d.rows[t]
<1> DEFINE r == AddRows(d, "oauthClient", ids)
<1>1. /\ r \in Database
      /\ r.rows["oauthClient"] = d.rows["oauthClient"] \cup ids
      /\ \A t \in RowTables \ {"oauthClient"} : r.rows[t] = d.rows[t]
      /\ r.tables = d.tables /\ r.types = d.types /\ r.keys = d.keys
      /\ r.columns = d.columns /\ r.json = d.json
      /\ r.bare = d.bare /\ r.ok = d.ok
  BY AddRowsDoes DEF RowTables
<1> HIDE DEF r
<1>2. \A k \in d.keys : Satisfied(r, k)
  <2> SUFFICES ASSUME NEW k \in d.keys, k.column = "clientId", k.table \in Naming
               PROVE  r.rows[k.table] \subseteq r.rows[k.target]
    BY DEF Satisfied
  <2>1. k.target \in {"oauthClient", "oauthApplication"}
    BY AppKeyFacts, OwnerOfKey, Fields, TableFacts
  <2>2. d.rows[k.table] \subseteq d.rows[k.target]
    BY DEF Sound, Satisfied
  <2> QED
    BY <1>1, <2>1, <2>2 DEF Naming, RowTables
<1>3. Sound(r)
  <2>1. r.bare \subseteq r.rows["oauthAccessToken"]
    BY <1>1 DEF Sound, RowTables, Naming
  <2> QED
    BY <1>1, <1>2, <2>1 DEF Sound, RowTables
<1>4. SameOwn(d, r)
  BY <1>1 DEF SameOwn
<1> QED
  BY <1>1, <1>3, <1>4 DEF r

(* There is a value for every access token.                                *)
Fillable(d) ==
  OldValue \in d.columns /\ (NewValue \in d.columns \/ d.bare = {})

(* What an alignment may do: the service's own stays, tables and rows are  *)
(* only added, and only tables and clients.                                *)
LEMMA AccessTokensAligned ==
  ASSUME NEW d \in Database, Sound(d),
         {"user", "session", "oauthClient", "oauthRefreshToken"} \subseteq d.tables
  PROVE  LET r == AlignAccessTokens(d) IN
         /\ r \in Database /\ Sound(r) /\ SameOwn(d, r) /\ r.tables = d.tables
         /\ "oauthAccessToken" \in d.tables =>
              r.ok = (d.ok /\ Fillable(d))
         /\ "oauthAccessToken" \notin d.tables => r = d
         /\ "oauthAccessToken" \in d.tables =>
              /\ NewValue \in r.columns
              /\ r.json = d.json \cup {"oauthAccessToken"}
         /\ d.rows["oauthClient"] \subseteq r.rows["oauthClient"]
         /\ \A t \in RowTables \ {"oauthClient"} : r.rows[t] = d.rows[t]
<1> DEFINE f == FillTokens(d)
           g == AddRows(f, "oauthClient", f.rows["oauthAccessToken"])
           h == [g EXCEPT !.json = @ \cup {"oauthAccessToken"}]
           wanted == {ClientKey("oauthAccessToken", "oauthClient")}
                       \cup AccessTokenKeys
           r == AddMissingKeys(h, wanted)
<1>0. "oauthAccessToken" \in Naming /\ "oauthAccessToken" \in RowTables \ {"oauthClient"}
      /\ "oauthClient" \in RowTables
  BY DEF Naming, RowTables
<1>1. CASE "oauthAccessToken" \notin d.tables
  <2>1. AlignAccessTokens(d) = d
    BY <1>1 DEF AlignAccessTokens
  <2> QED
    BY <1>1, <2>1 DEF SameOwn
<1>2. CASE "oauthAccessToken" \in d.tables
  <2>1. AlignAccessTokens(d) = r
    BY <1>2 DEF AlignAccessTokens, BackfillMissingOauthClients
  <2>2. /\ f \in Database /\ f.tables = d.tables /\ f.types = d.types
        /\ f.keys = d.keys /\ f.columns = d.columns \cup {NewValue}
        /\ f.json = d.json /\ f.rows = d.rows /\ f.bare = d.bare
        /\ f.bare = d.bare /\ f.ok = (d.ok /\ Fillable(d))
    BY DEF Database, FillTokens, Fillable
  <2> HIDE DEF f
  <2>3. Sound(f) /\ SameOwn(d, f)
    BY <2>2 DEF Sound, Satisfied, SameOwn
  <2>4. f.rows["oauthAccessToken"] \in SUBSET ClientId
    BY <1>0, <2>2, Fields
  <2>5. /\ g \in Database /\ Sound(g) /\ SameOwn(f, g) /\ g.ok = f.ok
        /\ g.tables = f.tables /\ g.columns = f.columns /\ g.json = f.json
        /\ g.bare = f.bare
        /\ g.types = f.types /\ g.keys = f.keys
        /\ g.rows["oauthClient"] =
             f.rows["oauthClient"] \cup f.rows["oauthAccessToken"]
        /\ \A t \in RowTables \ {"oauthClient"} : g.rows[t] = f.rows[t]
    BY <2>2, <2>3, <2>4, MoreClients
  <2> HIDE DEF g
  <2>6. /\ h \in Database /\ h.tables = g.tables /\ h.types = g.types
        /\ h.keys = g.keys /\ h.columns = g.columns
        /\ h.json = g.json \cup {"oauthAccessToken"} /\ h.rows = g.rows
        /\ h.bare = g.bare
        /\ h.ok = g.ok
    BY <1>0, <2>5 DEF Database
  <2> HIDE DEF h
  <2>7. Sound(h) /\ SameOwn(g, h)
    BY <2>5, <2>6 DEF Sound, Satisfied, SameOwn
  <2>8. /\ wanted \subseteq AppKeys
        /\ \A k \in wanted :
             k.table \in h.tables /\ k.target \in h.tables /\ Satisfied(h, k)
    <3> SUFFICES ASSUME NEW k \in wanted
                 PROVE  /\ k \in AppKeys /\ k.table \in h.tables
                        /\ k.target \in h.tables /\ Satisfied(h, k)
      OBVIOUS
    <3>1. CASE k \in AccessTokenKeys
      BY <1>2, <2>2, <2>5, <2>6, <3>1, AppKeyFacts DEF Satisfied
    <3>2. CASE k = ClientKey("oauthAccessToken", "oauthClient")
      BY <1>0, <1>2, <2>2, <2>5, <2>6, <3>2, ClientKeyFacts DEF Satisfied
    <3> QED
      BY <3>1, <3>2
  <2> HIDE DEF wanted
  <2>9. /\ r \in Database /\ Sound(r) /\ SameOwn(h, r) /\ r.ok = h.ok
        /\ r.tables = h.tables /\ r.columns = h.columns
        /\ r.json = h.json /\ r.rows = h.rows /\ r.bare = h.bare
    BY <2>6, <2>7, <2>8, MissingKeys
  <2> HIDE DEF r
  <2>10. SameOwn(d, r)
    BY <2>3, <2>5, <2>7, <2>9, SameOwnTwice
  <2>11. /\ r.tables = d.tables /\ NewValue \in r.columns
         /\ r.json = d.json \cup {"oauthAccessToken"}
         /\ r.ok = (d.ok /\ Fillable(d))
    BY <2>2, <2>5, <2>6, <2>9
  <2>12. /\ d.rows["oauthClient"] \subseteq r.rows["oauthClient"]
         /\ \A t \in RowTables \ {"oauthClient"} : r.rows[t] = d.rows[t]
    BY <2>2, <2>5, <2>6, <2>9
  <2> QED
    BY <1>2, <2>1, <2>9, <2>10, <2>11, <2>12
<1> QED
  BY <1>1, <1>2

LEMMA ConsentsAligned ==
  ASSUME NEW d \in Database, Sound(d), "oauthClient" \in d.tables
  PROVE  LET r == AlignConsents(d) IN
         /\ r \in Database /\ Sound(r) /\ SameOwn(d, r) /\ r.ok = d.ok
         /\ r.tables = d.tables /\ r.columns = d.columns
         /\ "oauthConsent" \in d.tables => r.json = d.json \cup {"oauthConsent"}
         /\ d.rows["oauthClient"] \subseteq r.rows["oauthClient"]
         /\ \A t \in RowTables \ {"oauthClient"} : r.rows[t] = d.rows[t]
<1> DEFINE g == AddRows(d, "oauthClient", d.rows["oauthConsent"])
           h == [g EXCEPT !.json = @ \cup {"oauthConsent"}]
           wanted == {ClientKey("oauthConsent", "oauthClient")}
           r == AddMissingKeys(h, wanted)
<1>0. "oauthConsent" \in Naming /\ "oauthConsent" \in RowTables \ {"oauthClient"}
      /\ "oauthClient" \in RowTables
  BY DEF Naming, RowTables
<1>1. CASE "oauthConsent" \notin d.tables
  <2>1. AlignConsents(d) = d
    BY <1>1 DEF AlignConsents
  <2> QED
    BY <1>1, <2>1 DEF SameOwn
<1>2. CASE "oauthConsent" \in d.tables
  <2>1. AlignConsents(d) = r
    BY <1>2 DEF AlignConsents, BackfillMissingOauthClients
  <2>2. d.rows["oauthConsent"] \in SUBSET ClientId
    BY <1>0, Fields
  <2>3. /\ g \in Database /\ Sound(g) /\ SameOwn(d, g) /\ g.ok = d.ok
        /\ g.tables = d.tables /\ g.columns = d.columns /\ g.json = d.json
        /\ g.bare = d.bare
        /\ g.types = d.types /\ g.keys = d.keys
        /\ g.rows["oauthClient"] =
             d.rows["oauthClient"] \cup d.rows["oauthConsent"]
        /\ \A t \in RowTables \ {"oauthClient"} : g.rows[t] = d.rows[t]
    BY <2>2, MoreClients
  <2> HIDE DEF g
  <2>4. /\ h \in Database /\ h.tables = g.tables /\ h.types = g.types
        /\ h.keys = g.keys /\ h.columns = g.columns
        /\ h.json = g.json \cup {"oauthConsent"} /\ h.rows = g.rows
        /\ h.bare = g.bare
        /\ h.ok = g.ok
    BY <1>0, <2>3 DEF Database
  <2> HIDE DEF h
  <2>5. Sound(h) /\ SameOwn(g, h)
    BY <2>3, <2>4 DEF Sound, Satisfied, SameOwn
  <2>6. /\ wanted \subseteq AppKeys
        /\ \A k \in wanted :
             k.table \in h.tables /\ k.target \in h.tables /\ Satisfied(h, k)
    BY <1>0, <1>2, <2>3, <2>4, ClientKeyFacts DEF Satisfied
  <2> HIDE DEF wanted
  <2>7. /\ r \in Database /\ Sound(r) /\ SameOwn(h, r) /\ r.ok = h.ok
        /\ r.tables = h.tables /\ r.columns = h.columns
        /\ r.json = h.json /\ r.rows = h.rows /\ r.bare = h.bare
    BY <2>4, <2>5, <2>6, MissingKeys
  <2> HIDE DEF r
  <2>8. SameOwn(d, r)
    BY <2>3, <2>5, <2>7, SameOwnTwice
  <2> QED
    BY <1>2, <2>1, <2>3, <2>4, <2>7, <2>8
<1> QED
  BY <1>1, <1>2

LEMMA AlignUp ==
  ASSUME NEW d, Good(d, 2)
  PROVE  LET r == Up(d, 3) IN
         /\ Good(r, 3)
         /\ "oauthAccessToken" \in d.tables =>
              r.ok = (d.ok /\ Fillable(d))
         /\ "oauthAccessToken" \notin d.tables => r.ok = d.ok
<1> DEFINE a == CreateIfMissing(d, "oauthClient",
                                {ForeignKey("oauthClient", "userId", "user")})
           b == CopyApplications(a)
           c == CreateIfMissing(b, "oauthRefreshToken", RefreshTokenKeys)
           e == AlignAccessTokens(c)
           r == AlignConsents(e)
<1>0. /\ d \in Database /\ Sound(d) /\ Recorded(d, 2)
      /\ AppTablesTogether(d, 2)
  BY DEF Good
<1>1. CASE "user" \notin d.tables
  <2>1. Up(d, 3) = d
    BY <1>1 DEF Up, Align
  <2>2. Recorded(d, 3)
    BY <1>0, OwnKept DEF SameOwn
  <2>3. AppTablesTogether(d, 3) /\ FitForPlugin(d, 3) /\ "oauthAccessToken" \notin d.tables
    BY <1>0, <1>1 DEF AppTablesTogether, FitForPlugin, Naming
  <2> QED
    BY <1>0, <2>1, <2>2, <2>3 DEF Good
<1>2. CASE "user" \in d.tables
  <2>0. {"user", "session"} \cup Naming \subseteq d.tables
    BY <1>0, <1>2 DEF AppTablesTogether
  <2>1. Up(d, 3) = r
    BY <2>0 DEF Up, Align
  <2>2. /\ a \in Database /\ Sound(a) /\ SameOwn(d, a) /\ a.ok = d.ok
        /\ a.tables = d.tables \cup {"oauthClient"} /\ a.columns = d.columns
        /\ a.json = d.json /\ a.rows = d.rows /\ a.bare = d.bare
    BY <1>0, <1>2, MissingTable, AppKeyFacts, TableFacts DEF Naming
  <2> HIDE DEF a
  <2>3. /\ b \in Database /\ Sound(b) /\ SameOwn(a, b) /\ b.ok = a.ok
        /\ b.tables = a.tables /\ b.columns = a.columns /\ b.json = a.json
        /\ b.bare = a.bare
        /\ b.rows["oauthApplication"] \subseteq b.rows["oauthClient"]
        /\ \A t \in RowTables \ {"oauthClient"} : b.rows[t] = a.rows[t]
    <3>1. CASE "oauthApplication" \in a.tables
      <4>1. b = AddRows(a, "oauthClient", a.rows["oauthApplication"])
        BY <3>1 DEF CopyApplications
      <4>2. /\ a.rows["oauthApplication"] \in SUBSET ClientId
            /\ "oauthApplication" \in RowTables \ {"oauthClient"}
        BY <2>2, Fields DEF RowTables
      <4> QED
        BY <2>2, <4>1, <4>2, MoreClients
    <3>2. CASE "oauthApplication" \notin a.tables
      <4>1. b = a
        BY <3>2 DEF CopyApplications
      <4>2. a.rows["oauthApplication"] = {}
        BY <2>2, <3>2 DEF Sound, RowTables
      <4> QED
        BY <2>2, <4>1, <4>2 DEF SameOwn
    <3> QED
      BY <3>1, <3>2
  <2> HIDE DEF b
  <2>4. /\ c \in Database /\ Sound(c) /\ SameOwn(b, c) /\ c.ok = b.ok
        /\ c.tables = b.tables \cup {"oauthRefreshToken"}
        /\ c.columns = b.columns /\ c.json = b.json /\ c.rows = b.rows
        /\ c.bare = b.bare
    BY <2>0, <2>2, <2>3, MissingTable, AppKeyFacts, TableFacts DEF Naming
  <2> HIDE DEF c
  <2>5. {"user", "session", "oauthClient", "oauthRefreshToken"} \cup Naming \subseteq c.tables
    BY <2>0, <2>2, <2>3, <2>4
  <2>6. /\ e \in Database /\ Sound(e) /\ SameOwn(c, e) /\ e.tables = c.tables
        /\ e.ok = (c.ok /\ Fillable(c))
        /\ NewValue \in e.columns
        /\ e.json = c.json \cup {"oauthAccessToken"}
        /\ c.rows["oauthClient"] \subseteq e.rows["oauthClient"]
        /\ \A t \in RowTables \ {"oauthClient"} : e.rows[t] = c.rows[t]
    BY <2>4, <2>5, AccessTokensAligned DEF Naming
  <2> HIDE DEF e
  <2>7. /\ r \in Database /\ Sound(r) /\ SameOwn(e, r) /\ r.ok = e.ok
        /\ r.tables = e.tables /\ r.columns = e.columns
        /\ r.json = e.json \cup {"oauthConsent"}
        /\ e.rows["oauthClient"] \subseteq r.rows["oauthClient"]
        /\ \A t \in RowTables \ {"oauthClient"} : r.rows[t] = e.rows[t]
    BY <2>5, <2>6, ConsentsAligned DEF Naming
  <2> HIDE DEF r
  <2>8. SameOwn(d, r)
    BY <2>2, <2>3, <2>4, <2>6, <2>7, SameOwnTwice
  <2>9. Recorded(r, 3)
    BY <1>0, <2>8, OwnKept
  <2>10. AppTablesTogether(r, 3)
    BY <2>5, <2>6, <2>7 DEF AppTablesTogether, Naming
  <2>11. FitForPlugin(r, 3)
    BY <2>3, <2>4, <2>6, <2>7 DEF FitForPlugin, Naming, RowTables
  <2>12. r.ok = (d.ok /\ Fillable(d))
    BY <2>2, <2>3, <2>4, <2>6, <2>7 DEF Fillable
  <2>13. "oauthAccessToken" \in d.tables
    BY <2>0 DEF Naming
  <2> QED
    BY <2>1, <2>7, <2>9, <2>10, <2>11, <2>12, <2>13 DEF Good
<1> QED
  BY <1>1, <1>2

-----------------------------------------------------------------------------
(* The clients' keys, to oauthClient and back.                             *)

LEMMA DropColumnKeys ==
  ASSUME NEW d \in Database, Sound(d), NEW table \in AppTables, NEW columns
  PROVE  LET r == DropKeysOf(d, table, columns) IN
         /\ r \in Database /\ Sound(r) /\ SameOwn(d, r) /\ r.ok = d.ok
         /\ r.keys = {k \in d.keys : ~ (k.table = table /\ k.column \in columns)}
         /\ r.tables = d.tables /\ r.types = d.types /\ r.columns = d.columns
         /\ r.json = d.json /\ r.rows = d.rows /\ r.bare = d.bare
<1> DEFINE old == {k \in d.keys : k.table = table /\ k.column \in columns}
           r == DropKeys(d, old)
<1>1. DropKeysOf(d, table, columns) = r
  BY DEF DropKeysOf
<1>2. /\ r \in Database /\ r.keys = d.keys \ old
      /\ r.ok = (d.ok /\ old \subseteq d.keys)
      /\ r.tables = d.tables /\ r.types = d.types /\ r.columns = d.columns
      /\ r.json = d.json /\ r.rows = d.rows /\ r.bare = d.bare
  BY DropKeysDoes
<1>3. old \subseteq d.keys /\ old \subseteq AppKeys
  BY Fields, OwnerOfKey
<1>4. r.keys = {k \in d.keys : ~ (k.table = table /\ k.column \in columns)}
  BY <1>2
<1> HIDE DEF old
<1>5. r.ok = d.ok
  BY <1>2, <1>3, Fields
<1> HIDE DEF r
<1>6. Sound(r)
  BY <1>2 DEF Sound, Satisfied
<1>7. SameOwn(d, r)
  BY <1>2, <1>3 DEF SameOwn
<1> QED
  BY <1>1, <1>2, <1>4, <1>5, <1>6, <1>7

(* A key can be repointed exactly if all clients that rows of its table    *)
(* name are in the target.                                                 *)
LEMMA Repointed ==
  ASSUME NEW d \in Database, Sound(d), NEW table \in Naming,
         NEW target \in {"oauthClient", "oauthApplication"},
         table \in d.tables, target \in d.tables
  PROVE  LET r == RepointTo(d, table, target) IN
         /\ r \in Database
         /\ d.rows[table] \subseteq d.rows[target] => Sound(r) /\ r.ok = d.ok
         /\ r.ok => d.ok /\ d.rows[table] \subseteq d.rows[target]
         /\ SameOwn(d, r)
         /\ ClientKey(table, target) \in r.keys
         /\ \A k \in d.keys : k.table # table => k \in r.keys
         /\ r.tables = d.tables /\ r.types = d.types /\ r.columns = d.columns
         /\ r.json = d.json /\ r.rows = d.rows /\ r.bare = d.bare
<1> DEFINE key == ClientKey(table, target)
           e == DropKeysOf(d, table, {"clientId"})
           r == AddKeys(e, {key})
<1>0. /\ key \in AppKeys /\ key \in ForeignKeys /\ table \in AppTables
      /\ key.table = table /\ key.column = "clientId" /\ key.target = target
  BY ClientKeyFacts, KeyFacts, TableFacts
<1> HIDE DEF key
<1>1. CASE key \in d.keys
  <2>1. RepointTo(d, table, target) = d
    BY <1>1 DEF RepointTo, key
  <2>2. d.rows[table] \subseteq d.rows[target]
    BY <1>0, <1>1 DEF Sound, Satisfied
  <2> QED
    BY <1>1, <2>1, <2>2 DEF SameOwn, key
<1>2. CASE key \notin d.keys
  <2>1. RepointTo(d, table, target) = r
    BY <1>2 DEF RepointTo, key
  <2>2. /\ e \in Database /\ Sound(e) /\ SameOwn(d, e) /\ e.ok = d.ok
        /\ e.keys = {k \in d.keys : ~ (k.table = table /\ k.column \in {"clientId"})}
        /\ e.tables = d.tables /\ e.types = d.types /\ e.columns = d.columns
        /\ e.json = d.json /\ e.rows = d.rows /\ e.bare = d.bare
    BY <1>0, DropColumnKeys
  <2> HIDE DEF e
  <2>3. /\ r \in Database /\ r.keys = e.keys \cup {key}
        /\ r.tables = e.tables /\ r.types = e.types /\ r.columns = e.columns
        /\ r.json = e.json /\ r.rows = e.rows /\ r.bare = e.bare
    BY <1>0, <2>2, AddKeysDoes
  <2>4. ASSUME d.rows[table] \subseteq d.rows[target]
        PROVE  Sound(r) /\ r.ok = d.ok
    <3>1. Satisfied(e, key) /\ Satisfied(r, key)
      BY <1>0, <2>2, <2>3, <2>4 DEF Satisfied
    <3>2. /\ {key.table, key.target} \subseteq e.tables
          /\ \A o \in e.keys : ~ /\ o.table = key.table
                                 /\ o.column = key.column
      BY <1>0, <2>2
    <3>3. r.ok = e.ok
      BY <2>2, <3>1, <3>2, AddKeysFine
    <3> HIDE DEF r
    <3>4. Sound(r)
      BY <1>0, <2>2, <2>3, <3>1 DEF Sound, Satisfied
    <3> QED
      BY <2>2, <3>3, <3>4
  <2>5. r.ok => d.ok /\ d.rows[table] \subseteq d.rows[target]
    <3>1. r.ok => e.ok /\ Satisfied(e, key)
      BY <2>2 DEF AddKeys, Database
    <3> QED
      BY <1>0, <2>2, <3>1 DEF Satisfied
  <2> HIDE DEF r
  <2>6. SameOwn(d, r)
    BY <1>0, <2>2, <2>3 DEF SameOwn
  <2>7. key \in r.keys /\ \A k \in d.keys : k.table # table => k \in r.keys
    BY <2>2, <2>3
  <2> QED
    BY <2>1, <2>2, <2>3, <2>4, <2>5, <2>6, <2>7 DEF key
<1> QED
  BY <1>1, <1>2

LEMMA Backfilled ==
  ASSUME NEW d \in Database, Sound(d), NEW table \in Naming,
         table \in d.tables, "oauthClient" \in d.tables
  PROVE  LET r == RepointBackfilled(d, table) IN
         /\ r \in Database /\ Sound(r) /\ r.ok = d.ok /\ SameOwn(d, r)
         /\ ClientKey(table, "oauthClient") \in r.keys
         /\ \A k \in d.keys : k.table # table => k \in r.keys
         /\ r.tables = d.tables /\ r.columns = d.columns /\ r.json = d.json
         /\ r.bare = d.bare
         /\ r.rows["oauthClient"] = d.rows["oauthClient"] \cup d.rows[table]
         /\ \A t \in RowTables \ {"oauthClient"} : r.rows[t] = d.rows[t]
<1> DEFINE p == AddRows(d, "oauthClient", d.rows[table])
           r == RepointTo(p, table, "oauthClient")
<1>1. RepointBackfilled(d, table) = r
  BY DEF RepointBackfilled, RepointTable, BackfillMissingOauthClients
<1>2. table \in RowTables \ {"oauthClient"}
  BY DEF Naming, RowTables
<1>3. d.rows[table] \in SUBSET ClientId
  BY <1>2, Fields
<1>4. /\ p \in Database /\ Sound(p) /\ SameOwn(d, p) /\ p.ok = d.ok
      /\ p.tables = d.tables /\ p.columns = d.columns /\ p.json = d.json
      /\ p.bare = d.bare
      /\ p.types = d.types /\ p.keys = d.keys
      /\ p.rows["oauthClient"] = d.rows["oauthClient"] \cup d.rows[table]
      /\ \A t \in RowTables \ {"oauthClient"} : p.rows[t] = d.rows[t]
  BY <1>3, MoreClients
<1> HIDE DEF p
<1>5. p.rows[table] \subseteq p.rows["oauthClient"]
  BY <1>2, <1>4
<1>6. /\ r \in Database /\ Sound(r) /\ r.ok = p.ok /\ SameOwn(p, r)
      /\ ClientKey(table, "oauthClient") \in r.keys
      /\ \A k \in p.keys : k.table # table => k \in r.keys
      /\ r.tables = p.tables /\ r.types = p.types /\ r.columns = p.columns
      /\ r.json = p.json /\ r.rows = p.rows /\ r.bare = p.bare
  BY <1>4, <1>5, Repointed
<1> HIDE DEF r
<1> QED
  BY <1>1, <1>4, <1>6, SameOwnTwice

LEMMA RepointUp ==
  ASSUME NEW d, Good(d, 3)
  PROVE  LET r == Up(d, 4) IN Good(r, 4) /\ r.ok = d.ok
<1> DEFINE a == RepointBackfilled(d, "oauthAccessToken")
           r == RepointBackfilled(a, "oauthConsent")
<1>0. /\ d \in Database /\ Sound(d) /\ Recorded(d, 3)
      /\ AppTablesTogether(d, 3) /\ FitForPlugin(d, 3)
  BY DEF Good
<1>1. CASE "oauthClient" \notin d.tables
  <2>1. Up(d, 4) = d
    BY <1>1 DEF Up, Repoint
  <2>2. Recorded(d, 4)
    BY <1>0, OwnKept DEF SameOwn
  <2>3. AppTablesTogether(d, 4) /\ FitForPlugin(d, 4)
    BY <1>0, <1>1 DEF AppTablesTogether, FitForPlugin
  <2> QED
    BY <1>0, <2>1, <2>2, <2>3 DEF Good
<1>2. CASE "oauthClient" \in d.tables
  <2>0. Naming \subseteq d.tables
    BY <1>0, <1>2 DEF AppTablesTogether
  <2>1. Up(d, 4) = r
    BY <1>2 DEF Up, Repoint
  <2>2. /\ "oauthAccessToken" \in Naming /\ "oauthConsent" \in Naming
        /\ Naming = {"oauthAccessToken", "oauthConsent"}
        /\ {"oauthAccessToken", "oauthConsent", "oauthApplication"} \subseteq
             RowTables \ {"oauthClient"}
    BY DEF Naming, RowTables
  <2>3. /\ a \in Database /\ Sound(a) /\ a.ok = d.ok /\ SameOwn(d, a)
        /\ ClientKey("oauthAccessToken", "oauthClient") \in a.keys
        /\ a.tables = d.tables /\ a.columns = d.columns /\ a.json = d.json
        /\ a.bare = d.bare
        /\ a.rows["oauthClient"] =
             d.rows["oauthClient"] \cup d.rows["oauthAccessToken"]
        /\ \A t \in RowTables \ {"oauthClient"} : a.rows[t] = d.rows[t]
    BY <1>0, <1>2, <2>0, <2>2, Backfilled
  <2> HIDE DEF a
  <2>4. /\ r \in Database /\ Sound(r) /\ r.ok = a.ok /\ SameOwn(a, r)
        /\ ClientKey("oauthConsent", "oauthClient") \in r.keys
        /\ \A k \in a.keys : k.table # "oauthConsent" => k \in r.keys
        /\ r.tables = a.tables /\ r.columns = a.columns /\ r.json = a.json
        /\ r.bare = a.bare
        /\ r.rows["oauthClient"] =
             a.rows["oauthClient"] \cup a.rows["oauthConsent"]
        /\ \A t \in RowTables \ {"oauthClient"} : r.rows[t] = a.rows[t]
    BY <1>2, <2>0, <2>2, <2>3, Backfilled
  <2> HIDE DEF r
  <2>5. ClientKey("oauthAccessToken", "oauthClient") \in r.keys
    BY <2>2, <2>3, <2>4, ClientKeyFacts
  <2>6. Recorded(r, 4)
    <3>1. SameOwn(d, r)
      BY <2>3, <2>4, SameOwnTwice
    <3> QED
      BY <1>0, <3>1, OwnKept
  <2>7. AppTablesTogether(r, 4)
    BY <1>0, <2>3, <2>4 DEF AppTablesTogether
  <2>8. \A t \in Naming : /\ ClientKey(t, "oauthClient") \in r.keys
                          /\ r.rows[t] \subseteq r.rows["oauthClient"]
    BY <2>2, <2>3, <2>4, <2>5
  <2>9. FitForPlugin(r, 4)
    BY <1>0, <1>2, <2>2, <2>3, <2>4, <2>8 DEF FitForPlugin
  <2> QED
    BY <2>1, <2>3, <2>4, <2>6, <2>7, <2>9 DEF Good
<1> QED
  BY <1>1, <1>2

-----------------------------------------------------------------------------
(* The six migrations, down.                                               *)

KeysOf(d, table) == {k \in d.keys : k.table = table}

(* One table of the service with its keys goes.                            *)
LEMMA TableDown ==
  ASSUME NEW d, Good(d, 5) \/ Good(d, 6),
         NEW table \in LateTables, table \in d.tables
  PROVE  LET r == DropTables(DropKeys(d, KeysOf(d, table)), {table}) IN
         /\ r \in Database /\ Sound(r) /\ SameApp(d, r) /\ r.ok = d.ok
         /\ r.types = d.types /\ r.columns = d.columns
         /\ r.tables = d.tables \ {table} /\ r.keys = d.keys \ KeysOf(d, table)
<1> DEFINE keys == KeysOf(d, table)
           e == DropKeys(d, keys)
           r == DropTables(e, {table})
<1>0. keys = {k \in d.keys : k.table = table}
  BY DEF KeysOf
<1> HIDE DEF keys
<1>1. /\ d \in Database /\ Sound(d)
      /\ \A k \in d.keys : k.target # table
      /\ \A c \in d.columns : c[1] # table
      /\ table \notin AppTables /\ table \notin RowTables
      /\ keys \subseteq d.keys /\ keys \cap AppKeys = {}
      /\ \A k \in d.keys : k.table = table <=> k \in keys
  <2>1. d \in Database /\ Sound(d)
    BY DEF Good
  <2>2. \A k \in d.keys : k.target # table
    BY <2>1, KeyFacts, Fields, TableFacts DEF LateTables
  <2>3. \A c \in d.columns : c[1] # table
    BY <2>1, Fields, ColumnFacts DEF LateTables
  <2>4. keys \cap AppKeys = {}
    BY <1>0, KeyFacts, TableFacts
  <2> QED
    BY <1>0, <2>1, <2>2, <2>3, <2>4, TableFacts
<1>2. /\ e \in Database /\ e.keys = d.keys \ keys
      /\ e.ok = (d.ok /\ keys \subseteq d.keys)
      /\ e.tables = d.tables /\ e.types = d.types /\ e.columns = d.columns
      /\ e.json = d.json /\ e.rows = d.rows /\ e.bare = d.bare
  BY <1>1, DropKeysDoes
<1> HIDE DEF e
<1>3. /\ r \in Database /\ r.tables = e.tables \ {table}
      /\ r.keys = {k \in e.keys : k.table \notin {table}}
      /\ r.columns = {c \in e.columns : c[1] \notin {table}}
      /\ RowTables \cap {table} = {} => r.rows = e.rows
      /\ "oauthAccessToken" \notin {table} => r.bare = e.bare
      /\ r.types = e.types /\ r.json = e.json
  <2> DEFINE old == {table}
             q == DropTables(e, old)
  <2> HIDE DEF old
  <2>1. /\ q \in Database /\ q.tables = e.tables \ old
        /\ q.keys = {k \in e.keys : k.table \notin old}
        /\ q.columns = {c \in e.columns : c[1] \notin old}
        /\ RowTables \cap old = {} => q.rows = e.rows
        /\ "oauthAccessToken" \notin old => q.bare = e.bare
        /\ q.types = e.types /\ q.json = e.json
    BY <1>2, DropTablesDoes
  <2> QED
    BY <2>1 DEF old
<1>4. r.ok = d.ok
  <2>1. r.ok = e.ok
    BY <1>1, <1>2, DropTablesFine
  <2> QED
    BY <1>1, <1>2, <2>1, Fields
<1> HIDE DEF r
<1>5. r.keys = d.keys \ keys /\ r.tables = d.tables \ {table}
  BY <1>1, <1>2, <1>3
<1>6. r.columns = d.columns
  BY <1>1, <1>2, <1>3
<1>7. r.rows = d.rows /\ r.bare = d.bare
  BY <1>1, <1>2, <1>3, TableFacts DEF Naming
<1>8. Sound(r)
  BY <1>1, <1>5, <1>7 DEF Sound, Satisfied
<1>9. SameApp(d, r)
  BY <1>1, <1>2, <1>3, <1>5, <1>6, <1>7 DEF SameApp
<1> QED
  BY <1>2, <1>3, <1>4, <1>5, <1>6, <1>8, <1>9 DEF r, e, keys

LEMMA ResetsDown ==
  ASSUME NEW d, Good(d, 6)
  PROVE  LET r == Down(d, 6) IN Good(r, 5) /\ r.ok = d.ok
<1> DEFINE r == DropTables(DropKeys(d, ResetKeys), {"password_resets"})
<1>1. Down(d, 6) = r
  BY DEF Down, DropPasswordResets
<1>2. /\ "password_resets" \in d.tables /\ ResetKeys \subseteq d.keys
      /\ "password_resets" \in LateTables
  BY DEF Good, Recorded, At, LateTables
<1>3. KeysOf(d, "password_resets") = ResetKeys
  BY <1>2, KeyFacts, OwnerOfKey, Fields DEF Good, KeysOf
<1>4. /\ r \in Database /\ Sound(r) /\ SameApp(d, r) /\ r.ok = d.ok
      /\ r.types = d.types /\ r.columns = d.columns
      /\ r.tables = d.tables \ {"password_resets"} /\ r.keys = d.keys \ ResetKeys
  BY <1>2, <1>3, TableDown
<1> HIDE DEF r
<1>5. Recorded(r, 5)
  BY <1>4, OwnerOfKey, TableFacts DEF Good, Recorded, At, LateTables
<1> QED
  BY <1>1, <1>4, <1>5, AppKept DEF Good

LEMMA InvitesDown ==
  ASSUME NEW d, Good(d, 5)
  PROVE  LET r == Down(d, 5) IN Good(r, 4) /\ r.ok = d.ok
<1> DEFINE r == DropTables(DropKeys(d, InviteKeys), {"user_invites"})
<1>1. Down(d, 5) = r
  BY DEF Down, DropUserInvites
<1>2. /\ "user_invites" \in d.tables /\ InviteKeys \subseteq d.keys
      /\ "user_invites" \in LateTables
  BY DEF Good, Recorded, At, LateTables
<1>3. KeysOf(d, "user_invites") = InviteKeys
  BY <1>2, KeyFacts, OwnerOfKey, Fields DEF Good, KeysOf
<1>4. /\ r \in Database /\ Sound(r) /\ SameApp(d, r) /\ r.ok = d.ok
      /\ r.types = d.types /\ r.columns = d.columns
      /\ r.tables = d.tables \ {"user_invites"} /\ r.keys = d.keys \ InviteKeys
  BY <1>2, <1>3, TableDown
<1> HIDE DEF r
<1>5. Recorded(r, 4)
  BY <1>4, OwnerOfKey, TableFacts DEF Good, Recorded, At, LateTables
<1> QED
  BY <1>1, <1>4, <1>5, AppKept DEF Good

(* The keys go back exactly if no row names a client that is no            *)
(* application.                                                            *)
LEMMA RepointDown ==
  ASSUME NEW d, Good(d, 4), d.ok
  PROVE  LET r == Down(d, 4) IN
         /\ r.ok => Good(r, 3)
         /\ ~ r.ok => \E t \in Naming :
                        ~ d.rows[t] \subseteq d.rows["oauthApplication"]
<1> DEFINE a == RepointTo(d, "oauthAccessToken", "oauthApplication")
           r == RepointTo(a, "oauthConsent", "oauthApplication")
<1>0. /\ d \in Database /\ Sound(d) /\ Recorded(d, 4)
      /\ AppTablesTogether(d, 4) /\ FitForPlugin(d, 4)
  BY DEF Good
<1>1. CASE "oauthApplication" \notin d.tables
  <2>1. Down(d, 4) = d
    BY <1>1 DEF Down, Unrepoint
  <2>2. Recorded(d, 3)
    BY <1>0, OwnKept DEF SameOwn
  <2>3. AppTablesTogether(d, 3) /\ FitForPlugin(d, 3)
    BY <1>0 DEF AppTablesTogether, FitForPlugin
  <2> QED
    BY <1>0, <2>1, <2>2, <2>3 DEF Good
<1>2. CASE "oauthApplication" \in d.tables
  <2>0. /\ Naming \subseteq d.tables
        /\ "oauthAccessToken" \in Naming /\ "oauthConsent" \in Naming
    BY <1>0, <1>2 DEF AppTablesTogether, Naming
  <2>1. /\ a \in Database
        /\ d.rows["oauthAccessToken"] \subseteq d.rows["oauthApplication"] =>
             Sound(a) /\ a.ok = d.ok
        /\ a.ok => d.rows["oauthAccessToken"] \subseteq d.rows["oauthApplication"]
        /\ SameOwn(d, a) /\ a.tables = d.tables /\ a.columns = d.columns
        /\ a.json = d.json /\ a.rows = d.rows /\ a.bare = d.bare
    BY <1>0, <1>2, <2>0, Repointed
  <2>2. Down(d, 4) = r
    BY <1>2, <2>0, <2>1 DEF Down, Unrepoint, RepointTable
  <2>3. r.ok => a.ok
    BY <2>1 DEF RepointTo, AddKeys, DropKeysOf, DropKeys, Database
  <2> HIDE DEF a
  <2>4. CASE ~ d.rows["oauthAccessToken"] \subseteq d.rows["oauthApplication"]
    BY <2>0, <2>1, <2>2, <2>3, <2>4
  <2>5. CASE d.rows["oauthAccessToken"] \subseteq d.rows["oauthApplication"]
    <3>1. /\ r \in Database
          /\ a.rows["oauthConsent"] \subseteq a.rows["oauthApplication"] =>
               Sound(r) /\ r.ok = a.ok
          /\ r.ok => a.rows["oauthConsent"] \subseteq a.rows["oauthApplication"]
          /\ SameOwn(a, r) /\ r.tables = a.tables /\ r.columns = a.columns
          /\ r.json = a.json /\ r.rows = a.rows /\ r.bare = a.bare
      BY <1>2, <2>0, <2>1, <2>5, Repointed
    <3> HIDE DEF r
    <3>2. ~ r.ok => ~ d.rows["oauthConsent"] \subseteq d.rows["oauthApplication"]
      BY <2>1, <2>5, <3>1
    <3>3. Recorded(r, 3)
      <4>1. SameOwn(d, r)
        BY <2>1, <3>1, SameOwnTwice
      <4> QED
        BY <1>0, <4>1, OwnKept
    <3>4. AppTablesTogether(r, 3) /\ FitForPlugin(r, 3)
      BY <1>0, <2>1, <3>1 DEF AppTablesTogether, FitForPlugin
    <3>5. r.ok => Sound(r)
      BY <2>1, <3>1
    <3> QED
      BY <2>0, <2>2, <3>1, <3>2, <3>3, <3>4, <3>5 DEF Good
  <2> QED
    BY <2>4, <2>5
<1> QED
  BY <1>1, <1>2

(* A table that nothing refers to goes, with its keys.                     *)
LEMMA TableDropped ==
  ASSUME NEW d \in Database, Sound(d),
         NEW table \in {"oauthRefreshToken", "oauthClient"},
         \A k \in d.keys : k.target # table,
         \A k \in d.keys : ~ (k.column = "clientId" /\ k.table \in Naming)
  PROVE  LET r == DropIfExists(d, table) IN
         /\ r \in Database /\ Sound(r) /\ r.ok = d.ok /\ SameOwn(d, r)
         /\ r.tables = d.tables \ {table}
         /\ r.keys = {k \in d.keys : k.table # table}
         /\ r.columns = d.columns /\ r.json = d.json /\ r.bare = d.bare
<1> DEFINE r == DropTables(d, {table})
<1>0. table \in AppTables
  BY TableFacts
<1>1. CASE table \notin d.tables
  <2>1. DropIfExists(d, table) = d
    BY <1>1 DEF DropIfExists
  <2>2. \A k \in d.keys : k.table # table
    BY <1>1 DEF Sound
  <2>3. d.tables = d.tables \ {table} /\ d.keys = {k \in d.keys : k.table # table}
    BY <1>1, <2>2
  <2> QED
    BY <2>1, <2>3 DEF SameOwn
<1>2. CASE table \in d.tables
  <2>1. DropIfExists(d, table) = r
    BY <1>2 DEF DropIfExists
  <2>2. /\ r \in Database /\ r.tables = d.tables \ {table}
        /\ r.keys = {k \in d.keys : k.table \notin {table}}
        /\ r.columns = {c \in d.columns : c[1] \notin {table}}
        /\ \A t \in RowTables :
             r.rows[t] = IF t \in {table} THEN {} ELSE d.rows[t]
        /\ r.types = d.types /\ r.json = d.json /\ r.bare = d.bare
    BY DropTablesDoes
  <2>3. r.ok = d.ok
    BY <1>2, DropTablesFine
  <2> HIDE DEF r
  <2>4. r.columns = d.columns
    <3>1. \A c \in d.columns : c[1] # table
      BY Fields, ColumnFacts
    <3> QED
      BY <2>2, <3>1
  <2>5. Sound(r)
    <3>1. r.bare \subseteq r.rows["oauthAccessToken"]
      BY <2>2, TableFacts DEF Sound, Naming
    <3> QED
      BY <2>2, <3>1 DEF Sound, Satisfied
  <2>6. SameOwn(d, r)
    <3>1. r.tables \ AppTables = d.tables \ AppTables
      BY <1>0, <2>2
    <3>2. r.keys \ AppKeys = d.keys \ AppKeys
      BY <1>0, <2>2, OwnerOfKey, Fields
    <3> QED
      BY <2>2, <2>4, <3>1, <3>2 DEF SameOwn
  <2> QED
    BY <2>1, <2>2, <2>3, <2>4, <2>5, <2>6
<1> QED
  BY <1>1, <1>2

LEMMA AlignDown ==
  ASSUME NEW d, Good(d, 3)
  PROVE  LET r == Down(d, 3) IN Good(r, 2) /\ r.ok = d.ok
<1> DEFINE gone == {"refreshId", "sessionId", "clientId"}
           a == DropKeysOf(d, "oauthAccessToken", gone)
           b == [a EXCEPT !.columns = @ \ {NewValue}, !.json = @ \ {"oauthAccessToken"}]
           c == DropKeysOf(b, "oauthConsent", {"clientId"})
           e == [c EXCEPT !.json = @ \ {"oauthConsent"}]
           f == DropIfExists(e, "oauthRefreshToken")
           r == DropIfExists(f, "oauthClient")
<1>0. /\ d \in Database /\ Sound(d) /\ Recorded(d, 3)
      /\ AppTablesTogether(d, 3)
      /\ "oauthAccessToken" \in AppTables /\ "oauthConsent" \in AppTables
      /\ Naming = {"oauthAccessToken", "oauthConsent"}
  BY TableFacts DEF Good, Naming
<1>1. Down(d, 3) = r
  BY DEF Down, Unalign, UnalignConsents, UnalignAccessTokens
<1>2. /\ a \in Database /\ Sound(a) /\ SameOwn(d, a) /\ a.ok = d.ok
      /\ a.keys = {k \in d.keys : ~ (k.table = "oauthAccessToken" /\ k.column \in gone)}
      /\ a.tables = d.tables /\ a.types = d.types /\ a.columns = d.columns
      /\ a.json = d.json /\ a.rows = d.rows /\ a.bare = d.bare
  BY <1>0, DropColumnKeys
<1> HIDE DEF a
<1>3. /\ b \in Database /\ b.ok = a.ok /\ b.keys = a.keys
      /\ b.tables = a.tables /\ b.types = a.types
      /\ b.columns = a.columns \ {NewValue} /\ b.rows = a.rows
      /\ b.bare = a.bare
  BY <1>2 DEF Database
<1> HIDE DEF b
<1>4. Sound(b) /\ SameOwn(a, b)
  BY <1>2, <1>3 DEF Sound, Satisfied, SameOwn
<1>5. /\ c \in Database /\ Sound(c) /\ SameOwn(b, c) /\ c.ok = b.ok
      /\ c.keys = {k \in b.keys : ~ (k.table = "oauthConsent" /\ k.column \in {"clientId"})}
      /\ c.tables = b.tables /\ c.types = b.types /\ c.columns = b.columns
      /\ c.json = b.json /\ c.rows = b.rows /\ c.bare = b.bare
  BY <1>0, <1>3, <1>4, DropColumnKeys
<1> HIDE DEF c
<1>6. /\ e \in Database /\ e.ok = c.ok /\ e.keys = c.keys
      /\ e.tables = c.tables /\ e.types = c.types /\ e.columns = c.columns
      /\ e.rows = c.rows /\ e.bare = c.bare
  BY <1>5 DEF Database
<1> HIDE DEF e
<1>7. Sound(e) /\ SameOwn(c, e)
  BY <1>5, <1>6 DEF Sound, Satisfied, SameOwn
<1>8. \A k \in e.keys :
        /\ k \in d.keys
        /\ ~ (k.column = "clientId" /\ k.table \in Naming)
        /\ k.target # "oauthRefreshToken"
        /\ k.target = "oauthClient" => k.table = "oauthRefreshToken"
  <2> SUFFICES ASSUME NEW k \in e.keys
               PROVE  /\ k \in d.keys
                      /\ ~ (k.column = "clientId" /\ k.table \in Naming)
                      /\ k.target # "oauthRefreshToken"
                      /\ k.target = "oauthClient" => k.table = "oauthRefreshToken"
    OBVIOUS
  <2>1. /\ k \in d.keys
        /\ ~ (k.table = "oauthAccessToken" /\ k.column \in gone)
        /\ ~ (k.table = "oauthConsent" /\ k.column = "clientId")
    BY <1>2, <1>3, <1>5, <1>6
  <2>2. ~ (k.column = "clientId" /\ k.table \in Naming)
    BY <1>0, <2>1
  <2>3. k \in AppKeys \/ k.target \notin AppTables
    BY <1>0, <2>1, OwnerOfKey, Fields
  <2>4. "oauthRefreshToken" \in AppTables /\ "oauthClient" \in AppTables
    BY TableFacts
  <2> QED
    BY <2>1, <2>2, <2>3, <2>4, AppKeyFacts
<1>9. /\ f \in Database /\ Sound(f) /\ f.ok = e.ok /\ SameOwn(e, f)
      /\ f.tables = e.tables \ {"oauthRefreshToken"}
      /\ f.keys = {k \in e.keys : k.table # "oauthRefreshToken"}
      /\ f.columns = e.columns
  BY <1>6, <1>7, <1>8, TableDropped
<1> HIDE DEF f
<1>10. \A k \in f.keys :
         k.target # "oauthClient" /\ ~ (k.column = "clientId" /\ k.table \in Naming)
  BY <1>8, <1>9
<1>11. /\ r \in Database /\ Sound(r) /\ r.ok = f.ok /\ SameOwn(f, r)
       /\ r.tables = f.tables \ {"oauthClient"}
       /\ r.columns = f.columns
  BY <1>9, <1>10, TableDropped
<1> HIDE DEF r
<1>12. SameOwn(d, r)
  BY <1>2, <1>4, <1>5, <1>7, <1>9, <1>11, SameOwnTwice
<1>13. Recorded(r, 2)
  BY <1>0, <1>12, OwnKept
<1>14. /\ r.tables = d.tables \ {"oauthRefreshToken", "oauthClient"}
       /\ NewValue \notin r.columns /\ r.ok = d.ok
  BY <1>2, <1>3, <1>5, <1>6, <1>9, <1>11
<1>15. AppTablesTogether(r, 2) /\ FitForPlugin(r, 2)
  BY <1>0, <1>14 DEF AppTablesTogether, FitForPlugin
<1> QED
  BY <1>1, <1>11, <1>13, <1>14, <1>15 DEF Good

LEMMA CiphertextDown ==
  ASSUME NEW d, Good(d, 2)
  PROVE  LET r == Down(d, 2) IN Good(r, 1) /\ r.ok = d.ok
<1> DEFINE r == DropCiphertext(d)
<1>1. Down(d, 2) = r
  BY DEF Down
<1>2. d \in Database /\ Ciphertext \in d.columns
  BY DEF Good, Recorded, At
<1>3. /\ r \in Database /\ r.types = d.types /\ r.tables = d.tables
      /\ r.keys = d.keys /\ r.columns = d.columns \ {Ciphertext}
      /\ r.json = d.json /\ r.rows = d.rows /\ r.bare = d.bare
      /\ r.ok = (d.ok /\ Ciphertext \in d.columns)
  BY <1>2 DEF DropCiphertext, Database
<1>4. r.ok = d.ok
  BY <1>2, <1>3, Fields
<1> HIDE DEF r
<1>5. Recorded(r, 1)
  BY <1>3, ColumnFacts DEF Good, Recorded, At
<1>6. Sound(r)
  BY <1>3 DEF Good, Sound, Satisfied
<1>7. SameApp(d, r)
  BY <1>3, ColumnFacts DEF SameApp
<1> QED
  BY <1>1, <1>3, <1>4, <1>5, <1>6, <1>7, AppKept DEF Good

LEMMA FoundationDown ==
  ASSUME NEW d, Good(d, 1)
  PROVE  LET r == Down(d, 1) IN Good(r, 0) /\ r.ok = d.ok
<1> DEFINE a == DropKeys(d, OwnKeys)
           b == DropTables(a, OwnTables)
           r == DropTypes(b, OwnTypes)
<1>1. Down(d, 1) = r
  BY DEF Down, DropFoundation
<1>2. /\ d \in Database /\ Sound(d) /\ d.types = OwnTypes
      /\ d.tables \ AppTables = OwnTables /\ d.keys \ AppKeys = OwnKeys
      /\ d.columns \subseteq {OldValue, NewValue}
  BY Fields DEF Good, Recorded, At
<1>3. /\ a \in Database /\ a.keys = d.keys \ OwnKeys
      /\ a.ok = (d.ok /\ OwnKeys \subseteq d.keys)
      /\ a.tables = d.tables /\ a.types = d.types /\ a.columns = d.columns
      /\ a.json = d.json /\ a.rows = d.rows /\ a.bare = d.bare
  BY <1>2, DropKeysDoes
<1> HIDE DEF a
<1>4. a.ok = d.ok /\ a.keys \subseteq AppKeys
  BY <1>2, <1>3, Fields
<1>5. /\ b \in Database /\ b.tables = a.tables \ OwnTables
      /\ b.keys = {k \in a.keys : k.table \notin OwnTables}
      /\ b.columns = {c \in a.columns : c[1] \notin OwnTables}
      /\ RowTables \cap OwnTables = {} => b.rows = a.rows
      /\ "oauthAccessToken" \notin OwnTables => b.bare = a.bare
      /\ b.types = a.types /\ b.json = a.json
  BY <1>3, DropTablesDoes
<1>6. b.ok = d.ok
  <2>1. \A k \in a.keys : k.target \in OwnTables => k.table \in OwnTables
    BY <1>4, KeyFacts, TableFacts
  <2>2. OwnTables \subseteq a.tables
    BY <1>2, <1>3
  <2> QED
    BY <1>3, <1>4, <2>1, <2>2, DropTablesFine
<1> HIDE DEF b
<1>7. /\ b.keys = d.keys \cap AppKeys /\ b.tables = d.tables \cap AppTables
      /\ b.columns = d.columns /\ b.rows = d.rows /\ b.bare = d.bare
  <2>1. b.keys = d.keys \cap AppKeys
    BY <1>2, <1>3, <1>4, <1>5, KeyFacts, TableFacts, OwnerOfKey
  <2>2. b.tables = d.tables \cap AppTables
    BY <1>2, <1>3, <1>5, TableFacts
  <2>3. b.columns = d.columns
    <3>1. \A c \in d.columns : c[1] = "oauthAccessToken"
      BY <1>2, ColumnFacts
    <3>2. "oauthAccessToken" \notin OwnTables
      BY TableFacts
    <3> QED
      BY <1>3, <1>5, <3>1, <3>2
  <2>4. b.rows = d.rows /\ b.bare = d.bare
    BY <1>3, <1>5, TableFacts
  <2> QED
    BY <2>1, <2>2, <2>3, <2>4
<1>8. /\ r \in Database /\ r.types = b.types \ OwnTypes
      /\ r.tables = b.tables /\ r.keys = b.keys /\ r.columns = b.columns
      /\ r.json = b.json /\ r.rows = b.rows /\ r.bare = b.bare
  BY <1>5, DropTypesDoes
<1>9. r.ok = d.ok
  <2>1. b.tables \cap DOMAIN TypesOf = {}
    BY <1>7, TableFacts
  <2> QED
    BY <1>5, <1>6, <2>1, DropTypesFine
<1> HIDE DEF r
<1>10. Recorded(r, 0)
  BY <1>2, <1>3, <1>5, <1>7, <1>8 DEF Recorded, At
<1>11. Sound(r)
  <2>1. \A k \in r.keys : {k.table, k.target} \subseteq r.tables /\ Satisfied(r, k)
    BY <1>2, <1>7, <1>8, KeyFacts DEF Sound, Satisfied
  <2>2. \A t \in RowTables : t \in r.tables \/ r.rows[t] = {}
    BY <1>2, <1>7, <1>8, TableFacts DEF Sound
  <2>3. r.bare \subseteq r.rows["oauthAccessToken"]
    BY <1>2, <1>3, <1>5, <1>8, TableFacts DEF Sound
  <2> QED
    BY <2>1, <2>2, <2>3 DEF Sound
<1>12. SameApp(d, r)
  BY <1>3, <1>5, <1>7, <1>8 DEF SameApp
<1> QED
  BY <1>1, <1>8, <1>9, <1>10, <1>11, <1>12, AppKept DEF Good

-----------------------------------------------------------------------------
(* The steps.                                                              *)

LEMMA GoodIsSound == SchemaSound <=> /\ Good(db, applied)
                                     /\ applied \in 0..6 /\ db.ok
BY DEF SchemaSound, SchemaTypeOK, Good

(* A run applies what is pending: it fails only in the alignment.          *)
LEMMA RunDoes ==
  ASSUME Good(db, applied), applied \in 0..5, db.ok
  PROVE  /\ Good(AfterRun, 6)
         /\ ~ AfterRun.ok => /\ applied < 3 /\ "oauthAccessToken" \in db.tables
                             /\ ~ Fillable(db)
<1> DEFINE d1 == Pending(db, 1)
           d2 == Pending(d1, 2)
           d3 == Pending(d2, 3)
           d4 == Pending(d3, 4)
           d5 == Pending(d4, 5)
           d6 == Pending(d5, 6)
<1>1. AfterRun = d6
  BY DEF AfterRun
<1>2. /\ d1 = IF applied < 1 THEN Up(db, 1) ELSE db
      /\ d2 = IF applied < 2 THEN Up(d1, 2) ELSE d1
      /\ d3 = IF applied < 3 THEN Up(d2, 3) ELSE d2
      /\ d4 = IF applied < 4 THEN Up(d3, 4) ELSE d3
      /\ d5 = IF applied < 5 THEN Up(d4, 5) ELSE d4
      /\ d6 = IF applied < 6 THEN Up(d5, 6) ELSE d5
  BY DEF Pending
<1> HIDE DEF d1, d2, d3, d4, d5, d6
<1>3. applied \in {0, 1, 2, 3, 4, 5}
  OBVIOUS
<1>4. /\ applied < 2 => Good(d1, 1) /\ SameApp(db, d1) /\ d1.ok
      /\ applied >= 1 => d1 = db
  <2>1. CASE applied = 0
    BY <1>2, <2>1, FoundationUp
  <2>2. CASE applied # 0
    BY <1>2, <1>3, <2>2 DEF SameApp
  <2> QED
    BY <1>3, <2>1, <2>2
<1>5. /\ applied < 3 => Good(d2, 2) /\ SameApp(db, d2) /\ d2.ok
      /\ applied >= 2 => d2 = db
  <2>1. CASE applied < 2
    <3>1. Good(d2, 2) /\ SameApp(d1, d2) /\ d2.ok
      BY <1>2, <1>4, <2>1, CiphertextUp
    <3> QED
      BY <1>3, <1>4, <2>1, <3>1 DEF SameApp
  <2>2. CASE applied >= 2
    BY <1>2, <1>3, <1>4, <2>2 DEF SameApp
  <2> QED
    BY <1>3, <2>1, <2>2
<1>6. /\ applied < 4 => Good(d3, 3)
      /\ ~ d3.ok => /\ applied < 3 /\ "oauthAccessToken" \in db.tables
                    /\ ~ Fillable(db)
      /\ applied >= 3 => d3 = db
  <2>1. CASE applied < 3
    <3>1. /\ Good(d3, 3)
          /\ "oauthAccessToken" \in d2.tables =>
               d3.ok = (d2.ok /\ Fillable(d2))
          /\ "oauthAccessToken" \notin d2.tables => d3.ok = d2.ok
      BY <1>2, <1>5, <2>1, AlignUp
    <3>2. /\ "oauthAccessToken" \in d2.tables <=> "oauthAccessToken" \in db.tables
          /\ Fillable(d2) <=> Fillable(db)
      BY <1>5, <2>1, TableFacts DEF SameApp, Fillable
    <3>3. ~ d3.ok => /\ applied < 3 /\ "oauthAccessToken" \in db.tables
                     /\ ~ Fillable(db)
      BY <1>5, <2>1, <3>1, <3>2
    <3> QED
      BY <1>3, <2>1, <3>1, <3>3
  <2>2. CASE applied >= 3
    BY <1>2, <1>3, <1>5, <2>2
  <2> QED
    BY <1>3, <2>1, <2>2
<1>7. /\ applied < 5 => Good(d4, 4)
      /\ ~ d4.ok => ~ d3.ok
      /\ applied >= 4 => d4 = db
  <2>1. CASE applied < 4
    BY <1>2, <1>3, <1>6, <2>1, RepointUp
  <2>2. CASE applied >= 4
    BY <1>2, <1>3, <1>6, <2>2
  <2> QED
    BY <1>3, <2>1, <2>2
<1>8. /\ applied < 6 => Good(d5, 5)
      /\ ~ d5.ok => ~ d4.ok
  <2>1. CASE applied < 5
    BY <1>2, <1>3, <1>7, <2>1, InvitesUp
  <2>2. CASE applied >= 5
    BY <1>2, <1>3, <1>7, <2>2
  <2> QED
    BY <1>3, <2>1, <2>2
<1>9. Good(d6, 6) /\ (~ d6.ok => ~ d5.ok)
  BY <1>2, <1>3, <1>8, ResetsUp
<1> QED
  BY <1>1, <1>6, <1>7, <1>8, <1>9

(* A revert fails only when the clients' keys cannot go back.              *)
LEMMA RevertDoes ==
  ASSUME Good(db, applied), applied \in 1..6, db.ok
  PROVE  /\ AfterRevert.ok => Good(AfterRevert, applied - 1)
         /\ ~ AfterRevert.ok =>
              /\ applied = 4
              /\ \E t \in Naming :
                   ~ db.rows[t] \subseteq db.rows["oauthApplication"]
<1> DEFINE r == AfterRevert
<1>1. r = Down(db, applied)
  BY DEF AfterRevert
<1> SUFFICES /\ r.ok => Good(r, applied - 1)
             /\ ~ r.ok => /\ applied = 4
                          /\ \E t \in Naming :
                               ~ db.rows[t] \subseteq db.rows["oauthApplication"]
  BY DEF r
<1> HIDE DEF r
<1>2. CASE applied = 1
  BY <1>1, <1>2, FoundationDown
<1>3. CASE applied = 2
  BY <1>1, <1>3, CiphertextDown
<1>4. CASE applied = 3
  BY <1>1, <1>4, AlignDown
<1>5. CASE applied = 4
  BY <1>1, <1>5, RepointDown
<1>6. CASE applied = 5
  BY <1>1, <1>6, InvitesDown
<1>7. CASE applied = 6
  BY <1>1, <1>7, ResetsDown
<1> QED
  BY <1>2, <1>3, <1>4, <1>5, <1>6, <1>7

(* better-auth:schema completes what is there.                             *)
LEMMA Materialized ==
  ASSUME SchemaSound, Materialize
  PROVE  SchemaSound'
<1> DEFINE missing == PluginTables \ db.tables
           new == {k \in PluginKeys : k.table \in missing}
           b == CreateTables(db, missing)
           c == AddKeys(b, new)
           r == [c EXCEPT !.columns = @ \cup {NewValue},
                          !.json = @ \cup (missing \cap Naming)]
<1>0. /\ db \in Database /\ Sound(db) /\ Recorded(db, applied)
      /\ AppTablesTogether(db, applied) /\ FitForPlugin(db, applied)
      /\ applied \in 0..6 /\ db.ok
  BY DEF SchemaSound, SchemaTypeOK
<1>1. db' = r /\ applied' = applied
  BY DEF Materialize
<1>2. /\ missing \subseteq SchemaTables /\ missing \cap db.tables = {}
      /\ missing \cup (PluginTables \cap db.tables) = PluginTables
      /\ PluginTables \subseteq AppTables /\ missing \subseteq PluginTables
      /\ db.tables \cup missing = db.tables \cup PluginTables
  BY DEF SchemaTables, AppTables
<1>3. /\ new \subseteq AppKeys /\ new \subseteq ForeignKeys
      /\ \A k \in new : k.table \in missing /\ k.target \in PluginTables
  <2>1. \A k \in PluginKeys : k.target \in PluginTables
    BY DEF PluginKeys, RefreshTokenKeys, AccessTokenKeys, ForeignKey, ClientKey,
           PluginTables
  <2> QED
    BY <2>1 DEF AppKeys, ForeignKeys
<1>4. \A t \in Naming : t \in missing => ClientKey(t, "oauthClient") \in new
  BY ClientKeyFacts DEF PluginKeys
<1> HIDE DEF new, missing
<1>5. /\ b \in Database /\ b.tables = db.tables \cup missing
      /\ b.types = db.types /\ b.keys = db.keys /\ b.columns = db.columns
      /\ b.json = db.json /\ b.rows = db.rows /\ b.bare = db.bare
  BY <1>0, <1>2, CreateTablesDoes
<1>6. b.ok = db.ok
  BY <1>0, <1>2, CreateTablesFine
<1> HIDE DEF b
<1>7. /\ c \in Database /\ c.keys = b.keys \cup new
      /\ c.tables = b.tables /\ c.types = b.types /\ c.columns = b.columns
      /\ c.json = b.json /\ c.rows = b.rows /\ c.bare = b.bare
  BY <1>3, <1>5, AddKeysDoes
<1>8. \A k \in new : /\ {k.table, k.target} \subseteq b.tables
                     /\ Satisfied(b, k)
                     /\ \A o \in b.keys : o.table # k.table
  <2> SUFFICES ASSUME NEW k \in new
               PROVE  /\ {k.table, k.target} \subseteq b.tables
                      /\ Satisfied(b, k)
                      /\ \A o \in b.keys : o.table # k.table
    OBVIOUS
  <2>1. k.table \in missing /\ k.target \in PluginTables
    BY <1>3
  <2>2. {k.table, k.target} \subseteq b.tables
    BY <1>2, <1>5, <2>1
  <2>3. Satisfied(b, k)
    BY <1>0, <1>2, <1>5, <2>1, TableFacts DEF Satisfied, Sound
  <2>4. \A o \in b.keys : o.table # k.table
    BY <1>0, <1>2, <1>5, <2>1 DEF Sound
  <2> QED
    BY <2>2, <2>3, <2>4
<1>9. c.ok = b.ok
  BY <1>5, <1>8, AddKeysFine
<1> HIDE DEF c
<1>10. /\ r \in Database /\ r.tables = c.tables /\ r.types = c.types
       /\ r.keys = c.keys /\ r.rows = c.rows
       /\ r.bare = c.bare /\ r.ok = c.ok
       /\ r.columns = c.columns \cup {NewValue}
       /\ r.json = c.json \cup (missing \cap Naming)
  BY <1>7 DEF Database
<1> HIDE DEF r
<1>11. /\ r.tables = db.tables \cup PluginTables /\ r.keys = db.keys \cup new
       /\ r.types = db.types /\ r.rows = db.rows /\ r.bare = db.bare /\ r.ok
       /\ r.columns = db.columns \cup {NewValue}
       /\ r.json = db.json \cup (missing \cap Naming)
  BY <1>0, <1>2, <1>5, <1>6, <1>7, <1>9, <1>10
<1>12. Recorded(r, applied)
  <2>1. SameOwn(db, r)
    BY <1>2, <1>3, <1>11 DEF SameOwn
  <2> QED
    BY <1>0, <2>1, OwnKept
<1>13. Sound(r)
  <2>1. \A k \in db.keys : {k.table, k.target} \subseteq r.tables /\ Satisfied(r, k)
    BY <1>0, <1>11 DEF Sound, Satisfied
  <2>2. \A k \in new : {k.table, k.target} \subseteq r.tables /\ Satisfied(r, k)
    BY <1>2, <1>5, <1>8, <1>11 DEF Satisfied
  <2>3. \A t \in RowTables : t \in r.tables \/ r.rows[t] = {}
    BY <1>0, <1>11 DEF Sound
  <2>4. r.bare \subseteq r.rows["oauthAccessToken"]
    BY <1>0, <1>11 DEF Sound
  <2> QED
    BY <1>11, <2>1, <2>2, <2>3, <2>4 DEF Sound
<1>14. AppTablesTogether(r, applied)
  BY <1>11 DEF AppTablesTogether, PluginTables, Naming
<1>15. FitForPlugin(r, applied)
  <2> SUFFICES ASSUME applied >= 3 PROVE FitForPlugin(r, applied)
    BY DEF FitForPlugin
  <2>1. CASE "oauthClient" \in db.tables
    <3>1. /\ Naming \subseteq db.json
          /\ db.rows["oauthApplication"] \subseteq db.rows["oauthClient"]
          /\ applied >= 4 => \A t \in Naming :
               /\ ClientKey(t, "oauthClient") \in db.keys
               /\ db.rows[t] \subseteq db.rows["oauthClient"]
      BY <1>0, <2>1 DEF FitForPlugin
    <3> QED
      BY <1>11, <3>1 DEF FitForPlugin
  <2>2. CASE "oauthClient" \notin db.tables
    <3>1. /\ Naming \cap db.tables = {} /\ "oauthApplication" \notin db.tables
      BY <1>0, <2>2 DEF AppTablesTogether
    <3>2. Naming \subseteq missing
      BY <3>1 DEF missing, PluginTables
    <3>3. /\ \A t \in Naming : db.rows[t] = {}
          /\ db.rows["oauthApplication"] = {}
      BY <1>0, <3>1, TableFacts DEF Sound, RowTables
    <3> QED
      BY <1>4, <1>11, <3>2, <3>3 DEF FitForPlugin
  <2> QED
    BY <2>1, <2>2
<1>16. Good(db', applied') /\ applied' \in 0..6 /\ db'.ok
  BY <1>0, <1>1, <1>10, <1>11, <1>12, <1>13, <1>14, <1>15 DEF Good
<1> QED
  BY <1>16 DEF Good, SchemaSound, SchemaTypeOK

LEMMA Registered ==
  ASSUME SchemaSound, NEW c \in ClientId, Register(c)
  PROVE  SchemaSound'
<1> DEFINE r == AddRows(db, "oauthClient", {c})
<1>0. /\ db \in Database /\ Sound(db) /\ Recorded(db, applied)
      /\ AppTablesTogether(db, applied) /\ FitForPlugin(db, applied)
      /\ applied \in 0..6 /\ db.ok
  BY DEF SchemaSound, SchemaTypeOK
<1>1. db' = r /\ applied' = applied /\ "oauthClient" \in db.tables
  BY DEF Register
<1>2. /\ r \in Database /\ Sound(r) /\ SameOwn(db, r) /\ r.ok = db.ok
      /\ r.tables = db.tables /\ r.columns = db.columns /\ r.json = db.json
      /\ r.bare = db.bare
      /\ r.types = db.types /\ r.keys = db.keys
      /\ r.rows["oauthClient"] = db.rows["oauthClient"] \cup {c}
      /\ \A t \in RowTables \ {"oauthClient"} : r.rows[t] = db.rows[t]
  <2>1. {c} \in SUBSET ClientId
    OBVIOUS
  <2> QED
    BY <1>0, <1>1, <2>1, MoreClients
<1> HIDE DEF r
<1>3. Recorded(r, applied)
  BY <1>0, <1>2, OwnKept
<1>4. AppTablesTogether(r, applied) /\ FitForPlugin(r, applied)
  BY <1>0, <1>2 DEF AppTablesTogether, FitForPlugin, Naming, RowTables
<1>5. Good(db', applied') /\ applied' \in 0..6 /\ db'.ok
  BY <1>0, <1>1, <1>2, <1>3, <1>4 DEF Good
<1> QED
  BY <1>5 DEF Good, SchemaSound, SchemaTypeOK

LEMMA Granted ==
  ASSUME SchemaSound, NEW c \in ClientId, NEW t \in Naming, Grant(c, t)
  PROVE  SchemaSound'
<1> DEFINE a == AddRows(db, t, {c})
           r == [a EXCEPT !.bare = IF t = "oauthAccessToken" THEN @ \cup {c} ELSE @]
<1>0. /\ db \in Database /\ Sound(db) /\ Recorded(db, applied)
      /\ AppTablesTogether(db, applied) /\ FitForPlugin(db, applied)
      /\ applied \in 0..6 /\ db.ok
  BY DEF SchemaSound, SchemaTypeOK
<1>1. /\ db' = r /\ applied' = applied /\ NewValue \in db.columns
      /\ c \in db.rows["oauthClient"]
      /\ \A k \in db.keys : Satisfied(r, k)
  BY DEF Grant
<1>2. t \in RowTables /\ t # "oauthClient" /\ t # "oauthApplication"
  BY DEF Naming, RowTables
<1>a. /\ a \in Database
      /\ a.rows[t] = db.rows[t] \cup {c}
      /\ \A u \in RowTables \ {t} : a.rows[u] = db.rows[u]
      /\ a.tables = db.tables /\ a.types = db.types /\ a.keys = db.keys
      /\ a.columns = db.columns /\ a.json = db.json
      /\ a.bare = db.bare /\ a.ok = db.ok
  BY <1>0, <1>2, AddRowsDoes
<1> HIDE DEF a
<1>3. /\ r \in Database
      /\ r.rows[t] = db.rows[t] \cup {c}
      /\ \A u \in RowTables \ {t} : r.rows[u] = db.rows[u]
      /\ r.tables = db.tables /\ r.types = db.types /\ r.keys = db.keys
      /\ r.columns = db.columns /\ r.json = db.json
      /\ r.bare = (IF t = "oauthAccessToken" THEN db.bare \cup {c} ELSE db.bare)
      /\ r.ok = db.ok
  BY <1>a DEF Database
<1> HIDE DEF r
<1>4. t \in db.tables
  BY <1>0, <1>1 DEF AppTablesTogether, Naming
<1>5. Sound(r)
  <2>1. r.bare \subseteq r.rows["oauthAccessToken"]
    BY <1>0, <1>2, <1>3 DEF Sound, RowTables, Naming
  <2> QED
    BY <1>0, <1>1, <1>3, <1>4, <2>1 DEF Sound
<1>6. Recorded(r, applied)
  BY <1>0, <1>3, OwnKept DEF SameOwn
<1>7. AppTablesTogether(r, applied)
  BY <1>0, <1>3 DEF AppTablesTogether
<1>8. FitForPlugin(r, applied)
  BY <1>0, <1>1, <1>2, <1>3 DEF FitForPlugin, Naming, RowTables
<1>9. Good(db', applied') /\ applied' \in 0..6 /\ db'.ok
  BY <1>0, <1>1, <1>3, <1>5, <1>6, <1>7, <1>8 DEF Good
<1> QED
  BY <1>9 DEF Good, SchemaSound, SchemaTypeOK

LEMMA SchemaStarts == SchemaInit => SchemaSound
<1>0. OldValue[1] = "oauthAccessToken" /\ OldValue # Ciphertext /\ OldValue # NewValue
  BY ColumnFacts
<1>1. ASSUME applied = 0, db = Empty
      PROVE  SchemaSound
  <2>1. /\ db.tables = {} /\ db.types = {} /\ db.keys = {} /\ db.columns = {}
        /\ db.json = {} /\ db.rows = [t \in RowTables |-> {}] /\ db.ok = TRUE
        /\ db.bare = {} /\ db \in Database
    BY <1>1 DEF Empty, Database
  <2>2. Recorded(db, 0)
    BY <2>1 DEF Recorded, At
  <2>3. Sound(db) /\ AppTablesTogether(db, 0) /\ FitForPlugin(db, 0)
    BY <2>1 DEF Sound, AppTablesTogether, FitForPlugin, Naming
  <2> QED
    BY <1>1, <2>1, <2>2, <2>3 DEF SchemaSound, SchemaTypeOK
<1>2. ASSUME applied = 0,
             NEW apps \in SUBSET ClientId, NEW tokens \in SUBSET ClientId,
             NEW consents \in SUBSET ClientId, NEW keyed \in BOOLEAN,
             keyed => (tokens \cup consents) \subseteq apps,
             db = Legacy(apps, tokens, consents, keyed)
      PROVE  SchemaSound
  <2> DEFINE legacy == {"user", "session", "oauthApplication"} \cup Naming
             keys == IF keyed THEN {ClientKey(t, "oauthApplication") : t \in Naming}
                              ELSE {}
             rows == [oauthApplication |-> apps, oauthClient |-> {},
                      oauthAccessToken |-> tokens, oauthConsent |-> consents]
  <2>1. /\ db.tables = legacy /\ db.types = {} /\ db.keys = keys
        /\ db.columns = {OldValue} /\ db.json = {} /\ db.rows = rows
        /\ db.bare = {} /\ db.ok = TRUE
    BY <1>2 DEF Legacy, Empty
  <2>2. db = [tables |-> legacy, types |-> {}, keys |-> keys,
              columns |-> {OldValue}, json |-> {}, rows |-> rows, bare |-> {},
              ok |-> TRUE]
    BY <1>2 DEF Legacy, Empty
  <2>3. rows \in [RowTables -> SUBSET ClientId]
    BY DEF RowTables, Naming
  <2>4. legacy \subseteq SchemaTables /\ legacy \subseteq AppTables
    BY TableFacts DEF Naming
  <2>5. /\ keys \subseteq AppKeys /\ keys \subseteq ForeignKeys
        /\ \A k \in keys : /\ keyed
                           /\ k.table \in Naming /\ k.target = "oauthApplication"
    BY ClientKeyFacts, KeyFacts
  <2>6. /\ rows["oauthApplication"] = apps /\ rows["oauthClient"] = {}
        /\ \A t \in Naming : rows[t] = tokens \/ rows[t] = consents
    BY DEF Naming
  <2> HIDE DEF keys, rows
  <2>7. db \in Database
    BY <2>2, <2>3, <2>4, <2>5 DEF Database
  <2>8. Recorded(db, 0)
    BY <1>0, <2>1, <2>4, <2>5 DEF Recorded, At
  <2>9. \A k \in keys : {k.table, k.target} \subseteq legacy /\ Satisfied(db, k)
    BY <1>2, <2>1, <2>5, <2>6 DEF Satisfied
  <2>10. \A t \in RowTables : t \in legacy \/ rows[t] = {}
    BY <2>6 DEF RowTables
  <2>11. Sound(db)
    BY <2>1, <2>9, <2>10 DEF Sound
  <2>12. AppTablesTogether(db, 0) /\ FitForPlugin(db, 0)
    BY <1>0, <2>1 DEF AppTablesTogether, FitForPlugin, Naming
  <2> QED
    BY <1>2, <2>1, <2>7, <2>8, <2>11, <2>12 DEF SchemaSound, SchemaTypeOK
<1> QED
  BY <1>1, <1>2 DEF SchemaInit

LEMMA SchemaSteps == SchemaSound /\ [SchemaNext]_schemaVars => SchemaSound'
<1> SUFFICES ASSUME SchemaSound, [SchemaNext]_schemaVars
             PROVE  SchemaSound'
  OBVIOUS
<1>0. Good(db, applied) /\ applied \in 0..6 /\ db.ok
  BY GoodIsSound
<1>1. CASE RunMigrations
  <2>1. /\ db' = AfterRun /\ applied' = 6 /\ AfterRun.ok /\ applied \in 0..5
    BY <1>0, <1>1 DEF RunMigrations
  <2>2. Good(AfterRun, 6)
    BY <1>0, <2>1, RunDoes
  <2>3. Good(db', applied') /\ applied' \in 0..6 /\ db'.ok
    BY <2>1, <2>2
  <2> QED
    BY <2>3 DEF Good, SchemaSound, SchemaTypeOK
<1>2. CASE RevertMigration
  <2>1. /\ db' = AfterRevert /\ applied' = applied - 1 /\ AfterRevert.ok
        /\ applied \in 1..6 /\ applied - 1 \in 0..6
    BY <1>0, <1>2 DEF RevertMigration
  <2>2. Good(AfterRevert, applied - 1)
    BY <1>0, <2>1, RevertDoes
  <2>3. Good(db', applied') /\ applied' \in 0..6 /\ db'.ok
    BY <2>1, <2>2
  <2> QED
    BY <2>3 DEF Good, SchemaSound, SchemaTypeOK
<1>3. CASE Materialize
  BY <1>3, Materialized
<1>4. ASSUME NEW c \in ClientId, Register(c) PROVE SchemaSound'
  BY <1>4, Registered
<1>5. ASSUME NEW c \in ClientId, NEW t \in Naming, Grant(c, t)
      PROVE  SchemaSound'
  BY <1>5, Granted
<1>6. CASE UNCHANGED schemaVars
  <2>1. db' = db /\ applied' = applied
    BY <1>6 DEF schemaVars
  <2>2. Good(db', applied') /\ applied' \in 0..6 /\ db'.ok
    BY <1>0, <2>1
  <2> QED
    BY <2>2 DEF Good, SchemaSound, SchemaTypeOK
<1> QED
  BY <1>1, <1>2, <1>3, <1>4, <1>5, <1>6 DEF SchemaNext

(* Whatever is run, reverted, materialised, registered and granted, the    *)
(* database is the one typeorm_migrations records, dangles nothing, and    *)
(* from the alignment on has the token column, the JSON scopes and, once   *)
(* repointed, the client keys of the current plugin.                       *)
THEOREM SchemaInvariance == SchemaSpec => []SchemaSound
BY SchemaStarts, SchemaSteps, PTL DEF SchemaSpec

(* A pending run fails only for access tokens without a value to fill in,  *)
(* a revert only for a client registered since the keys were repointed.    *)
THEOREM RefusalsExplained == SchemaSpec => []RefusedOnlyFor
<1>1. SchemaSound => RefusedOnlyFor
  <2> SUFFICES ASSUME SchemaSound PROVE RefusedOnlyFor
    OBVIOUS
  <2>0. Good(db, applied) /\ applied \in 0..6 /\ db.ok
    BY GoodIsSound
  <2>1. ASSUME applied < 6, ~ AfterRun.ok
        PROVE  /\ applied < 3 /\ "oauthAccessToken" \in db.tables
               /\ ~ Fillable(db)
    BY <2>0, <2>1, RunDoes
  <2>2. ASSUME applied > 0, ~ AfterRevert.ok
        PROVE  /\ applied = 4
               /\ \E t \in Naming :
                    ~ db.rows[t] \subseteq db.rows["oauthApplication"]
    BY <2>0, <2>2, RevertDoes
  <2> QED
    BY <2>1, <2>2 DEF RefusedOnlyFor, Fillable
<1> QED
  BY <1>1, SchemaInvariance, PTL

-----------------------------------------------------------------------------
USE RequestAssumption, DirectoryAssumption, ColumnsAssumption

-----------------------------------------------------------------------------
(* The invariant, request by request.                                      *)

JobTyped(j) ==
  /\ j \in AdminJob
  /\ j.phase \notin {"idle", "audit"} =>
       /\ j.record \in Record /\ j.op \in Operations
       /\ j.op \in Writes => j.copy \in Columns
       /\ j.op = "rotateSecret" => j.copy.secret # Null
       /\ j.op \in {"attach", "detach"} => <<j.record, j.target>> \in Attachments
  /\ j.shown # Null => j.phase = "audit"

(* The secret of its copy is known, unless it is the one it has made up.   *)
CopyKnown(j) ==
  (j.copy # Null /\ j.op # "rotateSecret" /\ j.copy.secret # Null) =>
    Known(j.copy.secret)

(* Its copy is the row but for what it is to change.                       *)
Current(j) ==
  (j.op \in Writes \ {"create"} /\ ~ j.stale) =>
    /\ j.phase \in {"check", "save"} =>
         /\ Stored(j.record)
         /\ \A f \in Column \ j.named : j.copy[f] = record[j.record][f]
    /\ j.phase # "insert"
    /\ j.changed \subseteq j.named

(* The types of the tables and histories.                                  *)
TablesTyped ==
  /\ record \in [Record -> Columns \cup {Null}]
  /\ attached \subseteq Attachments
  /\ told \subseteq Secret
  /\ untold \subseteq Secret

(* The secrets in force are known.                                         *)
RowsKnown ==
  \A r \in Record : (Stored(r) /\ record[r].secret # Null) =>
    Known(record[r].secret)

TablesGood == TablesTyped /\ NamesUnique /\ AttachedExist /\ RowsKnown

JobsGood ==
  /\ adminJob \in [Request -> AdminJob]
  /\ \A p \in Request : /\ JobTyped(adminJob[p]) /\ CopyKnown(adminJob[p])
                        /\ Current(adminJob[p])

(* The invariant is the tables and the requests one by one.                *)
LEMMA ByRequest == DirectoryIndInv <=> TablesGood /\ JobsGood
BY DEF DirectoryIndInv, DirectoryTypeOK, SecretKnown, CopyIsCurrent,
       TablesGood, JobsGood, JobTyped, CopyKnown, Current, TablesTyped,
       RowsKnown

(* The same of the next state.                                             *)
LEMMA ByRequestNext ==
  ASSUME TablesGood', JobsGood'
  PROVE  DirectoryIndInv'
BY DEF DirectoryIndInv, DirectoryTypeOK, SecretKnown, CopyIsCurrent,
       TablesGood, JobsGood, JobTyped, CopyKnown, Current, TablesTyped,
       RowsKnown

(* A slot that does nothing.                                               *)
LEMMA IdleGood == JobTyped(AdminIdle) /\ CopyKnown(AdminIdle) /\ Current(AdminIdle)
BY DEF JobTyped, CopyKnown, Current, AdminIdle, AdminJob, Writes

(* A request that has saved and goes on to its audit event.                *)
LEMMA SavedGood ==
  ASSUME NEW j, JobTyped(j), j.phase \notin {"idle", "audit"}
  PROVE  /\ JobTyped(Saved(j)) /\ CopyKnown(Saved(j)) /\ Current(Saved(j))
         /\ Saved(j).phase = "audit" /\ Saved(j).changed = {}
         /\ Saved(j).copy = Null
         /\ Saved(j).shown = IF j.op = "rotateSecret" THEN j.copy.secret ELSE Null
<1> DEFINE shown == IF j.op = "rotateSecret" THEN j.copy.secret ELSE Null
<1>1. shown \in Secret \cup {Null}
  BY DEF JobTyped, Columns, Writes
<1> HIDE DEF shown
<1>2. Saved(j) = [AdminIdle EXCEPT !.phase = "audit", !.shown = shown]
  BY DEF Saved, shown
<1>3. /\ Saved(j) \in AdminJob
      /\ Saved(j).phase = "audit" /\ Saved(j).shown = shown
      /\ Saved(j).copy = Null /\ Saved(j).changed = {}
  BY <1>1, <1>2 DEF AdminJob, AdminIdle
<1> QED
  BY <1>3 DEF JobTyped, CopyKnown, Current, shown


-----------------------------------------------------------------------------
(* What is known stays known: if p was about to show a secret it is told   *)
(* or untold now, and the others are still to show theirs.                 *)
LEMMA KnownStays ==
  ASSUME NEW p \in Request,
         told \subseteq told', untold \subseteq untold',
         \A q \in Request \ {p} : adminJob'[q].shown = adminJob[q].shown,
         adminJob[p].shown # Null => adminJob[p].shown \in told' \cup untold',
         NEW s, s # Null, Known(s)
  PROVE  Known(s)'
<1>1. CASE s \in told \cup untold
  BY <1>1 DEF Known
<1>2. CASE \E q \in Request : adminJob[q].shown = s
  <2>1. PICK q \in Request : adminJob[q].shown = s
    BY <1>2
  <2>2. CASE q = p
    BY <2>1, <2>2 DEF Known
  <2>3. CASE q # p
    BY <2>1, <2>3 DEF Known
  <2> QED
    BY <2>2, <2>3
<1> QED
  BY <1>1, <1>2 DEF Known

(* A step of one request that leaves the rows alone.                       *)
LEMMA OneGoes ==
  ASSUME DirectoryIndInv, NEW p \in Request, NEW j, JobTyped(j),
         AdminGoto(p, j), UNCHANGED record,
         attached' \subseteq Attachments, AttachedExist',
         told' \subseteq Secret, untold' \subseteq Secret,
         told \subseteq told', untold \subseteq untold',
         adminJob[p].shown # Null => adminJob[p].shown \in told' \cup untold',
         CopyKnown(j), Current(j)
  PROVE  DirectoryIndInv'
<1>1. TablesGood /\ JobsGood
  BY ByRequest
<1>2. \A q \in Request : adminJob'[q] = IF q = p THEN j ELSE adminJob[q]
  BY <1>1 DEF AdminGoto, JobsGood
<1>3. \A s : s # Null /\ Known(s) => Known(s)'
  BY <1>2, KnownStays
<1>4. TablesGood'
  BY <1>1, <1>3
  DEF TablesGood, TablesTyped, NamesUnique, RowsKnown, Taken, Stored
<1>5. (adminJob \in [Request -> AdminJob])'
  BY <1>1 DEF AdminGoto, JobsGood, JobTyped
<1>6. \A q \in Request : JobTyped(adminJob[q])'
  BY <1>1, <1>2 DEF JobsGood, JobTyped
<1>7. \A q \in Request : CopyKnown(adminJob[q])'
  BY <1>1, <1>2, <1>3 DEF JobsGood, CopyKnown
<1>8. \A q \in Request : Current(adminJob[q])'
  BY <1>1, <1>2 DEF JobsGood, Current, Stored
<1> QED
  BY <1>4, <1>5, <1>6, <1>7, <1>8, ByRequestNext DEF JobsGood

(* The same where the tables stay as they are and the request is new or     *)
(* goes on.                                                                *)
LEMMA OneGoesOn ==
  ASSUME DirectoryIndInv, NEW p \in Request, NEW j, JobTyped(j),
         AdminGoto(p, j), UNCHANGED Tables, adminJob[p].phase # "audit",
         CopyKnown(j), Current(j)
  PROVE  DirectoryIndInv'
<1>1. /\ attached' \subseteq Attachments /\ told' \subseteq Secret
      /\ untold' \subseteq Secret /\ AttachedExist'
  BY ByRequest DEF Tables, TablesGood, TablesTyped, AttachedExist, Stored
<1>2. adminJob[p].shown = Null
  BY ByRequest DEF JobsGood, JobTyped
<1> QED
  BY <1>1, <1>2, OneGoes DEF Tables

(* A request ends.                                                         *)
LEMMA EndKeeps ==
  ASSUME DirectoryIndInv, NEW p \in Request, AdminEnd(p),
         UNCHANGED <<record, attached>>,
         told' \subseteq Secret, untold' \subseteq Secret,
         told \subseteq told', untold \subseteq untold',
         adminJob[p].shown # Null => adminJob[p].shown \in told' \cup untold'
  PROVE  DirectoryIndInv'
<1>1. attached' \subseteq Attachments /\ AttachedExist'
  BY ByRequest DEF TablesGood, TablesTyped, AttachedExist, Stored
<1> QED
  BY <1>1, IdleGood, OneGoes DEF AdminEnd

-----------------------------------------------------------------------------
(* Beginnings.                                                             *)

(* A row that is there, and whose secret is known.                         *)
LEMMA RowRead ==
  ASSUME DirectoryIndInv, NEW r \in Record, Stored(r)
  PROVE  /\ record[r] \in Columns
         /\ record[r].secret # Null => Known(record[r].secret)
<1>1. record[r] \in Columns
  BY ByRequest DEF TablesGood, TablesTyped, Stored
<1>2. record[r].secret # Null => Known(record[r].secret)
  BY ByRequest DEF TablesGood, RowsKnown
<1> QED
  BY <1>1, <1>2

(* The request that Begin puts in the slot.                                *)
LEMMA BeginKeeps ==
  ASSUME DirectoryIndInv, NEW p \in Request, adminJob[p].phase = "idle",
         NEW op \in Operations, NEW r \in Record, NEW t \in Target \cup {Null},
         NEW c \in Columns \cup {Null}, NEW named \in SUBSET Column,
         NEW ph \in {"check", "save"},
         Begin(p, op, r, t, c, named, ph), UNCHANGED Tables,
         op \in Writes => c # Null,
         op = "rotateSecret" => c.secret # Null,
         op \in {"attach", "detach"} => <<r, t>> \in Attachments,
         c # Null /\ op # "rotateSecret" /\ c.secret # Null => Known(c.secret),
         op \in Writes \ {"create"} =>
           Stored(r) /\ \A f \in Column \ named : c[f] = record[r][f]
  PROVE  DirectoryIndInv'
<1> DEFINE j == [phase |-> ph, op |-> op, record |-> r, target |-> t,
                 copy |-> c, named |-> named, changed |-> {}, stale |-> FALSE,
                 shown |-> Null]
<1>1. JobTyped(j)
  BY DEF JobTyped, AdminJob
<1>2. CopyKnown(j) /\ Current(j)
  BY DEF CopyKnown, Current
<1>3. AdminGoto(p, j)
  BY DEF Begin
<1> HIDE DEF j
<1> QED
  BY <1>1, <1>2, <1>3, OneGoesOn

(* A new row that nobody has written yet.                                  *)
LEMMA CreateKeeps ==
  ASSUME DirectoryIndInv, NEW p \in Request, NEW T \in SUBSET Record,
         NEW status \in {"on", "off"}, NEW types \in SUBSET BOOLEAN,
         BeginCreate(p, T, status, types)
  PROVE  DirectoryIndInv'
<1> DEFINE c(n, x) == [name |-> n, status |-> status, secret |-> Null,
                       confidential |-> x, other |-> "a"]
<1>1. PICK r \in T, n \in Name, x \in types :
        Begin(p, "create", r, Null, c(n, x), Column, "check")
  BY DEF BeginCreate
<1>2. c(n, x) \in Columns /\ c(n, x).secret = Null
  BY DEF Columns
<1> HIDE DEF c
<1> QED
  BY <1>1, <1>2, BeginKeeps DEF BeginCreate, Operations, Writes

(* A row is read, and the columns the request names are changed.           *)
LEMMA UpdateKeeps ==
  ASSUME DirectoryIndInv, NEW p \in Request, NEW T \in SUBSET Record,
         NEW changeable \in SUBSET {"name", "other"},
         BeginUpdate(p, T, changeable)
  PROVE  DirectoryIndInv'
<1> DEFINE c(r, n, o, named) ==
             [record[r] EXCEPT !.name = IF "name" \in named THEN n ELSE @,
                               !.other = IF "other" \in named THEN o ELSE @]
<1>1. PICK r \in {x \in T : Stored(x)}, n \in Name, o \in {"a", "b"},
           named \in SUBSET changeable :
        Begin(p, "update", r, Null, c(r, n, o, named), named,
              IF c(r, n, o, named).name = record[r].name THEN "save"
                                                         ELSE "check")
  BY DEF BeginUpdate
<1>2. /\ record[r] \in Columns
      /\ record[r].secret # Null => Known(record[r].secret)
  BY RowRead
<1>3. /\ c(r, n, o, named) \in Columns
      /\ c(r, n, o, named).secret = record[r].secret
      /\ \A f \in Column \ named : c(r, n, o, named)[f] = record[r][f]
  BY <1>2 DEF Columns, Column
<1>4. named \in SUBSET Column
  BY DEF Column
<1> HIDE DEF c
<1> QED
  BY <1>1, <1>2, <1>3, <1>4, BeginKeeps DEF BeginUpdate, Operations, Writes

(* A row is read and its status changed.                                   *)
LEMMA SetStatusKeeps ==
  ASSUME DirectoryIndInv, NEW p \in Request, BeginSetStatus(p)
  PROVE  DirectoryIndInv'
<1>1. PICK r \in {x \in UserRow \cup ClientRow : Stored(x)}, s \in {"on", "off"} :
        Begin(p, "setStatus", r, Null, [record[r] EXCEPT !.status = s],
              {"status"}, "save")
  BY DEF BeginSetStatus
<1> DEFINE c == [record[r] EXCEPT !.status = s]
<1>2. /\ r \in Record /\ record[r] \in Columns
      /\ record[r].secret # Null => Known(record[r].secret)
  BY RowRead DEF Record
<1>3. /\ c \in Columns /\ c.secret = record[r].secret
      /\ \A f \in Column \ {"status"} : c[f] = record[r][f]
  BY <1>2 DEF Columns, Column
<1>4. Begin(p, "setStatus", r, Null, c, {"status"}, "save")
  BY <1>1
<1> HIDE DEF c
<1> QED
  BY <1>2, <1>3, <1>4, BeginKeeps
  DEF BeginSetStatus, Operations, Writes, Column

(* A client is read and given a secret that is still unknown.              *)
LEMMA RotateKeeps ==
  ASSUME DirectoryIndInv, NEW p \in Request, BeginRotateSecret(p)
  PROVE  DirectoryIndInv'
<1>1. PICK r \in ClientRow, s \in Secret :
        /\ Stored(r)
        /\ Begin(p, "rotateSecret", r, Null, [record[r] EXCEPT !.secret = s],
                 {"secret"}, "save")
  BY DEF BeginRotateSecret
<1> DEFINE c == [record[r] EXCEPT !.secret = s]
<1>2. r \in Record /\ record[r] \in Columns
  BY <1>1, RowRead DEF Record
<1>3. /\ c \in Columns /\ c.secret = s /\ s # Null
      /\ \A f \in Column \ {"secret"} : c[f] = record[r][f]
  BY <1>2 DEF Columns, Column
<1>4. Begin(p, "rotateSecret", r, Null, c, {"secret"}, "save")
  BY <1>1
<1> HIDE DEF c
<1> QED
  BY <1>1, <1>2, <1>3, <1>4, BeginKeeps
  DEF BeginRotateSecret, Operations, Writes, Column

(* A group is found that is to be removed.                                 *)
LEMMA DeleteKeeps ==
  ASSUME DirectoryIndInv, NEW p \in Request, BeginDelete(p)
  PROVE  DirectoryIndInv'
<1>1. PICK r \in {x \in GroupRow : Stored(x)} :
        Begin(p, "delete", r, Null, Null, {}, "check")
  BY DEF BeginDelete
<1>2. r \in Record
  BY DEF Record
<1> QED
  BY <1>1, <1>2, BeginKeeps DEF BeginDelete, Operations, Writes

(* A group or client is found that something is linked to.                 *)
LEMMA LinkKeeps ==
  ASSUME DirectoryIndInv, NEW p \in Request, NEW T, T \in {GroupRow, ClientRow},
         BeginLink(p, T)
  PROVE  DirectoryIndInv'
<1>1. PICK op \in {"attach", "detach"}, r \in {x \in T : Stored(x)}, t \in Target :
        Begin(p, op, r, t, Null, {}, "check")
  BY DEF BeginLink
<1>2. r \in Record /\ <<r, t>> \in Attachments
  BY DEF Record, Attachments
<1> QED
  BY <1>1, <1>2, BeginKeeps DEF BeginLink, Operations, Writes

-----------------------------------------------------------------------------
(* The queries.                                                            *)

(* A job as it is, in another phase, is well typed.                        *)
LEMMA Advanced ==
  ASSUME JobsGood, NEW p \in Request, adminJob[p].phase \notin {"idle", "audit"},
         NEW ph \in {"save", "insert", "remove"}
  PROVE  /\ JobTyped([adminJob[p] EXCEPT !.phase = ph])
         /\ CopyKnown([adminJob[p] EXCEPT !.phase = ph])
<1>1. JobTyped(adminJob[p]) /\ CopyKnown(adminJob[p])
  BY DEF JobsGood
<1> QED
  BY <1>1 DEF JobTyped, CopyKnown, AdminJob

(* The check lets the request write, or ends it.                           *)
LEMMA CheckKeeps ==
  ASSUME DirectoryIndInv, NEW p \in Request, Check(p)
  PROVE  DirectoryIndInv'
<1>0. /\ JobsGood /\ told \subseteq Secret /\ untold \subseteq Secret
      /\ adminJob[p] \in AdminJob /\ Current(adminJob[p])
      /\ adminJob[p].shown = Null
  BY ByRequest DEF TablesGood, TablesTyped, JobsGood, JobTyped, Check
<1>1. ASSUME NEW ph \in {"save", "remove"}, AdminAdvance(p, ph),
             ph = "remove" => adminJob[p].op \in Removes
      PROVE  DirectoryIndInv'
  <2> DEFINE j == [adminJob[p] EXCEPT !.phase = ph]
  <2>1. JobTyped(j) /\ CopyKnown(j)
    BY <1>0, Advanced DEF Check
  <2>2. Current(j)
    BY <1>0, <1>1 DEF Check, Current, AdminJob, Removes, Writes
  <2>3. AdminGoto(p, j)
    BY <1>1 DEF AdminAdvance
  <2> HIDE DEF j
  <2> QED
    BY <2>1, <2>2, <2>3, OneGoesOn DEF Check
<1>2. CASE AdminEnd(p)
  BY <1>0, <1>2, EndKeeps DEF Check, Tables
<1> QED
  BY <1>1, <1>2 DEF Check

(* The SELECT of a save settles what is to be written: where the row is as  *)
(* it was read, only what the request names.                               *)
LEMMA SelectRowKeeps ==
  ASSUME DirectoryIndInv, NEW p \in Request, SelectRow(p)
  PROVE  DirectoryIndInv'
<1> DEFINE differ == {f \in Column : record[adminJob[p].record][f]
                                       # adminJob[p].copy[f]}
           toUpdate == [adminJob[p] EXCEPT !.phase = "update", !.changed = differ]
           toInsert == [adminJob[p] EXCEPT !.phase = "insert"]
<1>0. /\ JobsGood /\ JobTyped(adminJob[p]) /\ Current(adminJob[p])
      /\ CopyKnown(adminJob[p])
  BY ByRequest DEF JobsGood
<1>1. CASE AdminGoto(p, toInsert) /\ ~ Stored(adminJob[p].record)
  <2>1. JobTyped(toInsert) /\ CopyKnown(toInsert)
    BY <1>0, Advanced DEF SelectRow
  <2>2. Current(toInsert)
    BY <1>0, <1>1 DEF SelectRow, Current, JobTyped, AdminJob
  <2> HIDE DEF toInsert
  <2> QED
    BY <1>1, <2>1, <2>2, OneGoesOn DEF SelectRow
<1>2. CASE AdminGoto(p, Saved(adminJob[p]))
  BY <1>0, <1>2, SavedGood, OneGoesOn DEF SelectRow
<1>3. CASE AdminGoto(p, toUpdate) /\ Stored(adminJob[p].record)
  <2>0. differ \in SUBSET Column
    OBVIOUS
  <2>1. adminJob[p].op \in Writes \ {"create"} /\ ~ adminJob[p].stale =>
          differ \subseteq adminJob[p].named
    BY <1>0 DEF SelectRow, Current
  <2> HIDE DEF differ
  <2>2. JobTyped(toUpdate) /\ CopyKnown(toUpdate)
    BY <1>0, <2>0 DEF SelectRow, JobTyped, CopyKnown, AdminJob
  <2>3. Current(toUpdate)
    BY <1>0, <2>0, <2>1 DEF SelectRow, Current, JobTyped, AdminJob
  <2> HIDE DEF toUpdate
  <2> QED
    BY <1>3, <2>2, <2>3, OneGoesOn DEF SelectRow
<1> HIDE DEF differ, toUpdate, toInsert
<1> QED
  BY <1>1, <1>2, <1>3 DEF SelectRow, differ, toUpdate, toInsert

(* The SELECT of a link's save.                                            *)
LEMMA SelectLinkKeeps ==
  ASSUME DirectoryIndInv, NEW p \in Request, SelectLink(p)
  PROVE  DirectoryIndInv'
<1> DEFINE j == [adminJob[p] EXCEPT !.phase = "insert"]
<1>0. JobsGood /\ JobTyped(adminJob[p])
  BY ByRequest DEF JobsGood
<1>1. CASE AdminGoto(p, Saved(adminJob[p]))
  BY <1>0, <1>1, SavedGood, OneGoesOn DEF SelectLink
<1>2. CASE AdminGoto(p, j)
  <2>1. JobTyped(j) /\ CopyKnown(j)
    BY <1>0, Advanced DEF SelectLink
  <2>2. Current(j)
    BY <1>0 DEF SelectLink, Current, JobTyped, AdminJob, Writes
  <2> HIDE DEF j
  <2> QED
    BY <1>2, <2>1, <2>2, OneGoesOn DEF SelectLink
<1> QED
  BY <1>1, <1>2 DEF SelectLink

(* A row is written, or removed: the requests that have read it are stale.  *)
LEMMA WrittenKeeps ==
  ASSUME DirectoryIndInv, NEW p \in Request,
         adminJob[p].phase \notin {"idle", "audit"},
         NEW r \in Record, r = adminJob[p].record, NEW c \in Columns \cup {Null},
         record' = [record EXCEPT ![r] = c], Written(p, r),
         UNCHANGED <<attached, told, untold>>,
         c # Null => ~ Taken(r, c.name),
         c = Null => ~ HasMembers(r),
         c # Null /\ c.secret # Null =>
           \/ Known(c.secret)
           \/ adminJob[p].op = "rotateSecret" /\ c.secret = adminJob[p].copy.secret
  PROVE  DirectoryIndInv'
<1>1. TablesGood /\ JobsGood
  BY ByRequest
<1>2. \A q \in Request : adminJob'[q] =
        IF q = p THEN Saved(adminJob[p])
        ELSE IF adminJob[q].record = r /\ adminJob[q].phase \in {"check", "save"}
             THEN [adminJob[q] EXCEPT !.stale = TRUE]
        ELSE adminJob[q]
  BY DEF Written
<1>3. \A q \in Request : JobTyped(adminJob[q])
  BY <1>1 DEF JobsGood
<1>4. /\ JobTyped(Saved(adminJob[p])) /\ CopyKnown(Saved(adminJob[p]))
      /\ Saved(adminJob[p]).phase = "audit" /\ Saved(adminJob[p]).changed = {}
      /\ Saved(adminJob[p]).copy = Null
      /\ adminJob[p].op = "rotateSecret" =>
           Saved(adminJob[p]).shown = adminJob[p].copy.secret
  BY <1>3, SavedGood
<1>5. \A q \in Request \ {p} : /\ adminJob'[q].phase = adminJob[q].phase
                               /\ adminJob'[q].op = adminJob[q].op
                               /\ adminJob'[q].copy = adminJob[q].copy
                               /\ adminJob'[q].shown = adminJob[q].shown
  <2> SUFFICES ASSUME NEW q \in Request \ {p}
               PROVE  /\ adminJob'[q].phase = adminJob[q].phase
                      /\ adminJob'[q].op = adminJob[q].op
                      /\ adminJob'[q].copy = adminJob[q].copy
                      /\ adminJob'[q].shown = adminJob[q].shown
    OBVIOUS
  <2>1. adminJob[q] \in AdminJob
    BY <1>3 DEF JobTyped
  <2> QED
    BY <1>2, <2>1 DEF AdminJob
<1>6. \A s : s # Null /\ Known(s) => Known(s)'
  <2>1. adminJob[p].shown = Null
    BY <1>3 DEF JobTyped
  <2> QED
    BY <1>5, <2>1, KnownStays
<1>7. \A s \in Record : record'[s] = IF s = r THEN c ELSE record[s]
  BY <1>1 DEF TablesGood, TablesTyped
<1>8. TablesTyped'
  BY <1>1 DEF TablesGood, TablesTyped
<1>9. NamesUnique'
  <2> SUFFICES ASSUME NEW s \in Record, NEW u \in Record \ {s}, SameTable(s, u),
                      record'[s] # Null, record'[u] # Null,
                      record'[u].name = record'[s].name
               PROVE  FALSE
    BY DEF NamesUnique, Taken, Stored, SameTable
  <2>1. SameTable(u, s)
    BY DEF SameTable
  <2>2. s # r /\ u # r => FALSE
    BY <1>1, <1>7 DEF TablesGood, NamesUnique, Taken, Stored
  <2>3. s = r => FALSE
    BY <1>7 DEF Taken, Stored
  <2>4. u = r => FALSE
    BY <1>7, <2>1 DEF Taken, Stored
  <2> QED
    BY <2>2, <2>3, <2>4
<1>10. AttachedExist'
  <2> SUFFICES ASSUME NEW a \in attached PROVE record'[a[1]] # Null
    BY DEF AttachedExist, Stored
  <2>1. PICK x \in GroupRow \cup ClientRow, t \in Target : a = <<x, t>>
    BY <1>1 DEF TablesGood, TablesTyped, Attachments
  <2>2. x \in Record /\ record[x] # Null
    BY <1>1, <2>1 DEF TablesGood, AttachedExist, Stored, Record
  <2> QED
    BY <1>7, <2>1, <2>2 DEF HasMembers
<1>11. c # Null /\ c.secret # Null => Known(c.secret)'
  <2>1. CASE adminJob[p].op = "rotateSecret" /\ c.secret = adminJob[p].copy.secret
    <3>1. adminJob'[p].shown = c.secret
      BY <1>2, <1>4, <2>1
    <3> QED
      BY <3>1 DEF Known
  <2> QED
    BY <1>6, <2>1
<1>12. RowsKnown'
  BY <1>1, <1>6, <1>7, <1>11 DEF TablesGood, RowsKnown, Stored
<1>13. \A q \in Request : JobTyped(adminJob[q])'
  <2> SUFFICES ASSUME NEW q \in Request PROVE JobTyped(adminJob'[q])
    BY DEF JobTyped
  <2>1. JobTyped(adminJob[q])
    BY <1>3
  <2>2. JobTyped([adminJob[q] EXCEPT !.stale = TRUE])
    BY <2>1 DEF JobTyped, AdminJob
  <2> QED
    BY <1>2, <1>4, <2>1, <2>2
<1>14. \A q \in Request : CopyKnown(adminJob[q])'
  <2> SUFFICES ASSUME NEW q \in Request PROVE CopyKnown(adminJob[q])'
    OBVIOUS
  <2>1. CASE q = p
    <3>1. adminJob'[q].copy = Null
      BY <1>2, <1>4, <2>1
    <3> QED
      BY <3>1 DEF CopyKnown
  <2>2. CASE q # p
    BY <1>1, <1>5, <1>6, <2>2 DEF JobsGood, CopyKnown
  <2> QED
    BY <2>1, <2>2
<1>15. \A q \in Request : Current(adminJob[q])'
  <2> SUFFICES ASSUME NEW q \in Request PROVE Current(adminJob[q])'
    OBVIOUS
  <2>0. adminJob[q] \in AdminJob /\ Current(adminJob[q])
    BY <1>1 DEF JobsGood
  <2>1. CASE q = p
    <3>1. adminJob'[q].phase = "audit" /\ adminJob'[q].changed = {}
      BY <1>2, <1>4, <2>1
    <3> QED
      BY <3>1 DEF Current
  <2>2. CASE q # p /\ adminJob[q].record = r
                   /\ adminJob[q].phase \in {"check", "save"}
    BY <1>2, <2>0, <2>2 DEF Current, AdminJob
  <2>3. CASE q # p /\ adminJob[q].phase \notin {"check", "save"}
    BY <1>2, <2>0, <2>3 DEF Current
  <2>4. CASE q # p /\ adminJob[q].record # r
                   /\ adminJob[q].phase \in {"check", "save"}
    <3>1. adminJob'[q] = adminJob[q] /\ adminJob[q].record \in Record
      BY <1>2, <1>3, <2>4 DEF JobTyped
    <3>2. record'[adminJob[q].record] = record[adminJob[q].record]
      BY <1>7, <2>4, <3>1
    <3> QED
      BY <2>0, <3>1, <3>2 DEF Current, Stored
  <2> QED
    BY <2>1, <2>2, <2>3, <2>4
<1>16. (adminJob \in [Request -> AdminJob])'
  <2>1. \A q \in Request : adminJob'[q] \in AdminJob
    BY <1>13 DEF JobTyped
  <2> QED
    BY <2>1 DEF Written
<1> QED
  BY <1>8, <1>9, <1>10, <1>12, <1>13, <1>14, <1>15, <1>16, ByRequestNext
  DEF TablesGood, JobsGood

(* The whole copy becomes a row.                                           *)
LEMMA InsertRowKeeps ==
  ASSUME DirectoryIndInv, NEW p \in Request, InsertRow(p)
  PROVE  DirectoryIndInv'
<1>1. JobTyped(adminJob[p]) /\ CopyKnown(adminJob[p])
  BY ByRequest DEF JobsGood
<1>2. adminJob[p].record \in Record /\ adminJob[p].copy \in Columns
  BY <1>1 DEF JobTyped, InsertRow
<1> QED
  BY <1>1, <1>2, WrittenKeeps DEF InsertRow, CopyKnown

(* A row with some columns taken from a copy is a row, and its secret is    *)
(* that of one of the two.                                                 *)
LEMMA MergedIs ==
  ASSUME NEW row \in Columns, NEW copy \in Columns, NEW changed
  PROVE  /\ Merged(row, copy, changed) \in Columns
         /\ Merged(row, copy, changed).secret \in {row.secret, copy.secret}
         /\ \A f \in Column \ changed : Merged(row, copy, changed)[f] = row[f]
BY DEF Merged, Columns, Column

(* The columns that differed become those of the copy.                     *)
LEMMA UpdateRowKeeps ==
  ASSUME DirectoryIndInv, NEW p \in Request, UpdateRow(p)
  PROVE  DirectoryIndInv'
<1>1. JobTyped(adminJob[p]) /\ CopyKnown(adminJob[p])
  BY ByRequest DEF JobsGood
<1>2. PICK r \in Record : r = adminJob[p].record
  BY <1>1 DEF JobTyped, UpdateRow
<1>3. PICK j : j = adminJob[p]
  OBVIOUS
<1>4. PICK c : c = Merged(record[r], j.copy, j.changed)
  OBVIOUS
<1>5. /\ j.phase = "update" /\ Stored(r) /\ ~ Taken(r, c.name)
      /\ record' = [record EXCEPT ![r] = c]
      /\ Written(p, r) /\ UNCHANGED <<attached, told, untold>>
  BY <1>2, <1>3, <1>4 DEF UpdateRow
<1>6. /\ record[r] \in Columns
      /\ record[r].secret # Null => Known(record[r].secret)
  BY <1>5, RowRead
<1>7. j.op \in Writes
  BY <1>3 DEF UpdateRow
<1>8. j.copy \in Columns
  BY <1>1, <1>3, <1>5, <1>7 DEF JobTyped
<1>9. c \in Columns /\ c.secret \in {record[r].secret, j.copy.secret}
  BY <1>4, <1>6, <1>8, MergedIs
<1>10. c.secret # Null =>
         Known(c.secret) \/ (j.op = "rotateSecret" /\ c.secret = j.copy.secret)
  <2>1. CopyKnown(j)
    BY <1>1, <1>3
  <2>2. j.copy # Null
    BY <1>8
  <2>3. c.secret = record[r].secret \/ c.secret = j.copy.secret
    BY <1>9
  <2> QED
    BY <1>6, <2>1, <2>2, <2>3 DEF CopyKnown
<1> QED
  BY <1>2, <1>3, <1>5, <1>9, <1>10, WrittenKeeps

(* An UPDATE that finds no row writes nothing.                             *)
LEMMA UpdateNothingKeeps ==
  ASSUME DirectoryIndInv, NEW p \in Request, UpdateNothing(p)
  PROVE  DirectoryIndInv'
<1>1. JobTyped(adminJob[p])
  BY ByRequest DEF JobsGood
<1> QED
  BY <1>1, SavedGood, OneGoesOn DEF UpdateNothing

(* The foreign key keeps the members of a group from losing it.            *)
LEMMA RemoveGroupKeeps ==
  ASSUME DirectoryIndInv, NEW p \in Request, RemoveGroup(p)
  PROVE  DirectoryIndInv'
<1>1. adminJob[p].record \in Record
  BY ByRequest DEF JobsGood, JobTyped, RemoveGroup
<1> QED
  BY <1>1, WrittenKeeps DEF RemoveGroup

(* A link is added or removed: the request goes on to its audit event.      *)
LEMMA AuditNext ==
  ASSUME DirectoryIndInv, NEW p \in Request,
         adminJob[p].phase \notin {"idle", "audit"},
         AdminGoto(p, Saved(adminJob[p])), UNCHANGED <<record, told, untold>>,
         attached' \subseteq Attachments, AttachedExist'
  PROVE  DirectoryIndInv'
<1>1. /\ JobTyped(adminJob[p]) /\ told \subseteq Secret /\ untold \subseteq Secret
      /\ adminJob[p].shown = Null
  BY ByRequest DEF TablesGood, TablesTyped, JobsGood, JobTyped
<1> QED
  BY <1>1, SavedGood, OneGoes

(* A link is added to a group or client that is there.                     *)
LEMMA AttachKeeps ==
  ASSUME DirectoryIndInv, NEW p \in Request, Attach(p)
  PROVE  DirectoryIndInv'
<1>1. <<adminJob[p].record, adminJob[p].target>> \in Attachments
  BY ByRequest DEF JobsGood, JobTyped, Attach
<1>2. attached' \subseteq Attachments /\ AttachedExist'
  BY <1>1, ByRequest
  DEF TablesGood, TablesTyped, AttachedExist, Stored, Attach
<1> QED
  BY <1>2, AuditNext DEF Attach

(* A link is removed.                                                      *)
LEMMA DetachKeeps ==
  ASSUME DirectoryIndInv, NEW p \in Request, Detach(p)
  PROVE  DirectoryIndInv'
<1>1. attached' \subseteq Attachments /\ AttachedExist'
  BY ByRequest DEF TablesGood, TablesTyped, AttachedExist, Stored, Detach
<1> QED
  BY <1>1, AuditNext DEF Detach

(* The answer, or a failure, tells the secret or leaves it untold.          *)
LEMMA AnswerKeeps ==
  ASSUME DirectoryIndInv, NEW p \in Request,
         AuditAndAnswer(p) \/ FailAdmin(p)
  PROVE  DirectoryIndInv'
<1>1. told \subseteq Secret /\ untold \subseteq Secret
  BY ByRequest DEF TablesGood, TablesTyped
<1>2. adminJob[p].shown \in Secret \cup {Null}
  BY ByRequest DEF JobsGood, AdminJob
<1> QED
  BY <1>1, <1>2, EndKeeps DEF AuditAndAnswer, FailAdmin

-----------------------------------------------------------------------------
(* Empty tables and no request.                                            *)
LEMMA InitHolds == AdminInit => DirectoryIndInv
<1> SUFFICES ASSUME AdminInit PROVE DirectoryIndInv
  OBVIOUS
<1>1. TablesGood
  BY DEF AdminInit, TablesGood, TablesTyped, NamesUnique, AttachedExist,
         RowsKnown, Stored
<1>2. AdminIdle \in AdminJob
  BY IdleGood DEF JobTyped
<1>3. JobsGood
  BY <1>2, IdleGood DEF AdminInit, JobsGood
<1> QED
  BY <1>1, <1>3, ByRequest

(* Every step keeps the invariant.                                         *)
LEMMA StepKeeps ==
  ASSUME DirectoryIndInv, [AdminNext]_adminVars
  PROVE  DirectoryIndInv'
<1>1. CASE UNCHANGED adminVars
  <2>1. TablesGood /\ JobsGood
    BY ByRequest
  <2> QED
    BY <1>1, <2>1, ByRequestNext
    DEF adminVars, TablesGood, TablesTyped, NamesUnique, AttachedExist,
        RowsKnown, JobsGood, JobTyped, CopyKnown, Current, Known, Taken, Stored
<1>2. CASE AdminNext
  <2>1. PICK p \in Request :
          \/ CreateUser(p) \/ CreateClient(p) \/ CreateGroup(p)
          \/ UpdateUser(p) \/ UpdateClient(p) \/ UpdateGroup(p)
          \/ BeginSetStatus(p) \/ BeginRotateSecret(p) \/ BeginDelete(p)
          \/ BeginMembership(p) \/ BeginRedirectUri(p)
          \/ Check(p) \/ SelectRow(p) \/ SelectLink(p)
          \/ InsertRow(p) \/ UpdateRow(p) \/ UpdateNothing(p)
          \/ RemoveGroup(p) \/ Attach(p) \/ Detach(p)
          \/ AuditAndAnswer(p) \/ FailAdmin(p)
    BY <1>2 DEF AdminNext
  <2>2. /\ UserRow \in SUBSET Record /\ ClientRow \in SUBSET Record
        /\ GroupRow \in SUBSET Record
    BY DEF Record
  <2>3. CASE CreateUser(p) \/ CreateClient(p) \/ CreateGroup(p)
    BY <2>2, <2>3, CreateKeeps DEF CreateUser, CreateClient, CreateGroup
  <2>4. CASE UpdateUser(p) \/ UpdateClient(p) \/ UpdateGroup(p)
    BY <2>2, <2>4, UpdateKeeps DEF UpdateUser, UpdateClient, UpdateGroup
  <2>5. CASE BeginMembership(p) \/ BeginRedirectUri(p)
    BY <2>5, LinkKeeps DEF BeginMembership, BeginRedirectUri
  <2> QED
    BY <2>1, <2>3, <2>4, <2>5, SetStatusKeeps, RotateKeeps, DeleteKeeps,
       CheckKeeps, SelectRowKeeps, SelectLinkKeeps, InsertRowKeeps,
       UpdateRowKeeps, UpdateNothingKeeps, RemoveGroupKeeps, AttachKeeps,
       DetachKeeps, AnswerKeeps
<1> QED
  BY <1>1, <1>2

(* Overlapping requests of administrators, whatever the order of their      *)
(* queries, leave names unique within a table, members and redirect URIs    *)
(* with a group or client to belong to, and every client secret in force    *)
(* one that was shown or whose request failed.                             *)
THEOREM Invariance == AdminSpec => []DirectoryIndInv
<1> QED
  BY InitHolds, StepKeeps, PTL DEF AdminSpec

(* A save changes a column its request does not name, or makes a row that   *)
(* was removed, only when another request wrote the row between the read    *)
(* and the SELECT of the save.                                             *)
THEOREM OnlyByStaleCopies == AdminSpec => OnlyStaleSavesUndo
<1> DEFINE Kept(r, p) ==
      LET j == adminJob[p] IN
      (/\ j.phase # "audit" /\ adminJob'[p].phase = "audit"
       /\ j.record = r /\ j.op \in Writes \ {"create"} /\ ~ j.stale) =>
         /\ record'[r] # Null <=> Stored(r)
         /\ Stored(r) => \A f \in Column \ j.named : record'[r][f] = record[r][f]
<1>1. ASSUME DirectoryIndInv, [AdminNext]_adminVars,
             NEW r \in Record, NEW p \in Request
      PROVE  Kept(r, p)
  <2> SUFFICES ASSUME adminJob[p].phase # "audit", adminJob'[p].phase = "audit",
                      adminJob[p].record = r,
                      adminJob[p].op \in Writes \ {"create"}, ~ adminJob[p].stale
               PROVE  /\ record'[r] # Null <=> Stored(r)
                      /\ Stored(r) => \A f \in Column \ adminJob[p].named :
                                        record'[r][f] = record[r][f]
    OBVIOUS
  <2>0. /\ record \in [Record -> Columns \cup {Null}]
        /\ \A q \in Request : JobTyped(adminJob[q])
        /\ Current(adminJob[p])
    BY <1>1, ByRequest DEF TablesGood, TablesTyped, JobsGood
  <2>1. CASE UNCHANGED record
    BY <2>1 DEF Stored
  <2>2. CASE \E q \in Request : InsertRow(q) \/ UpdateRow(q) \/ RemoveGroup(q)
    <3>1. PICK q \in Request : InsertRow(q) \/ UpdateRow(q) \/ RemoveGroup(q)
      BY <2>2
    <3>2. q = p
      <4> SUFFICES ASSUME q # p PROVE FALSE
        OBVIOUS
      <4>1. PICK s : Written(q, s)
        BY <3>1 DEF InsertRow, UpdateRow, RemoveGroup
      <4>2. \/ adminJob'[p] = adminJob[p]
            \/ adminJob'[p] = [adminJob[p] EXCEPT !.stale = TRUE]
        BY <4>1 DEF Written
      <4> QED
        BY <2>0, <4>2 DEF JobTyped, AdminJob
    <3>3. UpdateRow(p)
      BY <2>0, <3>1, <3>2 DEF InsertRow, RemoveGroup, Current, Writes
    <3>4. PICK j : j = adminJob[p]
      OBVIOUS
    <3>5. /\ Stored(r)
          /\ record' = [record EXCEPT ![r] = Merged(record[r], j.copy, j.changed)]
      BY <3>3, <3>4 DEF UpdateRow
    <3>6. /\ j.copy \in Columns /\ record[r] \in Columns
          /\ j.changed \subseteq j.named
      <4>1. JobTyped(j) /\ Current(j)
        BY <2>0, <3>4
      <4>2. j.phase = "update" /\ j.op \in Writes \ {"create"} /\ ~ j.stale
        BY <3>3, <3>4 DEF UpdateRow
      <4>3. j.copy \in Columns
        BY <4>1, <4>2 DEF JobTyped
      <4>4. j.changed \subseteq j.named
        BY <4>1, <4>2 DEF Current
      <4>5. record[r] \in Columns
        BY <2>0, <3>5 DEF Stored
      <4> QED
        BY <4>3, <4>4, <4>5
    <3>7. /\ record'[r] = Merged(record[r], j.copy, j.changed)
          /\ record'[r] \in Columns
          /\ \A f \in Column \ j.named : record'[r][f] = record[r][f]
      BY <2>0, <3>5, <3>6, MergedIs
    <3> QED
      BY <3>4, <3>5, <3>7
  <2>3. ASSUME AdminNext, record' # record
        PROVE  \E q \in Request : InsertRow(q) \/ UpdateRow(q) \/ RemoveGroup(q)
    BY <2>3
    DEF AdminNext, CreateUser, CreateClient, CreateGroup, BeginCreate, UpdateUser,
        UpdateClient, UpdateGroup, BeginUpdate, BeginSetStatus,
        BeginRotateSecret, BeginDelete, BeginMembership, BeginRedirectUri,
        BeginLink, Check, SelectRow, SelectLink, UpdateNothing, Attach, Detach,
        AuditAndAnswer, FailAdmin, Tables
  <2>4. UNCHANGED adminVars => UNCHANGED record
    BY DEF adminVars
  <2> QED
    BY <1>1, <2>1, <2>2, <2>3, <2>4
<1>2. DirectoryIndInv /\ [AdminNext]_adminVars =>
        [\A r \in Record, p \in Request : Kept(r, p)]_adminVars
  BY <1>1
<1> QED
  BY <1>2, Invariance, PTL DEF AdminSpec, OnlyStaleSavesUndo
=============================================================================
