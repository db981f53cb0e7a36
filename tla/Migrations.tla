----------------------------- MODULE Migrations -----------------------------
(* The schema: six migrations of the service's own tables, of which two    *)
(* adapt the OAuth tables that belong to Better Auth.  Those may stem from  *)
(* its older plugin, from the current one (better-auth:schema) or not exist *)
(* when the migrations run.                                                *)
(*                                                                         *)
(* TypeORM applies all pending migrations in one transaction and reverts    *)
(* one at a time: a statement that fails leaves the database as it was.     *)
(* Of the columns only those are kept that a later statement depends on; of *)
(* the rows, the client identifiers that the OAuth tables hold, and in bare *)
(* those with an access token that the current plugin stored: it has no     *)
(* value in the older plugin's column.                                     *)
EXTENDS Naturals

CONSTANT ClientId

VARIABLES
  db,          \* the database
  applied      \* how many of the migrations typeorm_migrations records

schemaVars == <<db, applied>>

OwnTypes ==
  {"users_profile_type_enum", "users_status_enum", "oidc_clients_type_enum",
   "oidc_clients_status_enum", "authorization_codes_code_challenge_method_enum",
   "signing_keys_status_enum", "audit_events_severity_enum"}

TypesOf ==
  [users |-> {"users_profile_type_enum", "users_status_enum"},
   oidc_clients |-> {"oidc_clients_type_enum", "oidc_clients_status_enum"},
   signing_keys |-> {"signing_keys_status_enum"},
   authorization_codes |-> {"authorization_codes_code_challenge_method_enum"},
   audit_events |-> {"audit_events_severity_enum"}]

DirectoryTables ==
  {"users", "groups", "oidc_clients", "signing_keys", "group_memberships",
   "oidc_redirect_uris", "oidc_post_logout_redirect_uris"}

ProtocolTables ==
  {"provider_sessions", "authorization_codes", "refresh_tokens",
   "audit_events"}

OwnTables == DirectoryTables \cup ProtocolTables

ForeignKey(table, column, target) ==
  [table |-> table, column |-> column, target |-> target]

OwnKeys ==
  {ForeignKey("group_memberships", "user_id", "users"),
   ForeignKey("group_memberships", "group_id", "groups"),
   ForeignKey("group_memberships", "created_by", "users"),
   ForeignKey("oidc_redirect_uris", "client_id", "oidc_clients"),
   ForeignKey("oidc_post_logout_redirect_uris", "client_id", "oidc_clients"),
   ForeignKey("provider_sessions", "user_id", "users"),
   ForeignKey("authorization_codes", "client_id", "oidc_clients"),
   ForeignKey("authorization_codes", "user_id", "users"),
   ForeignKey("authorization_codes", "provider_session_id",
              "provider_sessions"),
   ForeignKey("refresh_tokens", "user_id", "users"),
   ForeignKey("refresh_tokens", "client_id", "oidc_clients"),
   ForeignKey("refresh_tokens", "provider_session_id", "provider_sessions"),
   ForeignKey("refresh_tokens", "parent_token_id", "refresh_tokens"),
   ForeignKey("refresh_tokens", "rotated_to_token_id", "refresh_tokens"),
   ForeignKey("audit_events", "actor_user_id", "users"),
   ForeignKey("audit_events", "target_user_id", "users"),
   ForeignKey("audit_events", "client_id", "oidc_clients"),
   ForeignKey("audit_events", "provider_session_id", "provider_sessions")}

InviteKeys ==
  {ForeignKey("user_invites", "user_id", "users"),
   ForeignKey("user_invites", "invited_by_user_id", "users")}

ResetKeys == {ForeignKey("password_resets", "user_id", "users")}

Ciphertext == <<"refresh_tokens", "upstream_refresh_token_ciphertext">>

(* The OAuth tables of Better Auth, with rows that name a client.          *)
Naming == {"oauthAccessToken", "oauthConsent"}
RowTables == Naming \cup {"oauthApplication", "oauthClient"}
OldValue == <<"oauthAccessToken", "accessToken">>
NewValue == <<"oauthAccessToken", "token">>

ClientKey(table, target) == ForeignKey(table, "clientId", target)

RefreshTokenKeys ==
  {ForeignKey("oauthRefreshToken", "clientId", "oauthClient"),
   ForeignKey("oauthRefreshToken", "sessionId", "session"),
   ForeignKey("oauthRefreshToken", "userId", "user")}

AccessTokenKeys ==
  {ForeignKey("oauthAccessToken", "sessionId", "session"),
   ForeignKey("oauthAccessToken", "refreshId", "oauthRefreshToken")}

(* ---- statements: db.ok says that none of a transaction has failed ---- *)

Satisfied(d, k) ==
  k.column = "clientId" /\ k.table \in Naming =>
    d.rows[k.table] \subseteq d.rows[k.target]

CreateTables(d, new) ==
  [d EXCEPT !.tables = @ \cup new, !.ok = @ /\ new \cap d.tables = {}]

DropTables(d, old) ==
  [d EXCEPT
     !.tables = @ \ old,
     !.keys = {k \in @ : k.table \notin old},
     !.columns = {c \in @ : c[1] \notin old},
     !.rows = [t \in RowTables |-> IF t \in old THEN {} ELSE @[t]],
     !.bare = IF "oauthAccessToken" \in old THEN {} ELSE @,
     !.ok = /\ @ /\ old \subseteq d.tables
            /\ \A k \in d.keys : k.target \in old => k.table \in old]

CreateTypes(d, new) ==
  [d EXCEPT !.types = @ \cup new, !.ok = @ /\ new \cap d.types = {}]

DropTypes(d, old) ==
  [d EXCEPT
     !.types = @ \ old,
     !.ok = @ /\ \A t \in d.tables \cap DOMAIN TypesOf :
                   TypesOf[t] \cap old = {}]

AddKeys(d, new) ==
  [d EXCEPT
     !.keys = @ \cup new,
     !.ok = @ /\ \A k \in new : /\ {k.table, k.target} \subseteq d.tables
                                /\ Satisfied(d, k)
                                /\ \A o \in d.keys : ~ /\ o.table = k.table
                                                       /\ o.column = k.column]

DropKeys(d, old) ==
  [d EXCEPT !.keys = @ \ old, !.ok = @ /\ old \subseteq d.keys]

(* addForeignKeyIfMissing knows a constraint by its name only: one that    *)
(* refers to another table counts as there.                                *)
AddMissingKeys(d, wanted) ==
  AddKeys(d, {k \in wanted : ~ \E o \in d.keys : /\ o.table = k.table
                                                  /\ o.column = k.column})

DropKeysOf(d, table, columns) ==
  DropKeys(d, {k \in d.keys : k.table = table /\ k.column \in columns})

AddRows(d, table, ids) == [d EXCEPT !.rows[table] = @ \cup ids]

(* ---- the migrations ---- *)

CreateFoundation(d) ==
  AddKeys(CreateTables(CreateTypes(d, OwnTypes), OwnTables), OwnKeys)

(* What a down that forgets the types would do.                            *)
DropTablesOnly(d) == DropTables(DropKeys(d, OwnKeys), OwnTables)

DropFoundation(d) ==
  DropTypes(DropTables(DropKeys(d, OwnKeys), OwnTables), OwnTypes)

AddCiphertext(d) ==
  [d EXCEPT !.columns = @ \cup {Ciphertext},
            !.ok = @ /\ "refresh_tokens" \in d.tables
                     /\ Ciphertext \notin d.columns]

DropCiphertext(d) ==
  [d EXCEPT !.columns = @ \ {Ciphertext}, !.ok = @ /\ Ciphertext \in d.columns]

CreateIfMissing(d, table, keys) ==
  AddMissingKeys(
    [d EXCEPT !.tables = @ \cup {table}], keys)

(* What a careless edit of the backfill would leave out.                   *)
BackfillNothing(d, table) == d

BackfillMissingOauthClients(d, table) ==
  AddRows(d, "oauthClient", d.rows[table])

CopyApplications(d) ==
  IF "oauthApplication" \in d.tables
  THEN AddRows(d, "oauthClient", d.rows["oauthApplication"])
  ELSE d

(* A token without a value takes the older plugin's, and then none may be   *)
(* left without: the statement that says so refuses the others.            *)
FillTokens(d) ==
  [d EXCEPT !.columns = @ \cup {NewValue},
            !.ok = /\ @ /\ OldValue \in d.columns
                   /\ NewValue \in d.columns \/ d.bare = {}]

AlignAccessTokens(d) ==
  IF "oauthAccessToken" \notin d.tables THEN d
  ELSE LET known == BackfillMissingOauthClients(FillTokens(d),
                                                "oauthAccessToken")
       IN  AddMissingKeys([known EXCEPT !.json = @ \cup {"oauthAccessToken"}],
                          {ClientKey("oauthAccessToken", "oauthClient")}
                            \cup AccessTokenKeys)

AlignConsents(d) ==
  IF "oauthConsent" \notin d.tables THEN d
  ELSE LET known == BackfillMissingOauthClients(d, "oauthConsent")
       IN  AddMissingKeys([known EXCEPT !.json = @ \cup {"oauthConsent"}],
                          {ClientKey("oauthConsent", "oauthClient")})

Align(d) ==
  IF ~ {"user", "session"} \subseteq d.tables THEN d
  ELSE LET clients == CopyApplications(
                        CreateIfMissing(d, "oauthClient",
                          {ForeignKey("oauthClient", "userId", "user")}))
       IN  AlignConsents(AlignAccessTokens(
             CreateIfMissing(clients, "oauthRefreshToken", RefreshTokenKeys)))

UnalignAccessTokens(d) ==
  [DropKeysOf(d, "oauthAccessToken", {"refreshId", "sessionId", "clientId"})
     EXCEPT !.columns = @ \ {NewValue}, !.json = @ \ {"oauthAccessToken"}]

UnalignConsents(d) ==
  [DropKeysOf(d, "oauthConsent", {"clientId"})
     EXCEPT !.json = @ \ {"oauthConsent"}]

DropIfExists(d, table) ==
  IF table \in d.tables THEN DropTables(d, {table}) ELSE d

Unalign(d) ==
  DropIfExists(DropIfExists(UnalignConsents(UnalignAccessTokens(d)),
                            "oauthRefreshToken"),
               "oauthClient")

RepointTo(d, table, target) ==
  IF ClientKey(table, target) \in d.keys THEN d
  ELSE AddKeys(DropKeysOf(d, table, {"clientId"}), {ClientKey(table, target)})

(* In a table that is there; prepared is d with the clients filled in.      *)
RepointTable(d, prepared, table, target) ==
  IF table \in d.tables THEN RepointTo(prepared, table, target) ELSE d

(* Every client id that a row refers to gets a row in oauthClient first.    *)
RepointBackfilled(d, table) ==
  RepointTable(d, BackfillMissingOauthClients(d, table), table, "oauthClient")

Repoint(d) ==
  IF "oauthClient" \notin d.tables THEN d
  ELSE RepointBackfilled(RepointBackfilled(d, "oauthAccessToken"),
                         "oauthConsent")

Unrepoint(d) ==
  IF "oauthApplication" \notin d.tables THEN d
  ELSE LET tokens == RepointTable(d, d, "oauthAccessToken", "oauthApplication")
       IN  RepointTable(tokens, tokens, "oauthConsent", "oauthApplication")

CreateUserInvites(d) ==
  AddKeys(CreateTables(d, {"user_invites"}), InviteKeys)

DropUserInvites(d) ==
  DropTables(DropKeys(d, InviteKeys), {"user_invites"})

CreatePasswordResets(d) ==
  AddKeys(CreateTables(d, {"password_resets"}), ResetKeys)

DropPasswordResets(d) ==
  DropTables(DropKeys(d, ResetKeys), {"password_resets"})

DATABASE_MIGRATIONS == 1 .. 6

Up(d, n) ==
  CASE n = 1 -> CreateFoundation(d)
    [] n = 2 -> AddCiphertext(d)
    [] n = 3 -> Align(d)
    [] n = 4 -> Repoint(d)
    [] n = 5 -> CreateUserInvites(d)
    [] n = 6 -> CreatePasswordResets(d)

Down(d, n) ==
  CASE n = 1 -> DropFoundation(d)
    [] n = 2 -> DropCiphertext(d)
    [] n = 3 -> Unalign(d)
    [] n = 4 -> Unrepoint(d)
    [] n = 5 -> DropUserInvites(d)
    [] n = 6 -> DropPasswordResets(d)

(* Migration n, unless typeorm_migrations records it.                       *)
Pending(d, n) == IF applied < n THEN Up(d, n) ELSE d

AfterRun ==
  Pending(Pending(Pending(Pending(Pending(Pending(db, 1), 2), 3), 4), 5), 6)

AfterRevert == Down(db, applied)

(* ---- Better Auth ---- *)

Empty ==
  [tables |-> {}, types |-> {}, keys |-> {}, columns |-> {}, json |-> {},
   rows |-> [t \in RowTables |-> {}], bare |-> {}, ok |-> TRUE]

(* The tables of the older plugin, with or without their foreign keys.     *)
Legacy(apps, tokens, consents, keyed) ==
  [Empty EXCEPT
     !.tables = {"user", "session", "oauthApplication"} \cup Naming,
     !.columns = {OldValue},
     !.keys = IF keyed THEN {ClientKey(t, "oauthApplication") : t \in Naming}
                       ELSE {},
     !.rows = [oauthApplication |-> apps, oauthClient |-> {},
               oauthAccessToken |-> tokens, oauthConsent |-> consents]]

PluginKeys ==
  {ForeignKey("oauthClient", "userId", "user")}
    \cup RefreshTokenKeys \cup AccessTokenKeys
    \cup {ClientKey(t, "oauthClient") : t \in Naming}

PluginTables ==
  {"user", "session", "oauthClient", "oauthRefreshToken"} \cup Naming

SchemaInit ==
  /\ applied = 0
  /\ \/ db = Empty
     \/ \E apps, tokens, consents \in SUBSET ClientId, keyed \in BOOLEAN :
          /\ keyed => (tokens \cup consents) \subseteq apps
          /\ db = Legacy(apps, tokens, consents, keyed)

(* better-auth:schema creates what the current plugin lacks; a column that *)
(* must not be null can be added to an empty table only.                   *)
Materialize ==
  LET missing == PluginTables \ db.tables
      old == "oauthAccessToken" \in db.tables /\ NewValue \notin db.columns
  IN  /\ old => db.rows["oauthAccessToken"] = {}
      /\ db' = [AddKeys(CreateTables(db, missing),
                        {k \in PluginKeys : k.table \in missing})
                  EXCEPT !.columns = @ \cup {NewValue},
                         !.json = @ \cup (missing \cap Naming)]
      /\ UNCHANGED applied

(* The running service registers clients and stores what it grants them.   *)
Register(c) ==
  /\ "oauthClient" \in db.tables
  /\ db' = AddRows(db, "oauthClient", {c})
  /\ UNCHANGED applied

Grant(c, table) ==
  /\ NewValue \in db.columns
  /\ c \in db.rows["oauthClient"]
  /\ db' = [AddRows(db, table, {c})
              EXCEPT !.bare = IF table = "oauthAccessToken" THEN @ \cup {c}
                                                            ELSE @]
  /\ \A k \in db.keys : Satisfied(db', k)
  /\ UNCHANGED applied

(* ---- migration:run and migration:revert ---- *)

RunMigrations ==
  /\ applied < 6
  /\ AfterRun.ok
  /\ db' = AfterRun
  /\ applied' = 6

RevertMigration ==
  /\ applied > 0
  /\ AfterRevert.ok
  /\ db' = AfterRevert
  /\ applied' = applied - 1

SchemaNext ==
  \/ RunMigrations
  \/ RevertMigration
  \/ Materialize
  \/ \E c \in ClientId : Register(c)
  \/ \E c \in ClientId, t \in Naming : Grant(c, t)

SchemaSpec == SchemaInit /\ [][SchemaNext]_schemaVars

-----------------------------------------------------------------------------

At(n, m, S) == IF n >= m THEN S ELSE {}

AppTables == PluginTables \cup {"oauthApplication"}
AppKeys == PluginKeys \cup {ClientKey(t, "oauthApplication") : t \in Naming}

SchemaTables == OwnTables \cup {"user_invites", "password_resets"} \cup AppTables
ForeignKeys == OwnKeys \cup InviteKeys \cup ResetKeys \cup AppKeys

Database ==
  [tables : SUBSET SchemaTables,
   types : SUBSET OwnTypes,
   keys : SUBSET ForeignKeys,
   columns : SUBSET {Ciphertext, OldValue, NewValue},
   json : SUBSET Naming,
   rows : [RowTables -> SUBSET ClientId],
   bare : SUBSET ClientId,
   ok : BOOLEAN]

SchemaTypeOK == db \in Database /\ applied \in 0 .. 6 /\ db.ok

(* What the database holds once the first n migrations are applied and the  *)
(* others are not: each of the service's tables, keys, types and columns    *)
(* exactly while its migration is applied.                                 *)
Recorded(d, n) ==
  /\ d.types = At(n, 1, OwnTypes)
  /\ d.tables \ AppTables =
       At(n, 1, OwnTables) \cup At(n, 5, {"user_invites"})
         \cup At(n, 6, {"password_resets"})
  /\ d.keys \ AppKeys =
       At(n, 1, OwnKeys) \cup At(n, 5, InviteKeys) \cup At(n, 6, ResetKeys)
  /\ d.columns \ {OldValue, NewValue} = At(n, 2, {Ciphertext})

(* No foreign key dangles, in the schema or in the rows, what is gone has   *)
(* no rows, and bare names clients of access tokens that are there.        *)
Sound(d) ==
  /\ \A k \in d.keys : {k.table, k.target} \subseteq d.tables /\ Satisfied(d, k)
  /\ \A t \in RowTables : t \in d.tables \/ d.rows[t] = {}
  /\ d.bare \subseteq d.rows["oauthAccessToken"]

(* Better Auth's tables come together: those both plugins have, and those   *)
(* of the current one, which an alignment makes of the older one's.        *)
AppTablesTogether(d, n) ==
  /\ \A t \in {"user", "session"} \cup Naming : t \in d.tables <=> "user" \in d.tables
  /\ "oauthClient" \in d.tables <=> "oauthRefreshToken" \in d.tables
  /\ {"oauthClient", "oauthApplication"} \cap d.tables # {} => "user" \in d.tables
  /\ n >= 3 /\ "user" \in d.tables => "oauthClient" \in d.tables
  /\ NewValue \in d.columns => "oauthAccessToken" \in d.tables

(* Of what the current plugin needs, and as far as it is modelled: once     *)
(* aligned there is the column of a token's value, the scopes are JSON, and *)
(* every registered application is a client, whichever plugin made the     *)
(* tables; once repointed the keys refer to oauthClient, and every client  *)
(* that a row names is one.                                                *)
FitForPlugin(d, n) ==
  n >= 3 /\ "oauthClient" \in d.tables =>
    /\ Naming \subseteq d.json
    /\ NewValue \in d.columns
    /\ d.rows["oauthApplication"] \subseteq d.rows["oauthClient"]
    /\ n >= 4 => \A t \in Naming :
         /\ ClientKey(t, "oauthClient") \in d.keys
         /\ d.rows[t] \subseteq d.rows["oauthClient"]

(* What typeorm_migrations records is what the database holds, whatever was *)
(* run, reverted, materialised and registered before; no foreign key        *)
(* dangles; and the token column, the scopes and the client keys are those *)
(* of the current plugin from the migrations on that adapt them.           *)
SchemaSound ==
  /\ SchemaTypeOK
  /\ Recorded(db, applied)
  /\ Sound(db)
  /\ AppTablesTogether(db, applied)
  /\ FitForPlugin(db, applied)

(* A pending run is refused by the alignment only, for access tokens whose  *)
(* value it cannot fill in: their table never had the older plugin's column *)
(* (schema materialised first, and perhaps aligned and reverted), or the    *)
(* current plugin stored some after an alignment that was then reverted,    *)
(* which dropped the only column they had a value in.  A revert is refused  *)
(* only when the keys cannot go back to oauthApplication for a client       *)
(* registered since.                                                       *)
RefusedOnlyFor ==
  /\ applied < 6 /\ ~ AfterRun.ok =>
       /\ applied < 3 /\ "oauthAccessToken" \in db.tables
       /\ \/ OldValue \notin db.columns
          \/ NewValue \notin db.columns /\ db.bare # {}
  /\ applied > 0 /\ ~ AfterRevert.ok =>
       /\ applied = 4
       /\ \E t \in Naming :
            ~ db.rows[t] \subseteq db.rows["oauthApplication"]
=============================================================================
