---------------------------- MODULE SigningKeys ----------------------------
(***************************************************************************)
(* The signing_keys table and the requests that use it: the JWKS endpoint, *)
(* the signing of tokens, the verification of an access token by userinfo  *)
(* and of an id_token_hint by the logout endpoint.  They all begin with    *)
(* getOrCreateActiveSigningKey, which looks for an active key and, if it   *)
(* finds none, creates one; no lock and no unique index joins the two.     *)
(* Operators add and disable keys by hand (docs/OPERATIONS.md).            *)
(***************************************************************************)
EXTENDS Requests

CONSTANT Key

ASSUME KeyAssumption ==
  /\ IsFiniteSet(Key)
  /\ Null \notin Key
  /\ "user" \notin Key
  /\ "client" \notin Key

VARIABLES
  keyStatus,   \* the status column, "none" where there is no row
  people,      \* which of the token's user and client are active
  issued,      \* the keys of the tokens handed out
  unexpired,   \* those of which some token has not expired
  made,        \* keys the program has made since none was active
  keyJob       \* what each slot is doing

keyVars == <<keyStatus, people, issued, unexpired, made, keyJob>>

-----------------------------------------------------------------------------
Person    == {"user", "client"}

(* The one status the program looks for, and the one it writes, is active: *)
(* a key that is pending, retiring, retired or compromised is passed over  *)
(* by every query alike, and "disabled" stands for these four.             *)
KeyStatus == {"none", "active", "disabled"}
KeyUse    == {"jwks", "sign", "userInfo", "verifyIdTokenHint"}

(* token is the key that signed the token presented; seen is a history:    *)
(* what was active at some time since the request began.                   *)
KeyJob == [phase : {"idle", "find", "create", "use", "user", "client",
                    "answer"},
           op    : KeyUse \cup {Null},
           token : Key \cup {Null},
           key   : Key \cup {Null},
           seen  : SUBSET (Key \cup Person)]

KeyIdle == [phase |-> "idle", op |-> Null, token |-> Null, key |-> Null,
            seen |-> {}]

ActiveKeys == {k \in Key : keyStatus[k] = "active"}
Creating   == {p \in Request : keyJob[p].phase = "create"}

KeyTypeOK ==
  /\ keyStatus \in [Key -> KeyStatus]
  /\ people \subseteq Person
  /\ issued \subseteq Key
  /\ unexpired \subseteq issued
  /\ made \in Nat
  /\ keyJob \in [Request -> KeyJob]
  /\ \A p \in Request :
       /\ keyJob[p].phase \in {"use", "user", "client", "answer"} =>
            keyJob[p].key \in Key
       /\ keyJob[p].phase # "idle"
            /\ keyJob[p].op \in {"userInfo", "verifyIdTokenHint"} =>
            keyJob[p].token \in Key

KeyInit ==
  /\ keyStatus = [k \in Key |-> "none"]
  /\ people = Person
  /\ issued = {}
  /\ unexpired = {}
  /\ made = 0
  /\ keyJob = [p \in Request |-> KeyIdle]

-----------------------------------------------------------------------------
(* One request.                                                            *)

KeyGoto(p, j)   == keyJob' = [keyJob EXCEPT ![p] = j]
KeyAdvance(p, ph) == KeyGoto(p, [keyJob[p] EXCEPT !.phase = ph])
KeyEnd(p)       == KeyGoto(p, KeyIdle)

(* Everyone still running has now seen x active.                           *)
Witnessed(jobs, x) ==
  [p \in Request |->
     IF jobs[p].phase = "idle" THEN jobs[p]
     ELSE [jobs[p] EXCEPT !.seen = @ \cup {x}]]

BeginKeyUse(p) ==
  /\ keyJob[p].phase = "idle"
  /\ \E op \in KeyUse, t \in issued \cup {Null} :
       /\ (t = Null) = (op \in {"jwks", "sign"})
       /\ KeyGoto(p, [phase |-> "find", op |-> op, token |-> t,
                      key |-> Null,
                      seen |-> ActiveKeys \cup people])
  /\ UNCHANGED <<keyStatus, people, issued, unexpired, made>>

(* Mutant: a key is created whatever was found.                            *)
FindNoKey(p) ==
  /\ keyJob[p].phase = "find"
  /\ KeyAdvance(p, "create")
  /\ UNCHANGED <<keyStatus, people, issued, unexpired, made>>

(* findOne has no order: any active key may come.                          *)
FindKey(p) ==
  /\ keyJob[p].phase = "find"
  /\ \/ \E k \in ActiveKeys :
          KeyGoto(p, [keyJob[p] EXCEPT !.phase = "use", !.key = k])
     \/ ActiveKeys = {} /\ KeyAdvance(p, "create")
  /\ UNCHANGED <<keyStatus, people, issued, unexpired, made>>

CreateKey(p) ==
  /\ keyJob[p].phase = "create"
  /\ \E k \in Key :
       /\ keyStatus[k] = "none"
       /\ keyStatus' = [keyStatus EXCEPT ![k] = "active"]
       /\ keyJob' = Witnessed([keyJob EXCEPT ![p].phase = "use",
                                             ![p].key = k], k)
  /\ made' = made + 1
  /\ UNCHANGED <<people, issued, unexpired>>

ServeJwks(p) ==
  /\ keyJob[p].phase = "use" /\ keyJob[p].op = "jwks"
  /\ KeyEnd(p)
  /\ UNCHANGED <<keyStatus, people, issued, unexpired, made>>

Sign(p) ==
  /\ keyJob[p].phase = "use" /\ keyJob[p].op = "sign"
  /\ issued' = issued \cup {keyJob[p].key}
  /\ unexpired' = unexpired \cup {keyJob[p].key}
  /\ KeyEnd(p)
  /\ UNCHANGED <<keyStatus, people, made>>

(* Only userinfo looks at the expiry: a logout hint may be old.            *)
Verifies(j) ==
  /\ j.token = j.key
  /\ j.op = "userInfo" => j.token \in unexpired

Verify(p) ==
  /\ keyJob[p].phase = "use" /\ keyJob[p].token # Null
  /\ Verifies(keyJob[p])
  /\ IF keyJob[p].op = "userInfo" THEN KeyAdvance(p, "user") ELSE KeyEnd(p)
  /\ UNCHANGED <<keyStatus, people, issued, unexpired, made>>

Refuse(p) ==
  /\ keyJob[p].phase = "use" /\ keyJob[p].token # Null
  /\ ~ Verifies(keyJob[p])
  /\ KeyEnd(p)
  /\ UNCHANGED <<keyStatus, people, issued, unexpired, made>>

(* The user is read, then the client, and both are judged afterwards.      *)
ReadUser(p) ==
  /\ keyJob[p].phase = "user"
  /\ IF "user" \in people THEN KeyAdvance(p, "client") ELSE KeyEnd(p)
  /\ UNCHANGED <<keyStatus, people, issued, unexpired, made>>

ReadClient(p) ==
  /\ keyJob[p].phase = "client"
  /\ IF "client" \in people THEN KeyAdvance(p, "answer") ELSE KeyEnd(p)
  /\ UNCHANGED <<keyStatus, people, issued, unexpired, made>>

AnswerClaims(p) ==
  /\ keyJob[p].phase = "answer"
  /\ KeyEnd(p)
  /\ UNCHANGED <<keyStatus, people, issued, unexpired, made>>

FailKeyUse(p) ==
  /\ keyJob[p].phase # "idle"
  /\ KeyEnd(p)
  /\ UNCHANGED <<keyStatus, people, issued, unexpired, made>>

-----------------------------------------------------------------------------
(* The operators' rotation, administrators and time.                       *)

(* A key written in another status is as if it were not there until it is   *)
(* made active.                                                            *)
AddKey(k) ==
  /\ keyStatus[k] = "none"
  /\ keyStatus' = [keyStatus EXCEPT ![k] = "active"]
  /\ keyJob' = Witnessed(keyJob, k)
  /\ UNCHANGED <<people, issued, unexpired, made>>

DisableKey(k) ==
  /\ keyStatus[k] = "active"
  /\ keyStatus' = [keyStatus EXCEPT ![k] = "disabled"]
  /\ made' = IF ActiveKeys = {k} THEN 0 ELSE made
  /\ UNCHANGED <<people, issued, unexpired, keyJob>>

SwitchPerson(x) ==
  /\ people' = IF x \in people THEN people \ {x} ELSE people \cup {x}
  /\ keyJob' = IF x \in people THEN keyJob ELSE Witnessed(keyJob, x)
  /\ UNCHANGED <<keyStatus, issued, unexpired, made>>

(* The last token that was signed with k expires.                          *)
Expire(k) ==
  /\ k \in unexpired
  /\ unexpired' = unexpired \ {k}
  /\ UNCHANGED <<keyStatus, people, issued, made, keyJob>>

KeyStep(p) ==
  \/ BeginKeyUse(p) \/ FindKey(p) \/ CreateKey(p) \/ ServeJwks(p)
  \/ Sign(p) \/ Verify(p) \/ Refuse(p) \/ ReadUser(p) \/ ReadClient(p)
  \/ AnswerClaims(p) \/ FailKeyUse(p)

KeyNext ==
  \/ \E p \in Request : KeyStep(p)
  \/ \E k \in Key : AddKey(k) \/ DisableKey(k) \/ Expire(k)
  \/ \E x \in Person : SwitchPerson(x)

KeySpec == KeyInit /\ [][KeyNext]_keyVars

-----------------------------------------------------------------------------
(* First requests that overlap may each make a key, but never more than    *)
(* one each, and no request makes another once a key is active: the keys   *)
(* made since the table last had no active key, and those still being made,*)
(* are at most as many as there are requests at a time.                    *)
BoundedCreation == made + Cardinality(Creating) <= Cardinality(Request)

(* What a request relies on was active while it ran: the key it signs with,*)
(* verifies against or serves, and the user and the client for whom it     *)
(* answers claims.                                                         *)
UsedWasActive ==
  \A p \in Request :
    /\ keyJob[p].phase \in {"use", "user", "client", "answer"} =>
         keyJob[p].key \in keyJob[p].seen
    /\ keyJob[p].phase \in {"client", "answer"} =>
         "user" \in keyJob[p].seen
    /\ keyJob[p].phase = "answer" => "client" \in keyJob[p].seen

(* What every running request has seen includes whatever is active now.    *)
SeesWhatIsActive ==
  \A p \in Request : keyJob[p].phase # "idle" =>
    ActiveKeys \cup people \subseteq keyJob[p].seen

KeyIndInv ==
  /\ KeyTypeOK
  /\ BoundedCreation
  /\ UsedWasActive
  /\ SeesWhatIsActive
  /\ ActiveKeys = {} => made = 0
=============================================================================
