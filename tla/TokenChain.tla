----------------------------- MODULE TokenChain -----------------------------
(***************************************************************************)
(* What the refresh-token table promises, without requests, locks, copies  *)
(* or time: families of tokens in which a token is live until it is        *)
(* exchanged for its only successor or revoked, and never again.           *)
(***************************************************************************)
CONSTANTS Token, Null

VARIABLES
  family,   \* the family of an issued token, Null of an identity not issued
  live      \* the tokens that can still be exchanged

chainVars == <<family, live>>

Issued == {t \in Token : family[t] # Null}

ChainInit ==
  /\ family = [t \in Token |-> Null]
  /\ live = {}

(* A new family of one token. *)
Issue(t) ==
  /\ t \notin Issued
  /\ family' = [family EXCEPT ![t] = t]
  /\ live' = live \cup {t}

(* A live token is replaced by a new one of its family. *)
Exchange(t, s) ==
  /\ t \in live /\ s \notin Issued
  /\ family' = [family EXCEPT ![s] = family[t]]
  /\ live' = (live \ {t}) \cup {s}

(* Some live tokens are revoked together. *)
Revoke(S) ==
  /\ S \subseteq live
  /\ live' = live \ S
  /\ UNCHANGED family

ChainNext ==
  \/ \E t \in Token : Issue(t)
  \/ \E t, s \in Token : Exchange(t, s)
  \/ \E S \in SUBSET live : Revoke(S)

ChainSpec == ChainInit /\ [][ChainNext]_chainVars
=============================================================================
