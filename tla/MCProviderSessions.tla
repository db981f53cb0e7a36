------------------------- MODULE MCProviderSessions -------------------------
(* Small instances of ProviderSessions for TLC.                            *)
EXTENDS ProviderSessions, TLC

(* Identities of sessions, codes, users and requests are interchangeable.  *)
Symmetry == Permutations(Session) \cup Permutations(Request) \cup
            Permutations(User) \cup Permutations(Code)
=============================================================================
