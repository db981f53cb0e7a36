------------------------- MODULE MCRevocationWindow -------------------------
(* Two overlapping requests of which one may revoke what the other issues. *)
EXTENDS RevocationWindow, TLC

(* Token, request and user identities are interchangeable.                 *)
Symmetry == Permutations(Token) \cup Permutations(Request) \cup
            Permutations(User)
=============================================================================
