-------------------------- MODULE MCRefreshTokens --------------------------
(* Small instances of RefreshTokens for TLC.                               *)
EXTENDS RefreshTokens, TLC

(* Token and request identities are interchangeable, so are users.         *)
Symmetry == Permutations(Token) \cup Permutations(Request) \cup
            Permutations(User)
=============================================================================
