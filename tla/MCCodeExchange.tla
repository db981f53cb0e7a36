-------------------------- MODULE MCCodeExchange ---------------------------
(* Small instances of CodeExchange for TLC.                                *)
EXTENDS CodeExchange, TLC

(* Identities of codes, families and requests are interchangeable.         *)
Symmetry == Permutations(Code) \cup Permutations(Family) \cup
            Permutations(Request)
=============================================================================
