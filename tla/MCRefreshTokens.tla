-------------------------- MODULE MCRefreshTokens --------------------------
(* Instances of RefreshTokens for TLC. *)
EXTENDS RefreshTokens, TLC

(* Requests differ only by name, and all of them or none is Unreliable. *)
Symmetry == Permutations(Requests)

=============================================================================
