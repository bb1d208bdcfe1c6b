--------------------------- MODULE MCAccessTokens ---------------------------
(* Instances of AccessTokens for TLC. *)
EXTENDS AccessTokens, TLC

(* Requests differ only by name, and so do processes, and key pairs. *)
Symmetry ==
  Permutations(Requests) \cup Permutations(Processes) \cup Permutations(Keys)

=============================================================================
