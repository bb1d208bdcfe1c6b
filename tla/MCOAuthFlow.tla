---------------------------- MODULE MCOAuthFlow ----------------------------
(* Instances of OAuthFlow for TLC. *)
EXTENDS OAuthFlow, TLC

(* Requests that cannot fail differ only by name. *)
Symmetry == Permutations(Requests \ (Unreliable \cup Unsigned))

=============================================================================
