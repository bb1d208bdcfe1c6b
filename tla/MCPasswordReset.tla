-------------------------- MODULE MCPasswordReset --------------------------
(* Instances of PasswordReset for TLC. *)
EXTENDS PasswordReset, TLC

(* Requests of one reliability differ only by name, and so do users. *)
Symmetry ==
  Permutations(Requests \ Unreliable) \cup Permutations(Unreliable)
    \cup Permutations(Users)

=============================================================================
