------------------------------ MODULE MCSchema ------------------------------
(* Instances of Schema for TLC. *)
EXTENDS Schema, TLC

(* Runs that are told and may suffer the same differ only by name. *)
Symmetry ==
  Permutations(Operators) \cup Permutations(Migrators \ Operators)

=============================================================================
