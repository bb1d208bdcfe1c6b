---------------------------- MODULE MCAccounts ----------------------------
(* Instances of Accounts for TLC. *)
EXTENDS Accounts, TLC

(* Requests and addresses differ only by name. *)
Symmetry == Permutations(Requests) \cup Permutations(Emails)

=============================================================================
