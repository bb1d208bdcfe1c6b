----------------------------- MODULE MCBrowser -----------------------------
(* Instances of Browser for TLC.  No symmetry: its run checks liveness. *)
EXTENDS Browser

=============================================================================
