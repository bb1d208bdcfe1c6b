---------------------------- MODULE OneTimeToken ----------------------------
(***************************************************************************)
(* What auth-service promises of everything it hands out to be used once   *)
(* (reset tokens, and a login through a provider from its OAuth state to   *)
(* the session it ends in): it works at most once, for one taker, and only *)
(* if the service issued it.                                               *)
(***************************************************************************)

CONSTANTS Tokens, Takers

VARIABLES
  issued,  \* the tokens the service has issued
  taken    \* who has used each of them, as a set of at most one taker

vars == <<issued, taken>>

Init ==
  /\ issued = {}
  /\ taken = [t \in Tokens |-> {}]

Issue(t) ==
  /\ t \notin issued
  /\ issued' = issued \cup {t}
  /\ UNCHANGED taken

Take(t, r) ==
  /\ t \in issued
  /\ taken[t] = {}
  /\ taken' = [taken EXCEPT ![t] = {r}]
  /\ UNCHANGED issued

Next ==
  \E t \in Tokens :
    \/ Issue(t)
    \/ \E r \in Takers : Take(t, r)

Spec == Init /\ [][Next]_vars

=============================================================================
