-------------------------- MODULE RotatingSession --------------------------
(***************************************************************************)
(* What the refresh tokens of auth-service promise, whatever the database  *)
(* does underneath: every login opens a session, at any time a session has *)
(* exactly one live token or has ended, a live token is replaced at most   *)
(* once, by a token never seen before, and an ended session never resumes. *)
(* A session is named by its first token.                                  *)
(***************************************************************************)

CONSTANT Tokens

VARIABLES
  live,   \* the live token of each session, as a set of at most one
  spent   \* the tokens that have been replaced or ended

vars == <<live, spent>>

Fresh(t) ==
  /\ t \notin spent
  /\ \A c \in Tokens : t \notin live[c]

Init ==
  /\ live = [c \in Tokens |-> {}]
  /\ spent = {}

(* A login: the session's first token is new, so the session is too. *)
Begin(c) ==
  /\ Fresh(c)
  /\ live[c] = {}
  /\ live' = [live EXCEPT ![c] = {c}]
  /\ UNCHANGED spent

(* A refresh trades the live token for a new one. *)
Advance(c) ==
  \E old, new \in Tokens :
    /\ live[c] = {old}
    /\ Fresh(new)
    /\ live' = [live EXCEPT ![c] = {new}]
    /\ spent' = spent \cup {old}

(* Expiry, a logout or a detected theft ends the session. *)
End(c) ==
  \E old \in Tokens :
    /\ live[c] = {old}
    /\ live' = [live EXCEPT ![c] = {}]
    /\ spent' = spent \cup {old}

Next == \E c \in Tokens : Begin(c) \/ Advance(c) \/ End(c)

Spec == Init /\ [][Next]_vars

=============================================================================
