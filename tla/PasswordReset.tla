--------------------------- MODULE PasswordReset ---------------------------
(***************************************************************************)
(* Passwords and the ways to use, recover and replace them: POST           *)
(* /auth/password/reset-request (a token is committed, then mailed), POST  *)
(* /auth/password/reset (the token is consumed in one transaction, the     *)
(* password written in the next), POST /auth/login (the password is read   *)
(* and verified in one transaction, the session opened in the next), and   *)
(* POST /auth/username/find (a lookup, then a mail).                       *)
(*                                                                         *)
(* Consuming a token is one step, as in OAuthFlow: a conditional UPDATE of *)
(* one row and the COMMIT that follows at once.                            *)
(*                                                                         *)
(* A token is named by the request that minted it, a password by the reset *)
(* that chose it; First is the password of the signup, and None stands for *)
(* the missing password_hash of an account made through a provider.        *)
(* Identifiers are unambiguous here; Accounts is about those that are not. *)
(***************************************************************************)

CONSTANTS
  Requests,   \* the HTTP requests that may arrive
  Unreliable, \* those whose process, database or mail connection may die
  Users,      \* the accounts with an e-mail address
  First,      \* the password an account was signed up with
  None        \* no password, no account, or a token never issued

ASSUME PasswordResetAssumption ==
  /\ Unreliable \subseteq Requests
  /\ None \notin Requests \cup Users \cup {First}
  /\ First \notin Requests

VARIABLES
  password,  \* committed users: the password of each
  mintedFor, \* committed password_resets: the user of each token, or None
  used,      \* tokens with used = true
  expired,   \* tokens whose expires_at has passed
  mailed,    \* tokens whose e-mail was sent
  sessions,  \* logins that opened a refresh-token chain
  late,      \* history: logins with the First password that arrived after
             \* the service had told that user it was changed
  pc,        \* where each request stands; Answered values are final
  user,      \* the user a request is about, once it knows
  arg        \* the token a reset presents, the password a login does

tables == <<password, mintedFor, used, sessions>>
outside == <<expired, mailed, late>>
request == <<user, arg>>
vars == <<tables, outside, pc, request>>

-----------------------------------------------------------------------------

(* "accepted": reset-request's and find's 202.  "changed": reset's 204.    *)
(* "rejected": reset's 400.  "signedIn" and "denied": login's 200 and 401. *)
(* "error": a 500, or the process died.                                    *)
Answered == {"accepted", "changed", "rejected", "signedIn", "denied", "error"}

Running == {"mint", "mail", "remind", "consume", "write", "verify", "issue"}

Tokens == {t \in Requests : mintedFor[t] # None}

(* Where a request that presented a valid token may stand: its password is *)
(* chosen, and perhaps written.                                            *)
Resetting == {"write", "changed"}

(* r was a reset that has told user u its password is changed. *)
ToldChanged(r, u) == pc[r] = "changed" /\ user[r] = u

Goto(r, label) == pc' = [pc EXCEPT ![r] = label]

Init ==
  /\ password \in [Users -> {First, None}]
  /\ mintedFor = [t \in Requests |-> None]
  /\ used = {}
  /\ expired = {}
  /\ mailed = {}
  /\ sessions = {}
  /\ late = {}
  /\ pc = [r \in Requests |-> "idle"]
  /\ user = [r \in Requests |-> None]
  /\ arg = [r \in Requests |-> None]

-----------------------------------------------------------------------------
(* Faulty variants of helpers and actions below, with one plausible bug    *)
(* each; no specification uses them, each breaks one of the properties.    *)

(* Found without the test for None. *)
Anybody == Users \cup {None}

(* Live without the expiry condition. *)
Eternal == Tokens \ used

(* Spend that leaves the row to be used again. *)
Keep(t) == UNCHANGED used

(* WritePassword that refuses the new password only now, the token gone. *)
LateValidation(r) ==
  /\ pc[r] = "write"
  /\ \/ password' = [password EXCEPT ![user[r]] = r] /\ Goto(r, "changed")
     \/ UNCHANGED password /\ Goto(r, "rejected")
  /\ UNCHANGED <<mintedFor, used, sessions, outside, request>>

(* SetHash that no commit follows. *)
Uncommitted(u, p) == UNCHANGED password

-----------------------------------------------------------------------------
(* reset_request *)

(* The accounts a lookup may find with an e-mail address. *)
Found == Users

AskReset(r) ==
  /\ pc[r] = "idle"
  /\ \/ \E u \in Found : user' = [user EXCEPT ![r] = u] /\ Goto(r, "mint")
     \/ Goto(r, "accepted") /\ UNCHANGED user
  /\ UNCHANGED <<tables, outside, arg>>

MintToken(r) ==
  /\ pc[r] = "mint"
  /\ mintedFor' = [mintedFor EXCEPT ![r] = user[r]]
  /\ Goto(r, "mail")
  /\ UNCHANGED <<password, used, sessions, outside, request>>

(* send_reset_email, after the commit: if it fails the token stays behind. *)
SendMail(r) ==
  /\ pc[r] = "mail"
  /\ mailed' = mailed \cup {r}
  /\ Goto(r, "accepted")
  /\ UNCHANGED <<tables, expired, late, request>>

-----------------------------------------------------------------------------
(* find_username *)

(* The lookup: an account that has a username, which is mailed to the      *)
(* address of the same row, or nothing to send.                            *)
FindUsername(r) ==
  /\ pc[r] = "idle"
  /\ \E label \in {"remind", "accepted"} : Goto(r, label)
  /\ UNCHANGED <<tables, outside, request>>

SendUsername(r) ==
  /\ pc[r] = "remind"
  /\ Goto(r, "accepted")
  /\ UNCHANGED <<tables, outside, request>>

-----------------------------------------------------------------------------
(* reset *)

PresentToken(r) ==
  /\ pc[r] = "idle"
  /\ \E t \in mailed \cup {None} : arg' = [arg EXCEPT ![r] = t]
  /\ Goto(r, "consume")
  /\ UNCHANGED <<tables, outside, user>>

(* The tokens that the UPDATE of _consume_token still finds. *)
Live == Tokens \ (used \cup expired)

(* SET used = true *)
Spend(t) == used' = used \cup {t}

(* _consume_token *)
ConsumeToken(r) ==
  /\ pc[r] = "consume"
  /\ arg[r] \in Live
  /\ Spend(arg[r])
  /\ user' = [user EXCEPT ![r] = mintedFor[arg[r]]]
  /\ Goto(r, "write")
  /\ UNCHANGED <<password, mintedFor, sessions, outside, arg>>

RejectToken(r) ==
  /\ pc[r] = "consume"
  /\ arg[r] \notin Live
  /\ Goto(r, "rejected")
  /\ UNCHANGED <<tables, outside, request>>

(* The new hash, in a transaction of its own. *)
SetHash(u, p) == password' = [password EXCEPT ![u] = p]

WritePassword(r) ==
  /\ pc[r] = "write"
  /\ SetHash(user[r], r)
  /\ Goto(r, "changed")
  /\ UNCHANGED <<mintedFor, used, sessions, outside, request>>

-----------------------------------------------------------------------------
(* login *)

(* Somebody types the password of the signup, or one chosen in a reset.    *)
Login(r) ==
  /\ pc[r] = "idle"
  /\ \E u \in Users,
        p \in {First} \cup {s \in Requests : pc[s] \in Resetting} :
       /\ user' = [user EXCEPT ![r] = u]
       /\ arg' = [arg EXCEPT ![r] = p]
       /\ late' = late \cup
            {q \in {r} : p = First /\ \E s \in Requests : ToldChanged(s, u)}
  /\ Goto(r, "verify")
  /\ UNCHANGED <<tables, expired, mailed>>

(* The lookup, and verify_password on the hash it read. *)
Verify(r) ==
  /\ pc[r] = "verify"
  /\ Goto(r, IF password[user[r]] = arg[r] THEN "issue" ELSE "denied")
  /\ UNCHANGED <<tables, outside, request>>

(* issue_refresh, in a transaction of its own *)
OpenSession(r) ==
  /\ pc[r] = "issue"
  /\ sessions' = sessions \cup {r}
  /\ Goto(r, "signedIn")
  /\ UNCHANGED <<password, mintedFor, used, outside, request>>

-----------------------------------------------------------------------------

(* Time passes the expires_at of an unused token. *)
Expire(t) ==
  /\ t \in Live
  /\ expired' = expired \cup {t}
  /\ UNCHANGED <<tables, mailed, late, pc, request>>

(* The process dies, or an error of the database or of the mail server     *)
(* reaches the client as a 500.                                            *)
Abort(r) ==
  /\ r \in Unreliable
  /\ pc[r] \in Running
  /\ Goto(r, "error")
  /\ UNCHANGED <<tables, outside, request>>

Terminating ==
  /\ \A r \in Requests : pc[r] \in Answered
  /\ UNCHANGED vars

Next ==
  \/ \E r \in Requests :
       \/ AskReset(r)
       \/ MintToken(r)
       \/ SendMail(r)
       \/ FindUsername(r)
       \/ SendUsername(r)
       \/ PresentToken(r)
       \/ ConsumeToken(r)
       \/ RejectToken(r)
       \/ WritePassword(r)
       \/ Login(r)
       \/ Verify(r)
       \/ OpenSession(r)
       \/ Expire(r)
       \/ Abort(r)
  \/ Terminating

Spec == Init /\ [][Next]_vars

-----------------------------------------------------------------------------
(* Properties *)

(* The shape of the state; what was mailed is a token in the table. *)
TypeOK ==
  /\ password \in [Users -> Requests \cup {First, None}]
  /\ mintedFor \in [Requests -> Users \cup {None}]
  /\ used \subseteq Tokens
  /\ expired \subseteq Tokens
  /\ mailed \subseteq Tokens
  /\ sessions \subseteq Requests
  /\ late \subseteq Requests
  /\ pc \in [Requests -> Running \cup Answered \cup {"idle"}]
  /\ user \in [Requests -> Users \cup {None}]
  /\ arg \in [Requests -> Requests \cup {First, None}]

(* Whatever else runs, an account's password is replaced only by somebody  *)
(* who held a token that was minted for that account, mailed to it, and    *)
(* consumed before it expired.                                             *)
PasswordOnlyByMail ==
  \A u \in Users :
    password[u] \in Requests =>
      LET t == arg[password[u]] IN
        t \in (mailed \cap used) \ expired /\ mintedFor[t] = u

(* A consumed token bought a new password: the one request that consumed   *)
(* it is writing it, has answered 204, or died in between.                 *)
TokenNotWasted ==
  \A t \in used :
    \E r \in Requests :
      /\ arg[r] = t
      /\ pc[r] \in Resetting \/ (pc[r] = "error" /\ r \in Unreliable)

(* A reset, once answered, has put an end to the forgotten password: no    *)
(* login that arrives afterwards opens a session with it, whatever resets  *)
(* and logins overlap.  (One that verified it before the reset may.)       *)
OldPasswordDead == late \cap sessions = {}

(* However often a token is presented at once, it resets one password one  *)
(* time (#15; test_reset's concurrent single-use test).                    *)
ResetOnce == INSTANCE OneTimeToken WITH
  Tokens <- Requests,
  Takers <- Requests,
  issued <- Tokens,
  taken <- [t \in Requests |->
              {r \in Requests : pc[r] = "changed" /\ arg[r] = t}]

OneResetPerToken == ResetOnce!Spec

=============================================================================
