------------------------ MODULE PasswordResetProofs ------------------------
(* Theorems about PasswordReset, for any requests and users. *)
EXTENDS PasswordReset, TLAPS

-----------------------------------------------------------------------------
(* The inductive invariant. *)

(* What a request knows at each of its labels; a token was minted by a     *)
(* request that is past that.                                              *)
Knows ==
  /\ \A r \in Requests : pc[r] \in {"mint", "verify"} => user[r] \in Users
  /\ \A r \in Requests : pc[r] = "mail" => r \in Tokens
  /\ \A t \in Tokens : pc[t] \in {"mail", "accepted", "error"}
  /\ \A r \in Requests : pc[r] = "consume" => arg[r] \in mailed \cup {None}
  /\ sessions = {r \in Requests : pc[r] = "signedIn"}

(* Who has consumed a token holds one that was mailed and in time, for the *)
(* user whose password it changes, and holds it alone.                     *)
Holds ==
  /\ \A r \in Requests :
       pc[r] \in Resetting => /\ arg[r] \in (mailed \cap used) \ expired
                              /\ user[r] = mintedFor[arg[r]]
  /\ \A r, q \in Requests :
       pc[r] \in Resetting /\ pc[q] \in Resetting /\ arg[r] = arg[q] => r = q

(* A password that is not the first one was written by a reset that has    *)
(* said so, and from then on it is not the first one.                      *)
Replaced ==
  /\ \A u \in Users : password[u] \in Requests => ToldChanged(password[u], u)
  /\ \A r \in Requests : pc[r] = "changed" => password[user[r]] \in Requests

(* Logins that came too late with the first password get no further. *)
LateFails ==
  \A r \in late : /\ pc[r] \in {"verify", "denied", "error"}
                  /\ arg[r] = First
                  /\ user[r] \in Users
                  /\ password[user[r]] \in Requests

IInv ==
  /\ TypeOK
  /\ Knows
  /\ Holds
  /\ Replaced
  /\ LateFails
  /\ TokenNotWasted

LEMMA InitIInv == Init => IInv
  BY PasswordResetAssumption
  DEF Init, IInv, TypeOK, Knows, Holds, Replaced, LateFails, TokenNotWasted,
      ToldChanged, Tokens, Resetting, Running, Answered

LEMMA NextIInv == IInv /\ [Next]_vars => IInv'
<1> SUFFICES ASSUME IInv, [Next]_vars PROVE IInv'
  OBVIOUS
<1> USE PasswordResetAssumption
    DEF IInv, TypeOK, Knows, Holds, Replaced, LateFails, TokenNotWasted,
        ToldChanged, Tokens, Resetting, Running, Answered, Goto,
        tables, outside, request
<1>1. ASSUME NEW r \in Requests, AskReset(r) PROVE IInv'
  BY <1>1 DEF AskReset, Found
<1>2. ASSUME NEW r \in Requests, MintToken(r) PROVE IInv'
  BY <1>2 DEF MintToken
<1>3. ASSUME NEW r \in Requests, SendMail(r) PROVE IInv'
  BY <1>3 DEF SendMail
<1>4. ASSUME NEW r \in Requests, FindUsername(r) PROVE IInv'
  BY <1>4 DEF FindUsername
<1>5. ASSUME NEW r \in Requests, SendUsername(r) PROVE IInv'
  BY <1>5 DEF SendUsername
<1>6. ASSUME NEW r \in Requests, PresentToken(r) PROVE IInv'
  BY <1>6 DEF PresentToken
<1>7. ASSUME NEW r \in Requests, ConsumeToken(r) PROVE IInv'
  BY <1>7 DEF ConsumeToken, Spend, Live
<1>8. ASSUME NEW r \in Requests, RejectToken(r) PROVE IInv'
  BY <1>8 DEF RejectToken
<1>9. ASSUME NEW r \in Requests, WritePassword(r) PROVE IInv'
  BY <1>9 DEF WritePassword, SetHash
<1>10. ASSUME NEW r \in Requests, Login(r) PROVE IInv'
  BY <1>10 DEF Login
<1>11. ASSUME NEW r \in Requests, Verify(r) PROVE IInv'
  BY <1>11 DEF Verify
<1>12. ASSUME NEW r \in Requests, OpenSession(r) PROVE IInv'
  BY <1>12 DEF OpenSession
<1>13. ASSUME NEW r \in Requests, Expire(r) PROVE IInv'
  BY <1>13 DEF Expire, Live
<1>14. ASSUME NEW r \in Requests, Abort(r) PROVE IInv'
  BY <1>14 DEF Abort
<1>15. CASE UNCHANGED vars \/ Terminating
  BY <1>15 DEF vars, Terminating
<1> QED
  BY <1>1, <1>2, <1>3, <1>4, <1>5, <1>6, <1>7, <1>8, <1>9, <1>10,
     <1>11, <1>12, <1>13, <1>14, <1>15 DEF Next

LEMMA Invariance == Spec => []IInv
  BY InitIInv, NextIInv, PTL DEF Spec

(* The state keeps its shape, and only tokens of the table are mailed,     *)
(* consumed or expire.                                                     *)
THEOREM TypeCorrect == Spec => []TypeOK
  BY Invariance, PTL DEF IInv

(* Nobody replaces the password of an account but the holder of a token    *)
(* that was minted for it, mailed, and consumed in time.                   *)
THEOREM OnlyByMail == Spec => []PasswordOnlyByMail
<1>1. IInv => PasswordOnlyByMail
  BY DEF IInv, Holds, Replaced, Resetting, ToldChanged, PasswordOnlyByMail
<1> QED
  BY <1>1, Invariance, PTL

(* A consumed token changes a password, unless its request dies. *)
THEOREM ConsumedChanges == Spec => []TokenNotWasted
  BY Invariance, PTL DEF IInv

(* After a 204 the forgotten password opens no session any more. *)
THEOREM OldPasswordOut == Spec => []OldPasswordDead
<1>1. IInv => OldPasswordDead
  BY DEF IInv, LateFails, Knows, OldPasswordDead
<1> QED
  BY <1>1, Invariance, PTL

-----------------------------------------------------------------------------
(* Resets implement the abstract one-time token. *)

(* The steps that the abstract specification can see. *)
LEMMA Writers ==
  ASSUME IInv, [Next]_vars
  PROVE  \/ /\ UNCHANGED mintedFor
            /\ \A r \in Requests :
                 pc'[r] = "changed" \/ pc[r] = "changed" =>
                   pc'[r] = pc[r] /\ arg'[r] = arg[r]
         \/ \E r \in Requests : MintToken(r) \/ WritePassword(r)
  BY DEF IInv, TypeOK, Next, vars, tables, outside, request, Goto, Running,
         Terminating, AskReset, SendMail, FindUsername, SendUsername,
         PresentToken, ConsumeToken, RejectToken, Login, Verify, OpenSession,
         Expire, Abort

LEMMA InitReset == Init => ResetOnce!Init
  BY PasswordResetAssumption DEF Init, ResetOnce!Init, Tokens

LEMMA NextReset == IInv /\ [Next]_vars => [ResetOnce!Next]_(ResetOnce!vars)
<1> SUFFICES ASSUME IInv, [Next]_vars
             PROVE  [ResetOnce!Next]_(ResetOnce!vars)
  OBVIOUS
<1> DEFINE taken == [t \in Requests |->
                       {r \in Requests : pc[r] = "changed" /\ arg[r] = t}]
<1>1. CASE /\ UNCHANGED mintedFor
           /\ \A r \in Requests :
                pc'[r] = "changed" \/ pc[r] = "changed" =>
                  pc'[r] = pc[r] /\ arg'[r] = arg[r]
  BY <1>1 DEF ResetOnce!vars, Tokens
<1>2. ASSUME NEW r \in Requests, MintToken(r) PROVE ResetOnce!Next
  <2>1. r \notin Tokens
    BY <1>2 DEF MintToken, IInv, Knows
  <2>2. taken' = taken
    BY <1>2 DEF MintToken, request, Goto, IInv, TypeOK
  <2>3. Tokens' = Tokens \cup {r}
    BY <1>2, PasswordResetAssumption
    DEF MintToken, Tokens, IInv, TypeOK, Knows
  <2> QED
    BY <2>1, <2>2, <2>3 DEF ResetOnce!Next, ResetOnce!Issue
<1>3. ASSUME NEW r \in Requests, WritePassword(r) PROVE ResetOnce!Next
  <2>1. arg[r] \in Tokens
    BY <1>3 DEF WritePassword, IInv, TypeOK, Holds, Resetting
  <2>2. taken[arg[r]] = {}
    BY <1>3, <2>1 DEF WritePassword, IInv, Holds, Resetting, Tokens
  <2>3. taken' = [taken EXCEPT ![arg[r]] = {r}]
    <3>1. \A q \in Requests : pc'[q] = IF q = r THEN "changed" ELSE pc[q]
      BY <1>3 DEF WritePassword, Goto, IInv, TypeOK
    <3>2. ASSUME NEW t \in Requests
          PROVE  taken'[t] = IF t = arg[r] THEN {r} ELSE taken[t]
      <4>1. taken'[t] = {q \in Requests : pc'[q] = "changed" /\ arg[q] = t}
        BY <1>3 DEF WritePassword, request
      <4>2. CASE t = arg[r]
        <5>1. \A q \in Requests : ~(pc[q] = "changed" /\ arg[q] = t)
          BY <2>2, <4>2
        <5>2. {q \in Requests : pc'[q] = "changed" /\ arg[q] = t} = {r}
          BY <3>1, <4>2, <5>1
        <5> QED
          BY <4>1, <4>2, <5>2
      <4>3. CASE t # arg[r]
        BY <3>1, <4>1, <4>3
      <4> QED
        BY <4>2, <4>3
    <3> QED
      BY <3>2
  <2>4. Tokens' = Tokens /\ arg[r] \in Requests
    BY <1>3, <2>1 DEF WritePassword, Tokens
  <2> QED
    BY <2>1, <2>2, <2>3, <2>4 DEF ResetOnce!Next, ResetOnce!Take
<1> QED
  BY <1>1, <1>2, <1>3, Writers

(* Every behaviour is one of OneTimeToken: a token resets one password     *)
(* once, however often it is presented.                                    *)
THEOREM ResetRefinement == Spec => OneResetPerToken
  BY InitReset, NextReset, Invariance, PTL
  DEF Spec, OneResetPerToken, ResetOnce!Spec

=============================================================================
