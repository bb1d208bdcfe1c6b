------------------------ MODULE RefreshTokensProofs ------------------------
(* Theorems about RefreshTokens, for any set of requests. *)
EXTENDS RefreshTokens, TLAPS

-----------------------------------------------------------------------------
(* The inductive invariant. *)

(* Which rows a request holds, by where it stands. *)
LockDiscipline ==
  \A r \in Requests :
    /\ pc[r] \notin {"won", "mint", "burning"} => locks[r] = {}
    /\ pc[r] \in {"won", "mint"} =>
         /\ locks[r] = {tok[r]}
         /\ tok[r] \in Rows \ revoked
    /\ pc[r] # "burning" => todo[r] = {}
    /\ pc[r] = "burning" =>
         /\ locks[r] \subseteq todo[r]
         /\ todo[r] \subseteq RowsOf(Chain(tok[r]))
    /\ pc[r] \in {"burn", "burning", "reuse", "swallowed"} => tok[r] \in Rows

(* A row is locked by one transaction at a time. *)
Exclusive ==
  \A r, s \in Requests : r # s => locks[r] \cap locks[s] = {}

(* A row exists once its request has minted it, in a chain that exists;    *)
(* only rows are presented or revoked, and a token with a successor is.    *)
RowsWellFormed ==
  /\ Rows = {r \in Requests : pc[r] \in {"answer", "ok", "lost"}}
  /\ \A t \in Rows : chainOf[t] \in Rows
  /\ revoked \subseteq Rows
  /\ \A r \in Requests : tok[r] \in Rows \cup {None}
  /\ \A r \in Requests : pc[r] \in {"idle", "issue"} => tok[r] = None
  /\ \A t \in Rows :
       tok[t] # None => tok[t] \in revoked /\ chainOf[t] = chainOf[tok[t]]

IInv ==
  /\ TypeOK
  /\ LockDiscipline
  /\ Exclusive
  /\ RowsWellFormed
  /\ AtMostOneActive

LEMMA InitIInv == Init => IInv
  BY RequestsAssumption
  DEF Init, IInv, TypeOK, LockDiscipline, Exclusive, RowsWellFormed,
      AtMostOneActive, Rows, RowsOf, ActiveIn, Running

LEMMA NextIInv == IInv /\ [Next]_vars => IInv'
<1> SUFFICES ASSUME IInv, [Next]_vars PROVE IInv'
  OBVIOUS
<1> USE RequestsAssumption
    DEF IInv, TypeOK, LockDiscipline, Exclusive, RowsWellFormed,
        AtMostOneActive, Rows, Chain, RowsOf, ActiveIn, Answered, Running
<1>1. ASSUME NEW r \in Requests, IssueRefresh(r) PROVE IInv'
  BY <1>1 DEF IssueRefresh, Goto
<1>2. ASSUME NEW r \in Requests, RotateWin(r) PROVE IInv'
  BY <1>2 DEF RotateWin, Goto, LockedByOther
<1>3. ASSUME NEW r \in Requests, RotateMiss(r) PROVE IInv'
  BY <1>3 DEF RotateMiss, Goto
<1>4. ASSUME NEW r \in Requests, LookUp(r) PROVE IInv'
  BY <1>4 DEF LookUp, Goto
<1>5. ASSUME NEW r \in Requests, RotateExpired(r) PROVE IInv'
  BY <1>5 DEF RotateExpired, Goto, Release
<1>6. ASSUME NEW r \in Requests, RotateFresh(r) PROVE IInv'
  BY <1>6 DEF RotateFresh, Goto
<1>7. ASSUME NEW r \in Requests, RotateCommit(r) PROVE IInv'
  BY <1>7 DEF RotateCommit, Goto, Release
<1>8. ASSUME NEW r \in Requests, BurnStart(r) PROVE IInv'
  BY <1>8 DEF BurnStart, Goto
<1>9. ASSUME NEW r \in Requests, BurnRow(r) PROVE IInv'
  BY <1>9 DEF BurnRow, LockedByOther
<1>10. ASSUME NEW r \in Requests, BurnCommit(r) PROVE IInv'
  BY <1>10 DEF BurnCommit, Goto, Release
<1>11. ASSUME NEW r \in Requests, BurnDeadlock(r) PROVE IInv'
  BY <1>11 DEF BurnDeadlock, Retry, Goto, Release
<1>12. ASSUME NEW r \in Requests, Logout(r) PROVE IInv'
  BY <1>12 DEF Logout, Goto, LockedByOther
<1>13. ASSUME NEW r \in Requests, Respond(r) PROVE IInv'
  BY <1>13 DEF Respond, Goto
<1>14. ASSUME NEW r \in Requests, Login(r) PROVE IInv'
  BY <1>14 DEF Login, Goto
<1>15. ASSUME NEW r \in Requests, NEW label \in {"update", "logout"},
              Present(r, label)
       PROVE  IInv'
  BY <1>15 DEF Present, Goto
<1>16. ASSUME NEW r \in Requests, BurnGiveUp(r) PROVE IInv'
  BY <1>16 DEF BurnGiveUp, Goto, Release
<1>17. ASSUME NEW r \in Requests, LoseResponse(r) PROVE IInv'
  BY <1>17 DEF LoseResponse, Goto
<1>18. ASSUME NEW r \in Requests, Abort(r) PROVE IInv'
  BY <1>18 DEF Abort, Goto, Release
<1>19. ASSUME NEW r \in Requests, Expire(r) PROVE IInv'
  BY <1>19 DEF Expire
<1>20. CASE UNCHANGED vars \/ Terminating
  BY <1>20 DEF vars, Terminating
<1>21. ASSUME NEW r \in Requests, UpdateDeadlock(r) PROVE IInv'
  BY <1>21 DEF UpdateDeadlock, Goto
<1> QED
  BY <1>1, <1>2, <1>3, <1>4, <1>5, <1>6, <1>7, <1>8, <1>9, <1>10,
     <1>11, <1>12, <1>13, <1>14, <1>15, <1>16, <1>17, <1>18, <1>19, <1>20, <1>21
  DEF Next, Serve, Environment, PresentForRefresh, PresentForLogout

LEMMA Invariance == Spec => []IInv
  BY InitIInv, NextIInv, PTL DEF Spec

(* The state keeps its shape. *)
THEOREM TypeCorrect == Spec => []TypeOK
  BY Invariance, PTL DEF IInv

(* However many requests present whatever tokens, and whichever of them    *)
(* crash, a chain never has two usable tokens.                             *)
THEOREM OneActive == Spec => []AtMostOneActive
  BY Invariance, PTL DEF IInv

-----------------------------------------------------------------------------
(* What no step undoes. *)

Final == {"expired", "reuse", "swallowed", "loggedOut"}

Minted == {"answer", "ok", "lost"}

Burning == {"burn", "burning", "reuse", "swallowed"}

(* A row keeps its chain, a request its token, its verdict and its minted  *)
(* token; a request burns for the reason it looked up.                     *)
Kept ==
  /\ \A t \in Rows : t \in Rows' /\ chainOf'[t] = chainOf[t]
  /\ \A r \in Requests : pc[r] # "idle" => tok'[r] = tok[r]
  /\ \A r \in Requests : pc[r] \in Final => pc'[r] = pc[r]
  /\ \A r \in Requests : pc[r] \in Minted => pc'[r] \in Minted
  /\ \A r \in Requests : pc'[r] = "lookup" =>
       /\ tok'[r] = tok[r]
       /\ \/ pc[r] = "lookup"
          \/ pc[r] = "update" /\ tok[r] \notin Rows \ revoked
  /\ \A r \in Requests : pc'[r] \in Burning =>
       /\ tok'[r] = tok[r]
       /\ pc[r] \in Burning \/ (pc[r] = "lookup" /\ tok[r] \in Rows)

LEMMA NextKept == IInv /\ [Next]_vars => Kept
<1> SUFFICES ASSUME IInv, [Next]_vars PROVE Kept
  OBVIOUS
<1> USE RequestsAssumption
    DEF IInv, TypeOK, LockDiscipline, RowsWellFormed, Rows, Running, Kept,
        Final, Minted, Burning
<1>1. ASSUME NEW r \in Requests, IssueRefresh(r) PROVE Kept
  BY <1>1 DEF IssueRefresh, Goto
<1>2. ASSUME NEW r \in Requests, RotateWin(r) PROVE Kept
  BY <1>2 DEF RotateWin, Goto, LockedByOther
<1>3. ASSUME NEW r \in Requests, RotateMiss(r) PROVE Kept
  BY <1>3 DEF RotateMiss, Goto
<1>4. ASSUME NEW r \in Requests, LookUp(r) PROVE Kept
  BY <1>4 DEF LookUp, Goto
<1>5. ASSUME NEW r \in Requests, RotateExpired(r) PROVE Kept
  BY <1>5 DEF RotateExpired, Goto, Release
<1>6. ASSUME NEW r \in Requests, RotateFresh(r) PROVE Kept
  BY <1>6 DEF RotateFresh, Goto
<1>7. ASSUME NEW r \in Requests, RotateCommit(r) PROVE Kept
  BY <1>7 DEF RotateCommit, Goto, Release
<1>8. ASSUME NEW r \in Requests, BurnStart(r) PROVE Kept
  BY <1>8 DEF BurnStart, Goto
<1>9. ASSUME NEW r \in Requests, BurnRow(r) PROVE Kept
  BY <1>9 DEF BurnRow, LockedByOther
<1>10. ASSUME NEW r \in Requests, BurnCommit(r) PROVE Kept
  BY <1>10 DEF BurnCommit, Goto, Release
<1>11. ASSUME NEW r \in Requests, BurnDeadlock(r) PROVE Kept
  BY <1>11 DEF BurnDeadlock, Retry, Goto, Release
<1>12. ASSUME NEW r \in Requests, Logout(r) PROVE Kept
  BY <1>12 DEF Logout, Goto, LockedByOther
<1>13. ASSUME NEW r \in Requests, Respond(r) PROVE Kept
  BY <1>13 DEF Respond, Goto
<1>14. ASSUME NEW r \in Requests, Login(r) PROVE Kept
  BY <1>14 DEF Login, Goto
<1>15. ASSUME NEW r \in Requests, NEW label \in {"update", "logout"},
              Present(r, label)
       PROVE  Kept
  BY <1>15 DEF Present, Goto
<1>16. ASSUME NEW r \in Requests, BurnGiveUp(r) PROVE Kept
  BY <1>16 DEF BurnGiveUp, Goto, Release
<1>17. ASSUME NEW r \in Requests, LoseResponse(r) PROVE Kept
  BY <1>17 DEF LoseResponse, Goto
<1>18. ASSUME NEW r \in Requests, Abort(r) PROVE Kept
  BY <1>18 DEF Abort, Goto, Release
<1>19. ASSUME NEW r \in Requests, Expire(r) PROVE Kept
  BY <1>19 DEF Expire
<1>20. CASE UNCHANGED vars \/ Terminating
  BY <1>20 DEF vars, Terminating
<1>21. ASSUME NEW r \in Requests, UpdateDeadlock(r) PROVE Kept
  BY <1>21 DEF UpdateDeadlock, Goto
<1> QED
  BY <1>1, <1>2, <1>3, <1>4, <1>5, <1>6, <1>7, <1>8, <1>9, <1>10,
     <1>11, <1>12, <1>13, <1>14, <1>15, <1>16, <1>17, <1>18, <1>19, <1>20, <1>21
  DEF Next, Serve, Environment, PresentForRefresh, PresentForLogout
(* The steps that write the table. *)
LEMMA Writers ==
  ASSUME [Next]_vars
  PROVE  \/ UNCHANGED <<chainOf, revoked>>
         \/ \E r \in Requests : \/ IssueRefresh(r)
                                \/ RotateCommit(r)
                                \/ RotateExpired(r)
                                \/ BurnCommit(r)
                                \/ Logout(r)
  BY DEF Next, Serve, Environment, Terminating, vars, RotateWin, RotateMiss,
         LookUp, RotateFresh, BurnStart, BurnRow, BurnDeadlock, UpdateDeadlock,
         Respond,
         Login, PresentForRefresh, PresentForLogout, Present, BurnGiveUp,
         LoseResponse, Abort, Expire

-----------------------------------------------------------------------------
(* A token is exchanged once. *)

LEMMA NextSingleUse == IInv /\ SingleUse /\ [Next]_vars => SingleUse'
<1> SUFFICES ASSUME IInv, SingleUse, [Next]_vars,
                    NEW t \in Rows', NEW s \in Rows',
                    tok'[t] # None, tok'[t] = tok'[s], t # s
             PROVE  FALSE
  BY DEF SingleUse
<1>1. \A q \in Rows : /\ tok'[q] = tok[q]
                      /\ tok[q] # None => tok[q] \in revoked
  BY NextKept DEF Kept, IInv, RowsWellFormed
<1>2. CASE chainOf' = chainOf
  BY <1>1, <1>2 DEF SingleUse, Rows
<1>3. ASSUME NEW r \in Requests, IssueRefresh(r) PROVE FALSE
  <2>1. Rows' \subseteq Rows \cup {r} /\ tok'[r] = None
    BY <1>3 DEF IssueRefresh, IInv, TypeOK, RowsWellFormed, Rows
  <2> QED
    BY <1>1, <2>1 DEF SingleUse
<1>4. ASSUME NEW r \in Requests, RotateCommit(r) PROVE FALSE
  \* the parent of the new row was not revoked, those of the others are
  <2>1. /\ Rows' \subseteq Rows \cup {r}
        /\ tok'[r] = tok[r]
        /\ tok[r] \notin revoked
    BY <1>4 DEF RotateCommit, IInv, TypeOK, LockDiscipline, Rows
  <2> QED
    BY <1>1, <2>1 DEF SingleUse
<1>5. ASSUME NEW r \in Requests,
             RotateExpired(r) \/ BurnCommit(r) \/ Logout(r)
      PROVE  chainOf' = chainOf
  BY <1>5 DEF RotateExpired, BurnCommit, Logout
<1> QED
  BY <1>2, <1>3, <1>4, <1>5, Writers

(* Any number of presentations of a token gives at most one successor. *)
THEOREM Exchange == Spec => []SingleUse
<1>1. Init => SingleUse
  BY DEF Init, SingleUse, Rows
<1> QED
  BY <1>1, NextSingleUse, Invariance, PTL DEF Spec

-----------------------------------------------------------------------------
(* A burn reaches the successor of the token that was replayed. *)

(* Its UPDATE has that successor in its snapshot from the start.           *)
ReplayReaches ==
  /\ \A r \in Requests :
       pc[r] \in Burning \cup {"lookup"} /\ tok[r] \in Rows
       => tok[r] \in revoked
  /\ \A r \in Requests : \A s \in Rows :
       pc[r] = "burning" /\ tok[s] = tok[r] => s \in todo[r]
  /\ ReplayKillsSuccessor

LEMMA NextReplayReaches == IInv /\ ReplayReaches /\ [Next]_vars => ReplayReaches'
<1> SUFFICES ASSUME IInv, ReplayReaches, [Next]_vars PROVE ReplayReaches'
  OBVIOUS
<1> USE RequestsAssumption
    DEF IInv, TypeOK, LockDiscipline, RowsWellFormed, Rows, RowsOf, Chain,
        Running, Answered, Burning, ReplayReaches, ReplayKillsSuccessor
<1>1. ASSUME NEW r \in Requests, IssueRefresh(r) PROVE ReplayReaches'
  BY <1>1 DEF IssueRefresh, Goto
<1>2. ASSUME NEW r \in Requests, RotateWin(r) PROVE ReplayReaches'
  BY <1>2 DEF RotateWin, Goto, LockedByOther
<1>3. ASSUME NEW r \in Requests, RotateMiss(r) PROVE ReplayReaches'
  BY <1>3 DEF RotateMiss, Goto
<1>4. ASSUME NEW r \in Requests, LookUp(r) PROVE ReplayReaches'
  BY <1>4 DEF LookUp, Goto
<1>5. ASSUME NEW r \in Requests, RotateExpired(r) PROVE ReplayReaches'
  BY <1>5 DEF RotateExpired, Goto, Release
<1>6. ASSUME NEW r \in Requests, RotateFresh(r) PROVE ReplayReaches'
  BY <1>6 DEF RotateFresh, Goto
<1>7. ASSUME NEW r \in Requests, RotateCommit(r) PROVE ReplayReaches'
  BY <1>7 DEF RotateCommit, Goto, Release
<1>8. ASSUME NEW r \in Requests, BurnStart(r) PROVE ReplayReaches'
  BY <1>8 DEF BurnStart, Goto
<1>9. ASSUME NEW r \in Requests, BurnRow(r) PROVE ReplayReaches'
  BY <1>9 DEF BurnRow, LockedByOther
<1>10. ASSUME NEW r \in Requests, BurnCommit(r) PROVE ReplayReaches'
  BY <1>10 DEF BurnCommit, Goto, Release
<1>11. ASSUME NEW r \in Requests, BurnDeadlock(r) PROVE ReplayReaches'
  BY <1>11 DEF BurnDeadlock, Retry, Goto, Release
<1>12. ASSUME NEW r \in Requests, Logout(r) PROVE ReplayReaches'
  BY <1>12 DEF Logout, Goto, LockedByOther
<1>13. ASSUME NEW r \in Requests, Respond(r) PROVE ReplayReaches'
  BY <1>13 DEF Respond, Goto
<1>14. ASSUME NEW r \in Requests, Login(r) PROVE ReplayReaches'
  BY <1>14 DEF Login, Goto
<1>15. ASSUME NEW r \in Requests, NEW label \in {"update", "logout"},
              Present(r, label)
       PROVE  ReplayReaches'
  BY <1>15 DEF Present, Goto
<1>16. ASSUME NEW r \in Requests, BurnGiveUp(r) PROVE ReplayReaches'
  BY <1>16 DEF BurnGiveUp, Goto, Release
<1>17. ASSUME NEW r \in Requests, LoseResponse(r) PROVE ReplayReaches'
  BY <1>17 DEF LoseResponse, Goto
<1>18. ASSUME NEW r \in Requests, Abort(r) PROVE ReplayReaches'
  BY <1>18 DEF Abort, Goto, Release
<1>19. ASSUME NEW r \in Requests, Expire(r) PROVE ReplayReaches'
  BY <1>19 DEF Expire
<1>20. CASE UNCHANGED vars \/ Terminating
  BY <1>20 DEF vars, Terminating
<1>21. ASSUME NEW r \in Requests, UpdateDeadlock(r) PROVE ReplayReaches'
  BY <1>21 DEF UpdateDeadlock, Goto
<1> QED
  BY <1>1, <1>2, <1>3, <1>4, <1>5, <1>6, <1>7, <1>8, <1>9, <1>10,
     <1>11, <1>12, <1>13, <1>14, <1>15, <1>16, <1>17, <1>18, <1>19, <1>20, <1>21
  DEF Next, Serve, Environment, PresentForRefresh, PresentForLogout
(* A replayed token's successor does not survive the 401. *)
THEOREM ReplayBurns == Spec => []ReplayKillsSuccessor
<1>1. Init => ReplayReaches
  BY DEF Init, ReplayReaches, ReplayKillsSuccessor, Burning
<1> QED
  BY <1>1, NextReplayReaches, Invariance, PTL DEF Spec, ReplayReaches

-----------------------------------------------------------------------------
(* A session ends only by a request of its own that ends it. *)

LEMMA EndedStays ==
  ASSUME IInv, Kept, NEW c \in Requests
  PROVE  EndedBy(c) \subseteq EndedBy(c)'
  BY RequestsAssumption
  DEF IInv, TypeOK, RowsWellFormed, Kept, EndedBy, Chain, Rows, Final

LEMMA NextSessionNotLost ==
  IInv /\ SessionNotLost /\ [Next]_vars => SessionNotLost'
<1> SUFFICES ASSUME IInv, IInv', SessionNotLost, [Next]_vars,
                    NEW c \in Requests, RowsOf(c)' # {}, EndedBy(c)' = {}
             PROVE  ActiveIn(c)' # {}
  BY NextIInv DEF SessionNotLost
<1>1. EndedBy(c) = {}
  BY EndedStays, NextKept
<1>2. RowsOf(c) # {} => ActiveIn(c) # {}
  BY <1>1 DEF SessionNotLost
<1>3. CASE UNCHANGED <<chainOf, revoked>>
  BY <1>2, <1>3 DEF RowsOf, ActiveIn, Rows
<1>4. ASSUME NEW r \in Requests, IssueRefresh(r) PROVE ActiveIn(c)' # {}
  BY <1>2, <1>4, RequestsAssumption
  DEF IssueRefresh, Goto, IInv, TypeOK, RowsWellFormed, RowsOf, ActiveIn, Rows
<1>5. ASSUME NEW r \in Requests, RotateCommit(r) PROVE ActiveIn(c)' # {}
  \* the successor takes over in its parent's chain
  <2>1. tok[r] \in Rows /\ locks[r] = {tok[r]} /\ r \notin Rows
    BY <1>5 DEF RotateCommit, IInv, LockDiscipline, RowsWellFormed
  <2>2. r \in Rows' /\ r \notin revoked' /\ chainOf'[r] = chainOf[tok[r]]
    BY <1>5, <2>1, RequestsAssumption
    DEF RotateCommit, IInv, TypeOK, RowsWellFormed, Rows
  <2>3. CASE chainOf[tok[r]] = c
    BY <2>2, <2>3 DEF ActiveIn, RowsOf
  <2>4. CASE chainOf[tok[r]] # c
    BY <1>2, <1>5, <2>1, <2>2, <2>4
    DEF RotateCommit, IInv, TypeOK, ActiveIn, RowsOf, Rows
  <2> QED
    BY <2>3, <2>4
<1>6. ASSUME NEW r \in Requests, RotateExpired(r) PROVE ActiveIn(c)' # {}
  \* r itself would be in EndedBy(c)'
  <2>1. tok[r] \in Rows /\ locks[r] = {tok[r]}
    BY <1>6 DEF RotateExpired, IInv, LockDiscipline
  <2>2. chainOf[tok[r]] # c
    BY <1>6, <2>1, RequestsAssumption
    DEF RotateExpired, Goto, EndedBy, Chain, IInv, TypeOK, Rows
  <2> QED
    BY <1>2, <1>6, <2>1, <2>2 DEF RotateExpired, ActiveIn, RowsOf, Rows
<1>7. ASSUME NEW r \in Requests, BurnCommit(r) PROVE ActiveIn(c)' # {}
  <2>1. tok[r] \in Rows /\ locks[r] \subseteq RowsOf(Chain(tok[r]))
    BY <1>7 DEF BurnCommit, IInv, LockDiscipline
  <2>2. Chain(tok[r]) # c
    BY <1>7, <2>1 DEF BurnCommit, Goto, EndedBy, Chain, IInv, TypeOK
  <2> QED
    BY <1>2, <1>7, <2>1, <2>2 DEF BurnCommit, ActiveIn, RowsOf, Rows
<1>8. ASSUME NEW r \in Requests, Logout(r) PROVE ActiveIn(c)' # {}
  <2>1. tok[r] \in Rows => chainOf[tok[r]] # c
    BY <1>8, RequestsAssumption
    DEF Logout, Goto, EndedBy, Chain, IInv, TypeOK, Rows
  <2> QED
    BY <1>2, <1>8, <2>1 DEF Logout, ActiveIn, RowsOf, Rows
<1> QED
  BY <1>3, <1>4, <1>5, <1>6, <1>7, <1>8, Writers

(* A chain without a usable token was ended by an expiry, a detected reuse *)
(* or a logout of that chain: no crash and no other session ends it.       *)
THEOREM SessionKept == Spec => []SessionNotLost
<1>1. Init => SessionNotLost
  BY DEF Init, SessionNotLost, RowsOf, Rows
<1> QED
  BY <1>1, NextSessionNotLost, Invariance, PTL DEF Spec

-----------------------------------------------------------------------------
(* A burn has a cause. *)

Twice(c) ==
  \E s, t \in Requests : /\ s # t
                         /\ tok[s] # None
                         /\ tok[s] = tok[t]
                         /\ Chain(tok[s]) = c

(* A revoked token was consumed by a request that is past its UPDATE, or   *)
(* its chain was burned, with cause.                                       *)
Consumed(t) ==
  \E s \in Requests : tok[s] = t /\ pc[s] \in Minted \cup Final

RevokedWithCause == \A t \in revoked : Consumed(t) \/ Twice(chainOf[t])

LookupWithCause ==
  \A r \in Requests :
    pc[r] = "lookup" /\ tok[r] # None => Twice(Chain(tok[r]))

LEMMA CausesStay ==
  ASSUME IInv, Kept
  PROVE  /\ \A c \in Requests : Twice(c) => Twice(c)'
         /\ \A t \in Requests : Consumed(t) => Consumed(t)'
<1>1. ASSUME NEW c \in Requests, Twice(c) PROVE Twice(c)'
  <2>1. PICK s, t \in Requests : /\ s # t
                                /\ tok[s] # None
                                /\ tok[s] = tok[t]
                                /\ Chain(tok[s]) = c
    BY <1>1 DEF Twice
  <2>2. tok[s] \in Rows /\ tok'[s] = tok[s] /\ tok'[t] = tok[t]
    BY <2>1 DEF IInv, RowsWellFormed, Kept
  <2>3. Chain(tok[s])' = c
    BY <2>1, <2>2 DEF Kept, Chain
  <2> QED
    BY <2>1, <2>2, <2>3 DEF Twice
<1>2. ASSUME NEW t \in Requests, Consumed(t) PROVE Consumed(t)'
  BY <1>2, RequestsAssumption DEF Consumed, Kept, Final, Minted
<1> QED
  BY <1>1, <1>2

LEMMA NextRevokedWithCause ==
  ASSUME IInv, [Next]_vars, Kept, RevokedWithCause, NoFalseBurn
  PROVE  RevokedWithCause'
<1> SUFFICES ASSUME NEW t \in revoked' PROVE (Consumed(t) \/ Twice(chainOf[t]))'
  BY DEF RevokedWithCause
<1>1. CASE t \in revoked
  <2>1. t \in Rows /\ t \in Requests /\ chainOf[t] \in Requests /\ chainOf'[t] = chainOf[t]
    BY <1>1 DEF IInv, RowsWellFormed, Kept, Rows
  <2> QED
    BY <1>1, <2>1, CausesStay DEF RevokedWithCause
<1>2. ASSUME t \notin revoked, NEW r \in Requests, tok[r] = t, tok'[r] = t,
             pc'[r] \in Minted \cup Final
      PROVE  Consumed(t)'
  BY <1>2 DEF Consumed
<1>3. ASSUME t \notin revoked, NEW r \in Requests, BurnCommit(r)
      PROVE  Twice(chainOf[t])'
  <2>1. t \in RowsOf(Chain(tok[r])) /\ tok[r] \in Rows
    BY <1>3 DEF BurnCommit, IInv, LockDiscipline
  <2>2. chainOf[t] \in Requests /\ chainOf[t] = Chain(tok[r]) /\ chainOf'[t] = chainOf[t]
    BY <2>1 DEF IInv, RowsWellFormed, Kept, RowsOf, Rows
  <2>3. Twice(chainOf[t])
    BY <1>3, <2>2 DEF BurnCommit, NoFalseBurn, Twice
  <2> QED
    BY <2>2, <2>3, CausesStay
<1>4. ASSUME t \notin revoked, NEW r \in Requests,
             RotateCommit(r) \/ RotateExpired(r) \/ Logout(r)
      PROVE  Consumed(t)'
  <2>1. tok[r] = t /\ tok'[r] = t
    BY <1>4 DEF RotateCommit, RotateExpired, Logout, IInv, LockDiscipline
  <2>2. pc'[r] \in Minted \cup Final
    BY <1>4 DEF RotateCommit, RotateExpired, Logout, Goto, IInv, TypeOK, Minted, Final
  <2> QED
    BY <1>2, <1>4, <2>1, <2>2
<1>5. ASSUME NEW r \in Requests, IssueRefresh(r) PROVE t \in revoked
  BY <1>5 DEF IssueRefresh
<1> QED
  BY <1>1, <1>3, <1>4, <1>5, Writers

LEMMA NextLookupWithCause ==
  ASSUME IInv, [Next]_vars, Kept, RevokedWithCause, LookupWithCause
  PROVE  LookupWithCause'
<1> SUFFICES ASSUME NEW r \in Requests, pc'[r] = "lookup", tok'[r] # None
             PROVE  Twice(Chain(tok[r]))'
  BY DEF LookupWithCause
<1>1. tok'[r] = tok[r] /\ tok[r] \in Rows
  BY DEF Kept, IInv, RowsWellFormed
<1>2. Chain(tok[r])' = Chain(tok[r]) /\ Chain(tok[r]) \in Requests
  BY <1>1, RequestsAssumption DEF Kept, Chain, IInv, RowsWellFormed, Rows
<1>3. CASE pc[r] = "lookup"
  BY <1>1, <1>2, <1>3, CausesStay DEF LookupWithCause
<1>4. CASE pc[r] = "update" /\ tok[r] \in revoked
  \* whoever consumed the token is not r, which is not past its UPDATE
  <2>1. Consumed(tok[r]) => Twice(Chain(tok[r]))
    BY <1>1, <1>4, RequestsAssumption DEF Consumed, Twice, Minted, Final, Rows
  <2>2. Twice(Chain(tok[r]))
    BY <1>1, <1>4, <2>1, RequestsAssumption DEF RevokedWithCause, Chain, Rows
  <2> QED
    BY <1>2, <2>2, CausesStay
<1> QED
  BY <1>1, <1>3, <1>4 DEF Kept

LEMMA NextNoFalseBurn ==
  ASSUME IInv, [Next]_vars, Kept, LookupWithCause, NoFalseBurn
  PROVE  NoFalseBurn'
<1> SUFFICES ASSUME NEW r \in Requests, pc'[r] \in Burning
             PROVE  Twice(Chain(tok[r]))'
  BY DEF NoFalseBurn, Twice, Burning
<1>1. tok'[r] = tok[r] /\ tok[r] \in Rows
  BY DEF Kept, IInv, LockDiscipline, Burning
<1>2. Chain(tok[r])' = Chain(tok[r]) /\ Chain(tok[r]) \in Requests
  BY <1>1, RequestsAssumption DEF Kept, Chain, IInv, RowsWellFormed, Rows
<1>3. Twice(Chain(tok[r]))
  BY <1>1, RequestsAssumption
  DEF Kept, LookupWithCause, NoFalseBurn, Twice, Burning, Rows
<1> QED
  BY <1>2, <1>3, CausesStay

(* A chain is burned only after one of its tokens was presented twice. *)
THEOREM BurnJustified == Spec => []NoFalseBurn
<1>1. Init => RevokedWithCause /\ LookupWithCause /\ NoFalseBurn
  BY DEF Init, RevokedWithCause, LookupWithCause, NoFalseBurn
<1>2. /\ IInv
      /\ RevokedWithCause /\ LookupWithCause /\ NoFalseBurn
      /\ [Next]_vars
      => (RevokedWithCause /\ LookupWithCause /\ NoFalseBurn)'
  BY NextKept, NextRevokedWithCause, NextLookupWithCause, NextNoFalseBurn
<1> QED
  BY <1>1, <1>2, Invariance, PTL DEF Spec

-----------------------------------------------------------------------------
(* A burn that is given up is covered. *)

(* Who is in a deadlock waits for another burn of the same chain: the cycle *)
(* leads through somebody that waits itself, and only burns do.            *)
LEMMA DeadlockPartner ==
  ASSUME IInv, NEW r \in Requests, pc[r] = "burning", InDeadlock(r)
  PROVE  \E e \in Requests \ {r} : /\ pc[e] = "burning"
                                   /\ Chain(tok[e]) = Chain(tok[r])
<1>1. ASSUME NEW e \in WaitsFor(r), pc[e] # "burning"
      PROVE  WaitsFor(e) = {}
  BY <1>1 DEF IInv, LockDiscipline, WaitsFor
<1>2. \E e \in WaitsFor(r) : pc[e] = "burning"
  <2> SUFFICES ASSUME \A e \in WaitsFor(r) : pc[e] # "burning"
               PROVE  FALSE
    OBVIOUS
  <2>1. \A e \in WaitsFor(r) \cup {r} : WaitsFor(e) \subseteq WaitsFor(r)
    BY <1>1
  <2>2. WaitsFor(r) \in SUBSET Requests /\ r \notin WaitsFor(r)
    BY DEF WaitsFor
  <2> QED
    BY <2>1, <2>2 DEF InDeadlock, WaitsThrough
<1>3. PICK e \in WaitsFor(r) : pc[e] = "burning"
  BY <1>2
<1>4. e \in Requests \ {r} /\ todo[r] \cap locks[e] # {}
  BY DEF WaitsFor
<1>5. RowsOf(Chain(tok[r])) \cap RowsOf(Chain(tok[e])) # {}
  BY <1>3, <1>4 DEF IInv, LockDiscipline
<1>6. Chain(tok[e]) = Chain(tok[r])
  BY <1>5 DEF RowsOf
<1> QED
  BY <1>3, <1>4, <1>6

(* A burn of the chain of r is under way or has been carried out, or a     *)
(* request for that chain has failed.                                      *)
Covers(s, r) ==
  /\ \/ pc[s] \in {"burn", "burning", "reuse"}
     \/ s \in Unreliable /\ pc[s] \in {"swallowed", "error"}
  /\ tok[s] \in Rows
  /\ Chain(tok[s]) = Chain(tok[r])

GivenUpCovered ==
  \A r \in Requests :
    pc[r] = "swallowed" => \E s \in Requests : Covers(s, r)

(* How a burn goes on, and that an answer is final. *)
LEMMA BurnSteps ==
  ASSUME IInv, [Next]_vars, NEW s \in Requests
  PROVE  /\ pc[s] \in {"burn", "burning"} =>
              \/ pc'[s] \in {"burn", "burning", "reuse"}
              \/ s \in Unreliable /\ pc'[s] \in {"swallowed", "error"}
              \/ BurnDeadlock(s)
         /\ pc[s] \in {"reuse", "swallowed", "error"} => pc'[s] = pc[s]
         /\ pc'[s] = "swallowed" => pc[s] \in {"burn", "burning", "swallowed"}
<1> USE DEF IInv, TypeOK, Goto, Answered, Running
<1>1. ASSUME NEW r \in Requests, Serve(r) PROVE pc'[s] = pc[s] \/ r = s
  BY <1>1 DEF Serve, IssueRefresh, RotateWin, RotateMiss, LookUp,
     RotateExpired, RotateFresh, RotateCommit, BurnStart, BurnRow,
     BurnCommit, BurnDeadlock, Retry, UpdateDeadlock, Logout, Respond
<1>2. ASSUME NEW r \in Requests, Environment(r) PROVE pc'[s] = pc[s] \/ r = s
  BY <1>2 DEF Environment, Login, PresentForRefresh, PresentForLogout,
     Present, BurnGiveUp, LoseResponse, Abort, Expire
<1>3. CASE Serve(s)
  BY <1>3 DEF Serve, IssueRefresh, RotateWin, RotateMiss, LookUp,
     RotateExpired, RotateFresh, RotateCommit, BurnStart, BurnRow,
     BurnCommit, BurnDeadlock, UpdateDeadlock, Logout, Respond
<1>4. CASE Environment(s)
  BY <1>4 DEF Environment, Login, PresentForRefresh, PresentForLogout,
     Present, BurnGiveUp, LoseResponse, Abort, Expire
<1>5. CASE pc' = pc
  BY <1>5
<1> QED
  BY <1>1, <1>2, <1>3, <1>4, <1>5 DEF Next, Terminating, vars

LEMMA NextGivenUpCovered ==
  ASSUME IInv, [Next]_vars, Kept, GivenUpCovered
  PROVE  GivenUpCovered'
<1> SUFFICES ASSUME NEW r \in Requests, pc'[r] = "swallowed"
             PROVE  \E s \in Requests : Covers(s, r)'
  BY DEF GivenUpCovered
<1>1. \A s \in Requests : tok[s] \in Rows =>
        /\ tok'[s] = tok[s] /\ tok'[s] \in Rows'
        /\ Chain(tok[s])' = Chain(tok[s])
  BY RequestsAssumption DEF Kept, Chain, IInv, RowsWellFormed, Rows
<1>2. tok[r] \in Rows
  BY DEF Kept, IInv, LockDiscipline, Burning
<1>3. ASSUME NEW s \in Requests, pc[s] \in {"burn", "burning"},
             Chain(tok[s]) = Chain(tok[r])
      PROVE  \E e \in Requests : Covers(e, r)'
  <2>1. tok[s] \in Rows
    BY <1>3 DEF IInv, LockDiscipline
  <2>2. CASE \/ pc'[s] \in {"burn", "burning", "reuse"}
             \/ s \in Unreliable /\ pc'[s] \in {"swallowed", "error"}
    BY <1>1, <1>2, <1>3, <2>1, <2>2 DEF Covers
  <2>3. CASE BurnDeadlock(s)
    <3>1. PICK e \in Requests \ {s} : /\ pc[e] = "burning"
                                      /\ Chain(tok[e]) = Chain(tok[s])
      BY <2>3, DeadlockPartner DEF BurnDeadlock
    <3>2. pc'[e] = "burning" /\ tok[e] \in Rows
      BY <2>3, <3>1
      DEF BurnDeadlock, Retry, Goto, IInv, TypeOK, LockDiscipline
    <3> QED
      BY <1>1, <1>2, <1>3, <3>1, <3>2 DEF Covers
  <2> QED
    BY <1>3, <2>2, <2>3, BurnSteps
<1>4. CASE pc[r] = "swallowed"
  <2>1. PICK s \in Requests : Covers(s, r)
    BY <1>4 DEF GivenUpCovered
  <2>2. CASE pc[s] \in {"burn", "burning"}
    BY <1>3, <2>1, <2>2 DEF Covers
  <2>3. CASE pc[s] \notin {"burn", "burning"}
    <3>1. pc'[s] = pc[s]
      BY <2>1, <2>3, BurnSteps DEF Covers
    <3> QED
      BY <1>1, <1>2, <2>1, <2>3, <3>1 DEF Covers
  <2> QED
    BY <2>2, <2>3
<1>5. CASE pc[r] # "swallowed"
  BY <1>3, <1>5, BurnSteps
<1> QED
  BY <1>4, <1>5

(* A burn that was swallowed leaves its chain to another burn, which is    *)
(* carried out unless it, or another request for the chain, fails; so no   *)
(* number of burns can all be the victims of their deadlocks.              *)
THEOREM DeadlocksCovered == Spec => []SwallowedBurnCovered
<1>1. Init => GivenUpCovered
  BY DEF Init, GivenUpCovered
<1>2. IInv /\ GivenUpCovered /\ [Next]_vars => GivenUpCovered'
  BY NextKept, NextGivenUpCovered
<1>3. GivenUpCovered => SwallowedBurnCovered
  BY DEF GivenUpCovered, Covers, SwallowedBurnCovered, Answered
<1> QED
  BY <1>1, <1>2, <1>3, Invariance, PTL DEF Spec

-----------------------------------------------------------------------------
(* The table implements the abstract session. *)

LEMMA InitSession == Init => Session!Init
  BY DEF Init, Session!Init, ActiveIn, RowsOf, Rows

(* Revoking some rows of chain c, among them its active one, ends it. *)
LEMMA RevokeEnds ==
  ASSUME IInv, NEW c \in Requests, NEW S \in SUBSET RowsOf(c),
         revoked' = revoked \cup S, chainOf' = chainOf
  PROVE  [Session!Next]_(Session!vars)
<1>1. CASE ActiveIn(c) \cap S = {}
  <2>1. revoked' = revoked
    BY <1>1 DEF ActiveIn
  <2> QED
    BY <2>1 DEF Session!vars, ActiveIn, RowsOf, Rows
<1>2. CASE ActiveIn(c) \cap S # {}
  <2>1. PICK t \in S : t \in ActiveIn(c)
    BY <1>2
  <2>2. ActiveIn(c) = {t} /\ t \in Requests
    BY <2>1 DEF IInv, AtMostOneActive, ActiveIn, RowsOf, Rows
  <2>3. revoked' = revoked \cup {t}
    BY <2>1, <2>2 DEF ActiveIn
  <2>4. [d \in Requests |-> ActiveIn(d)]'
        = [[d \in Requests |-> ActiveIn(d)] EXCEPT ![c] = {}]
    BY <2>2, <2>3 DEF ActiveIn, RowsOf, Rows
  <2>5. Session!End(c)
    BY <2>2, <2>3, <2>4 DEF Session!End
  <2> QED
    BY <2>5 DEF Session!Next
<1> QED
  BY <1>1, <1>2

LEMMA NextSession == IInv /\ [Next]_vars => [Session!Next]_(Session!vars)
<1> SUFFICES ASSUME IInv, [Next]_vars PROVE [Session!Next]_(Session!vars)
  OBVIOUS
<1>1. CASE UNCHANGED <<chainOf, revoked>>
  BY <1>1 DEF Session!vars, ActiveIn, RowsOf, Rows
<1>2. ASSUME NEW r \in Requests, IssueRefresh(r) PROVE Session!Begin(r)
  <2>1. r \notin Rows /\ RowsOf(r) = {}
    BY <1>2 DEF IssueRefresh, IInv, RowsWellFormed, RowsOf
  <2>2. Session!Fresh(r) /\ ActiveIn(r) = {}
    BY <2>1 DEF Session!Fresh, ActiveIn, RowsOf, IInv, RowsWellFormed
  <2>3. [d \in Requests |-> ActiveIn(d)]'
        = [[d \in Requests |-> ActiveIn(d)] EXCEPT ![r] = {r}]
    <3>1. ASSUME NEW d \in Requests
          PROVE  ActiveIn(d)' = IF d = r THEN {r} ELSE ActiveIn(d)
      BY <1>2, <2>1, RequestsAssumption
      DEF IssueRefresh, ActiveIn, RowsOf, Rows, IInv, TypeOK, RowsWellFormed
    <3> QED
      BY <3>1
  <2> QED
    BY <1>2, <2>2, <2>3 DEF Session!Begin, IssueRefresh
<1>3. ASSUME NEW r \in Requests, RotateCommit(r)
      PROVE  Session!Advance(chainOf[tok[r]])
  <2> DEFINE c == chainOf[tok[r]]
  <2>1. /\ tok[r] \in Rows \ revoked
        /\ locks[r] = {tok[r]}
        /\ c \in Requests
        /\ r \notin Rows
    BY <1>3 DEF RotateCommit, IInv, LockDiscipline, RowsWellFormed, Rows
  <2>2. ActiveIn(c) = {tok[r]}
    BY <2>1 DEF IInv, AtMostOneActive, ActiveIn, RowsOf
  <2>3. Session!Fresh(r)
    BY <2>1 DEF Session!Fresh, ActiveIn, RowsOf, IInv, RowsWellFormed
  <2>4. [d \in Requests |-> ActiveIn(d)]'
        = [[d \in Requests |-> ActiveIn(d)] EXCEPT ![c] = {r}]
    <3>1. /\ Rows' = Rows \cup {r}
          /\ chainOf' = [chainOf EXCEPT ![r] = c]
          /\ revoked' = revoked \cup {tok[r]}
      BY <1>3, <2>1, RequestsAssumption DEF RotateCommit, IInv, TypeOK, Rows
    <3>2. r \notin revoked'
      BY <2>1, <3>1 DEF IInv, RowsWellFormed
    <3>3. ASSUME NEW d \in Requests
          PROVE  ActiveIn(d)' = IF d = c THEN {r} ELSE ActiveIn(d)
      BY <2>1, <2>2, <3>1, <3>2 DEF ActiveIn, RowsOf, Rows, IInv, TypeOK
    <3> QED
      BY <3>3
  <2> QED
    BY <1>3, <2>1, <2>2, <2>3, <2>4 DEF Session!Advance, RotateCommit, Rows
<1>4. ASSUME NEW r \in Requests, RotateExpired(r)
      PROVE  [Session!Next]_(Session!vars)
  <2>1. /\ chainOf[tok[r]] \in Requests
        /\ locks[r] \in SUBSET RowsOf(chainOf[tok[r]])
    BY <1>4 DEF RotateExpired, IInv, LockDiscipline, RowsWellFormed, RowsOf, Rows
  <2> QED
    BY <1>4, <2>1, RevokeEnds DEF RotateExpired
<1>5. ASSUME NEW r \in Requests, BurnCommit(r)
      PROVE  [Session!Next]_(Session!vars)
  <2>1. /\ Chain(tok[r]) \in Requests
        /\ locks[r] \in SUBSET RowsOf(Chain(tok[r]))
    BY <1>5, RequestsAssumption
    DEF BurnCommit, IInv, LockDiscipline, RowsWellFormed, Chain, Rows
  <2> QED
    BY <1>5, <2>1, RevokeEnds DEF BurnCommit
<1>6. ASSUME NEW r \in Requests, Logout(r)
      PROVE  [Session!Next]_(Session!vars)
  <2>1. CASE tok[r] \in Rows
    <3>1. /\ chainOf[tok[r]] \in Requests
          /\ {tok[r]} \in SUBSET RowsOf(chainOf[tok[r]])
      BY <2>1 DEF IInv, RowsWellFormed, RowsOf, Rows
    <3>2. revoked' = revoked \cup {tok[r]} /\ chainOf' = chainOf
      BY <1>6, <2>1 DEF Logout
    <3> QED
      BY <3>1, <3>2, RevokeEnds
  <2>2. CASE tok[r] \notin Rows
    BY <1>6, <2>2 DEF Logout, Session!vars, ActiveIn, RowsOf, Rows
  <2> QED
    BY <2>1, <2>2
<1> QED
  BY <1>1, <1>2, <1>3, <1>4, <1>5, <1>6, Writers
  DEF Session!Next, IInv, RowsWellFormed, LockDiscipline, RotateCommit, Rows

(* Every behaviour of the table and its requests is a behaviour of the     *)
(* rotating sessions of RotatingSession.                                   *)
THEOREM Refinement == Spec => RotatesSessions
  BY InitSession, NextSession, Invariance, PTL
  DEF Spec, RotatesSessions, Session!Spec

=============================================================================
