------------------------ MODULE AccessTokensProofs ------------------------
(* Theorems about AccessTokens, for any requests, processes and keys, any  *)
(* cap and any setting of ACCESS_TTL, and however long the clock runs.     *)
EXTENDS AccessTokens, TLAPS

-----------------------------------------------------------------------------
(* The inductive invariant. *)

(* What a request has at each of its labels; an ended session was open. *)
Stages ==
  /\ \A r \in Requests : pc[r] \in Running => at[r] \in Processes
  /\ \A r \in Requests :
       pc[r] \in {"idle", "sign", "rotate", "resign"} => token[r] = None
  /\ \A r \in Requests : pc[r] \in {"idle", "sign", "open"} => on[r] = None
  /\ \A r \in Requests :
       pc[r] \in {"rotate", "resign", "ok"} => on[r] \in Sessions
  /\ \A r \in Requests : pc[r] \in {"open", "ok"} => token[r] # None
  /\ \A r \in Requests : ended[r] # None => r \in Sessions

(* No token is signed for more than Cap, or in the future. *)
Dated ==
  \A r \in Requests :
    token[r] # None => /\ token[r].iat <= now
                       /\ token[r].exp <= token[r].iat + Cap

(* A token is older than the end of its session, and a refresh about to    *)
(* sign has an open session, unless it was caught.                         *)
InTime ==
  \A r \in Requests \ caught :
    /\ pc[r] = "resign" => ended[on[r]] = None
    /\ pc[r] = "ok" /\ ended[on[r]] # None => token[r].iat <= ended[on[r]]

IInv ==
  /\ TypeOK
  /\ Stages
  /\ Dated
  /\ KidIsStable
  /\ InTime

LEMMA InitIInv == Init => IInv
  BY AccessTokensAssumption
  DEF Init, IInv, TypeOK, Stages, Dated, KidIsStable, InTime, Pair, Times,
      Running, Answered, Sessions

(* The clamp, whatever ACCESS_TTL is. *)
LEMMA LifetimeClamped ==
  ASSUME TypeOK, ttl # None
  PROVE  Lifetime \in Int /\ Lifetime <= Cap
  BY AccessTokensAssumption DEF TypeOK, Lifetime

LEMMA NextIInv == IInv /\ [Next]_vars => IInv'
<1> SUFFICES ASSUME IInv, [Next]_vars PROVE IInv'
  OBVIOUS
<1> USE AccessTokensAssumption
    DEF IInv, TypeOK, Stages, Dated, KidIsStable, InTime, Pair, Times,
        Running, Answered, Sessions, Goto, files, request, past
<1>1. ASSUME NEW r \in Requests, SignIn(r) PROVE IInv'
  BY <1>1 DEF SignIn
<1>2. ASSUME NEW r \in Requests, Sign(r) PROVE IInv'
  <2> DEFINE p == at[r]
             key == Loaded(cache[p].private, disk.private)
             kid == Loaded(cache[p].public, disk.public)
             new == [iat |-> now, exp |-> now + Lifetime, key |-> key,
                     kid |-> kid]
  <2>1. /\ pc[r] \in {"sign", "resign"} /\ token[r] = None /\ ttl # None
        /\ cache' = [cache EXCEPT ![p] = [private |-> key, public |-> kid]]
        /\ token' = [token EXCEPT ![r] = new]
        /\ Goto(r, IF pc[r] = "sign" THEN "open" ELSE "ok")
        /\ UNCHANGED <<now, disk, ttl, request, past>>
    BY <1>2 DEF Sign
  <2>2. p \in Processes /\ key \in Keys /\ kid \in Keys
    BY <2>1 DEF Loaded
  <2>3. new \in Tokens /\ new # None /\ new.exp <= new.iat + Cap
    BY <2>1, <2>2, LifetimeClamped, NoTokenAssumption DEF Tokens
  <2>4. TypeOK'
    BY <2>1, <2>2, <2>3
  <2>5. Stages' /\ Dated' /\ InTime'
    BY <2>1, <2>2, <2>3
  <2>6. KidIsStable'
    <3> SUFFICES ASSUME NEW q \in Requests, token'[q] # None, at[q] # None
                 PROVE  /\ token'[q].kid = cache'[at[q]].public
                        /\ token'[q].key = cache'[at[q]].private
      BY <2>1
    <3>1. CASE q = r
      BY <2>1, <2>2, <2>3, <3>1
    <3>2. CASE q # r /\ at[q] # p
      BY <2>1, <2>2, <3>2
    <3>3. CASE q # r /\ at[q] = p
      \* what q has signed with is in the cache, so it is not read again
      <4>1. /\ token'[q] = token[q] /\ token[q] \in Tokens
            /\ cache[p].public = token[q].kid
            /\ cache[p].private = token[q].key
        BY <2>1, <2>2, <3>3
      <4>2. kid = token[q].kid /\ key = token[q].key
        BY <4>1 DEF Loaded, Tokens
      <4> QED
        BY <2>1, <2>2, <3>3, <4>1, <4>2
    <3> QED
      BY <3>1, <3>2, <3>3
  <2> QED
    BY <2>4, <2>5, <2>6
<1>3. ASSUME NEW r \in Requests, SignFails(r) PROVE IInv'
  BY <1>3 DEF SignFails
<1>4. ASSUME NEW r \in Requests, OpenSession(r) PROVE IInv'
  BY <1>4 DEF OpenSession
<1>5. ASSUME NEW r \in Requests, Refresh(r) PROVE IInv'
  BY <1>5 DEF Refresh
<1>6. ASSUME NEW r \in Requests, Rotate(r) PROVE IInv'
  BY <1>6 DEF Rotate, Open
<1>7. ASSUME NEW r \in Requests, End(r) PROVE IInv'
  BY <1>7 DEF End, Tokens
<1>8. ASSUME NEW p \in Processes, Publish(p) PROVE IInv'
  BY <1>8 DEF Publish, Loaded, Tokens
<1>9. ASSUME NEW p \in Processes, Restart(p) PROVE IInv'
  BY <1>9 DEF Restart
<1>10. ASSUME NEW f \in {"private", "public"}, NEW k \in Keys, Replace(f, k)
       PROVE  IInv'
  BY <1>10 DEF Replace
<1>11. CASE Tick
  BY <1>11 DEF Tick, Tokens
<1>12. CASE UNCHANGED vars
  BY <1>12 DEF vars
<1> QED
  BY <1>1, <1>2, <1>3, <1>4, <1>5, <1>6, <1>7, <1>8, <1>9, <1>10, <1>11,
     <1>12
  DEF Next

LEMMA Invariance == Spec => []IInv
  BY InitIInv, NextIInv, PTL DEF Spec

(* The state keeps its shape. *)
THEOREM TypeCorrect == Spec => []TypeOK
  BY Invariance, PTL DEF IInv

(* No process accepts a token signed Cap or more ago, for any ACCESS_TTL:  *)
(* the clamp of _access_ttl is enough.                                     *)
THEOREM HardCap == Spec => []ShortLived
<1>1. IInv => ShortLived
  BY AccessTokensAssumption
  DEF IInv, TypeOK, Dated, ShortLived, Accepts, Tokens, Times
<1> QED
  BY <1>1, Invariance, PTL

(* What a process has signed since it started matches what it publishes,   *)
(* whatever happens to the key files.                                      *)
THEOREM KeysMatch == Spec => []KidIsStable
  BY Invariance, PTL DEF IInv

(* Cap after a session ended, no token of it is accepted anywhere, but one *)
(* that was signed by a refresh the end overtook.                          *)
THEOREM AccessEnds == Spec => []AccessFades
<1>1. IInv => AccessFades
  BY AccessTokensAssumption
  DEF IInv, TypeOK, Stages, Dated, InTime, AccessFades, Accepts, Tokens,
      Times, Sessions
<1> QED
  BY <1>1, Invariance, PTL

=============================================================================
