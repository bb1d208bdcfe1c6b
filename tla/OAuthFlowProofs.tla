-------------------------- MODULE OAuthFlowProofs --------------------------
(* Theorems about OAuthFlow, for any requests and any choice of providers. *)
EXTENDS OAuthFlow, TLAPS

-----------------------------------------------------------------------------
(* The inductive invariant. *)

(* Callbacks past _consume_state, and exchanges past                       *)
(* _consume_code_and_user.                                                 *)
HasState == {"provider", "provision", "coded"}

HasCode == {"issue", "signedIn"}

(* Who has made which row, and that nothing else is ever used up. *)
RowsHaveMakers ==
  /\ \A s \in States : pc[s] = "consent"
  /\ codes = {r \in Requests : pc[r] = "coded"}
  /\ sessions = {r \in Requests : pc[r] = "signedIn"}
  /\ used \subseteq States \cup codes

(* A state has one winner, which came from the right provider; a code has  *)
(* one winner.                                                             *)
Winners ==
  /\ \A r \in Requests :
       pc[r] \in HasState => /\ arg[r] \in States \cap used
                             /\ stateOf[arg[r]] = via[r]
  /\ \A r, q \in Requests :
       pc[r] \in HasState /\ pc[q] \in HasState /\ arg[r] = arg[q] => r = q
  /\ \A r \in Requests : pc[r] \in HasCode => arg[r] \in codes \cap used
  /\ \A r, q \in Requests :
       pc[r] \in HasCode /\ pc[q] \in HasCode /\ arg[r] = arg[q] => r = q

IInv ==
  /\ TypeOK
  /\ RowsHaveMakers
  /\ Winners
  /\ CodeNotWasted

(* However the provider answers, a callback goes on in one of three ways. *)
LEMMA ProviderEndings ==
  \A p \in Providers : Endings[p] \subseteq {"provision", "failed", "error"}
  BY DEF Endings, Boundary!Verdict

LEMMA InitIInv == Init => IInv
  BY OAuthFlowAssumption
  DEF Init, IInv, TypeOK, RowsHaveMakers, Winners, CodeNotWasted, States,
      HasState, HasCode, Running, Answered

LEMMA NextIInv == IInv /\ [Next]_vars => IInv'
<1> SUFFICES ASSUME IInv, [Next]_vars PROVE IInv'
  OBVIOUS
<1> USE OAuthFlowAssumption
    DEF IInv, TypeOK, RowsHaveMakers, Winners, CodeNotWasted, States,
        HasState, HasCode, Running, Answered, tables, request, Goto
<1>1. ASSUME NEW r \in Requests, Authorize(r) PROVE IInv'
  BY <1>1 DEF Authorize
<1>2. ASSUME NEW r \in Requests, MintState(r) PROVE IInv'
  BY <1>2 DEF MintState
<1>3. ASSUME NEW r \in Requests, Callback(r) PROVE IInv'
  BY <1>3 DEF Callback
<1>4. ASSUME NEW r \in Requests, Refuse(r) PROVE IInv'
  BY <1>4 DEF Refuse
<1>5. ASSUME NEW r \in Requests, ConsumeState(r) PROVE IInv'
  BY <1>5 DEF ConsumeState, StateFits, Spend, Live
<1>6. ASSUME NEW r \in Requests, CallProvider(r) PROVE IInv'
  <2>1. via[r] \in Providers
    BY <1>6 DEF CallProvider
  <2>2. PICK label \in {"provision", "failed", "error"} : Goto(r, label)
    BY <1>6, <2>1, ProviderEndings DEF CallProvider
  <2> QED
    BY <1>6, <2>2 DEF CallProvider
<1>7. ASSUME NEW r \in Requests, Provision(r) PROVE IInv'
  BY <1>7 DEF Provision
<1>8. ASSUME NEW r \in Requests, ProvisionFails(r) PROVE IInv'
  BY <1>8 DEF ProvisionFails
<1>9. ASSUME NEW r \in Requests, Exchange(r) PROVE IInv'
  BY <1>9 DEF Exchange
<1>10. ASSUME NEW r \in Requests, ConsumeCode(r) PROVE IInv'
  BY <1>10 DEF ConsumeCode, Spend, Live
<1>11. ASSUME NEW r \in Requests, RejectCode(r) PROVE IInv'
  BY <1>11 DEF RejectCode
<1>12. ASSUME NEW r \in Requests, IssueSession(r) PROVE IInv'
  BY <1>12 DEF IssueSession
<1>13. ASSUME NEW r \in Requests, Expire(r) PROVE IInv'
  BY <1>13 DEF Expire, Live
<1>14. ASSUME NEW r \in Requests, Abort(r) PROVE IInv'
  BY <1>14 DEF Abort
<1>15. ASSUME NEW r \in Requests, SignFails(r) PROVE IInv'
  BY <1>15 DEF SignFails
<1>16. CASE UNCHANGED vars \/ Terminating
  BY <1>16 DEF vars, Terminating
<1> QED
  BY <1>1, <1>2, <1>3, <1>4, <1>5, <1>6, <1>7, <1>8, <1>9, <1>10,
     <1>11, <1>12, <1>13, <1>14, <1>15, <1>16 DEF Next

LEMMA Invariance == Spec => []IInv
  BY InitIInv, NextIInv, PTL DEF Spec

(* The state keeps its shape. *)
THEOREM TypeCorrect == Spec => []TypeOK
  BY Invariance, PTL DEF IInv

(* A one-time code rests on the word of the provider whose login was       *)
(* started: callback never trades the state of another one.                *)
THEOREM NoProviderMixUp == Spec => []NoMixUp
<1>1. IInv => NoMixUp
  BY DEF IInv, RowsHaveMakers, Winners, HasState, NoMixUp
<1> QED
  BY <1>1, Invariance, PTL

(* Whoever wins a code is signed in, unless it dies first or no access     *)
(* token can be signed for it.                                             *)
THEOREM WinnerSignsIn == Spec => []CodeNotWasted
  BY Invariance, PTL DEF IInv

-----------------------------------------------------------------------------
(* The flow implements the abstract one-time token. *)

(* The steps that the abstract specification can see. *)
LEMMA Writers ==
  ASSUME [Next]_vars
  PROVE  \/ UNCHANGED <<stateOf, sessions, arg>>
         \/ \E r \in Requests : \/ MintState(r)
                                \/ Callback(r)
                                \/ Exchange(r)
                                \/ IssueSession(r)
  BY DEF Next, vars, tables, request, Terminating, Authorize, Refuse,
         ConsumeState, CallProvider, Provision, ProvisionFails, ConsumeCode,
         RejectCode, SignFails, Expire, Abort

LEMMA InitLogin == Init => LoginOnce!Init
  BY OAuthFlowAssumption DEF Init, LoginOnce!Init, States

LEMMA NextLogin == IInv /\ [Next]_vars => [LoginOnce!Next]_(LoginOnce!vars)
<1> SUFFICES ASSUME IInv, [Next]_vars
             PROVE  [LoginOnce!Next]_(LoginOnce!vars)
  OBVIOUS
<1> DEFINE taken == [s \in Requests |-> {r \in sessions : arg[arg[r]] = s}]
<1>1. CASE UNCHANGED <<stateOf, sessions, arg>>
  BY <1>1 DEF LoginOnce!vars, States
<1>2. ASSUME NEW r \in Requests, MintState(r)
      PROVE  LoginOnce!Issue(r) \/ UNCHANGED LoginOnce!vars
  <2>1. r \notin States
    BY <1>2 DEF MintState, IInv, RowsHaveMakers
  <2>2. taken' = taken
    BY <1>2 DEF MintState, request
  <2>3. States' = States \cup {r} \/ States' = States
    BY <1>2, <2>1 DEF MintState, States, IInv, TypeOK
  <2> QED
    BY <2>1, <2>2, <2>3 DEF LoginOnce!Issue, LoginOnce!vars
<1>3. ASSUME NEW r \in Requests, Callback(r) \/ Exchange(r)
      PROVE  UNCHANGED LoginOnce!vars
  \* r has neither minted a code nor opened a session
  <2>1. ASSUME NEW q \in sessions
        PROVE  arg'[q] = arg[q] /\ arg'[arg[q]] = arg[arg[q]]
    <3>1. q # r /\ arg[q] \in Requests \ {r}
      BY <1>3
      DEF Callback, Exchange, IInv, RowsHaveMakers, Winners, HasCode
    <3> QED
      BY <1>3, <3>1 DEF Callback, Exchange, IInv, TypeOK
  <2>2. States' = States /\ sessions' = sessions
    BY <1>3 DEF Callback, Exchange, tables, States
  <2>3. taken' = taken
    BY <2>1, <2>2
  <2> QED
    BY <2>2, <2>3 DEF LoginOnce!vars
<1>4. ASSUME NEW r \in Requests, IssueSession(r)
      PROVE  LoginOnce!Next
  <2> DEFINE s == arg[arg[r]]
  <2>1. /\ arg[r] \in codes
        /\ s \in States
    BY <1>4
    DEF IssueSession, IInv, RowsHaveMakers, Winners, HasCode, HasState
  <2>2. taken[s] = {}
    <3> SUFFICES ASSUME NEW q \in sessions, arg[arg[q]] = s PROVE FALSE
      BY <2>1 DEF States
    <3>1. pc[q] = "signedIn" /\ arg[q] \in codes
      BY DEF IInv, RowsHaveMakers, Winners, HasCode
    <3>2. arg[q] = arg[r]
      BY <2>1, <3>1 DEF IInv, RowsHaveMakers, Winners, HasState
    <3>3. q = r
      BY <1>4, <3>1, <3>2
      DEF IssueSession, IInv, TypeOK, Winners, HasCode
    <3> QED
      BY <1>4, <3>1, <3>3 DEF IssueSession
  <2>3. taken' = [taken EXCEPT ![s] = {r}]
    <3>1. sessions' = sessions \cup {r} /\ arg' = arg
      BY <1>4 DEF IssueSession, request
    <3>2. ASSUME NEW t \in Requests
          PROVE  taken'[t] = IF t = s THEN {r} ELSE taken[t]
      BY <2>1, <2>2, <3>1 DEF States
    <3> QED
      BY <3>2
  <2>4. States' = States
    BY <1>4 DEF IssueSession, States
  <2>5. s \in Requests
    BY <2>1 DEF States
  <2> QED
    BY <2>1, <2>2, <2>3, <2>4, <2>5 DEF LoginOnce!Next, LoginOnce!Take
<1>5. ASSUME NEW r \in Requests, LoginOnce!Issue(r)
      PROVE  LoginOnce!Next
  BY <1>5 DEF LoginOnce!Next
<1> QED
  BY <1>1, <1>2, <1>3, <1>4, <1>5, Writers

(* Every behaviour of the flow is one of OneTimeToken: a login, from the   *)
(* state it was started with to the session it ends in, works at most once *)
(* and only if authorize issued that state.                                *)
THEOREM LoginRefinement == Spec => OneSessionPerLogin
  BY InitLogin, NextLogin, Invariance, PTL
  DEF Spec, OneSessionPerLogin, LoginOnce!Spec

=============================================================================
