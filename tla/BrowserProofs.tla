--------------------------- MODULE BrowserProofs ---------------------------
(***************************************************************************)
(* The safety properties of Browser, for any number of calls.              *)
(***************************************************************************)
EXTENDS Browser, TLAPS

-----------------------------------------------------------------------------
(* What the properties rest on. *)

(* A call that was not sent has no kind; one that the service has granted, *)
(* or whose cookie was set or sent on, is no longer on its way there.      *)
CallsAge ==
  /\ \A c \in Calls : kind[c] = "none" <=> phase[c] = "idle"
  /\ \A c \in granted : phase[c] \notin {"idle", "sent"}
  /\ cookie # None => phase[cookie] \notin {"idle", "sent"}
  /\ \A c \in Calls : sent[c] # None => phase[sent[c]] \notin {"idle", "sent"}

(* The one exchange of a page load is the cached one. *)
OneExchange == \A c \in script : kind[c] = "exchange" => cached = c

(* What the service has signed out stays so, and a body is read once. *)
SignedOut == \A c \in granted : kind[c] = "logout" => sent[c] \notin live

LandedOnce == \A c \in landed : phase[c] = "done"

(* The part of TypeOK that is about Booleans. *)
Flags ==
  /\ failed \in BOOLEAN
  /\ asking \in BOOLEAN
  /\ profile \in BOOLEAN
  /\ behind \in BOOLEAN

(* The part that is not. *)
Shape ==
  /\ page \in Pages
  /\ mounting \in 0..2
  /\ heard \subseteq Calls
  /\ \A c, d \in heard : c = d
  /\ form \in Calls \cup {None}
  /\ cached \in Calls \cup {None}
  /\ kind \in [Calls -> Kinds]
  /\ phase \in [Calls -> Phases]
  /\ script \subseteq Calls
  /\ sent \in [Calls -> Calls \cup {None}]
  /\ granted \subseteq Calls
  /\ live \subseteq Calls
  /\ taken \in Calls \cup {None}
  /\ token \in Calls \cup {None}
  /\ landed \subseteq Calls
  /\ cookie \in Calls \cup {None}

IInv ==
  /\ TypeOK
  /\ CallsAge
  /\ OneExchange
  /\ SignedOut
  /\ LandedOnce

LEMMA InitIInv == Init => IInv
<1> SUFFICES ASSUME Init PROVE IInv
  OBVIOUS
<1>1. TypeOK
  <2>1. Flags
    BY DEF Init, Flags
  <2>2. Shape
    BY DEF Init, Shape, Pages, Kinds, Phases
  <2> QED
    BY <2>1, <2>2 DEF TypeOK, Flags, Shape
<1>2. CallsAge
  BY DEF Init, CallsAge
<1>3. OneExchange
  BY DEF Init, OneExchange
<1>4. SignedOut
  BY DEF Init, SignedOut
<1>5. LandedOnce
  BY DEF Init, LandedOnce
<1> QED
  BY <1>1, <1>2, <1>3, <1>4, <1>5 DEF IInv

LEMMA NextIInv == IInv /\ [Next]_vars => IInv'
<1> SUFFICES ASSUME IInv, [Next]_vars PROVE IInv'
  OBVIOUS
<1> USE BrowserAssumption
    DEF IInv, TypeOK, CallsAge, OneExchange, SignedOut, LandedOnce, Pages,
        Kinds, Phases, shown, url, tab, call, net, service, stored, Becomes,
        Resumes
<1>1. ASSUME NEW c \in Calls, ServeLogin(c) PROVE IInv'
  BY <1>1 DEF ServeLogin
<1>2. ASSUME NEW c \in Calls, ServeExchange(c) PROVE IInv'
  BY <1>2 DEF ServeExchange
<1>3. ASSUME NEW c \in Calls, ServeLogout(c) PROVE IInv'
  BY <1>3 DEF ServeLogout, Revoke
<1>4. ASSUME NEW c \in Calls, Deliver(c) PROVE IInv'
  BY <1>4 DEF Deliver
<1>5. ASSUME NEW c \in Calls, Effect(c) PROVE IInv'
  BY <1>5 DEF Effect, Attach, Post, Send
<1>6. ASSUME NEW c \in Calls, ReadExchange(c) PROVE IInv'
  <2>1. TypeOK'
    BY <1>6 DEF ReadExchange, Unread
  <2>2. CallsAge'
    BY <1>6 DEF ReadExchange, Unread
  <2>3. OneExchange'
    BY <1>6 DEF ReadExchange, Unread
  <2>4. SignedOut'
    BY <1>6 DEF ReadExchange, Unread
  <2>5. LandedOnce'
    BY <1>6 DEF ReadExchange, Unread
  <2> QED
    BY <2>1, <2>2, <2>3, <2>4, <2>5
<1>7. ASSUME NEW c \in Calls, ExchangeFails(c) PROVE IInv'
  <2>1. TypeOK'
    BY <1>7 DEF ExchangeFails
  <2>2. CallsAge'
    BY <1>7 DEF ExchangeFails
  <2>3. OneExchange'
    BY <1>7 DEF ExchangeFails
  <2>4. SignedOut'
    BY <1>7 DEF ExchangeFails
  <2>5. LandedOnce'
    BY <1>7 DEF ExchangeFails
  <2> QED
    BY <2>1, <2>2, <2>3, <2>4, <2>5
<1>8. ASSUME NEW c \in Calls, LandExchange(c) PROVE IInv'
  <2>1. TypeOK'
    <3>1. Flags'
      BY <1>8 DEF LandExchange, Store, Show, Flags
    <3>2. Shape'
      BY <1>8 DEF LandExchange, Store, Show, Shape
    <3> QED
      BY <3>1, <3>2 DEF Flags, Shape
  <2>2. CallsAge'
    BY <1>8 DEF LandExchange, Store, Show
  <2>3. OneExchange'
    BY <1>8 DEF LandExchange, Store, Show
  <2>4. SignedOut'
    BY <1>8 DEF LandExchange, Store, Show
  <2>5. LandedOnce'
    BY <1>8 DEF LandExchange, Store, Show
  <2> QED
    BY <2>1, <2>2, <2>3, <2>4, <2>5
<1>9. ASSUME NEW c \in Calls, ReadLogin(c) PROVE IInv'
  BY <1>9 DEF ReadLogin
<1>10. ASSUME NEW c \in Calls, LoginFails(c) PROVE IInv'
  BY <1>10 DEF LoginFails
<1>11. ASSUME NEW c \in Calls, LandLogin(c) PROVE IInv'
  <2>1. TypeOK'
    <3>1. Flags'
      BY <1>11 DEF LandLogin, Store, Show, Flags
    <3>2. Shape'
      BY <1>11 DEF LandLogin, Store, Show, Shape
    <3> QED
      BY <3>1, <3>2 DEF Flags, Shape
  <2>2. CallsAge'
    BY <1>11 DEF LandLogin, Store, Show
  <2>3. OneExchange'
    BY <1>11 DEF LandLogin, Store, Show
  <2>4. SignedOut'
    BY <1>11 DEF LandLogin, Store, Show
  <2>5. LandedOnce'
    BY <1>11 DEF LandLogin, Store, Show
  <2> QED
    BY <2>1, <2>2, <2>3, <2>4, <2>5
<1>12. ASSUME NEW c \in Calls, LogoutEnds(c) PROVE IInv'
  BY <1>12 DEF LogoutEnds, Show
<1>13. CASE AnswerProfile
  BY <1>13 DEF AnswerProfile
<1>14. ASSUME NEW p \in {"login", "me"}, Click(p) PROVE IInv'
  BY <1>14 DEF Click, Show
<1>15. CASE Load
  <2>1. TypeOK'
    <3>1. Flags'
      BY <1>15 DEF Load, Flags
    <3>2. Shape'
      BY <1>15 DEF Load, Shape
    <3> QED
      BY <3>1, <3>2 DEF Flags, Shape
  <2>2. CallsAge'
    BY <1>15 DEF Load
  <2>3. OneExchange'
    BY <1>15 DEF Load
  <2>4. SignedOut'
    BY <1>15 DEF Load
  <2>5. LandedOnce'
    BY <1>15 DEF Load
  <2> QED
    BY <2>1, <2>2, <2>3, <2>4, <2>5
<1>16. CASE Back
  <2>1. TypeOK'
    <3>1. Flags'
      BY <1>16 DEF Back, Show, Flags
    <3>2. Shape'
      BY <1>16 DEF Back, Show, Shape
    <3> QED
      BY <3>1, <3>2 DEF Flags, Shape
  <2>2. CallsAge'
    BY <1>16 DEF Back, Show
  <2>3. OneExchange'
    BY <1>16 DEF Back, Show
  <2>4. SignedOut'
    BY <1>16 DEF Back, Show
  <2>5. LandedOnce'
    BY <1>16 DEF Back, Show
  <2> QED
    BY <2>1, <2>2, <2>3, <2>4, <2>5
<1>17. ASSUME NEW c \in Calls, SubmitLogin(c) PROVE IInv'
  BY <1>17 DEF SubmitLogin, Send
<1>18. ASSUME NEW c \in Calls, SubmitLogout(c) PROVE IInv'
  BY <1>18 DEF SubmitLogout, Send
<1>19. ASSUME NEW c \in Calls, Break(c) PROVE IInv'
  BY <1>19 DEF Break
<1>20. CASE UNCHANGED vars
  BY <1>20 DEF vars
<1> QED
  BY <1>1, <1>2, <1>3, <1>4, <1>5, <1>6, <1>7, <1>8, <1>9, <1>10, <1>11,
     <1>12, <1>13, <1>14, <1>15, <1>16, <1>17, <1>18, <1>19, <1>20
  DEF Next, Proceed, Outside

LEMMA IInvHolds == Spec => []IInv
  BY InitIInv, NextIInv, PTL DEF Spec

-----------------------------------------------------------------------------

(* Every variable of the tab keeps its type, and at most one exchange has  *)
(* a handler on the callback page.                                         *)
THEOREM TypeCorrect == Spec => []TypeOK
<1>1. IInv => TypeOK
  BY DEF IInv
<1> QED
  BY <1>1, IInvHolds, PTL

(* exchangeByCode sends the one-time code once in a page load, however     *)
(* many calls there are and however often the effect runs.                 *)
THEOREM PostsOnce == Spec => []PostedOnce
<1>1. IInv => PostedOnce
  BY DEF IInv, OneExchange, PostedOnce
<1> QED
  BY <1>1, IInvHolds, PTL

(* Once onLogout has cleared the tab's token after an answer, the service  *)
(* refuses the refresh token that the logout carried, for good.            *)
THEOREM LogoutLasts == Spec => []LogoutRevokes
<1>1. IInv => LogoutRevokes
  BY DEF IInv, SignedOut, LogoutRevokes
<1> QED
  BY <1>1, IInvHolds, PTL

(* Only a body that is read, and each is read once, stores a token.        *)
LEMMA StoreOnce ==
  IInv /\ [Next]_vars
  => [token' \notin {token, None} => token' \notin landed]_vars
<1> SUFFICES ASSUME IInv, Next, token' \notin {token, None}
             PROVE  token' \notin landed
  BY DEF vars, stored
<1> USE DEF stored, tab
<1>1. ASSUME NEW c \in Calls, LandExchange(c) \/ LandLogin(c)
      PROVE  token' \notin landed
  <2>1. token' = c /\ phase[c] = "reading"
    BY <1>1 DEF LandExchange, LandLogin, Store, Resumes
  <2> QED
    BY <2>1 DEF IInv, LandedOnce
<1>2. ASSUME NEW c \in Calls,
             \/ ServeLogin(c) \/ ServeExchange(c) \/ ServeLogout(c)
             \/ Deliver(c) \/ Effect(c) \/ ReadExchange(c)
             \/ ExchangeFails(c) \/ ReadLogin(c) \/ LoginFails(c)
             \/ SubmitLogin(c) \/ SubmitLogout(c) \/ Break(c)
      PROVE  token' = token
  BY <1>2
  DEF ServeLogin, ServeExchange, ServeLogout, Deliver, Effect, ReadExchange,
      ExchangeFails, ReadLogin, LoginFails, SubmitLogin, SubmitLogout, Break
<1>3. ASSUME NEW c \in Calls, LogoutEnds(c) PROVE token' = None
  BY <1>3 DEF LogoutEnds
<1>4. ASSUME \/ AnswerProfile \/ Load \/ Back
             \/ \E p \in {"login", "me"} : Click(p)
      PROVE  token' = token
  BY <1>4 DEF AnswerProfile, Load, Back, Click
<1> QED
  BY <1>1, <1>2, <1>3, <1>4 DEF Next, Proceed, Outside

(* A token that was stored once is never stored again: a sign-in ends with *)
(* the logout, whatever answers and cached promises are still about.       *)
THEOREM SignsInOnce == Spec => SignInOnce
  BY IInvHolds, StoreOnce, PTL DEF Spec, SignInOnce

=============================================================================
