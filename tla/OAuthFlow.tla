----------------------------- MODULE OAuthFlow -----------------------------
(***************************************************************************)
(* Signing in through a provider: GET /auth/oauth/{provider}/authorize     *)
(* mints a state, GET .../callback trades it (and the provider's word) for *)
(* a one-time code, POST /auth/oauth/exchange trades that for a session.   *)
(* The provider answers anything that Providers tells apart; the finding   *)
(* or creation of the account (module Accounts) succeeds or fails.         *)
(*                                                                         *)
(* Consuming a state or a code is one step: a conditional UPDATE of one    *)
(* row and the COMMIT that follows at once.  A transaction that waits for  *)
(* the row re-evaluates the condition after that COMMIT, just as if it had *)
(* come later, and one that holds a single row cannot deadlock, so the     *)
(* retry around the UPDATE has nothing to do.                              *)
(*                                                                         *)
(* A state, a code and a session are named by the request that makes them. *)
(***************************************************************************)

CONSTANTS
  Requests,   \* the HTTP requests that may arrive
  Unreliable, \* those whose process or database connection may die
  Unsigned,   \* those for which issue_access raises (no key, a bad ACCESS_TTL)
  Providers,  \* of "google", "kakao" and "naver"
  None        \* also a state or code the service never issued

ASSUME OAuthFlowAssumption ==
  /\ Unreliable \cup Unsigned \subseteq Requests
  /\ Providers \subseteq {"google", "kakao", "naver"}
  /\ None \notin Requests \cup Providers

VARIABLES
  stateOf,    \* committed oauth_states: the provider of each state, or None
  codes,      \* committed oauth_codes
  used,       \* states and codes with used = true
  expired,    \* states and codes whose expires_at has passed
  sessions,   \* refresh-token chains that exchange has opened
  pc,         \* where each request stands; Answered values are final
  arg,        \* the state or code a request presents
  via         \* the provider in the path of an authorize or a callback

tables == <<stateOf, codes, used, sessions>>
request == <<arg, via>>
vars == <<tables, expired, pc, request>>

-----------------------------------------------------------------------------

(* "consent": authorize's 302 to the provider.  "coded": callback's 302    *)
(* with a one-time code.  "signedIn": exchange's 200.  "refused": the 400s *)
(* that consume nothing; "failed": the 400 of a provider error, after the  *)
(* state was consumed.  "error": a 500, or the process died.               *)
Answered == {"consent", "coded", "signedIn", "refused", "failed", "error"}

Running == {"authorize", "callback", "provider", "provision", "exchange",
            "issue"}

States == {s \in Requests : stateOf[s] # None}

(* The rows of a table that a conditional UPDATE still finds. *)
Live(rows) == rows \ (used \cup expired)

(* How the two calls to a provider may end, by what the answers say. *)
Boundary == INSTANCE Providers WITH Absent <- None

Endings ==
  [p \in Providers |->
     {Boundary!Verdict(p, t, d) :
        t \in Boundary!TokenAnswers, d \in Boundary!Payloads}]

Goto(r, label) == pc' = [pc EXCEPT ![r] = label]

Init ==
  /\ stateOf = [s \in Requests |-> None]
  /\ codes = {}
  /\ used = {}
  /\ expired = {}
  /\ sessions = {}
  /\ pc = [r \in Requests |-> "idle"]
  /\ arg = [r \in Requests |-> None]
  /\ via = [r \in Requests |-> None]

-----------------------------------------------------------------------------
(* Faulty variants of helpers and actions below, with one plausible bug    *)
(* each; no specification uses them, each breaks one of the properties.    *)

(* StateFits that forgets to compare the provider. *)
AnyProvider(r) == arg[r] \in Live(States)

(* StateFits that takes a state nobody issued. *)
AnyState(r) == arg[r] \notin used \cup expired

(* Spend that leaves the row to be used again. *)
Keep(t) == UNCHANGED used

(* IssueSession as it was before #17: a second query may miss the user. *)
MissedUser(r) ==
  /\ pc[r] = "issue" /\ r \notin Unsigned
  /\ \/ sessions' = sessions \cup {r} /\ Goto(r, "signedIn")
     \/ UNCHANGED sessions /\ Goto(r, "refused")
  /\ UNCHANGED <<stateOf, codes, used, expired, request>>

-----------------------------------------------------------------------------
(* authorize *)

Authorize(r) ==
  /\ pc[r] = "idle"
  /\ \E p \in Providers : via' = [via EXCEPT ![r] = p]
  /\ Goto(r, "authorize")
  /\ UNCHANGED <<tables, expired, arg>>

MintState(r) ==
  /\ pc[r] = "authorize"
  /\ stateOf' = [stateOf EXCEPT ![r] = via[r]]
  /\ Goto(r, "consent")
  /\ UNCHANGED <<codes, used, expired, sessions, request>>

-----------------------------------------------------------------------------
(* callback *)

(* The browser comes back, from whatever provider, with a state it was     *)
(* given (perhaps twice, perhaps not its own) or an invented one.          *)
Callback(r) ==
  /\ pc[r] = "idle"
  /\ \E s \in {q \in Requests : pc[q] = "consent"} \cup {None} :
       arg' = [arg EXCEPT ![r] = s]
  /\ \E p \in Providers : via' = [via EXCEPT ![r] = p]
  /\ Goto(r, "callback")
  /\ UNCHANGED <<tables, expired>>

(* 400 before any side effect: error=..., a missing code, a success URL    *)
(* off the whitelist, or a state that is unknown, used, expired or another *)
(* provider's.                                                             *)
Refuse(r) ==
  /\ pc[r] = "callback"
  /\ Goto(r, "refused")
  /\ UNCHANGED <<tables, expired, request>>

(* The WHERE of _consume_state. *)
StateFits(r) == arg[r] \in Live(States) /\ stateOf[arg[r]] = via[r]

(* SET used = true *)
Spend(t) == used' = used \cup {t}

(* _consume_state *)
ConsumeState(r) ==
  /\ pc[r] = "callback"
  /\ StateFits(r)
  /\ Spend(arg[r])
  /\ Goto(r, "provider")
  /\ UNCHANGED <<stateOf, codes, expired, sessions, request>>

(* exchange_code and fetch_userinfo, two HTTP calls outside any            *)
(* transaction.                                                            *)
CallProvider(r) ==
  /\ pc[r] = "provider"
  /\ \E label \in Endings[via[r]] : Goto(r, label)
  /\ UNCHANGED <<tables, expired, request>>

(* The account and the one-time code commit together, or an IntegrityError *)
(* leaves neither.                                                         *)
Provision(r) ==
  /\ pc[r] = "provision"
  /\ codes' = codes \cup {r}
  /\ Goto(r, "coded")
  /\ UNCHANGED <<stateOf, used, expired, sessions, request>>

ProvisionFails(r) ==
  /\ pc[r] = "provision"
  /\ Goto(r, "error")
  /\ UNCHANGED <<tables, expired, request>>

-----------------------------------------------------------------------------
(* exchange *)

Exchange(r) ==
  /\ pc[r] = "idle"
  /\ \E c \in {q \in Requests : pc[q] = "coded"} \cup {None} :
       arg' = [arg EXCEPT ![r] = c]
  /\ Goto(r, "exchange")
  /\ UNCHANGED <<tables, expired, via>>

(* _consume_code_and_user: the row comes with its user. *)
ConsumeCode(r) ==
  /\ pc[r] = "exchange"
  /\ arg[r] \in Live(codes)
  /\ Spend(arg[r])
  /\ Goto(r, "issue")
  /\ UNCHANGED <<stateOf, codes, expired, sessions, request>>

RejectCode(r) ==
  /\ pc[r] = "exchange"
  /\ arg[r] \notin Live(codes)
  /\ Goto(r, "refused")
  /\ UNCHANGED <<tables, expired, request>>

(* issue_access has signed; issue_refresh, in a transaction of its own *)
IssueSession(r) ==
  /\ pc[r] = "issue" /\ r \notin Unsigned
  /\ sessions' = sessions \cup {r}
  /\ Goto(r, "signedIn")
  /\ UNCHANGED <<stateOf, codes, used, expired, request>>

(* issue_access raises: a 500, and the code stays used. *)
SignFails(r) ==
  /\ pc[r] = "issue" /\ r \in Unsigned
  /\ Goto(r, "error")
  /\ UNCHANGED <<tables, expired, request>>

-----------------------------------------------------------------------------

(* Time passes the expires_at of an unused state or code. *)
Expire(t) ==
  /\ t \in Live(States \cup codes)
  /\ expired' = expired \cup {t}
  /\ UNCHANGED <<tables, pc, request>>

(* The process dies, or a database error reaches the client as a 500. *)
Abort(r) ==
  /\ r \in Unreliable
  /\ pc[r] \in Running
  /\ Goto(r, "error")
  /\ UNCHANGED <<tables, expired, request>>

Terminating ==
  /\ \A r \in Requests : pc[r] \in Answered
  /\ UNCHANGED vars

Next ==
  \/ \E r \in Requests :
       \/ Authorize(r)
       \/ MintState(r)
       \/ Callback(r)
       \/ Refuse(r)
       \/ ConsumeState(r)
       \/ CallProvider(r)
       \/ Provision(r)
       \/ ProvisionFails(r)
       \/ Exchange(r)
       \/ ConsumeCode(r)
       \/ RejectCode(r)
       \/ IssueSession(r)
       \/ SignFails(r)
       \/ Expire(r)
       \/ Abort(r)
  \/ Terminating

Spec == Init /\ [][Next]_vars

-----------------------------------------------------------------------------
(* Properties *)

(* The shape of the state. *)
TypeOK ==
  /\ stateOf \in [Requests -> Providers \cup {None}]
  /\ codes \subseteq Requests
  /\ used \subseteq Requests
  /\ expired \subseteq Requests
  /\ sessions \subseteq Requests
  /\ pc \in [Requests -> Running \cup Answered \cup {"idle"}]
  /\ arg \in [Requests -> Requests \cup {None}]
  /\ via \in [Requests -> Providers \cup {None}]

(* A code is minted only on the word of the provider the login was started *)
(* with: states cannot be carried from one provider's callback to          *)
(* another's (the provider condition of _consume_state).                   *)
NoMixUp ==
  \A c \in codes : arg[c] \in States /\ stateOf[arg[c]] = via[c]

(* The winner of a code is signed in: a code is not used up but by a       *)
(* request that is opening its session, has opened it, or could not: it    *)
(* died in between, or no access token could be signed for it              *)
(* (#17; test_concurrent_exchange_winner_gets_tokens_never_500).           *)
CodeNotWasted ==
  \A c \in codes \cap used :
    \E r \in Requests :
      /\ arg[r] = c
      /\ \/ pc[r] = "issue"
         \/ pc[r] = "signedIn" /\ r \in sessions
         \/ pc[r] = "error" /\ r \in Unreliable \cup Unsigned

(* One login gives one session: however often its callback and its         *)
(* exchange are repeated, and in whatever order they overlap, at most one  *)
(* exchange opens a session from a state that authorize issued.            *)
LoginOnce == INSTANCE OneTimeToken WITH
  Tokens <- Requests,
  Takers <- Requests,
  issued <- States,
  taken <- [s \in Requests |-> {r \in sessions : arg[arg[r]] = s}]

OneSessionPerLogin == LoginOnce!Spec

=============================================================================
