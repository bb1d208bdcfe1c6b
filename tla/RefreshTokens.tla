--------------------------- MODULE RefreshTokens ---------------------------
(***************************************************************************)
(* The refresh_tokens table of auth-service and the requests that work on  *)
(* it: login / OAuth exchange (issue_refresh), POST /auth/token/refresh    *)
(* (rotate_refresh, with _revoke_chain for a reused token) and             *)
(* POST /auth/logout (revoke_refresh).                                     *)
(*                                                                         *)
(* The grain of atomicity is one SQL statement or one COMMIT of a          *)
(* PostgreSQL READ COMMITTED transaction:                                  *)
(*   - a statement sees the rows committed when it starts;                 *)
(*   - an UPDATE waits for the transaction that holds the row, and then    *)
(*     re-evaluates its WHERE clause on the committed row;                 *)
(*   - an UPDATE of many rows locks them one by one, in any order;         *)
(*   - one transaction of a wait-for cycle is aborted (SQLSTATE 40P01).    *)
(* Every write of these transactions sets revoked = true, so the rows a    *)
(* transaction has locked are also its uncommitted writes.                 *)
(*                                                                         *)
(* A request mints at most one token, from 256 bits of randomness, so a    *)
(* token is named by the request that minted it, and a chain_id (uuid4) by *)
(* the request whose login opened the chain.                               *)
(***************************************************************************)

EXTENDS Naturals

CONSTANTS
  Requests,   \* the HTTP requests that may arrive; each is served once
  Unreliable, \* those whose process or database connection may die
  None        \* no token / no row; also a presented string nobody minted

ASSUME RequestsAssumption ==
  /\ Unreliable \subseteq Requests
  /\ None \notin Requests

VARIABLES
  chainOf,  \* committed rows: chainOf[t] is the chain of token t, None: no row
  revoked,  \* committed rows with revoked = true
  expired,  \* tokens whose expires_at has passed
  pc,       \* where each request stands; Answered values are final
  tok,      \* the token a request presented
  locks,    \* rows the open transaction of a request has set revoked
  todo,     \* rows its chain-wide UPDATE has to write (statement snapshot)
  attempt   \* the loop variable of _revoke_chain

vars == <<chainOf, revoked, expired, pc, tok, locks, todo, attempt>>

-----------------------------------------------------------------------------

(* How a request ends.  "ok": 200, and the client holds the new token.     *)
(* "lost": the new token was committed but its response never arrived.     *)
(* "reuse" and "swallowed" are both the 401 for a reused token: after a    *)
(* committed burn, or after _revoke_chain gave up.  "error": a 500 (a      *)
(* database error, or the victim of a deadlock), or the process died.      *)
Answered == {"ok", "lost", "expired", "unknown", "reuse", "swallowed",
             "loggedOut", "error"}

(* Statements still to run.  "issue", "update" and "logout" are the first  *)
(* statement of each kind of request, "won" and "mint" are the points of   *)
(* rotate_refresh at which it holds the parent row.                        *)
Running == {"issue", "update", "won", "mint", "lookup", "burn", "burning",
            "logout", "answer"}

Rows == {t \in Requests : chainOf[t] # None}

Chain(t) == IF t = None THEN None ELSE chainOf[t]

RowsOf(c) == {t \in Rows : chainOf[t] = c}

ActiveIn(c) == RowsOf(c) \ revoked

(* Not used: LockedByOther of a statement that does not wait for row       *)
(* locks, such as a SELECT followed by an UPDATE without condition.        *)
NeverLocked(r, t) == FALSE

LockedByOther(r, t) == \E s \in Requests \ {r} : t \in locks[s]

Goto(r, label) == pc' = [pc EXCEPT ![r] = label]

Release(r) ==
  /\ locks' = [locks EXCEPT ![r] = {}]
  /\ todo' = [todo EXCEPT ![r] = {}]

Init ==
  /\ chainOf = [t \in Requests |-> None]
  /\ revoked = {}
  /\ expired = {}
  /\ pc = [r \in Requests |-> "idle"]
  /\ tok = [r \in Requests |-> None]
  /\ locks = [r \in Requests |-> {}]
  /\ todo = [r \in Requests |-> {}]
  /\ attempt = [r \in Requests |-> 0]

-----------------------------------------------------------------------------
(* Faulty variants of some of the definitions below, with one plausible    *)
(* bug each.  No specification uses them: substituted for the real one,    *)
(* each of them breaks one of the properties at the end of this module.    *)

(* RotateWin with a commit of its own, before the successor exists. *)
EarlyCommit(r) ==
  /\ pc[r] = "update"
  /\ tok[r] \in Rows \ revoked
  /\ ~LockedByOther(r, tok[r])
  /\ revoked' = revoked \cup {tok[r]}
  /\ Goto(r, "won")
  /\ UNCHANGED <<chainOf, expired, tok, locks, todo, attempt>>

(* RotateExpired that treats an expired token as a stolen one. *)
ExpiredIsReuse(r) ==
  /\ pc[r] = "won"
  /\ tok[r] \in expired
  /\ revoked' = revoked \cup locks[r]
  /\ Release(r)
  /\ Goto(r, "burn")
  /\ UNCHANGED <<chainOf, expired, tok, attempt>>

(* InDeadlock of a burn that takes any lock wait for a deadlock. *)
AnyWait(r) == \E t \in todo[r] \ locks[r] : LockedByOther(r, t)

(* Retry without the bound, counting the retries or not. *)
CountedRetry(r) ==
  /\ attempt' = [attempt EXCEPT ![r] = @ + 1]
  /\ Goto(r, "burn")

EndlessRetry(r) == Goto(r, "burn") /\ UNCHANGED attempt

-----------------------------------------------------------------------------
(* Arrival of a request.  A client presents a token it was given, however  *)
(* old, or a string that is no token at all.                               *)

Login(r) ==
  /\ pc[r] = "idle"
  /\ Goto(r, "issue")
  /\ UNCHANGED <<chainOf, revoked, expired, tok, locks, todo, attempt>>

Present(r, label) ==
  /\ pc[r] = "idle"
  /\ \E t \in {s \in Requests : pc[s] = "ok"} \cup {None} :
       tok' = [tok EXCEPT ![r] = t]
  /\ Goto(r, label)
  /\ UNCHANGED <<chainOf, revoked, expired, locks, todo, attempt>>

PresentForRefresh(r) == Present(r, "update")

PresentForLogout(r) == Present(r, "logout")

(* issue_refresh with its own commit: a row in a chain of its own. *)
IssueRefresh(r) ==
  /\ pc[r] = "issue"
  /\ chainOf' = [chainOf EXCEPT ![r] = r]
  /\ Goto(r, "answer")
  /\ UNCHANGED <<revoked, expired, tok, locks, todo, attempt>>

-----------------------------------------------------------------------------
(* rotate_refresh *)

(* The conditional UPDATE finds the row unrevoked and nobody else writing  *)
(* it; the transaction stays open and keeps the row locked.                *)
RotateWin(r) ==
  /\ pc[r] = "update"
  /\ tok[r] \in Rows \ revoked
  /\ ~LockedByOther(r, tok[r])
  /\ locks' = [locks EXCEPT ![r] = {tok[r]}]
  /\ Goto(r, "won")
  /\ UNCHANGED <<chainOf, revoked, expired, tok, todo, attempt>>

(* Zero rows: no such token, or it is already revoked.  A row that another *)
(* transaction is revoking makes the UPDATE wait, not miss.                *)
RotateMiss(r) ==
  /\ pc[r] = "update"
  /\ tok[r] \notin Rows \ revoked
  /\ Goto(r, "lookup")
  /\ UNCHANGED <<chainOf, revoked, expired, tok, locks, todo, attempt>>

(* The reuse SELECT: a row that exists was already revoked. *)
LookUp(r) ==
  /\ pc[r] = "lookup"
  /\ Goto(r, IF tok[r] \in Rows THEN "burn" ELSE "unknown")
  /\ UNCHANGED <<chainOf, revoked, expired, tok, locks, todo, attempt>>

(* An expired token is consumed all the same, and gets no successor. *)
RotateExpired(r) ==
  /\ pc[r] = "won"
  /\ tok[r] \in expired
  /\ revoked' = revoked \cup locks[r]
  /\ Release(r)
  /\ Goto(r, "expired")
  /\ UNCHANGED <<chainOf, expired, tok, attempt>>

RotateFresh(r) ==
  /\ pc[r] = "won"
  /\ tok[r] \notin expired
  /\ Goto(r, "mint")
  /\ UNCHANGED <<chainOf, revoked, expired, tok, locks, todo, attempt>>

(* issue_refresh(commit=False) and the one commit that makes the revoked   *)
(* parent and its successor visible together.                              *)
RotateCommit(r) ==
  /\ pc[r] = "mint"
  /\ revoked' = revoked \cup locks[r]
  /\ chainOf' = [chainOf EXCEPT ![r] = chainOf[tok[r]]]
  /\ Release(r)
  /\ Goto(r, "answer")
  /\ UNCHANGED <<expired, tok, attempt>>

-----------------------------------------------------------------------------
(* _revoke_chain *)

(* The chain-wide UPDATE starts: its snapshot holds the rows committed now. *)
BurnStart(r) ==
  /\ pc[r] = "burn"
  /\ todo' = [todo EXCEPT ![r] = RowsOf(chainOf[tok[r]])]
  /\ Goto(r, "burning")
  /\ UNCHANGED <<chainOf, revoked, expired, tok, locks, attempt>>

BurnRow(r) ==
  /\ pc[r] = "burning"
  /\ \E t \in todo[r] \ locks[r] :
       /\ ~LockedByOther(r, t)
       /\ locks' = [locks EXCEPT ![r] = @ \cup {t}]
  /\ UNCHANGED <<chainOf, revoked, expired, pc, tok, todo, attempt>>

BurnCommit(r) ==
  /\ pc[r] = "burning"
  /\ todo[r] \subseteq locks[r]
  /\ revoked' = revoked \cup locks[r]
  /\ Release(r)
  /\ Goto(r, "reuse")
  /\ UNCHANGED <<chainOf, expired, tok, attempt>>

(* The requests whose open transaction holds a row d still has to write. *)
WaitsFor(d) == {e \in Requests \ {d} : (todo[d] \ locks[d]) \cap locks[e] # {}}

(* e is among those that d waits for, directly or through others. *)
WaitsThrough(d, e) ==
  \A S \in SUBSET Requests :
    (\A x \in S \cup {d} : WaitsFor(x) \subseteq S) => e \in S

(* Only burns wait while they hold a row: a circle is one of burns. *)
InDeadlock(r) == WaitsThrough(r, r)

(* The victim of a deadlock rolls back and retries once, then gives up. *)
Retry(r) ==
  /\ attempt' = [attempt EXCEPT ![r] = 1]
  /\ Goto(r, IF attempt[r] = 0 THEN "burn" ELSE "swallowed")

BurnDeadlock(r) ==
  /\ pc[r] = "burning"
  /\ InDeadlock(r)
  /\ Release(r)
  /\ Retry(r)
  /\ UNCHANGED <<chainOf, revoked, expired, tok>>

(* The UPDATE of a rotation or a logout that is first in the queue for a   *)
(* row is waited for by those behind it.  If one of these is a burn that   *)
(* the row's holder waits for, the circle leads through the queue, and its *)
(* victim may be this UPDATE, whose error no handler catches: a 500.  (A   *)
(* rotation that finds the row revoked already does not wait for it.)      *)
QueuedInDeadlock(r) ==
  \E d, e \in Requests :
    /\ tok[r] \in locks[d]
    /\ tok[r] \in todo[e] \ locks[e]
    /\ WaitsThrough(d, e)

UpdateDeadlock(r) ==
  /\ \/ pc[r] = "update" /\ tok[r] \notin revoked
     \/ pc[r] = "logout"
  /\ QueuedInDeadlock(r)
  /\ Goto(r, "error")
  /\ UNCHANGED <<chainOf, revoked, expired, tok, locks, todo, attempt>>

(* Any other database error is not retried: roll back and swallow it. *)
BurnGiveUp(r) ==
  /\ r \in Unreliable
  /\ pc[r] \in {"burn", "burning"}
  /\ Release(r)
  /\ Goto(r, "swallowed")
  /\ UNCHANGED <<chainOf, revoked, expired, tok, attempt>>

-----------------------------------------------------------------------------
(* revoke_refresh: one UPDATE without a revoked guard, and its commit.  It *)
(* waits for the row like any other UPDATE; nothing happens between the    *)
(* two statements that another transaction could tell apart.               *)

Logout(r) ==
  /\ pc[r] = "logout"
  /\ ~LockedByOther(r, tok[r])
  /\ revoked' = revoked \cup ({tok[r]} \cap Rows)
  /\ Goto(r, "loggedOut")
  /\ UNCHANGED <<chainOf, expired, tok, locks, todo, attempt>>

-----------------------------------------------------------------------------
(* The end of a request that has minted a token: token_refresh selects the *)
(* user and signs an access token, login and exchange only respond.        *)

Respond(r) ==
  /\ pc[r] = "answer"
  /\ Goto(r, "ok")
  /\ UNCHANGED <<chainOf, revoked, expired, tok, locks, todo, attempt>>

LoseResponse(r) ==
  /\ r \in Unreliable
  /\ pc[r] = "answer"
  /\ Goto(r, "lost")
  /\ UNCHANGED <<chainOf, revoked, expired, tok, locks, todo, attempt>>

(* The process dies, or a database error no handler catches: PostgreSQL    *)
(* rolls the open transaction back.                                        *)
Abort(r) ==
  /\ r \in Unreliable
  /\ pc[r] \in Running \ {"answer"}
  /\ Release(r)
  /\ Goto(r, "error")
  /\ UNCHANGED <<chainOf, revoked, expired, tok, attempt>>

(* Time passes the expires_at of a token (of a revoked one nobody asks). *)
Expire(t) ==
  /\ t \in Rows \ (revoked \cup expired)
  /\ expired' = expired \cup {t}
  /\ UNCHANGED <<chainOf, revoked, pc, tok, locks, todo, attempt>>

Terminating ==
  /\ \A r \in Requests : pc[r] \in Answered
  /\ UNCHANGED vars

(* What the server does with a request by itself. *)
Serve(r) ==
  \/ IssueRefresh(r)
  \/ RotateWin(r)
  \/ RotateMiss(r)
  \/ LookUp(r)
  \/ RotateExpired(r)
  \/ RotateFresh(r)
  \/ RotateCommit(r)
  \/ BurnStart(r)
  \/ BurnRow(r)
  \/ BurnCommit(r)
  \/ BurnDeadlock(r)
  \/ UpdateDeadlock(r)
  \/ Logout(r)
  \/ Respond(r)

(* What the environment does to it. *)
Environment(r) ==
  \/ Login(r)
  \/ PresentForRefresh(r)
  \/ PresentForLogout(r)
  \/ BurnGiveUp(r)
  \/ LoseResponse(r)
  \/ Abort(r)
  \/ Expire(r)

Next ==
  \/ \E r \in Requests : Serve(r)
  \/ \E r \in Requests : Environment(r)
  \/ Terminating

(* The event loop and PostgreSQL keep every request that can move moving;  *)
(* no client, failure or clock step is promised.                           *)
Fairness == \A r \in Requests : WF_vars(Serve(r))

Spec == Init /\ [][Next]_vars

FairSpec == Spec /\ Fairness

-----------------------------------------------------------------------------
(* Properties *)

(* The shape of the state. *)
TypeOK ==
  /\ chainOf \in [Requests -> Requests \cup {None}]
  /\ revoked \subseteq Requests
  /\ expired \subseteq Requests
  /\ pc \in [Requests -> Running \cup Answered \cup {"idle"}]
  /\ tok \in [Requests -> Requests \cup {None}]
  /\ locks \in [Requests -> SUBSET Requests]
  /\ todo \in [Requests -> SUBSET Requests]
  /\ attempt \in [Requests -> {0, 1}]

(* A chain never has two usable tokens, whatever rotations, burns, logouts *)
(* and crashes overlap: a stolen token cannot fork the session             *)
(* (rotate_refresh's conditional UPDATE fused with the insert).            *)
AtMostOneActive ==
  \A c \in Requests : \A s, t \in ActiveIn(c) : s = t

(* No token is ever exchanged for two successors, by any number of         *)
(* concurrent or later presentations of it (the single conditional UPDATE  *)
(* of rotate_refresh).                                                     *)
SingleUse ==
  \A r, s \in Rows : tok[r] # None /\ tok[r] = tok[s] => r = s

(* A session is never lost by accident: a chain keeps a usable token until *)
(* some request of that very chain was answered expired, reused or logged  *)
(* out.  Rotations that crash half way, and whatever happens to other      *)
(* chains, cannot end it (the fused commit of rotate_refresh; the WHERE    *)
(* chain_id of _revoke_chain).                                             *)
EndedBy(c) ==
  {r \in Requests : pc[r] \in {"expired", "reuse", "loggedOut"}
                      /\ Chain(tok[r]) = c}

SessionNotLost ==
  \A c \in Requests :
    RowsOf(c) # {} /\ EndedBy(c) = {} => ActiveIn(c) # {}

(* Whoever is answered "reuse" has killed what the token he presented was  *)
(* exchanged for: the burn's snapshot cannot miss that successor, because  *)
(* it was committed together with the parent's revocation                  *)
(* (rotate_refresh; test_concurrent_rotation_no_valid_children_explosion). *)
ReplayKillsSuccessor ==
  \A r \in Requests : \A s \in Rows :
    pc[r] = "reuse" /\ tok[s] = tok[r] => s \in revoked

(* Nobody is taken for a thief without cause: a request that burns a chain *)
(* (rotate_refresh's reuse branch) implies that some token of that chain   *)
(* was presented twice.                                                    *)
NoFalseBurn ==
  \A r \in Requests :
    pc[r] \in {"burn", "burning", "reuse", "swallowed"} =>
      \E s, t \in Requests :
        /\ s # t
        /\ tok[s] # None
        /\ tok[s] = tok[t]
        /\ Chain(tok[s]) = Chain(tok[r])

(* A burn that _revoke_chain gave up and swallowed is made good by another *)
(* one (the comment in its except clause): once every request is answered, *)
(* somebody did revoke that chain, unless an outright failure, not only a  *)
(* lost deadlock, has hit a request that presented a token of it: neither  *)
(* burns nor the rotations and logouts queued behind them can all lose.    *)
SwallowedBurnCovered ==
  (\A r \in Requests : pc[r] \in Answered \cup {"idle"}) =>
    \A r \in Requests :
      pc[r] = "swallowed" =>
        \E s \in Requests :
          /\ \/ pc[s] = "reuse"
             \/ s \in Unreliable /\ pc[s] \in {"swallowed", "error"}
          /\ Chain(tok[s]) = Chain(tok[r])

(* After a reuse answered 401 the whole chain is revoked (the docstring of *)
(* refresh.py: "the entire chain ... is revoked").                         *)
BurnIsTotal ==
  \A r \in Requests : pc[r] = "reuse" => ActiveIn(Chain(tok[r])) = {}

(* Every request that arrived is answered: lock waits end, deadlocks are   *)
(* broken, and a burn is retried only once.                                *)
EveryRequestAnswered ==
  \A r \in Requests : pc[r] # "idle" ~> pc[r] \in Answered

(* What a client can rely on, as a specification of its own: a chain is a  *)
(* rotating session whose one live token is replaced or ended, and which   *)
(* never comes back once it has ended.                                     *)
Session == INSTANCE RotatingSession WITH
  Tokens <- Requests,
  live <- [c \in Requests |-> ActiveIn(c)],
  spent <- revoked

RotatesSessions == Session!Spec

=============================================================================
